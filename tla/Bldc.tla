-------------------------------- MODULE Bldc --------------------------------
(***************************************************************************)
(* Commutation of the brushless motor: main of mini5D_BLDC_main.c, the     *)
(* functions of Mini5D_fly.c and the interrupt of timer 1.                 *)
(*                                                                         *)
(* The power stage conducts as the register PHCHG says: through the upper  *)
(* switch of one phase of the motor and the lower switch of another.  When *)
(* timer 0 matches, the hardware loads PHCHG from PHCHGNXT, if the value   *)
(* in PHCHG allows it (T0_TRG_PWM_EN).  The interrupt of timer 1 puts the  *)
(* next phase into PHCHGNXT; the main program starts, stops and beeps by   *)
(* writing both registers, and is interrupted anywhere.                    *)
(*                                                                         *)
(* main sets Duty_Target to 15 % in each round (line 172, "for testing").  *)
(* What depends on another target is unreachable and left out: the restart *)
(* of lines 174-177, the limit for the first steps and the stop in         *)
(* BLDC_Add_Duty.                                                          *)
(***************************************************************************)
EXTENDS Integers, Sequences

CONSTANTS
  PeriodMax,     \* 60 ms
  PeriodMin,     \* 40 us, 250 000 rpm
  PeriodStop,    \* 11 s: no speed
  StartDelay,    \* 600 us from BLDC_Start to the first interrupt
  Duty_Min, Duty_Target,
  StepMax        \* bound of the check: StepCount counts up to here

ASSUME BldcAssumption ==
  /\ PeriodMax \in Nat /\ PeriodMin \in 1 .. PeriodMax /\ PeriodStop \in Nat
  /\ PeriodStop > PeriodMax /\ StartDelay \in Nat
  /\ Duty_Min \in Nat /\ Duty_Target \in Nat /\ Duty_Target > Duty_Min /\ StepMax \in Nat

VARIABLES
  PHCHG, PHCHGNXT,  \* phase, and whether timer 0 may replace it
  T_IE,             \* timer 1 may interrupt
  t0,               \* timer 0 "off", "long" (since BLDC_Start) or "short"
  next,             \* which timer comes next: "T0" or "T1"
  pPhase,           \* index into TabPhase
  PeriodNow, StepCount, Duty_Current, CMR0, OutImg,
  pc, after,        \* where main is, and where BLDC_STOP returns to
  beeps             \* beeps made since the reset

regs == << PHCHG, PHCHGNXT, T_IE, t0, next >>
data == << pPhase, PeriodNow, StepCount, Duty_Current, CMR0, OutImg >>
vars == << regs, data, pc, after, beeps >>

\* Upper and lower switch of each entry of TabPhase; entry 0 repeats the last.
TabPhase == << << "A", "B" >>, << "A", "C" >>, << "B", "C" >>,
               << "B", "A" >>, << "C", "A" >>, << "C", "B" >> >>
pPhaseEnd == 6
Shut_All_MOS == [phase |-> 0, trg |-> FALSE]
Entry(i) == [phase |-> i, trg |-> TRUE]
WithoutTrigger(i) == [phase |-> i, trg |-> FALSE]

Init ==
  /\ PHCHG = Shut_All_MOS /\ PHCHGNXT = Shut_All_MOS
  /\ T_IE = FALSE /\ t0 = "off" /\ next = "T1" /\ pPhase = 1
  /\ PeriodNow = 0 /\ StepCount = 0 /\ Duty_Current = Duty_Target /\ CMR0 = 0
  /\ OutImg = Shut_All_MOS
  /\ pc = "beep" /\ after = "beep" /\ beeps = 0

Goto(from, to) == pc = from /\ pc' = to

(***************************************************************************)
(* The hardware, external: timer 0.  It starts again after each match; a   *)
(* second match loads the same value unless main has changed it.           *)
(***************************************************************************)
Timer0 ==
  /\ t0 = "short" /\ PHCHG.trg
  /\ PHCHG' = PHCHGNXT /\ next' = "T1"
  /\ UNCHANGED << PHCHGNXT, T_IE, t0, data, pc, after, beeps >>

(***************************************************************************)
(* TMR1_IRQHandler.  It waits for the zero crossing at most two periods;   *)
(* meanwhile timer 0 is kept from matching.  At its end the next match of  *)
(* timer 0 is 3/8 and its own next interrupt 3/4 of a period away; the     *)
(* first interrupt comes 600 us after BLDC_Start.                          *)
(***************************************************************************)
MinOf(a, b) == IF a < b THEN a ELSE b
Elapsed == (IF t0 = "long" THEN StartDelay ELSE (3 * PeriodNow) \div 4) .. (11 * PeriodNow) \div 4

NextPhase == IF pPhase + 1 > pPhaseEnd THEN pPhase - 5 ELSE pPhase + 1

TMR1_IRQHandler ==
  /\ T_IE /\ next = "T1" /\ pc \notin {"start_step", "start_next", "start_now"}
  /\ \E PeriodLast \in Elapsed :
       PeriodNow' = MinOf(PeriodMax, (PeriodNow + PeriodLast) \div 2)
  /\ StepCount' \in {StepCount, MinOf(StepCount + 1, StepMax)}
  /\ pPhase' = NextPhase /\ PHCHGNXT' = Entry(pPhase')
  /\ t0' = "short" /\ next' = "T0"
  /\ UNCHANGED << PHCHG, T_IE, Duty_Current, CMR0, OutImg, pc, after, beeps >>

(***************************************************************************)
(* BLDC_STOP, statement by statement.                                      *)
(***************************************************************************)
CallStop(from, return) == Goto(from, "stop") /\ after' = return

StopInterrupt ==
  /\ Goto("stop", "stop_next") /\ T_IE' = FALSE
  /\ UNCHANGED << PHCHG, PHCHGNXT, t0, next, data, after, beeps >>

\* Mutant: only the register of the outputs is written.
StopNextForgotten ==
  /\ Goto("stop_next", "stop_now") /\ UNCHANGED << regs, data, after, beeps >>

StopNext ==
  /\ Goto("stop_next", "stop_now") /\ PHCHGNXT' = Shut_All_MOS
  /\ UNCHANGED << PHCHG, T_IE, t0, next, data, after, beeps >>

\* Mutant: BLDC_STOP leaves the outputs to timer 0.
StopNowForgotten ==
  /\ Goto("stop_now", after) /\ PeriodNow' = PeriodStop
  /\ UNCHANGED << regs, pPhase, StepCount, Duty_Current, CMR0, OutImg, after, beeps >>

StopNow ==
  /\ Goto("stop_now", after) /\ PHCHG' = Shut_All_MOS /\ PeriodNow' = PeriodStop
  /\ UNCHANGED << PHCHGNXT, T_IE, t0, next, pPhase, StepCount, Duty_Current, CMR0, OutImg,
                  after, beeps >>

(***************************************************************************)
(* Motor_Beep: the entry three further on drives the same windings the     *)
(* other way.  main beeps twice, twice more to learn the throttle, and     *)
(* once at the end.                                                        *)
(***************************************************************************)
Sound(i) == PHCHG' = WithoutTrigger(i) /\ UNCHANGED << PHCHGNXT, T_IE, t0, next >>

BeepUp ==
  /\ Goto("beep", "beep_shut") /\ CMR0' = Duty_Current
  /\ pPhase' = IF pPhase > pPhaseEnd - 3 THEN pPhaseEnd - 5 ELSE pPhase
  /\ Sound(pPhase' + 3)
  /\ UNCHANGED << PeriodNow, StepCount, Duty_Current, OutImg, after, beeps >>

BeepShut ==
  /\ CallStop("beep_shut", "beep_down") /\ UNCHANGED << regs, data, beeps >>

BeepDown ==
  /\ Goto("beep_down", "beep_shut2") /\ Sound(pPhase)
  /\ UNCHANGED << data, after, beeps >>

BeepShut2 ==
  /\ \/ CallStop("beep_shut2", "beep") /\ UNCHANGED << pPhase, beeps >>
     \/ CallStop("beep_shut2", "beeped") /\ UNCHANGED pPhase /\ beeps' = beeps + 1
  /\ UNCHANGED << regs, PeriodNow, StepCount, Duty_Current, CMR0, OutImg >>

\* ++pPhase after the first beep; the throttle is learned after the second.
NextBeep ==
  /\ \/ pc = "beeped" /\ beeps < 5 /\ pc' = "beep" /\ UNCHANGED << after, beeps >>
     \/ pc = "beeped" /\ beeps = 2 /\ pc' = "beep" /\ beeps' = 4 /\ UNCHANGED after
     \/ CallStop("beeped", "control") /\ beeps = 5 /\ UNCHANGED beeps
  /\ pPhase' = IF beeps = 1 THEN pPhase + 1 ELSE pPhase
  /\ UNCHANGED << regs, PeriodNow, StepCount, Duty_Current, CMR0, OutImg >>

(***************************************************************************)
(* BLDC_Control and BLDC_Start.  The first interrupt comes 600 us after    *)
(* BLDC_Start has enabled it, when BLDC_Start has long returned.           *)
(***************************************************************************)
Prepare ==
  /\ Goto("control", "start") /\ ~T_IE
  /\ CMR0' = Duty_Min /\ Duty_Current' = Duty_Min /\ pPhase' = 1
  /\ UNCHANGED << regs, PeriodNow, StepCount, OutImg, after, beeps >>

StartTimers ==
  /\ Goto("start", "start_step") /\ PeriodNow' = PeriodMax
  /\ t0' = "long" /\ next' = "T1" /\ T_IE' = TRUE
  /\ UNCHANGED << PHCHG, PHCHGNXT, pPhase, StepCount, Duty_Current, CMR0, OutImg, after, beeps >>

StartSteps ==
  /\ Goto("start_step", "start_next") /\ StepCount' = 0
  /\ UNCHANGED << regs, pPhase, PeriodNow, Duty_Current, CMR0, OutImg, after, beeps >>

StartNext ==
  /\ Goto("start_next", "start_now") /\ PHCHGNXT' = Entry(pPhase)
  /\ UNCHANGED << PHCHG, T_IE, t0, next, data, after, beeps >>

StartNow ==
  /\ Goto("start_now", "overspeed") /\ PHCHG' = Entry(pPhase)
  /\ UNCHANGED << PHCHGNXT, T_IE, t0, next, data, after, beeps >>

\* BLDC_Add_Duty adds DutyInc when its delay is over.
Raised(duty) == IF Duty_Target <= duty THEN {Duty_Target} ELSE {duty, duty + 1}

Regulate ==
  /\ Goto("control", "update") /\ T_IE /\ OutImg' = PHCHG
  /\ Duty_Current' \in Raised(IF OutImg # PHCHG /\ Duty_Current < Duty_Target
                              THEN Duty_Current + 1 ELSE Duty_Current)
  /\ UNCHANGED << regs, pPhase, PeriodNow, StepCount, CMR0, after, beeps >>

Update ==
  /\ Goto("update", "overspeed") /\ CMR0' = Duty_Current
  /\ UNCHANGED << regs, pPhase, PeriodNow, StepCount, Duty_Current, OutImg, after, beeps >>

\* Line 181: faster than 250 000 rpm means that the motor is not seen turning.
Overspeed ==
  /\ \/ PeriodNow < PeriodMin /\ CallStop("overspeed", "control")
     \/ PeriodNow >= PeriodMin /\ Goto("overspeed", "control") /\ UNCHANGED after
  /\ UNCHANGED << regs, data, beeps >>

main ==
  \/ StopInterrupt \/ StopNext \/ StopNow
  \/ BeepUp \/ BeepShut \/ BeepDown \/ BeepShut2 \/ NextBeep
  \/ Prepare \/ StartTimers \/ StartSteps \/ StartNext \/ StartNow
  \/ Regulate \/ Update \/ Overspeed

Next == main \/ TMR1_IRQHandler \/ Timer0

Spec == Init /\ [][Next]_vars

(***************************************************************************)
(* Properties.                                                             *)
(***************************************************************************)
TypeOK ==
  /\ PHCHG \in [phase : 0 .. 6, trg : BOOLEAN] /\ PHCHGNXT \in [phase : 0 .. 6, trg : BOOLEAN]
  /\ T_IE \in BOOLEAN /\ t0 \in {"off", "long", "short"} /\ next \in {"T0", "T1"}
  /\ pPhase \in 1 .. pPhaseEnd
  /\ PeriodNow \in 0 .. PeriodMax \cup {PeriodStop}
  /\ StepCount \in 0 .. StepMax /\ Duty_Current \in Duty_Min .. Duty_Target
  /\ CMR0 \in {0} \cup Duty_Min .. Duty_Target
  /\ beeps \in 0 .. 5

Upper(r) == IF r.phase = 0 THEN "none" ELSE TabPhase[r.phase][1]
Lower(r) == IF r.phase = 0 THEN "none" ELSE TabPhase[r.phase][2]

(* No write to PHCHG turns a phase straight from its upper to its lower    *)
(* switch or back, which would short the supply while one switch opens and *)
(* the other closes: the commutation never skips an entry of TabPhase, and *)
(* the beep shuts all switches between its two directions.                 *)
NoShootThrough ==
  [][/\ Upper(PHCHG) # "none" => Lower(PHCHG') # Upper(PHCHG)
     /\ Lower(PHCHG) # "none" => Upper(PHCHG') # Lower(PHCHG)]_PHCHG

(* After BLDC_STOP the motor is free and stays so until it is started: no  *)
(* switch is closed, and neither timer can close one, wherever between its *)
(* statements timer 0 or the interrupt of timer 1 came.                    *)
StoppedIsOff ==
  pc \in {"control", "start", "beep", "beeped"} /\ ~T_IE =>
    PHCHG = Shut_All_MOS /\ PHCHGNXT = Shut_All_MOS
=============================================================================
