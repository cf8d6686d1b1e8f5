----------------------------- MODULE BldcProofs -----------------------------
(***************************************************************************)
(* Proofs about Bldc, for all periods and duties.  The inductive invariant *)
(* says where the interrupt is enabled (Enabled), that nothing is driven   *)
(* where the motor is off (Off), that the beep stays in the first half of  *)
(* the table (Beeping), and, while the motor turns, that PHCHGNXT is at    *)
(* most one entry ahead of PHCHG (Turning).                                *)
(***************************************************************************)
EXTENDS Bldc, TLAPS

Stopping == {"stop", "stop_next", "stop_now"}
Starting == {"start_step", "start_next", "start_now"}
BeepReturns == {"beep_down", "beep", "beeped"}

Places ==
  /\ pc \in {"beep", "beep_shut", "beep_down", "beep_shut2", "beeped", "control", "start",
             "update", "overspeed"} \cup Stopping \cup Starting
  /\ after \in BeepReturns \cup {"control"}
  /\ pc \in {"beep", "beep_shut", "beep_down", "beep_shut2"}
     \/ (pc \in Stopping /\ after \in {"beep_down", "beep"}) => beeps < 5

Enabled ==
  /\ pc \in Starting \cup {"update", "overspeed"} => T_IE
  /\ pc \in {"beep", "beep_shut", "beep_down", "beep_shut2", "beeped", "start",
             "stop_next", "stop_now"} => ~T_IE
  /\ pc = "stop" /\ after # "control" => ~T_IE

Off ==
  /\ pc \in {"beep", "beep_down", "beeped", "start", "start_step", "start_next", "start_now"}
       => PHCHG = Shut_All_MOS
  /\ pc = "control" /\ ~T_IE => PHCHG = Shut_All_MOS
  /\ ~T_IE /\ pc # "stop_next" /\ (pc = "stop" => after # "control") => PHCHGNXT = Shut_All_MOS

Beeping ==
  pc \in {"beep_shut", "beep_down", "beep_shut2", "beeped"}
  \/ (pc \in Stopping /\ after \in BeepReturns) => pPhase \in 1 .. 3

Follows(i) == IF i = pPhaseEnd THEN 1 ELSE i + 1

Turning ==
  /\ pc \in Starting => next = "T1"
  /\ pc = "start_now" => PHCHGNXT = Entry(pPhase)
  /\ T_IE /\ pc \notin Starting => PHCHG.trg
  /\ PHCHG.trg => PHCHG.phase \in 1 .. 6
  /\ PHCHG.trg /\ pc # "stop_now" =>
       /\ PHCHGNXT = Entry(pPhase)
       /\ pPhase = IF next = "T0" THEN Follows(PHCHG.phase) ELSE PHCHG.phase

IInv == TypeOK /\ Places /\ Enabled /\ Off /\ Beeping /\ Turning

USE BldcAssumption

\* The interrupt keeps the period between 0 and PeriodMax.
LEMMA PeriodBounded ==
  ASSUME NEW p \in 0 .. PeriodMax \cup {PeriodStop},
         NEW low \in {StartDelay, (3 * p) \div 4}, NEW q \in low .. (11 * p) \div 4
  PROVE  MinOf(PeriodMax, (p + q) \div 2) \in 0 .. PeriodMax
<1>1. p \in Nat /\ 3 * p \in Nat /\ 11 * p \in Nat
  BY DEF BldcAssumption
<1>2. low \in Nat /\ (11 * p) \div 4 \in Nat
  BY <1>1 DEF BldcAssumption
<1>3. q \in Nat
  BY <1>2
<1>4. (p + q) \div 2 \in Nat
  BY <1>1, <1>3
<1> QED
  BY <1>4 DEF MinOf, BldcAssumption

LEMMA InitEstablishes == Init => IInv
<1> SUFFICES ASSUME Init PROVE IInv
  OBVIOUS
<1> USE DEF Init, Shut_All_MOS, Stopping, Starting, BeepReturns, pPhaseEnd
<1>1. PHCHG \in [phase : 0 .. 6, trg : BOOLEAN] /\ PHCHGNXT \in [phase : 0 .. 6, trg : BOOLEAN]
  OBVIOUS
<1>2. /\ PeriodNow \in 0 .. PeriodMax /\ StepCount \in 0 .. StepMax
      /\ Duty_Current \in Duty_Min .. Duty_Target
  BY DEF BldcAssumption
<1>3. TypeOK
  <2>1. T_IE \in BOOLEAN /\ t0 \in {"off", "long", "short"} /\ next \in {"T0", "T1"}
    OBVIOUS
  <2>2. pPhase \in 1 .. pPhaseEnd /\ CMR0 = 0 /\ beeps \in 0 .. 5
    OBVIOUS
  <2> QED
    BY <1>1, <1>2, <2>1, <2>2 DEF TypeOK
<1>4. Places /\ Enabled /\ Off /\ Beeping /\ Turning
  BY DEF Places, Enabled, Off, Beeping, Turning
<1> QED
  BY <1>3, <1>4 DEF IInv

LEMMA NextPreserves == IInv /\ [Next]_vars => IInv'
<1> SUFFICES ASSUME IInv, [Next]_vars PROVE IInv'
  OBVIOUS
<1> USE DEF IInv, Places, Enabled, Off, Beeping, Turning, Stopping, Starting, BeepReturns, Follows,
            Goto, CallStop, Shut_All_MOS, Entry, WithoutTrigger, Sound, pPhaseEnd, regs, data
<1>1. CASE StopInterrupt
  <2>1. TypeOK'
    BY <1>1 DEF StopInterrupt, TypeOK
  <2>2. Places'
    BY <1>1 DEF StopInterrupt, TypeOK
  <2>3. Enabled' /\ Off'
    BY <1>1 DEF StopInterrupt
  <2>4. Beeping'
    BY <1>1 DEF StopInterrupt, TypeOK
  <2>5. Turning'
    BY <1>1 DEF StopInterrupt, TypeOK
  <2> QED
    BY <2>1, <2>2, <2>3, <2>4, <2>5
<1>2. CASE StopNext
  <2>1. TypeOK'
    BY <1>2 DEF StopNext, TypeOK
  <2>2. Places'
    BY <1>2 DEF StopNext, TypeOK
  <2>3. Enabled' /\ Off'
    BY <1>2 DEF StopNext
  <2>4. Beeping'
    BY <1>2 DEF StopNext, TypeOK
  <2>5. Turning'
    BY <1>2 DEF StopNext, TypeOK
  <2> QED
    BY <2>1, <2>2, <2>3, <2>4, <2>5
<1>3. CASE StopNow
  <2>1. TypeOK'
    BY <1>3 DEF StopNow, TypeOK
  <2>2. Places'
    BY <1>3 DEF StopNow, TypeOK
  <2>3. Enabled' /\ Off'
    BY <1>3 DEF StopNow
  <2>4. Beeping'
    BY <1>3 DEF StopNow, TypeOK
  <2>5. Turning'
    BY <1>3 DEF StopNow, TypeOK
  <2> QED
    BY <2>1, <2>2, <2>3, <2>4, <2>5
<1>4. CASE BeepUp
  <2>1. TypeOK'
    BY <1>4 DEF BeepUp, TypeOK, BldcAssumption
  <2>2. Places'
    BY <1>4 DEF BeepUp, TypeOK
  <2>3. Enabled' /\ Off'
    BY <1>4 DEF BeepUp
  <2>4. Beeping'
    BY <1>4 DEF BeepUp, TypeOK, BldcAssumption
  <2>5. Turning'
    BY <1>4 DEF BeepUp, TypeOK, BldcAssumption
  <2> QED
    BY <2>1, <2>2, <2>3, <2>4, <2>5
<1>5. CASE BeepShut
  <2>1. TypeOK'
    BY <1>5 DEF BeepShut, TypeOK
  <2>2. Places'
    BY <1>5 DEF BeepShut, TypeOK
  <2>3. Enabled' /\ Off'
    BY <1>5 DEF BeepShut
  <2>4. Beeping'
    BY <1>5 DEF BeepShut, TypeOK
  <2>5. Turning'
    BY <1>5 DEF BeepShut, TypeOK
  <2> QED
    BY <2>1, <2>2, <2>3, <2>4, <2>5
<1>6. CASE BeepDown
  <2>1. TypeOK'
    BY <1>6 DEF BeepDown, TypeOK
  <2>2. Places'
    BY <1>6 DEF BeepDown, TypeOK
  <2>3. Enabled' /\ Off'
    BY <1>6 DEF BeepDown
  <2>4. Beeping'
    BY <1>6 DEF BeepDown, TypeOK
  <2>5. Turning'
    BY <1>6 DEF BeepDown, TypeOK
  <2> QED
    BY <2>1, <2>2, <2>3, <2>4, <2>5
<1>7. CASE BeepShut2
  <2>1. TypeOK'
    BY <1>7 DEF BeepShut2, TypeOK
  <2>2. Places'
    BY <1>7 DEF BeepShut2, TypeOK
  <2>3. Enabled' /\ Off'
    BY <1>7 DEF BeepShut2
  <2>4. Beeping'
    BY <1>7 DEF BeepShut2, TypeOK
  <2>5. Turning'
    BY <1>7 DEF BeepShut2, TypeOK
  <2> QED
    BY <2>1, <2>2, <2>3, <2>4, <2>5
<1>8. CASE NextBeep
  <2>1. TypeOK'
    BY <1>8 DEF NextBeep, TypeOK, BldcAssumption
  <2>2. Places'
    BY <1>8 DEF NextBeep, TypeOK
  <2>3. Enabled' /\ Off'
    BY <1>8 DEF NextBeep
  <2>4. Beeping'
    BY <1>8 DEF NextBeep, TypeOK, BldcAssumption
  <2>5. Turning'
    BY <1>8 DEF NextBeep, TypeOK, BldcAssumption
  <2> QED
    BY <2>1, <2>2, <2>3, <2>4, <2>5
<1>9. CASE Prepare
  <2>1. TypeOK'
    BY <1>9 DEF Prepare, TypeOK, BldcAssumption
  <2>2. Places'
    BY <1>9 DEF Prepare, TypeOK
  <2>3. Enabled' /\ Off'
    BY <1>9 DEF Prepare
  <2>4. Beeping'
    BY <1>9 DEF Prepare, TypeOK, BldcAssumption
  <2>5. Turning'
    BY <1>9 DEF Prepare, TypeOK, BldcAssumption
  <2> QED
    BY <2>1, <2>2, <2>3, <2>4, <2>5
<1>10. CASE StartTimers
  <2>1. TypeOK'
    BY <1>10 DEF StartTimers, TypeOK
  <2>2. Places'
    BY <1>10 DEF StartTimers, TypeOK
  <2>3. Enabled' /\ Off'
    BY <1>10 DEF StartTimers
  <2>4. Beeping'
    BY <1>10 DEF StartTimers, TypeOK
  <2>5. Turning'
    BY <1>10 DEF StartTimers, TypeOK
  <2> QED
    BY <2>1, <2>2, <2>3, <2>4, <2>5
<1>11. CASE StartSteps
  <2>1. TypeOK'
    BY <1>11 DEF StartSteps, TypeOK
  <2>2. Places'
    BY <1>11 DEF StartSteps, TypeOK
  <2>3. Enabled' /\ Off'
    BY <1>11 DEF StartSteps
  <2>4. Beeping'
    BY <1>11 DEF StartSteps, TypeOK
  <2>5. Turning'
    BY <1>11 DEF StartSteps, TypeOK
  <2> QED
    BY <2>1, <2>2, <2>3, <2>4, <2>5
<1>12. CASE StartNext
  <2>1. TypeOK'
    BY <1>12 DEF StartNext, TypeOK
  <2>2. Places'
    BY <1>12 DEF StartNext, TypeOK
  <2>3. Enabled' /\ Off'
    BY <1>12 DEF StartNext
  <2>4. Beeping'
    BY <1>12 DEF StartNext, TypeOK
  <2>5. Turning'
    BY <1>12 DEF StartNext, TypeOK
  <2> QED
    BY <2>1, <2>2, <2>3, <2>4, <2>5
<1>13. CASE StartNow
  <2>1. TypeOK'
    BY <1>13 DEF StartNow, TypeOK
  <2>2. Places'
    BY <1>13 DEF StartNow, TypeOK
  <2>3. Enabled' /\ Off'
    BY <1>13 DEF StartNow
  <2>4. Beeping'
    BY <1>13 DEF StartNow, TypeOK
  <2>5. Turning'
    BY <1>13 DEF StartNow, TypeOK
  <2> QED
    BY <2>1, <2>2, <2>3, <2>4, <2>5
<1>14. CASE Regulate
  <2>1. TypeOK'
    BY <1>14 DEF Regulate, TypeOK, Raised, BldcAssumption
  <2>2. Places'
    BY <1>14 DEF Regulate, TypeOK
  <2>3. Enabled' /\ Off'
    BY <1>14 DEF Regulate
  <2>4. Beeping'
    BY <1>14 DEF Regulate, TypeOK, Raised, BldcAssumption
  <2>5. Turning'
    BY <1>14 DEF Regulate, TypeOK, Raised, BldcAssumption
  <2> QED
    BY <2>1, <2>2, <2>3, <2>4, <2>5
<1>15. CASE Update
  <2>1. TypeOK'
    BY <1>15 DEF Update, TypeOK
  <2>2. Places'
    BY <1>15 DEF Update, TypeOK
  <2>3. Enabled' /\ Off'
    BY <1>15 DEF Update
  <2>4. Beeping'
    BY <1>15 DEF Update, TypeOK
  <2>5. Turning'
    BY <1>15 DEF Update, TypeOK
  <2> QED
    BY <2>1, <2>2, <2>3, <2>4, <2>5
<1>16. CASE Overspeed
  <2>1. TypeOK'
    BY <1>16 DEF Overspeed, TypeOK
  <2>2. Places'
    BY <1>16 DEF Overspeed, TypeOK
  <2>3. Enabled' /\ Off'
    BY <1>16 DEF Overspeed
  <2>4. Beeping'
    BY <1>16 DEF Overspeed, TypeOK
  <2>5. Turning'
    BY <1>16 DEF Overspeed, TypeOK
  <2> QED
    BY <2>1, <2>2, <2>3, <2>4, <2>5
<1>17. CASE TMR1_IRQHandler
  <2>1. TypeOK'
    BY <1>17, PeriodBounded DEF TMR1_IRQHandler, TypeOK, NextPhase, Elapsed, MinOf, BldcAssumption
  <2>2. Places'
    BY <1>17 DEF TMR1_IRQHandler, TypeOK
  <2>3. Enabled' /\ Off'
    BY <1>17 DEF TMR1_IRQHandler
  <2>4. Beeping'
    BY <1>17, PeriodBounded DEF TMR1_IRQHandler, TypeOK, NextPhase, Elapsed, MinOf, BldcAssumption
  <2>5. Turning'
    BY <1>17, PeriodBounded DEF TMR1_IRQHandler, TypeOK, NextPhase, Elapsed, MinOf, BldcAssumption
  <2> QED
    BY <2>1, <2>2, <2>3, <2>4, <2>5
<1>18. CASE Timer0
  <2>1. TypeOK'
    BY <1>18 DEF Timer0, TypeOK
  <2>2. Places'
    BY <1>18 DEF Timer0, TypeOK
  <2>3. Enabled' /\ Off'
    BY <1>18 DEF Timer0
  <2>4. Beeping'
    BY <1>18 DEF Timer0, TypeOK
  <2>5. Turning'
    BY <1>18 DEF Timer0, TypeOK
  <2> QED
    BY <2>1, <2>2, <2>3, <2>4, <2>5
<1>19. CASE UNCHANGED vars
  BY <1>19 DEF vars, TypeOK
<1> QED
  BY <1>1, <1>2, <1>3, <1>4, <1>5, <1>6, <1>7, <1>8, <1>9, <1>10, <1>11, <1>12, <1>13, <1>14, <1>15, <1>16, <1>17, <1>18, <1>19 DEF Next, main

LEMMA Inductive == Spec => []IInv
BY InitEstablishes, NextPreserves, PTL DEF Spec

(* Every variable keeps its type; in particular pPhase stays inside the    *)
(* part of TabPhase that is used, from the beeps through the commutation,  *)
(* and the duty never exceeds Duty_Target.                                 *)
THEOREM TypeCorrect == Spec => []TypeOK
<1>1. IInv => TypeOK
  BY DEF IInv
<1> QED
  BY Inductive, <1>1, PTL

(* After BLDC_STOP no switch is closed and no timer can close one, until   *)
(* BLDC_Start.                                                             *)
THEOREM StopHolds == Spec => []StoppedIsOff
<1>1. IInv => StoppedIsOff
  BY DEF IInv, StoppedIsOff, Off, Stopping
<1> QED
  BY Inductive, <1>1, PTL

\* Neighbouring entries of TabPhase share a switch, and no entry closes both
\* switches of a phase.
LEMMA Neighbours ==
  ASSUME NEW r \in [phase : 1 .. 6, trg : BOOLEAN], NEW s \in [phase : 1 .. 6, trg : BOOLEAN],
         s.phase = r.phase \/ s.phase = Follows(r.phase)
  PROVE  Lower(s) # Upper(r) /\ Upper(s) # Lower(r)
<1>1. r.phase \in 1 .. 6
  OBVIOUS
<1>2. CASE r.phase = 1
  <2>1. s.phase = 1 \/ s.phase = 2
    BY <1>2 DEF Follows, pPhaseEnd
  <2> QED
    BY <1>2, <2>1 DEF Upper, Lower, TabPhase
<1>3. CASE r.phase = 2
  <2>1. s.phase = 2 \/ s.phase = 3
    BY <1>3 DEF Follows, pPhaseEnd
  <2> QED
    BY <1>3, <2>1 DEF Upper, Lower, TabPhase
<1>4. CASE r.phase = 3
  <2>1. s.phase = 3 \/ s.phase = 4
    BY <1>4 DEF Follows, pPhaseEnd
  <2> QED
    BY <1>4, <2>1 DEF Upper, Lower, TabPhase
<1>5. CASE r.phase = 4
  <2>1. s.phase = 4 \/ s.phase = 5
    BY <1>5 DEF Follows, pPhaseEnd
  <2> QED
    BY <1>5, <2>1 DEF Upper, Lower, TabPhase
<1>6. CASE r.phase = 5
  <2>1. s.phase = 5 \/ s.phase = 6
    BY <1>6 DEF Follows, pPhaseEnd
  <2> QED
    BY <1>6, <2>1 DEF Upper, Lower, TabPhase
<1>7. CASE r.phase = 6
  <2>1. s.phase = 6 \/ s.phase = 1
    BY <1>7 DEF Follows, pPhaseEnd
  <2> QED
    BY <1>7, <2>1 DEF Upper, Lower, TabPhase
<1> QED
  BY <1>1, <1>2, <1>3, <1>4, <1>5, <1>6, <1>7

(* No step turns a phase of the motor from its upper to its lower switch:  *)
(* only timer 0 replaces one conducting entry by another, and PHCHGNXT is  *)
(* then the same entry or the next.                                        *)
THEOREM NeverShorted == Spec => NoShootThrough
<1> DEFINE Safe(r, s) == /\ Upper(r) # "none" => Lower(s) # Upper(r)
                         /\ Lower(r) # "none" => Upper(s) # Lower(r)
<1>1. IInv /\ [Next]_vars => Safe(PHCHG, PHCHG') \/ UNCHANGED PHCHG
  <2> SUFFICES ASSUME IInv, Next, PHCHG' # PHCHG PROVE Safe(PHCHG, PHCHG')
    BY DEF vars, regs
  <2>1. Safe(PHCHG, Shut_All_MOS)
    BY DEF Upper, Lower, Shut_All_MOS
  <2>2. PHCHG = Shut_All_MOS => Safe(PHCHG, PHCHG')
    BY DEF Upper, Lower, Shut_All_MOS
  <2>3. CASE Timer0
    <3>1. CASE pc = "stop_now"
      <4>1. PHCHG' = Shut_All_MOS
        BY <2>3, <3>1 DEF Timer0, IInv, Off, Enabled
      <4> QED
        BY <2>1, <4>1
    <3>2. CASE pc # "stop_now"
      <4>1. /\ PHCHG \in [phase : 1 .. 6, trg : BOOLEAN] /\ PHCHGNXT \in [phase : 1 .. 6, trg : BOOLEAN]
            /\ PHCHGNXT.phase = PHCHG.phase \/ PHCHGNXT.phase = Follows(PHCHG.phase)
        BY <2>3, <3>2 DEF Timer0, IInv, Turning, TypeOK, Entry, pPhaseEnd
      <4> QED
        BY <2>3, <4>1, Neighbours DEF Timer0
    <3> QED
      BY <3>1, <3>2
  <2>4. CASE StopNow
    BY <2>4, <2>1 DEF StopNow
  <2>5. CASE BeepUp \/ BeepDown \/ StartNow
    BY <2>5, <2>2 DEF BeepUp, BeepDown, StartNow, Goto, IInv, Off
  <2> QED
    BY <2>3, <2>4, <2>5 DEF Next, main, StopInterrupt, StopNext, BeepShut, BeepShut2, NextBeep,
       Prepare, StartTimers, StartSteps, StartNext, Regulate, Update, Overspeed, TMR1_IRQHandler, regs
<1>2. IInv /\ [Next]_vars => [Safe(PHCHG, PHCHG')]_PHCHG
  BY <1>1
<1> QED
  BY Inductive, <1>2, PTL DEF Spec, NoShootThrough
=============================================================================
