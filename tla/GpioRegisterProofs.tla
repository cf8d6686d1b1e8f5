------------------------- MODULE GpioRegisterProofs -------------------------
(***************************************************************************)
(* Proofs about GpioRegister, for every set of processes, every set of     *)
(* boards and every number of calls.                                       *)
(***************************************************************************)
EXTENDS GpioRegister, TLAPS

Kinds == {"load", "store", "input", "register_chrdev", "unregister_chrdev", "ioremap", "iounmap"}
StepRecords == [kind : Kinds, r : Registers, clear : SUBSET Pins, set : SUBSET Pins]

\* A store comes after a load of the same register.
LoadedBefore(steps) ==
  \A i \in DOMAIN steps : steps[i].kind = "store" =>
    \E j \in 1 .. i - 1 : steps[j].kind = "load" /\ steps[j].r = steps[i].r

LEMMA StepTypes ==
  ASSUME NEW r \in Registers, NEW clear \in SUBSET Pins, NEW set \in SUBSET Pins,
         NEW pin \in Pins
  PROVE  /\ Load(r) \in StepRecords /\ Store(r, clear, set) \in StepRecords
         /\ DirectionInput(pin) \in StepRecords
         /\ RegisterChrdev \in StepRecords /\ UnregisterChrdev \in StepRecords
         /\ Ioremap \in StepRecords /\ Iounmap \in StepRecords
BY DEF StepRecords, Kinds, Step, Load, Store, DirectionInput, RegisterChrdev, UnregisterChrdev,
       Ioremap, Iounmap, Registers

LEMMA FileStepsShape ==
  ASSUME NEW d \in Drivers, NEW steps \in FileSteps(d)
  PROVE  steps \in Seq(StepRecords) /\ LoadedBefore(steps)
<1> USE GpioAssumption
<1>1. CASE d = "pcie_gpio"
  <2>1. PICK pin \in CpuPins, value \in {0, 1} : steps = pcie_gpio(pin, value)
    BY <1>1 DEF FileSteps, pcie_write
  <2>2. pin \in Pins /\ {pin} \in SUBSET Pins
    BY DEF CpuPins
  <2>3. PICK s \in StepRecords : steps = << Load(DATAOUT), s >> /\ s.r = DATAOUT
    BY <2>1, <2>2, StepTypes DEF pcie_gpio, Registers, Store, Step
  <2>4. Load(DATAOUT) \in StepRecords /\ Load(DATAOUT).kind = "load" /\ Load(DATAOUT).r = DATAOUT
    BY StepTypes DEF Load, Step, Registers
  <2>5. steps \in Seq(StepRecords)
    BY <2>3, <2>4
  <2>6. LoadedBefore(steps)
    BY <2>3, <2>4 DEF LoadedBefore, Load, Step
  <2> QED BY <2>5, <2>6
<1>2. CASE d = "gpio_key"
  <2>1. steps = buzzer_beep
    BY <1>2 DEF FileSteps
  <2>2. buzzer_beep \in Seq(StepRecords)
    BY DEF buzzer_beep, Load, Store, Step, StepRecords, Kinds, Registers
  <2>3. LoadedBefore(buzzer_beep)
    BY DEF buzzer_beep, LoadedBefore, Load, Store, Step
  <2> QED BY <2>1, <2>2, <2>3
<1>3. CASE d \in {"gprs", "gprs_new", "system_ready", "buzzer"}
  <2>1. steps = PulseSteps
    BY <1>3 DEF FileSteps, gprs_write, gprs_new_write, system_ready_write, buzzer_write
  <2>2. PulseSteps \in Seq(StepRecords)
    BY DEF PulseSteps, PulsePin, Load, Store, Step, StepRecords, Kinds, Registers
  <2>3. LoadedBefore(PulseSteps)
    BY DEF PulseSteps, LoadedBefore, Load, Store, Step
  <2> QED BY <2>1, <2>2, <2>3
<1> QED BY <1>1, <1>2, <1>3 DEF Drivers

LEMMA InitStepsShape ==
  ASSUME NEW d \in Drivers
  PROVE  InitSteps(d) \in Seq(StepRecords) /\ LoadedBefore(InitSteps(d))
<1> USE GpioAssumption
<1> USE DEF InitSteps, PowerOff, Load, Store, DirectionInput, RegisterChrdev, UnregisterChrdev,
        Ioremap, Iounmap, Step
<1>1. CASE d = "gprs"
  <2>1. gprs_init \in Seq(StepRecords)
    BY DEF gprs_init, StepRecords, Kinds, Registers
  <2>2. LoadedBefore(gprs_init)
    BY DEF gprs_init, LoadedBefore
  <2> QED BY <1>1, <2>1, <2>2
<1>2. CASE d = "gprs_new"
  <2>1. gprs_new_init \in Seq(StepRecords)
    BY DEF gprs_new_init, StepRecords, Kinds, Registers
  <2>2. LoadedBefore(gprs_new_init)
    BY DEF gprs_new_init, LoadedBefore
  <2> QED BY <1>2, <2>1, <2>2
<1>3. CASE d = "system_ready"
  <2>1. system_ready_init \in Seq(StepRecords)
    BY DEF system_ready_init, StepRecords, Kinds, Registers
  <2>2. LoadedBefore(system_ready_init)
    BY DEF system_ready_init, LoadedBefore
  <2> QED BY <1>3, <2>1, <2>2
<1>4. CASE d = "buzzer"
  <2>1. buzzer_init \in Seq(StepRecords)
    BY DEF buzzer_init, StepRecords, Kinds, Registers
  <2>2. LoadedBefore(buzzer_init)
    BY DEF buzzer_init, LoadedBefore
  <2> QED BY <1>4, <2>1, <2>2
<1>5. CASE d = "pcie_gpio"
  <2>1. pcie_init \in Seq(StepRecords)
    BY DEF pcie_init, StepRecords, Kinds, Registers
  <2>2. LoadedBefore(pcie_init)
    BY DEF pcie_init, LoadedBefore
  <2> QED BY <1>5, <2>1, <2>2
<1>6. CASE d = "gpio_key"
  <2>1. keys_probe \in Seq(StepRecords)
    BY DEF keys_probe, StepRecords, Kinds, Registers
  <2>2. LoadedBefore(keys_probe)
    BY DEF keys_probe, LoadedBefore
  <2> QED BY <1>6, <2>1, <2>2
<1> QED BY <1>1, <1>2, <1>3, <1>4, <1>5, <1>6 DEF Drivers

LEMMA ExitStepsShape ==
  ASSUME NEW d \in Drivers
  PROVE  ExitSteps(d) \in Seq(StepRecords) /\ LoadedBefore(ExitSteps(d))
<1> USE GpioAssumption
<1> USE DEF ExitSteps, PowerOff, Load, Store, DirectionInput, RegisterChrdev, UnregisterChrdev,
        Ioremap, Iounmap, Step
<1>1. CASE d = "gprs"
  <2>1. gprs_exit \in Seq(StepRecords)
    BY DEF gprs_exit, StepRecords, Kinds, Registers
  <2>2. LoadedBefore(gprs_exit)
    BY DEF gprs_exit, LoadedBefore
  <2> QED BY <1>1, <2>1, <2>2
<1>2. CASE d = "gprs_new"
  <2>1. gprs_new_exit \in Seq(StepRecords)
    BY DEF gprs_new_exit, StepRecords, Kinds, Registers
  <2>2. LoadedBefore(gprs_new_exit)
    BY DEF gprs_new_exit, LoadedBefore
  <2> QED BY <1>2, <2>1, <2>2
<1>3. CASE d = "system_ready"
  <2>1. system_ready_exit \in Seq(StepRecords)
    BY DEF system_ready_exit, StepRecords, Kinds, Registers
  <2>2. LoadedBefore(system_ready_exit)
    BY DEF system_ready_exit, LoadedBefore
  <2> QED BY <1>3, <2>1, <2>2
<1>4. CASE d = "buzzer"
  <2>1. buzzer_exit \in Seq(StepRecords)
    BY DEF buzzer_exit, StepRecords, Kinds, Registers
  <2>2. LoadedBefore(buzzer_exit)
    BY DEF buzzer_exit, LoadedBefore
  <2> QED BY <1>4, <2>1, <2>2
<1>5. CASE d = "pcie_gpio"
  <2>1. pcie_exit \in Seq(StepRecords)
    BY DEF pcie_exit, StepRecords, Kinds, Registers
  <2>2. LoadedBefore(pcie_exit)
    BY DEF pcie_exit, LoadedBefore
  <2> QED BY <1>5, <2>1, <2>2
<1>6. CASE d = "gpio_key"
  <2>1. keys_remove \in Seq(StepRecords)
    BY DEF keys_remove, StepRecords, Kinds, Registers
  <2>2. LoadedBefore(keys_remove)
    BY DEF keys_remove, LoadedBefore
  <2> QED BY <1>6, <2>1, <2>2
<1> QED BY <1>1, <1>2, <1>3, <1>4, <1>5, <1>6 DEF Drivers

LEMMA StepsShape ==
  ASSUME NEW steps \in Steps
  PROVE  steps \in Seq(StepRecords) /\ LoadedBefore(steps)
<1>1. PICK d \in Drivers : steps \in FileSteps(d) \cup {InitSteps(d), ExitSteps(d)}
  BY DEF Steps
<1> QED BY <1>1, FileStepsShape, InitStepsShape, ExitStepsShape

-----------------------------------------------------------------------------
(***************************************************************************)
(* The inductive invariant.  A process may hold the value of a register in *)
(* its local variable for as long as it likes; what is true of that value  *)
(* is that, until the handler ends, it agrees with the register on every   *)
(* pin that no handler of the company drives, because nobody can have      *)
(* changed such a pin meanwhile.                                           *)
(***************************************************************************)
Active(r) == {pin \in Pins : \E c \in company : pin \in PinsOf(c.steps, r)}
Agrees(p, r) == \A pin \in Pins \ Active(r) : pin \in reg[p][r] <=> pin \in bank[r]

InCompany == \A p \in Procs : call[p] # Idle => call[p] \in company

HeldAgrees ==
  \A p \in Procs : pc[p] \in DOMAIN call[p].steps =>
    \A i \in DOMAIN call[p].steps :
      i < pc[p] /\ call[p].steps[i].kind = "load" => Agrees(p, call[p].steps[i].r)

LoadedOnBoard ==
  /\ \A d \in Drivers : module[d] # "out" => d \in board
  /\ \A p \in Procs : call[p] # Idle => call[p].driver \in board

IInv == TypeOK /\ InCompany /\ HeldAgrees /\ LoadedOnBoard

LEMMA CallSteps ==
  ASSUME NEW c \in Calls \cup {Idle}
  PROVE  /\ c.steps \in Seq(StepRecords) /\ LoadedBefore(c.steps)
         /\ c # Idle => c.driver \in Drivers /\ c.steps \in Steps
<1>1. CASE c = Idle
  BY <1>1 DEF Idle, LoadedBefore
<1>2. CASE c \in Calls
  BY <1>2, StepsShape DEF Calls
<1> QED BY <1>1, <1>2

\* The pins a call drives are active once the call is in the company.
LEMMA ActivePins ==
  ASSUME NEW p \in Procs, IInv, NEW i \in DOMAIN call[p].steps, NEW pin \in Pins,
         pin \in call[p].steps[i].clear \cup call[p].steps[i].set
  PROVE  pin \in Active(call[p].steps[i].r)
<1>1. call[p] # Idle
  BY DEF Idle
<1>2. call[p] \in company
  BY <1>1 DEF IInv, InCompany
<1> QED BY <1>2 DEF Active, PinsOf

\* A store changes active pins only.
LEMMA StoreKeepsQuietPins ==
  ASSUME IInv, NEW p \in Procs, WriteRegister(p),
         NEW pin \in Pins, pin \notin Active(Now(p).r)
  PROVE  /\ Now(p).r \in Registers
         /\ pin \in Changed(p) <=> pin \in bank[Now(p).r]
<1> DEFINE steps == call[p].steps
<1>1. steps \in Seq(StepRecords) /\ LoadedBefore(steps) /\ pc[p] \in DOMAIN steps
  BY CallSteps DEF IInv, TypeOK, WriteRegister, At
<1>2. steps[pc[p]] \in StepRecords /\ steps[pc[p]].kind = "store"
  BY <1>1 DEF WriteRegister, At
<1>3. PICK j \in 1 .. pc[p] - 1 : steps[j].kind = "load" /\ steps[j].r = steps[pc[p]].r
  BY <1>1, <1>2 DEF LoadedBefore
<1>4. j \in DOMAIN steps /\ j < pc[p]
  BY <1>1, <1>3
<1>5. Agrees(p, Now(p).r)
  BY <1>1, <1>3, <1>4 DEF IInv, HeldAgrees, Now
<1>6. pin \notin Now(p).clear \cup Now(p).set
  BY <1>1, ActivePins DEF Now
<1> QED BY <1>2, <1>5, <1>6 DEF Changed, Agrees, Now, StepRecords

\* Only the output enable register has steps that set it to input.
LEMMA InputStepsOnly ==
  ASSUME NEW c \in Calls \cup {Idle}, NEW i \in DOMAIN c.steps, c.steps[i].kind = "input"
  PROVE  c.steps[i].r = OE
<1>1. c \in Calls /\ c.steps \in Steps
  BY CallSteps DEF Idle
<1>2. PICK d \in Drivers : c.steps \in FileSteps(d) \cup {InitSteps(d), ExitSteps(d)}
  BY <1>1 DEF Steps
<1>3. CASE c.steps \in FileSteps(d)
  BY <1>2, <1>3 DEF FileSteps, Drivers, gprs_write, gprs_new_write, system_ready_write, buzzer_write,
     pcie_write, pcie_gpio, buzzer_beep, PulseSteps, Load, Store, Step
<1>4. CASE c.steps = InitSteps(d)
  BY <1>2, <1>4 DEF InitSteps, Drivers, gprs_init, gprs_new_init, system_ready_init, buzzer_init,
     pcie_init, keys_probe, Load, Store, DirectionInput, RegisterChrdev, Ioremap, Step
<1>5. CASE c.steps = ExitSteps(d)
  BY <1>2, <1>5 DEF ExitSteps, Drivers, gprs_exit, gprs_new_exit, system_ready_exit, buzzer_exit,
     pcie_exit, keys_remove, PowerOff, Load, Store, UnregisterChrdev, Iounmap, Step
<1> QED BY <1>2, <1>3, <1>4, <1>5

-----------------------------------------------------------------------------
LEMMA InitHolds == Init => IInv
<1> SUFFICES ASSUME Init PROVE IInv
  OBVIOUS
<1>1. TypeOK
  BY GpioAssumption DEF Init, TypeOK, Idle, Registers
<1>2. InCompany /\ LoadedOnBoard /\ HeldAgrees
  BY DEF Init, InCompany, LoadedOnBoard, HeldAgrees, Idle
<1> QED BY <1>1, <1>2 DEF IInv

LEMMA EnterPreserves ==
  ASSUME IInv, NEW p \in Procs, NEW d \in Drivers, NEW steps \in Steps,
         Enter(p, d, steps), d \in board,
         module' \in [Drivers -> {"out", "loading", "in", "leaving"}],
         \A e \in Drivers : module'[e] # "out" => e \in board
  PROVE  IInv'
<1> DEFINE c == [driver |-> d, steps |-> steps]
<1> USE DEF IInv, TypeOK
<1>1. c \in Calls /\ call' = [call EXCEPT ![p] = c] /\ pc' = [pc EXCEPT ![p] = 1]
      /\ company' = company \cup {c}
  BY DEF Enter, Calls
<1>2. call' \in [Procs -> Calls \cup {Idle}]
  BY <1>1
<1>3. \A q \in Procs : call'[q] # Idle => pc'[q] <= Len(call'[q].steps) + 1
  <2> SUFFICES ASSUME NEW q \in Procs, call'[q] # Idle
               PROVE  pc'[q] <= Len(call'[q].steps) + 1
    OBVIOUS
  <2>1. CASE q = p
    <3>1. steps \in Seq(StepRecords)
      BY StepsShape
    <3> QED BY <1>1, <2>1, <3>1
  <2>2. CASE q # p
    BY <1>1, <2>2
  <2> QED BY <2>1, <2>2
<1>4. calls' \in 0 .. MaxCalls
  BY GpioAssumption DEF Enter
<1>5. TypeOK'
  BY <1>1, <1>2, <1>3, <1>4 DEF Enter
<1>6. InCompany'
  BY <1>1 DEF InCompany
<1>7. LoadedOnBoard'
  BY <1>1 DEF LoadedOnBoard, Enter
<1>8. HeldAgrees'
  <2> SUFFICES ASSUME NEW q \in Procs, NEW i \in DOMAIN call'[q].steps,
                      pc'[q] \in DOMAIN call'[q].steps, i < pc'[q],
                      call'[q].steps[i].kind = "load"
               PROVE  Agrees(q, call[q].steps[i].r)'
    BY DEF HeldAgrees
  <2>1. CASE q = p
    <3>1. steps \in Seq(StepRecords)
      BY StepsShape
    <3> QED BY <1>1, <2>1, <3>1
  <2>2. CASE q # p
    <3>1. Agrees(q, call[q].steps[i].r)
      BY <1>1, <2>2 DEF HeldAgrees
    <3>2. \A r \in {call[q].steps[i].r} : Active(r) \subseteq Active(r)'
      BY <1>1 DEF Active
    <3> QED BY <1>1, <2>2, <3>1, <3>2 DEF Agrees, Enter
  <2> QED BY <2>1, <2>2
<1> QED BY <1>5, <1>6, <1>7, <1>8

LEMMA ReturnPreserves ==
  ASSUME IInv, NEW p \in Procs, Return(p)
  PROVE  IInv'
<1> USE DEF IInv, TypeOK
<1>1. call' = [call EXCEPT ![p] = Idle] /\ pc' = pc
  BY DEF Return
<1>2. call[p].driver \in Drivers /\ call[p].driver \in board
  BY CallSteps DEF Return, LoadedOnBoard
<1>3. /\ module' \in [Drivers -> {"out", "loading", "in", "leaving"}]
      /\ \A e \in Drivers : module'[e] # "out" => e \in board
  <2> DEFINE m == CASE call[p].steps = InitSteps(call[p].driver) -> "in"
                    [] call[p].steps = ExitSteps(call[p].driver) -> "out"
                    [] OTHER -> module[call[p].driver]
  <2>1. module' = [module EXCEPT ![call[p].driver] = m]
    BY DEF Return
  <2>2. m \in {"out", "in", "loading", "leaving"}
    BY <1>2
  <2> HIDE DEF m
  <2> QED BY <1>2, <2>1, <2>2 DEF LoadedOnBoard
<1>4. company' \in {{}, company} /\ (company' = {} => \A q \in Procs : call'[q] = Idle \/ company = {})
  BY DEF Return
<1>5. TypeOK'
  BY <1>1, <1>3, <1>4 DEF Return
<1>6. InCompany'
  BY <1>1, <1>4 DEF InCompany
<1>7. LoadedOnBoard'
  BY <1>1, <1>3 DEF LoadedOnBoard, Return
<1>8. HeldAgrees'
  <2> SUFFICES ASSUME NEW q \in Procs, NEW i \in DOMAIN call'[q].steps,
                      pc'[q] \in DOMAIN call'[q].steps, i < pc'[q],
                      call'[q].steps[i].kind = "load"
               PROVE  Agrees(q, call[q].steps[i].r)'
    BY DEF HeldAgrees
  <2>1. q # p /\ call'[q] = call[q] /\ call[q] # Idle
    BY <1>1 DEF Idle
  <2>2. company' = company
    BY <1>4, <2>1 DEF InCompany
  <2>3. Agrees(q, call[q].steps[i].r)
    BY <1>1, <2>1 DEF HeldAgrees
  <2> QED BY <2>1, <2>2, <2>3 DEF Agrees, Active, Return
<1> QED BY <1>5, <1>6, <1>7, <1>8

\* A step of a handler: what has to be shown of the bank and of reg.
LEMMA AdvancePreserves ==
  ASSUME IInv, NEW p \in Procs, Advance(p), pc[p] \in 1 .. Len(call[p].steps),
         bank' \in [Registers -> SUBSET Pins], reg' \in [Procs -> [Registers -> SUBSET Pins]],
         node' \subseteq board, mapped' \subseteq board, refused' \subseteq board,
         \A r \in Registers : \A pin \in Pins \ Active(r) : pin \in bank'[r] <=> pin \in bank[r],
         \A q \in Procs \ {p} : reg'[q] = reg[q],
         \A r \in Registers : Agrees(p, r) => Agrees(p, r)',
         \A r \in Registers : Now(p).kind = "load" /\ r = Now(p).r => Agrees(p, r)'
  PROVE  IInv'
<1> USE DEF IInv, TypeOK
<1>1. pc' = [pc EXCEPT ![p] = @ + 1] /\ call' = call /\ company' = company
      /\ board' = board /\ module' = module
  BY DEF Advance
<1>2. TypeOK'
  <2>1. Len(call[p].steps) \in Nat
    BY CallSteps
  <2>2. \A q \in Procs : call'[q] # Idle => pc'[q] <= Len(call'[q].steps) + 1
    BY <1>1, <2>1
  <2>3. pc' \in [Procs -> Nat \ {0}]
    BY <1>1
  <2> QED BY <1>1, <2>2, <2>3 DEF Advance
<1>3. InCompany' /\ LoadedOnBoard'
  BY <1>1 DEF InCompany, LoadedOnBoard
<1>4. HeldAgrees'
  <2> SUFFICES ASSUME NEW q \in Procs, NEW i \in DOMAIN call'[q].steps,
                      pc'[q] \in DOMAIN call'[q].steps, i < pc'[q],
                      call'[q].steps[i].kind = "load"
               PROVE  Agrees(q, call[q].steps[i].r)'
    BY DEF HeldAgrees
  <2>1. call[q].steps \in Seq(StepRecords) /\ i \in DOMAIN call[q].steps /\ i \in Nat
    <3>1. call[q].steps \in Seq(StepRecords) /\ i \in DOMAIN call[q].steps
      BY <1>1, CallSteps
    <3>2. DOMAIN call[q].steps = 1 .. Len(call[q].steps) /\ Len(call[q].steps) \in Nat
      BY <3>1
    <3> QED BY <3>1, <3>2
  <2>2. call[q].steps[i].r \in Registers
    <3>1. call[q].steps[i] \in StepRecords
      BY <2>1
    <3> QED BY <3>1 DEF StepRecords
  <2>3. CASE q = p
    <3>1. CASE i = pc[p]
      BY <1>1, <2>2, <2>3, <3>1 DEF Now
    <3>2. CASE i # pc[p]
      <4>1. i < pc[p]
        BY <1>1, <2>1, <2>3, <3>2
      <4>2. pc[p] \in DOMAIN call[p].steps
        BY <2>1, <2>3
      <4>3. Agrees(p, call[p].steps[i].r)
        BY <1>1, <2>1, <2>3, <4>1, <4>2 DEF HeldAgrees
      <4> QED BY <1>1, <2>2, <2>3, <4>3
    <3> QED BY <3>1, <3>2
  <2>4. CASE q # p
    <3>1. Agrees(q, call[q].steps[i].r)
      BY <1>1, <2>1, <2>4 DEF HeldAgrees
    <3> QED BY <1>1, <2>2, <2>4, <3>1 DEF Agrees, Active
  <2> QED BY <2>3, <2>4
<1> QED BY <1>2, <1>3, <1>4

\* A refused mapping: the probe of the key driver ends, the other handlers go on.
LEMMA RefusalPreserves ==
  ASSUME IInv, NEW p \in Procs, IoremapFails(p)
  PROVE  IInv'
<1> USE DEF IInv, TypeOK
<1> DEFINE n == Len(call[p].steps)
<1>1. /\ pc[p] \in DOMAIN call[p].steps /\ call[p].steps \in Seq(StepRecords)
      /\ call[p].steps[pc[p]].kind = "ioremap" /\ call[p] # Idle
      /\ n \in Nat /\ pc[p] \in 1 .. n
  <2>1. pc[p] \in 1 .. n /\ call[p].steps \in Seq(StepRecords)
    BY CallSteps DEF IoremapFails, At
  <2>2. call[p] # Idle
    BY <2>1 DEF Idle
  <2> QED BY <2>1, <2>2 DEF IoremapFails, At
<1>2. /\ pc' = [pc EXCEPT ![p] = IF call[p].driver = "gpio_key" THEN n + 1 ELSE pc[p] + 1]
      /\ refused' = refused \cup {call[p].driver}
      /\ UNCHANGED << board, bank, module, node, mapped, call, reg, killed, calls, company >>
  BY DEF IoremapFails
<1>3. pc'[p] \in {pc[p] + 1, n + 1} /\ \A q \in Procs : q # p => pc'[q] = pc[q]
  BY <1>2
<1>4. TypeOK'
  <2>1. pc' \in [Procs -> Nat \ {0}] /\ refused' \subseteq board
    BY <1>1, <1>2 DEF LoadedOnBoard
  <2>2. \A q \in Procs : call'[q] # Idle => pc'[q] <= Len(call'[q].steps) + 1
    BY <1>1, <1>2, <1>3
  <2> QED BY <1>2, <2>1, <2>2
<1>5. InCompany' /\ LoadedOnBoard'
  BY <1>2 DEF InCompany, LoadedOnBoard
<1>6. HeldAgrees'
  <2> SUFFICES ASSUME NEW q \in Procs, NEW i \in DOMAIN call'[q].steps,
                      pc'[q] \in DOMAIN call'[q].steps, i < pc'[q],
                      call'[q].steps[i].kind = "load"
               PROVE  Agrees(q, call[q].steps[i].r)'
    BY DEF HeldAgrees
  <2>1. pc[q] \in DOMAIN call[q].steps /\ i < pc[q]
    <3>1. CASE q = p
      <4>1. DOMAIN call[p].steps = 1 .. n /\ i \in 1 .. n /\ i # pc[p]
        BY <1>1, <1>2, <3>1
      <4>2. pc'[p] = pc[p] + 1
        BY <1>1, <1>3, <3>1, <4>1, <1>2
      <4> QED BY <1>1, <3>1, <4>1, <4>2
    <3>2. CASE q # p
      BY <1>2, <1>3, <3>2
    <3> QED BY <3>1, <3>2
  <2>2. Agrees(q, call[q].steps[i].r)
    BY <1>2, <2>1 DEF HeldAgrees
  <2> QED BY <1>2, <2>2 DEF Agrees, Active
<1> QED BY <1>4, <1>5, <1>6


LEMMA StepPreserves == IInv /\ [Next]_vars => IInv'
<1> SUFFICES ASSUME IInv, [Next]_vars PROVE IInv'
  OBVIOUS
<1> USE DEF IInv, TypeOK
<1>1. ASSUME NEW p \in Procs, NEW d \in Drivers, Insmod(p, d)
      PROVE  IInv'
  <2>1. InitSteps(d) \in Steps
    BY DEF Steps
  <2> QED BY <1>1, <2>1, EnterPreserves DEF Insmod, LoadedOnBoard
<1>2. ASSUME NEW p \in Procs, NEW d \in Drivers, Rmmod(p, d)
      PROVE  IInv'
  <2>1. ExitSteps(d) \in Steps /\ d \in board
    BY <1>2 DEF Steps, Rmmod, LoadedOnBoard
  <2> QED BY <1>2, <2>1, EnterPreserves DEF Rmmod, LoadedOnBoard
<1>3. ASSUME NEW p \in Procs, NEW d \in Drivers, FileCall(p, d)
      PROVE  IInv'
  <2>1. PICK steps \in FileSteps(d) : Enter(p, d, steps)
    BY <1>3 DEF FileCall
  <2>2. steps \in Steps /\ d \in board /\ module' = module
    BY <1>3, <2>1 DEF Steps, FileCall
  <2> QED BY <2>1, <2>2, EnterPreserves DEF LoadedOnBoard
<1>4. ASSUME NEW p \in Procs, Return(p)
      PROVE  IInv'
  BY <1>4, ReturnPreserves
<1>5. ASSUME NEW p \in Procs, Chrdev(p) \/ Remap(p)
      PROVE  IInv'
  <2>1. call[p].driver \in board /\ pc[p] \in 1 .. Len(call[p].steps) /\ Now(p).kind # "load"
    <3>1. PICK kind \in {"register_chrdev", "unregister_chrdev", "ioremap", "iounmap"} : At(p, kind)
      BY <1>5 DEF Chrdev, Remap
    <3>2. call[p] # Idle
      BY <3>1 DEF At, Idle
    <3> QED BY <3>1, <3>2 DEF At, Now, LoadedOnBoard
  <2>2. /\ Advance(p) /\ bank' = bank /\ reg' = reg
        /\ node' \subseteq board /\ mapped' \subseteq board /\ refused' \subseteq board
    BY <1>5, <2>1 DEF Chrdev, Remap
  <2>3. \A r \in Registers : Agrees(p, r) => Agrees(p, r)'
    BY <2>2 DEF Agrees, Active, Advance
  <2> QED BY <2>1, <2>2, <2>3, AdvancePreserves
<1>6. ASSUME NEW p \in Procs, SetInput(p)
      PROVE  IInv'
  <2>1. /\ Advance(p) /\ reg' = reg /\ UNCHANGED << node, mapped, refused >>
        /\ pc[p] \in DOMAIN call[p].steps /\ Now(p).kind = "input"
        /\ call[p].steps \in Seq(StepRecords)
        /\ bank' = [bank EXCEPT ![OE] = @ \cup Now(p).set]
    BY <1>6, CallSteps DEF SetInput, At, Now
  <2>2. Now(p) \in StepRecords /\ pc[p] \in 1 .. Len(call[p].steps)
    BY <2>1 DEF Now
  <2>3. bank' \in [Registers -> SUBSET Pins]
    BY <2>1, <2>2 DEF StepRecords, Registers
  <2>4. Now(p).r = OE
    BY <2>1, InputStepsOnly DEF Now
  <2>5. \A pin \in Now(p).set : pin \in Active(OE)
    BY <2>1, <2>2, <2>4, ActivePins DEF Now, StepRecords
  <2>6. \A r \in Registers : \A pin \in Pins \ Active(r) : pin \in bank'[r] <=> pin \in bank[r]
    BY <2>1, <2>5 DEF Registers
  <2>7. \A r \in Registers : Agrees(p, r) => Agrees(p, r)'
    BY <2>1, <2>6 DEF Agrees, Active, Advance
  <2> QED BY <2>1, <2>2, <2>3, <2>6, <2>7, AdvancePreserves
<1>7. ASSUME NEW p \in Procs, ReadRegister(p)
      PROVE  IInv'
  <2>1. /\ Advance(p) /\ bank' = bank /\ UNCHANGED << node, mapped, refused >>
        /\ pc[p] \in DOMAIN call[p].steps /\ call[p].steps \in Seq(StepRecords)
        /\ reg' = [reg EXCEPT ![p][Now(p).r] = bank[Now(p).r]]
    BY <1>7, CallSteps DEF ReadRegister, At, Now
  <2>2. Now(p).r \in Registers /\ pc[p] \in 1 .. Len(call[p].steps)
    <3>1. Now(p) \in StepRecords
      BY <2>1 DEF Now
    <3> QED BY <2>1, <3>1 DEF StepRecords
  <2>3. reg' \in [Procs -> [Registers -> SUBSET Pins]]
    BY <2>1, <2>2
  <2>4. \A r \in Registers : r = Now(p).r => Agrees(p, r)'
    BY <2>1, <2>2 DEF Agrees
  <2>5. \A r \in Registers : Agrees(p, r) => Agrees(p, r)'
    BY <2>1, <2>2 DEF Agrees, Active, Advance
  <2> QED BY <2>1, <2>2, <2>3, <2>4, <2>5, AdvancePreserves
<1>8. ASSUME NEW p \in Procs, WriteRegister(p)
      PROVE  IInv'
  <2>1. /\ Advance(p) /\ UNCHANGED << node, mapped, refused >>
        /\ pc[p] \in DOMAIN call[p].steps /\ call[p].steps \in Seq(StepRecords)
        /\ Now(p).kind = "store"
        /\ reg' = [reg EXCEPT ![p][Now(p).r] = Changed(p)]
        /\ bank' = [bank EXCEPT ![Now(p).r] = Changed(p)]
    BY <1>8, CallSteps DEF WriteRegister, At, Now
  <2>2. Now(p) \in StepRecords /\ pc[p] \in 1 .. Len(call[p].steps)
    BY <2>1 DEF Now
  <2>3. Now(p).r \in Registers /\ Changed(p) \in SUBSET Pins
    BY <2>2 DEF Changed, StepRecords
  <2>4. bank' \in [Registers -> SUBSET Pins] /\ reg' \in [Procs -> [Registers -> SUBSET Pins]]
    BY <2>1, <2>3
  <2>5. \A r \in Registers : \A pin \in Pins \ Active(r) : pin \in bank'[r] <=> pin \in bank[r]
    BY <1>8, <2>1, <2>3, StoreKeepsQuietPins
  <2>6. \A r \in Registers : Agrees(p, r) => Agrees(p, r)'
    BY <2>1, <2>3, <2>5 DEF Agrees, Active, Advance
  <2> QED BY <2>1, <2>2, <2>4, <2>5, <2>6, AdvancePreserves
<1>9. ASSUME NEW p \in Procs, Oops(p)
      PROVE  IInv'
  BY <1>9 DEF Oops, InCompany, LoadedOnBoard, HeldAgrees, Agrees, Active
<1>10. ASSUME NEW p \in Procs, IoremapFails(p)
       PROVE  IInv'
  BY <1>10, RefusalPreserves
<1>11. CASE UNCHANGED vars
  BY <1>11 DEF vars, InCompany, LoadedOnBoard, HeldAgrees, Agrees, Active
<1> QED BY <1>1, <1>2, <1>3, <1>4, <1>5, <1>6, <1>7, <1>8, <1>9, <1>10, <1>11 DEF Next

(* Type correctness of the drivers' shared bank, for any processes and     *)
(* boards: the drivers of GPIO_0 touch only pins of the bank.              *)
THEOREM TypeCorrect == Spec => []TypeOK
<1>1. Spec => []IInv
  BY InitHolds, StepPreserves, PTL DEF Spec
<1> QED BY <1>1, PTL DEF IInv

(* The lost updates of the unlocked read and write of the drivers reach    *)
(* only pins that a handler in progress drives.                            *)
THEOREM LostUpdatesContained == Spec => OnlyActivePinsChange
<1> DEFINE Contained == \A r \in Registers, pin \in Pins :
             (pin \in bank[r]) # (pin \in bank'[r]) =>
               \E c \in company : pin \in PinsOf(c.steps, r)
<1>1. ASSUME IInv, Next PROVE Contained
  <2> SUFFICES ASSUME NEW r \in Registers, NEW pin \in Pins, pin \notin Active(r)
               PROVE  pin \in bank[r] <=> pin \in bank'[r]
    BY DEF Active
  <2>1. CASE bank' = bank
    BY <2>1
  <2>2. ASSUME NEW p \in Procs, WriteRegister(p)
        PROVE  pin \in bank[r] <=> pin \in bank'[r]
    BY <1>1, <2>2, StoreKeepsQuietPins DEF WriteRegister, IInv, TypeOK
  <2>3. ASSUME NEW p \in Procs, SetInput(p)
        PROVE  pin \in bank[r] <=> pin \in bank'[r]
    <3>1. call[p].steps \in Seq(StepRecords) /\ pc[p] \in DOMAIN call[p].steps /\ Now(p).kind = "input"
      BY <1>1, <2>3, CallSteps DEF SetInput, At, Now, IInv, TypeOK
    <3>2. Now(p).r = OE
      BY <1>1, <3>1, InputStepsOnly DEF Now, IInv, TypeOK
    <3>3. pin \in Now(p).set => pin \in Active(OE)
      BY <1>1, <3>1, <3>2, ActivePins DEF Now
    <3> QED BY <1>1, <2>3, <3>3 DEF SetInput, IInv, TypeOK
  <2> QED
    BY <1>1, <2>1, <2>2, <2>3 DEF Next, Insmod, Rmmod, FileCall, Enter, Return, Chrdev, Remap,
       IoremapFails, ReadRegister, Oops
<1>2. Spec => []IInv
  BY InitHolds, StepPreserves, PTL DEF Spec
<1>3. IInv /\ [Next]_vars => [Contained]_vars
  BY <1>1
<1> QED BY <1>2, <1>3, PTL DEF Spec, OnlyActivePinsChange

-----------------------------------------------------------------------------
(* Concurrent pulses                                                       *)

OnlyPulses == company # {} /\ \A c \in company : c.steps = PulseSteps

\* While only pulses are in progress, the line is high or some process has yet
\* to raise it.
SomeoneRaises ==
  OnlyPulses => \/ PulsePin \in bank[DATAOUT]
                \/ \E p \in Procs : call[p] # Idle /\ pc[p] <= 4

LEMMA PulseShape ==
  /\ PulseSteps \in Seq(StepRecords) /\ Len(PulseSteps) = 4
  /\ PulseSteps[1].kind = "load" /\ PulseSteps[3].kind = "load"
  /\ PulseSteps[2].kind = "store" /\ PulseSteps[4].kind = "store"
  /\ PulseSteps[4].r = DATAOUT /\ PulseSteps[4].set = {PulsePin}
<1>1. /\ Load(DATAOUT) \in StepRecords
      /\ Store(DATAOUT, {PulsePin}, {}) \in StepRecords
      /\ Store(DATAOUT, {}, {PulsePin}) \in StepRecords
  BY GpioAssumption DEF Load, Store, Step, StepRecords, Kinds, Registers, PulsePin
<1>2. PulseSteps \in Seq(StepRecords) /\ Len(PulseSteps) = 4
  BY <1>1 DEF PulseSteps
<1>3. /\ PulseSteps[1] = Load(DATAOUT) /\ PulseSteps[3] = Load(DATAOUT)
      /\ PulseSteps[2] = Store(DATAOUT, {PulsePin}, {})
      /\ PulseSteps[4] = Store(DATAOUT, {}, {PulsePin})
  BY DEF PulseSteps
<1> QED
  BY <1>2, <1>3 DEF Load, Store, Step

LEMMA PulseNext ==
  ASSUME IInv, IInv', SomeoneRaises, [Next]_vars
  PROVE  SomeoneRaises'
<1> USE DEF IInv, TypeOK
<1> SUFFICES ASSUME OnlyPulses' PROVE SomeoneRaises'
  BY DEF SomeoneRaises
<1>1. ASSUME NEW p \in Procs, NEW d \in Drivers, NEW steps, Enter(p, d, steps)
      PROVE  SomeoneRaises'
  <2>1. call'[p] # Idle /\ pc'[p] = 1
    BY <1>1 DEF Enter, Idle, Drivers
  <2> QED
    BY <2>1 DEF SomeoneRaises
<1>2. ASSUME NEW p \in Procs, Return(p) PROVE SomeoneRaises'
  <2>1. /\ company' = company /\ OnlyPulses
        /\ bank' = bank /\ pc' = pc
        /\ \A q \in Procs : q # p => call'[q] = call[q]
    BY <1>2 DEF Return, OnlyPulses
  <2>2. call[p] \in company /\ Len(call[p].steps) = 4 /\ pc[p] > 4
    <3>1. call[p] # Idle /\ pc[p] > Len(call[p].steps)
      BY <1>2 DEF Return
    <3>2. call[p] \in company
      BY <3>1 DEF InCompany
    <3>3. call[p].steps = PulseSteps
      BY <2>1, <3>2 DEF OnlyPulses
    <3>4. Len(call[p].steps) = 4
      BY <3>3, PulseShape
    <3> QED BY <3>1, <3>2, <3>4
  <2> QED
    BY <2>1, <2>2 DEF SomeoneRaises
<1>3. ASSUME company' = company, call' = call PROVE OnlyPulses
  BY <1>3 DEF OnlyPulses
<1>4. ASSUME NEW p \in Procs, Advance(p), pc[p] \in 1 .. Len(call[p].steps),
             pc[p] # 4, bank'[DATAOUT] = bank[DATAOUT] \/ pc[p] = 2
      PROVE  SomeoneRaises'
  <2>1. /\ OnlyPulses /\ call' = call /\ pc' = [pc EXCEPT ![p] = pc[p] + 1]
    BY <1>3, <1>4 DEF Advance
  <2>2. call[p] # Idle
    BY <1>4 DEF Idle
  <2>3. Len(call[p].steps) = 4
    BY <2>1, <2>2, PulseShape DEF InCompany, OnlyPulses
  <2>4. call'[p] # Idle /\ pc'[p] <= 4
    BY <1>4, <2>1, <2>2, <2>3
  <2> QED
    BY <2>4 DEF SomeoneRaises
<1>5. ASSUME NEW p \in Procs, At(p, "store"), WriteRegister(p), pc[p] = 4
      PROVE  SomeoneRaises'
  <2>1. OnlyPulses /\ call[p] # Idle
    BY <1>3, <1>5 DEF WriteRegister, Advance, At, Idle
  <2>2. Now(p).r = DATAOUT /\ Now(p).set = {PulsePin}
    BY <1>5, <2>1, PulseShape DEF InCompany, OnlyPulses, Now
  <2>3. PulsePin \in bank'[DATAOUT]
    BY <1>5, <2>2 DEF WriteRegister, Changed, Registers
  <2> QED
    BY <2>3 DEF SomeoneRaises
<1>6. ASSUME NEW p \in Procs, NEW kind, At(p, kind), Advance(p)
      PROVE  /\ pc[p] \in 1 .. 4
             /\ (pc[p] \in {1, 3} /\ kind = "load")
                  \/ (pc[p] \in {2, 4} /\ kind = "store")
  <2>1. OnlyPulses /\ call[p] # Idle
    BY <1>3, <1>6 DEF Advance, At, Idle
  <2>2. call[p].steps = PulseSteps
    BY <2>1 DEF InCompany, OnlyPulses
  <2> QED
    BY <1>6, <2>2, PulseShape DEF At
<1>7. ASSUME NEW p \in Procs, Chrdev(p) \/ Remap(p) \/ SetInput(p)
      PROVE  SomeoneRaises'
  <2>1. PICK kind \in {"register_chrdev", "unregister_chrdev", "ioremap", "iounmap", "input"} :
          At(p, kind) /\ Advance(p)
    BY <1>7 DEF Chrdev, Remap, SetInput
  <2> QED
    BY <2>1, <1>6, Zenon
<1>8. ASSUME NEW p \in Procs, ReadRegister(p) PROVE SomeoneRaises'
  <2>1. At(p, "load") /\ Advance(p) /\ bank' = bank
    BY <1>8 DEF ReadRegister
  <2>2. pc[p] \in {1, 3} /\ pc[p] \in 1 .. Len(call[p].steps)
    BY <2>1, <1>6 DEF At
  <2> QED
    BY <2>1, <2>2, <1>4
<1>9. ASSUME NEW p \in Procs, WriteRegister(p) PROVE SomeoneRaises'
  <2>1. At(p, "store") /\ Advance(p)
    BY <1>9 DEF WriteRegister
  <2>2. pc[p] \in {2, 4} /\ pc[p] \in 1 .. Len(call[p].steps)
    BY <2>1, <1>6 DEF At
  <2> QED
    BY <1>9, <2>1, <2>2, <1>4, <1>5
<1>10. ASSUME NEW p \in Procs, Oops(p) PROVE SomeoneRaises'
  BY <1>10, <1>3 DEF Oops, SomeoneRaises
<1>11. ASSUME NEW p \in Procs, IoremapFails(p) PROVE SomeoneRaises'
  <2>1. OnlyPulses /\ call[p] # Idle
    BY <1>3, <1>11 DEF IoremapFails, At, Idle
  <2>2. call[p].steps = PulseSteps
    BY <2>1 DEF InCompany, OnlyPulses
  <2>3. pc[p] \in 1 .. 4 /\ PulseSteps[pc[p]].kind = "ioremap"
    BY <1>11, <2>2, PulseShape DEF IoremapFails, At
  <2> QED
    BY <2>3 DEF PulseSteps, Load, Store, Step
<1>12. CASE UNCHANGED vars
  BY <1>12, <1>3 DEF vars, SomeoneRaises
<1> QED
  BY <1>1, <1>2, <1>7, <1>8, <1>9, <1>10, <1>11, <1>12 DEF Next, Insmod, Rmmod, FileCall

(* Concurrent pulses of the reset line leave it high, in whatever order    *)
(* the processes read and wrote the register, and for any number of them.  *)
THEOREM PulsesEndHigh == Spec => PulseEndsHigh
<1>1. Spec => []IInv
  BY InitHolds, StepPreserves, PTL DEF Spec
<1>2. Init => SomeoneRaises
  BY DEF Init, SomeoneRaises, OnlyPulses
<1>3. IInv /\ IInv' /\ SomeoneRaises /\ [Next]_vars => SomeoneRaises'
  BY PulseNext
<1>4. IInv /\ SomeoneRaises /\ [Next]_vars =>
        [company # {} /\ company' = {} /\ (\A c \in company : c.steps = PulseSteps)
           => PulsePin \in bank'[DATAOUT]]_vars
  <2> SUFFICES ASSUME IInv, SomeoneRaises, Next, company # {}, company' = {},
                      \A c \in company : c.steps = PulseSteps
               PROVE  PulsePin \in bank'[DATAOUT]
    OBVIOUS
  <2> USE DEF IInv, TypeOK
  <2>1. PICK p \in Procs : Return(p)
    BY DEF Next, Insmod, Rmmod, FileCall, Enter, Chrdev, Remap, IoremapFails, SetInput,
       ReadRegister, WriteRegister, Oops, Advance
  <2>2. bank' = bank /\ pc[p] > 4 /\ \A q \in Procs : q # p => call[q] = Idle
    BY <2>1, PulseShape DEF Return, InCompany
  <2> QED
    BY <2>2 DEF SomeoneRaises, OnlyPulses
<1> QED
  BY <1>1, <1>2, <1>3, <1>4, PTL DEF Spec, PulseEndsHigh

-----------------------------------------------------------------------------
(* Mapped while it is used                                                 *)

\* What the order of the steps of a handler guarantees.
MapsFirst(d, s) ==
  /\ Len(s) \in Nat \ {0}
  /\ \E m \in 1 .. Len(s) :
       /\ s[m].kind = "ioremap"
       /\ \A i \in 1 .. Len(s) : s[i].kind \in {"load", "store"} => m < i
       /\ d = "gpio_key" =>
            \A i \in 1 .. Len(s) : s[i].kind = "register_chrdev" => m < i
  /\ \A i \in 1 .. Len(s) : s[i].kind \notin {"iounmap", "unregister_chrdev"}
  /\ s[1].kind \in {"ioremap", "register_chrdev"}

UnmapsLast(s) ==
  /\ Len(s) \in Nat \ {0, 1}
  /\ s[1].kind = "unregister_chrdev"
  /\ \A i \in 1 .. Len(s) : /\ s[i].kind = "iounmap" => i = Len(s)
                            /\ s[i].kind \notin {"ioremap", "register_chrdev"}

OnlyAccesses(s) ==
  /\ Len(s) \in Nat \ {0}
  /\ \A i \in 1 .. Len(s) : s[i].kind \in {"load", "store"}

LEMMA InitMapsFirst ==
  ASSUME NEW d \in Drivers
  PROVE  MapsFirst(d, InitSteps(d))
<1> USE DEF InitSteps, MapsFirst, Load, Store, DirectionInput, RegisterChrdev, Ioremap, Step
<1>1. CASE d = "gprs"
  BY <1>1 DEF gprs_init
<1>2. CASE d = "gprs_new"
  BY <1>2 DEF gprs_new_init
<1>3. CASE d = "system_ready"
  BY <1>3 DEF system_ready_init
<1>4. CASE d = "buzzer"
  BY <1>4 DEF buzzer_init
<1>5. CASE d = "pcie_gpio"
  BY <1>5 DEF pcie_init
<1>6. CASE d = "gpio_key"
  BY <1>6 DEF keys_probe
<1> QED
  BY <1>1, <1>2, <1>3, <1>4, <1>5, <1>6 DEF Drivers

LEMMA ExitUnmapsLast ==
  ASSUME NEW d \in Drivers
  PROVE  UnmapsLast(ExitSteps(d))
<1> USE DEF ExitSteps, UnmapsLast, Load, Store, UnregisterChrdev, Iounmap, Step
<1>1. CASE d \in {"gprs", "gprs_new", "system_ready", "buzzer"}
  <2>1. PICK pin : ExitSteps(d) = PowerOff(pin)
    BY <1>1 DEF gprs_exit, gprs_new_exit, system_ready_exit, buzzer_exit
  <2>2. Len(PowerOff(pin)) = 4
    BY DEF PowerOff
  <2>3. /\ PowerOff(pin)[1].kind = "unregister_chrdev"
        /\ PowerOff(pin)[2].kind = "load" /\ PowerOff(pin)[3].kind = "store"
        /\ PowerOff(pin)[4].kind = "iounmap"
    BY DEF PowerOff
  <2> HIDE DEF Load, Store, UnregisterChrdev, Iounmap
  <2> DEFINE t == PowerOff(pin)
  <2>4. /\ Len(t) = 4 /\ t[1].kind = "unregister_chrdev"
        /\ t[2].kind = "load" /\ t[3].kind = "store" /\ t[4].kind = "iounmap"
    BY <2>2, <2>3
  <2> HIDE DEF t
  <2>5. UnmapsLast(t)
    BY <2>4
  <2> QED
    BY <2>1, <2>5 DEF t
<1>2. CASE d = "pcie_gpio"
  BY <1>2 DEF pcie_exit
<1>3. CASE d = "gpio_key"
  BY <1>3 DEF keys_remove
<1> QED
  BY <1>1, <1>2, <1>3 DEF Drivers

LEMMA FileOnlyAccesses ==
  ASSUME NEW d \in Drivers, NEW s \in FileSteps(d)
  PROVE  OnlyAccesses(s)
<1> USE DEF FileSteps, OnlyAccesses, Load, Store, Step
<1>1. CASE d \in {"gprs", "gprs_new", "system_ready", "buzzer"}
  <2>1. s = PulseSteps
    BY <1>1 DEF gprs_write, gprs_new_write, system_ready_write, buzzer_write
  <2> QED
    BY <2>1 DEF PulseSteps
<1>2. CASE d = "pcie_gpio"
  <2>1. PICK pin \in CpuPins, value \in {0, 1} : s = pcie_gpio(pin, value)
    BY <1>2 DEF pcie_write
  <2> QED
    BY <2>1 DEF pcie_gpio
<1>3. CASE d = "gpio_key"
  <2>1. s = buzzer_beep
    BY <1>3
  <2>2. /\ Len(buzzer_beep) = 3 /\ buzzer_beep[1].kind = "load"
        /\ buzzer_beep[2].kind = "store" /\ buzzer_beep[3].kind = "store"
    BY DEF buzzer_beep
  <2> QED
    BY <2>1, <2>2
<1> QED
  BY <1>1, <1>2, <1>3 DEF Drivers

-----------------------------------------------------------------------------
Busy(p)    == call[p] # Idle
Driver(p)  == call[p].driver
Initing(p) == Busy(p) /\ call[p].steps = InitSteps(Driver(p))
Exiting(p) == Busy(p) /\ call[p].steps = ExitSteps(Driver(p))
Serving(p) == Busy(p) /\ call[p].steps \in FileSteps(Driver(p))

\* A module is loaded or removed by one process.
OneLoader ==
  \A p, q \in Procs :
    /\ Initing(p) \/ Exiting(p)
    /\ Initing(q) \/ Exiting(q)
    /\ Driver(p) = Driver(q)
    => p = q

\* What holds of a process in a handler of its driver.
InitState(p) ==
  /\ module[Driver(p)] = "loading"
  /\ \A i \in 1 .. Len(call[p].steps) :
       i < pc[p] /\ call[p].steps[i].kind = "ioremap" =>
         \/ Driver(p) \in mapped
         \/ /\ Driver(p) \in refused
            /\ Driver(p) = "gpio_key" => pc[p] > Len(call[p].steps)

ExitState(p) ==
  /\ module[Driver(p)] = "leaving"
  /\ pc[p] <= Len(call[p].steps) => Driver(p) \in mapped \cup refused
  /\ pc[p] > 1 => Driver(p) \notin node

FileState(p) ==
  /\ module[Driver(p)] \in {"loading", "in"}
  /\ Driver(p) = "gpio_key" => Driver(p) \in mapped

HandlerStates ==
  \A p \in Procs :
    /\ Busy(p) => Initing(p) \/ Exiting(p) \/ Serving(p)
    /\ Initing(p) => InitState(p)
    /\ Exiting(p) => ExitState(p)
    /\ Serving(p) => FileState(p)

ModuleStates ==
  \A d \in Drivers :
    /\ module[d] = "in" => d \in mapped \cup refused
    /\ module[d] = "out" => d \notin node
    /\ d = "gpio_key" /\ d \in node /\ module[d] \in {"loading", "in"} => d \in mapped

MapInv == OneLoader /\ HandlerStates /\ ModuleStates

\* No steps are those of two kinds of handlers.
LEMMA KindsDiffer ==
  ASSUME NEW d \in Drivers, NEW s
  PROVE  /\ s = InitSteps(d) => s # ExitSteps(d) /\ s \notin FileSteps(d)
         /\ s = ExitSteps(d) => s \notin FileSteps(d)
<1>1. 1 \in 1 .. Len(InitSteps(d)) /\ 1 \in 1 .. Len(ExitSteps(d))
  BY InitMapsFirst, ExitUnmapsLast DEF MapsFirst, UnmapsLast
<1>2. /\ InitSteps(d)[1].kind \in {"ioremap", "register_chrdev"}
      /\ ExitSteps(d)[1].kind = "unregister_chrdev"
  BY InitMapsFirst, ExitUnmapsLast DEF MapsFirst, UnmapsLast
<1>3. ASSUME s \in FileSteps(d), 1 \in 1 .. Len(s)
      PROVE  s[1].kind \in {"load", "store"}
  BY <1>3, FileOnlyAccesses DEF OnlyAccesses
<1> QED
  BY <1>1, <1>2, <1>3

\* The parts of IInv that the proof of MapInv needs.
LEMMA CallTypes ==
  ASSUME IInv, NEW p \in Procs, Busy(p)
  PROVE  /\ Driver(p) \in Drivers /\ pc[p] \in Nat \ {0}
         /\ Len(call[p].steps) \in Nat /\ pc[p] <= Len(call[p].steps) + 1
         /\ mapped \subseteq Drivers
<1>1. call[p] \in Calls \cup {Idle} /\ call[p] # Idle
  BY DEF IInv, TypeOK, Busy
<1>2. /\ call[p].driver \in Drivers /\ Len(call[p].steps) \in Nat
  BY <1>1, CallSteps
<1>3. mapped \subseteq Drivers
  BY GpioAssumption DEF IInv, TypeOK
<1> QED
  BY <1>1, <1>2, <1>3 DEF IInv, TypeOK, Driver

LEMMA InsmodMaps ==
  ASSUME IInv, MapInv, NEW p \in Procs, NEW d \in Drivers, Insmod(p, d)
  PROVE  MapInv'
<1>1. /\ call[p] = Idle /\ module[d] = "out"
      /\ call' = [call EXCEPT ![p] = [driver |-> d, steps |-> InitSteps(d)]]
      /\ pc' = [pc EXCEPT ![p] = 1]
      /\ module' = [module EXCEPT ![d] = "loading"]
      /\ UNCHANGED <<node, mapped, refused>>
  BY DEF Insmod, Enter
<1>2. /\ call'[p] # Idle /\ call'[p].driver = d /\ call'[p].steps = InitSteps(d)
      /\ pc'[p] = 1 /\ module'[d] = "loading"
      /\ \A q \in Procs : q # p => call'[q] = call[q] /\ pc'[q] = pc[q]
      /\ \A e \in Drivers : e # d => module'[e] = module[e]
  BY <1>1 DEF IInv, TypeOK, Idle, Drivers
<1>3. \A q \in Procs : Busy(q) => Driver(q) # d /\ q # p /\ Driver(q) \in Drivers
  BY <1>1, CallTypes DEF MapInv, HandlerStates, InitState, ExitState,
     FileState, Busy
<1>4. \A q \in Procs : q # p =>
        /\ Busy(q)' = Busy(q) /\ Initing(q)' = Initing(q)
        /\ Exiting(q)' = Exiting(q) /\ Serving(q)' = Serving(q)
        /\ Driver(q)' = Driver(q)
  BY <1>2 DEF Busy, Initing, Exiting, Serving, Driver
<1>5. Initing(p)' /\ ~Exiting(p)' /\ ~Serving(p)' /\ Driver(p)' = d
  BY <1>2, KindsDiffer DEF Busy, Initing, Exiting, Serving, Driver
<1>6. OneLoader'
  BY <1>3, <1>4, <1>5 DEF MapInv, OneLoader, Initing, Exiting
<1>7. HandlerStates'
  <2>1. ASSUME NEW q \in Procs, q # p
        PROVE  /\ Busy(q)' => (Initing(q) \/ Exiting(q) \/ Serving(q))'
               /\ Initing(q)' => InitState(q)'
               /\ Exiting(q)' => ExitState(q)'
               /\ Serving(q)' => FileState(q)'
    <3>1. Busy(q) => module'[Driver(q)] = module[Driver(q)]
      BY <1>2, <1>3
    <3> QED
      BY <1>1, <1>2, <1>4, <2>1, <3>1
         DEF MapInv, HandlerStates, InitState, ExitState, FileState, Initing,
             Exiting, Serving
  <2>2. InitState(p)'
    BY <1>2, <1>5, InitMapsFirst DEF InitState, MapsFirst
  <2> QED
    BY <1>5, <2>1, <2>2 DEF HandlerStates
<1>8. ModuleStates'
  BY <1>1, <1>2 DEF MapInv, ModuleStates
<1> QED
  BY <1>6, <1>7, <1>8 DEF MapInv

\* What a step that only enters, runs or leaves a handler of process p leaves
\* alone.
OthersStay(p) ==
  \A q \in Procs : q # p => call'[q] = call[q] /\ pc'[q] = pc[q]

LEMMA OthersKeep ==
  ASSUME NEW p \in Procs, OthersStay(p), NEW q \in Procs, q # p
  PROVE  /\ Busy(q)' = Busy(q) /\ Initing(q)' = Initing(q)
         /\ Exiting(q)' = Exiting(q) /\ Serving(q)' = Serving(q)
         /\ Driver(q)' = Driver(q)
BY DEF OthersStay, Busy, Initing, Exiting, Serving, Driver

LEMMA RmmodMaps ==
  ASSUME IInv, MapInv, NEW p \in Procs, NEW d \in Drivers, Rmmod(p, d)
  PROVE  MapInv'
<1>1. /\ call[p] = Idle /\ module[d] = "in" /\ d \in mapped \cup refused
      /\ \A q \in Procs : call[q].driver # d
      /\ UNCHANGED <<node, mapped, refused>>
  BY DEF Rmmod, Enter, MapInv, ModuleStates
<1>2. /\ call'[p] # Idle /\ call'[p].driver = d /\ call'[p].steps = ExitSteps(d)
      /\ pc'[p] = 1 /\ module'[d] = "leaving" /\ OthersStay(p)
      /\ \A e \in Drivers : e # d => module'[e] = module[e]
  BY DEF Rmmod, Enter, IInv, TypeOK, Idle, Drivers, OthersStay
<1>3. \A q \in Procs : Busy(q) => Driver(q) # d /\ q # p /\ Driver(q) \in Drivers
  BY <1>1, CallTypes DEF Busy, Driver
<1>4. \A q \in Procs : q # p =>
        /\ Busy(q)' = Busy(q) /\ Initing(q)' = Initing(q)
        /\ Exiting(q)' = Exiting(q) /\ Serving(q)' = Serving(q)
        /\ Driver(q)' = Driver(q)
  BY <1>2, OthersKeep
<1>5. Exiting(p)' /\ ~Initing(p)' /\ ~Serving(p)' /\ Driver(p)' = d
  BY <1>2, KindsDiffer DEF Busy, Initing, Exiting, Serving, Driver
<1>6. OneLoader'
  BY <1>3, <1>4, <1>5 DEF MapInv, OneLoader, Initing, Exiting
<1>7. HandlerStates'
  <2>1. ASSUME NEW q \in Procs, q # p
        PROVE  /\ Busy(q)' => (Initing(q) \/ Exiting(q) \/ Serving(q))'
               /\ Initing(q)' => InitState(q)'
               /\ Exiting(q)' => ExitState(q)'
               /\ Serving(q)' => FileState(q)'
    <3>1. Busy(q) => module'[Driver(q)] = module[Driver(q)]
      BY <1>2, <1>3
    <3> QED
      BY <1>1, <1>2, <1>4, <2>1, <3>1
         DEF MapInv, HandlerStates, InitState, ExitState, FileState, Initing,
             Exiting, Serving, OthersStay
  <2>2. ExitState(p)'
    BY <1>1, <1>2, <1>5 DEF ExitState
  <2> QED
    BY <1>5, <2>1, <2>2 DEF HandlerStates
<1>8. ModuleStates'
  BY <1>1, <1>2 DEF MapInv, ModuleStates
<1> QED
  BY <1>6, <1>7, <1>8 DEF MapInv

LEMMA FileCallMaps ==
  ASSUME IInv, MapInv, NEW p \in Procs, NEW d \in Drivers, FileCall(p, d)
  PROVE  MapInv'
<1>1. /\ call[p] = Idle /\ d \in node
      /\ module[d] \in {"loading", "in"}
      /\ UNCHANGED <<node, mapped, refused, module>>
  BY DEF FileCall, Enter, MapInv, ModuleStates, IInv, TypeOK
<1>2. /\ call'[p] # Idle /\ call'[p].driver = d /\ call'[p].steps \in FileSteps(d)
      /\ OthersStay(p)
  BY DEF FileCall, Enter, IInv, TypeOK, Idle, Drivers, OthersStay
<1>4. \A q \in Procs : q # p =>
        /\ Busy(q)' = Busy(q) /\ Initing(q)' = Initing(q)
        /\ Exiting(q)' = Exiting(q) /\ Serving(q)' = Serving(q)
        /\ Driver(q)' = Driver(q)
  BY <1>2, OthersKeep
<1>5. Serving(p)' /\ ~Initing(p)' /\ ~Exiting(p)' /\ Driver(p)' = d
  BY <1>2, KindsDiffer DEF Busy, Initing, Exiting, Serving, Driver
<1>6. OneLoader'
  BY <1>4, <1>5 DEF MapInv, OneLoader
<1>7. HandlerStates'
  <2>1. ASSUME NEW q \in Procs, q # p
        PROVE  /\ Busy(q)' => (Initing(q) \/ Exiting(q) \/ Serving(q))'
               /\ Initing(q)' => InitState(q)'
               /\ Exiting(q)' => ExitState(q)'
               /\ Serving(q)' => FileState(q)'
    BY <1>1, <1>2, <1>4, <2>1
       DEF MapInv, HandlerStates, InitState, ExitState, FileState, OthersStay
  <2>2. FileState(p)'
    BY <1>1, <1>5 DEF FileState, MapInv, ModuleStates
  <2> QED
    BY <1>5, <2>1, <2>2 DEF HandlerStates
<1>8. ModuleStates'
  BY <1>1 DEF MapInv, ModuleStates
<1> QED
  BY <1>6, <1>7, <1>8 DEF MapInv

LEMMA ReturnMaps ==
  ASSUME IInv, MapInv, NEW p \in Procs, Return(p)
  PROVE  MapInv'
<1> DEFINE d == Driver(p)
<1>1. /\ Busy(p) /\ pc[p] > Len(call[p].steps) /\ d \in Drivers
      /\ Len(call[p].steps) \in Nat /\ pc[p] \in Nat \ {0}
      /\ UNCHANGED <<node, mapped, refused, pc>>
  BY CallTypes DEF Return, Busy
<1>2. /\ call'[p] = Idle /\ OthersStay(p) /\ ~Busy(p)'
      /\ \A e \in Drivers : e # d => module'[e] = module[e]
      /\ Initing(p) => module'[d] = "in"
      /\ Exiting(p) => module'[d] = "out"
      /\ Serving(p) => module'[d] = module[d]
  BY <1>1, KindsDiffer
     DEF Return, IInv, TypeOK, OthersStay, Busy, Driver, Initing, Exiting, Serving
<1>3. /\ Initing(p) \/ Exiting(p) \/ Serving(p)
      /\ Initing(p) => InitState(p)
      /\ Exiting(p) => ExitState(p)
      /\ Serving(p) => FileState(p)
  BY <1>1 DEF MapInv, HandlerStates
<1>4. \A q \in Procs : q # p =>
        /\ Busy(q)' = Busy(q) /\ Initing(q)' = Initing(q)
        /\ Exiting(q)' = Exiting(q) /\ Serving(q)' = Serving(q)
        /\ Driver(q)' = Driver(q)
  BY <1>2, OthersKeep
<1>5. Initing(p) => d \in mapped \cup refused
  BY <1>1, <1>3, InitMapsFirst DEF InitState, MapsFirst, Initing
<1>6. Exiting(p) => d \notin node
  BY <1>1, <1>3, ExitUnmapsLast DEF ExitState, UnmapsLast, Exiting
<1>7. OneLoader'
  BY <1>2, <1>4 DEF MapInv, OneLoader, Initing, Exiting
<1>8. HandlerStates'
  <2>1. ASSUME NEW q \in Procs, q # p, Busy(q)
        PROVE  /\ (Initing(q) \/ Exiting(q) \/ Serving(q))'
               /\ Initing(q)' => InitState(q)'
               /\ Exiting(q)' => ExitState(q)'
               /\ Serving(q)' => FileState(q)'
    <3>1. /\ Initing(q) \/ Exiting(q) \/ Serving(q)
          /\ Initing(q) => InitState(q)
          /\ Exiting(q) => ExitState(q)
          /\ Serving(q) => FileState(q)
          /\ Driver(q) \in Drivers
      BY <2>1, CallTypes DEF MapInv, HandlerStates
    <3>2. CASE Driver(q) # d
      BY <1>1, <1>2, <1>4, <2>1, <3>1, <3>2
         DEF InitState, ExitState, FileState, OthersStay
    <3>3. CASE Driver(q) = d /\ Serving(p)
      BY <1>1, <1>2, <1>4, <2>1, <3>1, <3>3
         DEF InitState, ExitState, FileState, OthersStay
    <3>4. CASE Driver(q) = d /\ (Initing(p) \/ Exiting(p))
      <4>1. ~Initing(q) /\ ~Exiting(q) /\ Serving(q)
        BY <2>1, <3>1, <3>4 DEF MapInv, OneLoader
      <4>2. ~Exiting(p)
        BY <1>3, <3>1, <3>4, <4>1 DEF ExitState, FileState
      <4> QED
        BY <1>1, <1>2, <1>4, <2>1, <3>1, <3>4, <4>1, <4>2 DEF FileState
    <3> QED
      BY <1>3, <3>2, <3>3, <3>4
  <2> QED
    BY <1>2, <1>4, <2>1 DEF HandlerStates, Initing, Exiting, Serving
<1>9. ModuleStates'
  <2>1. /\ Initing(p) => module[d] = "loading"
        /\ Serving(p) => module'[d] = module[d]
    BY <1>2, <1>3 DEF InitState
  <2> QED
    BY <1>1, <1>2, <1>3, <1>5, <1>6, <2>1 DEF MapInv, ModuleStates
<1> QED
  BY <1>7, <1>8, <1>9 DEF MapInv

\* A step of a handler: which handler it can be of, and what it does to the
\* device files and the mappings.
LEMMA StepMaps ==
  ASSUME IInv, MapInv, NEW p \in Procs, NEW kind, At(p, kind), Advance(p),
         node' = IF kind = "register_chrdev" THEN node \cup {Driver(p)}
                 ELSE IF kind = "unregister_chrdev" THEN node \ {Driver(p)}
                 ELSE node,
         mapped' = IF kind = "ioremap" THEN mapped \cup {Driver(p)}
                   ELSE IF kind = "iounmap" THEN mapped \ {Driver(p)}
                   ELSE mapped,
         refused' = IF kind = "ioremap" THEN refused \ {Driver(p)} ELSE refused
  PROVE  MapInv'
<1> DEFINE d == Driver(p)
           n == Len(call[p].steps)
<1>1. /\ Busy(p) /\ d \in Drivers /\ n \in Nat
      /\ pc[p] \in Nat \ {0} /\ pc[p] <= n /\ pc[p] \in 1 .. n
      /\ call[p].steps[pc[p]].kind = kind
  <2>1. Busy(p)
    BY DEF At, Idle, Busy
  <2> QED
    BY <2>1, CallTypes DEF At
<1>2. /\ call' = call /\ module' = module
      /\ pc' = [pc EXCEPT ![p] = pc[p] + 1]
  BY DEF Advance
<1>3. /\ pc'[p] = pc[p] + 1
      /\ \A q \in Procs : q # p => pc'[q] = pc[q]
      /\ \A q \in Procs : /\ Busy(q)' = Busy(q) /\ Initing(q)' = Initing(q)
                           /\ Exiting(q)' = Exiting(q) /\ Serving(q)' = Serving(q)
                           /\ Driver(q)' = Driver(q)
  BY <1>2 DEF IInv, TypeOK, Busy, Initing, Exiting, Serving, Driver
<1>4. /\ Initing(p) \/ Exiting(p) \/ Serving(p)
      /\ Initing(p) => InitState(p)
      /\ Exiting(p) => ExitState(p)
      /\ Serving(p) => FileState(p)
  BY <1>1 DEF MapInv, HandlerStates
<1>5. /\ Initing(p) => MapsFirst(d, call[p].steps)
      /\ Exiting(p) => UnmapsLast(call[p].steps)
      /\ Serving(p) => OnlyAccesses(call[p].steps)
  BY <1>1, InitMapsFirst, ExitUnmapsLast, FileOnlyAccesses
     DEF Initing, Exiting, Serving
<1>6. /\ kind \in {"ioremap", "register_chrdev"} => Initing(p)
      /\ kind \in {"iounmap", "unregister_chrdev"} => Exiting(p)
  <2>1. Initing(p) => kind \notin {"iounmap", "unregister_chrdev"}
    BY <1>1, <1>5 DEF MapsFirst
  <2>2. Exiting(p) => kind \notin {"ioremap", "register_chrdev"}
    BY <1>1, <1>5 DEF UnmapsLast
  <2>3. Serving(p) => kind \in {"load", "store"}
    BY <1>1, <1>5 DEF OnlyAccesses
  <2> QED
    BY <1>4, <2>1, <2>2, <2>3
<1>7. /\ kind = "register_chrdev" /\ d = "gpio_key" => d \in mapped
      /\ kind = "iounmap" => pc[p] = n
      /\ Exiting(p) /\ pc[p] = 1 => kind = "unregister_chrdev"
  <2>1. ASSUME kind = "register_chrdev", d = "gpio_key" PROVE d \in mapped
    <3>1. Initing(p) /\ InitState(p) /\ MapsFirst(d, call[p].steps)
      BY <1>4, <1>5, <1>6, <2>1
    <3>2. PICK m \in 1 .. n :
            /\ call[p].steps[m].kind = "ioremap"
            /\ \A i \in 1 .. n : call[p].steps[i].kind = "register_chrdev" => m < i
      BY <2>1, <3>1 DEF MapsFirst
    <3>3. m < pc[p]
      BY <1>1, <2>1, <3>2
    <3> QED
      BY <1>1, <2>1, <3>1, <3>2, <3>3 DEF InitState
  <2>2. kind = "iounmap" => pc[p] = n
    BY <1>1, <1>5, <1>6 DEF UnmapsLast
  <2>3. Exiting(p) /\ pc[p] = 1 => kind = "unregister_chrdev"
    BY <1>1, <1>5 DEF UnmapsLast
  <2> QED
    BY <2>1, <2>2, <2>3
<1>8. OneLoader'
  BY <1>3 DEF MapInv, OneLoader
<1>9. HandlerStates'
  <2>1. Initing(p) => InitState(p)'
    <3> SUFFICES ASSUME Initing(p) PROVE InitState(p)'
      OBVIOUS
    <3>1. kind # "iounmap"
      BY <1>1, <1>5 DEF MapsFirst
    <3>2. module'[d] = "loading" /\ Driver(p)' = d /\ call' = call
      BY <1>2, <1>3, <1>4 DEF InitState
    <3>3. ASSUME NEW i \in 1 .. n, i < pc[p] + 1,
                 call[p].steps[i].kind = "ioremap"
          PROVE  \/ d \in mapped'
                 \/ d \in refused' /\ (d = "gpio_key" => pc[p] + 1 > n)
      <4>1. CASE i = pc[p]
        BY <1>1, <3>3, <4>1
      <4>2. CASE i < pc[p]
        BY <1>1, <1>4, <3>1, <3>3, <4>2 DEF InitState
      <4> QED
        BY <1>1, <3>3, <4>1, <4>2
    <3> QED
      BY <1>3, <3>2, <3>3 DEF InitState
  <2>2. Exiting(p) => ExitState(p)'
    <3> SUFFICES ASSUME Exiting(p) PROVE ExitState(p)'
      OBVIOUS
    <3>1. kind \notin {"register_chrdev", "ioremap"}
      BY <1>1, <1>5 DEF UnmapsLast
    <3> QED
      BY <1>1, <1>2, <1>3, <1>4, <1>7, <3>1 DEF ExitState
  <2>3. Serving(p) => FileState(p)'
    <3> SUFFICES ASSUME Serving(p) PROVE FileState(p)'
      OBVIOUS
    <3>1. kind # "iounmap"
      BY <1>1, <1>5 DEF OnlyAccesses
    <3> QED
      BY <1>2, <1>3, <1>4, <3>1 DEF FileState
  <2>4. ASSUME NEW q \in Procs, q # p, Busy(q)
        PROVE  /\ Initing(q) => InitState(q)'
               /\ Exiting(q) => ExitState(q)'
               /\ Serving(q) => FileState(q)'
    <3>1. /\ Initing(q) => InitState(q)
          /\ Exiting(q) => ExitState(q)
          /\ Serving(q) => FileState(q)
      BY <2>4 DEF MapInv, HandlerStates
    <3>2. CASE Driver(q) # d
      BY <1>2, <1>3, <2>4, <3>1, <3>2 DEF InitState, ExitState, FileState
    <3>3. CASE Driver(q) = d /\ kind \in {"iounmap", "unregister_chrdev"}
      <4>1. Exiting(p) /\ module[d] = "leaving"
        BY <1>4, <1>6, <3>3 DEF ExitState
      <4>2. ~Exiting(q)
        BY <2>4, <3>3, <4>1 DEF MapInv, OneLoader
      <4>3. ~Initing(q) /\ ~Serving(q)
        BY <3>1, <3>3, <4>1 DEF InitState, FileState
      <4> QED
        BY <4>2, <4>3
    <3>4. CASE Driver(q) = d /\ kind = "register_chrdev"
      <4>1. Initing(p) /\ module[d] = "loading"
        BY <1>4, <1>6, <3>4 DEF InitState
      <4>2. ~Exiting(q)
        BY <3>1, <3>4, <4>1 DEF ExitState
      <4> QED
        BY <1>2, <1>3, <2>4, <3>1, <3>4, <4>2 DEF InitState, FileState
    <3>5. CASE kind \notin {"iounmap", "unregister_chrdev", "register_chrdev"}
      BY <1>2, <1>3, <2>4, <3>1, <3>5 DEF InitState, ExitState, FileState
    <3> QED
      BY <3>2, <3>3, <3>4, <3>5
  <2> QED
    BY <1>3, <2>1, <2>2, <2>3, <2>4
       DEF MapInv, HandlerStates, Initing, Exiting, Serving
<1>10. ModuleStates'
  <2>1. kind = "iounmap" => module[d] = "leaving"
    BY <1>4, <1>6 DEF ExitState
  <2>2. kind = "register_chrdev" => module[d] = "loading"
    BY <1>4, <1>6 DEF InitState
  <2> QED
    BY <1>1, <1>2, <1>7, <2>1, <2>2 DEF MapInv, ModuleStates
<1> QED
  BY <1>8, <1>9, <1>10 DEF MapInv

\* A mapping that is refused: no step of the handler is left to the key driver.
LEMMA RefusalMaps ==
  ASSUME IInv, MapInv, NEW p \in Procs, IoremapFails(p)
  PROVE  MapInv'
<1> DEFINE d == Driver(p)
           n == Len(call[p].steps)
<1>1. /\ Busy(p) /\ d \in Drivers /\ n \in Nat /\ pc[p] \in 1 .. n
      /\ call[p].steps[pc[p]].kind = "ioremap"
  <2>1. Busy(p)
    BY DEF IoremapFails, At, Idle, Busy
  <2> QED
    BY <2>1, CallTypes DEF IoremapFails, At
<1>2. /\ pc' = [pc EXCEPT ![p] = IF d = "gpio_key" THEN n + 1 ELSE pc[p] + 1]
      /\ refused' = refused \cup {d}
      /\ UNCHANGED << call, module, node, mapped >>
  BY DEF IoremapFails, Driver
<1>3. /\ pc'[p] = IF d = "gpio_key" THEN n + 1 ELSE pc[p] + 1
      /\ \A q \in Procs : q # p => pc'[q] = pc[q]
      /\ \A q \in Procs : /\ Busy(q)' = Busy(q) /\ Initing(q)' = Initing(q)
                           /\ Exiting(q)' = Exiting(q) /\ Serving(q)' = Serving(q)
                           /\ Driver(q)' = Driver(q)
  BY <1>2 DEF IInv, TypeOK, Busy, Initing, Exiting, Serving, Driver
<1>4. Initing(p) /\ InitState(p) /\ ~Exiting(p) /\ ~Serving(p)
  <2>1. Exiting(p) => UnmapsLast(call[p].steps)
    BY <1>1, ExitUnmapsLast DEF Exiting
  <2>2. Serving(p) => OnlyAccesses(call[p].steps)
    BY <1>1, FileOnlyAccesses DEF Serving
  <2> QED
    BY <1>1, <2>1, <2>2 DEF UnmapsLast, OnlyAccesses, MapInv, HandlerStates
<1>5. OneLoader'
  BY <1>3 DEF MapInv, OneLoader
<1>6. HandlerStates'
  <2>1. InitState(p)'
    BY <1>1, <1>2, <1>3, <1>4 DEF InitState
  <2>2. ASSUME NEW q \in Procs, q # p, Busy(q)
        PROVE  /\ Initing(q) => InitState(q)'
               /\ Exiting(q) => ExitState(q)'
               /\ Serving(q) => FileState(q)'
    BY <1>2, <1>3, <2>2 DEF MapInv, HandlerStates, InitState, ExitState, FileState
  <2> QED
    BY <1>3, <1>4, <2>1, <2>2 DEF MapInv, HandlerStates, Initing, Exiting, Serving
<1>7. ModuleStates'
  BY <1>2 DEF MapInv, ModuleStates
<1> QED
  BY <1>5, <1>6, <1>7 DEF MapInv

LEMMA NextMaps == IInv /\ MapInv /\ [Next]_vars => MapInv'
<1> SUFFICES ASSUME IInv, MapInv, [Next]_vars PROVE MapInv'
  OBVIOUS
<1>1. ASSUME NEW p \in Procs, NEW d \in Drivers,
             Insmod(p, d) \/ Rmmod(p, d) \/ FileCall(p, d)
      PROVE  MapInv'
  BY <1>1, InsmodMaps, RmmodMaps, FileCallMaps
<1>2. ASSUME NEW p \in Procs, Return(p) PROVE MapInv'
  BY <1>2, ReturnMaps
<1>3. ASSUME NEW p \in Procs, Chrdev(p) PROVE MapInv'
  <2>1. CASE At(p, "register_chrdev") /\ node' = node \cup {call[p].driver}
    BY <1>3, <2>1, StepMaps DEF Chrdev, Driver
  <2>2. CASE At(p, "unregister_chrdev") /\ node' = node \ {call[p].driver}
    BY <1>3, <2>2, StepMaps DEF Chrdev, Driver
  <2> QED
    BY <1>3, <2>1, <2>2 DEF Chrdev
<1>4. ASSUME NEW p \in Procs, Remap(p) PROVE MapInv'
  <2>1. CASE At(p, "ioremap") /\ mapped' = mapped \cup {call[p].driver}
    BY <1>4, <2>1, StepMaps DEF Remap, Driver
  <2>2. CASE At(p, "iounmap") /\ mapped' = mapped \ {call[p].driver}
    BY <1>4, <2>2, StepMaps DEF Remap, Driver
  <2> QED
    BY <1>4, <2>1, <2>2 DEF Remap
<1>5. ASSUME NEW p \in Procs, SetInput(p) PROVE MapInv'
  BY <1>5, StepMaps DEF SetInput
<1>6. ASSUME NEW p \in Procs, ReadRegister(p) PROVE MapInv'
  BY <1>6, StepMaps DEF ReadRegister
<1>7. ASSUME NEW p \in Procs, WriteRegister(p) PROVE MapInv'
  BY <1>7, StepMaps DEF WriteRegister
<1>8. ASSUME UNCHANGED <<call, pc, module, node, mapped, refused>> PROVE MapInv'
  BY <1>8 DEF MapInv, OneLoader, HandlerStates, ModuleStates, InitState,
     ExitState, FileState, Initing, Exiting, Serving, Busy, Driver
<1>9. ASSUME NEW p \in Procs, Oops(p) PROVE MapInv'
  BY <1>8, <1>9 DEF Oops
<1>10. ASSUME NEW p \in Procs, IoremapFails(p) PROVE MapInv'
  BY <1>10, RefusalMaps
<1>11. CASE UNCHANGED vars
  BY <1>8, <1>11 DEF vars
<1> QED
  BY <1>1, <1>2, <1>3, <1>4, <1>5, <1>6, <1>7, <1>9, <1>10, <1>11 DEF Next

(* No driver reads or writes the bank through an address that is not       *)
(* mapped, but five of them while their init function still runs or after  *)
(* an ioremap that failed and that they did not look at.                   *)
THEOREM MappedWhenUsed == Spec => OopsOnlyUnmapped
<1>1. Spec => []IInv
  BY InitHolds, StepPreserves, PTL DEF Spec
<1>2. Init => MapInv
  BY DEF Init, MapInv, OneLoader, HandlerStates, ModuleStates, Initing,
     Exiting, Serving, Busy
<1>3. IInv /\ MapInv /\ [Next]_vars => MapInv'
  BY NextMaps
<1>4. IInv /\ MapInv /\ [Next]_vars =>
        [\A p \in killed' \ killed :
           /\ module[call[p].driver] = "loading" \/ call[p].driver \in refused
           /\ call[p].driver \in {"gprs", "gprs_new", "system_ready", "buzzer", "pcie_gpio"}]_vars
  <2> SUFFICES ASSUME IInv, MapInv, Next, NEW p \in killed' \ killed
               PROVE  /\ module[call[p].driver] = "loading" \/ call[p].driver \in refused
                      /\ call[p].driver \in {"gprs", "gprs_new", "system_ready", "buzzer", "pcie_gpio"}
    OBVIOUS
  <2>1. p \in Procs /\ Oops(p)
    BY DEF Next, Insmod, Rmmod, FileCall, Enter, Return, Chrdev, Remap,
       IoremapFails, SetInput, ReadRegister, WriteRegister, Oops, Advance
  <2>2. /\ Busy(p) /\ pc[p] \in 1 .. Len(call[p].steps)
        /\ call[p].steps[pc[p]].kind \in {"load", "store"}
        /\ Driver(p) \notin mapped /\ Driver(p) \in Drivers
    <3>1. Busy(p)
      BY <2>1 DEF Oops, At, Idle, Busy
    <3> QED
      BY <2>1, <3>1, CallTypes DEF Oops, At, Driver
  <2>3. ASSUME Initing(p)
        PROVE  Driver(p) \in refused /\ Driver(p) # "gpio_key"
    <3>1. MapsFirst(Driver(p), call[p].steps) /\ InitState(p)
      BY <2>1, <2>2, <2>3, InitMapsFirst DEF Initing, MapInv, HandlerStates
    <3>2. PICK m \in 1 .. Len(call[p].steps) :
            call[p].steps[m].kind = "ioremap" /\ m < pc[p]
      BY <2>2, <3>1 DEF MapsFirst
    <3> QED
      BY <2>1, <2>2, <3>1, <3>2, CallTypes DEF InitState
  <2>4. ASSUME Exiting(p)
        PROVE  Driver(p) \in refused /\ Driver(p) # "gpio_key"
    <3>1. Driver(p) \in refused
      BY <2>1, <2>2, <2>4, CallTypes DEF MapInv, HandlerStates, ExitState
    <3>2. Driver(p) = "gpio_key" => call[p].steps = keys_remove
      BY <2>4 DEF Exiting, ExitSteps
    <3>3. ASSUME NEW i \in 1 .. Len(keys_remove)
          PROVE  keys_remove[i].kind \notin {"load", "store"}
      BY <3>3 DEF keys_remove, UnregisterChrdev, Iounmap, Step
    <3> QED
      BY <2>2, <3>1, <3>2, <3>3
  <2>5. ASSUME Serving(p)
        PROVE  /\ module[Driver(p)] = "loading" \/ Driver(p) \in refused
               /\ Driver(p) # "gpio_key"
    BY <2>1, <2>2, <2>5 DEF MapInv, HandlerStates, FileState, ModuleStates
  <2>6. /\ module[Driver(p)] = "loading" \/ Driver(p) \in refused
        /\ Driver(p) # "gpio_key"
    BY <2>1, <2>2, <2>3, <2>4, <2>5 DEF MapInv, HandlerStates
  <2> QED
    BY <2>2, <2>6 DEF Driver, Drivers
<1> QED
  BY <1>1, <1>2, <1>3, <1>4, PTL DEF Spec, OopsOnlyUnmapped
=============================================================================
