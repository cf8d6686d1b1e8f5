---------------------------- MODULE GpioRegister ----------------------------
(***************************************************************************)
(* The drivers of src/c/linux_driver/ that share the GPIO bank at GPIO_0:  *)
(* gprs, gprs_new, system_ready, buzzer, pcie_gpio and the beep of         *)
(* key/key_gpio.  Each maps the bank for itself and changes a pin by       *)
(* reading a whole register into a local variable, changing bits of it and *)
(* writing it back; no lock is held in between, so the update of one       *)
(* driver can be undone by another.  The model says which pins that can    *)
(* reach, and when.                                                        *)
(*                                                                         *)
(* A handler is a sequence of steps, each of which is one access to the    *)
(* hardware or one call of the kernel; processes interleave between steps, *)
(* which is also all that msleep does.  The kernel (module states, the     *)
(* reference an open file holds on its module) is external and modelled    *)
(* from the use the drivers make of it.                                    *)
(***************************************************************************)
EXTENDS Naturals, Sequences, FiniteSets

CONSTANTS
  Procs,     (* the processes that load, write to and remove drivers       *)
  Boards,    (* the sets of drivers that are used together                 *)
  Pins,      (* the pins of the bank                                       *)
  MaxCalls   (* bound: calls made in a behaviour                           *)

OE      == "OE"       \* output enable: a pin in the set is an input
DATAOUT == "DATAOUT"  \* a pin in the set is high
Registers == {OE, DATAOUT}

Drivers == {"gprs", "gprs_new", "system_ready", "buzzer", "pcie_gpio", "gpio_key"}
PulsePin == 27
CpuPins  == {25, 24, 27, 8}   \* CPU_GPIO1, CPU_GPIO2, CPU_GPIO3, CPU_RESET

ASSUME GpioAssumption ==
  /\ MaxCalls \in Nat
  /\ Boards \subseteq SUBSET Drivers
  /\ {8, 10, 15, 16, 24, 25, 27} \subseteq Pins

(***************************************************************************)
(* The steps of the handlers.                                              *)
(***************************************************************************)
Step(kind, r, clear, set) == [kind |-> kind, r |-> r, clear |-> clear, set |-> set]
Load(r)  == Step("load", r, {}, {})
Store(r, clear, set) == Step("store", r, clear, set)
DirectionInput(pin)  == Step("input", OE, {}, {pin})
RegisterChrdev   == Step("register_chrdev", OE, {}, {})
UnregisterChrdev == Step("unregister_chrdev", OE, {}, {})
Ioremap == Step("ioremap", OE, {}, {})
Iounmap == Step("iounmap", OE, {}, {})

\* A low pulse of 150 ms on the reset line.
PulseStepsSwapped == << Load(DATAOUT), Store(DATAOUT, {}, {PulsePin}),
                        Load(DATAOUT), Store(DATAOUT, {PulsePin}, {}) >>
PulseSteps == << Load(DATAOUT), Store(DATAOUT, {PulsePin}, {}),
                 Load(DATAOUT), Store(DATAOUT, {}, {PulsePin}) >>

PowerOffUnmapped(pin) == << UnregisterChrdev, Iounmap, Load(DATAOUT), Store(DATAOUT, {pin}, {}) >>
PowerOff(pin) == << UnregisterChrdev, Load(DATAOUT), Store(DATAOUT, {pin}, {}), Iounmap >>
gprs_write == PulseSteps
gprs_init  == << RegisterChrdev, Ioremap, DirectionInput(15) >>
gprs_exit  == PowerOff(15)

gprs_new_write == PulseSteps
gprs_new_init  == << RegisterChrdev, Ioremap, Load(OE), Store(OE, {15, 16}, {}),
                     Load(DATAOUT), Store(DATAOUT, {16}, {15}) >>
gprs_new_exit  == PowerOff(15)

system_ready_write == PulseSteps
system_ready_init  == << RegisterChrdev, Ioremap, Load(OE), Store(OE, {27, 16}, {}),
                         Load(DATAOUT), Store(DATAOUT, {}, {16, 27}) >>
system_ready_exit  == PowerOff(15)

buzzer_write == PulseSteps
buzzer_init  == << RegisterChrdev, Ioremap, Load(OE), Store(OE, {10}, {}),
                   Load(DATAOUT), Store(DATAOUT, {}, {10}) >>
buzzer_exit  == PowerOff(16)

pcie_gpio(pin, value) ==
  << Load(DATAOUT), IF value = 0 THEN Store(DATAOUT, {pin}, {}) ELSE Store(DATAOUT, {}, {pin}) >>
pcie_write == {pcie_gpio(pin, value) : pin \in CpuPins, value \in {0, 1}}
pcie_init  == << RegisterChrdev, Ioremap >>
pcie_exit  == << UnregisterChrdev, Iounmap >>

\* The beep of the key driver keeps the value it read before it slept.
buzzer_beep == << Load(DATAOUT), Store(DATAOUT, {}, {10}), Store(DATAOUT, {10}, {}) >>
keys_probe  == << Ioremap, Load(OE), Store(OE, {10}, {}), RegisterChrdev >>
keys_remove == << UnregisterChrdev, Iounmap >>

\* The handlers a process can call on the device file of driver d.
FileSteps(d) ==
  CASE d = "gprs"         -> {gprs_write}
    [] d = "gprs_new"     -> {gprs_new_write}
    [] d = "system_ready" -> {system_ready_write}
    [] d = "buzzer"       -> {buzzer_write}
    [] d = "pcie_gpio"    -> pcie_write
    [] d = "gpio_key"     -> {buzzer_beep}

InitSteps(d) ==
  CASE d = "gprs"         -> gprs_init
    [] d = "gprs_new"     -> gprs_new_init
    [] d = "system_ready" -> system_ready_init
    [] d = "buzzer"       -> buzzer_init
    [] d = "pcie_gpio"    -> pcie_init
    [] d = "gpio_key"     -> keys_probe

ExitSteps(d) ==
  CASE d = "gprs"         -> gprs_exit
    [] d = "gprs_new"     -> gprs_new_exit
    [] d = "system_ready" -> system_ready_exit
    [] d = "buzzer"       -> buzzer_exit
    [] d = "pcie_gpio"    -> pcie_exit
    [] d = "gpio_key"     -> keys_remove

(***************************************************************************)
(* The state.                                                              *)
(***************************************************************************)
VARIABLES
  board,    (* the drivers of this board                                   *)
  bank,     (* the registers, as the sets of the bits that are 1           *)
  module,   (* the state of each module: "out", "loading", "in", "leaving" *)
  node,     (* the drivers whose device file exists                        *)
  mapped,   (* the drivers whose gpio_data is mapped                       *)
  refused,  (* the drivers of which ioremap failed, so gpio_data is NULL   *)
  call,     (* the handler each process is in: its driver and its steps    *)
  pc,       (* the next step of that handler                               *)
  reg,      (* the local variable reg, as it was last read from a register *)
  killed,   (* the processes that accessed an address that is not mapped   *)
  calls,    (* how many calls were made                                    *)
  company   (* history: the handlers called since the bank was last quiet  *)

vars == << board, bank, module, node, mapped, refused, call, pc, reg, killed,
           calls, company >>

Idle == [driver |-> "none", steps |-> << >>]

Init ==
  /\ board \in Boards
  /\ bank = [r \in Registers |-> IF r = OE THEN Pins ELSE {}]
  /\ module = [d \in Drivers |-> "out"]
  /\ node = {} /\ mapped = {} /\ refused = {}
  /\ call = [p \in Procs |-> Idle]
  /\ pc = [p \in Procs |-> 1]
  /\ reg = [p \in Procs |-> [r \in Registers |-> {}]]
  /\ killed = {} /\ calls = 0 /\ company = {}

(***************************************************************************)
(* Calls and returns.                                                      *)
(***************************************************************************)
Enter(p, d, steps) ==
  /\ call[p] = Idle /\ calls < MaxCalls
  /\ calls' = calls + 1
  /\ call' = [call EXCEPT ![p] = [driver |-> d, steps |-> steps]]
  /\ pc' = [pc EXCEPT ![p] = 1]
  /\ company' = company \cup {call'[p]}
  /\ UNCHANGED << board, bank, node, mapped, refused, reg, killed >>

Insmod(p, d) ==
  /\ d \in board /\ module[d] = "out"
  /\ module' = [module EXCEPT ![d] = "loading"]
  /\ Enter(p, d, InitSteps(d))

\* An open device file is a reference on its module, so that rmmod fails.
Rmmod(p, d) ==
  /\ module[d] = "in"
  /\ \A q \in Procs : call[q].driver # d
  /\ module' = [module EXCEPT ![d] = "leaving"]
  /\ Enter(p, d, ExitSteps(d))

\* A device file can be opened as soon as it exists, init still running.
FileCall(p, d) ==
  /\ d \in node /\ module[d] # "leaving"
  /\ \E steps \in FileSteps(d) : Enter(p, d, steps)
  /\ UNCHANGED module

Return(p) ==
  /\ call[p] # Idle /\ pc[p] > Len(call[p].steps)
  /\ call' = [call EXCEPT ![p] = Idle]
  /\ module' = [module EXCEPT ![call[p].driver] =
       CASE call[p].steps = InitSteps(call[p].driver) -> "in"
         [] call[p].steps = ExitSteps(call[p].driver) -> "out"
         [] OTHER -> @]
  /\ company' = IF \A q \in Procs : call'[q] = Idle THEN {} ELSE company
  /\ UNCHANGED << board, bank, node, mapped, refused, pc, reg, killed, calls >>

(***************************************************************************)
(* The steps.                                                              *)
(***************************************************************************)
At(p, kind) ==
  /\ p \notin killed /\ pc[p] \in 1 .. Len(call[p].steps)
  /\ call[p].steps[pc[p]].kind = kind
Now(p) == call[p].steps[pc[p]]
Advance(p) ==
  /\ pc' = [pc EXCEPT ![p] = @ + 1]
  /\ UNCHANGED << board, module, call, killed, calls, company >>

Chrdev(p) ==
  /\ \/ At(p, "register_chrdev") /\ node' = node \cup {call[p].driver}
     \/ At(p, "unregister_chrdev") /\ node' = node \ {call[p].driver}
  /\ Advance(p) /\ UNCHANGED << bank, mapped, refused, reg >>

Remap(p) ==
  /\ \/ /\ At(p, "ioremap")
        /\ mapped' = mapped \cup {call[p].driver}
        /\ refused' = refused \ {call[p].driver}
     \/ At(p, "iounmap") /\ mapped' = mapped \ {call[p].driver} /\ UNCHANGED refused
  /\ Advance(p) /\ UNCHANGED << bank, node, reg >>

\* ioremap fails and gpio_data stays NULL.  buzzer_beep_init looks at it, and the
\* probe of the key driver ends with nothing to remove later; the init functions
\* of the other drivers go on.
IoremapFails(p) ==
  /\ At(p, "ioremap")
  /\ refused' = refused \cup {call[p].driver}
  /\ pc' = [pc EXCEPT ![p] = IF call[p].driver = "gpio_key"
                               THEN Len(call[p].steps) + 1 ELSE @ + 1]
  /\ UNCHANGED << board, bank, module, node, mapped, call, reg, killed, calls, company >>

\* gpio_direction_input of the kernel changes its bit under a lock.
SetInput(p) ==
  /\ At(p, "input")
  /\ bank' = [bank EXCEPT ![OE] = @ \cup Now(p).set]
  /\ Advance(p) /\ UNCHANGED << node, mapped, refused, reg >>

ReadRegister(p) ==
  /\ At(p, "load") /\ call[p].driver \in mapped
  /\ reg' = [reg EXCEPT ![p][Now(p).r] = bank[Now(p).r]]
  /\ Advance(p) /\ UNCHANGED << bank, node, mapped, refused >>

ChangedOnlyMask(p) == Now(p).set
Changed(p) == (reg[p][Now(p).r] \ Now(p).clear) \cup Now(p).set
WriteRegister(p) ==
  /\ At(p, "store") /\ call[p].driver \in mapped
  /\ reg' = [reg EXCEPT ![p][Now(p).r] = Changed(p)]
  /\ bank' = [bank EXCEPT ![Now(p).r] = Changed(p)]
  /\ Advance(p) /\ UNCHANGED << node, mapped, refused >>

\* gpio_data is still NULL, or no longer a mapping: the kernel kills the process.
Oops(p) ==
  /\ At(p, "load") \/ At(p, "store")
  /\ call[p].driver \notin mapped
  /\ killed' = killed \cup {p}
  /\ UNCHANGED << board, bank, module, node, mapped, refused, call, pc, reg,
                  calls, company >>

Next == \E p \in Procs :
  \/ \E d \in Drivers : Insmod(p, d) \/ Rmmod(p, d) \/ FileCall(p, d)
  \/ Return(p) \/ Chrdev(p) \/ Remap(p) \/ IoremapFails(p) \/ SetInput(p)
  \/ ReadRegister(p) \/ WriteRegister(p) \/ Oops(p)

Spec == Init /\ [][Next]_vars

(***************************************************************************)
(* Properties.                                                             *)
(***************************************************************************)
Steps == UNION {FileSteps(d) \cup {InitSteps(d), ExitSteps(d)} : d \in Drivers}
Calls == [driver : Drivers, steps : Steps]

TypeOK ==
  /\ board \in Boards
  /\ bank \in [Registers -> SUBSET Pins]
  /\ module \in [Drivers -> {"out", "loading", "in", "leaving"}]
  /\ node \subseteq board /\ mapped \subseteq board /\ refused \subseteq board
  /\ call \in [Procs -> Calls \cup {Idle}]
  /\ pc \in [Procs -> Nat \ {0}]
  /\ \A p \in Procs : call[p] # Idle => pc[p] <= Len(call[p].steps) + 1
  /\ reg \in [Procs -> [Registers -> SUBSET Pins]]
  /\ killed \subseteq Procs /\ calls \in 0 .. MaxCalls
  /\ company \subseteq Calls

\* The pins of register r that a handler changes.
PinsOf(steps, r) ==
  UNION {steps[i].clear \cup steps[i].set : i \in {j \in DOMAIN steps : steps[j].r = r}}

(* Lost updates are contained: a pin changes only while a handler that     *)
(* drives this pin is in progress, or was when the present run of          *)
(* overlapping handlers began.  A driver that has the bank to itself is    *)
(* never undone later by a value some other process still holds            *)
(* (gpio_reg_read and gpio_reg_write of every driver).                     *)
OnlyActivePinsChange ==
  [][\A r \in Registers, pin \in Pins :
       (pin \in bank[r]) # (pin \in bank'[r]) =>
         \E c \in company : pin \in PinsOf(c.steps, r)]_vars

(* Processes that pulse the reset line with gprs_write at the same time,   *)
(* with no other handler in progress, leave it high when the last of them  *)
(* returns, in whatever order they read and wrote.                         *)
PulseEndsHigh ==
  [][company # {} /\ company' = {} /\ (\A c \in company : c.steps = PulseSteps)
       => PulsePin \in bank'[DATAOUT]]_vars

(* The bank is accessed through gpio_data only while it is mapped, but for *)
(* what the init functions of five drivers leave open: a call that comes   *)
(* in between their register_chrdev and ioremap, and any access after an   *)
(* ioremap that failed, which they do not look at (pcie_gpio.c, line 101). *)
(* The key driver maps first and looks at the result; and no exit function *)
(* unmaps what is still used.                                              *)
OopsOnlyUnmapped ==
  [][\A p \in killed' \ killed :
       /\ module[call[p].driver] = "loading" \/ call[p].driver \in refused
       /\ call[p].driver \in {"gprs", "gprs_new", "system_ready", "buzzer", "pcie_gpio"}]_vars

(* system_ready_init sets pins 16 and 27 "to hold the rest" and "to power  *)
(* on": while its module is loaded and no process is in one of its         *)
(* handlers both are high.                                                 *)
HeldHigh ==
  module["system_ready"] = "in" /\ (\A p \in Procs : call[p].driver # "system_ready")
    => {16, 27} \subseteq bank[DATAOUT]
=============================================================================
