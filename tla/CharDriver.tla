------------------------------ MODULE CharDriver ------------------------------
(***************************************************************************)
(* The small character drivers of src/c/linux_driver, one at a time:       *)
(*   "ts"      ts_irq/ts_irq.c, which tells whether the screen was touched *)
(*   "hello"   timer/hello.c, a timer that sets itself again               *)
(*   "test"    test/test1/test.c, a key that interrupts                    *)
(*   "led"     test/test2/led.c, four lamps                                *)
(*   "memdev"  test/test3/memdev.c, devices of memory                      *)
(*   "reset"   test/test4/reset.c, the power pin of the modem              *)
(* A module is loaded, used by processes and removed.  The kernel is       *)
(* external: it refuses rmmod while a file is open and open while rmmod    *)
(* runs, but lets a process open a device whose module is still loading,   *)
(* and frees the code after a failed init whoever has the device open.     *)
(* "oops" stands for a crash of the kernel, at a bad address or in code    *)
(* that is no longer there.                                                *)
(***************************************************************************)
EXTENDS Integers, Sequences

CONSTANTS
  Drivers,     \* the drivers to be loaded, some of the above
  Procs,       \* the processes that use the device
  Leds,        \* the lamps of led.c: 1 .. 4, pins 4 .. 7 of the port
  Size,        \* MEMDEV_SIZE
  MaxTouches   \* bound of the check: how often the screen is touched

ASSUME CharAssumption ==
  /\ Drivers \subseteq {"ts", "hello", "test", "led", "memdev", "reset"}
  /\ Leds \subseteq Nat \ {0} /\ Size \in Nat \ {0} /\ MaxTouches \in Nat

VARIABLES
  driver, smp,   \* the module; whether there is more than one processor
  phase,         \* "loading", "loaded", "failed", "unloading", "gone", "oops"
  at, undo,      \* the steps that init has taken, those exit has left
  own,           \* the resources that the module holds
  pcs, val,      \* of a process: where it is, a local variable
  base,          \* ts_2_ts, the address of the mapped registers
  masked,        \* the interrupts of the bank that are disabled
  ts_status, running,   \* a flag of ts; the timer handler runs
  ker_i, gpfdat, port,  \* led: the command, the pins that are high, a process's copy
  pin,           \* reset: pin 8
  ppos,          \* memdev: the file position
  refused, early, wrote,   \* history, see the properties
  uses,                    \* how many ioctls there were since ts was mapped, up to 2
  touches, unseen, carry, want, overlap

modVars  == << driver, smp, phase, at, undo, own >>
tsVars   == << base, masked, ts_status, wrote, uses, touches, unseen, carry >>
ledVars  == << ker_i, gpfdat, port, want, overlap >>
useVars  == << pcs, val, ppos, early >>
charVars == << modVars, useVars, tsVars, ledVars, running, pin, refused >>

AllHigh == Leds \cup {0}      \* 0 stands for pin 3, beside the lamps
Touches == 1 .. MaxTouches

(***************************************************************************)
(* Resources in the order in which init asks for them and exit gives them  *)
(* back.  "irq2" is the second request_irq of test; its exit frees irq 96, *)
(* which it does not hold, and so no interrupt.  led and memdev release    *)
(* all but the memory of the devices; ts keeps what its open acquired.     *)
(***************************************************************************)
TsInit     == << "chrdev", "class", "node" >>
HelloInit  == << "timer" >>
TestInit   == << "chrdev", "class", "node", "map", "irq", "irq2" >>
LedInit    == << "region", "cdev", "class", "node", "map" >>
MemdevInit == << "region", "cdev", "devs", "data0", "data1" >>
ResetInit  == << "chrdev", "class", "node", "gpio", "output" >>

TsExit     == << "node", "class", "chrdev" >>
HelloExit  == << "timer" >>
TestExit   == << "chrdev", "node", "class", "map" >>
LedExit    == << "region", "node", "class", "cdev", "map" >>
MemdevExit == << "cdev", "devs", "region" >>
\* Mutation: the pin is not given back.
ResetExitNoPin == << "chrdev", "node", "class" >>
ResetExit  == << "chrdev", "node", "class", "gpio" >>

InitSteps == [ts |-> TsInit, hello |-> HelloInit, test |-> TestInit, led |-> LedInit,
              memdev |-> MemdevInit, reset |-> ResetInit][driver]
ExitSteps == [ts |-> TsExit, hello |-> HelloExit, test |-> TestExit, led |-> LedExit,
              memdev |-> MemdevExit, reset |-> ResetExit][driver]

\* What init returns an error for; what it uses without a look at the result.
\* Everything else that is refused it does not notice.  !major is never true:
\* register_chrdev returns a negative number.
ReturnsFor ==
  [ts |-> {"class"}, hello |-> {}, test |-> {"irq2"}, led |-> {"region", "cdev"},
   memdev |-> {"region", "devs"}, reset |-> {}][driver]
CrashesFor ==
  [ts |-> {}, hello |-> {}, test |-> {"map"}, led |-> {"cdev"},
   memdev |-> {"data0", "data1"}, reset |-> {}][driver]

\* Only ts undoes a step.  memdev gives back a range of one number, which the
\* kernel does not know, for it was given two.
Undone(r) == IF driver = "ts" /\ r = "class" THEN {"chrdev"} ELSE {}

Present == phase \in {"loading", "loaded", "unloading"}     \* the code
Left    == phase \in {"failed", "gone"}
Closed(p) == pcs[p] = "closed"

CharInit ==
  /\ driver \in Drivers /\ smp \in BOOLEAN /\ phase = "loading" /\ at = 0 /\ undo = << >> /\ own = {}
  /\ pcs = [p \in Procs |-> "closed"] /\ val = [p \in Procs |-> 0]
  /\ base = "null" /\ masked = {} /\ ts_status = FALSE /\ running = FALSE
  /\ ker_i = 100 /\ gpfdat = AllHigh /\ port = [p \in Procs |-> {}] /\ pin = 0 /\ ppos = [p \in Procs |-> 0]
  /\ refused = FALSE /\ early = FALSE /\ wrote = FALSE /\ uses = 0
  /\ touches = 0 /\ unseen = {} /\ carry = [p \in Procs |-> {}] /\ want = AllHigh /\ overlap = FALSE

Oops == phase' = "oops" /\ UNCHANGED << driver, smp, at, undo, own >>

(***************************************************************************)
(* module_init.  A device has no node without a class, and an interrupt    *)
(* that is not shared is given out once.                                   *)
(***************************************************************************)
Wanted == InitSteps[at + 1]
Free(r) ==
  /\ r = "node" => "class" \in own
  /\ r = "irq2" => "irq" \notin own
Acquired(r) == IF r = "irq2" THEN "irq" ELSE r

TakeNext ==
  /\ phase = "loading" /\ at < Len(InitSteps) /\ Free(Wanted)
  /\ own' = own \cup {Acquired(Wanted)} /\ at' = at + 1
  /\ pin' = IF Wanted = "output" THEN 0 ELSE pin
  /\ UNCHANGED << driver, smp, phase, undo, useVars, tsVars, ledVars, running, refused >>

Refuse ==
  /\ phase = "loading" /\ at < Len(InitSteps) /\ Wanted \notin {"timer", "output"}
  /\ refused' = (refused \/ Free(Wanted))
  /\ \/ /\ Wanted \in ReturnsFor /\ phase' = "failed" /\ own' = own \ Undone(Wanted)
        /\ UNCHANGED << driver, smp, at, undo >>
     \/ /\ Wanted \in CrashesFor /\ Oops
     \/ /\ Wanted \notin ReturnsFor \cup CrashesFor /\ at' = at + 1
        /\ UNCHANGED << driver, smp, phase, undo, own >>
  /\ UNCHANGED << useVars, tsVars, ledVars, running, pin >>

Loaded ==
  /\ phase = "loading" /\ at = Len(InitSteps) /\ phase' = "loaded"
  /\ UNCHANGED << driver, smp, at, undo, own, useVars, tsVars, ledVars, running, pin, refused >>

(***************************************************************************)
(* module_exit.  device_destroy looks into the class, device_unregister of *)
(* led into the device.                                                    *)
(***************************************************************************)
Rmmod ==
  /\ phase = "loaded" /\ \A p \in Procs : Closed(p)
  /\ phase' = "unloading" /\ undo' = ExitSteps
  /\ UNCHANGED << driver, smp, at, own, useVars, tsVars, ledVars, running, pin, refused >>

Needed == IF driver = "led" THEN "node" ELSE "class"

GiveBack ==
  /\ phase = "unloading"
  /\ \/ undo = << >> /\ phase' = "gone" /\ UNCHANGED << driver, smp, at, undo, own >>
     \/ undo # << >> /\ Head(undo) = "node" /\ Needed \notin own /\ Oops
     \/ /\ undo # << >> /\ (Head(undo) = "node" => Needed \in own)
        /\ own' = own \ {Head(undo)} /\ undo' = Tail(undo) /\ UNCHANGED << driver, smp, phase, at >>
  /\ UNCHANGED << useVars, tsVars, ledVars, running, pin, refused >>

(***************************************************************************)
(* Interrupts, and the timer.  With one processor the handler of the timer *)
(* is not interrupted by a process and changes nothing in sum; with more   *)
(* del_timer does not wait for a handler that runs.                        *)
(***************************************************************************)
Interrupt ==
  /\ "irq" \in own /\ phase # "oops"
  /\ \/ /\ Left /\ Oops /\ UNCHANGED << ts_status, touches, unseen >>
     \/ /\ Present /\ driver = "ts" /\ "touch" \notin masked
        /\ touches < MaxTouches /\ touches' = touches + 1 /\ unseen' = unseen \cup {touches'}
        /\ ts_status' = TRUE /\ UNCHANGED modVars
  /\ UNCHANGED << useVars, base, masked, wrote, uses, carry, ledVars, running, pin, refused >>

TimerFun ==
  /\ driver = "hello" /\ phase # "oops" /\ ("timer" \in own \/ running)
  /\ \/ Left /\ Oops /\ UNCHANGED running
     \/ /\ Present /\ ~running /\ smp /\ running' = TRUE
        /\ own' = own \ {"timer"} /\ UNCHANGED << driver, smp, phase, at, undo >>
     \/ /\ Present /\ running /\ running' = FALSE
        /\ own' = own \cup {"timer"} /\ UNCHANGED << driver, smp, phase, at, undo >>
  /\ UNCHANGED << useVars, tsVars, ledVars, pin, refused >>

(***************************************************************************)
(* The calls of a process.  A file that is open keeps the module from      *)
(* being removed, but not from being freed when its init fails.            *)
(***************************************************************************)
Visible == own \cap {"chrdev", "cdev"} # {} /\ (driver = "memdev" \/ "node" \in own)
Goto(p, from, to) == Present /\ pcs[p] = from /\ pcs' = [pcs EXCEPT ![p] = to]

CodeGone(p) ==
  /\ Left /\ (~Closed(p) \/ Visible) /\ Oops
  /\ UNCHANGED << useVars, tsVars, ledVars, running, pin, refused >>

Opening(p) == phase \in {"loading", "loaded"} /\ Visible /\ Closed(p) /\ early' = (early \/ phase = "loading")

\* led_open and mem_open.  A memory device that does not exist yet has the
\* address 0 plus an offset, which the file keeps; val tells whether it has.
Open(p) ==
  /\ Opening(p)
  /\ \/ /\ driver = "led" /\ "map" \notin own /\ Oops /\ UNCHANGED << pcs, val, ppos, pin >>
     \/ /\ driver = "led" => "map" \in own
        /\ driver \in {"led", "test", "reset", "memdev"}
        /\ pcs' = [pcs EXCEPT ![p] = IF driver = "test" THEN "looping" ELSE "open"]
        /\ val' = [val EXCEPT ![p] = IF "devs" \in own THEN 1 ELSE 0]
        /\ ppos' = [ppos EXCEPT ![p] = 0]
        /\ pin' = IF driver = "reset" THEN 1 ELSE pin
        /\ UNCHANGED modVars
  /\ UNCHANGED << tsVars, ledVars, running, refused >>

\* key_read never returns.  The base is NULL while test is loading.
KeyRead(p) ==
  /\ Present /\ pcs[p] = "looping" /\ "map" \notin own /\ Oops
  /\ UNCHANGED << useVars, tsVars, ledVars, running, pin, refused >>

Close(p) ==
  /\ Goto(p, "open", "closed")
  /\ UNCHANGED << modVars, val, ppos, early, tsVars, ledVars, running, pin, refused >>

(***************************************************************************)
(* ts.  ts_open maps the registers twice and forgets the first mapping; it *)
(* reports no failure.                                                     *)
(***************************************************************************)
Calls(p) == pcs[p] \in {"mask?", "enable?", "masks", "enables", "unmap"}
InUse == CASE \A p \in Procs : ~Calls(p) -> 0
           [] \E p \in Procs : Calls(p) /\ \A q \in Procs \ {p} : ~Calls(q) -> 1
           [] OTHER -> 2

TsMap(from, to, p) ==
  /\ base' \in {"null", "live"} /\ refused' = (refused \/ base' = "null")
  /\ uses' = InUse
  /\ pcs' = [pcs EXCEPT ![p] = to]
  /\ UNCHANGED << modVars, val, ppos, masked, ts_status, wrote, touches, unseen, carry, ledVars, running, pin >>

TsOpen(p) ==
  \/ driver = "ts" /\ Opening(p) /\ TsMap("closed", "irq", p)
  \/ /\ Goto(p, "irq", "again") /\ own' = own \cup {"irq"}     \* request_irq
     /\ UNCHANGED << driver, smp, phase, at, undo, val, ppos, early, tsVars, ledVars, running, pin, refused >>
  \/ /\ Goto(p, "irq", "open") /\ refused' = TRUE
     /\ UNCHANGED << modVars, val, ppos, early, tsVars, ledVars, running, pin >>
  \/ Present /\ pcs[p] = "again" /\ TsMap("again", "open", p) /\ UNCHANGED early

\* Mutation: the flag is cleared when the answer has been copied.
ClearsAfterCopy == FALSE
ClearsAtOnce == TRUE

\* val is ts_value.  Whether or not the copy fails the touch is forgotten.
TsRead(p) ==
  /\ \/ /\ driver = "ts" /\ Goto(p, "open", IF ts_status THEN "clear" ELSE "copy")
        /\ val' = [val EXCEPT ![p] = 0]
        /\ UNCHANGED << ts_status, unseen, carry >>
     \/ /\ Goto(p, "clear", "copy") /\ val' = [val EXCEPT ![p] = 1]
        /\ ts_status' = (ts_status /\ ~ClearsAtOnce)
        /\ carry' = [carry EXCEPT ![p] = unseen] /\ UNCHANGED unseen
     \/ /\ Goto(p, "copy", "open")
        /\ unseen' = unseen \ carry[p] /\ carry' = [carry EXCEPT ![p] = {}]
        /\ ts_status' = (ts_status /\ (ClearsAtOnce \/ val[p] = 0))
        /\ UNCHANGED val
  /\ UNCHANGED << modVars, ppos, early, base, masked, wrote, uses, touches, ledVars, running, pin, refused >>

\* copy_from_user into NULL.
TsWrite(p) ==
  /\ driver = "ts" /\ Present /\ pcs[p] = "open"
  /\ wrote' = TRUE
  /\ (UNCHANGED modVars \/ Oops)   \* of nothing, or EFAULT
  /\ UNCHANGED << useVars, base, masked, ts_status, uses, touches, unseen, carry, ledVars, running, pin, refused >>

(***************************************************************************)
(* ts_ioctl.  It reads the mask of the bank and writes it back with the    *)
(* bit of the screen: 1 disables in CLR, so that TS_UNABLE disables        *)
(* whatever was enabled.  Then it unmaps the registers, whoever uses them  *)
(* and for any command, and keeps the address.                             *)
(***************************************************************************)
Lines == {"touch", "other"}

IoctlBegin(p) ==
  /\ driver = "ts"
  /\ \E to \in {"mask?", "enable?", "unmap"} : Goto(p, "open", to)
  /\ uses' = IF uses < 2 THEN uses + 1 ELSE 2
  /\ UNCHANGED << modVars, val, ppos, early, base, masked, ts_status, wrote,
                  touches, unseen, carry, ledVars, running, pin, refused >>

RegisterAccess(p) ==
  /\ Present /\ pcs[p] \in {"mask?", "enable?", "masks", "enables"}
  /\ \/ base # "live" /\ Oops /\ UNCHANGED << pcs, masked >>
     \/ /\ base = "live" /\ UNCHANGED modVars
        /\ \/ Goto(p, "mask?", "masks") /\ UNCHANGED masked
           \/ Goto(p, "enable?", "enables") /\ UNCHANGED masked
           \/ Goto(p, "masks", "unmap") /\ masked' = Lines
           \/ Goto(p, "enables", "unmap") /\ masked' = masked \ {"touch"}
  /\ UNCHANGED << val, ppos, early, base, ts_status, wrote, uses, touches, unseen, carry,
                  ledVars, running, pin, refused >>

Unmap(p) ==
  /\ Goto(p, "unmap", "open") /\ base' = IF base = "live" THEN "dead" ELSE base
  /\ UNCHANGED << modVars, val, ppos, early, masked, ts_status, wrote, uses, touches, unseen, carry,
                  ledVars, running, pin, refused >>

(***************************************************************************)
(* led_write.  Two processes share ker_i, and the port is read, changed    *)
(* and written.  ker_i is looked at twice; the compiler may keep the first *)
(* value.  A command that is not a lamp changes no lamp (100, the initial  *)
(* value, no pin at all), and a copy that fails leaves the last command.   *)
(***************************************************************************)
Commands == Leds \cup {0}
Writing(p) == pcs[p] \in {"test", "on", "off", "change"}
OthersWrite(p) == \E q \in Procs \ {p} : Writing(q)
After(pins, i) == IF i = 0 THEN pins \cup Leds ELSE pins \ {i}

\* A lamp is lit when its pin, 3 beyond its number, is low.
\* Mutation: the pins that are set begin one too low.
AllOffFromPin3(pins) == pins \cup {led - 1 : led \in Leds}
Lit(pins, led) == pins \ {led}
AllOff(pins)   == pins \cup Leds

LedCopy(p) ==
  /\ driver = "led" /\ Goto(p, "open", "test")
  /\ ker_i' \in Commands \cup {ker_i}
  /\ overlap' = (overlap \/ OthersWrite(p)) /\ want' = After(want, ker_i')
  /\ UNCHANGED << modVars, val, ppos, early, gpfdat, port, tsVars, running, pin, refused >>

LedTest(p) ==
  /\ Goto(p, "test", IF ker_i # 0 THEN "on" ELSE "off") /\ val' = [val EXCEPT ![p] = ker_i]
  /\ UNCHANGED << modVars, ppos, early, tsVars, ledVars, running, pin, refused >>

\* The port as it was read, with the change.
LedLoad(p) ==
  /\ \/ /\ Goto(p, "on", "change")
        /\ \E i \in {val[p], ker_i} : port' = [port EXCEPT ![p] = Lit(gpfdat, i)]
     \/ Goto(p, "off", "change") /\ port' = [port EXCEPT ![p] = AllOff(gpfdat)]
  /\ UNCHANGED << modVars, val, ppos, early, tsVars, ker_i, gpfdat, want, overlap, running, pin, refused >>

\* When all are done the history follows the port again.
LedStore(p) ==
  /\ Goto(p, "change", "open") /\ gpfdat' = port[p]
  /\ port' = [port EXCEPT ![p] = {}] /\ val' = [val EXCEPT ![p] = 0]
  /\ overlap' = (overlap /\ OthersWrite(p))
  /\ want' = IF overlap /\ ~overlap' THEN gpfdat' ELSE want
  /\ UNCHANGED << modVars, ppos, early, ker_i, tsVars, running, pin, refused >>

(***************************************************************************)
(* memdev.  mem_read and mem_write cut the request at the end of the       *)
(* device; mem_llseek counts from the last byte.                           *)
(***************************************************************************)
\* Mutation: the request is not cut.
WholeCount(size, p) == size
Count(size, p) == IF size > Size - p THEN Size - p ELSE size
Usable(p) == val[p] = 1 /\ {"data0", "data1"} \subseteq own

Transfer(p) ==
  /\ driver = "memdev" /\ Present /\ pcs[p] = "open"
  /\ \E size \in 1 .. Size + 1 :
       LET count == Count(size, ppos[p]) IN
       IF ppos[p] >= Size THEN UNCHANGED << modVars, ppos >>
       ELSE \/ Usable(p) /\ ppos[p] + count <= Size /\ UNCHANGED modVars
               /\ ppos' \in {ppos, [ppos EXCEPT ![p] = @ + count]}    \* EFAULT, or not
            \/ ~(Usable(p) /\ ppos[p] + count <= Size) /\ Oops /\ UNCHANGED ppos
  /\ UNCHANGED << pcs, val, early, tsVars, ledVars, running, pin, refused >>

Seek(p) ==
  /\ driver = "memdev" /\ Present /\ pcs[p] = "open"
  /\ \E offset \in 0 - Size .. Size, from \in {0, ppos[p], Size - 1} :
       LET newpos == from + offset IN
       newpos \in 0 .. Size /\ ppos' = [ppos EXCEPT ![p] = newpos]
  /\ UNCHANGED << modVars, pcs, val, early, tsVars, ledVars, running, pin, refused >>

(***************************************************************************)
(* The specification, and the properties.                                  *)
(***************************************************************************)
Module == TakeNext \/ Refuse \/ Loaded \/ Rmmod \/ GiveBack
Call(p) ==
  \/ CodeGone(p) \/ Open(p) \/ KeyRead(p) \/ Close(p)
  \/ TsOpen(p) \/ TsRead(p) \/ TsWrite(p) \/ IoctlBegin(p) \/ RegisterAccess(p) \/ Unmap(p)
  \/ LedCopy(p) \/ LedTest(p) \/ LedLoad(p) \/ LedStore(p)
  \/ Transfer(p) \/ Seek(p)
CharNext == Module \/ Interrupt \/ TimerFun \/ \E p \in Procs : Call(p)

CharSpec == CharInit /\ [][CharNext]_charVars

Places == {"closed", "open", "looping", "irq", "again", "clear", "copy", "mask?", "enable?", "masks", "enables",
           "unmap", "test", "on", "off", "change"}

CharTypeOK ==
  /\ driver \in Drivers /\ smp \in BOOLEAN /\ at \in 0 .. Len(InitSteps)
  /\ phase \in {"loading", "loaded", "failed", "unloading", "gone", "oops"}
  /\ pcs \in [Procs -> Places] /\ val \in [Procs -> Nat] /\ ppos \in [Procs -> 0 .. Size] /\ early \in BOOLEAN
  /\ base \in {"null", "live", "dead"} /\ masked \subseteq Lines /\ ts_status \in BOOLEAN /\ wrote \in BOOLEAN
  /\ touches \in 0 .. MaxTouches /\ unseen \subseteq Touches /\ carry \in [Procs -> SUBSET Touches]
  /\ ker_i \in Nat /\ gpfdat \subseteq AllHigh /\ port \in [Procs -> SUBSET AllHigh]
  /\ want \subseteq AllHigh /\ overlap \in BOOLEAN
  /\ running \in BOOLEAN /\ pin \in {0, 1} /\ refused \in BOOLEAN

(* What outlives the code of a module (the exit functions, and the error   *)
(* paths of the init functions): the interrupt of ts, once it was opened;  *)
(* everything of test, whose init asks twice for one interrupt and so      *)
(* fails with nothing undone; the number and the device of memdev without  *)
(* memory, the number of led without a device; the timer, only where its   *)
(* handler may run beside del_timer.                                       *)
LeftBehind ==
  Left => own \ {"output", "data0", "data1"} \subseteq
            CASE driver = "ts" -> {"irq"}
              [] driver = "test" -> IF phase = "failed" THEN own ELSE {"irq"}
              [] driver = "memdev" -> IF phase = "failed" THEN {"region", "cdev"} ELSE {}
              [] driver = "led" -> IF phase = "failed" THEN {"region"} ELSE {}
              [] driver = "hello" -> IF smp THEN {"timer"} ELSE {}
              [] OTHER -> {}

(* Who is granted every resource, opens no device before it is loaded and  *)
(* gives ts no second ioctl per open, no write and no removal does not     *)
(* crash: all crashes of these drivers are of the kinds above.             *)
NoOtherOops ==
  phase = "oops" =>
    \/ refused \/ early
    \/ driver = "test"
    \/ driver = "hello" /\ smp
    \/ driver = "ts" /\ (wrote \/ uses = 2 \/ own = {"irq"})

(* No touch is forgotten before a read has returned it (ts_read): since    *)
(* the last one either the flag is set or a reader is on its way with 1.   *)
TouchReported ==
  \A k \in unseen : ts_status \/ \E p \in Procs : k \in carry[p]

(* A lamp command with no other beside it leaves the port as commanded:    *)
(* the lamp on, the others as they were, no pin but those of the lamps     *)
(* touched (led_write).  A process that opened reset once it was loaded    *)
(* finds the pin high (gprs_open; gprs_init sets it low at its end).       *)
OutputsAsCommanded ==
  /\ ~overlap /\ (\A p \in Procs : ~Writing(p)) => gpfdat = want
  /\ driver = "reset" /\ phase = "loaded" /\ ~early /\ (\E p \in Procs : ~Closed(p)) => pin = 1
=============================================================================
