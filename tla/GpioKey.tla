------------------------------ MODULE GpioKey -------------------------------
(***************************************************************************)
(* The key driver of src/c/linux_driver/key/key_gpio/gpio_key.c: keys_probe *)
(* acquires its resources one by one and undoes them in reverse when one   *)
(* is refused, while the device file can already be opened and the keys    *)
(* already interrupt; the interrupt handler reports a key in get_my_key    *)
(* and readers of the device wait for it.                                  *)
(*                                                                         *)
(* The kernel is external: an interrupt is not interrupted by a process,   *)
(* rmmod waits until the device is closed, wait_event and wake_up work as  *)
(* documented once the wait queue is initialized, and crash before.        *)
(***************************************************************************)
EXTENDS Naturals, Sequences, Functions

CONSTANTS
  Readers,     (* the processes that read the device                       *)
  NButtons,    (* pdata->nbuttons                                          *)
  Debounced,   (* the buttons whose gpio cannot debounce and gets a timer  *)
  MaxEvents,   (* bound: how many times a key interrupts                   *)
  MaxReads     (* bound: how often the device is opened for one read       *)

Buttons == 1 .. NButtons

ASSUME KeyAssumption ==
  /\ NButtons \in Nat \ {0} /\ Debounced \subseteq Buttons
  /\ MaxEvents \in Nat /\ MaxReads \in Nat

(***************************************************************************)
(* Resources, in the order in which keys_probe acquires them.              *)
(***************************************************************************)
Of(kind, b) == [kind |-> kind, b |-> b]
Bank   == Of("bank", 0)      \* ioremap in buzzer_beep_init
Chrdev == Of("chrdev", 0)
Class  == Of("class", 0)
Device == Of("device", 0)
Mux    == Of("mux", 0)       \* ioremap of key_mux
Ddata  == Of("ddata", 0)
Gpio(b)  == Of("gpio", b)
Irq(b)   == Of("irq", b)
Timer(b) == Of("timer", b)   \* a timer that is pending

Order == << Bank, Chrdev, Class, Device, Mux, Ddata >> \o
         [k \in 1 .. 2 * NButtons |->
            IF k % 2 = 1 THEN Gpio((k + 1) \div 2) ELSE Irq(k \div 2)]

(***************************************************************************)
(* What the error paths and keys_remove release, in order.  A button whose *)
(* timer_debounce is 0 has no timer, and to release that changes nothing.  *)
(***************************************************************************)
FreeStepKeepingTimer(b, k) == << Irq(b), Irq(b), Gpio(b) >>[k + 1]
FreeStep(b, k) == << Irq(b), Timer(b), Gpio(b) >>[k + 1]
Descending(b) == [k \in 1 .. 3 * b |-> FreeStep(b - (k - 1) \div 3, (k - 1) % 3)]
Ascending(b)  == [k \in 1 .. 3 * b |-> FreeStep(1 + (k - 1) \div 3, (k - 1) % 3)]

Fail1 == << Bank >>
Fail2 == << Device, Class, Chrdev >> \o Fail1
Fail3 == << Mux >> \o Fail2
Fail4 == << Ddata >> \o Fail3
Fail5OneLess(b) == Descending(IF b > 1 THEN b - 2 ELSE 0) \o Fail4
Fail5(b) == Descending(b - 1) \o Fail4

Undo(r) ==
  CASE r.kind = "bank" -> << >>
    [] r.kind = "mux"  -> Fail3
    [] r.kind = "ddata" -> Fail4
    [] r.kind = "gpio" -> Fail5(r.b)
    [] r.kind = "irq"  -> << Gpio(r.b) >> \o Fail5(r.b)

Remove == Ascending(NButtons) \o Fail4

VARIABLES
  status,    (* "probing", "undoing", "failed", "bound", "removing", "gone", "oops" *)
  step,      (* how many resources keys_probe has asked for                *)
  todo,      (* what remains to be released                                *)
  held,      (* the resources the driver holds                             *)
  error,     (* what keys_probe returns: TRUE unless it returns 0          *)
  wait_init, (* key_wait is initialized                                    *)
  able, state, (* the static variables of the driver                       *)
  get_my_key,  (* the reported key: the number of its event and its kind   *)
  events, reads, (* how many there were                                    *)
  rpc,       (* where each reader is                                       *)
  nonblock,  (* the reader opened with O_NONBLOCK or was interrupted       *)
  got        (* history: the events whose parts a reader was given last    *)

probeVars == << status, step, todo, error, wait_init >>
keyVars   == << able, state, get_my_key, events >>
readVars  == << reads, rpc, nonblock, got >>
vars == << probeVars, held, keyVars, readVars >>

Kinds == {"down", "up", "power"}   \* value 0; value 1; code 116
NoKey == [n |-> 0, kind |-> "down"]

Init ==
  /\ status = "probing" /\ step = 0 /\ todo = << >> /\ held = {} /\ error = FALSE
  /\ wait_init = FALSE /\ able = FALSE /\ state = FALSE
  /\ get_my_key = NoKey /\ events = 0 /\ reads = 0
  /\ rpc = [r \in Readers |-> "closed"]
  /\ nonblock = [r \in Readers |-> FALSE]
  /\ got = [r \in Readers |-> << 0, 0 >>]

(***************************************************************************)
(* keys_probe and keys_remove.                                             *)
(***************************************************************************)
Acquire ==
  /\ status = "probing" /\ step < Len(Order)
  /\ step' = step + 1
  /\ held' = held \cup {Order[step + 1]}
  /\ UNCHANGED << status, todo, error, wait_init, keyVars, readVars >>

\* A negative major and a failed device_create are not noticed.
RefusedUnnoticed ==
  /\ status = "probing" /\ step < Len(Order)
  /\ Order[step + 1] \in {Chrdev, Device}
  /\ step' = step + 1
  /\ UNCHANGED << status, todo, held, error, wait_init, keyVars, readVars >>

\* fail2 hands the error pointer of class_create to device_destroy.
ClassRefused ==
  /\ status = "probing" /\ step < Len(Order) /\ Order[step + 1] = Class
  /\ status' = "oops"
  /\ UNCHANGED << step, todo, held, error, wait_init, keyVars, readVars >>

\* When key_mux cannot be mapped, error still is 0.
Refused ==
  /\ status = "probing" /\ step < Len(Order)
  /\ Order[step + 1] \notin {Chrdev, Device, Class}
  /\ status' = "undoing"
  /\ todo' = Undo(Order[step + 1])
  /\ error' = (Order[step + 1] # Mux)
  /\ UNCHANGED << step, held, wait_init, keyVars, readVars >>

Probed ==
  /\ status = "probing" /\ step = Len(Order)
  /\ status' = "bound" /\ wait_init' = TRUE
  /\ UNCHANGED << step, todo, held, error, keyVars, readVars >>

Release ==
  /\ status \in {"undoing", "removing"} /\ todo # << >>
  /\ held' = held \ {Head(todo)}
  /\ todo' = Tail(todo)
  /\ UNCHANGED << status, step, error, wait_init, keyVars, readVars >>

Released ==
  /\ status \in {"undoing", "removing"} /\ todo = << >>
  /\ status' = CASE status = "removing" -> "gone"
                 [] status = "undoing" /\ error -> "failed"
                 [] OTHER -> "bound"
  /\ UNCHANGED << step, todo, held, error, wait_init, keyVars, readVars >>

\* rmmod, once no file refers to the module; without ddata it dereferences NULL.
RemoveKeys ==
  /\ status = "bound" /\ \A r \in Readers : rpc[r] = "closed"
  /\ IF Ddata \in held
     THEN status' = "removing" /\ todo' = Remove
     ELSE status' = "oops" /\ todo' = todo
  /\ UNCHANGED << step, held, error, wait_init, keyVars, readVars >>

(***************************************************************************)
(* The interrupt and the timer.                                            *)
(***************************************************************************)
key_responeUnheard(b) ==
  \E kind \in Kinds :
    /\ get_my_key' = [n |-> events', kind |-> kind]
    /\ state' = TRUE
    /\ UNCHANGED << status, rpc >>

key_respone(b) ==
  \E kind \in Kinds :
    /\ get_my_key' = [n |-> events', kind |-> kind]
    /\ state' = TRUE
    /\ IF wait_init
       THEN /\ rpc' = [r \in Readers |-> IF rpc[r] = "asleep" THEN "check" ELSE rpc[r]]
            /\ UNCHANGED status
       ELSE status' = "oops" /\ UNCHANGED rpc

gpio_keys_isr(b) ==
  /\ status # "oops" /\ Irq(b) \in held /\ events < MaxEvents
  /\ events' = events + 1
  /\ IF b \in Debounced
     THEN held' = held \cup {Timer(b)} /\ UNCHANGED << get_my_key, state, rpc, status >>
     ELSE /\ UNCHANGED held
          /\ IF able THEN key_respone(b) ELSE UNCHANGED << get_my_key, state, rpc, status >>
  /\ UNCHANGED << step, todo, error, wait_init, able, reads, nonblock, got >>

\* The body of the timer function is commented out.
gpio_keys_timer(b) ==
  /\ status # "oops" /\ Timer(b) \in held
  /\ held' = held \ {Timer(b)}
  /\ UNCHANGED << probeVars, keyVars, readVars >>

(***************************************************************************)
(* The readers.  A read waits unless O_NONBLOCK is set; a signal ends the  *)
(* wait and the result of the wait is ignored.                             *)
(***************************************************************************)
RGoto(r, here, there) ==
  /\ status # "oops" /\ rpc[r] = here /\ rpc' = [rpc EXCEPT ![r] = there]

keys_open(r) ==
  /\ {Chrdev, Device} \subseteq held /\ status # "removing" /\ reads < MaxReads
  /\ RGoto(r, "closed", "open")
  /\ able' = TRUE
  /\ UNCHANGED << probeVars, held, state, get_my_key, events, reads, nonblock, got >>

\* A file may be open before the data of the device are there.
ReadKey(r) ==
  /\ reads < MaxReads
  /\ RGoto(r, "open", "check")
  /\ reads' = reads + 1
  /\ \E flag \in BOOLEAN : nonblock' = [nonblock EXCEPT ![r] = flag]
  /\ UNCHANGED << probeVars, held, keyVars, got >>

WaitEvent(r) ==
  \/ /\ RGoto(r, "check", "beep") /\ (state \/ nonblock[r])
     /\ UNCHANGED << probeVars, nonblock >>
  \/ /\ RGoto(r, "check", "asleep") /\ ~state /\ ~nonblock[r] /\ wait_init
     /\ UNCHANGED << probeVars, nonblock >>
  \/ /\ status # "oops" /\ rpc[r] = "check" /\ ~state /\ ~nonblock[r] /\ ~wait_init
     /\ status' = "oops"
     /\ UNCHANGED << step, todo, error, wait_init, rpc, nonblock >>
WaitOnce(r) == WaitEvent(r) /\ UNCHANGED << held, keyVars, reads, got >>

Signal(r) ==
  /\ RGoto(r, "asleep", "beep")
  /\ nonblock' = [nonblock EXCEPT ![r] = TRUE]
  /\ UNCHANGED << probeVars, held, keyVars, reads, got >>

\* buzzer_beep sleeps for 50 ms (GpioRegister); without its mapping it crashes.
MayBeep(r) ==
  /\ IF get_my_key.kind = "down" /\ state /\ Bank \notin held
     THEN status' = "oops" /\ rpc[r] = "beep" /\ status # "oops" /\ UNCHANGED rpc
     ELSE RGoto(r, "beep", "copy") /\ UNCHANGED status
  /\ UNCHANGED << step, todo, error, wait_init, held, keyVars, reads, nonblock, got >>

\* An interrupt between the two parts makes copy_to_user give parts of two events.
CopyKey(r) ==
  /\ RGoto(r, "copy", "copying")
  /\ got' = [got EXCEPT ![r][1] = get_my_key.n]
  /\ UNCHANGED << probeVars, held, keyVars, reads, nonblock >>

CopyRest(r) ==
  /\ RGoto(r, "copying", "clear")
  /\ got' = [got EXCEPT ![r][2] = get_my_key.n]
  /\ UNCHANGED << probeVars, held, keyVars, reads, nonblock >>

ClearStateForgotten(r) ==
  /\ RGoto(r, "clear", "open")
  /\ UNCHANGED << probeVars, held, keyVars, reads, nonblock, got >>

ClearState(r) ==
  /\ RGoto(r, "clear", "open")
  /\ state' = FALSE
  /\ UNCHANGED << probeVars, held, able, get_my_key, events, reads, nonblock, got >>

\* Whoever closes the device disables the keys for all.
keys_release(r) ==
  /\ RGoto(r, "open", "closed")
  /\ able' = FALSE
  /\ UNCHANGED << probeVars, held, state, get_my_key, events, reads, nonblock, got >>

Next ==
  \/ Acquire \/ RefusedUnnoticed \/ ClassRefused \/ Refused \/ Probed
  \/ Release \/ Released \/ RemoveKeys
  \/ \E b \in Buttons : gpio_keys_isr(b) \/ gpio_keys_timer(b)
  \/ \E r \in Readers :
       \/ keys_open(r) \/ ReadKey(r) \/ WaitOnce(r) \/ Signal(r) \/ MayBeep(r)
       \/ CopyKey(r) \/ CopyRest(r) \/ ClearState(r) \/ keys_release(r)

Spec == Init /\ [][Next]_vars

(***************************************************************************)
(* Properties.                                                             *)
(***************************************************************************)
TypeOK ==
  /\ status \in {"probing", "undoing", "failed", "bound", "removing", "gone", "oops"}
  /\ step \in 0 .. Len(Order)
  /\ held \subseteq Range(Order) \cup {Timer(b) : b \in Debounced}
  /\ Range(todo) \subseteq Range(Order) \cup {Timer(b) : b \in Buttons}
  /\ error \in BOOLEAN /\ wait_init \in BOOLEAN /\ able \in BOOLEAN /\ state \in BOOLEAN
  /\ get_my_key \in [n : 0 .. MaxEvents, kind : Kinds]
  /\ events \in 0 .. MaxEvents /\ reads \in 0 .. MaxReads
  /\ rpc \in [Readers -> {"closed", "open", "check", "asleep", "beep", "copy", "copying", "clear"}]
  /\ nonblock \in [Readers -> BOOLEAN]
  /\ got \in [Readers -> (0 .. MaxEvents) \X (0 .. MaxEvents)]

(* The gotos of keys_probe undo what was done and nothing is left behind:  *)
(* when keys_probe has returned an error, or keys_remove has run, no       *)
(* interrupt, pending timer, gpio, mapping, device or memory remains,      *)
(* though keys interrupted and re-armed their timers meanwhile.            *)
NothingLeft == status \in {"failed", "gone"} => held = {}

(* gpio_keys_isr and gpio_keys_timer get a pointer into ddata: ddata is    *)
(* not freed while an interrupt can still come or a timer is pending.      *)
HandlersHaveData ==
  \A b \in Buttons : Irq(b) \in held \/ Timer(b) \in held => Ddata \in held

(* The same key is not delivered twice: a reader that waited gets an event *)
(* newer than every part of what it was given before, with other readers   *)
(* clearing state at any time (keys_read sets state to 0 after the copy).  *)
EventsAreFresh ==
  [][\A r \in Readers :
       rpc[r] = "copy" /\ rpc'[r] = "copying" /\ ~nonblock[r]
         => got'[r][1] > got[r][1] /\ got'[r][1] > got[r][2]]_vars

(* No wakeup is lost: no reader sleeps in wait_event_interruptible while   *)
(* a key is reported and not yet read.                                     *)
NoSleeperMissesKey == state => \A r \in Readers : rpc[r] # "asleep" \/ status = "oops"
=============================================================================
