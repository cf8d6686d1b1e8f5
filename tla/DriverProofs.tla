---------------------------- MODULE DriverProofs ----------------------------
(***************************************************************************)
(* Proofs about the drivers of the other devices: GpioKey, for any number  *)
(* of readers, keys and events, what the interrupt and the readers of the  *)
(* device promise each other; and CharDriver, for any number of processes, *)
(* lamps and touches, and memory devices of any size.                      *)
(***************************************************************************)
EXTENDS GpioKey, CharDriver, SequenceTheorems, TLAPS

(***************************************************************************)
(* The key driver.                                                         *)
(***************************************************************************)
ReaderPlaces == {"closed", "open", "check", "asleep", "beep", "copy", "copying", "clear"}

Types ==
  /\ rpc \in [Readers -> ReaderPlaces] /\ nonblock \in [Readers -> BOOLEAN] /\ state \in BOOLEAN
  /\ events \in Nat /\ get_my_key.n \in 0 .. events
  /\ got \in [Readers -> Nat \X Nat]

\* What the interrupt does to the reported key and to the readers.
Rings ==
  /\ events' = events + 1 /\ get_my_key'.n = events' /\ state' = TRUE
  /\ UNCHANGED << reads, nonblock, got >>
  /\ \/ status' = "oops" /\ UNCHANGED rpc
     \/ rpc' = [r \in Readers |-> IF rpc[r] = "asleep" THEN "check" ELSE rpc[r]]

\* Steps of the probe, of the timer, and of an interrupt that reports no key.
Silent == UNCHANGED << state, get_my_key, readVars >> /\ events' \in {events, events + 1} /\ status # "oops"

LEMMA InterruptCases ==
  ASSUME NEW b \in Buttons, gpio_keys_isr(b) PROVE Rings \/ Silent
<1>1. CASE b \notin Debounced /\ able
  BY <1>1 DEF gpio_keys_isr, key_respone, Rings
<1>2. CASE ~(b \notin Debounced /\ able)
  BY <1>2 DEF gpio_keys_isr, Silent, readVars
<1> QED BY <1>1, <1>2

LEMMA TypesStep == Types /\ [Next]_vars => Types'
<1> SUFFICES ASSUME Types, [Next]_vars PROVE Types'
  OBVIOUS
<1> USE DEF Types
<1>1. CASE UNCHANGED vars \/ Acquire \/ RefusedUnnoticed \/ ClassRefused \/ Refused \/ Probed
           \/ Release \/ Released \/ RemoveKeys \/ \E b \in Buttons : gpio_keys_timer(b)
  BY <1>1 DEF Acquire, RefusedUnnoticed, ClassRefused, Refused, Probed, Release, Released, RemoveKeys,
     gpio_keys_timer, vars, keyVars, readVars
<1>2. ASSUME NEW b \in Buttons, gpio_keys_isr(b) PROVE Types'
  <2>1. CASE Silent
    BY <2>1 DEF Silent, readVars
  <2>2. CASE Rings
    <3>1. rpc' \in [Readers -> ReaderPlaces]
      BY <2>2 DEF Rings, ReaderPlaces
    <3> QED BY <2>2, <3>1 DEF Rings
  <2> QED BY <1>2, <2>1, <2>2, InterruptCases
<1>3. ASSUME NEW r \in Readers,
             keys_open(r) \/ ReadKey(r) \/ WaitOnce(r) \/ Signal(r) \/ MayBeep(r) \/ ClearState(r) \/ keys_release(r)
      PROVE  Types'
  <2>1. rpc' \in [Readers -> ReaderPlaces] /\ nonblock' \in [Readers -> BOOLEAN]
    BY <1>3 DEF keys_open, ReadKey, WaitOnce, WaitEvent, Signal, MayBeep, ClearState, keys_release, RGoto, ReaderPlaces
  <2>2. events' = events /\ get_my_key' = get_my_key /\ got' = got /\ state' \in {state, FALSE}
    BY <1>3 DEF keys_open, ReadKey, WaitOnce, Signal, MayBeep, ClearState, keys_release, keyVars
  <2> QED BY <2>1, <2>2
<1>4. ASSUME NEW r \in Readers, CopyKey(r) \/ CopyRest(r) PROVE Types'
  BY <1>4 DEF CopyKey, CopyRest, RGoto, keyVars, ReaderPlaces
<1> QED BY <1>1, <1>2, <1>3, <1>4 DEF Next

LEMMA TypesInit == Init => Types
<1> SUFFICES ASSUME Init PROVE Types
  OBVIOUS
<1>1. rpc \in [Readers -> ReaderPlaces] /\ nonblock \in [Readers -> BOOLEAN]
  BY DEF Init, ReaderPlaces
<1>2. state \in BOOLEAN
  BY DEF Init
<1>3. events \in Nat /\ get_my_key.n \in 0 .. events
  BY DEF Init, NoKey
<1>4. got \in [Readers -> Nat \X Nat]
  BY DEF Init
<1> QED BY <1>1, <1>2, <1>3, <1>4 DEF Types

(* No reader sleeps while a key is reported and not read (gpio_key.c,      *)
(* keys_read and key_respone), with any number of readers.                 *)
THEOREM NoReaderSleepsOnKey == Spec => []NoSleeperMissesKey
<1>1. Init => NoSleeperMissesKey
  BY DEF Init, NoSleeperMissesKey
<1>2. ASSUME Types, NoSleeperMissesKey, [Next]_vars PROVE NoSleeperMissesKey'
  <2>1. CASE UNCHANGED vars
    BY <1>2, <2>1 DEF NoSleeperMissesKey, vars, probeVars, keyVars, readVars
  <2>2. CASE Acquire \/ RefusedUnnoticed \/ ClassRefused \/ Refused \/ Probed
           \/ Release \/ Released \/ RemoveKeys \/ \E b \in Buttons : gpio_keys_timer(b)
    <3>1. status # "oops" /\ state' = state /\ rpc' = rpc
      BY <2>2 DEF Acquire, RefusedUnnoticed, ClassRefused, Refused, Probed, Release, Released, RemoveKeys,
         gpio_keys_timer, keyVars, readVars
    <3> QED BY <3>1, <1>2 DEF NoSleeperMissesKey
  <2>3. ASSUME NEW b \in Buttons, gpio_keys_isr(b) PROVE NoSleeperMissesKey'
    <3>1. CASE Silent
      BY <3>1, <1>2 DEF Silent, readVars, NoSleeperMissesKey
    <3>2. CASE Rings
      BY <3>2 DEF Rings, NoSleeperMissesKey
    <3> QED BY <2>3, <3>1, <3>2, InterruptCases
  <2>4. ASSUME NEW r \in Readers, WaitOnce(r) PROVE NoSleeperMissesKey'
    <3>1. status # "oops" /\ state' = state /\ rpc \in [Readers -> ReaderPlaces]
      BY <2>4, <1>2 DEF WaitOnce, WaitEvent, RGoto, keyVars, Types
    <3>2. CASE rpc' = [rpc EXCEPT ![r] = "beep"]
      BY <3>1, <3>2, <1>2 DEF NoSleeperMissesKey
    <3>3. CASE ~state
      BY <3>1, <3>3 DEF NoSleeperMissesKey
    <3> QED BY <2>4, <3>2, <3>3 DEF WaitOnce, WaitEvent, RGoto
  <2>5. ASSUME NEW r \in Readers, keys_open(r) \/ ReadKey(r) \/ Signal(r) \/ MayBeep(r) \/ CopyKey(r)
                                  \/ CopyRest(r) \/ ClearState(r) \/ keys_release(r)
        PROVE  NoSleeperMissesKey'
    <3>1. state' \in {state, FALSE} /\ status # "oops"
      BY <2>5 DEF keys_open, ReadKey, Signal, MayBeep, CopyKey, CopyRest, ClearState, keys_release, RGoto, keyVars
    <3>2. rpc' = rpc \/ \E to \in ReaderPlaces \ {"asleep"} : rpc' = [rpc EXCEPT ![r] = to]
      BY <2>5 DEF keys_open, ReadKey, Signal, MayBeep, CopyKey, CopyRest, ClearState, keys_release, RGoto, ReaderPlaces
    <3>3. \A q \in Readers : rpc'[q] = "asleep" => rpc[q] = "asleep"
      BY <3>2, <1>2 DEF Types
    <3> QED BY <3>1, <3>3, <1>2 DEF NoSleeperMissesKey, Types
  <2> QED BY <1>2, <2>1, <2>2, <2>3, <2>4, <2>5 DEF Next
<1> QED BY <1>1, <1>2, TypesInit, TypesStep, PTL DEF Spec

\* Every part that a reader was given is of an event before the reported one,
\* wherever the reader may find that a key is reported.
Older(r) == got[r][1] < get_my_key.n /\ got[r][2] < get_my_key.n
Fresh ==
  \A r \in Readers :
    /\ got[r][1] <= get_my_key.n /\ got[r][2] <= get_my_key.n
    /\ rpc[r] \in {"closed", "open", "check", "asleep"} /\ state => Older(r)
    /\ rpc[r] \in {"beep", "copy"} /\ ~nonblock[r] => Older(r)

(* A reader that waited is given a newer event than any it had a part of   *)
(* (gpio_key.c, keys_read), although any reader may clear state.           *)
THEOREM WaitingReadersGetNewKeys == Spec => EventsAreFresh
<1>1. Init => Fresh
  <2> SUFFICES ASSUME Init, NEW r \in Readers
               PROVE  /\ got[r][1] <= get_my_key.n /\ got[r][2] <= get_my_key.n
                      /\ ~state /\ rpc[r] = "closed"
    BY DEF Fresh
  <2>1. got[r] = << 0, 0 >> /\ get_my_key.n = 0
    BY DEF Init, NoKey
  <2> QED BY <2>1 DEF Init
<1>2. ASSUME Types, Fresh, [Next]_vars PROVE Fresh'
  <2>0. /\ got \in [Readers -> Nat \X Nat] /\ rpc \in [Readers -> ReaderPlaces] /\ nonblock \in [Readers -> BOOLEAN]
        /\ events \in Nat /\ get_my_key.n \in 0 .. events
        /\ \A r \in Readers : got[r][1] \in Nat /\ got[r][2] \in Nat
    BY <1>2 DEF Types
  <2>1. CASE UNCHANGED << state, get_my_key, readVars >>
    BY <1>2, <2>1 DEF Fresh, Older, readVars
  <2>2. CASE Rings
    <3>1. \A r \in Readers : got[r][1] < events' /\ got[r][2] < events'
      BY <1>2, <2>0, <2>2 DEF Rings, Fresh
    <3>2. got' = got /\ get_my_key'.n = events' /\ events' \in Nat
      BY <2>0, <2>2 DEF Rings
    <3>3. \A r \in Readers : /\ got'[r][1] <= get_my_key'.n /\ got'[r][2] <= get_my_key'.n
                             /\ Older(r)'
      BY <2>0, <3>1, <3>2 DEF Older
    <3> QED BY <3>3 DEF Fresh
  <2>3. ASSUME NEW r \in Readers, WaitOnce(r) PROVE Fresh'
    <3>1. UNCHANGED << state, get_my_key, got, nonblock >>
      BY <2>3 DEF WaitOnce, WaitEvent, keyVars
    <3>2. CASE rpc' = rpc
      BY <3>1, <3>2, <1>2 DEF Fresh, Older
    <3>3. CASE rpc[r] = "check" /\ rpc' = [rpc EXCEPT ![r] = "asleep"]
      BY <3>1, <3>3, <1>2, <2>0 DEF Fresh, Older
    <3>4. CASE rpc[r] = "check" /\ rpc' = [rpc EXCEPT ![r] = "beep"] /\ (state \/ nonblock[r])
      BY <3>1, <3>4, <1>2, <2>0 DEF Fresh, Older
    <3> QED BY <2>3, <3>2, <3>3, <3>4 DEF WaitOnce, WaitEvent, RGoto
  <2>4. ASSUME NEW r \in Readers, keys_open(r) \/ ReadKey(r) \/ Signal(r) \/ MayBeep(r) \/ keys_release(r) PROVE Fresh'
    <3>1. UNCHANGED << state, get_my_key, got >>
      BY <2>4 DEF keys_open, ReadKey, Signal, MayBeep, keys_release, keyVars
    <3>2. /\ \A q \in Readers : rpc'[q] \in {"closed", "open", "check", "asleep"} =>
                                  rpc[q] \in {"closed", "open", "check", "asleep"}
          /\ \A q \in Readers : rpc'[q] \in {"beep", "copy"} /\ ~nonblock'[q] =>
                                  rpc[q] \in {"beep", "copy"} /\ ~nonblock[q]
      BY <2>4, <2>0 DEF keys_open, ReadKey, Signal, MayBeep, keys_release, RGoto
    <3> QED BY <3>1, <3>2, <1>2 DEF Fresh, Older
  <2>5. ASSUME NEW r \in Readers, CopyKey(r) \/ CopyRest(r) PROVE Fresh'
    <3>1. /\ UNCHANGED << state, get_my_key, nonblock >>
          /\ rpc' = [rpc EXCEPT ![r] = "copying"] \/ rpc' = [rpc EXCEPT ![r] = "clear"]
          /\ got' = [got EXCEPT ![r][1] = get_my_key.n] \/ got' = [got EXCEPT ![r][2] = get_my_key.n]
      BY <2>5 DEF CopyKey, CopyRest, RGoto, keyVars
    <3>2. ASSUME NEW q \in Readers, q # r PROVE got'[q] = got[q] /\ rpc'[q] = rpc[q]
      BY <3>1, <3>2, <2>0
    <3>3. got'[r][1] \in {got[r][1], get_my_key.n} /\ got'[r][2] \in {got[r][2], get_my_key.n}
      BY <3>1, <2>0
    <3>4. rpc'[r] \in {"copying", "clear"}
      BY <3>1, <2>0
    <3> QED BY <3>1, <3>2, <3>3, <3>4, <1>2, <2>0 DEF Fresh, Older
  <2>6. ASSUME NEW r \in Readers, ClearState(r) PROVE Fresh'
    <3>1. UNCHANGED << get_my_key, got, nonblock >> /\ state' = FALSE /\ rpc' = [rpc EXCEPT ![r] = "open"]
      BY <2>6 DEF ClearState, RGoto
    <3> QED BY <3>1, <1>2, <2>0 DEF Fresh, Older
  <2>7. CASE UNCHANGED vars \/ Acquire \/ RefusedUnnoticed \/ ClassRefused \/ Refused \/ Probed
             \/ Release \/ Released \/ RemoveKeys \/ \E b \in Buttons : gpio_keys_timer(b)
    BY <2>1, <2>7 DEF Acquire, RefusedUnnoticed, ClassRefused, Refused, Probed, Release, Released, RemoveKeys,
       gpio_keys_timer, vars, keyVars
  <2>8. ASSUME NEW b \in Buttons, gpio_keys_isr(b) PROVE Fresh'
    BY <2>1, <2>2, <2>8, InterruptCases DEF Silent
  <2> QED BY <1>2, <2>3, <2>4, <2>5, <2>6, <2>7, <2>8 DEF Next
<1>3. ASSUME Types, Fresh, [Next]_vars
      PROVE  [\A r \in Readers : rpc[r] = "copy" /\ rpc'[r] = "copying" /\ ~nonblock[r]
                                   => got'[r][1] > got[r][1] /\ got'[r][1] > got[r][2]]_vars
  <2> SUFFICES ASSUME Next, NEW r \in Readers, rpc[r] = "copy", rpc'[r] = "copying", ~nonblock[r]
               PROVE  got'[r][1] > got[r][1] /\ got'[r][1] > got[r][2]
    BY <1>3
  <2>0. got \in [Readers -> Nat \X Nat] /\ rpc \in [Readers -> ReaderPlaces] /\ got[r] \in Nat \X Nat /\ get_my_key.n \in Nat
    BY <1>3 DEF Types
  <2>1. CopyKey(r)
    <3>1. rpc' # rpc
      OBVIOUS
    <3>2. ~\E b \in Buttons : gpio_keys_isr(b)
      BY <2>0, InterruptCases DEF Rings, Silent, readVars
    <3>3. ASSUME NEW q \in Readers, CopyKey(q) PROVE q = r
      BY <3>3, <2>0 DEF CopyKey, RGoto
    <3>4. ~\E q \in Readers : \/ keys_open(q) \/ ReadKey(q) \/ WaitOnce(q) \/ Signal(q) \/ MayBeep(q)
                              \/ CopyRest(q) \/ ClearState(q) \/ keys_release(q)
      BY <2>0 DEF keys_open, ReadKey, WaitOnce, WaitEvent, Signal, MayBeep, CopyRest, ClearState, keys_release, RGoto
    <3> QED BY <3>1, <3>2, <3>3, <3>4 DEF Next, Acquire, RefusedUnnoticed, ClassRefused, Refused, Probed, Release,
               Released, RemoveKeys, gpio_keys_timer, readVars
  <2>2. got'[r][1] = get_my_key.n
    BY <2>0, <2>1 DEF CopyKey
  <2>3. Older(r)
    BY <1>3 DEF Fresh
  <2> QED BY <2>0, <2>2, <2>3 DEF Older
<1> QED BY <1>1, <1>2, <1>3, TypesInit, TypesStep, PTL DEF Spec, EventsAreFresh

-----------------------------------------------------------------------------
(* What the driver holds.  First, the order of keys_probe, button by       *)
(* button, and what the error paths and keys_remove release.               *)

First == {Bank, Chrdev, Class, Device, Mux, Ddata}
OfButtons(S) == {Gpio(b) : b \in S} \cup {Irq(b) : b \in S} \cup {Timer(b) : b \in S}
IsHandler(r) == r.kind \in {"irq", "timer"}

LEMMA Kindwise ==
  /\ \A b : Gpio(b).kind = "gpio" /\ Irq(b).kind = "irq" /\ Timer(b).kind = "timer"
            /\ Gpio(b).b = b /\ Irq(b).b = b /\ Timer(b).b = b
  /\ Bank.kind = "bank" /\ Chrdev.kind = "chrdev" /\ Class.kind = "class"
  /\ Device.kind = "device" /\ Mux.kind = "mux" /\ Ddata.kind = "ddata"
BY DEF Gpio, Irq, Timer, Bank, Chrdev, Class, Device, Mux, Ddata, Of

LEMMA OrderIs ==
  /\ Len(Order) = 6 + 2 * NButtons
  /\ Order[1] = Bank /\ Order[2] = Chrdev /\ Order[3] = Class /\ Order[4] = Device
  /\ Order[5] = Mux /\ Order[6] = Ddata
  /\ \A b \in Buttons : Order[5 + 2 * b] = Gpio(b) /\ Order[6 + 2 * b] = Irq(b)
<1> DEFINE head == << Bank, Chrdev, Class, Device, Mux, Ddata >>
           rest == [k \in 1 .. 2 * NButtons |->
                      IF k % 2 = 1 THEN Gpio((k + 1) \div 2) ELSE Irq(k \div 2)]
           All  == {Bank, Chrdev, Class, Device, Mux, Ddata} \cup {rest[k] : k \in 1 .. 2 * NButtons}
<1>1. NButtons \in Nat
  BY KeyAssumption
<1>2. head \in Seq(All) /\ Len(head) = 6
  OBVIOUS
<1>3. /\ head[1] = Bank /\ head[2] = Chrdev /\ head[3] = Class /\ head[4] = Device
      /\ head[5] = Mux /\ head[6] = Ddata
  OBVIOUS
<1>4. \A b \in Buttons : rest[2 * b - 1] = Gpio(b) /\ rest[2 * b] = Irq(b)
  BY <1>1 DEF Buttons
<1>5. Order = head \o rest
  BY DEF Order
<1>6. rest = [k \in 1 .. 2 * NButtons |-> rest[k]]
  OBVIOUS
<1> HIDE DEF head, rest
<1>7. rest \in [1 .. 2 * NButtons -> All]
  BY <1>6
<1> HIDE DEF All
<1>8. rest \in Seq(All) /\ Len(rest) = 2 * NButtons
  BY <1>1, <1>7
<1>9. /\ Len(Order) = 6 + 2 * NButtons
      /\ \A i \in 1 .. 6 + 2 * NButtons : Order[i] = IF i <= 6 THEN head[i] ELSE rest[i - 6]
  <2>1. /\ Len(head \o rest) = Len(head) + Len(rest)
        /\ \A i \in 1 .. Len(head) + Len(rest) :
             (head \o rest)[i] = IF i <= Len(head) THEN head[i] ELSE rest[i - Len(head)]
    BY <1>2, <1>8, ConcatProperties, Zenon
  <2> QED BY <1>1, <1>2, <1>5, <1>8, <2>1
<1>10. \A b \in Buttons : Order[5 + 2 * b] = Gpio(b) /\ Order[6 + 2 * b] = Irq(b)
  <2> SUFFICES ASSUME NEW b \in Buttons PROVE Order[5 + 2 * b] = Gpio(b) /\ Order[6 + 2 * b] = Irq(b)
    OBVIOUS
  <2>1. /\ 5 + 2 * b \in 7 .. 6 + 2 * NButtons /\ (5 + 2 * b) - 6 = 2 * b - 1
        /\ 6 + 2 * b \in 7 .. 6 + 2 * NButtons /\ (6 + 2 * b) - 6 = 2 * b
    BY <1>1 DEF Buttons
  <2>2. Order[5 + 2 * b] = rest[(5 + 2 * b) - 6] /\ Order[6 + 2 * b] = rest[(6 + 2 * b) - 6]
    BY <1>1, <1>9, <2>1
  <2> QED BY <1>4, <2>1, <2>2
<1> QED BY <1>1, <1>3, <1>9, <1>10

\* Every step of keys_probe after the sixth is that of a button.
LEMMA StepOfButton ==
  ASSUME NEW k \in 7 .. Len(Order)
  PROVE  \E b \in Buttons : \/ k = 5 + 2 * b /\ Order[k] = Gpio(b)
                            \/ k = 6 + 2 * b /\ Order[k] = Irq(b)
<1>1. NButtons \in Nat /\ Len(Order) = 6 + 2 * NButtons
  BY KeyAssumption, OrderIs
<1>2. CASE k % 2 = 1
  <2>1. (k - 5) \div 2 \in Buttons /\ k = 5 + 2 * ((k - 5) \div 2)
    BY <1>1, <1>2 DEF Buttons
  <2> QED BY <2>1, OrderIs
<1>3. CASE k % 2 = 0
  <2>1. (k - 6) \div 2 \in Buttons /\ k = 6 + 2 * ((k - 6) \div 2)
    BY <1>1, <1>3 DEF Buttons
  <2> QED BY <2>1, OrderIs
<1> QED BY <1>1, <1>2, <1>3

\* A list of releases after which no handler is without what it needs: the
\* timer goes after the interrupt that starts it, the data after both.
Ordered(s) ==
  \A i \in 1 .. Len(s) :
    /\ \A b \in Buttons : s[i] = Irq(b) => \E j \in i + 1 .. Len(s) : s[j] = Timer(b)
    /\ s[i] = Ddata => \A j \in i + 1 .. Len(s) : ~IsHandler(s[j])

Listed(s) == {s[i] : i \in 1 .. Len(s)}
Releases == First \cup OfButtons(Buttons)

LEMMA OrderedTail ==
  ASSUME NEW s \in Seq(Releases), s # << >>, Ordered(s)
  PROVE  /\ Tail(s) \in Seq(Releases) /\ Ordered(Tail(s))
         /\ Listed(s) = {Head(s)} \cup Listed(Tail(s))
         /\ \A b \in Buttons : Head(s) = Irq(b) => Timer(b) \in Listed(Tail(s))
         /\ Head(s) = Ddata => \A r \in Listed(Tail(s)) : ~IsHandler(r)
<1>1. Len(Tail(s)) = Len(s) - 1 /\ Len(s) \in Nat \ {0} /\ Head(s) = s[1] /\ Tail(s) \in Seq(Releases)
  OBVIOUS
<1>2. \A i \in 1 .. Len(s) - 1 : Tail(s)[i] = s[i + 1]
  BY <1>1
<1>3. \A j \in 2 .. Len(s) : j - 1 \in 1 .. Len(s) - 1 /\ Tail(s)[j - 1] = s[j]
  BY <1>1, <1>2
<1>4. Listed(s) = {Head(s)} \cup Listed(Tail(s))
  <2>1. ASSUME NEW i \in 1 .. Len(s) PROVE s[i] \in {Head(s)} \cup Listed(Tail(s))
    BY <1>1, <1>3 DEF Listed
  <2>2. ASSUME NEW i \in 1 .. Len(Tail(s)) PROVE Tail(s)[i] \in Listed(s)
    BY <1>1, <1>2 DEF Listed
  <2> QED BY <1>1, <2>1, <2>2 DEF Listed
<1>5. ASSUME NEW b \in Buttons, Head(s) = Irq(b) PROVE Timer(b) \in Listed(Tail(s))
  <2>1. PICK j \in 2 .. Len(s) : s[j] = Timer(b)
    BY <1>1, <1>5 DEF Ordered
  <2> QED BY <1>1, <1>3, <2>1 DEF Listed
<1>6. ASSUME Head(s) = Ddata, NEW r \in Listed(Tail(s)) PROVE ~IsHandler(r)
  BY <1>1, <1>2, <1>6 DEF Ordered, Listed
<1>7. Ordered(Tail(s))
  <2> SUFFICES ASSUME NEW i \in 1 .. Len(s) - 1
               PROVE  /\ \A b \in Buttons : Tail(s)[i] = Irq(b) =>
                           \E j \in i + 1 .. Len(s) - 1 : Tail(s)[j] = Timer(b)
                      /\ Tail(s)[i] = Ddata => \A j \in i + 1 .. Len(s) - 1 : ~IsHandler(Tail(s)[j])
    BY <1>1 DEF Ordered
  <2>1. ASSUME NEW b \in Buttons, Tail(s)[i] = Irq(b)
        PROVE  \E j \in i + 1 .. Len(s) - 1 : Tail(s)[j] = Timer(b)
    <3>1. PICK j \in i + 2 .. Len(s) : s[j] = Timer(b)
      BY <1>1, <1>2, <2>1 DEF Ordered
    <3>2. j - 1 \in i + 1 .. Len(s) - 1 /\ Tail(s)[j - 1] = s[j]
      BY <1>1, <1>3, <3>1
    <3> QED BY <3>1, <3>2
  <2>2. ASSUME Tail(s)[i] = Ddata, NEW j \in i + 1 .. Len(s) - 1 PROVE ~IsHandler(Tail(s)[j])
    <3>1. s[i + 1] = Ddata /\ Tail(s)[j] = s[j + 1] /\ j + 1 \in i + 2 .. Len(s)
      BY <1>1, <1>2, <2>2
    <3> QED BY <1>1, <3>1 DEF Ordered
  <2> QED BY <2>1, <2>2
<1> QED BY <1>1, <1>4, <1>5, <1>6, <1>7
\* Three releases for each button, in the order that f gives.
LEMMA ByThree ==
  ASSUME NEW n \in Nat, NEW f \in [1 .. n -> Buttons],
         NEW s, s = [k \in 1 .. 3 * n |-> FreeStep(f[1 + (k - 1) \div 3], (k - 1) % 3)]
  PROVE  /\ s \in Seq(OfButtons(Buttons)) /\ Ordered(s)
         /\ \A j \in 1 .. n : {Irq(f[j]), Timer(f[j]), Gpio(f[j])} \subseteq Listed(s)
<1>1. \A b : /\ FreeStep(b, 0) = Irq(b) /\ FreeStep(b, 1) = Timer(b) /\ FreeStep(b, 2) = Gpio(b)
  BY DEF FreeStep
<1>2. ASSUME NEW j \in 1 .. n
      PROVE  /\ s[3 * j - 2] = Irq(f[j]) /\ s[3 * j - 1] = Timer(f[j]) /\ s[3 * j] = Gpio(f[j])
             /\ {3 * j - 2, 3 * j - 1, 3 * j} \subseteq 1 .. 3 * n
  <2>1. /\ 1 + (3 * j - 3) \div 3 = j /\ (3 * j - 3) % 3 = 0
        /\ 1 + (3 * j - 2) \div 3 = j /\ (3 * j - 2) % 3 = 1
        /\ 1 + (3 * j - 1) \div 3 = j /\ (3 * j - 1) % 3 = 2
    OBVIOUS
  <2>2. {3 * j - 2, 3 * j - 1, 3 * j} \subseteq 1 .. 3 * n
    OBVIOUS
  <2>3. /\ (3 * j - 2) - 1 = 3 * j - 3 /\ (3 * j - 1) - 1 = 3 * j - 2
    OBVIOUS
  <2>4. s[3 * j - 2] = FreeStep(f[j], 0) /\ s[3 * j - 1] = FreeStep(f[j], 1) /\ s[3 * j] = FreeStep(f[j], 2)
    BY <2>1, <2>2, <2>3
  <2> QED BY <1>1, <2>2, <2>4
<1>3. ASSUME NEW i \in 1 .. 3 * n
      PROVE  \E j \in 1 .. n : i \in {3 * j - 2, 3 * j - 1, 3 * j}
  <2>1. 1 + (i - 1) \div 3 \in 1 .. n
        /\ i \in {3 * (1 + (i - 1) \div 3) - 2, 3 * (1 + (i - 1) \div 3) - 1, 3 * (1 + (i - 1) \div 3)}
    OBVIOUS
  <2> QED BY <2>1
<1>4. ASSUME NEW i \in 1 .. 3 * n PROVE s[i] \in OfButtons(Buttons)
  <2>1. PICK j \in 1 .. n : i \in {3 * j - 2, 3 * j - 1, 3 * j}
    BY <1>3
  <2>2. f[j] \in Buttons
    OBVIOUS
  <2> QED BY <1>2, <2>1, <2>2 DEF OfButtons
<1>5. s \in Seq(OfButtons(Buttons)) /\ Len(s) = 3 * n
  <2>1. s \in [1 .. 3 * n -> OfButtons(Buttons)]
    BY <1>4, Zenon
  <2>2. 3 * n \in Nat
    OBVIOUS
  <2> QED BY <2>1, <2>2
<1>6. Ordered(s)
  <2> SUFFICES ASSUME NEW i \in 1 .. 3 * n
               PROVE  /\ \A b \in Buttons : s[i] = Irq(b) => \E k \in i + 1 .. 3 * n : s[k] = Timer(b)
                      /\ s[i] # Ddata
    BY <1>5 DEF Ordered
  <2>1. PICK j \in 1 .. n : i \in {3 * j - 2, 3 * j - 1, 3 * j}
    BY <1>3
  <2>4. /\ s[3 * j - 2].kind = "irq" /\ s[3 * j - 2].b = f[j]
        /\ s[3 * j - 1].kind = "timer" /\ s[3 * j].kind = "gpio"
    <3>1. /\ s[3 * j - 2] = Irq(f[j]) /\ s[3 * j - 1] = Timer(f[j]) /\ s[3 * j] = Gpio(f[j])
      BY <1>2, Zenon
    <3>2. /\ Irq(f[j]).kind = "irq" /\ Irq(f[j]).b = f[j]
          /\ Timer(f[j]).kind = "timer" /\ Gpio(f[j]).kind = "gpio"
      BY Kindwise, Zenon
    <3> QED BY <3>1, <3>2, Zenon
  <2>5. \/ i = 3 * j - 2 /\ s[i].kind = "irq" /\ s[i].b = f[j]
        \/ i # 3 * j - 2 /\ s[i].kind \in {"timer", "gpio"}
    BY <2>1, <2>4
  <2>2. s[i] # Ddata
    BY <2>5, Kindwise
  <2>3. ASSUME NEW b \in Buttons, s[i] = Irq(b) PROVE \E k \in i + 1 .. 3 * n : s[k] = Timer(b)
    <3>1. i = 3 * j - 2 /\ f[j] = b
      <4>1. s[i].kind = "irq" /\ s[i].b = b
        BY <2>3, Kindwise
      <4> QED BY <2>5, <4>1
    <3>2. 3 * j - 1 \in i + 1 .. 3 * n /\ s[3 * j - 1] = Timer(b)
      BY <1>2, <3>1
    <3> QED BY <3>2
  <2> QED BY <2>2, <2>3
<1> QED BY <1>2, <1>5, <1>6 DEF Listed

LEMMA DescendingIs ==
  ASSUME NEW n \in 0 .. NButtons
  PROVE  /\ Descending(n) \in Seq(OfButtons(Buttons)) /\ Ordered(Descending(n))
         /\ OfButtons(1 .. n) \subseteq Listed(Descending(n))
<1> DEFINE f == [j \in 1 .. n |-> n - j + 1]
<1>1. n \in Nat /\ f \in [1 .. n -> Buttons]
  BY KeyAssumption DEF Buttons
<1>2. Descending(n) = [k \in 1 .. 3 * n |-> FreeStep(f[1 + (k - 1) \div 3], (k - 1) % 3)]
  <2>1. ASSUME NEW k \in 1 .. 3 * n PROVE f[1 + (k - 1) \div 3] = n - (k - 1) \div 3
    BY <1>1
  <2> QED BY <2>1 DEF Descending
<1>3. \A c \in 1 .. n : n - c + 1 \in 1 .. n /\ f[n - c + 1] = c
  BY <1>1
<1> HIDE DEF f
<1>4. /\ Descending(n) \in Seq(OfButtons(Buttons)) /\ Ordered(Descending(n))
      /\ \A j \in 1 .. n : {Irq(f[j]), Timer(f[j]), Gpio(f[j])} \subseteq Listed(Descending(n))
  BY <1>1, <1>2, ByThree
<1>5. \A c \in 1 .. n : {Irq(c), Timer(c), Gpio(c)} \subseteq Listed(Descending(n))
  BY <1>3, <1>4
<1> QED BY <1>4, <1>5 DEF OfButtons

LEMMA AscendingIs ==
  /\ Ascending(NButtons) \in Seq(OfButtons(Buttons)) /\ Ordered(Ascending(NButtons))
  /\ OfButtons(Buttons) \subseteq Listed(Ascending(NButtons))
<1> DEFINE f == [j \in 1 .. NButtons |-> j]
<1>1. NButtons \in Nat /\ f \in [1 .. NButtons -> Buttons]
  BY KeyAssumption DEF Buttons
<1>2. Ascending(NButtons) = [k \in 1 .. 3 * NButtons |-> FreeStep(f[1 + (k - 1) \div 3], (k - 1) % 3)]
  <2>1. ASSUME NEW k \in 1 .. 3 * NButtons PROVE f[1 + (k - 1) \div 3] = 1 + (k - 1) \div 3
    BY <1>1
  <2> QED BY <2>1 DEF Ascending
<1>3. \A c \in 1 .. NButtons : f[c] = c
  OBVIOUS
<1> HIDE DEF f
<1>4. /\ Ascending(NButtons) \in Seq(OfButtons(Buttons)) /\ Ordered(Ascending(NButtons))
      /\ \A j \in 1 .. NButtons : {Irq(f[j]), Timer(f[j]), Gpio(f[j])} \subseteq Listed(Ascending(NButtons))
  BY <1>1, <1>2, ByThree
<1> QED BY <1>3, <1>4 DEF OfButtons, Buttons

LEMMA PutFirst ==
  ASSUME NEW S, NEW x \in S, NEW t \in Seq(S)
  PROVE  /\ << x >> \o t \in Seq(S) /\ Len(<< x >> \o t) = Len(t) + 1 /\ (<< x >> \o t)[1] = x
         /\ \A i \in 2 .. Len(t) + 1 : (<< x >> \o t)[i] = t[i - 1]
<1> DEFINE c == << x >> \o t
<1>1. << x >> \in Seq(S) /\ Len(<< x >>) = 1 /\ << x >>[1] = x /\ Len(t) \in Nat
  OBVIOUS
<1>2. /\ c \in Seq(S) /\ Len(c) = Len(<< x >>) + Len(t)
      /\ \A i \in 1 .. Len(<< x >>) + Len(t) :
           c[i] = IF i <= Len(<< x >>) THEN << x >>[i] ELSE t[i - Len(<< x >>)]
  BY <1>1, ConcatProperties, Zenon
<1> HIDE DEF c
<1>3. Len(c) = Len(t) + 1 /\ c[1] = x /\ \A i \in 2 .. Len(t) + 1 : c[i] = t[i - 1]
  BY <1>1, <1>2
<1> QED BY <1>2, <1>3 DEF c

LEMMA FailsAre ==
  /\ Fail3 \in Seq(First) /\ Len(Fail3) = 5
  /\ Fail3[1] = Mux /\ Fail3[2] = Device /\ Fail3[3] = Class /\ Fail3[4] = Chrdev /\ Fail3[5] = Bank
  /\ Fail4 \in Seq(First) /\ Len(Fail4) = 6
  /\ Fail4[1] = Ddata /\ Fail4[2] = Mux /\ Fail4[3] = Device
  /\ Fail4[4] = Class /\ Fail4[5] = Chrdev /\ Fail4[6] = Bank
<1>1. Bank \in First /\ Chrdev \in First /\ Class \in First /\ Device \in First /\ Mux \in First /\ Ddata \in First
  BY DEF First
<1> DEFINE three == << Device, Class, Chrdev >>
<1>2. /\ three \in Seq(First) /\ Len(three) = 3
      /\ three[1] = Device /\ three[2] = Class /\ three[3] = Chrdev
      /\ Fail1 \in Seq(First) /\ Len(Fail1) = 1 /\ Fail1[1] = Bank
  BY <1>1 DEF Fail1
<1>3. Fail2 = three \o Fail1
  BY DEF Fail2
<1> HIDE DEF three
<1>4. /\ three \o Fail1 \in Seq(First) /\ Len(three \o Fail1) = Len(three) + Len(Fail1)
      /\ \A i \in 1 .. Len(three) + Len(Fail1) :
           (three \o Fail1)[i] = IF i <= Len(three) THEN three[i] ELSE Fail1[i - Len(three)]
  BY <1>2, ConcatProperties, Zenon
<1>5. /\ Fail2 \in Seq(First) /\ Len(Fail2) = 4
      /\ Fail2[1] = Device /\ Fail2[2] = Class /\ Fail2[3] = Chrdev /\ Fail2[4] = Bank
  BY <1>2, <1>3, <1>4
<1>6. /\ Fail3 \in Seq(First) /\ Len(Fail3) = Len(Fail2) + 1 /\ Fail3[1] = Mux
      /\ \A i \in 2 .. Len(Fail2) + 1 : Fail3[i] = Fail2[i - 1]
  <2>1. Fail3 = << Mux >> \o Fail2
    BY DEF Fail3
  <2>2. /\ << Mux >> \o Fail2 \in Seq(First) /\ Len(<< Mux >> \o Fail2) = Len(Fail2) + 1
        /\ (<< Mux >> \o Fail2)[1] = Mux
        /\ \A i \in 2 .. Len(Fail2) + 1 : (<< Mux >> \o Fail2)[i] = Fail2[i - 1]
    <3>1. Mux \in First /\ Fail2 \in Seq(First)
      BY <1>1, <1>5
    <3> QED BY <3>1, PutFirst
  <2> QED BY <2>1, <2>2
<1>7. /\ Len(Fail3) = 5
      /\ Fail3[2] = Device /\ Fail3[3] = Class /\ Fail3[4] = Chrdev /\ Fail3[5] = Bank
  BY <1>5, <1>6
<1>8. /\ Fail4 \in Seq(First) /\ Len(Fail4) = Len(Fail3) + 1 /\ Fail4[1] = Ddata
      /\ \A i \in 2 .. Len(Fail3) + 1 : Fail4[i] = Fail3[i - 1]
  <2>1. Fail4 = << Ddata >> \o Fail3
    BY DEF Fail4
  <2>2. /\ << Ddata >> \o Fail3 \in Seq(First) /\ Len(<< Ddata >> \o Fail3) = Len(Fail3) + 1
        /\ (<< Ddata >> \o Fail3)[1] = Ddata
        /\ \A i \in 2 .. Len(Fail3) + 1 : (<< Ddata >> \o Fail3)[i] = Fail3[i - 1]
    BY <1>1, <1>6, PutFirst
  <2> QED BY <2>1, <2>2
<1>9. /\ Len(Fail4) = 6 /\ Fail4[2] = Mux /\ Fail4[3] = Device
      /\ Fail4[4] = Class /\ Fail4[5] = Chrdev /\ Fail4[6] = Bank
  BY <1>6, <1>7, <1>8
<1> QED BY <1>6, <1>7, <1>8, <1>9

\* The error path of keys_probe goes on with Fail4, and so does keys_remove.
LEMMA ThenFail4 ==
  ASSUME NEW s \in Seq(OfButtons(Buttons)), Ordered(s)
  PROVE  /\ s \o Fail4 \in Seq(Releases) /\ Ordered(s \o Fail4)
         /\ Listed(s) \cup First \subseteq Listed(s \o Fail4)
<1>1. /\ Fail4[1] = Ddata /\ Fail4[2] = Mux /\ Fail4[3] = Device
      /\ Fail4[4] = Class /\ Fail4[5] = Chrdev /\ Fail4[6] = Bank
  BY FailsAre
<1>2. s \in Seq(Releases) /\ Fail4 \in Seq(Releases) /\ Len(Fail4) = 6 /\ Len(s) \in Nat
  <2>1. OfButtons(Buttons) \subseteq Releases
    BY DEF Releases
  <2>2. s \in Seq(Releases) /\ Len(s) \in Nat
    BY <2>1
  <2>3. Fail4 \in Seq(Releases) /\ Len(Fail4) = 6
    <3>1. Fail4 \in Seq(First) /\ Len(Fail4) = 6
      BY FailsAre
    <3> QED BY <3>1 DEF Releases
  <2> QED BY <2>2, <2>3
<1>3. /\ s \o Fail4 \in Seq(Releases)
      /\ Len(s \o Fail4) = Len(s) + Len(Fail4)
      /\ \A i \in 1 .. Len(s) + Len(Fail4) :
           (s \o Fail4)[i] = IF i <= Len(s) THEN s[i] ELSE Fail4[i - Len(s)]
  BY <1>2, ConcatProperties, Zenon
<1> DEFINE c == s \o Fail4
<1>4. /\ Len(c) = Len(s) + 6
      /\ \A i \in 1 .. Len(s) : i \in 1 .. Len(c) /\ c[i] = s[i]
      /\ \A k \in 1 .. 6 : Len(s) + k \in 1 .. Len(c) /\ c[Len(s) + k] = Fail4[k]
  <2> HIDE DEF c
  <2>1. /\ Len(c) = Len(s) + 6
        /\ \A i \in 1 .. Len(s) + 6 : c[i] = IF i <= Len(s) THEN s[i] ELSE Fail4[i - Len(s)]
    BY <1>2, <1>3 DEF c
  <2>2. ASSUME NEW k \in 1 .. 6 PROVE Len(s) + k \in 1 .. Len(c) /\ c[Len(s) + k] = Fail4[k]
    <3>1. Len(s) + k \in 1 .. Len(s) + 6 /\ ~(Len(s) + k <= Len(s)) /\ (Len(s) + k) - Len(s) = k
      BY <1>2
    <3> QED BY <2>1, <3>1
  <2> QED BY <1>2, <2>1, <2>2
<1> HIDE DEF c
<1>5. \A i \in 1 .. Len(c) : i \in 1 .. Len(s) \/ \E k \in 1 .. 6 : i = Len(s) + k
  <2> SUFFICES ASSUME NEW i \in 1 .. Len(c), i > Len(s) PROVE \E k \in 1 .. 6 : i = Len(s) + k
    BY <1>2, <1>4
  <2>1. i - Len(s) \in 1 .. 6 /\ i = Len(s) + (i - Len(s))
    BY <1>2, <1>4
  <2> QED BY <2>1
<1>6. \A k \in 1 .. 6 : ~IsHandler(Fail4[k]) /\ \A b \in Buttons : Fail4[k] # Irq(b)
  <2>1. \A k \in 1 .. 6 : Fail4[k] \in First
    BY <1>1 DEF First
  <2>2. \A r \in First : r.kind \notin {"irq", "timer"}
    BY Kindwise DEF First
  <2> QED BY <2>1, <2>2, Kindwise DEF IsHandler
<1>7. \A i \in 1 .. Len(s) : s[i] # Ddata
  <2>1. \A i \in 1 .. Len(s) : s[i] \in OfButtons(Buttons)
    OBVIOUS
  <2>2. Ddata \notin OfButtons(Buttons)
    BY Kindwise DEF OfButtons
  <2> QED BY <2>1, <2>2
<1>8. Ordered(c)
  <2> SUFFICES ASSUME NEW i \in 1 .. Len(c)
               PROVE  /\ \A b \in Buttons : c[i] = Irq(b) => \E j \in i + 1 .. Len(c) : c[j] = Timer(b)
                      /\ c[i] = Ddata => \A j \in i + 1 .. Len(c) : ~IsHandler(c[j])
    BY DEF Ordered
  <2>1. CASE i \in 1 .. Len(s)
    <3>1. c[i] # Ddata
      BY <1>4, <1>7, <2>1
    <3>2. ASSUME NEW b \in Buttons, c[i] = Irq(b) PROVE \E j \in i + 1 .. Len(c) : c[j] = Timer(b)
      <4>1. PICK j \in i + 1 .. Len(s) : s[j] = Timer(b)
        BY <1>4, <2>1, <3>2 DEF Ordered
      <4> QED BY <1>2, <1>4, <2>1, <4>1
    <3> QED BY <3>1, <3>2
  <2>2. CASE \E k \in 1 .. 6 : i = Len(s) + k
    <3>1. PICK k \in 1 .. 6 : i = Len(s) + k
      BY <2>2
    <3>2. \A b \in Buttons : c[i] # Irq(b)
      BY <1>4, <1>6, <3>1
    <3>3. ASSUME NEW j \in i + 1 .. Len(c) PROVE ~IsHandler(c[j])
      <4>1. j - Len(s) \in 1 .. 6 /\ j = Len(s) + (j - Len(s))
        <5>1. Len(c) = Len(s) + 6 /\ Len(s) \in Nat
          BY <1>2, <1>4
        <5> QED BY <3>1, <5>1
      <4> QED BY <1>4, <1>6, <4>1
    <3> QED BY <3>2, <3>3
  <2> QED BY <1>5, <2>1, <2>2
<1>9. Listed(s) \cup First \subseteq Listed(c)
  <2>1. Listed(s) \subseteq Listed(c)
    BY <1>4 DEF Listed
  <2>2. /\ c[Len(s) + 1] = Ddata /\ c[Len(s) + 2] = Mux /\ c[Len(s) + 3] = Device
        /\ c[Len(s) + 4] = Class /\ c[Len(s) + 5] = Chrdev /\ c[Len(s) + 6] = Bank
    BY <1>1, <1>4
  <2>3. \A k \in 1 .. 6 : c[Len(s) + k] \in Listed(c)
    BY <1>4 DEF Listed
  <2>4. First \subseteq Listed(c)
    BY <2>2, <2>3 DEF First
  <2> QED BY <2>1, <2>4
<1> QED BY <1>3, <1>8, <1>9 DEF c

LEMMA GpioThen ==
  ASSUME NEW t \in Seq(Releases), Ordered(t), NEW b \in Buttons
  PROVE  /\ << Gpio(b) >> \o t \in Seq(Releases) /\ Ordered(<< Gpio(b) >> \o t)
         /\ Listed(t) \cup {Gpio(b)} \subseteq Listed(<< Gpio(b) >> \o t)
<1> DEFINE c == << Gpio(b) >> \o t
<1>1. << Gpio(b) >> \in Seq(Releases) /\ Len(<< Gpio(b) >>) = 1 /\ << Gpio(b) >>[1] = Gpio(b) /\ Len(t) \in Nat
  BY DEF Releases, OfButtons
<1>2. /\ c \in Seq(Releases)
      /\ Len(c) = Len(<< Gpio(b) >>) + Len(t)
      /\ \A i \in 1 .. Len(<< Gpio(b) >>) + Len(t) :
           c[i] = IF i <= Len(<< Gpio(b) >>) THEN << Gpio(b) >>[i] ELSE t[i - Len(<< Gpio(b) >>)]
  BY <1>1, ConcatProperties, Zenon
<1> HIDE DEF c
<1>3. /\ Len(c) = Len(t) + 1 /\ c[1] = Gpio(b)
      /\ \A i \in 2 .. Len(c) : i - 1 \in 1 .. Len(t) /\ c[i] = t[i - 1]
  BY <1>1, <1>2
<1>4. \A i \in 1 .. Len(t) : i + 1 \in 2 .. Len(c) /\ c[i + 1] = t[i]
  <2> SUFFICES ASSUME NEW i \in 1 .. Len(t) PROVE i + 1 \in 2 .. Len(c) /\ c[i + 1] = t[i]
    OBVIOUS
  <2>1. i + 1 \in 2 .. Len(c) /\ (i + 1) - 1 = i
    BY <1>1, <1>3
  <2> QED BY <1>3, <2>1
<1>5. c[1] # Ddata /\ \A d \in Buttons : c[1] # Irq(d)
  BY <1>3, Kindwise
<1>6. Ordered(c)
  <2> SUFFICES ASSUME NEW i \in 2 .. Len(c)
               PROVE  /\ \A d \in Buttons : c[i] = Irq(d) => \E j \in i + 1 .. Len(c) : c[j] = Timer(d)
                      /\ c[i] = Ddata => \A j \in i + 1 .. Len(c) : ~IsHandler(c[j])
    BY <1>1, <1>3, <1>5 DEF Ordered
  <2>1. ASSUME NEW d \in Buttons, c[i] = Irq(d) PROVE \E j \in i + 1 .. Len(c) : c[j] = Timer(d)
    <3>1. PICK k \in i .. Len(t) : t[k] = Timer(d)
      BY <1>1, <1>3, <2>1 DEF Ordered
    <3>2. k + 1 \in i + 1 .. Len(c) /\ c[k + 1] = Timer(d)
      BY <1>1, <1>3, <1>4, <3>1
    <3> QED BY <3>2
  <2>2. ASSUME c[i] = Ddata, NEW j \in i + 1 .. Len(c) PROVE ~IsHandler(c[j])
    <3>1. t[i - 1] = Ddata /\ j - 1 \in (i - 1) + 1 .. Len(t) /\ c[j] = t[j - 1] /\ i - 1 \in 1 .. Len(t)
      BY <1>1, <1>3, <2>2
    <3> QED BY <3>1 DEF Ordered
  <2> QED BY <2>1, <2>2
<1>7. Listed(t) \cup {Gpio(b)} \subseteq Listed(c)
  <2>1. Listed(t) \subseteq Listed(c)
    BY <1>1, <1>3, <1>4, SMTT(60) DEF Listed
  <2>2. Gpio(b) \in Listed(c)
    BY <1>1, <1>3 DEF Listed
  <2> QED BY <2>1, <2>2
<1> QED BY <1>2, <1>6, <1>7 DEF c

\* The step at which keys_probe acquires a resource; an interrupt starts its timer.
Rank(r) ==
  CASE r.kind = "bank" -> 1 [] r.kind = "chrdev" -> 2 [] r.kind = "class" -> 3
    [] r.kind = "device" -> 4 [] r.kind = "mux" -> 5 [] r.kind = "ddata" -> 6
    [] r.kind = "gpio" -> 5 + 2 * r.b [] OTHER -> 6 + 2 * r.b

LEMMA Ranks ==
  /\ Rank(Bank) = 1 /\ Rank(Chrdev) = 2 /\ Rank(Class) = 3
  /\ Rank(Device) = 4 /\ Rank(Mux) = 5 /\ Rank(Ddata) = 6
  /\ \A b \in Buttons : Rank(Gpio(b)) = 5 + 2 * b /\ Rank(Irq(b)) = 6 + 2 * b /\ Rank(Timer(b)) = 6 + 2 * b
<1>1. /\ Rank(Bank) = 1 /\ Rank(Chrdev) = 2 /\ Rank(Class) = 3
      /\ Rank(Device) = 4 /\ Rank(Mux) = 5 /\ Rank(Ddata) = 6
  BY DEF Rank, Bank, Chrdev, Class, Device, Mux, Ddata, Of
<1>2. ASSUME NEW b \in Buttons
      PROVE  Rank(Gpio(b)) = 5 + 2 * b /\ Rank(Irq(b)) = 6 + 2 * b /\ Rank(Timer(b)) = 6 + 2 * b
  BY DEF Rank, Gpio, Irq, Timer, Of
<1> QED BY <1>1, <1>2

LEMMA RanksNat == \A r \in Releases : Rank(r) \in Nat
<1>1. \A r \in First : Rank(r) \in Nat
  BY Ranks DEF First
<1>2. ASSUME NEW b \in Buttons PROVE Rank(Gpio(b)) \in Nat /\ Rank(Irq(b)) \in Nat /\ Rank(Timer(b)) \in Nat
  <2>1. b \in Nat
    BY DEF Buttons
  <2> QED BY <2>1, Ranks
<1>3. \A r \in OfButtons(Buttons) : Rank(r) \in Nat
  BY <1>2 DEF OfButtons
<1> QED BY <1>1, <1>3 DEF Releases

LEMMA OrderRanks ==
  ASSUME NEW k \in 1 .. Len(Order)
  PROVE  Order[k] \in Releases /\ Rank(Order[k]) = k
<1>1. NButtons \in Nat /\ Len(Order) = 6 + 2 * NButtons
  BY KeyAssumption, OrderIs
<1>2. CASE k \in 1 .. 6
  <2>1. k = 1 \/ k = 2 \/ k = 3 \/ k = 4 \/ k = 5 \/ k = 6
    BY <1>2
  <2> QED BY <2>1, OrderIs, Ranks DEF Releases, First
<1>3. CASE k \in 7 .. Len(Order)
  <2>1. PICK b \in Buttons : \/ k = 5 + 2 * b /\ Order[k] = Gpio(b)
                             \/ k = 6 + 2 * b /\ Order[k] = Irq(b)
    BY <1>3, StepOfButton
  <2> QED BY <2>1, Ranks DEF Releases, OfButtons
<1> QED BY <1>1, <1>2, <1>3

\* What keys_probe undoes when its next step is refused is all it has acquired.
LEMMA UndoListsAll ==
  ASSUME NEW k \in 0 .. Len(Order) - 1, k \notin {1, 2, 3}
  PROVE  /\ Undo(Order[k + 1]) \in Seq(Releases) /\ Ordered(Undo(Order[k + 1]))
         /\ \A r \in Releases : Rank(r) <= k => r \in Listed(Undo(Order[k + 1]))
<1>1. NButtons \in Nat /\ Len(Order) = 6 + 2 * NButtons
  BY KeyAssumption, OrderIs
<1>2. /\ \A r \in First : Rank(r) \in 1 .. 6
      /\ \A b \in Buttons : \A r \in OfButtons({b}) : Rank(r) \in {5 + 2 * b, 6 + 2 * b}
  BY Ranks DEF First, OfButtons
<1>8. \A b \in Buttons : b \in Nat /\ \A r \in OfButtons({b}) : Rank(r) \in Nat /\ Rank(r) > 6
  <2> SUFFICES ASSUME NEW b \in Buttons, NEW r \in OfButtons({b})
               PROVE  b \in Nat /\ Rank(r) \in Nat /\ Rank(r) > 6
    BY DEF Buttons
  <2>1. Rank(r) \in {5 + 2 * b, 6 + 2 * b} /\ b \in Nat /\ b >= 1
    BY <1>2 DEF Buttons
  <2> QED BY <2>1
<1>3. \A r \in Releases : r \in First \/ \E b \in Buttons : r \in OfButtons({b})
  BY DEF Releases, OfButtons
<1>9. ASSUME NEW r \in Releases
      PROVE  Rank(r) \in Nat /\ Rank(r) >= 1 /\ (Rank(r) <= 6 => r \in First)
  <2>1. CASE r \in First
    <3>1. Rank(r) \in 1 .. 6
      BY <1>2, <2>1, Zenon
    <3> QED BY <2>1, <3>1
  <2>2. CASE \E b \in Buttons : r \in OfButtons({b})
    <3>1. Rank(r) \in Nat /\ Rank(r) > 6
      BY <1>8, <2>2, Zenon
    <3> QED BY <3>1
  <2> QED BY <1>3, <2>1, <2>2
<1>4. CASE k = 0
  <2>1. Undo(Order[1]) = << >>
    BY OrderIs, Kindwise DEF Undo
  <2>2. \A r \in Releases : ~(Rank(r) <= 0)
    BY <1>9
  <2>3. << >> \in Seq(Releases) /\ Ordered(<< >>)
    BY DEF Ordered
  <2>4. Order[k + 1] = Order[1]
    BY <1>4
  <2> QED BY <1>4, <2>1, <2>2, <2>3, <2>4
<1>5. CASE k = 4
  <2>1. Undo(Order[5]) = Fail3
    BY OrderIs, Kindwise DEF Undo
  <2>2. /\ Fail3[1] = Mux /\ Fail3[2] = Device /\ Fail3[3] = Class /\ Fail3[4] = Chrdev /\ Fail3[5] = Bank
        /\ Fail3 \in Seq(First) /\ Len(Fail3) = 5
    BY FailsAre
  <2>3. Fail3 \in Seq(Releases) /\ Len(Fail3) = 5
    BY <2>2 DEF Releases
  <2>4. \A i \in 1 .. 5 : Fail3[i] # Ddata /\ \A b \in Buttons : Fail3[i] # Irq(b)
    BY <2>2, Kindwise
  <2>5. First \ {Ddata} \subseteq Listed(Fail3)
    <3>1. \A i \in 1 .. 5 : Fail3[i] \in Listed(Fail3)
      BY <2>3 DEF Listed
    <3>2. Fail3[1] = Mux /\ Fail3[2] = Device /\ Fail3[3] = Class /\ Fail3[4] = Chrdev /\ Fail3[5] = Bank
      BY <2>2
    <3> QED BY <3>1, <3>2 DEF First
  <2>6. \A r \in Releases : Rank(r) <= 4 => r \in First \ {Ddata}
    <3>1. ASSUME NEW r \in Releases, Rank(r) <= 4 PROVE r \in First \ {Ddata}
      <4>1. r # Ddata
        BY <3>1, Ranks
      <4> QED BY <1>9, <3>1, <4>1
    <3> QED BY <3>1
  <2> QED BY <1>5, <2>1, <2>3, <2>4, <2>5, <2>6 DEF Ordered
<1>6. CASE k = 5
  <2>1. Undo(Order[6]) = Fail4
    BY OrderIs, Kindwise DEF Undo
  <2>2. Fail4 = << >> \o Fail4
    BY FailsAre, ConcatEmptySeq
  <2>3. << >> \in Seq(OfButtons(Buttons)) /\ Ordered(<< >>)
    BY DEF Ordered
  <2>4. Fail4 \in Seq(Releases) /\ Ordered(Fail4) /\ First \subseteq Listed(Fail4)
    BY <2>2, <2>3, ThenFail4
  <2>5. \A r \in Releases : Rank(r) <= 5 => r \in First
    BY <1>9
  <2> QED BY <1>6, <2>1, <2>4, <2>5
<1>7. CASE k >= 6
  <2>1. PICK b \in Buttons : \/ k + 1 = 5 + 2 * b /\ Order[k + 1] = Gpio(b)
                             \/ k + 1 = 6 + 2 * b /\ Order[k + 1] = Irq(b)
    BY <1>1, <1>7, StepOfButton
  <2>2. b - 1 \in 0 .. NButtons /\ 1 .. b - 1 \subseteq Buttons
    BY <1>1 DEF Buttons
  <2>3. /\ Fail5(b) \in Seq(Releases) /\ Ordered(Fail5(b))
        /\ OfButtons(1 .. b - 1) \cup First \subseteq Listed(Fail5(b))
    BY <2>2, DescendingIs, ThenFail4 DEF Fail5
  <2>4. ASSUME NEW r \in Releases, Rank(r) <= 4 + 2 * b
        PROVE  r \in First \cup OfButtons(1 .. b - 1)
    <3>1. ASSUME NEW d \in Buttons, r \in OfButtons({d}) PROVE d \in 1 .. b - 1
      BY <1>1, <1>2, <2>4, <3>1 DEF Buttons
    <3>2. \A d \in 1 .. b - 1 : OfButtons({d}) \subseteq OfButtons(1 .. b - 1)
      BY DEF OfButtons
    <3> QED BY <1>3, <3>1, <3>2
  <2>5. CASE k + 1 = 5 + 2 * b /\ Order[k + 1] = Gpio(b)
    <3>1. Undo(Order[k + 1]) = Fail5(b)
      BY <2>5, Kindwise DEF Undo
    <3>2. k = 4 + 2 * b
      BY <2>5, <1>1 DEF Buttons
    <3> QED BY <2>3, <2>4, <3>1, <3>2
  <2>6. CASE k + 1 = 6 + 2 * b /\ Order[k + 1] = Irq(b)
    <3>1. Undo(Order[k + 1]) = << Gpio(b) >> \o Fail5(b)
      BY <2>6, Kindwise DEF Undo
    <3>2. k = 5 + 2 * b /\ b \in Nat
      BY <2>6, <1>1 DEF Buttons
    <3>3. /\ Undo(Order[k + 1]) \in Seq(Releases) /\ Ordered(Undo(Order[k + 1]))
          /\ Listed(Fail5(b)) \cup {Gpio(b)} \subseteq Listed(Undo(Order[k + 1]))
      BY <2>3, <3>1, GpioThen
    <3>4. ASSUME NEW r \in Releases, Rank(r) <= k PROVE r \in Listed(Undo(Order[k + 1]))
      <4>1. CASE Rank(r) <= 4 + 2 * b
        BY <2>3, <2>4, <3>3, <4>1
      <4>2. CASE ~(Rank(r) <= 4 + 2 * b)
        <5>1. r = Gpio(b)
          <6>2. ASSUME NEW d \in Buttons PROVE /\ Rank(Gpio(d)) = 5 + 2 * d /\ Rank(Irq(d)) = 6 + 2 * d
                                               /\ Rank(Timer(d)) = 6 + 2 * d /\ d \in Nat
            BY Ranks DEF Buttons
          <6>6. r \notin First
            <7>1. ~(6 <= 4 + 2 * b) => b = 0
              BY <3>2
            <7> QED BY <1>1, <1>2, <3>2, <4>2, <7>1 DEF Buttons
          <6>3. PICK d \in Buttons : r \in {Gpio(d), Irq(d), Timer(d)}
            BY <1>3, <6>6 DEF OfButtons
          <6>4. d \in Nat /\ Rank(r) \in {5 + 2 * d, 6 + 2 * d}
            BY <6>2, <6>3
          <6>5. d = b /\ Rank(r) # 6 + 2 * b
            BY <3>2, <3>4, <4>2, <6>4
          <6> QED BY <6>2, <6>3, <6>5
        <5> QED BY <3>3, <5>1
      <4> QED BY <4>1, <4>2
    <3> QED BY <3>3, <3>4
  <2> QED BY <2>1, <2>5, <2>6
<1> QED BY <1>1, <1>4, <1>5, <1>6, <1>7

\* What is held can be undone: by keys_probe while it acquires, by what is
\* still to be released afterwards.
HeldInv ==
  /\ step \in 0 .. Len(Order) /\ held \subseteq Releases
  /\ status = "probing" => /\ \A r \in held : Rank(r) <= step
                           /\ step >= 6 => Ddata \in held
  /\ status \in {"undoing", "removing"} =>
       todo \in Seq(Releases) /\ Ordered(todo) /\ held \subseteq Listed(todo)

AllHeld == HeldInv /\ NothingLeft /\ HandlersHaveData

LEMMA HandlerOfButton ==
  ASSUME NEW b \in Buttons
  PROVE  /\ Irq(b) \in Releases /\ Timer(b) \in Releases
         /\ IsHandler(Irq(b)) /\ IsHandler(Timer(b))
         /\ \A r \in First : Irq(b) # r /\ Timer(b) # r
<1>1. Irq(b) \in Releases /\ Timer(b) \in Releases
  BY DEF Releases, OfButtons
<1>2. Irq(b).kind = "irq" /\ Timer(b).kind = "timer"
  BY Kindwise, Zenon
<1>3. \A r \in First : r.kind \notin {"irq", "timer"}
  BY Kindwise DEF First
<1> QED BY <1>1, <1>2, <1>3 DEF IsHandler

LEMMA AcquireStep ==
  ASSUME AllHeld, Acquire PROVE AllHeld'
<1>1. /\ step + 1 \in 1 .. Len(Order) /\ step \in Nat /\ Len(Order) \in Nat
      /\ Order[step + 1] \in Releases /\ Rank(Order[step + 1]) = step + 1
  <2>1. Len(Order) \in Nat
    BY OrderIs, KeyAssumption
  <2>2. step + 1 \in 1 .. Len(Order) /\ step \in Nat
    BY <2>1 DEF AllHeld, HeldInv, Acquire
  <2> QED BY <2>1, <2>2, OrderRanks
<1>2. \A r \in held' : r \in Releases /\ Rank(r) <= step'
  <2> SUFFICES ASSUME NEW r \in held' PROVE r \in Releases /\ Rank(r) <= step'
    OBVIOUS
  <2>1. CASE r = Order[step + 1]
    BY <1>1, <2>1 DEF Acquire
  <2>2. CASE r \in held
    <3>1. r \in Releases /\ Rank(r) <= step
      BY <2>2 DEF AllHeld, HeldInv, Acquire
    <3>2. Rank(r) \in Nat
      BY <3>1, RanksNat
    <3> QED BY <1>1, <3>1, <3>2 DEF Acquire
  <2> QED BY <2>1, <2>2 DEF Acquire
<1>3. step' >= 6 => Ddata \in held'
  <2>1. CASE step + 1 = 6
    BY <2>1, OrderIs DEF Acquire
  <2>2. CASE step >= 6
    BY <2>2 DEF Acquire, AllHeld, HeldInv
  <2> QED BY <1>1, <2>1, <2>2 DEF Acquire
<1>4. HandlersHaveData'
  <2> SUFFICES ASSUME NEW b \in Buttons, Irq(b) \in held' \/ Timer(b) \in held' PROVE Ddata \in held'
    BY DEF HandlersHaveData
  <2>1. Rank(Irq(b)) = 6 + 2 * b /\ Rank(Timer(b)) = 6 + 2 * b /\ b \in Nat
    BY Ranks DEF Buttons
  <2>2. step' \in Nat /\ step' >= 6
    BY <1>1, <1>2, <2>1 DEF Acquire
  <2> QED BY <1>3, <2>2
<1>5. HeldInv'
  BY <1>1, <1>2, <1>3 DEF HeldInv, Acquire
<1> QED BY <1>4, <1>5 DEF AllHeld, NothingLeft, Acquire

LEMMA RefusedUnnoticedStep ==
  ASSUME AllHeld, RefusedUnnoticed PROVE AllHeld'
<1>1. /\ step + 1 \in 1 .. Len(Order) /\ step \in Nat /\ Len(Order) \in Nat
      /\ Rank(Order[step + 1]) = step + 1
  <2>1. Len(Order) \in Nat
    BY OrderIs, KeyAssumption
  <2>2. step + 1 \in 1 .. Len(Order) /\ step \in Nat
    BY <2>1 DEF AllHeld, HeldInv, RefusedUnnoticed
  <2> QED BY <2>1, <2>2, OrderRanks
<1>2. step + 1 \in {2, 4}
  BY <1>1, Ranks DEF RefusedUnnoticed
<1>3. \A r \in held : Rank(r) <= step'
  <2> SUFFICES ASSUME NEW r \in held PROVE Rank(r) <= step + 1
    BY DEF RefusedUnnoticed
  <2>1. Rank(r) \in Nat /\ Rank(r) <= step
    BY RanksNat DEF AllHeld, HeldInv, RefusedUnnoticed
  <2> QED BY <1>1, <2>1
<1>4. HeldInv'
  BY <1>1, <1>2, <1>3 DEF HeldInv, AllHeld, RefusedUnnoticed
<1> QED BY <1>4 DEF AllHeld, NothingLeft, HandlersHaveData, RefusedUnnoticed

LEMMA RefusedStep ==
  ASSUME AllHeld, Refused PROVE AllHeld'
<1>1. /\ step \in 0 .. Len(Order) - 1 /\ Len(Order) \in Nat
  <2>1. Len(Order) \in Nat
    BY OrderIs, KeyAssumption
  <2> QED BY <2>1 DEF AllHeld, HeldInv, Refused
<1>2. step \notin {1, 2, 3}
  BY OrderIs DEF Refused
<1>3. /\ todo' \in Seq(Releases) /\ Ordered(todo')
      /\ \A r \in Releases : Rank(r) <= step => r \in Listed(todo')
  BY <1>1, <1>2, UndoListsAll DEF Refused
<1>4. held' \subseteq Listed(todo')
  BY <1>3 DEF AllHeld, HeldInv, Refused
<1>5. HeldInv'
  BY <1>3, <1>4 DEF HeldInv, AllHeld, Refused
<1> QED BY <1>5 DEF AllHeld, NothingLeft, HandlersHaveData, Refused

LEMMA ReleaseStep ==
  ASSUME AllHeld, Release PROVE AllHeld'
<1>1. /\ todo \in Seq(Releases) /\ todo # << >> /\ Ordered(todo) /\ held \subseteq Listed(todo)
      /\ todo' = Tail(todo) /\ held' = held \ {Head(todo)}
  BY DEF AllHeld, HeldInv, Release
<1>2. /\ todo' \in Seq(Releases) /\ Ordered(todo')
      /\ Listed(todo) = {Head(todo)} \cup Listed(todo')
      /\ Head(todo) = Ddata => \A r \in Listed(todo') : ~IsHandler(r)
  BY <1>1, OrderedTail
<1>3. held' \subseteq Listed(todo')
  BY <1>1, <1>2
<1>4. HandlersHaveData'
  <2> SUFFICES ASSUME NEW b \in Buttons, Irq(b) \in held' \/ Timer(b) \in held' PROVE Ddata \in held'
    BY DEF HandlersHaveData
  <2>1. Ddata \in held
    BY <1>1 DEF AllHeld, HandlersHaveData
  <2>2. Head(todo) # Ddata
    BY <1>2, <1>3, HandlerOfButton
  <2> QED BY <1>1, <2>1, <2>2
<1>5. HeldInv'
  BY <1>1, <1>2, <1>3 DEF HeldInv, AllHeld, Release
<1> QED BY <1>4, <1>5 DEF AllHeld, NothingLeft, Release

LEMMA ReleasedStep ==
  ASSUME AllHeld, Released PROVE AllHeld'
<1>1. held = {}
  <2>1. held \subseteq Listed(<< >>)
    BY DEF AllHeld, HeldInv, Released
  <2> QED BY <2>1 DEF Listed
<1>2. status' \in {"gone", "failed", "bound"}
  BY DEF Released
<1> QED BY <1>1, <1>2 DEF AllHeld, HeldInv, NothingLeft, HandlersHaveData, Released

LEMMA RemoveKeysStep ==
  ASSUME AllHeld, RemoveKeys PROVE AllHeld'
<1>1. CASE status' = "oops"
  BY <1>1 DEF AllHeld, HeldInv, NothingLeft, HandlersHaveData, RemoveKeys
<1>2. CASE status' = "removing" /\ todo' = Remove
  <2>1. /\ Remove \in Seq(Releases) /\ Ordered(Remove)
        /\ OfButtons(Buttons) \cup First \subseteq Listed(Remove)
    BY AscendingIs, ThenFail4 DEF Remove
  <2>2. held \subseteq Listed(Remove)
    BY <2>1 DEF AllHeld, HeldInv, Releases
  <2> QED BY <1>2, <2>1, <2>2 DEF AllHeld, HeldInv, NothingLeft, HandlersHaveData, RemoveKeys
<1> QED BY <1>1, <1>2 DEF RemoveKeys

\* An interrupt can start a timer while resources are being released.
LEMMA InterruptStep ==
  ASSUME AllHeld, NEW b \in Buttons, gpio_keys_isr(b) PROVE AllHeld'
<1>1. /\ UNCHANGED << step, todo >> /\ status' \in {status, "oops"} /\ Irq(b) \in held
      /\ held' = held \/ held' = held \cup {Timer(b)}
  BY DEF gpio_keys_isr, key_respone
<1>2. Ddata \in held /\ Ddata \in held'
  BY <1>1 DEF AllHeld, HandlersHaveData
<1>3. held' \subseteq Releases
  BY <1>1, HandlerOfButton DEF AllHeld, HeldInv
<1>4. ASSUME status = "probing" PROVE \A r \in held' : Rank(r) <= step
  BY <1>1, <1>4, Ranks DEF AllHeld, HeldInv
<1>5. ASSUME status \in {"undoing", "removing"} PROVE held' \subseteq Listed(todo)
  <2>1. todo \in Seq(Releases) /\ Ordered(todo) /\ held \subseteq Listed(todo)
    BY <1>5 DEF AllHeld, HeldInv
  <2>2. PICK i \in 1 .. Len(todo) : todo[i] = Irq(b)
    BY <1>1, <2>1 DEF Listed
  <2>3. PICK j \in i + 1 .. Len(todo) : todo[j] = Timer(b)
    BY <2>1, <2>2 DEF Ordered
  <2>4. j \in 1 .. Len(todo)
    BY <2>1
  <2> QED BY <1>1, <2>1, <2>3, <2>4 DEF Listed
<1>6. HeldInv'
  BY <1>1, <1>2, <1>3, <1>4, <1>5 DEF HeldInv, AllHeld
<1>7. NothingLeft'
  BY <1>1 DEF NothingLeft, AllHeld
<1> QED BY <1>2, <1>6, <1>7 DEF AllHeld, HandlersHaveData

LEMMA HeldStep == AllHeld /\ [Next]_vars => AllHeld'
<1> SUFFICES ASSUME AllHeld, [Next]_vars PROVE AllHeld'
  OBVIOUS
<1>1. ASSUME /\ UNCHANGED << step, todo >> /\ held' \in SUBSET held
             /\ status' \in {status, "oops"} \/ status' = "bound"
             /\ Ddata \in held => Ddata \in held'
      PROVE  AllHeld'
  BY <1>1 DEF AllHeld, HeldInv, NothingLeft, HandlersHaveData
<1>2. CASE UNCHANGED vars \/ ClassRefused \/ Probed
  BY <1>1, <1>2 DEF vars, probeVars, ClassRefused, Probed
<1>3. ASSUME NEW b \in Buttons, gpio_keys_timer(b) PROVE AllHeld'
  <2>1. Timer(b) # Ddata
    BY HandlerOfButton DEF First
  <2> QED BY <1>1, <1>3, <2>1 DEF gpio_keys_timer, probeVars
<1>4. ASSUME NEW r \in Readers,
             \/ keys_open(r) \/ ReadKey(r) \/ WaitOnce(r) \/ Signal(r) \/ MayBeep(r)
             \/ CopyKey(r) \/ CopyRest(r) \/ ClearState(r) \/ keys_release(r)
      PROVE  AllHeld'
  BY <1>1, <1>4 DEF keys_open, ReadKey, WaitOnce, WaitEvent, Signal, MayBeep, CopyKey, CopyRest, ClearState,
     keys_release, RGoto, probeVars
<1> QED BY <1>2, <1>3, <1>4, AcquireStep, RefusedUnnoticedStep, RefusedStep, ReleaseStep, ReleasedStep,
       RemoveKeysStep, InterruptStep DEF Next

LEMMA HeldAlways == Spec => []AllHeld
<1>1. Init => AllHeld
  <2>1. Len(Order) \in Nat
    BY OrderIs, KeyAssumption
  <2> QED BY <2>1 DEF Init, AllHeld, HeldInv, NothingLeft, HandlersHaveData
<1> QED BY <1>1, HeldStep, PTL DEF Spec

(* Every error path of keys_probe releases all that was acquired before    *)
(* it, and keys_remove all there is, whatever the keys do meanwhile.       *)
THEOREM AllIsReleased == Spec => []NothingLeft
<1>1. AllHeld => NothingLeft
  BY DEF AllHeld
<1> QED BY <1>1, HeldAlways, PTL

(* No interrupt and no timer runs without the data of its button: they are *)
(* there before the first request_irq, and freed after the last del_timer. *)
THEOREM NoHandlerWithoutData == Spec => []HandlersHaveData
<1>1. AllHeld => HandlersHaveData
  BY DEF AllHeld
<1> QED BY <1>1, HeldAlways, PTL

(***************************************************************************)
(* The character drivers.                                                  *)
(***************************************************************************)
AllDrivers == {"ts", "hello", "test", "led", "memdev", "reset"}
Resources  == {"chrdev", "class", "node", "timer", "map", "irq", "irq2", "region", "cdev",
               "devs", "data0", "data1", "gpio", "output"}

LEMMA DriverKnown == ASSUME driver \in Drivers PROVE driver \in AllDrivers
BY CharAssumption DEF AllDrivers

LEMMA StepsOf ==
  /\ driver = "ts" => InitSteps = TsInit /\ ExitSteps = TsExit
  /\ driver = "hello" => InitSteps = HelloInit /\ ExitSteps = HelloExit
  /\ driver = "test" => InitSteps = TestInit /\ ExitSteps = TestExit
  /\ driver = "led" => InitSteps = LedInit /\ ExitSteps = LedExit
  /\ driver = "memdev" => InitSteps = MemdevInit /\ ExitSteps = MemdevExit
  /\ driver = "reset" => InitSteps = ResetInit /\ ExitSteps = ResetExit
BY DEF InitSteps, ExitSteps

LEMMA StepsAreSequences ==
  ASSUME driver \in AllDrivers
  PROVE  InitSteps \in Seq(Resources) /\ ExitSteps \in Seq(Resources)
<1> USE DEF Resources
<1>1. TsInit \in Seq(Resources) /\ TsExit \in Seq(Resources)
  BY DEF TsInit, TsExit
<1>2. HelloInit \in Seq(Resources) /\ HelloExit \in Seq(Resources)
  BY DEF HelloInit, HelloExit
<1>3. TestInit \in Seq(Resources) /\ TestExit \in Seq(Resources)
  BY DEF TestInit, TestExit
<1>4. LedInit \in Seq(Resources) /\ LedExit \in Seq(Resources)
  BY DEF LedInit, LedExit
<1>5. MemdevInit \in Seq(Resources) /\ MemdevExit \in Seq(Resources)
  BY DEF MemdevInit, MemdevExit
<1>6. ResetInit \in Seq(Resources) /\ ResetExit \in Seq(Resources)
  BY DEF ResetInit, ResetExit
<1> USE DEF AllDrivers
<1> HIDE DEF Resources
<1> QED BY <1>1, <1>2, <1>3, <1>4, <1>5, <1>6, StepsOf

-----------------------------------------------------------------------------
(* The parts of CharTypeOK, one for each group of variables.               *)

ModTypes ==
  /\ driver \in Drivers /\ smp \in BOOLEAN /\ at \in 0 .. Len(InitSteps)
  /\ phase \in {"loading", "loaded", "failed", "unloading", "gone", "oops"}
UseTypes ==
  pcs \in [Procs -> Places] /\ val \in [Procs -> Nat] /\ ppos \in [Procs -> 0 .. Size] /\ early \in BOOLEAN
TsTypes ==
  /\ base \in {"null", "live", "dead"} /\ masked \subseteq Lines /\ ts_status \in BOOLEAN /\ wrote \in BOOLEAN
  /\ touches \in 0 .. MaxTouches /\ unseen \subseteq Touches /\ carry \in [Procs -> SUBSET Touches]
LedTypes ==
  /\ ker_i \in Nat /\ gpfdat \subseteq AllHigh /\ port \in [Procs -> SUBSET AllHigh]
  /\ want \subseteq AllHigh /\ overlap \in BOOLEAN
RestTypes == running \in BOOLEAN /\ pin \in {0, 1} /\ refused \in BOOLEAN

LEMMA TypeParts == CharTypeOK <=> ModTypes /\ UseTypes /\ TsTypes /\ LedTypes /\ RestTypes
BY DEF CharTypeOK, ModTypes, UseTypes, TsTypes, LedTypes, RestTypes

LEMMA TypesKept ==
  /\ UNCHANGED modVars /\ ModTypes => ModTypes'
  /\ UNCHANGED useVars /\ UseTypes => UseTypes'
  /\ UNCHANGED tsVars /\ TsTypes => TsTypes'
  /\ UNCHANGED ledVars /\ LedTypes => LedTypes'
  /\ UNCHANGED << running, pin, refused >> /\ RestTypes => RestTypes'
<1>1. UNCHANGED modVars /\ ModTypes => ModTypes'
  BY DEF modVars, ModTypes, InitSteps
<1>2. UNCHANGED useVars /\ UseTypes => UseTypes'
  BY DEF useVars, UseTypes
<1>3. UNCHANGED tsVars /\ TsTypes => TsTypes'
  BY DEF tsVars, TsTypes
<1>4. UNCHANGED ledVars /\ LedTypes => LedTypes'
  BY DEF ledVars, LedTypes
<1>5. UNCHANGED << running, pin, refused >> /\ RestTypes => RestTypes'
  BY DEF RestTypes
<1> QED BY <1>1, <1>2, <1>3, <1>4, <1>5

\* A step of the module itself or of the timer: all but modVars keep their values or types.
LEMMA ModTypesMove ==
  ASSUME ModTypes, driver' = driver, smp' = smp, at' \in {at, at + 1},
         at' <= Len(InitSteps),
         phase' \in {"loading", "loaded", "failed", "unloading", "gone", "oops"}
  PROVE  ModTypes'
<1>1. InitSteps' = InitSteps
  BY DEF InitSteps
<1>2. Len(InitSteps) \in Nat
  BY DriverKnown, StepsAreSequences DEF ModTypes
<1> QED BY <1>1, <1>2 DEF ModTypes

LEMMA ModTypesOops == ASSUME ModTypes, Oops PROVE ModTypes'
<1>1. Len(InitSteps) \in Nat
  BY DriverKnown, StepsAreSequences DEF ModTypes
<1>2. /\ driver' = driver /\ smp' = smp /\ at' = at /\ phase' = "oops" /\ at <= Len(InitSteps)
  BY <1>1 DEF ModTypes, Oops
<1> QED BY <1>2, ModTypesMove

(* The variables of CharDriver have their types: the file position of      *)
(* memdev stays within the device, the copies of the port within the pins  *)
(* of led.c, and what a reader of ts carries within the touches.           *)
THEOREM CharTypeCorrect == CharSpec => []CharTypeOK
<1>1. ASSUME CharInit PROVE CharTypeOK
  <2>1. Len(InitSteps) \in Nat
    BY <1>1, DriverKnown, StepsAreSequences DEF CharInit
  <2>2. ModTypes
    BY <1>1, <2>1 DEF CharInit, ModTypes
  <2>3. UseTypes
    <3>1. early \in BOOLEAN
      BY <1>1 DEF CharInit
    <3>2. pcs \in [Procs -> Places] /\ val \in [Procs -> Nat] /\ ppos \in [Procs -> 0 .. Size]
      BY <1>1, CharAssumption DEF CharInit, Places
    <3> QED BY <3>1, <3>2 DEF UseTypes
  <2>4. TsTypes
    <3>1. ts_status \in BOOLEAN /\ wrote \in BOOLEAN
      BY <1>1 DEF CharInit
    <3>2. touches \in 0 .. MaxTouches
      BY <1>1, CharAssumption DEF CharInit
    <3>3. carry \in [Procs -> SUBSET Touches]
      BY <1>1 DEF CharInit
    <3>4. /\ base \in {"null", "live", "dead"} /\ masked \subseteq Lines /\ unseen \subseteq Touches
      BY <1>1 DEF CharInit
    <3> QED BY <3>1, <3>2, <3>3, <3>4 DEF TsTypes
  <2>5. LedTypes
    BY <1>1 DEF CharInit, LedTypes
  <2>6. RestTypes
    BY <1>1 DEF CharInit, RestTypes
  <2> QED BY <2>2, <2>3, <2>4, <2>5, <2>6, TypeParts
<1>2. ASSUME CharTypeOK, [CharNext]_charVars PROVE CharTypeOK'
  <2>0. ModTypes /\ UseTypes /\ TsTypes /\ LedTypes /\ RestTypes
    BY <1>2, TypeParts
  <2>a. Len(InitSteps) \in Nat /\ at \in 0 .. Len(InitSteps)
    BY <2>0, DriverKnown, StepsAreSequences DEF ModTypes
  <2> SUFFICES ModTypes' /\ UseTypes' /\ TsTypes' /\ LedTypes' /\ RestTypes'
    BY DEF CharTypeOK, ModTypes, UseTypes, TsTypes, LedTypes, RestTypes
  <2>1. CASE UNCHANGED charVars
    BY <2>1, <2>0, TypesKept DEF charVars
  <2>2. CASE TakeNext
    <3>1. ModTypes'
      BY <2>2, <2>0, <2>a, ModTypesMove DEF TakeNext
    <3>2. RestTypes'
      BY <2>2, <2>0 DEF TakeNext, RestTypes
    <3> QED BY <2>2, <2>0, <3>1, <3>2, TypesKept DEF TakeNext
  <2>3. CASE Refuse
    <3>1. ModTypes'
      BY <2>3, <2>0, <2>a, ModTypesMove, ModTypesOops DEF Refuse
    <3>2. RestTypes'
      <4>1. running' = running /\ pin' = pin /\ refused' \in BOOLEAN
        BY <2>3 DEF Refuse
      <4> QED BY <4>1, <2>0 DEF RestTypes
    <3> QED BY <2>3, <2>0, <3>1, <3>2, TypesKept DEF Refuse
  <2>4. CASE Loaded \/ Rmmod \/ GiveBack
    <3>1. ModTypes'
      BY <2>4, <2>0, <2>a, ModTypesMove, ModTypesOops DEF Loaded, Rmmod, GiveBack, ModTypes
    <3> QED BY <2>4, <2>0, <3>1, TypesKept DEF Loaded, Rmmod, GiveBack
  <2>5. CASE Interrupt
    <3>1. ModTypes'
      BY <2>5, <2>0, ModTypesOops, TypesKept DEF Interrupt
    <3>2. TsTypes'
      <4>1. ts_status' \in BOOLEAN
        BY <2>5, <2>0 DEF Interrupt, TsTypes
      <4>2. touches' \in 0 .. MaxTouches /\ unseen' \subseteq Touches
        <5>1. CASE UNCHANGED << ts_status, touches, unseen >>
          BY <5>1, <2>0 DEF TsTypes
        <5>2. CASE touches < MaxTouches /\ touches' = touches + 1 /\ unseen' = unseen \cup {touches'}
          BY <5>2, <2>0, CharAssumption DEF TsTypes, Touches
        <5> QED BY <2>5, <5>1, <5>2 DEF Interrupt
      <4> QED BY <2>5, <2>0, <4>1, <4>2 DEF Interrupt, TsTypes
    <3> QED BY <2>5, <2>0, <3>1, <3>2, TypesKept DEF Interrupt
  <2>6. CASE TimerFun
    <3>1. ModTypes'
      BY <2>6, <2>0, <2>a, ModTypesMove, ModTypesOops DEF TimerFun, ModTypes
    <3>2. RestTypes'
      BY <2>6, <2>0 DEF TimerFun, RestTypes
    <3> QED BY <2>6, <2>0, <3>1, <3>2, TypesKept DEF TimerFun
  <2>7. ASSUME NEW p \in Procs, Call(p) PROVE ModTypes' /\ UseTypes' /\ TsTypes' /\ LedTypes' /\ RestTypes'
    <3>0. phase \in {"loading", "loaded", "failed", "unloading", "gone", "oops"}
      BY <2>0 DEF ModTypes
    <3>1. CASE CodeGone(p) \/ KeyRead(p)
      BY <3>1, <2>0, ModTypesOops, TypesKept DEF CodeGone, KeyRead
    <3>2. CASE Close(p)
      <4>1. UseTypes'
        BY <3>2, <2>0 DEF Close, Goto, UseTypes, Places
      <4> QED BY <3>2, <2>0, <4>1, TypesKept DEF Close
    <3>3. CASE Open(p)
      <4>1. ModTypes'
        BY <3>3, <2>0, ModTypesOops, TypesKept DEF Open
      <4>2. early' \in BOOLEAN
        BY <3>3, <2>0 DEF Open, Opening
      <4>3. UseTypes'
        BY <3>3, <2>0, <4>2, CharAssumption DEF Open, UseTypes, Places
      <4>4. RestTypes'
        BY <3>3, <2>0 DEF Open, RestTypes
      <4> QED BY <3>3, <2>0, <4>1, <4>3, <4>4, TypesKept DEF Open
    <3>4. CASE TsOpen(p)
      <4>1. CASE driver = "ts" /\ Opening(p) /\ TsMap("closed", "irq", p)
        <5>1. ModTypes' /\ LedTypes'
          BY <4>1, <2>0, TypesKept DEF TsMap
        <5>2. TsTypes'
          BY <4>1, <2>0 DEF TsMap, TsTypes
        <5>3. early' \in BOOLEAN /\ refused' \in BOOLEAN
          BY <4>1 DEF Opening, TsMap
        <5>4. UseTypes' /\ RestTypes'
          BY <4>1, <5>3, <2>0 DEF TsMap, UseTypes, RestTypes, Places
        <5> QED BY <5>1, <5>2, <5>4
      <4>2. CASE Present /\ pcs[p] = "again" /\ TsMap("again", "open", p) /\ UNCHANGED early
        <5>1. ModTypes' /\ LedTypes'
          BY <4>2, <2>0, TypesKept DEF TsMap
        <5>2. TsTypes'
          BY <4>2, <2>0 DEF TsMap, TsTypes
        <5>3. refused' \in BOOLEAN
          BY <4>2 DEF TsMap
        <5>4. UseTypes' /\ RestTypes'
          BY <4>2, <5>3, <2>0 DEF TsMap, UseTypes, RestTypes, Places
        <5> QED BY <5>1, <5>2, <5>4
      <4>3. CASE /\ Goto(p, "irq", "again") /\ own' = own \cup {"irq"}
                 /\ UNCHANGED << driver, smp, phase, at, undo, val, ppos, early, tsVars, ledVars, running, pin, refused >>
        <5>1. ModTypes'
          BY <4>3, <2>0, <2>a, <3>0, ModTypesMove
        <5>2. UseTypes'
          BY <4>3, <2>0 DEF Goto, UseTypes, Places
        <5> QED BY <4>3, <2>0, <5>1, <5>2, TypesKept
      <4>4. CASE /\ Goto(p, "irq", "open") /\ refused' = TRUE
                 /\ UNCHANGED << modVars, val, ppos, early, tsVars, ledVars, running, pin >>
        <5>1. UseTypes' /\ RestTypes'
          BY <4>4, <2>0 DEF Goto, UseTypes, RestTypes, Places
        <5> QED BY <4>4, <2>0, <5>1, TypesKept
      <4> QED BY <3>4, <4>1, <4>2, <4>3, <4>4 DEF TsOpen
    <3>5. CASE TsRead(p)
      <4>1. ModTypes' /\ LedTypes' /\ RestTypes'
        BY <3>5, <2>0, TypesKept DEF TsRead
      <4>2. UseTypes'
        BY <3>5, <2>0 DEF TsRead, Goto, UseTypes, Places
      <4>3. ts_status' \in BOOLEAN
        BY <3>5, <2>0 DEF TsRead, TsTypes
      <4>4. TsTypes'
        BY <3>5, <2>0, <4>3 DEF TsRead, TsTypes
      <4> QED BY <4>1, <4>2, <4>4
    <3>6. CASE TsWrite(p)
      <4>1. ModTypes'
        BY <3>6, <2>0, ModTypesOops, TypesKept DEF TsWrite
      <4>2. TsTypes'
        BY <3>6, <2>0 DEF TsWrite, TsTypes
      <4> QED BY <3>6, <2>0, <4>1, <4>2, TypesKept DEF TsWrite
    <3>7. CASE IoctlBegin(p)
      <4>1. UseTypes' /\ TsTypes'
        BY <3>7, <2>0 DEF IoctlBegin, Goto, UseTypes, TsTypes, Places
      <4> QED BY <3>7, <2>0, <4>1, TypesKept DEF IoctlBegin
    <3>8. CASE RegisterAccess(p)
      <4>1. ModTypes'
        BY <3>8, <2>0, ModTypesOops, TypesKept DEF RegisterAccess
      <4>2. UseTypes' /\ TsTypes'
        BY <3>8, <2>0 DEF RegisterAccess, Goto, UseTypes, TsTypes, Places
      <4> QED BY <3>8, <2>0, <4>1, <4>2, TypesKept DEF RegisterAccess
    <3>9. CASE Unmap(p)
      <4>1. UseTypes' /\ TsTypes'
        BY <3>9, <2>0 DEF Unmap, Goto, UseTypes, TsTypes, Places
      <4> QED BY <3>9, <2>0, <4>1, TypesKept DEF Unmap
    <3>10. CASE LedCopy(p)
      <4>1. UseTypes'
        BY <3>10, <2>0 DEF LedCopy, Goto, UseTypes, Places
      <4>2. overlap' \in BOOLEAN
        BY <3>10 DEF LedCopy
      <4>3. LedTypes'
        BY <3>10, <2>0, <4>2, CharAssumption DEF LedCopy, LedTypes, Commands, After, AllHigh
      <4> QED BY <3>10, <2>0, <4>1, <4>3, TypesKept DEF LedCopy
    <3>11. CASE LedTest(p)
      <4>1. UseTypes'
        BY <3>11, <2>0 DEF LedTest, Goto, UseTypes, LedTypes, Places
      <4> QED BY <3>11, <2>0, <4>1, TypesKept DEF LedTest
    <3>12. CASE LedLoad(p)
      <4>1. UseTypes'
        BY <3>12, <2>0 DEF LedLoad, Goto, UseTypes, Places
      <4>2. LedTypes'
        BY <3>12, <2>0 DEF LedLoad, LedTypes, Lit, AllOff, AllHigh
      <4> QED BY <3>12, <2>0, <4>1, <4>2, TypesKept DEF LedLoad
    <3>13. CASE LedStore(p)
      <4>1. UseTypes'
        BY <3>13, <2>0 DEF LedStore, Goto, UseTypes, Places
      <4>2. overlap' \in BOOLEAN
        BY <3>13 DEF LedStore
      <4>3. LedTypes'
        BY <3>13, <2>0, <4>2 DEF LedStore, LedTypes
      <4> QED BY <3>13, <2>0, <4>1, <4>3, TypesKept DEF LedStore
    <3>14. CASE Transfer(p)
      <4>1. PICK size \in 1 .. Size + 1 :
              LET count == Count(size, ppos[p]) IN
              IF ppos[p] >= Size THEN UNCHANGED << modVars, ppos >>
              ELSE \/ Usable(p) /\ ppos[p] + count <= Size /\ UNCHANGED modVars
                      /\ ppos' \in {ppos, [ppos EXCEPT ![p] = @ + count]}
                   \/ ~(Usable(p) /\ ppos[p] + count <= Size) /\ Oops /\ UNCHANGED ppos
        BY <3>14 DEF Transfer
      <4>2. UNCHANGED modVars \/ Oops
        BY <4>1
      <4>3. ppos' \in [Procs -> 0 .. Size]
        BY <4>1, <2>0, CharAssumption DEF UseTypes, Count
      <4>4. ModTypes' /\ UseTypes'
        BY <3>14, <4>2, <4>3, <2>0, ModTypesOops, TypesKept DEF Transfer, UseTypes
      <4> QED BY <3>14, <2>0, <4>4, TypesKept DEF Transfer
    <3>15. CASE Seek(p)
      <4>1. UseTypes'
        BY <3>15, <2>0 DEF Seek, UseTypes
      <4> QED BY <3>15, <2>0, <4>1, TypesKept DEF Seek
    <3> QED BY <2>7, <3>1, <3>2, <3>3, <3>4, <3>5, <3>6, <3>7, <3>8, <3>9, <3>10, <3>11, <3>12, <3>13,
               <3>14, <3>15 DEF Call
  <2> QED BY <1>2, <2>1, <2>2, <2>3, <2>4, <2>5, <2>6, <2>7 DEF CharNext, Module
<1> QED BY <1>1, <1>2, PTL DEF CharSpec

-----------------------------------------------------------------------------
(* No touch is forgotten before a read has returned it (ts_irq.c, ts_read  *)
(* and the interrupt handler), however many readers there are.             *)
THEOREM TouchesReported == CharSpec => []TouchReported
<1>1. CharInit => TouchReported
  BY DEF CharInit, TouchReported
<1>2. ASSUME CharTypeOK, TouchReported, [CharNext]_charVars PROVE TouchReported'
  <2>0. ts_status \in BOOLEAN /\ carry \in [Procs -> SUBSET Touches]
    BY <1>2 DEF CharTypeOK
  <2>1. UNCHANGED << ts_status, unseen, carry >> => TouchReported'
    BY <1>2 DEF TouchReported
  <2>2. UNCHANGED tsVars => TouchReported'
    BY <2>1 DEF tsVars
  <2>3. CASE UNCHANGED charVars
    BY <2>2, <2>3 DEF charVars
  <2>4. CASE Module \/ TimerFun
    BY <2>2, <2>4 DEF Module, TakeNext, Refuse, Loaded, Rmmod, GiveBack, TimerFun
  <2>5. CASE Interrupt
    <3>1. CASE ts_status' = TRUE
      BY <3>1 DEF TouchReported
    <3>2. CASE UNCHANGED << ts_status, unseen >>
      BY <2>1, <2>5, <3>2 DEF Interrupt
    <3> QED BY <2>5, <3>1, <3>2 DEF Interrupt
  <2>6. ASSUME NEW p \in Procs, Call(p) PROVE TouchReported'
    <3>1. CASE TsRead(p)
      <4>1. CASE UNCHANGED << ts_status, unseen, carry >>
        BY <2>1, <4>1
      <4>2. CASE carry' = [carry EXCEPT ![p] = unseen] /\ UNCHANGED unseen
        BY <4>2, <2>0 DEF TouchReported
      <4>3. CASE /\ unseen' = unseen \ carry[p] /\ carry' = [carry EXCEPT ![p] = {}]
                 /\ ts_status' = (ts_status /\ (ClearsAtOnce \/ val[p] = 0))
        <5> SUFFICES ASSUME NEW k \in unseen' PROVE ts_status' \/ \E q \in Procs : k \in carry'[q]
          BY DEF TouchReported
        <5>1. k \in unseen /\ k \notin carry[p]
          BY <4>3
        <5>2. ts_status => ts_status'
          BY <4>3 DEF ClearsAtOnce
        <5>3. ASSUME NEW q \in Procs, k \in carry[q] PROVE k \in carry'[q]
          BY <5>1, <5>3, <4>3, <2>0
        <5> QED BY <5>1, <5>2, <5>3, <1>2 DEF TouchReported
      <4> QED BY <3>1, <4>1, <4>2, <4>3 DEF TsRead
    <3>2. CASE ~TsRead(p)
      <4>1. UNCHANGED << ts_status, unseen, carry >>
        BY <2>6, <3>2 DEF Call, CodeGone, Open, KeyRead, Close, TsOpen, TsMap, TsWrite, IoctlBegin,
           RegisterAccess, Unmap, LedCopy, LedTest, LedLoad, LedStore, Transfer, Seek, tsVars
      <4> QED BY <4>1, <2>1
    <3> QED BY <3>1, <3>2
  <2> QED BY <1>2, <2>3, <2>4, <2>5, <2>6 DEF CharNext
<1> QED BY <1>1, <1>2, CharTypeCorrect, PTL DEF CharSpec

-----------------------------------------------------------------------------
(* What a module holds.  Stays is what no exit function gives back; Taken, *)
(* what its init has asked for by now.  While exit runs the module holds   *)
(* nothing but Stays and what exit has still to give back.                 *)

Memory == {"output", "data0", "data1"}
Stays ==
  CASE driver \in {"ts", "test"} -> {"irq"}
    [] driver = "hello" -> IF smp THEN {"timer"} ELSE {}
    [] OTHER -> {}
Taken == {InitSteps[i] : i \in 1 .. at}
Owed  == {undo[i] : i \in 1 .. Len(undo)}

OwnInv ==
  /\ \A p \in Procs : pcs[p] = "irq" => driver = "ts"
  /\ running => smp
  /\ undo \in Seq(Resources)
  /\ "irq2" \notin own
  /\ phase \in {"loading", "loaded"} => own \subseteq Taken \cup Stays
  /\ phase = "unloading" => own \ Memory \subseteq Owed \cup Stays
  /\ LeftBehind

\* What init asks for and exit gives back, as sets.
LEMMA TsInitSet == {TsInit[i] : i \in 1 .. Len(TsInit)} = {"chrdev", "class", "node"}
<1>1. Len(TsInit) = 3 /\ TsInit[1] = "chrdev" /\ TsInit[2] = "class" /\ TsInit[3] = "node"
  BY DEF TsInit
<1>2. 1 .. 3 = {1, 2, 3}
  OBVIOUS
<1> QED BY <1>1, <1>2
LEMMA TsExitSet == {TsExit[i] : i \in 1 .. Len(TsExit)} = {"node", "class", "chrdev"}
<1>1. Len(TsExit) = 3 /\ TsExit[1] = "node" /\ TsExit[2] = "class" /\ TsExit[3] = "chrdev"
  BY DEF TsExit
<1>2. 1 .. 3 = {1, 2, 3}
  OBVIOUS
<1> QED BY <1>1, <1>2
LEMMA TestInitSet == {TestInit[i] : i \in 1 .. Len(TestInit)} = {"chrdev", "class", "node", "map", "irq", "irq2"}
<1>1. Len(TestInit) = 6 /\ TestInit[1] = "chrdev" /\ TestInit[2] = "class" /\ TestInit[3] = "node" /\ TestInit[4] = "map" /\ TestInit[5] = "irq" /\ TestInit[6] = "irq2"
  BY DEF TestInit
<1>2. 1 .. 6 = {1, 2, 3, 4, 5, 6}
  OBVIOUS
<1> QED BY <1>1, <1>2
LEMMA TestExitSet == {TestExit[i] : i \in 1 .. Len(TestExit)} = {"chrdev", "node", "class", "map"}
<1>1. Len(TestExit) = 4 /\ TestExit[1] = "chrdev" /\ TestExit[2] = "node" /\ TestExit[3] = "class" /\ TestExit[4] = "map"
  BY DEF TestExit
<1>2. 1 .. 4 = {1, 2, 3, 4}
  OBVIOUS
<1> QED BY <1>1, <1>2
LEMMA LedInitSet == {LedInit[i] : i \in 1 .. Len(LedInit)} = {"region", "cdev", "class", "node", "map"}
<1>1. Len(LedInit) = 5 /\ LedInit[1] = "region" /\ LedInit[2] = "cdev" /\ LedInit[3] = "class" /\ LedInit[4] = "node" /\ LedInit[5] = "map"
  BY DEF LedInit
<1>2. 1 .. 5 = {1, 2, 3, 4, 5}
  OBVIOUS
<1> QED BY <1>1, <1>2
LEMMA LedExitSet == {LedExit[i] : i \in 1 .. Len(LedExit)} = {"region", "node", "class", "cdev", "map"}
<1>1. Len(LedExit) = 5 /\ LedExit[1] = "region" /\ LedExit[2] = "node" /\ LedExit[3] = "class" /\ LedExit[4] = "cdev" /\ LedExit[5] = "map"
  BY DEF LedExit
<1>2. 1 .. 5 = {1, 2, 3, 4, 5}
  OBVIOUS
<1> QED BY <1>1, <1>2
LEMMA MemdevInitSet == {MemdevInit[i] : i \in 1 .. Len(MemdevInit)} = {"region", "cdev", "devs", "data0", "data1"}
<1>1. Len(MemdevInit) = 5 /\ MemdevInit[1] = "region" /\ MemdevInit[2] = "cdev" /\ MemdevInit[3] = "devs" /\ MemdevInit[4] = "data0" /\ MemdevInit[5] = "data1"
  BY DEF MemdevInit
<1>2. 1 .. 5 = {1, 2, 3, 4, 5}
  OBVIOUS
<1> QED BY <1>1, <1>2
LEMMA MemdevExitSet == {MemdevExit[i] : i \in 1 .. Len(MemdevExit)} = {"cdev", "devs", "region"}
<1>1. Len(MemdevExit) = 3 /\ MemdevExit[1] = "cdev" /\ MemdevExit[2] = "devs" /\ MemdevExit[3] = "region"
  BY DEF MemdevExit
<1>2. 1 .. 3 = {1, 2, 3}
  OBVIOUS
<1> QED BY <1>1, <1>2
LEMMA ResetInitSet == {ResetInit[i] : i \in 1 .. Len(ResetInit)} = {"chrdev", "class", "node", "gpio", "output"}
<1>1. Len(ResetInit) = 5 /\ ResetInit[1] = "chrdev" /\ ResetInit[2] = "class" /\ ResetInit[3] = "node" /\ ResetInit[4] = "gpio" /\ ResetInit[5] = "output"
  BY DEF ResetInit
<1>2. 1 .. 5 = {1, 2, 3, 4, 5}
  OBVIOUS
<1> QED BY <1>1, <1>2
LEMMA ResetExitSet == {ResetExit[i] : i \in 1 .. Len(ResetExit)} = {"chrdev", "node", "class", "gpio"}
<1>1. Len(ResetExit) = 4 /\ ResetExit[1] = "chrdev" /\ ResetExit[2] = "node" /\ ResetExit[3] = "class" /\ ResetExit[4] = "gpio"
  BY DEF ResetExit
<1>2. 1 .. 4 = {1, 2, 3, 4}
  OBVIOUS
<1> QED BY <1>1, <1>2

LEMMA ExitGivesBack ==
  ASSUME driver \in AllDrivers
  PROVE  {InitSteps[i] : i \in 1 .. Len(InitSteps)} \ Memory
           \subseteq {ExitSteps[i] : i \in 1 .. Len(ExitSteps)} \cup Stays \cup {"irq2"}
<1>1. CASE driver = "ts"
  <2>1. InitSteps = TsInit /\ ExitSteps = TsExit
    BY <1>1, StepsOf
  <2>2. {InitSteps[i] : i \in 1 .. Len(InitSteps)} = {"chrdev", "class", "node"}
    BY <2>1, TsInitSet
  <2>3. {ExitSteps[i] : i \in 1 .. Len(ExitSteps)} = {"node", "class", "chrdev"}
    BY <2>1, TsExitSet
  <2> HIDE <2>1
  <2> QED BY <2>2, <2>3
<1>2. CASE driver = "hello"
  BY <1>2, StepsOf DEF HelloInit, HelloExit, Stays, Memory
<1>3. CASE driver = "test"
  <2>1. InitSteps = TestInit /\ ExitSteps = TestExit
    BY <1>3, StepsOf
  <2>2. {InitSteps[i] : i \in 1 .. Len(InitSteps)} = {"chrdev", "class", "node", "map", "irq", "irq2"}
    BY <2>1, TestInitSet
  <2>3. {ExitSteps[i] : i \in 1 .. Len(ExitSteps)} = {"chrdev", "node", "class", "map"}
    BY <2>1, TestExitSet
  <2>4. Stays = {"irq"}
    BY <1>3 DEF Stays
  <2> HIDE <2>1
  <2> QED BY <2>2, <2>3, <2>4 DEF Memory
<1>4. CASE driver = "led"
  <2>1. InitSteps = LedInit /\ ExitSteps = LedExit
    BY <1>4, StepsOf
  <2>2. {InitSteps[i] : i \in 1 .. Len(InitSteps)} = {"region", "cdev", "class", "node", "map"}
    BY <2>1, LedInitSet
  <2>3. {ExitSteps[i] : i \in 1 .. Len(ExitSteps)} = {"region", "node", "class", "cdev", "map"}
    BY <2>1, LedExitSet
  <2> HIDE <2>1
  <2> QED BY <2>2, <2>3
<1>5. CASE driver = "memdev"
  BY <1>5, StepsOf, MemdevInitSet, MemdevExitSet DEF Stays, Memory
<1>6. CASE driver = "reset"
  <2>1. InitSteps = ResetInit /\ ExitSteps = ResetExit
    BY <1>6, StepsOf
  <2>2. {InitSteps[i] : i \in 1 .. Len(InitSteps)} = {"chrdev", "class", "node", "gpio", "output"}
    BY <2>1, ResetInitSet
  <2>3. {ExitSteps[i] : i \in 1 .. Len(ExitSteps)} = {"chrdev", "node", "class", "gpio"}
    BY <2>1, ResetExitSet
  <2>4. Stays = {}
    BY <1>6 DEF Stays
  <2> HIDE <2>1
  <2> QED BY <2>2, <2>3, <2>4 DEF Memory
<1> QED BY <1>1, <1>2, <1>3, <1>4, <1>5, <1>6 DEF AllDrivers

\* Most steps take nothing but what stays anyway.
LEMMA OwnKept ==
  ASSUME OwnInv, driver' = driver, smp' = smp, at' = at, undo' = undo, phase' \in {phase, "oops"},
         own' \subseteq own \cup Stays, Left => own' \subseteq own, running' => smp,
         \A p \in Procs : pcs'[p] = "irq" => driver = "ts"
  PROVE  OwnInv'
<1>1. Taken' = Taken /\ Owed' = Owed /\ Stays' = Stays
  BY DEF Taken, Owed, Stays, InitSteps
<1>2. "irq2" \notin own'
  BY DEF OwnInv, Stays
<1>3. LeftBehind'
  BY DEF OwnInv, LeftBehind, Left
<1>4. phase' \in {"loading", "loaded"} => own' \subseteq Taken' \cup Stays'
  BY <1>1 DEF OwnInv
<1>5. phase' = "unloading" => own' \ Memory \subseteq Owed' \cup Stays'
  BY <1>1 DEF OwnInv
<1> QED BY <1>2, <1>3, <1>4, <1>5 DEF OwnInv

\* The step that is refused tells how far init is.
LEMMA WhereRefused ==
  ASSUME driver \in AllDrivers, at \in 0 .. Len(InitSteps) - 1, Wanted \in ReturnsFor
  PROVE  /\ driver \in {"ts", "test", "led", "memdev"}
         /\ driver = "ts" => Taken = {"chrdev"} /\ Wanted = "class"
         /\ driver = "led" => Taken \subseteq {"region"}
         /\ driver = "memdev" => Taken \subseteq {"region", "cdev"}
<1>1. driver \in {"ts", "test", "led", "memdev"}
  BY DEF AllDrivers, ReturnsFor
<1>2. ASSUME driver = "ts" PROVE Taken = {"chrdev"} /\ Wanted = "class"
  <2>1. InitSteps = TsInit
    BY <1>2, StepsOf
  <2>2. Wanted = "class" /\ Wanted = TsInit[at + 1] /\ at \in 0 .. 2
    BY <1>2, <2>1 DEF ReturnsFor, Wanted, TsInit
  <2>3. TsInit[1] = "chrdev" /\ TsInit[2] = "class" /\ TsInit[3] = "node"
    BY DEF TsInit
  <2>4. at = 1
    BY <2>2, <2>3
  <2> QED BY <2>1, <2>2, <2>3, <2>4 DEF Taken
<1>3. ASSUME driver = "led" PROVE Taken \subseteq {"region"}
  <2>1. InitSteps = LedInit
    BY <1>3, StepsOf
  <2>2. Wanted \in {"region", "cdev"} /\ Wanted = LedInit[at + 1] /\ at \in 0 .. 4
    BY <1>3, <2>1 DEF ReturnsFor, Wanted, LedInit
  <2>3. /\ LedInit[1] = "region" /\ LedInit[2] = "cdev" /\ LedInit[3] = "class"
        /\ LedInit[4] = "node" /\ LedInit[5] = "map"
    BY DEF LedInit
  <2>4. at \in {0, 1}
    BY <2>2, <2>3
  <2> QED BY <2>1, <2>3, <2>4 DEF Taken
<1>4. ASSUME driver = "memdev" PROVE Taken \subseteq {"region", "cdev"}
  <2>1. InitSteps = MemdevInit
    BY <1>4, StepsOf
  <2>2. Wanted \in {"region", "devs"} /\ Wanted = MemdevInit[at + 1] /\ at \in 0 .. 4
    BY <1>4, <2>1 DEF ReturnsFor, Wanted, MemdevInit
  <2>3. /\ MemdevInit[1] = "region" /\ MemdevInit[2] = "cdev" /\ MemdevInit[3] = "devs"
        /\ MemdevInit[4] = "data0" /\ MemdevInit[5] = "data1"
    BY DEF MemdevInit
  <2>4. at \in {0, 1, 2}
    BY <2>2, <2>3
  <2> QED BY <2>1, <2>3, <2>4 DEF Taken
<1> QED BY <1>1, <1>2, <1>3, <1>4

LEMMA Irq2IsTest ==
  ASSUME driver \in AllDrivers, NEW i \in 1 .. Len(InitSteps), InitSteps[i] = "irq2"
  PROVE  driver = "test"
<1>1. driver = "ts" => InitSteps[i] \in {"chrdev", "class", "node"}
  BY StepsOf, TsInitSet
<1>2. driver = "hello" => InitSteps[i] = "timer"
  <2>1. HelloInit = << "timer" >> /\ Len(HelloInit) = 1 /\ HelloInit[1] = "timer"
    BY DEF HelloInit
  <2>2. ASSUME driver = "hello" PROVE InitSteps[i] = "timer"
    <3>1. InitSteps = HelloInit
      BY <2>2, StepsOf
    <3>2. i = 1
      BY <2>1, <3>1
    <3> QED BY <2>1, <3>1, <3>2
  <2> QED BY <2>2
<1>3. driver = "led" => InitSteps[i] \in {"region", "cdev", "class", "node", "map"}
  BY StepsOf, LedInitSet
<1>4. driver = "memdev" => InitSteps[i] \in {"region", "cdev", "devs", "data0", "data1"}
  BY StepsOf, MemdevInitSet
<1>5. driver = "reset" => InitSteps[i] \in {"chrdev", "class", "node", "gpio", "output"}
  BY StepsOf, ResetInitSet
<1> QED BY <1>1, <1>2, <1>3, <1>4, <1>5 DEF AllDrivers

(* While a module is loaded it holds what its init took, while it is       *)
(* removed what its exit still owes (the init and exit functions).         *)
THEOREM Ownership == CharSpec => []OwnInv
<1>1. ASSUME CharInit PROVE OwnInv
  BY <1>1 DEF CharInit, OwnInv, LeftBehind, Left, Memory
<1>2. ASSUME CharTypeOK, OwnInv, [CharNext]_charVars PROVE OwnInv'
  <2>1. driver \in AllDrivers
    BY <1>2, DriverKnown DEF CharTypeOK
  <2>2. at \in 0 .. Len(InitSteps) /\ Len(InitSteps) \in Nat
    BY <1>2, <2>1, StepsAreSequences DEF CharTypeOK
  <2>3. pcs \in [Procs -> Places]
    BY <1>2 DEF CharTypeOK
  <2>4. /\ \A p \in Procs : pcs[p] = "irq" => driver = "ts"
        /\ running => smp
    BY <1>2 DEF OwnInv
  <2>5. ASSUME driver' = driver, smp' = smp PROVE InitSteps' = InitSteps /\ Stays' = Stays
    BY <2>5 DEF InitSteps, Stays
  <2>6. UNCHANGED modVars \/ Oops => /\ driver' = driver /\ smp' = smp /\ at' = at /\ undo' = undo
                                     /\ own' = own /\ phase' \in {phase, "oops"}
    BY DEF modVars, Oops
  <2>7. CASE UNCHANGED charVars
    BY <2>7, <2>4, <2>6, <1>2, OwnKept DEF charVars, useVars
  <2>8. CASE TakeNext
    <3>1. /\ driver' = driver /\ smp' = smp /\ phase' = phase /\ phase = "loading" /\ undo' = undo
          /\ at' = at + 1 /\ at < Len(InitSteps) /\ own' = own \cup {Acquired(Wanted)}
          /\ running' = running /\ pcs' = pcs
      BY <2>8 DEF TakeNext, useVars
    <3>2. Taken \subseteq Taken' /\ Wanted \in Taken' /\ Stays' = Stays
      BY <3>1, <2>2, <2>5 DEF Taken, Wanted
    <3>3. Acquired(Wanted) \in Taken' \cup Stays /\ Acquired(Wanted) # "irq2"
      <4>1. CASE Wanted = "irq2"
        <5>1. driver = "test"
          BY <4>1, <3>1, <2>1, <2>2, Irq2IsTest DEF Wanted
        <5> QED BY <4>1, <5>1 DEF Acquired, Stays
      <4>2. CASE Wanted # "irq2"
        BY <4>2, <3>2 DEF Acquired
      <4> QED BY <4>1, <4>2
    <3>4. own' \subseteq Taken' \cup Stays' /\ "irq2" \notin own'
      BY <3>1, <3>2, <3>3, <1>2 DEF OwnInv
    <3> QED BY <3>1, <3>4, <1>2 DEF OwnInv, LeftBehind, Left
  <2>9. CASE Refuse
    <3>1. running' = running /\ pcs' = pcs /\ phase = "loading" /\ at < Len(InitSteps)
      BY <2>9 DEF Refuse, useVars
    <3>2. own \subseteq Taken \cup Stays
      BY <1>2, <3>1 DEF OwnInv
    <3>3. CASE /\ Wanted \in ReturnsFor /\ phase' = "failed" /\ own' = own \ Undone(Wanted)
               /\ UNCHANGED << driver, smp, at, undo >>
      <4>1. at \in 0 .. Len(InitSteps) - 1
        BY <2>2, <3>1
      <4>2. LeftBehind'
        <5>1. CASE driver = "ts"
          <6>1. own' \subseteq {"irq"}
            BY <5>1, <3>2, <3>3, <4>1, <2>1, WhereRefused DEF Undone, Stays
          <6> QED BY <6>1, <5>1, <3>3 DEF LeftBehind
        <5>2. CASE driver = "test"
          BY <5>2, <3>3 DEF LeftBehind
        <5>3. CASE driver = "led"
          <6>1. own' \subseteq {"region"}
            BY <5>3, <3>2, <3>3, <4>1, <2>1, WhereRefused DEF Undone, Stays
          <6> QED BY <6>1, <5>3, <3>3 DEF LeftBehind
        <5>4. CASE driver = "memdev"
          <6>1. own' \subseteq {"region", "cdev"}
            BY <5>4, <3>2, <3>3, <4>1, <2>1, WhereRefused DEF Undone, Stays
          <6> QED BY <6>1, <5>4, <3>3 DEF LeftBehind
        <5> QED BY <5>1, <5>2, <5>3, <5>4, <4>1, <3>3, <2>1, WhereRefused
      <4> QED BY <4>2, <3>1, <3>3, <1>2 DEF OwnInv
    <3>4. CASE Oops
      BY <3>4, <3>1, <2>4, <2>6, <1>2, OwnKept
    <3>5. CASE at' = at + 1 /\ UNCHANGED << driver, smp, phase, undo, own >>
      <4>1. Taken \subseteq Taken' /\ Stays' = Stays
        BY <3>5, <2>2, <2>5 DEF Taken
      <4> QED BY <4>1, <3>1, <3>2, <3>5, <1>2 DEF OwnInv, LeftBehind, Left
    <3> QED BY <2>9, <3>3, <3>4, <3>5 DEF Refuse
  <2>10. CASE Loaded
    <3>1. /\ running' = running /\ pcs' = pcs /\ phase = "loading" /\ phase' = "loaded"
          /\ driver' = driver /\ smp' = smp /\ at' = at /\ undo' = undo /\ own' = own
      BY <2>10 DEF Loaded, useVars
    <3>2. Taken' = Taken /\ Stays' = Stays
      BY <3>1, <2>5 DEF Taken
    <3> QED BY <3>1, <3>2, <1>2 DEF OwnInv, LeftBehind, Left
  <2>11. CASE Rmmod
    <3>1. /\ running' = running /\ pcs' = pcs /\ phase = "loaded" /\ phase' = "unloading"
          /\ driver' = driver /\ smp' = smp /\ at' = at /\ undo' = ExitSteps /\ own' = own
      BY <2>11 DEF Rmmod, useVars
    <3>2. Taken \subseteq {InitSteps[i] : i \in 1 .. Len(InitSteps)}
      BY <2>2 DEF Taken
    <3>3. Owed' = {ExitSteps[i] : i \in 1 .. Len(ExitSteps)} /\ Stays' = Stays
      BY <3>1, <2>5 DEF Owed
    <3>4. own' \ Memory \subseteq Owed' \cup Stays'
      BY <3>1, <3>2, <3>3, <2>1, <1>2, ExitGivesBack DEF OwnInv
    <3>5. undo' \in Seq(Resources)
      BY <3>1, <2>1, StepsAreSequences
    <3> QED BY <3>1, <3>4, <3>5, <1>2 DEF OwnInv, LeftBehind, Left
  <2>12. CASE GiveBack
    <3>1. running' = running /\ pcs' = pcs /\ phase = "unloading"
      BY <2>12 DEF GiveBack, useVars
    <3>2. own \ Memory \subseteq Owed \cup Stays /\ undo \in Seq(Resources)
      BY <1>2, <3>1 DEF OwnInv
    <3>3. CASE undo = << >> /\ phase' = "gone" /\ UNCHANGED << driver, smp, at, undo, own >>
      <4>1. own' \ Memory \subseteq Stays
        BY <3>2, <3>3 DEF Owed
      <4>2. LeftBehind'
        BY <4>1, <3>3, <2>1 DEF LeftBehind, Stays, Memory, AllDrivers
      <4> QED BY <4>2, <3>1, <3>3, <1>2 DEF OwnInv
    <3>4. CASE Oops
      BY <3>4, <3>1, <2>4, <2>6, <1>2, OwnKept
    <3>5. CASE /\ undo # << >> /\ own' = own \ {Head(undo)} /\ undo' = Tail(undo)
               /\ UNCHANGED << driver, smp, phase, at >>
      <4>1. undo' \in Seq(Resources)
        BY <3>2, <3>5
      <4>2. Owed \subseteq Owed' \cup {Head(undo)}
        <5> SUFFICES ASSUME NEW i \in 1 .. Len(undo), i # 1 PROVE undo[i] \in Owed'
          BY <3>2, <3>5 DEF Owed
        <5>1. i - 1 \in 1 .. Len(undo') /\ undo'[i - 1] = undo[i]
          BY <3>2, <3>5
        <5> QED BY <5>1 DEF Owed
      <4>3. own' \ Memory \subseteq Owed' \cup Stays'
        BY <4>2, <3>2, <3>5, <2>5
      <4> QED BY <4>1, <4>3, <3>1, <3>5, <1>2 DEF OwnInv, LeftBehind, Left
    <3> QED BY <2>12, <3>3, <3>4, <3>5 DEF GiveBack
  <2>13. CASE Interrupt
    <3>1. running' = running /\ pcs' = pcs /\ (UNCHANGED modVars \/ Oops)
      BY <2>13 DEF Interrupt, useVars
    <3> QED BY <3>1, <2>4, <2>6, <1>2, OwnKept
  <2>14. CASE TimerFun
    <3>1. pcs' = pcs
      BY <2>14 DEF TimerFun, useVars
    <3>2. CASE Left /\ Oops /\ UNCHANGED running
      BY <3>1, <3>2, <2>4, <2>6, <1>2, OwnKept
    <3>3. CASE Present
      <4>1. /\ driver = "hello" /\ Present /\ driver' = driver /\ smp' = smp /\ phase' = phase /\ at' = at
            /\ undo' = undo /\ own' \subseteq own \cup {"timer"} /\ smp = TRUE
        BY <2>14, <3>3, <2>4, <1>2 DEF TimerFun, CharTypeOK, Present, Left
      <4>2. own' \subseteq own \cup Stays /\ ~Left
        BY <4>1 DEF Stays, Left, Present
      <4> QED BY <4>1, <4>2, <3>1, <2>4, <1>2, OwnKept
    <3> QED BY <2>14, <3>2, <3>3 DEF TimerFun
  <2>15. ASSUME NEW p \in Procs, Call(p) PROVE OwnInv'
    <3>1. running' = running
      BY <2>15 DEF Call, CodeGone, Open, KeyRead, Close, TsOpen, TsMap, TsRead, TsWrite, IoctlBegin,
         RegisterAccess, Unmap, LedCopy, LedTest, LedLoad, LedStore, Transfer, Seek
    <3>2. CASE TsOpen(p)
      <4>1. \A q \in Procs : pcs'[q] = "irq" => driver = "ts"
        BY <3>2, <2>3, <2>4 DEF TsOpen, TsMap, Goto
      <4>2. CASE Goto(p, "irq", "again") /\ own' = own \cup {"irq"} /\ UNCHANGED << driver, smp, phase, at, undo >>
        <5>1. Stays = {"irq"} /\ ~Left
          BY <4>2, <2>4 DEF Stays, Goto, Present, Left
        <5> QED BY <4>1, <4>2, <5>1, <3>1, <2>4, <1>2, OwnKept
      <4>3. CASE UNCHANGED modVars
        BY <4>1, <4>3, <3>1, <2>4, <2>6, <1>2, OwnKept
      <4> QED BY <3>2, <4>2, <4>3 DEF TsOpen, TsMap
    <3>3. CASE ~TsOpen(p)
      <4>1. UNCHANGED modVars \/ Oops
        BY <2>15, <3>3 DEF Call, CodeGone, Open, KeyRead, Close, TsRead, TsWrite, IoctlBegin,
           RegisterAccess, Unmap, LedCopy, LedTest, LedLoad, LedStore, Transfer, Seek
      <4>2. pcs' = pcs \/ \E to \in Places \ {"irq"} : pcs' = [pcs EXCEPT ![p] = to]
        BY <2>15, <3>3 DEF Call, CodeGone, Open, KeyRead, Close, TsRead, TsWrite, IoctlBegin,
           RegisterAccess, Unmap, LedCopy, LedTest, LedLoad, LedStore, Transfer, Seek, useVars, Goto, Places
      <4>3. \A q \in Procs : pcs'[q] = "irq" => driver = "ts"
        BY <4>2, <2>3, <2>4
      <4> QED BY <4>1, <4>3, <3>1, <2>4, <2>6, <1>2, OwnKept
    <3> QED BY <3>2, <3>3
  <2> QED BY <1>2, <2>7, <2>8, <2>9, <2>10, <2>11, <2>12, <2>13, <2>14, <2>15 DEF CharNext, Module
<1> QED BY <1>1, <1>2, CharTypeCorrect, PTL DEF CharSpec

(* What each driver leaves behind, after its exit or a failed init, is     *)
(* exactly bounded (LeftBehind), with any resources refused and any number *)
(* of processes that use the device.                                       *)
THEOREM LeftBehindBounded == CharSpec => []LeftBehind
<1>1. OwnInv => LeftBehind
  BY DEF OwnInv
<1> QED BY <1>1, Ownership, PTL

-----------------------------------------------------------------------------
(* The lamps of led and the pin of reset.  Where a single process writes,  *)
(* what it is about to store is what was commanded.                        *)

LampInv ==
  ~overlap =>
    /\ \A p, q \in Procs : Writing(p) /\ Writing(q) => p = q
    /\ (\A p \in Procs : ~Writing(p)) => gpfdat = want
    /\ \A p \in Procs :
         /\ Writing(p) => want = After(gpfdat, ker_i)
         /\ pcs[p] = "on" => ker_i # 0 /\ val[p] = ker_i
         /\ pcs[p] = "off" => ker_i = 0
         /\ pcs[p] = "change" => port[p] = want

PinInv ==
  driver = "reset" /\ ~early =>
    /\ phase = "loading" => \A p \in Procs : Closed(p)
    /\ phase = "loaded" /\ (\E p \in Procs : ~Closed(p)) => pin = 1

\* A step of one process that neither writes before nor after it.
LEMMA LampKept ==
  ASSUME LampInv, UNCHANGED ledVars, NEW p \in Procs, ~Writing(p), pcs \in [Procs -> Places],
         val \in [Procs -> Nat], pcs' \in [Procs -> Places],
         pcs'[p] \notin {"test", "on", "off", "change"},
         \A q \in Procs \ {p} : pcs'[q] = pcs[q] /\ val'[q] = val[q]
  PROVE  LampInv'
<1>1. \A q \in Procs : Writing(q)' <=> Writing(q)
  BY DEF Writing
<1>2. \A q \in Procs : Writing(q) => pcs'[q] = pcs[q] /\ val'[q] = val[q]
  OBVIOUS
<1>3. ker_i' = ker_i /\ gpfdat' = gpfdat /\ want' = want /\ overlap' = overlap /\ port' = port
  BY DEF ledVars
<1>4. \A q \in Procs : pcs[q] \in {"on", "off", "change"} <=> pcs'[q] \in {"on", "off", "change"}
  BY DEF Writing
<1> QED BY <1>1, <1>2, <1>3, <1>4 DEF LampInv, Writing, After

LEMMA LampStep ==
  ASSUME CharTypeOK, CharTypeOK', LampInv, [CharNext]_charVars PROVE LampInv'
<1>0. /\ pcs \in [Procs -> Places] /\ val \in [Procs -> Nat] /\ port \in [Procs -> SUBSET AllHigh]
      /\ pcs' \in [Procs -> Places] /\ overlap \in BOOLEAN /\ gpfdat \subseteq AllHigh /\ ker_i \in Nat
  BY DEF CharTypeOK
<1>1. CASE UNCHANGED << ledVars, pcs, val >>
  BY <1>1 DEF LampInv, ledVars, Writing, After
<1>2. CASE UNCHANGED charVars \/ Module \/ Interrupt \/ TimerFun
  BY <1>1, <1>2 DEF charVars, useVars, Module, TakeNext, Refuse, Loaded, Rmmod, GiveBack, Interrupt, TimerFun
<1>3. ASSUME NEW p \in Procs, Call(p) PROVE LampInv'
  <2>1. CASE Open(p) \/ Close(p) \/ TsOpen(p) \/ TsRead(p) \/ IoctlBegin(p) \/ Unmap(p)
             \/ (RegisterAccess(p) /\ pcs' # pcs)
    <3>1. UNCHANGED ledVars
      BY <2>1 DEF Open, Close, TsOpen, TsMap, TsRead, IoctlBegin, RegisterAccess, Unmap
    <3>2. CASE UNCHANGED << pcs, val >>
      BY <3>1, <3>2, <1>1
    <3>3. CASE ~UNCHANGED << pcs, val >>
      <4>1. pcs[p] \notin {"test", "on", "off", "change"} /\ pcs'[p] \notin {"test", "on", "off", "change"}
        BY <2>1, <3>3, <1>0 DEF Open, Opening, Closed, Close, TsOpen, TsMap, TsRead, IoctlBegin, RegisterAccess,
           Unmap, Goto
      <4>2. \A q \in Procs \ {p} : pcs'[q] = pcs[q] /\ val'[q] = val[q]
        BY <2>1, <1>0 DEF Open, Close, TsOpen, TsMap, TsRead, IoctlBegin, RegisterAccess, Unmap, Goto
      <4> QED BY <3>1, <4>1, <4>2, <1>0, LampKept DEF Writing
    <3> QED BY <3>2, <3>3
  <2>2. CASE CodeGone(p) \/ KeyRead(p) \/ TsWrite(p) \/ (RegisterAccess(p) /\ pcs' = pcs) \/ Transfer(p) \/ Seek(p)
    BY <2>2, <1>1 DEF CodeGone, KeyRead, TsWrite, RegisterAccess, Transfer, Seek, useVars
  <2>3. CASE LedCopy(p)
    <3>1. CASE overlap'
      BY <3>1 DEF LampInv
    <3>2. CASE ~overlap'
      <4>1. ~overlap /\ \A q \in Procs \ {p} : ~Writing(q)
        BY <2>3, <3>2 DEF LedCopy, OthersWrite
      <4>2. pcs[p] = "open" /\ pcs' = [pcs EXCEPT ![p] = "test"] /\ gpfdat' = gpfdat
            /\ want' = After(want, ker_i')
        BY <2>3 DEF LedCopy, Goto
      <4>3. want = gpfdat
        BY <4>1, <4>2 DEF LampInv, Writing
      <4>4. \A q \in Procs : Writing(q)' => q = p
        BY <4>1, <4>2, <1>0 DEF Writing
      <4>5. pcs'[p] = "test" /\ want' = After(gpfdat', ker_i')
        BY <4>2, <4>3, <1>0
      <4>6. Writing(p)'
        BY <4>5 DEF Writing
      <4>7. want' = After(gpfdat, ker_i)'
        BY <4>5 DEF After
      <4>8. \A q \in Procs : pcs'[q] \notin {"on", "off", "change"}
        BY <4>4, <4>5 DEF Writing
      <4> QED BY <4>4, <4>6, <4>7, <4>8 DEF LampInv
    <3> QED BY <3>1, <3>2
  <2>4. CASE LedTest(p)
    <3>1. /\ pcs[p] = "test" /\ pcs' = [pcs EXCEPT ![p] = IF ker_i # 0 THEN "on" ELSE "off"]
          /\ val' = [val EXCEPT ![p] = ker_i] /\ UNCHANGED ledVars
      BY <2>4 DEF LedTest, Goto
    <3>2. UNCHANGED << ker_i, gpfdat, want, overlap, port >>
      BY <3>1 DEF ledVars
    <3>3. \A q \in Procs : Writing(q)' <=> Writing(q)
      BY <3>1, <1>0 DEF Writing
    <3>4. pcs'[p] = (IF ker_i # 0 THEN "on" ELSE "off") /\ val'[p] = ker_i
      BY <3>1, <1>0
    <3>5. \A q \in Procs \ {p} : pcs'[q] = pcs[q] /\ val'[q] = val[q]
      BY <3>1, <1>0
    <3> QED BY <3>2, <3>3, <3>4, <3>5 DEF LampInv, After
  <2>5. CASE LedLoad(p)
    <3>1. /\ pcs[p] \in {"on", "off"} /\ pcs' = [pcs EXCEPT ![p] = "change"]
          /\ UNCHANGED << val, ker_i, gpfdat, want, overlap >>
      BY <2>5 DEF LedLoad, Goto
    <3>2. \A q \in Procs : Writing(q)' <=> Writing(q)
      BY <3>1, <1>0 DEF Writing
    <3>3. \A q \in Procs \ {p} : pcs'[q] = pcs[q] /\ port'[q] = port[q]
      BY <2>5, <3>1, <1>0 DEF LedLoad
    <3>4. ~overlap => port'[p] = want
      <4>1. CASE pcs[p] = "on"
        BY <2>5, <4>1, <1>0 DEF LedLoad, Goto, LampInv, Writing, After, Lit
      <4>2. CASE pcs[p] = "off"
        BY <2>5, <4>2, <1>0 DEF LedLoad, Goto, LampInv, Writing, After, AllOff
      <4> QED BY <3>1, <4>1, <4>2
    <3>5. pcs'[p] = "change"
      BY <3>1, <1>0
    <3> QED BY <3>1, <3>2, <3>3, <3>4, <3>5 DEF LampInv, After
  <2>6. CASE LedStore(p)
    <3>1. /\ pcs[p] = "change" /\ pcs' = [pcs EXCEPT ![p] = "open"] /\ gpfdat' = port[p]
          /\ overlap' = (overlap /\ OthersWrite(p))
          /\ want' = IF overlap /\ ~overlap' THEN gpfdat' ELSE want
      BY <2>6 DEF LedStore, Goto
    <3>2. \A q \in Procs : Writing(q)' => q # p /\ Writing(q)
      BY <3>1, <1>0 DEF Writing
    <3>3. ~overlap' => (\A q \in Procs : ~Writing(q)') /\ gpfdat' = want'
      BY <3>1, <3>2, <1>0 DEF LampInv, OthersWrite, Writing
    <3>4. \A q \in Procs : ~Writing(q)' => pcs'[q] \notin {"on", "off", "change"}
      BY DEF Writing
    <3> QED BY <3>3, <3>4 DEF LampInv
  <2> QED BY <1>3, <2>1, <2>2, <2>3, <2>4, <2>5, <2>6 DEF Call
<1> QED BY <1>2, <1>3 DEF CharNext

LEMMA PinStep ==
  ASSUME CharTypeOK, PinInv, [CharNext]_charVars PROVE PinInv'
<1>0. pcs \in [Procs -> Places] /\ early \in BOOLEAN
  BY DEF CharTypeOK
<1>1. CASE UNCHANGED << driver, early, pcs, pin >> /\ phase' \in {phase, "failed", "unloading", "gone", "oops"}
  BY <1>1 DEF PinInv, Closed
<1>2. CASE UNCHANGED charVars \/ Refuse \/ Rmmod \/ GiveBack \/ Interrupt \/ TimerFun
  BY <1>1, <1>2 DEF charVars, modVars, useVars, Refuse, Rmmod, GiveBack, Interrupt, TimerFun, Oops
<1>3. CASE TakeNext
  BY <1>3 DEF TakeNext, useVars, PinInv, Closed
<1>4. CASE Loaded
  BY <1>4 DEF Loaded, useVars, PinInv, Closed
<1>5. ASSUME NEW p \in Procs, Call(p) PROVE PinInv'
  <2>1. CASE Open(p)
    BY <2>1, <1>0 DEF Open, Opening, Oops, modVars, PinInv, Closed
  <2>2. CASE TsOpen(p) /\ driver = "ts"
    BY <2>2 DEF TsOpen, TsMap, modVars, PinInv
  <2>3. CASE CodeGone(p) \/ KeyRead(p) \/ TsWrite(p) \/ Transfer(p) \/ Seek(p)
    BY <2>3, <1>1 DEF CodeGone, KeyRead, TsWrite, Transfer, Seek, useVars, modVars, Oops
  <2>4. CASE (TsOpen(p) /\ driver # "ts") \/ Close(p) \/ TsRead(p) \/ IoctlBegin(p) \/ RegisterAccess(p) \/ Unmap(p)
             \/ LedCopy(p) \/ LedTest(p) \/ LedLoad(p) \/ LedStore(p)
    <3>1. UNCHANGED << driver, early, pin >> /\ phase' \in {phase, "oops"}
      BY <2>4 DEF TsOpen, TsMap, Close, TsRead, IoctlBegin, RegisterAccess, Unmap, LedCopy, LedTest, LedLoad,
         LedStore, modVars, Oops
    <3>2. \A q \in Procs : Closed(q) => Closed(q)'
      BY <2>4, <1>0 DEF TsOpen, TsMap, Close, TsRead, IoctlBegin, RegisterAccess, Unmap, LedCopy, LedTest, LedLoad,
         LedStore, Goto, Closed
    <3> QED BY <3>1, <3>2 DEF PinInv
  <2> QED BY <1>5, <2>1, <2>2, <2>3, <2>4 DEF Call
<1> QED BY <1>2, <1>3, <1>4, <1>5 DEF CharNext, Module

(* A lamp command with no other beside it is carried out (led_write), and  *)
(* the pin of reset is high for whoever opened it after it was loaded      *)
(* (gprs_open), for any number of processes and lamps.                     *)
THEOREM OutputsObey == CharSpec => []OutputsAsCommanded
<1>1. CharInit => LampInv /\ PinInv
  BY DEF CharInit, LampInv, PinInv, Writing, Closed
<1>2. CharTypeOK /\ CharTypeOK' /\ LampInv /\ PinInv /\ [CharNext]_charVars => (LampInv /\ PinInv)'
  BY LampStep, PinStep
<1>3. LampInv /\ PinInv => OutputsAsCommanded
  BY DEF LampInv, PinInv, OutputsAsCommanded
<1> QED BY <1>1, <1>2, <1>3, CharTypeCorrect, PTL DEF CharSpec

-----------------------------------------------------------------------------
(* What crashes the drivers.  Granted: a module to which nothing was       *)
(* refused holds what its init has asked for, and the class and the node   *)
(* until exit has removed the node.  Mapped: how many ioctls of ts have    *)
(* been since the registers were mapped tells whether they still are.      *)

Attached ==
  \A p \in Procs :
    /\ Calls(p) \/ pcs[p] \in {"irq", "again"} => driver = "ts"
    /\ pcs[p] = "looping" => driver = "test"
    /\ Writing(p) => driver = "led"
    /\ phase \in {"unloading", "gone"} => Closed(p)
    /\ ~early /\ phase = "loading" => Closed(p)

\* In what exit has still to do the class does not come before the node.
NodeFirst(s) ==
  \A i \in 1 .. Len(s) : s[i] = "node" => \A j \in 1 .. Len(s) : s[j] \in {"class", "node"} => i <= j

Granted ==
  /\ phase = "unloading" => undo \in Seq(Resources) /\ (driver # "test" => NodeFirst(undo))
  /\ phase = "unloading" /\ driver \in {"hello", "memdev"} => "node" \notin Owed
  /\ phase = "loaded" => at = Len(InitSteps)
  /\ ~refused =>
       /\ phase # "failed" \/ driver = "test"
       /\ phase \in {"loading", "loaded"} /\ driver \notin {"test", "hello"} => Taken \subseteq own
       /\ phase = "unloading" /\ driver \notin {"test", "hello", "memdev"}
            => {"class", "node"} \subseteq own \/ "node" \notin Owed
  /\ driver = "ts" => own \subseteq {"chrdev", "class", "node", "irq"}

Mapped ==
  /\ uses \in {0, 1, 2}
  /\ ~refused /\ driver = "ts" /\ base = "null" => \A p \in Procs : Closed(p)
  /\ uses = 0 => \A p \in Procs : ~Calls(p)
  /\ uses = 1 => \A p, q \in Procs : Calls(p) /\ Calls(q) => p = q
  /\ base = "dead" => uses # 0
  /\ base = "dead" /\ uses = 1 => \A p \in Procs : ~Calls(p)

Allocated ==
  driver = "memdev" /\ ~refused /\ ~early => \A p \in Procs : ~Closed(p) => val[p] = 1

LEMMA ExitNodeFirst == ASSUME driver \in AllDrivers, driver # "test" PROVE NodeFirst(ExitSteps)
<1>1. NodeFirst(TsExit)
  BY DEF NodeFirst, TsExit
<1>2. NodeFirst(HelloExit)
  BY DEF NodeFirst, HelloExit
<1>3. NodeFirst(LedExit)
  BY DEF NodeFirst, LedExit
<1>4. NodeFirst(MemdevExit)
  BY DEF NodeFirst, MemdevExit
<1>5. NodeFirst(ResetExit)
  BY DEF NodeFirst, ResetExit
<1> QED BY <1>1, <1>2, <1>3, <1>4, <1>5, StepsOf DEF AllDrivers

LEMMA NodeFirstTail ==
  ASSUME NEW s \in Seq(Resources), s # << >>, NodeFirst(s)
  PROVE  /\ NodeFirst(Tail(s))
         /\ Head(s) \in {"class", "node"} => "node" \notin {Tail(s)[i] : i \in 1 .. Len(Tail(s))}
<1>1. Len(Tail(s)) = Len(s) - 1 /\ Len(s) \in Nat \ {0} /\ Head(s) = s[1]
  OBVIOUS
<1>2. \A i \in 1 .. Len(Tail(s)) : Tail(s)[i] = s[i + 1] /\ i + 1 \in 1 .. Len(s)
  BY <1>1
<1>3. NodeFirst(Tail(s))
  BY <1>1, <1>2 DEF NodeFirst
<1>4. ASSUME Head(s) \in {"class", "node"}, NEW i \in 1 .. Len(Tail(s)), Tail(s)[i] = "node" PROVE FALSE
  BY <1>1, <1>2, <1>4 DEF NodeFirst
<1> QED BY <1>3, <1>4

\* What the init functions ask for.
LEMMA LoadedHolds ==
  ASSUME driver \in AllDrivers \ {"test", "hello"}, Granted, phase = "loaded", ~refused
  PROVE  /\ driver \in {"ts", "led", "reset"} => {"class", "node"} \subseteq own
         /\ driver = "led" => "map" \in own
         /\ driver = "memdev" => {"devs", "data0", "data1"} \subseteq own
<1>1. {InitSteps[i] : i \in 1 .. Len(InitSteps)} \subseteq own
  BY DEF Granted, Taken
<1>2. driver = "ts" => {"class", "node"} \subseteq own
  BY <1>1, StepsOf, TsInitSet
<1>3. driver = "led" => {"class", "node", "map"} \subseteq own
  BY <1>1, StepsOf, LedInitSet
<1>4. driver = "memdev" => {"devs", "data0", "data1"} \subseteq own
  BY <1>1, StepsOf, MemdevInitSet
<1>5. driver = "reset" => {"class", "node"} \subseteq own
  BY <1>1, StepsOf, ResetInitSet
<1> QED BY <1>2, <1>3, <1>4, <1>5

LEMMA AttachedStep == ASSUME CharTypeOK, Attached, [CharNext]_charVars PROVE Attached'
<1>0. pcs \in [Procs -> Places] /\ early \in BOOLEAN
  BY DEF CharTypeOK
<1>1. CASE UNCHANGED << driver, early, pcs >> /\ phase' \in {phase, "oops", "failed", "loaded"}
  BY <1>1 DEF Attached, Calls, Closed, Writing
<1>2. CASE UNCHANGED charVars \/ TakeNext \/ Refuse \/ Loaded \/ Interrupt \/ TimerFun
  BY <1>1, <1>2 DEF charVars, modVars, useVars, TakeNext, Refuse, Loaded, Interrupt, TimerFun, Oops
<1>3. CASE Rmmod \/ GiveBack
  BY <1>3 DEF Rmmod, GiveBack, useVars, modVars, Oops, Attached, Calls, Closed, Writing
<1>4. ASSUME NEW p \in Procs, Call(p) PROVE Attached'
  <2>1. CASE CodeGone(p) \/ KeyRead(p) \/ TsWrite(p) \/ Transfer(p) \/ Seek(p)
    BY <2>1, <1>1 DEF CodeGone, KeyRead, TsWrite, Transfer, Seek, useVars, modVars, Oops
  <2>2. CASE ~(CodeGone(p) \/ KeyRead(p) \/ TsWrite(p) \/ Transfer(p) \/ Seek(p))
    <3>2. \A q \in Procs \ {p} : pcs'[q] = pcs[q]
      BY <2>2, <1>4, <1>0 DEF Call, Open, Close, TsOpen, TsMap, TsRead, IoctlBegin, RegisterAccess, Unmap, LedCopy,
         LedTest, LedLoad, LedStore, Goto
    <3>3. driver' = driver /\ phase' \in {phase, "oops"} /\ (early => early')
      BY <2>2, <1>4, <1>0 DEF Call, Open, Opening, Close, TsOpen, TsMap, TsRead, IoctlBegin, RegisterAccess, Unmap,
         LedCopy, LedTest, LedLoad, LedStore, modVars, Oops
    <3>4. /\ Calls(p)' \/ pcs'[p] \in {"irq", "again"} => driver = "ts"
          /\ pcs'[p] = "looping" => driver = "test"
          /\ Writing(p)' => driver = "led"
      BY <2>2, <1>4, <1>0 DEF Call, Open, Close, TsOpen, TsMap, TsRead, IoctlBegin, RegisterAccess, Unmap, LedCopy,
         LedTest, LedLoad, LedStore, Goto, Attached, Calls, Writing
    <3>5. /\ phase' \in {"unloading", "gone"} => Closed(p)'
          /\ ~early' /\ phase' = "loading" => Closed(p)'
      BY <2>2, <1>4, <1>0 DEF Call, Open, Opening, Close, TsOpen, TsMap, TsRead, IoctlBegin, RegisterAccess, Unmap,
         LedCopy, LedTest, LedLoad, LedStore, Goto, Attached, Closed, modVars, Oops
    <3> QED BY <3>2, <3>3, <3>4, <3>5 DEF Attached, Calls, Closed, Writing
  <2> QED BY <2>1, <2>2
<1> QED BY <1>2, <1>3, <1>4 DEF CharNext, Module

LEMMA GrantedStep ==
  ASSUME CharTypeOK, OwnInv, Attached, Granted, [CharNext]_charVars PROVE Granted'
<1>0. /\ driver \in AllDrivers /\ at \in 0 .. Len(InitSteps) /\ Len(InitSteps) \in Nat
      /\ refused \in BOOLEAN
  <2>1. driver \in AllDrivers
    BY DriverKnown DEF CharTypeOK
  <2> QED BY <2>1, StepsAreSequences DEF CharTypeOK
<1>1. ASSUME driver' = driver, at' = at, undo' = undo
      PROVE  InitSteps' = InitSteps /\ Taken' = Taken /\ Owed' = Owed /\ (NodeFirst(undo) <=> NodeFirst(undo)')
  BY <1>1 DEF InitSteps, Taken, Owed, NodeFirst
<1>2. CASE /\ UNCHANGED << driver, at, undo, own >> /\ phase' \in {phase, "oops"} /\ (refused => refused')
  BY <1>1, <1>2 DEF Granted
<1>3. CASE UNCHANGED charVars \/ Interrupt
  BY <1>2, <1>3 DEF charVars, modVars, Interrupt, Oops
<1>4. CASE TakeNext
  <2>1. /\ driver' = driver /\ phase' = phase /\ phase = "loading" /\ undo' = undo /\ refused' = refused
        /\ at' = at + 1 /\ at < Len(InitSteps) /\ own' = own \cup {Acquired(Wanted)}
    BY <1>4 DEF TakeNext
  <2>2. Wanted \in {InitSteps[i] : i \in 1 .. Len(InitSteps)}
    BY <2>1, <1>0 DEF Wanted
  <2>3. driver # "test" => Acquired(Wanted) = Wanted
    BY <2>2, <1>0, Irq2IsTest DEF Acquired
  <2>4. Taken' = Taken \cup {Wanted}
    BY <2>1, <1>0 DEF Taken, Wanted, InitSteps
  <2>5. driver = "ts" => Wanted \in {"chrdev", "class", "node"}
    BY <2>2, StepsOf, TsInitSet
  <2> QED BY <2>1, <2>3, <2>4, <2>5 DEF Granted
<1>5. CASE Refuse
  <2>1. /\ phase = "loading" /\ at < Len(InitSteps) /\ refused' = (refused \/ Free(Wanted))
    BY <1>5 DEF Refuse
  <2>2. driver' = driver /\ undo' = undo /\ own' \subseteq own /\ (refused => refused')
        /\ phase' \in {"loading", "failed", "oops"}
    BY <1>5, <2>1 DEF Refuse, Oops
  <2>3. CASE refused'
    BY <2>2, <2>3 DEF Granted
  <2>4. CASE ~refused'
    <3>1. Wanted \in {"node", "irq2"}
      BY <2>1, <2>4 DEF Free
    <3>2. Wanted = "irq2" => driver = "test"
      BY <2>1, <1>0, Irq2IsTest DEF Wanted
    <3>3. CASE driver = "test"
      BY <2>2, <3>3 DEF Granted
    <3>4. CASE Wanted = "node" /\ driver # "test"
      <4>1. "class" \notin own
        BY <2>1, <2>4, <3>4 DEF Free
      <4>2. driver \in {"ts", "led", "reset"} => "class" \in Taken
        <5>1. InitSteps[at + 1] = "node" /\ at + 1 \in 1 .. Len(InitSteps)
          BY <3>4, <2>1, <1>0 DEF Wanted
        <5>2. driver = "ts" => "class" \in Taken
          <6> SUFFICES ASSUME driver = "ts" PROVE "class" \in Taken
            OBVIOUS
          <6>1. InitSteps = TsInit
            BY StepsOf
          <6>2. at + 1 = 3 /\ TsInit[2] = "class"
            BY <5>1, <6>1, <1>0 DEF TsInit
          <6> QED BY <6>1, <6>2, <1>0 DEF Taken
        <5>3. driver = "led" => "class" \in Taken
          <6> SUFFICES ASSUME driver = "led" PROVE "class" \in Taken
            OBVIOUS
          <6>1. InitSteps = LedInit
            BY StepsOf
          <6>2. at + 1 = 4 /\ LedInit[3] = "class"
            BY <5>1, <6>1, <1>0 DEF LedInit
          <6> QED BY <6>1, <6>2, <1>0 DEF Taken
        <5>4. driver = "reset" => "class" \in Taken
          <6> SUFFICES ASSUME driver = "reset" PROVE "class" \in Taken
            OBVIOUS
          <6>1. InitSteps = ResetInit
            BY StepsOf
          <6>2. at + 1 = 3 /\ ResetInit[2] = "class"
            BY <5>1, <6>1, <1>0 DEF ResetInit
          <6> QED BY <6>1, <6>2, <1>0 DEF Taken
        <5> QED BY <5>2, <5>3, <5>4
      <4>3. driver \in {"hello", "memdev"}
        BY <4>1, <4>2, <2>1, <2>4, <3>4, <1>0 DEF Granted, AllDrivers
      <4>4. Wanted \in {InitSteps[i] : i \in 1 .. Len(InitSteps)}
        BY <2>1, <1>0 DEF Wanted
      <4>5. driver # "memdev"
        BY <4>4, <3>4, StepsOf, MemdevInitSet
      <4>6. driver # "hello"
        BY <2>1, <3>4, <1>0, StepsOf DEF Wanted, HelloInit
      <4> QED BY <4>3, <4>5, <4>6
    <3> QED BY <3>1, <3>2, <3>3, <3>4
  <2> QED BY <2>3, <2>4
<1>6. CASE Loaded
  BY <1>1, <1>6 DEF Loaded, Granted
<1>7. CASE Rmmod
  <2>1. /\ driver' = driver /\ at' = at /\ own' = own /\ phase = "loaded" /\ phase' = "unloading"
        /\ undo' = ExitSteps /\ refused' = refused
    BY <1>7 DEF Rmmod
  <2>2. undo' \in Seq(Resources)
    BY <2>1, <1>0, StepsAreSequences
  <2>3. driver # "test" => NodeFirst(undo')
    BY <2>1, <1>0, ExitNodeFirst
  <2>4. ~refused /\ driver \notin {"test", "hello", "memdev"} => {"class", "node"} \subseteq own
    BY <2>1, <1>0, LoadedHolds DEF AllDrivers
  <2>5. Owed' = {ExitSteps[i] : i \in 1 .. Len(ExitSteps)}
    BY <2>1 DEF Owed
  <2>6. driver = "memdev" => "node" \notin Owed'
    BY <2>5, StepsOf, MemdevExitSet
  <2>7. driver = "hello" => "node" \notin Owed'
    BY <2>5, StepsOf DEF HelloExit
  <2> QED BY <2>1, <2>2, <2>3, <2>4, <2>6, <2>7 DEF Granted
<1>8. CASE GiveBack
  <2>1. driver' = driver /\ at' = at /\ phase = "unloading" /\ refused' = refused
    BY <1>8 DEF GiveBack, Oops
  <2>2. CASE undo = << >> /\ phase' = "gone" /\ UNCHANGED << driver, smp, at, undo, own >>
    BY <2>1, <2>2 DEF Granted
  <2>3. CASE Oops
    BY <2>1, <2>3 DEF Granted, Oops
  <2>4. CASE undo # << >> /\ own' = own \ {Head(undo)} /\ undo' = Tail(undo) /\ UNCHANGED << driver, smp, phase, at >>
    <3>1. undo \in Seq(Resources) /\ undo' \in Seq(Resources)
      BY <2>1, <2>4 DEF Granted
    <3>2. CASE driver = "test"
      BY <2>1, <2>4, <3>1, <3>2 DEF Granted
    <3>3. CASE driver # "test"
      <4>1. NodeFirst(undo') /\ (Head(undo) \in {"class", "node"} => "node" \notin Owed')
        BY <2>1, <2>4, <3>1, <3>3, NodeFirstTail DEF Granted, Owed
      <4>2. "node" \notin Owed => "node" \notin Owed'
        <5>1. Len(undo') = Len(undo) - 1 /\ Len(undo) \in Nat
          BY <2>4, <3>1
        <5>2. \A i \in 1 .. Len(undo') : undo'[i] = undo[i + 1] /\ i + 1 \in 1 .. Len(undo)
          BY <2>4, <3>1, <5>1
        <5> QED BY <5>2 DEF Owed
      <4> QED BY <2>1, <2>4, <3>1, <4>1, <4>2 DEF Granted
    <3> QED BY <3>2, <3>3
  <2> QED BY <1>8, <2>2, <2>3, <2>4 DEF GiveBack
<1>9. CASE TimerFun
  <2>1. /\ driver = "hello" /\ driver' = driver /\ at' = at /\ undo' = undo /\ phase' \in {phase, "oops"}
        /\ refused' = refused
    BY <1>9 DEF TimerFun, Oops
  <2> QED BY <2>1, <1>1 DEF Granted
<1>10. ASSUME NEW p \in Procs, Call(p) PROVE Granted'
  <2>1. CASE Goto(p, "irq", "again") /\ own' = own \cup {"irq"}
             /\ UNCHANGED << driver, smp, phase, at, undo, refused >>
    BY <2>1, <1>1 DEF Granted
  <2>2. CASE UNCHANGED << driver, at, undo, own >> /\ phase' \in {phase, "oops"} /\ (refused => refused')
    BY <2>2, <1>2
  <2> QED BY <1>0, <1>10, <2>1, <2>2 DEF Call, CodeGone, Open, KeyRead, Close, TsOpen, TsMap, TsRead, TsWrite, IoctlBegin,
             RegisterAccess, Unmap, LedCopy, LedTest, LedLoad, LedStore, Transfer, Seek, modVars, Oops
<1> QED BY <1>3, <1>4, <1>5, <1>6, <1>7, <1>8, <1>9, <1>10 DEF CharNext, Module

LEMMA MappedStep ==
  ASSUME CharTypeOK, Attached, Mapped, [CharNext]_charVars PROVE Mapped'
<1>0. pcs \in [Procs -> Places] /\ refused \in BOOLEAN /\ base \in {"null", "live", "dead"}
  BY DEF CharTypeOK
<1>1. ASSUME UNCHANGED << driver, uses, base >>, refused => refused', \A p \in Procs : Calls(p)' => Calls(p),
             driver = "ts" /\ base = "null" /\ ~refused' => \A p \in Procs : Closed(p) => Closed(p)'
      PROVE  Mapped'
  BY <1>1 DEF Mapped
<1>2. CASE UNCHANGED charVars \/ Module \/ Interrupt \/ TimerFun
  <2>1. UNCHANGED << driver, uses, base, pcs >> /\ (refused => refused')
    BY <1>0, <1>2 DEF charVars, modVars, useVars, tsVars, Module, TakeNext, Refuse, Loaded, Rmmod, GiveBack, Interrupt,
       TimerFun, Oops
  <2> QED BY <2>1, <1>1 DEF Calls, Closed
<1>3. ASSUME NEW p \in Procs, Call(p) PROVE Mapped'
  <2>1. CASE \E from \in {"closed", "again"}, to \in {"irq", "open"} : pcs[p] = from /\ TsMap(from, to, p)
    <3>1. /\ \A q \in Procs : Calls(q)' <=> Calls(q)
          /\ base' \in {"null", "live"} /\ (base' = "null" => refused') /\ uses' = InUse
      BY <2>1, <1>0 DEF TsMap, Calls
    <3>2. /\ InUse \in {0, 1, 2}
          /\ InUse = 0 => \A q \in Procs : ~Calls(q)
          /\ InUse = 1 => \A q, r \in Procs : Calls(q) /\ Calls(r) => q = r
      <4>1. CASE \A q \in Procs : ~Calls(q)
        BY <4>1 DEF InUse
      <4>2. CASE \E q \in Procs : Calls(q) /\ \A r \in Procs \ {q} : ~Calls(r)
        <5>1. InUse = 1
          BY <4>2 DEF InUse
        <5> QED BY <4>2, <5>1
      <4>3. CASE /\ ~\A q \in Procs : ~Calls(q)
                 /\ ~\E q \in Procs : Calls(q) /\ \A r \in Procs \ {q} : ~Calls(r)
        BY <4>3 DEF InUse
      <4> QED BY <4>1, <4>2, <4>3
    <3> QED BY <3>1, <3>2 DEF Mapped
  <2>2. CASE IoctlBegin(p)
    <3>1. /\ pcs[p] = "open" /\ driver = "ts" /\ driver' = driver /\ base' = base /\ refused' = refused
          /\ uses' = (IF uses < 2 THEN uses + 1 ELSE 2)
          /\ \A q \in Procs \ {p} : pcs'[q] = pcs[q]
      BY <2>2, <1>0 DEF IoctlBegin, Goto, modVars
    <3>2. ~Closed(p) /\ ~Calls(p) /\ \A q \in Procs \ {p} : Calls(q)' <=> Calls(q)
      BY <3>1 DEF Closed, Calls
    <3> QED BY <3>1, <3>2 DEF Mapped
  <2>3. CASE Unmap(p)
    <3>1. /\ Calls(p) /\ driver' = driver /\ refused' = refused /\ uses' = uses
          /\ base' = IF base = "live" THEN "dead" ELSE base
          /\ pcs' = [pcs EXCEPT ![p] = "open"]
      BY <2>3 DEF Unmap, Goto, Calls, modVars
    <3>2. ~Calls(p)' /\ ~Closed(p) /\ \A q \in Procs \ {p} : Calls(q)' <=> Calls(q)
      BY <3>1, <1>0 DEF Calls, Closed
    <3> QED BY <3>1, <3>2 DEF Mapped
  <2>4. CASE ~IoctlBegin(p) /\ ~Unmap(p)
             /\ ~\E from \in {"closed", "again"}, to \in {"irq", "open"} : pcs[p] = from /\ TsMap(from, to, p)
    <3>1. UNCHANGED << driver, uses, base >> /\ (refused => refused')
      BY <1>3, <2>4 DEF Call, CodeGone, Open, Opening, Closed, KeyRead, Close, TsOpen, TsRead, TsWrite, RegisterAccess,
         LedCopy, LedTest, LedLoad, LedStore, Transfer, Seek, modVars, tsVars, Oops
    <3>2. \A q \in Procs : Calls(q)' => Calls(q)
      BY <1>3, <2>4, <1>0 DEF Call, CodeGone, Open, Opening, Closed, KeyRead, Close, TsOpen, TsRead, TsWrite,
         RegisterAccess, LedCopy, LedTest, LedLoad, LedStore, Transfer, Seek, useVars, Goto, Calls
    <3>3. driver = "ts" => \A q \in Procs : Closed(q) => Closed(q)'
      BY <1>3, <2>4, <1>0 DEF Call, CodeGone, Open, Opening, Closed, KeyRead, Close, TsOpen, TsRead, TsWrite,
         RegisterAccess, LedCopy, LedTest, LedLoad, LedStore, Transfer, Seek, useVars, Goto
    <3> QED BY <1>1, <3>1, <3>2, <3>3
  <2> QED BY <2>1, <2>2, <2>3, <2>4
<1> QED BY <1>2, <1>3 DEF CharNext

LEMMA AllocatedStep ==
  ASSUME CharTypeOK, Attached, Granted, Allocated, [CharNext]_charVars PROVE Allocated'
<1>0. /\ driver \in AllDrivers /\ pcs \in [Procs -> Places] /\ val \in [Procs -> Nat]
      /\ early \in BOOLEAN /\ refused \in BOOLEAN
  BY DriverKnown DEF CharTypeOK
<1>1. ASSUME driver' = driver, refused => refused', early => early', val' = val,
             \A p \in Procs : Closed(p) => Closed(p)'
      PROVE  Allocated'
  BY <1>1 DEF Allocated
<1>2. CASE UNCHANGED charVars \/ Module \/ Interrupt \/ TimerFun
  <2>1. UNCHANGED << driver, early, val, pcs >> /\ (refused => refused')
    BY <1>0, <1>2 DEF charVars, modVars, useVars, Module, TakeNext, Refuse, Loaded, Rmmod, GiveBack, Interrupt,
       TimerFun, Oops
  <2> QED BY <2>1, <1>1 DEF Closed
<1>3. ASSUME NEW p \in Procs, Call(p), driver = "memdev" PROVE Allocated'
  <2>1. CASE Open(p)
    <3>1. CASE refused' \/ early'
      BY <3>1 DEF Allocated
    <3>2. CASE ~refused' /\ ~early'
      <4>1. phase = "loaded" /\ ~refused /\ ~early
        BY <2>1, <3>2, <1>0 DEF Open, Opening
      <4>2. "devs" \in own
        BY <4>1, <1>3, <1>0, LoadedHolds
      <4>3. val' = [val EXCEPT ![p] = 1] /\ driver' = driver /\ pcs' = [pcs EXCEPT ![p] = "open"]
        BY <2>1, <4>2, <1>3 DEF Open, modVars
      <4> QED BY <4>1, <4>3, <1>0, <1>3 DEF Allocated, Closed
    <3> QED BY <3>1, <3>2
  <2>2. CASE ~Open(p) /\ val' = val
    <3>1. driver' = driver /\ (refused => refused') /\ (early => early')
      BY <1>0, <1>3, <2>2 DEF Call, CodeGone, KeyRead, Close, TsOpen, TsMap, TsRead, TsWrite, IoctlBegin, RegisterAccess,
         Unmap, LedCopy, LedTest, LedLoad, LedStore, Transfer, Seek, modVars, useVars, Oops, Opening
    <3>2. \A q \in Procs : Closed(q) => Closed(q)'
      BY <1>3, <2>2, <1>0 DEF Call, CodeGone, KeyRead, Close, TsOpen, TsMap, TsRead, TsWrite, IoctlBegin,
         RegisterAccess, Unmap, LedCopy, LedTest, LedLoad, LedStore, Transfer, Seek, useVars, Goto, Closed, Attached
    <3> QED BY <1>1, <2>2, <3>1, <3>2
  <2>3. CASE ~Open(p) /\ val' # val
    <3>1. TsRead(p) /\ val' = [val EXCEPT ![p] = 1]
      BY <1>3, <2>3 DEF Call, CodeGone, KeyRead, Close, TsOpen, TsMap, TsRead, TsWrite, IoctlBegin, RegisterAccess,
         Unmap, LedCopy, LedTest, LedLoad, LedStore, Transfer, Seek, useVars, Goto, Attached, Writing
    <3>2. UNCHANGED << driver, refused, early >> /\ ~Closed(p) /\ \A q \in Procs : Closed(q) => Closed(q)'
      BY <3>1, <1>0, <1>3 DEF TsRead, Goto, Closed, modVars
    <3> QED BY <3>1, <3>2, <1>0 DEF Allocated
  <2> QED BY <2>1, <2>2, <2>3
<1>4. ASSUME NEW p \in Procs, Call(p), driver # "memdev" PROVE driver' = driver
  BY <1>4 DEF Call, CodeGone, Open, KeyRead, Close, TsOpen, TsMap, TsRead, TsWrite, IoctlBegin, RegisterAccess,
     Unmap, LedCopy, LedTest, LedLoad, LedStore, Transfer, Seek, modVars, Oops
<1> QED BY <1>2, <1>3, <1>4 DEF CharNext, Allocated

\* Nothing goes on after a crash.
LEMMA OopsIsFinal == ASSUME phase = "oops", CharNext PROVE FALSE
<1>1. ~Present /\ ~Left
  BY DEF Present, Left
<1>2. ~(Module \/ Interrupt \/ TimerFun)
  BY DEF Module, TakeNext, Refuse, Loaded, Rmmod, GiveBack, Interrupt, TimerFun
<1>3. ASSUME NEW p \in Procs, Call(p) PROVE FALSE
  BY <1>1, <1>3 DEF Call, CodeGone, Open, Opening, KeyRead, Close, TsOpen, TsRead, TsWrite, IoctlBegin,
     RegisterAccess, Unmap, LedCopy, LedTest, LedLoad, LedStore, Transfer, Seek, Goto
<1> QED BY <1>2, <1>3 DEF CharNext

\* What an interrupt or a process may still reach of a module that is gone.
LEMMA NothingReachable ==
  ASSUME CharTypeOK, OwnInv, Attached, Granted, Left, ~refused, driver # "test"
  PROVE  /\ phase = "gone" /\ (\A p \in Procs : Closed(p)) /\ ~Visible
         /\ "irq" \in own => driver = "ts" /\ own = {"irq"}
         /\ driver = "hello" /\ ("timer" \in own \/ running) => smp
<1>0. driver \in AllDrivers /\ smp \in BOOLEAN
  BY DriverKnown DEF CharTypeOK
<1>1. phase = "gone" /\ \A p \in Procs : Closed(p)
  BY DEF Left, Granted, Attached
<1>2. own \ Memory \subseteq CASE driver = "ts" -> {"irq"} [] driver = "hello" -> IF smp THEN {"timer"} ELSE {} [] OTHER -> {}
  BY <1>0, <1>1 DEF OwnInv, LeftBehind, Memory, AllDrivers
<1>3. ~Visible
  BY <1>0, <1>2 DEF Visible, Memory, AllDrivers
<1>4. "irq" \in own => driver = "ts" /\ own = {"irq"}
  <2>1. ASSUME driver = "ts" PROVE own \subseteq {"irq"}
    BY <1>2, <2>1 DEF Granted, Memory
  <2> QED BY <1>0, <1>2, <2>1 DEF Memory, AllDrivers
<1>5. driver = "hello" /\ ("timer" \in own \/ running) => smp
  BY <1>0, <1>2 DEF OwnInv, Memory
<1> QED BY <1>1, <1>3, <1>4, <1>5

LEMMA CrashStep ==
  ASSUME CharTypeOK, OwnInv, Attached, Granted, Mapped, Allocated, CharNext, phase' = "oops"
  PROVE  NoOtherOops'
<1>0. /\ driver \in AllDrivers /\ pcs \in [Procs -> Places] /\ ppos \in [Procs -> 0 .. Size]
      /\ refused \in BOOLEAN /\ early \in BOOLEAN /\ at \in 0 .. Len(InitSteps)
  BY DriverKnown DEF CharTypeOK
<1>1. phase # "oops"
  BY OopsIsFinal
<1>2. ASSUME refused' \/ early' \/ driver' = "test" PROVE NoOtherOops'
  BY <1>2 DEF NoOtherOops
<1>3. CASE Refuse
  <2>1. Wanted \in CrashesFor /\ refused' = (refused \/ Free(Wanted)) /\ driver' = driver
    BY <1>1, <1>3 DEF Refuse, Oops
  <2>2. CASE driver = "test"
    BY <1>2, <2>1, <2>2
  <2>3. CASE driver # "test"
    <3>1. Wanted \in {"cdev", "data0", "data1"}
      BY <1>0, <2>1, <2>3 DEF CrashesFor, AllDrivers
    <3>2. Free(Wanted)
      BY <3>1 DEF Free
    <3> QED BY <1>2, <2>1, <3>2
  <2> QED BY <2>2, <2>3
<1>4. CASE GiveBack
  <2>1. /\ undo # << >> /\ Head(undo) = "node" /\ Needed \notin own /\ phase = "unloading"
        /\ refused' = refused /\ driver' = driver
    BY <1>1, <1>4 DEF GiveBack, Oops
  <2>2. undo \in Seq(Resources) /\ (driver # "test" => "node" \in Owed)
    <3>1. undo \in Seq(Resources)
      BY <2>1 DEF Granted
    <3>2. undo[1] = "node" /\ 1 \in 1 .. Len(undo)
      BY <2>1, <3>1
    <3> QED BY <3>1, <3>2 DEF Owed
  <2>3. CASE driver \in {"hello", "memdev"} /\ ~refused
    BY <2>1, <2>2, <2>3 DEF Granted
  <2>4. CASE driver \in {"ts", "led", "reset"} /\ ~refused
    BY <2>1, <2>2, <2>4 DEF Granted, Needed
  <2> QED BY <1>0, <1>2, <2>1, <2>3, <2>4 DEF AllDrivers
<1>5. CASE Interrupt
  <2>1. Left /\ "irq" \in own /\ UNCHANGED << driver, own, refused >>
    BY <1>1, <1>5 DEF Interrupt, Oops, modVars
  <2> QED BY <1>2, <2>1, NothingReachable DEF NoOtherOops
<1>6. CASE TimerFun
  <2>1. /\ driver = "hello" /\ Left /\ ("timer" \in own \/ running)
        /\ UNCHANGED << driver, smp, refused >>
    BY <1>1, <1>6 DEF TimerFun, Oops
  <2> QED BY <1>2, <2>1, NothingReachable DEF NoOtherOops
<1>7. ASSUME NEW p \in Procs, Call(p) PROVE NoOtherOops'
  <2>1. CASE CodeGone(p)
    <3>1. Left /\ (~Closed(p) \/ Visible) /\ UNCHANGED << driver, refused >>
      BY <2>1 DEF CodeGone, Oops
    <3> QED BY <1>2, <3>1, NothingReachable
  <2>2. CASE Open(p)
    <3>1. driver = "led" /\ "map" \notin own /\ Opening(p) /\ UNCHANGED << driver, refused >>
      BY <1>1, <2>2 DEF Open, Oops, modVars
    <3>2. phase = "loading" => early'
      BY <3>1 DEF Opening
    <3>3. phase = "loaded" => refused
      BY <3>1, <1>0, LoadedHolds
    <3> QED BY <1>2, <3>1, <3>2, <3>3 DEF Opening
  <2>3. CASE KeyRead(p)
    BY <1>2, <2>3 DEF KeyRead, Oops, Attached
  <2>4. CASE TsWrite(p)
    BY <1>1, <2>4 DEF TsWrite, Oops, modVars, NoOtherOops
  <2>5. CASE RegisterAccess(p)
    <3>1. base # "live" /\ Calls(p) /\ driver = "ts" /\ UNCHANGED << driver, refused, uses >>
      BY <1>1, <2>5 DEF RegisterAccess, Oops, modVars, Attached, Calls
    <3>2. CASE base = "null"
      BY <1>2, <3>1, <3>2 DEF Mapped, Closed, Calls
    <3>3. CASE base = "dead"
      <4>1. uses = 2
        BY <3>1, <3>3 DEF Mapped
      <4> QED BY <3>1, <4>1 DEF NoOtherOops
    <3> QED BY <3>1, <3>2, <3>3 DEF CharTypeOK
  <2>6. CASE Transfer(p)
    <3>1. PICK size \in 1 .. Size + 1 :
            LET count == Count(size, ppos[p]) IN
            IF ppos[p] >= Size THEN UNCHANGED << modVars, ppos >>
            ELSE \/ Usable(p) /\ ppos[p] + count <= Size /\ UNCHANGED modVars
                    /\ ppos' \in {ppos, [ppos EXCEPT ![p] = @ + count]}
                 \/ ~(Usable(p) /\ ppos[p] + count <= Size) /\ Oops /\ UNCHANGED ppos
      BY <2>6 DEF Transfer
    <3>2. ~(Usable(p) /\ ppos[p] + Count(size, ppos[p]) <= Size) /\ driver' = driver
      BY <3>1, <1>1 DEF modVars, Oops
    <3>3. ppos[p] + Count(size, ppos[p]) <= Size
      BY <1>0, CharAssumption DEF Count
    <3>4. driver = "memdev" /\ Present /\ ~Closed(p) /\ UNCHANGED << refused, early >>
      BY <2>6 DEF Transfer, Closed
    <3>5. CASE ~refused /\ ~early
      <4>1. phase = "loaded"
        BY <3>4, <3>5 DEF Present, Attached
      <4>2. {"data0", "data1"} \subseteq own /\ val[p] = 1
        BY <3>4, <3>5, <4>1, <1>0, LoadedHolds DEF Allocated
      <4> QED BY <3>2, <3>3, <4>2 DEF Usable
    <3> QED BY <1>2, <3>4, <3>5
  <2>7. CASE Close(p) \/ TsOpen(p) \/ TsRead(p) \/ IoctlBegin(p) \/ Unmap(p) \/ LedCopy(p) \/ LedTest(p)
             \/ LedLoad(p) \/ LedStore(p) \/ Seek(p)
    BY <1>1, <2>7 DEF Close, TsOpen, TsMap, TsRead, IoctlBegin, Unmap, LedCopy, LedTest, LedLoad, LedStore, Seek, modVars
  <2> QED BY <1>7, <2>1, <2>2, <2>3, <2>4, <2>5, <2>6, <2>7 DEF Call
<1>8. ~(TakeNext \/ Loaded \/ Rmmod)
  BY <1>1 DEF TakeNext, Loaded, Rmmod
<1> QED BY <1>3, <1>4, <1>5, <1>6, <1>7, <1>8 DEF CharNext, Module

(* The drivers crash in no other way than those named (NoOtherOops),       *)
(* whatever processes do and however many of them there are.               *)
THEOREM CrashesNamed == CharSpec => []NoOtherOops
<1> DEFINE Safe == Attached /\ Granted /\ Mapped /\ Allocated /\ NoOtherOops
<1>1. ASSUME CharInit PROVE Safe
  <2>1. Attached
    BY <1>1 DEF CharInit, Attached, Calls, Closed, Writing
  <2>2. Granted
    BY <1>1 DEF CharInit, Granted, Taken
  <2>3. Mapped
    BY <1>1 DEF CharInit, Mapped, Calls, Closed
  <2>4. Allocated /\ NoOtherOops
    BY <1>1 DEF CharInit, Allocated, NoOtherOops, Closed
  <2> QED BY <2>1, <2>2, <2>3, <2>4
<1>2. ASSUME CharTypeOK, OwnInv, Safe, [CharNext]_charVars PROVE Safe'
  <2>1. Attached' /\ Granted' /\ Mapped' /\ Allocated'
    BY <1>2, AttachedStep, GrantedStep, MappedStep, AllocatedStep
  <2>2. UNCHANGED charVars /\ NoOtherOops => NoOtherOops'
    BY DEF charVars, modVars, useVars, tsVars, NoOtherOops
  <2>3. CharNext /\ phase' = "oops" => NoOtherOops'
    BY <1>2, CrashStep
  <2>4. phase' # "oops" => NoOtherOops'
    BY DEF NoOtherOops
  <2> QED BY <1>2, <2>1, <2>2, <2>3, <2>4
<1>3. Safe => NoOtherOops
  OBVIOUS
<1> HIDE DEF Safe
<1> QED BY <1>1, <1>2, <1>3, CharTypeCorrect, Ownership, PTL DEF CharSpec
=============================================================================
