------------------------------ MODULE CameraCtl -------------------------------
(***************************************************************************)
(* The control of the camera: the functions of i2c/camera.c and            *)
(* i2c/camera_ctl.c (camera_ctl.h), called by processes that know nothing  *)
(* of each other.  Exposure, flash, trigger mode, contrast and sharpness   *)
(* are registers of an i2c device; the gains are registers of the sensor,  *)
(* written bit by bit over three pins.                                     *)
(*   "camera"      sets the pins through /sys/class/gpio                   *)
(*   "camera_ctl"  through /dev/gpio_pcie, once that is open; its          *)
(*                 init_device calls WriteValue, which is defined nowhere: *)
(*                 as a library it dies there                              *)
(* A call is a sequence of transactions on the devices.  Any of them may   *)
(* fail, which most callers do not look at.  The devices are external: a   *)
(* register holds what was last written to it, and the sensor takes a word *)
(* that is exactly as long as an address and a value.                      *)
(***************************************************************************)
EXTENDS Integers, Sequences, SequencesExt, FiniteSets

CONSTANTS
  Users,         \* the processes
  W,             \* bits of a gain: 9; a value is the set of its one bits
  A, D,          \* bits of an address and of a value of the sensor: 8, 24
  B,             \* an i2c register holds 0 .. B - 1: 2^16; an int B^2 values
  K,             \* clocks per microsecond: 36
  Channels,      \* the gains that are set, some of "green1", "green2", "red", "blue"
  Times, Modes, Gains,   \* arguments: of set_exposure_time, enable_flashlight, set_*_gain
  MaxCtlCalls, MaxFails   \* bounds of the check: calls and failures of all processes

CtlAssumption ==
  /\ W \in Nat \ {0} /\ A \in Nat \ {0, 1} /\ D \in Nat /\ D >= 2 * W
  /\ B \in Nat \ {0} /\ B % 2 = 0 /\ K \in Nat \ {0} /\ Times \subseteq Nat /\ Modes \subseteq 0 .. 3
  /\ Channels \subseteq {"green1", "green2", "red", "blue"}
  /\ Gains \subseteq SUBSET Nat /\ MaxCtlCalls \in Nat /\ MaxFails \in Nat
ASSUME CtlIsAssumed == CtlAssumption

VARIABLES
  variant, signed,   \* which of the two files; whether char is signed (the compiler)
  ctlCalls, fails,   \* how many there were
  ctlCall, todo, got,   \* of a process: its call, what is left of it, what it has read
  fds,               \* of a process: which of "i2c", "pcie" it has open
  camera_mode, n_gain, m_gain,     \* of a process: its static variables
  ctlReg,               \* the registers of the i2c device
  pins, shift, store,              \* the pins; the sensor: bits received, registers
  how,               \* of a process: its call is "clean", "alone", or "shared"
  last,              \* the call that ended last, if none has begun since
  ranged             \* history: whether all gains were in their range

procVars == << ctlCall, todo, got, fds, camera_mode, n_gain, m_gain, how >>
sensor   == << pins, shift, store >>
ctlHistory == << last, ranged >>
ctlVars  == << variant, signed, ctlCalls, fails, procVars, ctlReg, sensor, ctlHistory >>

(***************************************************************************)
(* Transactions.                                                           *)
(***************************************************************************)
WriteReg(r, v) == [do |-> "write", of |-> r, value |-> v]
ReadReg(r)     == [do |-> "read",  of |-> r, value |-> 0]
Pin(k, v)   == [do |-> "pin",   of |-> k, value |-> v]      \* gpio_set or pcie_gpio_func
Sysfs(k, v) == [do |-> "sysfs", of |-> k, value |-> v]      \* gpio_set
Device(d)   == [do |-> "open",  of |-> d, value |-> 0]

\* write_a and write_d, the lowest bit first.  The three pin writes of a bit,
\* clock low, data, clock high, are one transaction.
Pulse(v)    == [do |-> "pulse", of |-> "clock", value |-> v]
Bits(value, n) ==
  [k \in 1 .. n |-> Pulse(IF k - 1 \in value THEN 1 ELSE 0)] \o << Pin("clock", 0) >>

WriteValue(a, value) ==
  << Pin("latch", 0) >> \o Bits(a, A) \o Bits(value, D) \o << Pin("latch", 1) >>

\* The addresses of the gain registers, 4 and 5 in the code, as sets of bits;
\* the third stands for all others.
Green1Red == {}
Green2Blue == {0}
Other == {1}

(***************************************************************************)
(* The packing of two gains: the lower one is or-ed in as it is, a gain    *)
(* that is too large spoils the upper one (camera_ctl.h: 0 to 511).        *)
(***************************************************************************)
Low(n)   == {b \in n : b < W}
High(n)  == {b - W : b \in n \ Low(n)}
Shifted(gain) == {b + W : b \in gain}
PutLow(n, gain)  == (n \ Low(n)) \cup gain
\* Mutation: the mask of the other half.
PutHighWrongMask(n, gain) == (n \ Low(n)) \cup Shifted(gain)
PutHigh(n, gain) == Low(n) \cup Shifted(gain)

GainRegister == [green1 |-> Green1Red, red |-> Green1Red, green2 |-> Green2Blue, blue |-> Green2Blue]
AllChannels == DOMAIN GainRegister
Packed(n, channel, gain) ==
  IF channel \in {"green1", "blue"} THEN PutLow(n, gain) ELSE PutHigh(n, gain)

(***************************************************************************)
(* The calls: a name and an argument.                                      *)
(***************************************************************************)
SoftwareMode == 1
VideoMode == 3
ToInt(x) == IF x % (B * B) >= (B * B) \div 2 THEN (x % (B * B)) - B * B ELSE x % (B * B)
Ntime(time) == ToInt(time * K)
And(mode) == IF mode # 0 THEN 1 ELSE 0       \* mode && 0x01, mode && 0x02

InitPins == << Sysfs("clock", 1), Sysfs("data", 1), Sysfs("latch", 1) >>
InitCamera ==
  (IF variant = "camera" THEN InitPins ELSE << >>)
  \o << Device("i2c"), Device("pcie"), ReadReg("test") >> \o WriteValue(Other, {0})
SetTriggerMode(mode) == << WriteReg("mode", 0), WriteReg("mode", mode), ReadReg("mode") >>
SetExposureTime(time) ==
  << WriteReg("low", Ntime(time) % B), WriteReg("high", (Ntime(time) \div B) % B), ReadReg("low"), ReadReg("high") >>
CameraCapture(p) ==
  IF camera_mode[p] = SoftwareMode THEN << WriteReg("mode", 0), WriteReg("mode", 1) >> ELSE << >>
EnableFlashlight(mode) ==
  << WriteReg("flash1", And(mode)), WriteReg("flash2", And(mode)), ReadReg("flash1"), ReadReg("flash2") >>
SetSharpen(mode)  == << WriteReg("sharpen", mode), ReadReg("sharpen") >>
SetContrast(mode) == << WriteReg("contrast", mode), ReadReg("contrast") >>

(***************************************************************************)
(* What begins here is one turn of the menu of main, or a call of the      *)
(* library.  A call during which another process calls is "shared"; else   *)
(* it is "clean", or "alone" when something fails or the sensor has part   *)
(* of a word from before.                                                  *)
(***************************************************************************)
CtlIdle(p)  == todo[p] = << >> /\ ctlCall[p].name # "dead"
Alone(p) == \A q \in Users \ {p} : todo[q] = << >>
How(p) == [q \in Users |->
  IF q # p \/ ~Alone(p) THEN "shared" ELSE IF pins["latch"] = 1 THEN "clean" ELSE "alone"]
NoCall(name) == [name |-> name, arg |-> 0]
End == [do |-> "end", of |-> "call", value |-> 0]

Begin(p, name, arg, steps) ==
  /\ CtlIdle(p) /\ (ctlCall[p].name = "new" <=> name = "init")
  /\ ctlCalls < MaxCtlCalls /\ ctlCalls' = ctlCalls + 1
  /\ ctlCall' = [ctlCall EXCEPT ![p] = [name |-> name, arg |-> arg]]
  /\ todo' = [todo EXCEPT ![p] = Append(steps, End)]
  /\ how' = How(p)
  /\ last' = [name |-> "none"]
  /\ UNCHANGED << variant, signed, fails, got, fds, camera_mode, m_gain, ctlReg, sensor >>

CallDevice(p) ==
  /\ \/ Begin(p, "init", 0, InitCamera)
     \/ \E mode \in {SoftwareMode, VideoMode} : Begin(p, "mode", mode, SetTriggerMode(mode))
     \/ \E time \in Times : Begin(p, "exposure", time, SetExposureTime(time))
     \/ Begin(p, "capture", 0, CameraCapture(p))
     \/ \E mode \in Modes : Begin(p, "flash", mode, EnableFlashlight(mode))
     \/ Begin(p, "sharpen", 1, SetSharpen(1))
     \/ Begin(p, "contrast", 1, SetContrast(1))
     \/ Begin(p, "gain", {0}, WriteValue(Other, {0}))         \* set_global_gain
     \/ \E k \in {"clock", "latch"}, v \in {0, 1} : Begin(p, "gpio", v, << Sysfs(k, v) >>)
  /\ UNCHANGED << n_gain, ranged >>

\* set_green1_gain, set_red_gain, set_green2_gain, setbluegain
SetGain(p) == \E channel \in Channels, gain \in Gains :
  LET r == GainRegister[channel]
      n == Packed(n_gain[p][r], channel, gain)
  IN  /\ Begin(p, channel, gain, WriteValue(r, n))
      /\ n_gain' = [n_gain EXCEPT ![p][r] = n]
      /\ ranged' = (ranged /\ gain = Low(gain))

(***************************************************************************)
(* The next transaction of a call.                                         *)
(***************************************************************************)
Next1(p) == Head(todo[p])
Doing(p, do) == todo[p] # << >> /\ Next1(p).do = do
Goes(p) == todo' = [todo EXCEPT ![p] = Tail(@)]
Returns(p) == todo' = [todo EXCEPT ![p] = << End >>]
Failing(p, sure) ==
  /\ IF sure THEN UNCHANGED fails ELSE fails < MaxFails /\ fails' = fails + 1
  /\ how' = [how EXCEPT ![p] = IF @ = "clean" THEN "alone" ELSE @]

\* Only set_exposure_time looks at what i2c_write returns.
FailedWriteIgnored(p) == Goes(p)
FailedWrite(p) == IF ctlCall[p].name = "exposure" THEN Returns(p) ELSE Goes(p)

I2cWrite(p) ==
  /\ Doing(p, "write")
  /\ \/ /\ "i2c" \in fds[p] /\ ctlReg' = [ctlReg EXCEPT ![Next1(p).of] = Next1(p).value]
        /\ Goes(p) /\ UNCHANGED << fails, how >>
     \/ FailedWrite(p) /\ Failing(p, "i2c" \notin fds[p]) /\ UNCHANGED ctlReg
  /\ UNCHANGED << variant, signed, ctlCalls, ctlCall, got, fds, camera_mode, n_gain, m_gain, sensor, ctlHistory >>

\* The high byte is a char: a value from B / 2 on is negative where char is.
Extended(v) == IF signed /\ v >= B \div 2 THEN v - B ELSE v

I2cRead(p) ==
  /\ Doing(p, "read") /\ Next1(p).of # "test" /\ Goes(p)
  /\ \/ "i2c" \in fds[p] /\ got' = [got EXCEPT ![p] = Append(@, Extended(ctlReg[Next1(p).of]))] /\ UNCHANGED << fails, how >>
     \/ got' = [got EXCEPT ![p] = Append(@, -1)] /\ Failing(p, "i2c" \notin fds[p])
  /\ UNCHANGED << variant, signed, ctlCalls, ctlCall, fds, camera_mode, n_gain, m_gain, ctlReg, sensor, ctlHistory >>

OpenDevice(p) ==
  /\ Doing(p, "open")
  /\ \/ fds' = [fds EXCEPT ![p] = @ \cup {Next1(p).of}] /\ Goes(p)
     \/ Returns(p) /\ UNCHANGED fds
  /\ UNCHANGED << variant, signed, ctlCalls, fails, ctlCall, got, camera_mode, n_gain, m_gain, how, ctlReg, sensor, ctlHistory >>

\* I2C_SLAVE, and the comparison with 0x8448, of which the first byte is negative.
TestDevice(p) ==
  /\ Doing(p, "read") /\ Next1(p).of = "test"
  /\ \/ Returns(p) /\ UNCHANGED ctlCall
     \/ /\ ~signed /\ variant = "camera" /\ Goes(p) /\ UNCHANGED ctlCall
     \/ /\ ~signed /\ variant = "camera_ctl" /\ todo' = [todo EXCEPT ![p] = << >>]
        /\ ctlCall' = [ctlCall EXCEPT ![p] = NoCall("dead")]
  /\ UNCHANGED << variant, signed, ctlCalls, fails, got, fds, camera_mode, n_gain, m_gain, how, ctlReg, sensor, ctlHistory >>

(***************************************************************************)
(* The sensor: a bit at each rising edge of the clock while the latch is   *)
(* low; the rising edge of the latch stores a word.                        *)
(***************************************************************************)
WordSize == A + D
ValueOf(bits) == {k \in 0 .. Len(bits) - 1 : bits[k + 1] = 1}
AddressOf(bits) ==
  IF ValueOf(bits) \in {Green1Red, Green2Blue} THEN ValueOf(bits) ELSE Other

Received(v) == IF pins["latch"] = 0 /\ Len(shift) <= WordSize THEN Append(shift, v) ELSE shift
Latched ==
  IF Len(shift) = WordSize
  THEN [store EXCEPT ![AddressOf(SubSeq(shift, 1, A))] = ValueOf(SubSeq(shift, A + 1, WordSize))]
  ELSE store

SensorSees(k, v) ==
  LET rises == pins[k] = 0 /\ v = 1 IN
  /\ pins' = [pins EXCEPT ![k] = v]
  /\ shift' = IF k = "latch" /\ v # pins[k] THEN << >>
              ELSE IF k = "clock" /\ rises THEN Received(pins["data"]) ELSE shift
  /\ store' = IF k = "latch" /\ rises THEN Latched ELSE store

SensorSeesBit(v) ==
  /\ pins' = [pins EXCEPT !["clock"] = 1, !["data"] = v] /\ shift' = Received(v) /\ UNCHANGED store

Wired(p) == Next1(p).do = "sysfs" \/ variant = "camera" \/ "pcie" \in fds[p]

SetPin(p) ==
  /\ Doing(p, "pin") \/ Doing(p, "sysfs")
  /\ Goes(p)
  /\ \/ Wired(p) /\ SensorSees(Next1(p).of, Next1(p).value) /\ UNCHANGED << fails, how >>
     \/ Failing(p, ~Wired(p)) /\ UNCHANGED sensor      \* echo or write failed
  /\ UNCHANGED << variant, signed, ctlCalls, ctlCall, got, fds, camera_mode, n_gain, m_gain, ctlReg, ctlHistory >>

\* Of the three writes the data, or one of the clock, may fail.
PulseBit(p) ==
  /\ Doing(p, "pulse") /\ Goes(p)
  /\ \/ Wired(p) /\ SensorSeesBit(Next1(p).value) /\ UNCHANGED << fails, how >>
     \/ Wired(p) /\ SensorSeesBit(pins["data"]) /\ Failing(p, FALSE)
     \/ /\ Wired(p) /\ Failing(p, FALSE) /\ pins' = [pins EXCEPT !["data"] = Next1(p).value]
        /\ UNCHANGED << shift, store >>
     \/ ~Wired(p) /\ Failing(p, TRUE) /\ UNCHANGED sensor
  /\ UNCHANGED << variant, signed, ctlCalls, ctlCall, got, fds, camera_mode, n_gain, m_gain, ctlReg, ctlHistory >>

\* Another driver of the bank writes back what it read before: GpioRegister.
BankUndoes ==
  /\ fails < MaxFails /\ fails' = fails + 1
  /\ \E k \in DOMAIN pins : SensorSees(k, 1 - pins[k])
  /\ how' = [p \in Users |-> IF how[p] = "clean" THEN "alone" ELSE how[p]]
  /\ last' = IF last.name # "none" /\ last.how = "clean" THEN [last EXCEPT !.how = "alone"] ELSE last
  /\ UNCHANGED << variant, signed, ctlCalls, ctlCall, todo, got, fds, camera_mode, n_gain, m_gain, ctlReg, ranged >>

(***************************************************************************)
(* The end of a call: its answer, and the variables set last.              *)
(***************************************************************************)
Or(low, high) == IF low < 0 THEN low ELSE ToInt(low + high * B)       \* low | high << 16
Divided(x) == IF x < 0 THEN 0 - ((0 - x) \div K) ELSE x \div K
ExposureAnswer(r) == IF Len(r) < 2 THEN -1 ELSE Divided(Or(r[1], r[2]))
Bit1(mode) == mode % 2                       \* mode & 0x01
Bit2(mode) == IF mode >= 2 THEN 2 ELSE 0     \* mode & 0x2
FlashAnswer(r, mode) ==
  IF r[2] # Bit2(mode) THEN -3 ELSE IF r[1] # Bit1(mode) THEN -2 ELSE 0
Answer(p) ==
  CASE ctlCall[p].name = "exposure" -> ExposureAnswer(got[p])
    [] ctlCall[p].name = "flash" -> FlashAnswer(got[p], ctlCall[p].arg)
    [] OTHER -> 0

EndCall(p) ==
  /\ Doing(p, "end") /\ Goes(p)
  /\ camera_mode' = IF ctlCall[p].name = "mode" THEN [camera_mode EXCEPT ![p] = ctlCall[p].arg] ELSE camera_mode
  /\ m_gain' = IF ctlCall[p].name \in Channels
               THEN [m_gain EXCEPT ![p][ctlCall[p].name] = ctlCall[p].arg] ELSE m_gain
  /\ last' = [name |-> ctlCall[p].name, arg |-> ctlCall[p].arg, by |-> p, how |-> how[p], answer |-> Answer(p)]
  /\ ctlCall' = [ctlCall EXCEPT ![p] = NoCall("idle")] /\ got' = [got EXCEPT ![p] = << >>]
  /\ how' = [how EXCEPT ![p] = "shared"]
  /\ UNCHANGED << variant, signed, ctlCalls, fails, fds, n_gain, ctlReg, sensor, ranged >>

(***************************************************************************)
(* The specification.  The latch may be low at first: camera_ctl leaves    *)
(* the pins as they are.                                                   *)
(***************************************************************************)
CtlInit ==
  /\ variant \in {"camera", "camera_ctl"} /\ signed \in BOOLEAN /\ ctlCalls = 0 /\ fails = 0
  /\ \E inited \in SUBSET Users :
       /\ ctlCall = [p \in Users |-> NoCall(IF p \in inited THEN "idle" ELSE "new")]
       /\ fds  = [p \in Users |-> IF p \in inited THEN {"i2c", "pcie"} ELSE {}]
  /\ todo = [p \in Users |-> << >>] /\ got = [p \in Users |-> << >>]
  /\ camera_mode = [p \in Users |-> -1]
  /\ n_gain = [p \in Users |-> [r \in {Green1Red, Green2Blue} |-> {}]]
  /\ m_gain = [p \in Users |-> [c \in AllChannels |-> {}]]
  /\ ctlReg = [r \in {"mode", "low", "high", "flash1", "flash2", "sharpen", "contrast"} |-> 0]
  /\ \E v \in IF variant = "camera" THEN {0} ELSE {0, 1} : pins = [k \in {"clock", "data", "latch"} |-> IF k = "latch" THEN v ELSE 0]
  /\ shift = << >> /\ store = [r \in {Green1Red, Green2Blue, Other} |-> {}]
  /\ how = [p \in Users |-> "shared"] /\ last = [name |-> "none"] /\ ranged = TRUE

UserStep(p) ==
  \/ CallDevice(p) \/ SetGain(p) \/ I2cWrite(p) \/ I2cRead(p) \/ OpenDevice(p) \/ TestDevice(p)
  \/ SetPin(p) \/ PulseBit(p) \/ EndCall(p)
CtlNext == BankUndoes \/ \E p \in Users : UserStep(p)

CtlSpec == CtlInit /\ [][CtlNext]_ctlVars

CtlTypeOK ==
  /\ \A r \in DOMAIN ctlReg : ctlReg[r] \in 0 .. B - 1
  /\ Len(shift) <= WordSize + 1 /\ \A a \in DOMAIN store : store[a] \subseteq 0 .. D - 1
  /\ \A p \in Users : Len(got[p]) <= 2 /\ fds[p] \subseteq {"i2c", "pcie"}

(* After a gain function that was not disturbed the sensor has the word    *)
(* that the process keeps; and if all gains were in their range, both gains*)
(* of that register are what the get functions of the process return,      *)
(* whoever else sets gains and whatever calls failed or were disturbed     *)
(* before (write_value, set_*_gain and get_*_gain).                        *)
GainsArrive ==
  last.name \in Channels /\ last.how = "clean" =>
    LET p == last.by
        r == GainRegister[last.name]
        upper == IF r = Green1Red THEN "red" ELSE "green2"
        lower == IF r = Green1Red THEN "green1" ELSE "blue"
    IN  /\ store[r] = n_gain[p][r] \cap (0 .. D - 1)
        /\ ranged => Low(store[r]) = m_gain[p][lower] /\ High(store[r]) = m_gain[p][upper]

(* An answer that is no error is true, if no other process calls: a time   *)
(* greater than 0 is what the two registers hold, and what was asked for   *)
(* unless the product overflowed (set_exposure_time); after a 0 both       *)
(* lights are as asked (enable_flashlight).                                *)
AnswersTrue ==
  last.name \in {"exposure", "flash"} /\ last.how # "shared" =>
    /\ last.name = "exposure" /\ last.answer > 0 =>
         /\ last.answer = (ctlReg["low"] + B * ctlReg["high"]) \div K
         /\ last.arg * K < (B * B) \div 2 => last.answer = last.arg
    /\ last.name = "flash" /\ last.answer = 0 =>
         /\ ctlReg["flash1"] = Bit1(last.arg) /\ ctlReg["flash2"] = Bit2(last.arg) \div 2
=============================================================================
