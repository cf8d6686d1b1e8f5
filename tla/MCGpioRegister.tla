---------------------------- MODULE MCGpioRegister ---------------------------
(***************************************************************************)
(* The two levels at the pins, for TLC: GpioRegister, the drivers that     *)
(* share the bank, on boards which pair them so that every two that drive  *)
(* a common pin, and every kind of handler, meet; and CameraCtl, the       *)
(* programs that drive pins through them.  A behaviour has one of the two. *)
(***************************************************************************)
EXTENDS GpioRegister, CameraCtl, TLC

CONSTANTS p1, p2

MCProcs  == {p1, p2}
MCBoards == {{"gprs", "pcie_gpio"}, {"gprs_new", "gpio_key"}, {"system_ready", "buzzer"}}
KeyBoard == {{"system_ready", "gpio_key"}}
MCPins   == {8, 10, 15, 16, 24, 25, 27}
Symmetric == Permutations(MCProcs)

OneBit == {{0}, {1}}     \* a gain in its range, one beyond

VARIABLE which     \* "bank" or "camera"

\* The part that a behaviour has not stays in one of its initial states.
MCInit ==
  /\ which \in {"bank", "camera"}
  /\ Init /\ CtlInit
  /\ which = "camera" => board = {"gprs", "pcie_gpio"}
  /\ which = "bank" => /\ variant = "camera" /\ signed
                       /\ \A p \in MCProcs : fds[p] = {}

MCNext ==
  \/ which = "bank" /\ Next /\ UNCHANGED << which, ctlVars >>
  \/ which = "camera" /\ CtlNext /\ UNCHANGED << which, vars >>

MCSpec == MCInit /\ [][MCNext]_<< which, vars, ctlVars >>
=============================================================================
