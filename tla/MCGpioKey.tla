------------------------------ MODULE MCGpioKey ------------------------------
(***************************************************************************)
(* The character drivers for TLC: GpioKey, with two keys, one of which has *)
(* a timer, and two readers; and the small drivers of CharDriver, with as  *)
(* many processes.  A behaviour has one of them.                           *)
(***************************************************************************)
EXTENDS GpioKey, CharDriver, TLC

CONSTANTS r1, r2

MCReaders   == {r1, r2}
MCDebounced == {1}
Symmetric   == Permutations(MCReaders)

VARIABLE which     \* "key" or "small"

\* The part that a behaviour has not stays in its initial state.
MCInit ==
  /\ which \in {"key", "small"}
  /\ Init /\ CharInit
  /\ which = "key" => driver = "hello" /\ ~smp

MCNext ==
  \/ which = "key" /\ Next /\ UNCHANGED << which, charVars >>
  \/ which = "small" /\ CharNext /\ UNCHANGED << which, vars >>

MCSpec == MCInit /\ [][MCNext]_<< which, vars, charVars >>
=============================================================================
