----------------------------- MODULE MCBuffers ------------------------------
(***************************************************************************)
(* A small instance of all the buffers for TLC: two slots, two consumers,  *)
(* and more numbers than slots so that their order shows.                  *)
(***************************************************************************)
EXTENDS Buffers
=============================================================================
