------------------------------- MODULE MCBldc -------------------------------
(* Periods and duties scaled down; their order is that of the code.        *)
EXTENDS Bldc
=============================================================================
