--------------------------- MODULE MCStreamClient ---------------------------
(* Two videos; frames with both of them, one, or none.                     *)
EXTENDS StreamClient

TwoVideos == {<< 1, 1 >>, << 0, 2 >>, << 0, 0 >>}
=============================================================================
