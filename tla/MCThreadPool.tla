---------------------------- MODULE MCThreadPool ----------------------------
(***************************************************************************)
(* Small instances of the thread pool for TLC.  The threads and tasks are  *)
(* numbers, as in the code, because main joins the threads in order.       *)
(***************************************************************************)
EXTENDS ThreadPool
=============================================================================
