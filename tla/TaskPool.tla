------------------------------ MODULE TaskPool ------------------------------
(***************************************************************************)
(* What a thread pool promises its client, without threads, locks or       *)
(* wakeups: tasks start in the order they were submitted, at most Capacity *)
(* run at the same time, each runs once, and closing the pool waits for    *)
(* the running tasks and discards the waiting ones (the comment of         *)
(* pool_destroy, threadpool.c lines 211-215).                              *)
(***************************************************************************)
EXTENDS Integers, Sequences, FiniteSets

CONSTANTS
  Tasks,     (* the tasks a client may submit                              *)
  Capacity   (* how many tasks may run at the same time                    *)

VARIABLES
  waiting,   (* submitted, not started, in submission order                *)
  running,
  finished,
  discarded,
  closed

vars == <<waiting, running, finished, discarded, closed>>

Known == {waiting[k] : k \in 1 .. Len(waiting)}
           \cup running \cup finished \cup discarded

Init ==
  /\ waiting = <<>>
  /\ running = {}
  /\ finished = {}
  /\ discarded = {}
  /\ closed = FALSE

Submit(t) ==
  /\ ~closed /\ t \notin Known
  /\ waiting' = Append(waiting, t)
  /\ UNCHANGED <<running, finished, discarded, closed>>

Start ==
  /\ ~closed /\ waiting # <<>>
  /\ Cardinality(running) < Capacity
  /\ running' = running \cup {Head(waiting)}
  /\ waiting' = Tail(waiting)
  /\ UNCHANGED <<finished, discarded, closed>>

Finish(t) ==
  /\ t \in running
  /\ running' = running \ {t}
  /\ finished' = finished \cup {t}
  /\ UNCHANGED <<waiting, discarded, closed>>

Close ==
  /\ ~closed /\ running = {}
  /\ closed' = TRUE
  /\ UNCHANGED <<waiting, running, finished, discarded>>

Discard ==
  /\ closed /\ waiting # <<>>
  /\ waiting' = Tail(waiting)
  /\ discarded' = discarded \cup {Head(waiting)}
  /\ UNCHANGED <<running, finished, closed>>

Next ==
  \/ \E t \in Tasks : Submit(t) \/ Finish(t)
  \/ Start \/ Close \/ Discard

Spec == Init /\ [][Next]_vars
=============================================================================
