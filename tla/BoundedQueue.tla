---------------------------- MODULE BoundedQueue ----------------------------
(***************************************************************************)
(* What the buffers of src/c/application/pthread/producer_consumer promise *)
(* their callers: a first in first out queue of bounded size, on which     *)
(* putitem and getitem are atomic.  A caller either waits or is told       *)
(* EAGAIN, and then only when the buffer really is full (empty) at that    *)
(* moment.                                            *)
(***************************************************************************)
EXTENDS Integers, Sequences

CONSTANTS
  SIZE,                 (* the slots of the buffer                         *)
  Producers, Consumers, (* the threads that call putitem, getitem          *)
  Items,                (* what they exchange                              *)
  EAGAIN                (* the error, no item                              *)

VARIABLES
  q,     (* the items in the buffer, oldest first                          *)
  result (* what the last call of each thread returned                     *)

Init ==
  /\ q = <<>>
  /\ \E r \in Items : result = [t \in Producers \cup Consumers |-> r]

Answer(t, r) == result' = [result EXCEPT ![t] = r]

Put(p, x) == Len(q) < SIZE /\ q' = Append(q, x) /\ Answer(p, x)
Get(c)    == q # <<>> /\ q' = Tail(q) /\ Answer(c, Head(q))

PutFails(p) == Len(q) = SIZE /\ UNCHANGED q /\ Answer(p, EAGAIN)
GetFails(c) == q = <<>> /\ UNCHANGED q /\ Answer(c, EAGAIN)

Next ==
  \/ \E p \in Producers, x \in Items : Put(p, x)
  \/ \E c \in Consumers : Get(c)
  \/ \E p \in Producers : PutFails(p)
  \/ \E c \in Consumers : GetFails(c)

Spec == Init /\ [][Next]_<<q, result>>
=============================================================================
