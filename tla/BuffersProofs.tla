--------------------------- MODULE BuffersProofs ----------------------------
(***************************************************************************)
(* For any number of consumers and slots, and for every one of the         *)
(* programs: the tokens of the semaphores are conserved, and with them the *)
(* bounds of the buffer.                                                   *)
(***************************************************************************)
EXTENDS Buffers, FiniteSetTheorems, TLAPS

PCs    == {"unborn", "create", "init", "initing", "marking", "leaving", "wait",
           "lock", "access", "unlock", "post", "stuck"}
Inside == {"lock", "access", "unlock", "post"}
Claims == {"lock", "access"}

Count(T, f, s) == Cardinality({u \in T : f[u] \in s})
In(x, s) == IF x \in s THEN 1 ELSE 0
Total(n) == IF n > 0 THEN SIZE ELSE 0

LEMMA ThreadsFinite == IsFiniteSet(Threads)
  BY BuffersAssumption, FS_AddElement, FS_EmptySet, FS_Union, FS_Singleton,
     Zenon DEF Threads

\* How many threads are in s is a number, and changes by at most one when only
\* one thread moves.
LEMMA CountIsNat ==
  ASSUME NEW T, IsFiniteSet(T), NEW f, NEW s
  PROVE  Count(T, f, s) \in Nat /\ IsFiniteSet({u \in T : f[u] \in s})
<1>1. {u \in T : f[u] \in s} \in SUBSET T
  OBVIOUS
<1> QED
  BY <1>1, FS_Subset, FS_CardinalityType, Zenon DEF Count

LEMMA CountMoves ==
  ASSUME NEW T, IsFiniteSet(T), NEW f, NEW g, NEW s, NEW t \in T,
         \A u \in T \ {t} : g[u] = f[u]
  PROVE  Count(T, g, s) = Count(T, f, s) + In(g[t], s) - In(f[t], s)
<1> DEFINE A == {u \in T : f[u] \in s}
           B == {u \in T : g[u] \in s}
<1>1. /\ IsFiniteSet(A) /\ Cardinality(A) \in Nat
      /\ IsFiniteSet(B) /\ Cardinality(B) \in Nat
  <2>1. A \in SUBSET T /\ B \in SUBSET T
    OBVIOUS
  <2> QED
    BY <2>1, FS_Subset, FS_CardinalityType, Zenon
<1>2. CASE g[t] \in s /\ f[t] \in s
  <2>1. A = B
    BY <1>2
  <2>2. Count(T, f, s) = Count(T, g, s) /\ Count(T, f, s) \in Nat
    BY <2>1, <1>1 DEF Count
  <2> QED
    BY <2>2, <1>2 DEF In
<1>3. CASE g[t] \notin s /\ f[t] \notin s
  <2>1. A = B
    BY <1>3
  <2>2. Count(T, f, s) = Count(T, g, s) /\ Count(T, f, s) \in Nat
    BY <2>1, <1>1 DEF Count
  <2> QED
    BY <2>2, <1>3 DEF In
<1>4. CASE g[t] \in s /\ f[t] \notin s
  <2>1. B = A \cup {t} /\ t \notin A
    BY <1>4
  <2>2. Cardinality(B) = Cardinality(A) + 1
    BY <2>1, <1>1, FS_AddElement, Zenon
  <2> QED
    BY <2>2, <1>1, <1>4 DEF Count, In
<1>5. CASE g[t] \notin s /\ f[t] \in s
  <2>1. B = A \ {t} /\ t \in A
    BY <1>5
  <2>2. Cardinality(B) = Cardinality(A) - 1
    BY <2>1, <1>1, FS_RemoveElement, Zenon
  <2> QED
    BY <2>2, <1>1, <1>5 DEF Count, In
<1> QED
  BY <1>2, <1>3, <1>4, <1>5

LEMMA CountSame ==
  ASSUME NEW T, NEW f, NEW g, NEW s,
         \A u \in T : g[u] \in s <=> f[u] \in s
  PROVE  Count(T, g, s) = Count(T, f, s)
<1>1. {u \in T : g[u] \in s} = {u \in T : f[u] \in s}
  OBVIOUS
<1> QED
  BY <1>1 DEF Count

\* The consumers that were promised an item, and main when it owes one, are
\* among the threads inside.
LEMMA ClaimsInside ==
  ASSUME NEW f
  PROVE  /\ Count(Threads, f, Inside) \in Nat
         /\ Count(Consumers, f, Claims) \in Nat
         /\ Count(Consumers, f, Claims) + In(f["main"], {"unlock", "post"})
              <= Count(Threads, f, Inside)
<1> DEFINE A == {u \in Threads : f[u] \in Inside}
           B == {u \in Consumers : f[u] \in Claims}
<1>1. IsFiniteSet(A) /\ Cardinality(A) \in Nat
  <2>1. A \in SUBSET Threads
    OBVIOUS
  <2> QED
    BY <2>1, ThreadsFinite, FS_Subset, FS_CardinalityType, Zenon
<1>2. IsFiniteSet(B) /\ Cardinality(B) \in Nat
  <2>1. B \in SUBSET Consumers
    OBVIOUS
  <2> QED
    BY <2>1, BuffersAssumption, FS_Subset, FS_CardinalityType, Zenon
<1>3. CASE f["main"] \in {"unlock", "post"}
  <2>1. B \cup {"main"} \in SUBSET A /\ "main" \notin B
    BY <1>3, BuffersAssumption DEF Threads, Inside, Claims
  <2>2. Cardinality(B \cup {"main"}) = Cardinality(B) + 1
    BY <2>1, <1>2, FS_AddElement, Zenon
  <2>3. Cardinality(B \cup {"main"}) <= Cardinality(A)
    BY <2>1, <1>1, FS_Subset, Zenon
  <2> QED
    BY <2>2, <2>3, <1>1, <1>2, <1>3 DEF Count, In
<1>4. CASE f["main"] \notin {"unlock", "post"}
  <2>1. B \in SUBSET A
    BY DEF Threads, Inside, Claims
  <2>2. Cardinality(B) <= Cardinality(A)
    BY <2>1, <1>1, FS_Subset, Zenon
  <2> QED
    BY <2>2, <1>1, <1>2, <1>4 DEF Count, In
<1> QED
  BY <1>3, <1>4

-----------------------------------------------------------------------------
(* The invariant                                                           *)

LEMMA LocksInvariant ==
  ASSUME TypeOK, Births, LockOwner, [Next]_vars
  PROVE  LockOwner'
<1> USE BuffersAssumption DEF TypeOK, Births, LockOwner, Goto, Threads, Nobody, AfterInit, AfterSuccess, NextItem, slots
<1>1. ASSUME NEW t \in Threads, Step(t)
      PROVE  LockOwner'
  <2>1. CASE EnterInit(t)
    BY <2>1 DEF EnterInit
  <2>2. CASE SkipInit(t)
    BY <2>2 DEF SkipInit
  <2>3. CASE BufferInit(t)
    BY <2>3 DEF BufferInit
  <2>4. CASE BufferInitFails(t)
    BY <2>4 DEF BufferInitFails
  <2>5. CASE Call(t)
    BY <2>5 DEF Call
  <2>6. CASE Lock(t)
    BY <2>6 DEF Lock
  <2>7. CASE Unlock(t)
    BY <2>7 DEF Unlock
  <2>8. CASE MarkOnce(t)
    BY <2>8 DEF MarkOnce
  <2>9. CASE LeaveOnce(t)
    BY <2>9 DEF LeaveOnce
  <2> QED
    BY <1>1, <2>1, <2>2, <2>3, <2>4, <2>5, <2>6, <2>7, <2>8, <2>9 DEF Step
<1>2. CASE Create
  BY <1>2 DEF Create
<1>3. CASE WaitSlot
  BY <1>3 DEF WaitSlot
<1>4. CASE Store
  BY <1>4 DEF Store
<1>5. CASE FullBuffer
  BY <1>5 DEF FullBuffer
<1>6. CASE PostItem
  BY <1>6 DEF PostItem
<1>7. ASSUME NEW c \in Consumers, WaitItem(c)
      PROVE  LockOwner'
  BY <1>7 DEF WaitItem
<1>8. ASSUME NEW c \in Consumers, Fetch(c)
      PROVE  LockOwner'
  BY <1>8 DEF Fetch
<1>9. ASSUME NEW c \in Consumers, EmptyBuffer(c)
      PROVE  LockOwner'
  BY <1>9 DEF EmptyBuffer
<1>10. ASSUME NEW c \in Consumers, PostSlot(c)
      PROVE  LockOwner'
  BY <1>10 DEF PostSlot
<1>11. CASE UNCHANGED vars
  BY <1>11 DEF vars
<1> QED
  BY <1>1, <1>2, <1>3, <1>4, <1>5, <1>6, <1>7, <1>8, <1>9, <1>10, <1>11
     DEF Next, MainStep, ConsumerStep, Threads

LEMMA InitInvariant ==
  ASSUME TypeOK, Births, InitPhase, [Next]_vars
  PROVE  InitPhase'
<1> USE BuffersAssumption DEF TypeOK, Births, InitPhase, Goto, Threads, AfterInit, AfterSuccess, Initializing, NextItem, initVars
<1>1. ASSUME NEW t \in Threads, Step(t)
      PROVE  InitPhase'
  <2>1. CASE EnterInit(t)
    BY <2>1 DEF EnterInit
  <2>2. CASE SkipInit(t)
    BY <2>2 DEF SkipInit
  <2>3. CASE BufferInit(t)
    BY <2>3 DEF BufferInit
  <2>4. CASE BufferInitFails(t)
    BY <2>4 DEF BufferInitFails
  <2>5. CASE Call(t)
    BY <2>5 DEF Call
  <2>6. CASE Lock(t)
    BY <2>6 DEF Lock
  <2>7. CASE Unlock(t)
    BY <2>7 DEF Unlock
  <2>8. CASE MarkOnce(t)
    BY <2>8 DEF MarkOnce
  <2>9. CASE LeaveOnce(t)
    BY <2>9 DEF LeaveOnce
  <2> QED
    BY <1>1, <2>1, <2>2, <2>3, <2>4, <2>5, <2>6, <2>7, <2>8, <2>9 DEF Step
<1>2. CASE Create
  BY <1>2 DEF Create
<1>3. CASE WaitSlot
  BY <1>3 DEF WaitSlot
<1>4. CASE Store
  BY <1>4 DEF Store
<1>5. CASE FullBuffer
  BY <1>5 DEF FullBuffer
<1>6. CASE PostItem
  BY <1>6 DEF PostItem
<1>7. ASSUME NEW c \in Consumers, WaitItem(c)
      PROVE  InitPhase'
  BY <1>7 DEF WaitItem
<1>8. ASSUME NEW c \in Consumers, Fetch(c)
      PROVE  InitPhase'
  BY <1>8 DEF Fetch
<1>9. ASSUME NEW c \in Consumers, EmptyBuffer(c)
      PROVE  InitPhase'
  BY <1>9 DEF EmptyBuffer
<1>10. ASSUME NEW c \in Consumers, PostSlot(c)
      PROVE  InitPhase'
  BY <1>10 DEF PostSlot
<1>11. CASE UNCHANGED vars
  BY <1>11 DEF vars
<1> QED
  BY <1>1, <1>2, <1>3, <1>4, <1>5, <1>6, <1>7, <1>8, <1>9, <1>10, <1>11
     DEF Next, MainStep, ConsumerStep, Threads

LEMMA BirthsInvariant ==
  ASSUME TypeOK, Births, Polling, [Next]_vars
  PROVE  Births'
<1> USE BuffersAssumption DEF TypeOK, Births, Polling, Goto, Threads, AfterInit, AfterSuccess, Initializing, NextItem, slots
<1>1. ASSUME NEW t \in Threads, Step(t)
      PROVE  Births'
  <2>1. CASE EnterInit(t)
    BY <2>1 DEF EnterInit
  <2>2. CASE SkipInit(t)
    BY <2>2 DEF SkipInit
  <2>3. CASE BufferInit(t)
    <3>1. PICK stuck \in SUBSET {u \in Threads : pc[u] = "wait"} :
            pc' = [u \in Threads |-> IF u = t THEN AfterSuccess(t)
                                    ELSE IF u \in stuck THEN "stuck" ELSE pc[u]]
      BY ONLY <2>3 DEF BufferInit
    <3>2. pc[t] = "initing" /\ UNCHANGED program
      BY ONLY <2>3 DEF BufferInit, slots
    <3>3. ASSUME NEW u \in Threads, u # t
          PROVE  pc'[u] = pc[u] \/ (pc[u] = "wait" /\ pc'[u] = "stuck")
      BY ONLY <3>1, <3>3
    <3>4. pc'[t] = AfterSuccess(t)
      BY ONLY <3>1
    <3>5. CASE t = "main"
      BY <3>2, <3>3, <3>4, <3>5
    <3>6. CASE t # "main"
      BY <3>2, <3>3, <3>4, <3>6
    <3> QED
      BY ONLY <3>5, <3>6
  <2>4. CASE BufferInitFails(t)
    BY <2>4 DEF BufferInitFails
  <2>5. CASE Call(t)
    BY <2>5 DEF Call
  <2>6. CASE Lock(t)
    BY <2>6 DEF Lock
  <2>7. CASE Unlock(t)
    BY <2>7 DEF Unlock
  <2>8. CASE MarkOnce(t)
    BY <2>8 DEF MarkOnce
  <2>9. CASE LeaveOnce(t)
    BY <2>9 DEF LeaveOnce
  <2> QED
    BY <1>1, <2>1, <2>2, <2>3, <2>4, <2>5, <2>6, <2>7, <2>8, <2>9 DEF Step
<1>2. CASE Create
  BY <1>2 DEF Create
<1>3. CASE WaitSlot
  BY <1>3 DEF WaitSlot
<1>4. CASE Store
  BY <1>4 DEF Store
<1>5. CASE FullBuffer
  BY <1>5 DEF FullBuffer
<1>6. CASE PostItem
  BY <1>6 DEF PostItem
<1>7. ASSUME NEW c \in Consumers, WaitItem(c)
      PROVE  Births'
  BY <1>7 DEF WaitItem
<1>8. ASSUME NEW c \in Consumers, Fetch(c)
      PROVE  Births'
  BY <1>8 DEF Fetch
<1>9. ASSUME NEW c \in Consumers, EmptyBuffer(c)
      PROVE  Births'
  BY <1>9 DEF EmptyBuffer
<1>10. ASSUME NEW c \in Consumers, PostSlot(c)
      PROVE  Births'
  BY <1>10 DEF PostSlot
<1>11. CASE UNCHANGED vars
  BY <1>11 DEF vars
<1> QED
  BY <1>1, <1>2, <1>3, <1>4, <1>5, <1>6, <1>7, <1>8, <1>9, <1>10, <1>11
     DEF Next, MainStep, ConsumerStep, Threads

LEMMA PollingInvariant ==
  ASSUME TypeOK, Polling, [Next]_vars
  PROVE  Polling'
<1> USE BuffersAssumption DEF TypeOK, Polling, Goto, Threads, AfterInit, AfterSuccess, Initializing, NextItem, slots
<1>1. ASSUME NEW t \in Threads, Step(t)
      PROVE  Polling'
  <2>1. CASE EnterInit(t)
    BY <2>1 DEF EnterInit
  <2>2. CASE SkipInit(t)
    BY <2>2 DEF SkipInit
  <2>3. CASE BufferInit(t)
    BY <2>3 DEF BufferInit
  <2>4. CASE BufferInitFails(t)
    BY <2>4 DEF BufferInitFails
  <2>5. CASE Call(t)
    BY <2>5 DEF Call
  <2>6. CASE Lock(t)
    BY <2>6 DEF Lock
  <2>7. CASE Unlock(t)
    BY <2>7 DEF Unlock
  <2>8. CASE MarkOnce(t)
    BY <2>8 DEF MarkOnce
  <2>9. CASE LeaveOnce(t)
    BY <2>9 DEF LeaveOnce
  <2> QED
    BY <1>1, <2>1, <2>2, <2>3, <2>4, <2>5, <2>6, <2>7, <2>8, <2>9 DEF Step
<1>2. CASE Create
  BY <1>2 DEF Create
<1>3. CASE WaitSlot
  BY <1>3 DEF WaitSlot
<1>4. CASE Store
  BY <1>4 DEF Store
<1>5. CASE FullBuffer
  BY <1>5 DEF FullBuffer
<1>6. CASE PostItem
  BY <1>6 DEF PostItem
<1>7. ASSUME NEW c \in Consumers, WaitItem(c)
      PROVE  Polling'
  BY <1>7 DEF WaitItem
<1>8. ASSUME NEW c \in Consumers, Fetch(c)
      PROVE  Polling'
  BY <1>8 DEF Fetch
<1>9. ASSUME NEW c \in Consumers, EmptyBuffer(c)
      PROVE  Polling'
  BY <1>9 DEF EmptyBuffer
<1>10. ASSUME NEW c \in Consumers, PostSlot(c)
      PROVE  Polling'
  BY <1>10 DEF PostSlot
<1>11. CASE UNCHANGED vars
  BY <1>11 DEF vars
<1> QED
  BY <1>1, <1>2, <1>3, <1>4, <1>5, <1>6, <1>7, <1>8, <1>9, <1>10, <1>11
     DEF Next, MainStep, ConsumerStep, Threads

LEMMA ProgramFixed == [Next]_vars => program' = program
  BY DEF Next, MainStep, ConsumerStep, Step, EnterInit, SkipInit, BufferInit,
     BufferInitFails, MarkOnce, LeaveOnce, Call, Lock, Unlock, Create, WaitSlot, Store, FullBuffer,
     PostItem, WaitItem, Fetch, EmptyBuffer, PostSlot, slots, vars

LEMMA SameCounts ==
  ASSUME \A u \in Threads : /\ pc'[u] \in Inside <=> pc[u] \in Inside
                            /\ pc'[u] \in Claims <=> pc[u] \in Claims
  PROVE  /\ Count(Threads, pc', Inside) = Count(Threads, pc, Inside)
         /\ Count(Consumers, pc', Claims) = Count(Consumers, pc, Claims)
<1>1. {u \in Threads : pc'[u] \in Inside} = {u \in Threads : pc[u] \in Inside}
  OBVIOUS
<1>2. {u \in Consumers : pc'[u] \in Claims} = {u \in Consumers : pc[u] \in Claims}
  BY DEF Threads
<1> QED
  BY <1>1, <1>2 DEF Count

LEMMA CountThreads ==
  ASSUME NEW t \in Threads, \A u \in Threads \ {t} : pc'[u] = pc[u], NEW s
  PROVE  Count(Threads, pc', s) =
           Count(Threads, pc, s) + In(pc'[t], s) - In(pc[t], s)
  BY CountMoves, ThreadsFinite, SMT

LEMMA CountConsumers ==
  ASSUME NEW t \in Consumers, \A u \in Consumers \ {t} : pc'[u] = pc[u], NEW s
  PROVE  Count(Consumers, pc', s) =
           Count(Consumers, pc, s) + In(pc'[t], s) - In(pc[t], s)
  BY CountMoves, BuffersAssumption, SMT

\* The two counts, when one thread moves from where it is to v.
LEMMA MoveCounts ==
  ASSUME TypeOK, NEW t \in Threads, NEW v, pc' = [pc EXCEPT ![t] = v]
  PROVE  /\ Count(Threads, pc', Inside) =
              Count(Threads, pc, Inside) + In(v, Inside) - In(pc[t], Inside)
         /\ t = "main" =>
              Count(Consumers, pc', Claims) = Count(Consumers, pc, Claims)
         /\ t # "main" =>
              Count(Consumers, pc', Claims) =
                Count(Consumers, pc, Claims) + In(v, Claims) - In(pc[t], Claims)
         /\ pc[t] \in PCs /\ pc'[t] = v
         /\ t # "main" => pc'["main"] = pc["main"]
<1>1. pc'[t] = v /\ pc[t] \in PCs
  BY DEF TypeOK, PCs
<1>0. \A u \in Threads \ {t} : pc'[u] = pc[u]
  BY DEF TypeOK
<1>2. Count(Threads, pc', Inside) =
        Count(Threads, pc, Inside) + In(pc'[t], Inside) - In(pc[t], Inside)
  BY <1>0, CountThreads, Zenon
<1>3. ASSUME t = "main"
      PROVE  Count(Consumers, pc', Claims) = Count(Consumers, pc, Claims)
  <2>1. \A u \in Consumers : pc'[u] \in Claims <=> pc[u] \in Claims
    BY <1>0, <1>3, BuffersAssumption DEF Threads
  <2> QED
    BY <2>1, CountSame, Zenon
<1>4. ASSUME t # "main"
      PROVE  Count(Consumers, pc', Claims) =
               Count(Consumers, pc, Claims) + In(pc'[t], Claims) - In(pc[t], Claims)
  <2>1. t \in Consumers
    BY <1>4 DEF Threads
  <2>2. \A u \in Consumers \ {t} : pc'[u] = pc[u]
    BY <1>0 DEF Threads
  <2> QED
    BY <2>1, <2>2, CountConsumers, Zenon
<1>5. t # "main" => pc'["main"] = pc["main"]
  BY <1>0 DEF Threads
<1> QED
  BY <1>1, <1>2, <1>3, <1>4, <1>5

\* The conserved quantities, in terms of the two counts.
LEMMA TokensAsCounts ==
  TokensConserved <=> (program # 2 =>
    /\ semitems + semslots + Count(Threads, pc, Inside) = Total(inits)
    /\ totalitems = semitems + Count(Consumers, pc, Claims)
               + In(pc["main"], {"unlock", "post"}))
  BY DEF TokensConserved, Total, Between, Fetching, Stored, Count, Inside, Claims, In

LEMMA TokensAsCountsNext ==
  TokensConserved' <=> (program' # 2 =>
    /\ semitems' + semslots' + Count(Threads, pc', Inside) = Total(inits')
    /\ totalitems' = semitems' + Count(Consumers, pc', Claims)
                + In(pc'["main"], {"unlock", "post"}))
  BY DEF TokensConserved, Total, Between, Fetching, Stored, Count, Inside, Claims, In

LEMMA TokensInvariant ==
  ASSUME program # 2, TypeOK, InitPhase, Births, TokensConserved, [Next]_vars
  PROVE  TokensConserved'
<1>a. /\ semitems + semslots + Count(Threads, pc, Inside) = Total(inits)
      /\ totalitems = semitems + Count(Consumers, pc, Claims)
                 + In(pc["main"], {"unlock", "post"})
      /\ Count(Threads, pc, Inside) \in Nat /\ Count(Consumers, pc, Claims) \in Nat
      /\ SIZE \in Nat /\ inits \in {0, 1} /\ totalitems \in Nat
      /\ semitems \in Nat /\ semslots \in Nat
      /\ In(pc["main"], {"unlock", "post"}) \in Nat
  <2>1. Count(Threads, pc, Inside) \in Nat /\ Count(Consumers, pc, Claims) \in Nat
    BY ClaimsInside, Zenon
  <2>2. /\ SIZE \in Nat /\ inits \in {0, 1} /\ totalitems \in Nat
        /\ semitems \in Nat /\ semslots \in Nat
    BY BuffersAssumption DEF TypeOK
  <2>3. In(pc["main"], {"unlock", "post"}) \in Nat
    BY DEF In
  <2> QED
    BY <2>1, <2>2, <2>3, TokensAsCounts
<1>1. ASSUME NEW t \in Threads, Step(t)
      PROVE  TokensConserved'
  <2>1. CASE EnterInit(t)
    <3>1. pc' = [pc EXCEPT ![t] = "initing"] /\ t \in Threads
      BY <2>1 DEF EnterInit, Goto, Threads
    <3> HIDE DEF Inside, Claims, PCs
    <3>2. /\ Count(Threads, pc', Inside) =
                  Count(Threads, pc, Inside) + In("initing", Inside) - In(pc[t], Inside)
          /\ t = "main" => Count(Consumers, pc', Claims) = Count(Consumers, pc, Claims)
          /\ t # "main" => Count(Consumers, pc', Claims) =
                  Count(Consumers, pc, Claims) + In("initing", Claims) - In(pc[t], Claims)
          /\ pc'[t] = "initing" /\ (t # "main" => pc'["main"] = pc["main"])
      BY <3>1, MoveCounts, Zenon
    <3>3. /\ In("initing", Inside) = 0 /\ In(pc[t], Inside) = 0
          /\ In("initing", Claims) = 0 /\ In(pc[t], Claims) = 0
          /\ In("initing", {"unlock", "post"}) = 0 /\ In(pc[t], {"unlock", "post"}) = 0
      BY <2>1 DEF EnterInit, Goto, AfterInit, NextItem, Inside, Claims, In
    <3>4. t = "main" \/ t # "main"
      BY BuffersAssumption
    <3> QED
      BY TokensAsCountsNext, <2>1, <3>2, <3>3, <3>4, <1>a
         DEF EnterInit, Total, slots, sems, initVars
  <2>2. CASE SkipInit(t)
    <3>1. pc' = [pc EXCEPT ![t] = AfterInit(t)] /\ t \in Threads
      BY <2>2 DEF SkipInit, Goto, Threads
    <3> HIDE DEF Inside, Claims, PCs
    <3>2. /\ Count(Threads, pc', Inside) =
                  Count(Threads, pc, Inside) + In(AfterInit(t), Inside) - In(pc[t], Inside)
          /\ t = "main" => Count(Consumers, pc', Claims) = Count(Consumers, pc, Claims)
          /\ t # "main" => Count(Consumers, pc', Claims) =
                  Count(Consumers, pc, Claims) + In(AfterInit(t), Claims) - In(pc[t], Claims)
          /\ pc'[t] = AfterInit(t) /\ (t # "main" => pc'["main"] = pc["main"])
      BY <3>1, MoveCounts, Zenon
    <3>3. /\ In(AfterInit(t), Inside) = 0 /\ In(pc[t], Inside) = 0
          /\ In(AfterInit(t), Claims) = 0 /\ In(pc[t], Claims) = 0
          /\ In(AfterInit(t), {"unlock", "post"}) = 0 /\ In(pc[t], {"unlock", "post"}) = 0
      BY <2>2 DEF SkipInit, Goto, AfterInit, NextItem, Inside, Claims, In
    <3>4. t = "main" \/ t # "main"
      BY BuffersAssumption
    <3> QED
      BY TokensAsCountsNext, <2>2, <3>2, <3>3, <3>4, <1>a
         DEF SkipInit, Total, slots, sems, initVars
  <2>3. CASE BufferInit(t)
    <3>1. \A u \in Threads : /\ pc'[u] \in Inside <=> pc[u] \in Inside
                             /\ pc'[u] \in Claims <=> pc[u] \in Claims
                             /\ pc'[u] \in {"unlock", "post"} <=> pc[u] \in {"unlock", "post"}
      BY <2>3 DEF BufferInit, AfterInit, AfterSuccess, TypeOK, Inside, Claims, Threads
    <3>2. /\ Count(Threads, pc', Inside) = Count(Threads, pc, Inside)
          /\ Count(Consumers, pc', Claims) = Count(Consumers, pc, Claims)
      BY <3>1, SameCounts
    <3>a. In(pc'["main"], {"unlock", "post"}) = In(pc["main"], {"unlock", "post"})
      BY <3>1, SMT DEF Threads, In
    <3>3. inits = 0
      BY <2>3 DEF BufferInit, InitPhase, TypeOK
    <3>b. Total(inits) = 0
      BY <3>3 DEF Total
    <3>4. semitems = 0 /\ semslots = 0 /\ Count(Threads, pc, Inside) = 0
      BY <3>b, <1>a
    <3> QED
      BY TokensAsCountsNext, <2>3, <3>2, <3>a, <3>3, <3>4, <1>a DEF Total, BufferInit, slots
  <2>4. CASE BufferInitFails(t)
    <3>1. pc' = [pc EXCEPT ![t] = AfterInit(t)] /\ t \in Threads
      BY <2>4 DEF BufferInitFails, Goto, Threads
    <3> HIDE DEF Inside, Claims, PCs
    <3>2. /\ Count(Threads, pc', Inside) =
                  Count(Threads, pc, Inside) + In(AfterInit(t), Inside) - In(pc[t], Inside)
          /\ t = "main" => Count(Consumers, pc', Claims) = Count(Consumers, pc, Claims)
          /\ t # "main" => Count(Consumers, pc', Claims) =
                  Count(Consumers, pc, Claims) + In(AfterInit(t), Claims) - In(pc[t], Claims)
          /\ pc'[t] = AfterInit(t) /\ (t # "main" => pc'["main"] = pc["main"])
      BY <3>1, MoveCounts, Zenon
    <3>3. /\ In(AfterInit(t), Inside) = 0 /\ In(pc[t], Inside) = 0
          /\ In(AfterInit(t), Claims) = 0 /\ In(pc[t], Claims) = 0
          /\ In(AfterInit(t), {"unlock", "post"}) = 0 /\ In(pc[t], {"unlock", "post"}) = 0
      BY <2>4 DEF BufferInitFails, Goto, AfterInit, NextItem, Inside, Claims, In
    <3>4. t = "main" \/ t # "main"
      BY BuffersAssumption
    <3> QED
      BY TokensAsCountsNext, <2>4, <3>2, <3>3, <3>4, <1>a
         DEF BufferInitFails, Total, slots, sems, initVars
  <2>5. CASE Call(t)
    BY <2>5 DEF Call
  <2>6. CASE Lock(t)
    <3>1. pc' = [pc EXCEPT ![t] = "access"] /\ t \in Threads
      BY <2>6 DEF Lock, Goto, Threads
    <3> HIDE DEF Inside, Claims, PCs
    <3>2. /\ Count(Threads, pc', Inside) =
                  Count(Threads, pc, Inside) + In("access", Inside) - In(pc[t], Inside)
          /\ t = "main" => Count(Consumers, pc', Claims) = Count(Consumers, pc, Claims)
          /\ t # "main" => Count(Consumers, pc', Claims) =
                  Count(Consumers, pc, Claims) + In("access", Claims) - In(pc[t], Claims)
          /\ pc'[t] = "access" /\ (t # "main" => pc'["main"] = pc["main"])
      BY <3>1, MoveCounts, Zenon
    <3>3. /\ In("access", Inside) = 1 /\ In(pc[t], Inside) = 1
          /\ In("access", Claims) = 1 /\ In(pc[t], Claims) = 1
          /\ In("access", {"unlock", "post"}) = 0 /\ In(pc[t], {"unlock", "post"}) = 0
      BY <2>6 DEF Lock, Goto, AfterInit, NextItem, Inside, Claims, In
    <3>4. t = "main" \/ t # "main"
      BY BuffersAssumption
    <3> QED
      BY TokensAsCountsNext, <2>6, <3>2, <3>3, <3>4, <1>a
         DEF Lock, Total, slots, sems, initVars
  <2>7. CASE Unlock(t)
    <3>1. pc' = [pc EXCEPT ![t] = "post"] /\ t \in Threads
      BY <2>7 DEF Unlock, Goto, Threads
    <3> HIDE DEF Inside, Claims, PCs
    <3>2. /\ Count(Threads, pc', Inside) =
                  Count(Threads, pc, Inside) + In("post", Inside) - In(pc[t], Inside)
          /\ t = "main" => Count(Consumers, pc', Claims) = Count(Consumers, pc, Claims)
          /\ t # "main" => Count(Consumers, pc', Claims) =
                  Count(Consumers, pc, Claims) + In("post", Claims) - In(pc[t], Claims)
          /\ pc'[t] = "post" /\ (t # "main" => pc'["main"] = pc["main"])
      BY <3>1, MoveCounts, Zenon
    <3>3. /\ In("post", Inside) = 1 /\ In(pc[t], Inside) = 1
          /\ In("post", Claims) = 0 /\ In(pc[t], Claims) = 0
          /\ In("post", {"unlock", "post"}) = 1 /\ In(pc[t], {"unlock", "post"}) = 1
      BY <2>7 DEF Unlock, Goto, AfterInit, NextItem, Inside, Claims, In
    <3>4. t = "main" \/ t # "main"
      BY BuffersAssumption
    <3> QED
      BY TokensAsCountsNext, <2>7, <3>2, <3>3, <3>4, <1>a
         DEF Unlock, Total, slots, sems, initVars
  <2>8. CASE MarkOnce(t)
    <3>1. \A u \in Threads : /\ pc'[u] \in Inside <=> pc[u] \in Inside
                             /\ pc'[u] \in Claims <=> pc[u] \in Claims
                             /\ pc'[u] \in {"unlock", "post"} <=> pc[u] \in {"unlock", "post"}
      BY <2>8 DEF MarkOnce, TypeOK, Inside, Claims, Threads
    <3>2. /\ Count(Threads, pc', Inside) = Count(Threads, pc, Inside)
          /\ Count(Consumers, pc', Claims) = Count(Consumers, pc, Claims)
      BY <3>1, SameCounts
    <3>a. In(pc'["main"], {"unlock", "post"}) = In(pc["main"], {"unlock", "post"})
      BY <3>1, SMT DEF Threads, In
    <3> QED
      BY TokensAsCountsNext, <2>8, <3>2, <3>a, <1>a DEF MarkOnce, slots, sems, initVars
  <2>9. CASE LeaveOnce(t)
    <3>1. pc' = [pc EXCEPT ![t] = AfterInit(t)] /\ t \in Threads
      BY <2>9 DEF LeaveOnce, Goto, Threads
    <3> HIDE DEF Inside, Claims, PCs
    <3>2. /\ Count(Threads, pc', Inside) =
                  Count(Threads, pc, Inside) + In(AfterInit(t), Inside) - In(pc[t], Inside)
          /\ t = "main" => Count(Consumers, pc', Claims) = Count(Consumers, pc, Claims)
          /\ t # "main" => Count(Consumers, pc', Claims) =
                  Count(Consumers, pc, Claims) + In(AfterInit(t), Claims) - In(pc[t], Claims)
          /\ pc'[t] = AfterInit(t) /\ (t # "main" => pc'["main"] = pc["main"])
      BY <3>1, MoveCounts, Zenon
    <3>3. /\ In(AfterInit(t), Inside) = 0 /\ In(pc[t], Inside) = 0
          /\ In(AfterInit(t), Claims) = 0 /\ In(pc[t], Claims) = 0
          /\ In(AfterInit(t), {"unlock", "post"}) = 0 /\ In(pc[t], {"unlock", "post"}) = 0
      BY <2>9 DEF LeaveOnce, Goto, AfterInit, NextItem, Inside, Claims, In
    <3>4. t = "main" \/ t # "main"
      BY BuffersAssumption
    <3> QED
      BY TokensAsCountsNext, <2>9, <3>2, <3>3, <3>4, <1>a
         DEF LeaveOnce, Total, slots, sems, initVars
  <2> QED
    BY <1>1, <2>1, <2>2, <2>3, <2>4, <2>5, <2>6, <2>7, <2>8, <2>9 DEF Step
<1>2. CASE Create
  <2>1. \A u \in Threads : /\ pc'[u] \in Inside <=> pc[u] \in Inside
                           /\ pc'[u] \in Claims <=> pc[u] \in Claims
                           /\ pc'[u] \in {"unlock", "post"} <=> pc[u] \in {"unlock", "post"}
    BY <1>2 DEF Create, Births, NextItem, TypeOK, Inside, Claims, Threads
  <2>2. /\ Count(Threads, pc', Inside) = Count(Threads, pc, Inside)
        /\ Count(Consumers, pc', Claims) = Count(Consumers, pc, Claims)
    BY <2>1, SameCounts
  <2>a. In(pc'["main"], {"unlock", "post"}) = In(pc["main"], {"unlock", "post"})
    BY <2>1, SMT DEF Threads, In
  <2> QED
    BY TokensAsCountsNext, <1>2, <2>2, <2>a, <1>a DEF Total, Create, sems, initVars, slots
<1>3. CASE WaitSlot
  <2>1. pc' = [pc EXCEPT !["main"] = "lock"] /\ "main" \in Threads
    BY <1>3 DEF WaitSlot, Goto, Threads
  <2> HIDE DEF Inside, Claims, PCs
  <2>2. /\ Count(Threads, pc', Inside) =
                Count(Threads, pc, Inside) + In("lock", Inside) - In(pc["main"], Inside)
        /\ "main" = "main" => Count(Consumers, pc', Claims) = Count(Consumers, pc, Claims)
        /\ "main" # "main" => Count(Consumers, pc', Claims) =
                Count(Consumers, pc, Claims) + In("lock", Claims) - In(pc["main"], Claims)
        /\ pc'["main"] = "lock" /\ ("main" # "main" => pc'["main"] = pc["main"])
    BY <2>1, MoveCounts, Zenon
  <2>3. /\ In("lock", Inside) = 1 /\ In(pc["main"], Inside) = 0
        /\ In("lock", Claims) = 1 /\ In(pc["main"], Claims) = 0
        /\ In("lock", {"unlock", "post"}) = 0 /\ In(pc["main"], {"unlock", "post"}) = 0
    BY <1>3 DEF WaitSlot, Goto, AfterInit, NextItem, Inside, Claims, In
  <2>4. "main" = "main"
    BY BuffersAssumption
  <2> QED
    BY TokensAsCountsNext, <1>3, <2>2, <2>3, <2>4, <1>a
       DEF WaitSlot, Total, slots, sems, initVars
<1>4. CASE Store
  <2>1. pc' = [pc EXCEPT !["main"] = "unlock"] /\ "main" \in Threads
    BY <1>4 DEF Store, Goto, Threads
  <2> HIDE DEF Inside, Claims, PCs
  <2>2. /\ Count(Threads, pc', Inside) =
                Count(Threads, pc, Inside) + In("unlock", Inside) - In(pc["main"], Inside)
        /\ "main" = "main" => Count(Consumers, pc', Claims) = Count(Consumers, pc, Claims)
        /\ "main" # "main" => Count(Consumers, pc', Claims) =
                Count(Consumers, pc, Claims) + In("unlock", Claims) - In(pc["main"], Claims)
        /\ pc'["main"] = "unlock" /\ ("main" # "main" => pc'["main"] = pc["main"])
    BY <2>1, MoveCounts, Zenon
  <2>3. /\ In("unlock", Inside) = 1 /\ In(pc["main"], Inside) = 1
        /\ In("unlock", Claims) = 0 /\ In(pc["main"], Claims) = 1
        /\ In("unlock", {"unlock", "post"}) = 1 /\ In(pc["main"], {"unlock", "post"}) = 0
    BY <1>4 DEF Store, Goto, AfterInit, NextItem, Inside, Claims, In
  <2>4. "main" = "main"
    BY BuffersAssumption
  <2> QED
    BY TokensAsCountsNext, <1>4, <2>2, <2>3, <2>4, <1>a
       DEF Store, Total, slots, sems, initVars
<1>5. CASE FullBuffer
  BY <1>5 DEF FullBuffer
<1>6. CASE PostItem
  <2>1. pc' = [pc EXCEPT !["main"] = NextItem] /\ "main" \in Threads
    BY <1>6 DEF PostItem, Goto, Threads
  <2> HIDE DEF Inside, Claims, PCs
  <2>2. /\ Count(Threads, pc', Inside) =
                Count(Threads, pc, Inside) + In(NextItem, Inside) - In(pc["main"], Inside)
        /\ "main" = "main" => Count(Consumers, pc', Claims) = Count(Consumers, pc, Claims)
        /\ "main" # "main" => Count(Consumers, pc', Claims) =
                Count(Consumers, pc, Claims) + In(NextItem, Claims) - In(pc["main"], Claims)
        /\ pc'["main"] = NextItem /\ ("main" # "main" => pc'["main"] = pc["main"])
    BY <2>1, MoveCounts, Zenon
  <2>3. /\ In(NextItem, Inside) = 0 /\ In(pc["main"], Inside) = 1
        /\ In(NextItem, Claims) = 0 /\ In(pc["main"], Claims) = 0
        /\ In(NextItem, {"unlock", "post"}) = 0 /\ In(pc["main"], {"unlock", "post"}) = 1
    BY <1>6 DEF PostItem, Goto, AfterInit, NextItem, Inside, Claims, In
  <2>4. "main" = "main"
    BY BuffersAssumption
  <2> QED
    BY TokensAsCountsNext, <1>6, <2>2, <2>3, <2>4, <1>a
       DEF PostItem, Total, slots, sems, initVars
<1>7. ASSUME NEW c \in Consumers, WaitItem(c)
      PROVE  TokensConserved'
  <2>1. pc' = [pc EXCEPT ![c] = "lock"] /\ c \in Threads
    BY <1>7 DEF WaitItem, Goto, Threads
  <2> HIDE DEF Inside, Claims, PCs
  <2>2. /\ Count(Threads, pc', Inside) =
                Count(Threads, pc, Inside) + In("lock", Inside) - In(pc[c], Inside)
        /\ c = "main" => Count(Consumers, pc', Claims) = Count(Consumers, pc, Claims)
        /\ c # "main" => Count(Consumers, pc', Claims) =
                Count(Consumers, pc, Claims) + In("lock", Claims) - In(pc[c], Claims)
        /\ pc'[c] = "lock" /\ (c # "main" => pc'["main"] = pc["main"])
    BY <2>1, MoveCounts, Zenon
  <2>3. /\ In("lock", Inside) = 1 /\ In(pc[c], Inside) = 0
        /\ In("lock", Claims) = 1 /\ In(pc[c], Claims) = 0
        /\ In("lock", {"unlock", "post"}) = 0 /\ In(pc[c], {"unlock", "post"}) = 0
    BY <1>7 DEF WaitItem, Goto, AfterInit, NextItem, Inside, Claims, In
  <2>4. c # "main"
    BY BuffersAssumption
  <2> QED
    BY TokensAsCountsNext, <1>7, <2>2, <2>3, <2>4, <1>a
       DEF WaitItem, Total, slots, sems, initVars
<1>8. ASSUME NEW c \in Consumers, Fetch(c)
      PROVE  TokensConserved'
  <2>1. pc' = [pc EXCEPT ![c] = "unlock"] /\ c \in Threads
    BY <1>8 DEF Fetch, Goto, Threads
  <2> HIDE DEF Inside, Claims, PCs
  <2>2. /\ Count(Threads, pc', Inside) =
                Count(Threads, pc, Inside) + In("unlock", Inside) - In(pc[c], Inside)
        /\ c = "main" => Count(Consumers, pc', Claims) = Count(Consumers, pc, Claims)
        /\ c # "main" => Count(Consumers, pc', Claims) =
                Count(Consumers, pc, Claims) + In("unlock", Claims) - In(pc[c], Claims)
        /\ pc'[c] = "unlock" /\ (c # "main" => pc'["main"] = pc["main"])
    BY <2>1, MoveCounts, Zenon
  <2>3. /\ In("unlock", Inside) = 1 /\ In(pc[c], Inside) = 1
        /\ In("unlock", Claims) = 0 /\ In(pc[c], Claims) = 1
        /\ In("unlock", {"unlock", "post"}) = 1 /\ In(pc[c], {"unlock", "post"}) = 0
    BY <1>8 DEF Fetch, Goto, AfterInit, NextItem, Inside, Claims, In
  <2>4. c # "main"
    BY BuffersAssumption
  <2> QED
    BY TokensAsCountsNext, <1>8, <2>2, <2>3, <2>4, <1>a
       DEF Fetch, Total, slots, sems, initVars
<1>9. ASSUME NEW c \in Consumers, EmptyBuffer(c)
      PROVE  TokensConserved'
  BY <1>9 DEF EmptyBuffer
<1>10. ASSUME NEW c \in Consumers, PostSlot(c)
      PROVE  TokensConserved'
  <2>1. pc' = [pc EXCEPT ![c] = NextItem] /\ c \in Threads
    BY <1>10 DEF PostSlot, Goto, Threads
  <2> HIDE DEF Inside, Claims, PCs
  <2>2. /\ Count(Threads, pc', Inside) =
                Count(Threads, pc, Inside) + In(NextItem, Inside) - In(pc[c], Inside)
        /\ c = "main" => Count(Consumers, pc', Claims) = Count(Consumers, pc, Claims)
        /\ c # "main" => Count(Consumers, pc', Claims) =
                Count(Consumers, pc, Claims) + In(NextItem, Claims) - In(pc[c], Claims)
        /\ pc'[c] = NextItem /\ (c # "main" => pc'["main"] = pc["main"])
    BY <2>1, MoveCounts, Zenon
  <2>3. /\ In(NextItem, Inside) = 0 /\ In(pc[c], Inside) = 1
        /\ In(NextItem, Claims) = 0 /\ In(pc[c], Claims) = 0
        /\ In(NextItem, {"unlock", "post"}) = 0 /\ In(pc[c], {"unlock", "post"}) = 1
    BY <1>10 DEF PostSlot, Goto, AfterInit, NextItem, Inside, Claims, In
  <2>4. c # "main"
    BY BuffersAssumption
  <2> QED
    BY TokensAsCountsNext, <1>10, <2>2, <2>3, <2>4, <1>a
       DEF PostSlot, Total, slots, sems, initVars
<1>11. CASE UNCHANGED vars
  <2>1. \A u \in Threads : /\ pc'[u] \in Inside <=> pc[u] \in Inside
                           /\ pc'[u] \in Claims <=> pc[u] \in Claims
                           /\ pc'[u] \in {"unlock", "post"} <=> pc[u] \in {"unlock", "post"}
    BY <1>11 DEF vars, Inside, Claims, Threads
  <2>2. /\ Count(Threads, pc', Inside) = Count(Threads, pc, Inside)
        /\ Count(Consumers, pc', Claims) = Count(Consumers, pc, Claims)
    BY <2>1, SameCounts
  <2>a. In(pc'["main"], {"unlock", "post"}) = In(pc["main"], {"unlock", "post"})
    BY <2>1, SMT DEF Threads, In
  <2> QED
    BY TokensAsCountsNext, <1>11, <2>2, <2>a, <1>a DEF Total, vars, sems, initVars, slots
<1> QED
  BY <1>1, <1>2, <1>3, <1>4, <1>5, <1>6, <1>7, <1>8, <1>9, <1>10, <1>11
     DEF Next, MainStep, ConsumerStep, Threads

LEMMA TypeInvariant ==
  ASSUME TypeOK, InitPhase, Polling, TokensConserved', [Next]_vars
  PROVE  TypeOK'
<1>a. /\ program' # 2 =>
           /\ semitems' + semslots' + Count(Threads, pc', Inside) = Total(inits')
           /\ totalitems' = semitems' + Count(Consumers, pc', Claims)
                             + In(pc'["main"], {"unlock", "post"})
      /\ Count(Threads, pc', Inside) \in Nat /\ Count(Consumers, pc', Claims) \in Nat
      /\ Count(Consumers, pc', Claims) + In(pc'["main"], {"unlock", "post"})
           <= Count(Threads, pc', Inside)
  BY TokensAsCountsNext, ClaimsInside
<1>b. program' # 2 /\ inits' \in {0, 1} /\ semitems' \in Nat /\ semslots' \in Nat
      => semitems' \in 0 .. SIZE /\ semslots' \in 0 .. SIZE /\ totalitems' \in 0 .. SIZE
  <2> SUFFICES ASSUME program' # 2, inits' \in {0, 1}, semitems' \in Nat, semslots' \in Nat
               PROVE  semitems' \in 0 .. SIZE /\ semslots' \in 0 .. SIZE /\ totalitems' \in 0 .. SIZE
    OBVIOUS
  <2>1. Total(inits') \in Nat /\ Total(inits') <= SIZE /\ SIZE \in Nat
    BY BuffersAssumption DEF Total
  <2>2. In(pc'["main"], {"unlock", "post"}) \in Nat
    BY DEF In
  <2> QED
    BY <1>a, <2>1, <2>2
<1> USE BuffersAssumption DEF TypeOK, Polling, Goto, Threads, Items, EAGAIN, Nobody, Answer,
      AfterInit, AfterSuccess, Initializing, NextItem, slots, sems, initVars
<1>1. ASSUME NEW t \in Threads, Step(t)
      PROVE  TypeOK'
  <2>1. CASE EnterInit(t)
    BY <2>1, <1>b DEF EnterInit
  <2>2. CASE SkipInit(t)
    BY <2>2, <1>b DEF SkipInit
  <2>3. CASE BufferInit(t)
    BY <2>3, <1>b DEF BufferInit, InitPhase
  <2>4. CASE BufferInitFails(t)
    BY <2>4, <1>b DEF BufferInitFails
  <2>5. CASE Call(t)
    BY <2>5, <1>b DEF Call
  <2>6. CASE Lock(t)
    BY <2>6, <1>b DEF Lock
  <2>7. CASE Unlock(t)
    BY <2>7, <1>b DEF Unlock
  <2>8. CASE MarkOnce(t)
    BY <2>8, <1>b DEF MarkOnce
  <2>9. CASE LeaveOnce(t)
    BY <2>9, <1>b DEF LeaveOnce
  <2> QED
    BY <1>1, <2>1, <2>2, <2>3, <2>4, <2>5, <2>6, <2>7, <2>8, <2>9 DEF Step
<1>2. CASE Create
  BY <1>2, <1>b DEF Create
<1>3. CASE WaitSlot
  BY <1>3, <1>b DEF WaitSlot
<1>4. CASE Store
  BY <1>4, <1>b DEF Store
<1>5. CASE FullBuffer
  BY <1>5, <1>b DEF FullBuffer
<1>6. CASE PostItem
  BY <1>6, <1>b DEF PostItem
<1>7. ASSUME NEW c \in Consumers, WaitItem(c)
      PROVE  TypeOK'
  BY <1>7, <1>b DEF WaitItem
<1>8. ASSUME NEW c \in Consumers, Fetch(c)
      PROVE  TypeOK'
  BY <1>8, <1>b DEF Fetch
<1>9. ASSUME NEW c \in Consumers, EmptyBuffer(c)
      PROVE  TypeOK'
  BY <1>9, <1>b DEF EmptyBuffer
<1>10. ASSUME NEW c \in Consumers, PostSlot(c)
      PROVE  TypeOK'
  <2>1. program # 2 /\ program' = program
    BY <1>10 DEF PostSlot
  <2>2. semslots' \in Nat /\ semitems' = semitems /\ inits' = inits
    BY <1>10 DEF PostSlot
  <2>3. semslots' \in 0 .. SIZE
    BY <2>1, <2>2, <1>b
  <2> QED
    BY <1>10, <2>1, <2>2, <2>3 DEF PostSlot
<1>11. CASE UNCHANGED vars
  BY <1>11 DEF vars
<1> QED
  BY <1>1, <1>2, <1>3, <1>4, <1>5, <1>6, <1>7, <1>8, <1>9, <1>10, <1>11
     DEF Next, MainStep, ConsumerStep, Threads

LEMMA StartsRight == Init => IInv
<1> SUFFICES ASSUME Init PROVE IInv
  OBVIOUS
<1> USE BuffersAssumption DEF Init, Threads
<1>1. TypeOK
  BY DEF TypeOK, Items
<1>2. LockOwner /\ InitPhase /\ Births /\ Polling
  BY DEF LockOwner, InitPhase, Initializing, Births, Polling, Nobody
<1>3. {t \in Threads : pc[t] \in Inside} = {} /\ {c \in Consumers : pc[c] \in Claims} = {}
  BY DEF Inside, Claims
<1>4. Count(Threads, pc, Inside) = 0 /\ Count(Consumers, pc, Claims) = 0
  BY <1>3, FS_EmptySet DEF Count
<1>5. TokensConserved
  BY <1>4, TokensAsCounts DEF In, Total
<1> QED
  BY <1>1, <1>2, <1>5 DEF IInv

\* The inductive invariant of the buffers: who holds the mutex, how
\* far the initialization is, and where every token is.
THEOREM Conservation == Spec => []IInv
<1>1. IInv /\ [Next]_vars => IInv'
  <2> SUFFICES ASSUME IInv, [Next]_vars PROVE IInv'
    OBVIOUS
  <2>1. TokensConserved'
    BY TokensInvariant, ProgramFixed DEF IInv, TokensConserved
  <2>2. TypeOK'
    BY <2>1, TypeInvariant DEF IInv
  <2> QED
    BY <2>1, <2>2, LocksInvariant, InitInvariant, BirthsInvariant,
       PollingInvariant DEF IInv
<1> QED
  BY <1>1, StartsRight, PTL DEF Spec

\* The variables stay in their types: in particular neither semaphore nor the
\* number of items ever leaves 0 .. SIZE.
THEOREM TypeCorrect == Spec => []TypeOK
  BY Conservation, PTL DEF IInv

\* Slots are neither lost nor made up, whatever the threads do and whichever
\* way the semaphores were initialized.
THEOREM NoSlotLost == Spec => []TokensConserved
  BY Conservation, PTL DEF IInv

\* The semaphores are set up at most once, by one thread.
THEOREM InitializedOnce == Spec => []InitPhase
  BY Conservation, PTL DEF IInv

-----------------------------------------------------------------------------
(* The initialization comes first                                          *)

\* What UsedAfterInit needs to be inductive: nobody gets past an
\* initialization that has not succeeded, unless one has failed.
Initialized ==
  program # 2 /\ failures = 0 =>
    /\ once = "done" => inits = 1
    /\ \A t \in Threads : pc[t] \in {"marking", "leaving", "wait", "lock", "access", "unlock", "post"} => inits = 1
    /\ program \in 3 .. 5 /\ pc["main"] = "create" => inits = 1

LEMMA InitializedInvariant ==
  ASSUME TypeOK, InitPhase, Births, Polling, Initialized, [Next]_vars
  PROVE  Initialized'
<1> USE BuffersAssumption DEF TypeOK, Polling, Initialized, Goto, Threads, AfterInit, AfterSuccess, Initializing, NextItem, initVars, slots
<1>1. ASSUME NEW t \in Threads, Step(t) PROVE Initialized'
  <2>1. CASE EnterInit(t)
    BY <2>1 DEF EnterInit
  <2>2. CASE SkipInit(t)
    BY <2>2 DEF SkipInit
  <2>3. CASE BufferInit(t)
    <3>1. inits' = 1
      BY <2>3 DEF BufferInit, InitPhase
    <3> QED
      BY <3>1
  <2>4. CASE BufferInitFails(t)
    <3>1. failures' # 0
      BY <2>4 DEF BufferInitFails
    <3> QED
      BY <3>1
  <2>5. CASE Call(t)
    BY <2>5 DEF Call
  <2>6. CASE Lock(t) \/ Unlock(t)
    BY <2>6 DEF Lock, Unlock
  <2>7. CASE MarkOnce(t)
    BY <2>7 DEF MarkOnce
  <2>8. CASE LeaveOnce(t)
    BY <2>8 DEF LeaveOnce
  <2> QED
    BY <1>1, <2>1, <2>2, <2>3, <2>4, <2>5, <2>6, <2>7, <2>8 DEF Step
<1>2. CASE Create
  BY <1>2 DEF Create
<1>3. CASE WaitSlot \/ Store \/ FullBuffer \/ PostItem
  BY <1>3 DEF WaitSlot, Store, FullBuffer, PostItem
<1>4. ASSUME NEW c \in Consumers,
             WaitItem(c) \/ Fetch(c) \/ EmptyBuffer(c) \/ PostSlot(c)
      PROVE  Initialized'
  BY <1>4 DEF WaitItem, Fetch, EmptyBuffer, PostSlot
<1>5. CASE UNCHANGED vars
  BY <1>5 DEF vars
<1> QED
  BY <1>1, <1>2, <1>3, <1>4, <1>5 DEF Next, MainStep, ConsumerStep, Threads

\* The semaphores are set up before any thread waits on them, unless that
\* failed.
THEOREM InitializedFirst == Spec => []UsedAfterInit
<1>1. Init => Initialized
  BY BuffersAssumption DEF Init, Initialized, Threads
<1>2. IInv /\ Initialized /\ [Next]_vars => Initialized'
  BY InitializedInvariant DEF IInv
<1>3. Initialized => UsedAfterInit
  BY DEF Initialized, UsedAfterInit
<1> QED
  BY <1>1, <1>2, <1>3, Conservation, PTL DEF Spec

-----------------------------------------------------------------------------
(* The refinement: every buffer is a BoundedQueue                          *)

\* Indices that have run past the end of the array.
Wrap(a) == IF a < SIZE THEN a ELSE a - SIZE

LEMMA ModIsWrap ==
  ASSUME NEW a \in 0 .. 2 * SIZE - 1
  PROVE  a % SIZE = Wrap(a)
<1> SIZE \in Nat \ {0}
  BY BuffersAssumption
<1>1. CASE a < SIZE
  BY <1>1 DEF Wrap
<1>2. CASE a >= SIZE
  BY <1>2 DEF Wrap
<1> QED
  BY <1>1, <1>2

\* The n items of a ring of slots that starts at slot out.
Ring(b, out, n) == [k \in 1 .. n |-> b[(out + k - 1) % SIZE]]

LEMMA RingIsSeq ==
  ASSUME NEW b \in [0 .. SIZE - 1 -> Items], NEW out \in 0 .. SIZE - 1,
         NEW n \in 0 .. SIZE
  PROVE  /\ Ring(b, out, n) \in Seq(Items)
         /\ Len(Ring(b, out, n)) = n
         /\ \A k \in 1 .. n : /\ Ring(b, out, n)[k] = b[Wrap(out + k - 1)]
                              /\ Wrap(out + k - 1) \in 0 .. SIZE - 1
<1>1. SIZE \in Nat \ {0}
  BY BuffersAssumption
<1>2. ASSUME NEW k \in 1 .. n
      PROVE  /\ (out + k - 1) % SIZE = Wrap(out + k - 1)
             /\ Wrap(out + k - 1) \in 0 .. SIZE - 1
  <2>1. out + k - 1 \in 0 .. 2 * SIZE - 1
    BY <1>1
  <2>2. Wrap(out + k - 1) \in 0 .. SIZE - 1
    BY <1>1, <2>1 DEF Wrap
  <2> QED
    BY <2>1, <2>2, ModIsWrap
<1>3. ASSUME NEW k \in 1 .. n PROVE b[(out + k - 1) % SIZE] \in Items
  BY <1>2
<1>4. Ring(b, out, n) \in [1 .. n -> Items]
  BY <1>3 DEF Ring
<1>5. Ring(b, out, n) \in Seq(Items) /\ Len(Ring(b, out, n)) = n
  BY <1>1, <1>4
<1> QED
  BY <1>2, <1>5 DEF Ring

\* Filling the slot after the last item appends it.
LEMMA StoreAppends ==
  ASSUME NEW b \in [0 .. SIZE - 1 -> Items], NEW out \in 0 .. SIZE - 1,
         NEW n \in 0 .. SIZE - 1, NEW x \in Items
  PROVE  Ring([b EXCEPT ![Wrap(out + n)] = x], out, n + 1)
           = Append(Ring(b, out, n), x)
<1> DEFINE c == [b EXCEPT ![Wrap(out + n)] = x]
<1>1. /\ SIZE \in Nat \ {0} /\ c \in [0 .. SIZE - 1 -> Items]
      /\ n \in 0 .. SIZE /\ n + 1 \in 0 .. SIZE
  <2>1. SIZE \in Nat \ {0}
    BY BuffersAssumption
  <2>2. n \in 0 .. SIZE /\ n + 1 \in 0 .. SIZE
    BY <2>1
  <2> QED
    BY <2>1, <2>2
<1>c. c = [b EXCEPT ![Wrap(out + n)] = x]
  OBVIOUS
<1> HIDE DEF c
<1> DEFINE q == Ring(b, out, n)
           r == Ring(c, out, n + 1)
<1>2. /\ q \in Seq(Items) /\ Len(q) = n
      /\ \A k \in 1 .. n : /\ q[k] = b[Wrap(out + k - 1)]
                           /\ Wrap(out + k - 1) \in 0 .. SIZE - 1
  BY <1>1, RingIsSeq, Zenon
<1>3. /\ r \in Seq(Items) /\ Len(r) = n + 1
      /\ \A k \in 1 .. n + 1 : /\ r[k] = c[Wrap(out + k - 1)]
                               /\ Wrap(out + k - 1) \in 0 .. SIZE - 1
  <2>1. c \in [0 .. SIZE - 1 -> Items]
    BY <1>1
  <2>2. n + 1 \in 0 .. SIZE
    BY <1>1
  <2>3. \A m \in 0 .. SIZE :
          /\ Ring(c, out, m) \in Seq(Items) /\ Len(Ring(c, out, m)) = m
          /\ \A k \in 1 .. m : /\ Ring(c, out, m)[k] = c[Wrap(out + k - 1)]
                               /\ Wrap(out + k - 1) \in 0 .. SIZE - 1
    BY <2>1, RingIsSeq, Zenon
  <2> QED
    BY <2>2, <2>3
<1> HIDE DEF q, r
<1>4. r[n + 1] = x
  <2>1. r[n + 1] = c[Wrap(out + (n + 1) - 1)] /\ Wrap(out + (n + 1) - 1) \in 0 .. SIZE - 1
    BY <1>3
  <2>2. out + (n + 1) - 1 = out + n
    BY <1>1
  <2> QED
    BY <1>c, <2>1, <2>2
<1>5. ASSUME NEW k \in 1 .. n PROVE r[k] = q[k]
  <2>1. Wrap(out + k - 1) # Wrap(out + n)
    BY <1>1 DEF Wrap
  <2> QED
    BY <1>1, <1>2, <1>3, <1>c, <2>1
<1>6. r = Append(q, x)
  BY <1>2, <1>3, <1>4, <1>5
<1> QED
  BY <1>6 DEF q, r, c

\* Moving the start to the next slot takes the head off.
LEMMA FetchIsTail ==
  ASSUME NEW b \in [0 .. SIZE - 1 -> Items], NEW out \in 0 .. SIZE - 1,
         NEW n \in 1 .. SIZE
  PROVE  /\ Ring(b, out, n) # <<>>
         /\ Head(Ring(b, out, n)) = b[out]
         /\ Ring(b, Wrap(out + 1), n - 1) = Tail(Ring(b, out, n))
<1>1. /\ SIZE \in Nat \ {0} /\ Wrap(out + 1) \in 0 .. SIZE - 1
      /\ n \in 0 .. SIZE
  BY BuffersAssumption DEF Wrap
<1> DEFINE q == Ring(b, out, n)
           r == Ring(b, Wrap(out + 1), n - 1)
<1>2. /\ q \in Seq(Items) /\ Len(q) = n
      /\ \A k \in 1 .. n : q[k] = b[Wrap(out + k - 1)]
  BY <1>1, RingIsSeq, Zenon
<1>3. /\ r \in Seq(Items) /\ Len(r) = n - 1
      /\ \A k \in 1 .. n - 1 : r[k] = b[Wrap(Wrap(out + 1) + k - 1)]
  <2>1. n - 1 \in 0 .. SIZE
    BY <1>1
  <2>2. ASSUME NEW s \in 0 .. SIZE - 1, NEW m \in 0 .. SIZE
        PROVE  /\ Ring(b, s, m) \in Seq(Items) /\ Len(Ring(b, s, m)) = m
               /\ \A k \in 1 .. m : Ring(b, s, m)[k] = b[Wrap(s + k - 1)]
    BY RingIsSeq
  <2> QED
    BY <1>1, <2>1, <2>2
<1> HIDE DEF q, r
<1>4. ASSUME NEW k \in 1 .. n - 1 PROVE r[k] = q[k + 1]
  <2>1. Wrap(Wrap(out + 1) + k - 1) = Wrap(out + (k + 1) - 1)
    BY <1>1 DEF Wrap
  <2> QED
    BY <1>2, <1>3, <2>1
<1>5. q[1] = b[out]
  BY <1>1, <1>2 DEF Wrap
<1>6. q # <<>> /\ Head(q) = b[out] /\ r = Tail(q)
  BY <1>1, <1>2, <1>3, <1>4, <1>5, SMTT(60)
<1> QED
  BY <1>6 DEF q, r

\* The next free slot is where the items end.
Chained == bufin = Wrap(bufout + totalitems)

LEMMA QueueIsRing == TypeOK => Queue = Ring(buffer, bufout, totalitems)
  BY DEF Queue, Ring

LEMMA StoreRefines ==
  ASSUME TypeOK, TypeOK', Chained, Store
  PROVE  Chained' /\ Promise!Next
<1> SIZE \in Nat \ {0}
  BY BuffersAssumption
<1>1. /\ buffer \in [0 .. SIZE - 1 -> Items] /\ bufout \in 0 .. SIZE - 1
      /\ totalitems \in 0 .. SIZE - 1 /\ totalitems' = totalitems + 1
      /\ item \in Items /\ bufin \in 0 .. SIZE - 1
      /\ bufin = Wrap(bufout + totalitems)
      /\ buffer' = [buffer EXCEPT ![Wrap(bufout + totalitems)] = item]
      /\ bufout' = bufout
      /\ result' = [result EXCEPT !["main"] = item]
      /\ bufin' = (bufin + 1) % SIZE
  BY DEF TypeOK, Store, Answer, Chained
<1>2. Ring(buffer', bufout, totalitems + 1)
        = Append(Ring(buffer, bufout, totalitems), item)
  <2>1. Ring([buffer EXCEPT ![Wrap(bufout + totalitems)] = item], bufout,
             totalitems + 1)
          = Append(Ring(buffer, bufout, totalitems), item)
    BY <1>1, StoreAppends, Zenon
  <2> QED
    BY <1>1, <2>1
<1>3. Queue = Ring(buffer, bufout, totalitems)
        /\ Queue' = Ring(buffer', bufout, totalitems + 1)
  BY <1>1 DEF Queue, Ring
<1>4. Len(Queue) < SIZE
  <2>1. totalitems \in 0 .. SIZE
    BY <1>1
  <2>2. Len(Ring(buffer, bufout, totalitems)) = totalitems
    BY <1>1, <2>1, RingIsSeq, Zenon
  <2> QED
    BY <1>1, <1>3, <2>2
<1>5. Promise!Put("main", item)
  BY <1>1, <1>2, <1>3, <1>4 DEF Promise!Put, Promise!Answer
<1>6. Chained'
  <2>1. (bufin + 1) % SIZE = Wrap(bufin + 1)
    BY <1>1, ModIsWrap
  <2>2. Wrap(bufin + 1) = Wrap(bufout + (totalitems + 1))
    BY <1>1 DEF Wrap
  <2> QED
    BY <1>1, <2>1, <2>2 DEF Chained, Wrap
<1> QED
  BY <1>1, <1>5, <1>6 DEF Promise!Next

LEMMA FetchRefines ==
  ASSUME TypeOK, TypeOK', Chained, NEW c \in Consumers, Fetch(c)
  PROVE  Chained' /\ Promise!Next
<1> SIZE \in Nat \ {0}
  BY BuffersAssumption
<1>1. /\ buffer \in [0 .. SIZE - 1 -> Items] /\ bufout \in 0 .. SIZE - 1
      /\ totalitems \in 1 .. SIZE /\ totalitems' = totalitems - 1
      /\ bufin = Wrap(bufout + totalitems)
      /\ bufin' = bufin /\ buffer' = buffer
      /\ bufout' = (bufout + 1) % SIZE
      /\ result' = [result EXCEPT ![c] = buffer[bufout]]
  BY DEF TypeOK, Fetch, Answer, Chained
<1>2. bufout' = Wrap(bufout + 1)
  BY <1>1, ModIsWrap
<1>3. /\ Ring(buffer, bufout, totalitems) # <<>>
      /\ Head(Ring(buffer, bufout, totalitems)) = buffer[bufout]
      /\ Ring(buffer, Wrap(bufout + 1), totalitems - 1)
           = Tail(Ring(buffer, bufout, totalitems))
  BY <1>1, FetchIsTail, Zenon
<1>4. Queue = Ring(buffer, bufout, totalitems)
        /\ Queue' = Ring(buffer, Wrap(bufout + 1), totalitems - 1)
  BY <1>1, <1>2 DEF Queue, Ring
<1>5. Promise!Get(c)
  BY <1>1, <1>3, <1>4 DEF Promise!Get, Promise!Answer
<1>6. Chained'
  BY <1>1, <1>2 DEF Chained, Wrap
<1> QED
  BY <1>5, <1>6 DEF Promise!Next

LEMMA RefusalRefines ==
  ASSUME TypeOK, Chained,
         FullBuffer \/ \E c \in Consumers : EmptyBuffer(c)
  PROVE  Chained' /\ Promise!Next
<1>0. SIZE \in Nat \ {0}
  BY BuffersAssumption
<1>1. /\ Queue' = Queue
      /\ UNCHANGED <<bufin, bufout, totalitems, buffer>>
  BY DEF FullBuffer, EmptyBuffer, slots, Queue
<1>2. Queue = Ring(buffer, bufout, totalitems) /\ Len(Queue) = totalitems
  <2>1. Len(Ring(buffer, bufout, totalitems)) = totalitems
    BY RingIsSeq, Zenon DEF TypeOK
  <2> QED
    BY <2>1, QueueIsRing
<1>3. CASE FullBuffer
  <2>1. totalitems = SIZE
    BY <1>0, <1>3 DEF FullBuffer, TypeOK
  <2>2. Promise!PutFails("main")
    BY <1>1, <1>2, <1>3, <2>1 DEF FullBuffer, Promise!PutFails, Answer,
       Promise!Answer
  <2> QED
    BY <1>1, <2>2 DEF Promise!Next, Chained, Wrap
<1>4. ASSUME NEW c \in Consumers, EmptyBuffer(c)
      PROVE  Chained' /\ Promise!Next
  <2>1. totalitems = 0
    BY <1>0, <1>4 DEF EmptyBuffer, TypeOK
  <2>2. Queue = <<>>
    BY <2>1 DEF Queue
  <2>3. Promise!GetFails(c)
    BY <1>1, <1>4, <2>2 DEF EmptyBuffer, Promise!GetFails, Answer,
       Promise!Answer
  <2> QED
    BY <1>1, <2>3 DEF Promise!Next, Chained, Wrap
<1> QED
  BY <1>3, <1>4

LEMMA QueueStep ==
  ASSUME TypeOK, TypeOK', Chained, [Next]_vars
  PROVE  Chained' /\ (Promise!Next \/ UNCHANGED <<Queue, result>>)
<1>1. CASE Store
  BY <1>1, StoreRefines
<1>2. ASSUME NEW c \in Consumers, Fetch(c)
      PROVE  Chained' /\ Promise!Next
  BY <1>2, FetchRefines
<1>3. CASE FullBuffer \/ \E c \in Consumers : EmptyBuffer(c)
  BY <1>3, RefusalRefines
<1>4. ASSUME UNCHANGED <<buffer, bufin, bufout, totalitems, result>>
      PROVE  Chained' /\ UNCHANGED <<Queue, result>>
  BY <1>4 DEF Chained, Queue, Wrap
<1>5. ASSUME NEW t \in Threads, Step(t)
      PROVE  UNCHANGED <<buffer, bufin, bufout, totalitems, result>>
  BY <1>5 DEF Step, EnterInit, SkipInit, BufferInit, BufferInitFails, MarkOnce,
     LeaveOnce, Call, Lock, Unlock, slots
<1>6. CASE Create \/ WaitSlot \/ PostItem
  BY <1>4, <1>6 DEF Create, WaitSlot, PostItem, slots
<1>7. ASSUME NEW c \in Consumers, WaitItem(c) \/ PostSlot(c)
      PROVE  UNCHANGED <<buffer, bufin, bufout, totalitems, result>>
  BY <1>7 DEF WaitItem, PostSlot, slots
<1>8. CASE UNCHANGED vars
  BY <1>4, <1>8 DEF vars, slots
<1> QED
  BY <1>1, <1>2, <1>3, <1>4, <1>5, <1>6, <1>7, <1>8
     DEF Next, MainStep, ConsumerStep, Threads

\* Every buffer is a first in first out queue of SIZE items to its callers, and
\* answers EAGAIN only when it is full or empty.
THEOREM BuffersAreQueues == Spec => ImplementsQueue
<1>1. Init => Chained /\ Promise!Init
  <2> SUFFICES ASSUME Init PROVE Chained /\ Promise!Init
    OBVIOUS
  <2>1. SIZE \in Nat \ {0} /\ 0 \in Items
    BY BuffersAssumption DEF Items
  <2>2. Queue = <<>>
    BY DEF Init, Queue
  <2> QED
    BY <2>1, <2>2 DEF Init, Chained, Wrap, Promise!Init, Threads
<1>2. TypeOK /\ TypeOK' /\ Chained /\ [Next]_vars
        => Chained' /\ [Promise!Next]_<<Queue, result>>
  BY QueueStep
<1> QED
  BY <1>1, <1>2, TypeCorrect, PTL DEF Spec, ImplementsQueue, Promise!Spec
=============================================================================
