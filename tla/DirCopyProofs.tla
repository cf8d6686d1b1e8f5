--------------------------- MODULE DirCopyProofs ----------------------------
(***************************************************************************)
(* Proofs about DirCopy, for any number of workers and of files.           *)
(***************************************************************************)
EXTENDS DirCopy, FiniteSetTheorems, TLAPS

\* How many files main has opened the source of, counted, and handed over.
Opened  == IF mpc = "open_src" THEN n - 1 ELSE n
Counted == IF mpc \in {"open_src", "open_dst", "sem_v"} THEN n - 1 ELSE n
Handed  == IF mpc \in {"open_src", "open_dst", "sem_v", "add"} THEN n - 1 ELSE n

Pending == {f \in 1 .. Counted : ~Served(f)}

Types ==
  /\ mpc \in {"readdir", "open_src", "open_dst", "sem_v", "add", "signal", "zero",
             "destroy", "broadcast", "join", "done"}
  /\ n \in 0 .. NFiles
  /\ mpc \in {"open_src", "open_dst", "sem_v", "add"} => n > 0
  /\ src \in [1 .. NFiles + 1 -> Files \cup {Unset, Bad, Count}]
  /\ dst \in [Files -> Files \cup {Unset, Bad}]
  /\ queue \in Seq(Files) /\ shutdown \in BOOLEAN
  /\ wpc \in [Workers -> {"idle", "drowsy", "asleep", "args", "copy", "close", "dead"}]
  /\ job \in [Workers -> Files \cup {Unset}]
  /\ from \in [Workers -> Files \cup {Unset, Bad, Count}]
  /\ to \in [Workers -> Files \cup {Unset, Bad}]
  /\ copied \in [Files -> {"nothing", "whole", "gap", "other"}]
  /\ exit \in {"no", "ok", "fail"}

\* The files come out of the queue in order, each to one worker, who has no other.
Order ==
  /\ \A k \in 1 .. Len(queue) : queue[k] <= Handed
  /\ \A k \in 1 .. Len(queue), w \in Workers : job[w] < queue[k]
  /\ \A i, j \in 1 .. Len(queue) : i < j => queue[i] < queue[j]
  /\ \A w \in Workers : job[w] <= Handed
  /\ \A v, w \in Workers : v # w /\ job[v] = job[w] => job[w] = Unset
  /\ \A w \in Workers : wpc[w] \in {"idle", "drowsy", "asleep"} => job[w] = Unset
  /\ \A w \in Workers : wpc[w] \in {"args", "copy", "close"} => job[w] # Unset

\* The semaphore counts the files that are counted in and not yet served.
Counts == semval \in Nat /\ semval = Cardinality(Pending)

Barrier == mpc \in {"destroy", "broadcast", "join", "done"} => Pending = {}

\* The worker of the file before f has stored its result.
After(f) == f > 1 /\ \E w \in Workers : job[w] = f - 1 /\ wpc[w] \in {"close", "dead"}

\* What a worker has fetched from the slot of its file.
Fetched(w) ==
  wpc[w] \in {"copy", "close"} =>
    \/ from[w] \in {job[w], Bad}
    \/ from[w] = Count /\ After(job[w])

Sources ==
  /\ \A f \in Files : f <= Opened => src[f] \in {f, Bad, Count}
  /\ \A f \in Files : src[f] = Count => After(f)
  /\ \A w \in Workers : Fetched(w)
  /\ \A f \in Files : copied[f] = "other" => After(f)

\* What is handed to a worker was opened, but for a later file's destination, and
\* a worker that has its destination leaves something in it.
Delivered(w) ==
  /\ wpc[w] \in {"copy", "close"} => to[w] = dst[job[w]]
  /\ wpc[w] \in {"close", "dead"} /\ job[w] # Unset =>
       copied[job[w]] # "nothing" \/ dst[job[w]] = Bad

Destinations ==
  /\ exit = "no" /\ mpc \in {"sem_v", "add"} => dst[1] # Bad
  /\ 1 <= Handed => dst[1] # Bad
  /\ \A w \in Workers : Delivered(w)

IInv == Types /\ Order /\ Counts /\ Barrier /\ Sources /\ Destinations

LEMMA ConstantTypes ==
  /\ Workers \subseteq Nat /\ Files \subseteq Nat \ {0}
  /\ Unset = 0 /\ Bad = -1 /\ Count = -2
  /\ NFiles \in Nat /\ NThreads \in Nat
BY DirCopyAssumption DEF Workers, Files, Unset, Bad, Count

LEMMA PendingFinite ==
  ASSUME Types
  PROVE  Pending \subseteq 1 .. NFiles /\ IsFiniteSet(Pending) /\ Cardinality(Pending) <= NFiles
<1>1. Pending \subseteq 1 .. NFiles
  BY ConstantTypes DEF Types, Pending, Counted
<1>2. IsFiniteSet(1 .. NFiles) /\ Cardinality(1 .. NFiles) = NFiles
  BY ConstantTypes, FS_Interval
<1> QED BY <1>1, <1>2, FS_Subset

\* Steps that serve no file and count none leave the semaphore as it should be.
LEMMA PendingKept ==
  ASSUME Counts, Barrier, Counted' = Counted, semval' = semval,
         \A f \in 1 .. Counted : Served(f)' <=> Served(f),
         mpc' \in {"destroy", "broadcast", "join", "done"} =>
           mpc \in {"destroy", "broadcast", "join", "done"} \/ semval = 0,
         Types
  PROVE  Counts' /\ Barrier'
<1>1. Pending' = Pending
  BY DEF Pending
<1>2. semval = 0 => Pending = {}
  BY PendingFinite, FS_EmptySet DEF Counts
<1> QED BY <1>1, <1>2 DEF Counts, Barrier

LEMMA DeliveredKept ==
  ASSUME NEW v, Delivered(v), job'[v] = job[v], to'[v] = to[v],
         wpc'[v] \in {"copy", "close"} => wpc[v] \in {"copy", "close"},
         wpc'[v] \in {"close", "dead"} /\ job[v] # Unset => wpc[v] \in {"close", "dead"},
         job[v] # Unset => dst'[job[v]] = dst[job[v]] /\ copied'[job[v]] = copied[job[v]],
         wpc[v] \in {"copy", "close"} => job[v] # Unset
  PROVE  Delivered(v)'
BY DEF Delivered

LEMMA FetchedKept ==
  ASSUME NEW v, Fetched(v), wpc'[v] \in {"copy", "close"} => wpc[v] \in {"copy", "close"},
         job'[v] = job[v], from'[v] = from[v], \A f : After(f) => After(f)'
  PROVE  Fetched(v)'
<1>1. After(job[v]) => After(job[v])'
  <2>1. PICK f : f = job[v]
    OBVIOUS
  <2>2. After(f) => After(f)'
    OBVIOUS
  <2>3. After(f)' <=> After(job[v])'
    BY <2>1 DEF After
  <2> QED BY <2>1, <2>2, <2>3
<1> QED BY <1>1 DEF Fetched

LEMMA SourcesKept ==
  ASSUME Sources, src' = src, copied' = copied, Opened' = Opened, \A f : After(f) => After(f)',
         \A w \in Workers : Fetched(w)'
  PROVE  Sources'
<1>2. \A f \in Files : copied'[f] = "other" => After(f)'
  BY DEF Sources
<1>3. \A f \in Files : src'[f] = Count => After(f)'
  BY DEF Sources
<1>4. \A f \in Files : f <= Opened' => src'[f] \in {f, Bad, Count}
  BY DEF Sources
<1> QED BY <1>2, <1>3, <1>4 DEF Sources

LEMMA InitInv == Init => IInv
<1> SUFFICES ASSUME Init PROVE IInv
  OBVIOUS
<1> USE ConstantTypes
<1>1. Types
  <2>0. << >> \in Seq(Files)
    OBVIOUS
  <2>1. queue \in Seq(Files) /\ shutdown \in BOOLEAN
    BY <2>0 DEF Init
  <2> QED BY <2>1 DEF Init, Types
<1>2. Order
  BY DEF Init, Order, Handed
<1>3. Pending = {}
  BY DEF Init, Pending, Counted
<1>4. Counts /\ Barrier
  BY <1>3, FS_EmptySet DEF Init, Counts, Barrier
<1>5. Sources
  <2>1. /\ \A f \in Files : f <= Opened => src[f] \in {f, Bad, Count}
        /\ \A f \in Files : src[f] # Count
    BY DEF Init, Opened, Files
  <2>2. \A w \in Workers : wpc[w] = "idle"
    BY DEF Init
  <2>3. \A f \in Files : copied[f] = "nothing"
    BY DEF Init
  <2> QED BY <2>1, <2>2, <2>3 DEF Sources, Fetched
<1>6. Destinations
  BY DEF Init, Destinations, Delivered, Handed
<1> QED BY <1>1, <1>2, <1>4, <1>5, <1>6 DEF IInv

LEMMA DestinationsStep ==
  ASSUME Types, Order, Destinations, [Next]_vars
  PROVE  Destinations'
<1> USE ConstantTypes
<1>1. \A v \in Workers : /\ Delivered(v) /\ job[v] \in Files \cup {Unset} /\ job[v] <= Handed
                         /\ wpc[v] \in {"args", "copy", "close"} => job[v] # Unset
                         /\ wpc[v] \in {"idle", "drowsy", "asleep"} => job[v] = Unset
  BY DEF Types, Order, Destinations
<1>2. ASSUME UNCHANGED << job, to, dst, copied >>,
             \A v \in Workers : /\ wpc'[v] \in {"copy", "close"} => wpc[v] \in {"copy", "close"}
                                /\ wpc'[v] \in {"close", "dead"} /\ job[v] # Unset
                                     => wpc[v] \in {"close", "dead"}
      PROVE  \A v \in Workers : Delivered(v)'
  BY <1>1, <1>2, DeliveredKept
<1>3. CASE UNCHANGED vars
  <2>1. UNCHANGED << job, to, dst, copied, wpc, mpc, n, exit >>
    BY <1>3 DEF vars, mainVars, workerVars
  <2> QED BY <1>2, <2>1 DEF Destinations, Handed
<1>4. CASE \/ ReadRegularFile \/ ReadOtherEntry \/ EndOfDirectory \/ OpenSource
           \/ SemV \/ AddWorker \/ SemZero \/ Shutdown \/ Join
  <2> USE <1>4 DEF ReadRegularFile, ReadOtherEntry, EndOfDirectory, OpenSource, SemV, AddWorker,
                   SemZero, Shutdown, Join, MGoto, workerVars
  <2>1. UNCHANGED << job, to, dst, copied, wpc >>
    OBVIOUS
  <2>2. \A v \in Workers : Delivered(v)'
    BY <1>2, <2>1
  <2> QED BY <2>1, <2>2 DEF Destinations, Handed, Types
<1>5. CASE Signal \/ Broadcast
  <2> USE <1>5 DEF Signal, Broadcast, MGoto
  <2>1. \A v \in Workers : wpc'[v] = wpc[v] \/ (wpc[v] = "asleep" /\ wpc'[v] = "idle")
    BY DEF Types
  <2>2. \A v \in Workers : Delivered(v)'
    BY <1>2, <2>1
  <2> QED BY <2>2 DEF Destinations, Handed, Types
<1>6. CASE OpenDestination
  <2> USE <1>6 DEF OpenDestination, MGoto, workerVars
  <2>1. n \in Files /\ n' = n /\ Handed = n - 1 /\ Handed' = Handed
    BY DEF Types, Files, Handed
  <2>2. PICK fd : dst' = [dst EXCEPT ![n] = fd]
    OBVIOUS
  <2>3. \A f \in Files : f # n => dst'[f] = dst[f]
    BY <2>2 DEF Types
  <2>4. \A v \in Workers : Delivered(v)'
    BY <1>1, <2>1, <2>3, DeliveredKept
  <2>5. exit' = "no" => dst'[1] # Bad
    OBVIOUS
  <2>6. 1 <= Handed' => dst'[1] # Bad
    BY <2>1, <2>3 DEF Destinations, Files
  <2> QED BY <2>4, <2>5, <2>6 DEF Destinations
<1>7. ASSUME NEW w \in Workers, WorkerStep(w) PROVE Destinations'
  <2>0. mpc' = mpc /\ n' = n /\ dst' = dst /\ (exit' = "no" => exit = "no")
    BY <1>7 DEF WorkerStep, Test, Wait, Leave, Take, ReadArguments, Copy, ReadError, CloseAndExit,
                WGoto, mainVars
  <2> SUFFICES \A v \in Workers : Delivered(v)'
    BY <2>0 DEF Destinations, Handed
  <2>1. CASE Test(w) \/ Wait(w) \/ Leave(w)
    <3>1. UNCHANGED << job, to, dst, copied >> /\ job[w] = Unset
          /\ \A v \in Workers : v # w => wpc'[v] = wpc[v]
      BY <2>0, <2>1, <1>1 DEF Test, Wait, Leave, WGoto, Types
    <3>2. wpc'[w] \notin {"copy", "close"}
      BY <2>1 DEF Test, Wait, Leave, WGoto, Types
    <3> QED BY <3>1, <3>2, <1>2
  <2>2. CASE Take(w)
    <3> SUFFICES ASSUME NEW v \in Workers PROVE Delivered(v)'
      OBVIOUS
    <3> USE <2>2 DEF Take, WGoto
    <3>1. CASE v = w
      <4>1. wpc'[w] = "args"
        BY DEF Types
      <4> QED BY <3>1, <4>1 DEF Delivered
    <3>2. CASE v # w
      <4>1. wpc'[v] = wpc[v] /\ job'[v] = job[v] /\ UNCHANGED << to, copied >>
        BY <3>2 DEF Types
      <4> QED BY <4>1, <2>0, <1>1, DeliveredKept
    <3> QED BY <3>1, <3>2
  <2>3. CASE ReadArguments(w)
    <3> SUFFICES ASSUME NEW v \in Workers PROVE Delivered(v)'
      OBVIOUS
    <3> USE <2>3 DEF ReadArguments, WGoto
    <3>1. CASE v = w
      <4>1. wpc'[w] = "copy" /\ to'[w] = dst[job[w]]
        BY DEF Types
      <4> QED BY <3>1, <4>1, <2>0 DEF Delivered
    <3>2. CASE v # w
      <4>1. wpc'[v] = wpc[v] /\ to'[v] = to[v] /\ UNCHANGED << job, copied >>
        BY <3>2 DEF Types
      <4> QED BY <4>1, <2>0, <1>1, DeliveredKept
    <3> QED BY <3>1, <3>2
  <2>4. CASE Copy(w)
    <3> SUFFICES ASSUME NEW v \in Workers PROVE Delivered(v)'
      OBVIOUS
    <3> USE <2>4 DEF Copy, WGoto
    <3>0. wpc[w] = "copy" /\ job[w] \in Files
      BY <1>1
    <3>1. PICK c \in CopyOutcomes(w) : copied' = [copied EXCEPT ![job[w]] = c]
      OBVIOUS
    <3>2. CASE v = w
      <4>1. wpc'[w] = "close" /\ copied'[job[w]] = c /\ to[w] = dst[job[w]]
        BY <3>0, <3>1, <1>1 DEF Types, Delivered
      <4>2. c # "nothing" \/ to[w] = Bad
        BY <3>1 DEF CopyOutcomes
      <4> QED BY <3>2, <4>1, <4>2, <2>0 DEF Delivered
    <3>3. CASE v # w
      <4>1. wpc'[v] = wpc[v] /\ UNCHANGED << to, job >>
        BY <3>3 DEF Types
      <4>2. job[v] # Unset => copied'[job[v]] = copied[job[v]]
        BY <3>0, <3>1, <3>3, <1>1 DEF Types, Order
      <4> QED BY <4>1, <4>2, <2>0, <1>1, DeliveredKept
    <3> QED BY <3>2, <3>3
  <2>5. CASE ReadError(w)
    <3>1. UNCHANGED << job, to, dst, copied, wpc >>
      BY <2>0, <2>5 DEF ReadError, WGoto, Types
    <3> QED BY <3>1, <1>2
  <2>6. CASE CloseAndExit(w)
    <3>1. UNCHANGED << job, to, dst, copied >> /\ wpc[w] = "close" /\ wpc'[w] = "dead"
          /\ \A v \in Workers : v # w => wpc'[v] = wpc[v]
      BY <2>0, <2>6 DEF CloseAndExit, WGoto, Types
    <3> QED BY <3>1, <1>2
  <2> QED BY <1>7, <2>1, <2>2, <2>3, <2>4, <2>5, <2>6 DEF WorkerStep
<1> QED BY <1>3, <1>4, <1>5, <1>6, <1>7 DEF Next, MainStep

LEMMA StepInv == IInv /\ [Next]_vars => IInv'
<1> SUFFICES ASSUME IInv, [Next]_vars PROVE IInv'
  OBVIOUS
<1> USE ConstantTypes DEF poolVars
<1>0. Types /\ Order /\ Counts /\ Barrier /\ Sources /\ Destinations
  BY DEF IInv
<1>b. \A w \in Workers : job[w] \in Nat /\ (job[w] # Unset => job[w] \in Files)
  <2>1. job \in [Workers -> Files \cup {Unset}]
    BY <1>0 DEF Types
  <2> SUFFICES ASSUME NEW w \in Workers PROVE job[w] \in Nat /\ (job[w] # Unset => job[w] \in Files)
    OBVIOUS
  <2>2. job[w] \in Files \/ job[w] = Unset
    BY <2>1
  <2>3. CASE job[w] = Unset
    BY <2>3
  <2>4. CASE job[w] \in Files
    BY <2>4
  <2> QED BY <2>2, <2>3, <2>4
<1>c. Handed \in Int /\ Counted \in Int /\ Opened \in Int /\ Handed <= Counted /\ Handed <= Opened /\ n \in Nat
  BY <1>0 DEF Types, Handed, Counted, Opened
<1>a. UNCHANGED << wpc, job >> => \A f : (Served(f)' <=> Served(f)) /\ (After(f)' <=> After(f))
  BY DEF Served, After
<1>d. ASSUME UNCHANGED << wpc, job, from, src, copied >>, Opened' = Opened PROVE Sources'
  BY <1>0, <1>a, <1>d, FetchedKept, SourcesKept DEF Sources
<1>f. Destinations'
  BY <1>0, DestinationsStep
<1>1. CASE UNCHANGED vars
  <2>1. Types'
    BY <1>0, <1>1 DEF Types, vars, mainVars, poolVars, workerVars
  <2>2. Order'
    BY <1>0, <1>1 DEF Order, Handed, vars, mainVars, poolVars, workerVars
  <2>3. Counts' /\ Barrier'
    BY <1>0, <1>1, <1>a, PendingKept DEF Counted, vars, mainVars, poolVars, workerVars
  <2>4. Sources'
    BY <1>1, <1>d DEF Opened, vars, mainVars, poolVars, workerVars
  <2> QED BY <2>1, <2>2, <2>3, <2>4, <1>f DEF IInv
<1>2. CASE ReadRegularFile \/ ReadOtherEntry \/ EndOfDirectory \/ SemZero
  <2> USE <1>2 DEF ReadRegularFile, ReadOtherEntry, EndOfDirectory, SemZero, MGoto, workerVars
  <2>1. Types'
    BY <1>0 DEF Types
  <2>2. Order'
    BY <1>0 DEF Order, Handed, Types
  <2>3. Counted' = Counted /\ semval' = semval /\ UNCHANGED << wpc, job >>
    BY <1>0 DEF Counted, Types
  <2>4. Counts' /\ Barrier'
    BY <1>0, <1>a, <2>3, PendingKept
  <2>5. Sources'
    BY <1>0, <1>d DEF Opened, Types
  <2> QED BY <2>1, <2>2, <2>4, <2>5, <1>f DEF IInv
<1>3. CASE OpenSource \/ OpenDestination
  <2> USE <1>3 DEF OpenSource, OpenDestination, MGoto, workerVars
  <2>0. n \in Files /\ n' = n
    BY <1>0 DEF Types, Files
  <2>1. Types'
    <3>1. CASE OpenSource
      BY <1>0, <2>0, <3>1 DEF Types
    <3>2. CASE OpenDestination
      <4>1. exit' \in {"no", "ok", "fail"}
        BY <3>2
      <4> QED BY <1>0, <2>0, <3>2, <4>1 DEF Types
    <3> QED BY <3>1, <3>2
  <2>2. Order'
    BY <1>0 DEF Order, Handed, Types
  <2>3. Counted' = Counted /\ semval' = semval /\ UNCHANGED << wpc, job >>
    BY <1>0 DEF Counted, Types
  <2>4. Counts' /\ Barrier'
    BY <1>0, <1>a, <2>3, PendingKept
  <2>5. Sources'
    <3>1. \A f \in Files : f <= Opened' => src'[f] \in {f, Bad, Count}
      BY <1>0 DEF Sources, Opened, Types, Files
    <3>2. \A f \in Files : src'[f] = Count => After(f)'
      BY <1>0, <1>a DEF Sources, Types, Files
    <3>3. \A w \in Workers : Fetched(w)'
      BY <1>0, <1>a, FetchedKept DEF Sources
    <3>4. \A f \in Files : copied'[f] = "other" => After(f)'
      BY <1>0, <1>a DEF Sources
    <3> QED BY <3>1, <3>2, <3>3, <3>4, <1>a DEF Sources, After
  <2> QED BY <2>1, <2>2, <2>4, <2>5, <1>f DEF IInv
<1>4. CASE SemV
  <2> USE <1>4 DEF SemV, MGoto, workerVars
  <2>1. Types'
    BY <1>0 DEF Types
  <2>2. Order'
    BY <1>0 DEF Order, Handed, Types
  <2>3. ~Served(n) /\ n \notin 1 .. Counted /\ 1 .. Counted' = (1 .. Counted) \cup {n}
    BY <1>0 DEF Order, Handed, Counted, Types, Served
  <2>4. Pending' = Pending \cup {n} /\ n \notin Pending
    BY <2>3, <1>a DEF Pending
  <2>5. Cardinality(Pending') = Cardinality(Pending) + 1
    BY <1>0, <2>4, PendingFinite, FS_AddElement
  <2>6. Counts' /\ Barrier'
    BY <1>0, <2>5 DEF Counts, Barrier
  <2>7. Sources'
    BY <1>0, <1>d DEF Opened, Types
  <2> QED BY <2>1, <2>2, <2>6, <2>7, <1>f DEF IInv
<1>5. CASE AddWorker
  <2> USE <1>5 DEF AddWorker, MGoto, workerVars
  <2>1. Types'
    BY <1>0 DEF Types, Files
  <2>2. Order'
    <3>1. n \in Files /\ queue \in Seq(Files) /\ Handed = n - 1 /\ Handed' = n
      BY <1>0 DEF Types, Handed, Files
    <3>2. /\ Len(queue') = Len(queue) + 1 /\ queue'[Len(queue) + 1] = n
          /\ \A k \in 1 .. Len(queue) : queue'[k] = queue[k] /\ queue[k] \in Files /\ queue[k] < n
      BY <3>1, <1>0 DEF Order, Files
    <3>3. \A w \in Workers : job[w] < n
      BY <3>1, <1>0, <1>b DEF Order
    <3>4. \A k \in 1 .. Len(queue') : queue'[k] <= Handed' /\ \A w \in Workers : job'[w] < queue'[k]
      <4> SUFFICES ASSUME NEW k \in 1 .. Len(queue') PROVE queue'[k] <= n /\ \A w \in Workers : job[w] < queue'[k]
        BY <3>1
      <4>1. CASE k = Len(queue) + 1
        BY <4>1, <3>1, <3>2, <3>3
      <4>2. CASE k \in 1 .. Len(queue)
        <5>1. queue'[k] = queue[k] /\ queue[k] < n /\ queue[k] \in Nat
          BY <4>2, <3>1, <3>2
        <5>2. \A w \in Workers : job[w] < queue[k]
          BY <4>2, <1>0 DEF Order
        <5> QED BY <5>1, <5>2, <3>1
      <4> QED BY <4>1, <4>2, <3>1, <3>2
    <3>5. \A i, j \in 1 .. Len(queue') : i < j => queue'[i] < queue'[j]
      BY <3>1, <3>2, <1>0 DEF Order
    <3>6. \A w \in Workers : job'[w] <= Handed'
      BY <3>1, <3>3, <1>b
    <3> QED BY <3>4, <3>5, <3>6, <1>0 DEF Order
  <2>3. Counted' = Counted /\ semval' = semval /\ UNCHANGED << wpc, job >>
    BY <1>0 DEF Counted, Types
  <2>4. Counts' /\ Barrier'
    BY <1>0, <1>a, <2>3, PendingKept
  <2>5. Sources'
    BY <1>0, <1>d DEF Opened, Types
  <2> QED BY <2>1, <2>2, <2>4, <2>5, <1>f DEF IInv
<1>6. CASE Signal \/ Shutdown \/ Broadcast \/ Join
  <2> USE <1>6 DEF Signal, Shutdown, Broadcast, Join, MGoto, workerVars
  <2>0. /\ UNCHANGED << n, dst, src, semval, job, from, to, copied >>
        /\ \A w \in Workers : wpc'[w] = wpc[w] \/ (wpc[w] = "asleep" /\ wpc'[w] = "idle")
    BY <1>0 DEF Types, poolVars
  <2>1. Types'
    <3>1. wpc' \in [Workers -> {"idle", "drowsy", "asleep", "args", "copy", "close", "dead"}]
      BY <1>0 DEF Types
    <3>0. << >> \in Seq(Files)
      OBVIOUS
    <3>a. queue' = queue \/ queue' = << >>
      OBVIOUS
    <3>2. /\ mpc' \in {"readdir", "broadcast", "join", "done"} /\ exit' \in {"no", "ok", "fail"}
          /\ queue' \in Seq(Files) /\ shutdown' \in BOOLEAN
      BY <1>0, <3>0, <3>a DEF Types
    <3> QED BY <1>0, <2>0, <3>1, <3>2 DEF Types
  <2>2. Order'
    BY <1>0 DEF Order, Handed, Types
  <2>3. \A f \in Files : Served(f)' <=> Served(f)
    BY <1>0, <2>0 DEF Served
  <2>4. \A f : After(f) => After(f)'
    BY <1>0, <2>0 DEF After
  <2>5. Counts' /\ Barrier'
    BY <1>0, <2>3, PendingKept DEF Counted, Types, Files
  <2>6. Sources'
    <3>1. \A f \in Files : f <= Opened' => src'[f] \in {f, Bad, Count}
      BY <1>0 DEF Sources, Opened, Types
    <3>2. \A f \in Files : src'[f] = Count => After(f)'
      BY <1>0, <2>4 DEF Sources
    <3>3. \A f \in Files : copied'[f] = "other" => After(f)'
      BY <1>0, <2>4 DEF Sources
    <3>4. \A w \in Workers : Fetched(w)'
      BY <1>0, <2>0, <2>4, FetchedKept DEF Sources
    <3> QED BY <3>1, <3>2, <3>3, <3>4 DEF Sources
  <2> QED BY <2>1, <2>2, <2>5, <2>6, <1>f DEF IInv
<1>7. ASSUME NEW w \in Workers, WorkerStep(w) PROVE IInv'
  <2>0. mpc' = mpc /\ n' = n /\ dst' = dst /\ Handed' = Handed /\ Counted' = Counted /\ Opened' = Opened
    BY <1>7 DEF WorkerStep, Test, Wait, Leave, Take, ReadArguments, Copy, ReadError, CloseAndExit,
              mainVars, Handed, Counted, Opened
  <2>1. CASE Take(w)
    <3> USE <2>1 DEF Take, WGoto
    <3>1. /\ wpc[w] = "idle" /\ job[w] = Unset /\ queue # << >> /\ Head(queue) = queue[1] /\ queue[1] \in Files
          /\ Len(queue) \in Nat \ {0} /\ queue[1] <= Handed
      BY <1>0 DEF Types, Order
    <3>2. /\ wpc' = [wpc EXCEPT ![w] = "args"] /\ job' = [job EXCEPT ![w] = queue[1]]
      BY <3>1
    <3>3. /\ Len(queue') = Len(queue) - 1
          /\ \A k \in 1 .. Len(queue') : queue'[k] = queue[k + 1] /\ k + 1 \in 1 .. Len(queue)
      BY <1>0, <3>1 DEF Types
    <3>4. Types'
      BY <1>0, <2>0, <3>1, <3>2 DEF Types
    <3>5. Order'
      <4>1. \A k \in 1 .. Len(queue') : queue'[k] <= Handed'
        BY <1>0, <2>0, <3>3 DEF Order
      <4>2. \A k \in 1 .. Len(queue'), v \in Workers : job'[v] < queue'[k]
        BY <1>0, <3>1, <3>2, <3>3 DEF Order, Types
      <4>3. \A i, j \in 1 .. Len(queue') : i < j => queue'[i] < queue'[j]
        BY <1>0, <3>3 DEF Order
      <4>4. \A v \in Workers : job'[v] <= Handed'
        BY <1>0, <2>0, <3>1, <3>2 DEF Order, Types
      <4>5. \A v \in Workers : job[v] < queue[1] /\ job[v] \in Nat
        BY <1>0, <1>b, <3>1 DEF Order
      <4>6. \A u, v \in Workers : u # v /\ job'[u] = job'[v] => job'[v] = Unset
        BY <1>0, <3>1, <3>2, <4>5 DEF Order, Types
      <4>7. \A v \in Workers : /\ wpc'[v] \in {"idle", "drowsy", "asleep"} => job'[v] = Unset
                               /\ wpc'[v] \in {"args", "copy", "close"} => job'[v] # Unset
        BY <1>0, <3>1, <3>2 DEF Order, Types
      <4> QED BY <4>1, <4>2, <4>3, <4>4, <4>6, <4>7 DEF Order
    <3>6. \A f \in Files : Served(f)' <=> Served(f)
      BY <1>0, <3>1, <3>2 DEF Served, After, Types
    <3>a. \A f : After(f) => After(f)'
      BY <1>0, <3>1, <3>2 DEF After, Types
    <3>b. Counted' = Counted /\ semval' = semval /\ 1 .. Counted \subseteq Files
      BY <1>0, <2>0 DEF Counted, Types, Files
    <3>7. Counts' /\ Barrier'
      BY <1>0, <2>0, <3>6, <3>b, PendingKept
    <3>8. Sources'
      <4>1. \A v \in Workers : Fetched(v)'
        <5> SUFFICES ASSUME NEW v \in Workers, wpc'[v] \in {"copy", "close"} PROVE Fetched(v)'
          BY DEF Fetched
        <5>1. v # w /\ wpc'[v] = wpc[v] /\ job'[v] = job[v] /\ from'[v] = from[v] /\ job[v] \in Files
          BY <1>0, <3>2 DEF Types, Order
        <5> QED BY <5>1, <1>0, <3>a, FetchedKept DEF Sources
      <4> QED BY <4>1, <1>0, <2>0, <3>a, SourcesKept
    <3> QED BY <3>4, <3>5, <3>7, <3>8, <1>f DEF IInv
  <2>2. CASE ReadArguments(w)
    <3> USE <2>2 DEF ReadArguments, WGoto
    <3>1. /\ wpc[w] = "args" /\ job[w] \in Files /\ job[w] <= Handed /\ wpc' = [wpc EXCEPT ![w] = "copy"]
          /\ job' = job /\ from' = [from EXCEPT ![w] = src[job[w]]]
      BY <1>0 DEF Types, Order
    <3>2. Types'
      BY <1>0, <2>0, <3>1, SMTT(60) DEF Types, Files
    <3>3. Order'
      BY <1>0, <2>0, <3>1 DEF Order, Types
    <3>4. \A f \in Files : Served(f)' <=> Served(f)
      BY <1>0, <3>1 DEF Served, After, Types
    <3>a. \A f : After(f) => After(f)'
      BY <1>0, <3>1 DEF After, Types
    <3>5. Counts' /\ Barrier'
      BY <1>0, <2>0, <3>4, PendingKept DEF Counted, Types, Files
    <3>6. Sources'
      <4>1. job[w] <= Opened
        BY <1>b, <1>c, <3>1
      <4>2. src[job[w]] \in {job[w], Bad} \/ (src[job[w]] = Count /\ After(job[w]))
        BY <1>0, <3>1, <4>1 DEF Sources
      <4>3. \A v \in Workers : Fetched(v)'
        <5> SUFFICES ASSUME NEW v \in Workers, wpc'[v] \in {"copy", "close"} PROVE Fetched(v)'
          BY DEF Fetched
        <5>1. CASE v = w
          <6>1. from'[w] = src[job[w]]
            BY <1>0, <3>1 DEF Types
          <6>2. After(job[w]) => After(job[w])'
            BY <3>1, <3>a DEF After
          <6> QED BY <5>1, <6>1, <6>2, <3>1, <4>2 DEF Fetched
        <5>2. CASE v # w
          <6>1. wpc'[v] = wpc[v] /\ from'[v] = from[v] /\ job[v] \in Files
            BY <5>2, <1>0, <3>1 DEF Types, Order
          <6> QED BY <6>1, <1>0, <3>1, <3>a, FetchedKept DEF Sources
        <5> QED BY <5>1, <5>2
      <4> QED BY <4>3, <1>0, <2>0, <3>a, SourcesKept
    <3> QED BY <3>2, <3>3, <3>5, <3>6, <1>f DEF IInv
  <2>3. CASE Copy(w)
    <3> USE <2>3 DEF Copy, WGoto
    <3>1. /\ wpc[w] = "copy" /\ job[w] \in Files /\ wpc' = [wpc EXCEPT ![w] = "close"]
          /\ job' = job /\ from' = from /\ from[w] # Bad
      BY <1>0 DEF Types, Order
    <3>2. PICK c \in CopyOutcomes(w) : copied' = [copied EXCEPT ![job[w]] = c]
      BY DEF Copy
    <3>3. c \in {"nothing", "whole", "gap", "other"} /\ (c = "other" => from[w] # job[w])
      BY <3>2 DEF CopyOutcomes
    <3>4. job[w] + 1 \in 1 .. NFiles + 1 /\ src' = [src EXCEPT ![job[w] + 1] = Count]
      BY <3>1 DEF Files
    <3>5. Types'
      BY <1>0, <2>0, <3>1, <3>2, <3>3, <3>4 DEF Types
    <3>6. Order'
      BY <1>0, <2>0, <3>1 DEF Order, Types
    <3>7. \A f \in Files : Served(f)' <=> Served(f)
      BY <1>0, <3>1 DEF Served, After, Types
    <3>a. \A f : After(f) => After(f)'
      BY <1>0, <3>1 DEF After, Types
    <3>8. Counts' /\ Barrier'
      BY <1>0, <2>0, <3>7, PendingKept DEF Counted, Types, Files
    <3>9. After(job[w] + 1)'
      BY <1>0, <3>1 DEF After, Types, Files
    <3>10. Sources'
      <4>1. \A f \in Files : f <= Opened' => src'[f] \in {f, Bad, Count}
        BY <1>0, <2>0, <3>4 DEF Sources, Types, Files
      <4>2. \A f \in Files : src'[f] = Count => After(f)'
        BY <1>0, <3>4, <3>a, <3>9 DEF Sources, Types, Files
      <4>3. \A v \in Workers : Fetched(v)'
        <5> SUFFICES ASSUME NEW v \in Workers, wpc'[v] \in {"copy", "close"} PROVE Fetched(v)'
          BY DEF Fetched
        <5>1. wpc[v] \in {"copy", "close"} /\ job[v] \in Files
          BY <1>0, <3>1 DEF Types, Order
        <5> QED BY <5>1, <1>0, <3>1, <3>a, FetchedKept DEF Sources
      <4>4. c = "other" => After(job[w])
        BY <1>0, <3>1, <3>3 DEF Sources, Fetched
      <4>5. \A f \in Files : copied'[f] = "other" => After(f)'
        BY <1>0, <3>1, <3>2, <3>a, <4>4 DEF Sources, Types
      <4> QED BY <4>1, <4>2, <4>3, <4>5 DEF Sources
    <3> QED BY <3>5, <3>6, <3>8, <3>10, <1>f DEF IInv
  <2>4. CASE ReadError(w)
    <3> USE <2>4 DEF ReadError, WGoto
    <3>1. wpc' = wpc /\ job' = job
      BY <1>0 DEF Types
    <3>2. Types'
      BY <1>0, <2>0, <3>1 DEF Types
    <3>3. Order'
      BY <1>0, <2>0, <3>1 DEF Order
    <3>4. Counts' /\ Barrier'
      BY <1>0, <1>a, <2>0, <3>1, PendingKept
    <3>5. Sources'
      BY <1>d, <2>0, <3>1
    <3> QED BY <3>2, <3>3, <3>4, <3>5, <1>f DEF IInv
  <2>5. CASE CloseAndExit(w)
    <3> USE <2>5 DEF CloseAndExit, WGoto
    <3>1. wpc[w] = "close" /\ job[w] \in Files /\ job[w] <= Handed /\ wpc' = [wpc EXCEPT ![w] = "dead"] /\ job' = job
      BY <1>0 DEF Types, Order
    <3>2. Types'
      BY <1>0, <2>0, <3>1 DEF Types
    <3>3. Order'
      BY <1>0, <2>0, <3>1 DEF Order, Types
    <3>a. \A f : After(f) => After(f)'
      BY <1>0, <3>1 DEF After, Types
    <3>5. ~Served(job[w]) /\ Served(job[w])' /\ \A f \in Files \ {job[w]} : Served(f)' <=> Served(f)
      BY <1>0, <3>1 DEF Served, Order, Types
    <3>6. job[w] \in 1 .. Counted /\ 1 .. Counted \subseteq Files
      BY <1>0, <3>1 DEF Counted, Handed, Types, Files
    <3>7. job[w] \in Pending /\ Pending' = Pending \ {job[w]}
      BY <2>0, <3>5, <3>6 DEF Pending
    <3>8. Cardinality(Pending') = Cardinality(Pending) - 1
      BY <1>0, <3>7, PendingFinite, FS_RemoveElement
    <3>9. Counts' /\ Barrier'
      BY <1>0, <2>0, <3>7, <3>8 DEF Counts, Barrier
    <3>10. Sources'
      <4>1. \A v \in Workers : Fetched(v)'
        <5> SUFFICES ASSUME NEW v \in Workers, wpc'[v] \in {"copy", "close"} PROVE Fetched(v)'
          BY DEF Fetched
        <5>1. wpc[v] \in {"copy", "close"} /\ job[v] \in Files
          BY <1>0, <3>1 DEF Types, Order
        <5> QED BY <5>1, <1>0, <3>1, <3>a, FetchedKept DEF Sources
      <4> QED BY <4>1, <1>0, <2>0, <3>a, SourcesKept
    <3> QED BY <3>2, <3>3, <3>9, <3>10, <1>f DEF IInv
  <2>6. CASE Test(w) \/ Wait(w) \/ Leave(w)
    <3> USE <2>6 DEF Test, Wait, Leave, WGoto
    <3>1. /\ wpc[w] \in {"idle", "drowsy"} /\ wpc'[w] \in {"drowsy", "asleep", "dead"}
          /\ \A v \in Workers : v # w => wpc'[v] = wpc[v]
          /\ UNCHANGED << queue, shutdown, job, from, src, copied, semval >>
      BY <1>0 DEF Types, poolVars
    <3>2. job[w] = Unset
      BY <1>0, <3>1 DEF Order
    <3>3. Types'
      BY <1>0, <2>0, <3>1 DEF Types, poolVars
    <3>4. Order'
      BY <1>0, <2>0, <3>1, <3>2 DEF Order
    <3>5. \A f \in Files : Served(f)' <=> Served(f)
      BY <3>1, <3>2 DEF Served
    <3>6. \A f : After(f) => After(f)'
      BY <3>1 DEF After
    <3>7. Counts' /\ Barrier'
      BY <1>0, <2>0, <3>1, <3>5, PendingKept DEF Counted, Types, Files
    <3>8. \A v \in Workers : Fetched(v)'
      BY <1>0, <3>1, <3>6, FetchedKept DEF Sources
    <3>9. Sources'
      BY <1>0, <2>0, <3>1, <3>6, <3>8, SourcesKept
    <3> QED BY <3>3, <3>4, <3>7, <3>9, <1>f DEF IInv
  <2> QED BY <1>7, <2>1, <2>2, <2>3, <2>4, <2>5, <2>6 DEF WorkerStep
<1> QED BY <1>1, <1>2, <1>3, <1>4, <1>5, <1>6, <1>7 DEF Next, MainStep

\* IInv holds in every state: the semaphore counts the files that are in hand.
THEOREM SemaphoreCounts == Spec => []IInv
BY InitInv, StepInv, PTL DEF Spec

(* The variables of DirCopy have their types; the semaphore never exceeds  *)
(* the number of files.                                                    *)
THEOREM TypeCorrect == Spec => []TypeOK
<1>1. IInv => TypeOK
  BY PendingFinite DEF IInv, Types, Counts, TypeOK
<1> QED BY <1>1, SemaphoreCounts, PTL

(* main destroys the pool only when every file it handed over has been     *)
(* copied and closed (a.c, copydir and copyfilepass), for any number of    *)
(* workers and files.                                                      *)
THEOREM SemaphoreIsBarrier == Spec => []BarrierHolds
<1>1. IInv => BarrierHolds
  BY DEF IInv, Barrier, BarrierHolds, Pending, Counted, Types
<1> QED BY <1>1, SemaphoreCounts, PTL

(* A file is copied from a foreign descriptor only through the result that *)
(* the worker of the file before it has stored (a.c, line 400), and it is  *)
(* served without getting anything only if its destination was not opened; *)
(* neither can happen to the first file (line 448).                        *)
THEOREM WrongCopiesOnlyThere == Spec => []WrongCopiesExplained
<1>1. ASSUME IInv PROVE WrongCopiesExplained
  <2> SUFFICES ASSUME NEW f \in Files, Served(f), copied[f] = "nothing"
               PROVE  f > 1 /\ dst[f] = Bad
    BY <1>1 DEF IInv, Sources, After, WrongCopiesExplained
  <2>1. PICK w \in Workers : job[w] = f /\ wpc[w] = "dead"
    BY DEF Served
  <2>2. dst[f] = Bad /\ f <= Handed
    BY <1>1, <2>1, ConstantTypes DEF IInv, Destinations, Delivered, Order
  <2>3. dst[1] # Bad
    BY <1>1, <2>2, ConstantTypes DEF IInv, Destinations, Types, Handed
  <2> QED BY <2>2, <2>3, ConstantTypes
<1> QED BY <1>1, SemaphoreCounts, PTL
=============================================================================
