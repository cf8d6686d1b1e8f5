----------------------------- MODULE ThreadPool -----------------------------
(***************************************************************************)
(* The fixed-size thread pool of                                           *)
(* src/c/application/pthread/thread_pool/threadpool.c: a linked list of    *)
(* tasks guarded by queue_lock, worker threads that sleep on queue_ready,  *)
(* and a main thread that creates the pool, adds tasks and destroys it.    *)
(*                                                                         *)
(* A CThread_worker node is identified with the task it carries.  Each     *)
(* action is one step between two synchronisation points; the steps made   *)
(* under queue_lock are kept apart because `shutdown' is written without   *)
(* the lock.  The sleep() calls only delay main and tasks, so an           *)
(* asynchronous model already contains every timing they can produce.      *)
(***************************************************************************)
EXTENDS Integers, Sequences, FiniteSets

CONSTANTS
  NThreads,     (* max_thread_num, the argument of pool_init               *)
  NTasks,       (* how many tasks main throws into the pool                *)
  DestroyCalls, (* how many times main calls pool_destroy                  *)
  MaxSpurious   (* bound: spurious returns of pthread_cond_wait            *)

ASSUME PoolAssumption ==
  /\ NThreads \in Nat \ {0}
  /\ NTasks \in Nat
  /\ DestroyCalls \in Nat
  /\ MaxSpurious \in Nat

Workers == 1 .. NThreads
Tasks   == 1 .. NTasks

NULL   == 0    \* the null CThread_worker pointer
Main   == 0    \* the main thread, as an owner of queue_lock
Nobody == -1   \* queue_lock is free

VARIABLES
  pool,            (* "null", "live": what the global `pool' points to     *)
  queue,           (* the list at pool->queue_head, head first             *)
  cur_queue_size,
  shutdown,
  queue_lock,      (* the owner of the mutex                               *)
  pc,              (* pc[w]: where worker thread w is in thread_routine    *)
  worker,          (* worker[w]: the local variable of thread_routine      *)
  mpc,             (* where the main thread is                             *)
  newworker,       (* the local variable of pool_add_worker                *)
  i,               (* main's loop counter in pool_init and pool_destroy    *)
  next,            (* how many tasks main has handed to pool_add_worker    *)
  calls,           (* how many times main has called pool_destroy          *)
  live,            (* the nodes that are allocated                         *)
  runs,            (* runs[t]: how often the process of task t was called  *)
  spurious         (* spurious wakeups so far                              *)

sharedVars == <<pool, queue, cur_queue_size, shutdown>>
mainVars   == <<mpc, newworker, i, next, calls>>
histVars   == <<live, runs, spurious>>
vars == <<sharedVars, queue_lock, pc, worker, mainVars, histVars>>

-----------------------------------------------------------------------------
(* Mutex, condition variable and program counters.                         *)

Acquire(t) == queue_lock = Nobody /\ queue_lock' = t
Release(t) == queue_lock = t /\ queue_lock' = Nobody

WGoto(w, from, to) == pc[w] = from /\ pc' = [pc EXCEPT ![w] = to]
MGoto(from, to)    == mpc = from /\ mpc' = to

\* The threads blocked in pthread_cond_wait(&queue_ready).
Waiters == {w \in Workers : pc[w] = "wait"}

\* pthread_cond_signal: one waiter, if there is any, leaves the wait set.
CondSignal ==
  \/ Waiters = {} /\ UNCHANGED pc
  \/ \E w \in Waiters : pc' = [pc EXCEPT ![w] = "relock"]

\* pthread_cond_broadcast: every waiter leaves the wait set.
CondBroadcast ==
  pc' = [w \in Workers |-> IF pc[w] = "wait" THEN "relock" ELSE pc[w]]

-----------------------------------------------------------------------------
Init ==
  /\ pool = "null"
  /\ queue = <<>>
  /\ cur_queue_size = 0
  /\ shutdown = FALSE
  /\ queue_lock = Nobody
  /\ pc = [w \in Workers |-> "none"]
  /\ worker = [w \in Workers |-> NULL]
  /\ mpc = "init"
  /\ newworker = NULL
  /\ i = 0
  /\ next = 0
  /\ calls = 0
  /\ live = {}
  /\ runs = [t \in Tasks |-> 0]
  /\ spurious = 0

-----------------------------------------------------------------------------
(* pool_init: the fields are set before any thread exists, then the        *)
(* threads are created one after the other and run at once.                *)

AllocPool ==
  /\ MGoto("init", "create")
  /\ pool' = "live"
  /\ UNCHANGED <<queue, cur_queue_size, shutdown, queue_lock, pc, worker,
                 newworker, i, next, calls, histVars>>

CreateThread ==
  /\ mpc = "create" /\ i < NThreads
  /\ pc' = [pc EXCEPT ![i + 1] = "lock"]
  /\ i' = i + 1
  /\ UNCHANGED <<sharedVars, queue_lock, worker, mpc, newworker, next, calls,
                 histVars>>

PoolReady ==
  /\ MGoto("create", "idle")
  /\ i = NThreads
  /\ UNCHANGED <<sharedVars, queue_lock, pc, worker, newworker, i, next,
                 calls, histVars>>

-----------------------------------------------------------------------------
(* pool_add_worker                                                         *)

AllocNode ==
  /\ next < NTasks
  /\ MGoto("idle", "add_lock")
  /\ newworker' = next + 1
  /\ next' = next + 1
  /\ live' = live \cup {next + 1}
  /\ UNCHANGED <<sharedVars, queue_lock, pc, worker, i, calls, runs, spurious>>

AddLock ==
  /\ MGoto("add_lock", "link")
  /\ Acquire(Main)
  /\ UNCHANGED <<sharedVars, pc, worker, newworker, i, next, calls, histVars>>

\* Mutation: the node is put in front of the list.
LinkNodeInFront ==
  /\ MGoto("link", "count")
  /\ queue' = <<newworker>> \o queue
  /\ UNCHANGED <<pool, cur_queue_size, shutdown, queue_lock, pc, worker,
                 newworker, i, next, calls, histVars>>

LinkNode ==
  /\ MGoto("link", "count")
  /\ queue' = Append(queue, newworker)
  /\ UNCHANGED <<pool, cur_queue_size, shutdown, queue_lock, pc, worker,
                 newworker, i, next, calls, histVars>>

CountNode ==
  /\ MGoto("count", "add_unlock")
  /\ cur_queue_size' = cur_queue_size + 1
  /\ UNCHANGED <<pool, queue, shutdown, queue_lock, pc, worker, newworker, i,
                 next, calls, histVars>>

AddUnlock ==
  /\ MGoto("add_unlock", "signal")
  /\ Release(Main)
  /\ UNCHANGED <<sharedVars, pc, worker, newworker, i, next, calls, histVars>>

\* Mutation: no worker is woken.
AddSignalForgotten ==
  /\ MGoto("signal", "idle")
  /\ newworker' = NULL
  /\ UNCHANGED <<sharedVars, queue_lock, pc, worker, i, next, calls, histVars>>

\* The signal is sent after the unlock, line 140.
AddSignal ==
  /\ MGoto("signal", "idle")
  /\ CondSignal
  /\ newworker' = NULL
  /\ UNCHANGED <<sharedVars, queue_lock, worker, i, next, calls, histVars>>

-----------------------------------------------------------------------------
(* thread_routine                                                          *)

Lock(w) ==
  /\ WGoto(w, "lock", "test")
  /\ Acquire(w)
  /\ UNCHANGED <<sharedVars, worker, mainVars, histVars>>

\* Mutation: the loop waits for a task even when the pool is shut down.
TestIgnoresShutdown(w) ==
  /\ WGoto(w, "test", IF cur_queue_size = 0 THEN "block" ELSE "check")
  /\ UNCHANGED <<sharedVars, queue_lock, worker, mainVars, histVars>>

\* The while condition of line 159.
Test(w) ==
  /\ WGoto(w, "test",
           IF cur_queue_size = 0 /\ ~shutdown THEN "block" ELSE "check")
  /\ UNCHANGED <<sharedVars, queue_lock, worker, mainVars, histVars>>

\* pthread_cond_wait releases the mutex and joins the wait set in one step.
Block(w) ==
  /\ WGoto(w, "block", "wait")
  /\ Release(w)
  /\ UNCHANGED <<sharedVars, worker, mainVars, histVars>>

SpuriousWakeup(w) ==
  /\ spurious < MaxSpurious
  /\ WGoto(w, "wait", "relock")
  /\ spurious' = spurious + 1
  /\ UNCHANGED <<sharedVars, queue_lock, worker, mainVars, live, runs>>

\* pthread_cond_wait returns with the mutex held; the while tests again.
Relock(w) ==
  /\ WGoto(w, "relock", "test")
  /\ Acquire(w)
  /\ UNCHANGED <<sharedVars, worker, mainVars, histVars>>

\* Lines 166-169: unlock and pthread_exit.
Exit(w) ==
  /\ shutdown
  /\ WGoto(w, "check", "exited")
  /\ Release(w)
  /\ UNCHANGED <<sharedVars, worker, mainVars, histVars>>

TakeCount(w) ==
  /\ ~shutdown
  /\ WGoto(w, "check", "take")
  /\ cur_queue_size' = cur_queue_size - 1
  /\ UNCHANGED <<pool, queue, shutdown, queue_lock, worker, mainVars,
                 histVars>>

\* Mutation: the node is freed before its process runs.
TakeHeadFreesIt(w) ==
  /\ queue # <<>>
  /\ WGoto(w, "take", "unlock")
  /\ worker' = [worker EXCEPT ![w] = Head(queue)]
  /\ queue' = Tail(queue)
  /\ live' = live \ {Head(queue)}
  /\ UNCHANGED <<pool, cur_queue_size, shutdown, queue_lock, mainVars, runs,
                 spurious>>

\* Line 176 dereferences queue_head: HeadExists says it is not NULL here.
TakeHead(w) ==
  /\ queue # <<>>
  /\ WGoto(w, "take", "unlock")
  /\ worker' = [worker EXCEPT ![w] = Head(queue)]
  /\ queue' = Tail(queue)
  /\ UNCHANGED <<pool, cur_queue_size, shutdown, queue_lock, mainVars,
                 histVars>>

Unlock(w) ==
  /\ WGoto(w, "unlock", "run")
  /\ Release(w)
  /\ UNCHANGED <<sharedVars, worker, mainVars, histVars>>

\* Line 187 calls the process of the task, ...
RunTask(w) ==
  /\ WGoto(w, "run", "running")
  /\ runs' = [runs EXCEPT ![worker[w]] = @ + 1]
  /\ UNCHANGED <<sharedVars, queue_lock, worker, mainVars, live, spurious>>

\* Mutation: the node is not freed.
FreeNodeForgotten(w) ==
  /\ WGoto(w, "running", "lock")
  /\ worker' = [worker EXCEPT ![w] = NULL]
  /\ UNCHANGED <<sharedVars, queue_lock, mainVars, histVars>>

\* ... which returns, and line 193 frees the node.
FreeNode(w) ==
  /\ WGoto(w, "running", "lock")
  /\ live' = live \ {worker[w]}
  /\ worker' = [worker EXCEPT ![w] = NULL]
  /\ UNCHANGED <<sharedVars, queue_lock, mainVars, runs, spurious>>

-----------------------------------------------------------------------------
(* pool_destroy, called by main once it has added its tasks.               *)

\* Line 219 when the pool exists and was not shut down.
DestroyCall ==
  /\ next = NTasks /\ calls < DestroyCalls
  /\ pool = "live" /\ ~shutdown
  /\ MGoto("idle", "set")
  /\ calls' = calls + 1
  /\ UNCHANGED <<sharedVars, queue_lock, pc, worker, newworker, i, next,
                 histVars>>

\* Line 219 once line 248 has made `pool' NULL: pool->shutdown is read
\* through a null pointer.
DestroyNull ==
  /\ calls < DestroyCalls
  /\ pool = "null"
  /\ MGoto("done", "fault")
  /\ calls' = calls + 1
  /\ UNCHANGED <<sharedVars, queue_lock, pc, worker, newworker, i, next,
                 histVars>>

\* Line 222, without queue_lock.
SetShutdown ==
  /\ MGoto("set", "broadcast")
  /\ shutdown' = TRUE
  /\ UNCHANGED <<pool, queue, cur_queue_size, queue_lock, pc, worker,
                 newworker, i, next, calls, histVars>>

\* Line 225, without queue_lock.
Broadcast ==
  /\ MGoto("broadcast", "join")
  /\ CondBroadcast
  /\ i' = 0
  /\ UNCHANGED <<sharedVars, queue_lock, worker, newworker, next, calls,
                 histVars>>

\* Mutation: the threads are detached instead of joined.
JoinWithoutWaiting ==
  /\ mpc = "join" /\ i < NThreads
  /\ i' = i + 1
  /\ UNCHANGED <<sharedVars, queue_lock, pc, worker, mpc, newworker, next,
                 calls, histVars>>

\* Line 230 waits for thread i to exit.
Join ==
  /\ mpc = "join" /\ i < NThreads
  /\ pc[i + 1] = "exited"
  /\ i' = i + 1
  /\ UNCHANGED <<sharedVars, queue_lock, pc, worker, mpc, newworker, next,
                 calls, histVars>>

JoinedAll ==
  /\ MGoto("join", "drain")
  /\ i = NThreads
  /\ UNCHANGED <<sharedVars, queue_lock, pc, worker, newworker, i, next,
                 calls, histVars>>

DrainNode ==
  /\ mpc = "drain" /\ queue # <<>>
  /\ queue' = Tail(queue)
  /\ live' = live \ {Head(queue)}
  /\ UNCHANGED <<pool, cur_queue_size, shutdown, queue_lock, pc, worker,
                 mainVars, runs, spurious>>

FreePool ==
  /\ MGoto("drain", "done")
  /\ queue = <<>>
  /\ pool' = "null"
  /\ UNCHANGED <<queue, cur_queue_size, shutdown, queue_lock, pc, worker,
                 newworker, i, next, calls, histVars>>

-----------------------------------------------------------------------------
MainStep ==
  \/ AllocPool \/ CreateThread \/ PoolReady
  \/ AllocNode \/ AddLock \/ LinkNode \/ CountNode \/ AddUnlock \/ AddSignal
  \/ DestroyCall \/ DestroyNull \/ SetShutdown \/ Broadcast
  \/ Join \/ JoinedAll \/ DrainNode \/ FreePool

WorkerStep(w) ==
  \/ Lock(w) \/ Test(w) \/ Block(w) \/ Relock(w) \/ Exit(w)
  \/ TakeCount(w) \/ TakeHead(w) \/ Unlock(w) \/ RunTask(w) \/ FreeNode(w)

Next ==
  \/ MainStep
  \/ \E w \in Workers : WorkerStep(w) \/ SpuriousWakeup(w)

Spec == Init /\ [][Next]_vars

\* The scheduler runs every thread that can run, and every task returns.  The
\* mutex is only taken finitely often, so weak fairness is enough.  When, if at
\* all, the program calls pool_destroy is its own affair.
Fairness ==
  WF_vars(MainStep /\ ~DestroyCall) /\ \A w \in Workers : WF_vars(WorkerStep(w))

FairSpec == Spec /\ Fairness

-----------------------------------------------------------------------------
WorkerPC == {"none", "lock", "test", "block", "wait", "relock", "check",
             "take", "unlock", "run", "running", "exited"}

MainPC == {"init", "create", "idle", "add_lock", "link", "count",
           "add_unlock", "signal", "set", "broadcast", "join", "drain",
           "done", "fault"}

\* Every variable ranges over the values its C declaration and the code that
\* assigns it allow.
TypeOK ==
  /\ pool \in {"null", "live"}
  /\ queue \in Seq(Tasks)
  /\ cur_queue_size \in Int
  /\ shutdown \in BOOLEAN
  /\ queue_lock \in Workers \cup {Main, Nobody}
  /\ pc \in [Workers -> WorkerPC]
  /\ worker \in [Workers -> Tasks \cup {NULL}]
  /\ mpc \in MainPC
  /\ newworker \in Tasks \cup {NULL}
  /\ i \in 0 .. NThreads
  /\ next \in 0 .. NTasks
  /\ calls \in 0 .. DestroyCalls
  /\ live \in SUBSET Tasks
  /\ runs \in [Tasks -> Nat]
  /\ spurious \in 0 .. MaxSpurious

\* Worker pcs at which the thread owns queue_lock, and at which its local
\* variable points to a node.
InCritical == {"test", "block", "check", "take", "unlock"}
HoldsNode  == {"unlock", "run", "running"}

QueueSet == {queue[k] : k \in 1 .. Len(queue)}

\* Line 176 never reads queue_head->next through a null pointer: the size a
\* worker tested is still the length of the list when it takes the head, in
\* spite of wakeups meant for another worker and of spurious ones.
HeadExists == \A w \in Workers : pc[w] = "take" => queue # <<>>

\* No task is executed twice, and none that is still queued was executed.
AtMostOnce ==
  \A t \in Tasks : runs[t] <= 1 /\ (t \in QueueSet => runs[t] = 0)

\* Every node a thread can reach is allocated, and only one can reach it: no
\* use after free, no double free between the workers and pool_destroy.
NodesOwnedOnce ==
  /\ QueueSet \subseteq live
  /\ \A w \in Workers :
       worker[w] # NULL => worker[w] \in live \ QueueSet
  /\ \A v, w \in Workers :
       worker[v] = worker[w] /\ worker[v] # NULL => v = w

\* No worker can touch the pool after pool_destroy has begun to release it:
\* a thread that is still running a task has been waited for.
PoolOutlivesWorkers ==
  mpc \in {"drain", "done", "fault"} => \A w \in Workers : pc[w] = "exited"

\* When pool_destroy has returned, no node is leaked: the waiting tasks were
\* discarded, and every task was either executed once or discarded.
NothingLeaked == mpc \in {"done", "fault"} => live = {} /\ queue = <<>>

\* pool_add_worker loses no wakeup: all workers sleep on queue_ready only while
\* there is no task to run, or while main has yet to signal for the one it
\* has just linked.  (pool_destroy does lose wakeups: see ShutdownReachesAll.)
AsleepOnlyWhenIdle ==
  (\A w \in Workers : pc[w] = "wait") /\ ~shutdown
    => queue = <<>> \/ mpc \in {"count", "add_unlock", "signal"}

\* The queue is first in, first out: a task is taken only after every task
\* that was added before it.
FirstInFirstOut ==
  \A t, u \in Tasks : u < t /\ u \in QueueSet => runs[t] = 0 /\ \A w \in Workers : worker[w] # t

-----------------------------------------------------------------------------
(* The refinement: a node is submitted when it is linked, started when a   *)
(* worker takes it off the list, finished when the worker frees it after   *)
(* its process has run, and discarded when pool_destroy frees it.          *)

Held == {worker[w] : w \in Workers} \ {NULL}

Executed == {t \in Tasks : runs[t] > 0}

Linked ==
  {t \in Tasks : t <= next /\ ~(t = newworker /\ mpc \in {"add_lock", "link"})}

Released == mpc \in {"drain", "done", "fault"}

Promise == INSTANCE TaskPool WITH
  Capacity  <- NThreads,
  waiting   <- queue,
  running   <- Held,
  finished  <- Executed \ Held,
  discarded <- Linked \ (QueueSet \cup Held \cup Executed),
  closed    <- Released

\* The pool keeps the promises of its comments: tasks start in order, at most
\* max_thread_num at a time, once each; pool_destroy waits for those that run
\* and discards those that wait, and none starts afterwards.
ImplementsTaskPool == Promise!Spec

-----------------------------------------------------------------------------
\* Until main shuts the pool down, every task in the queue is started, however
\* wakeups and lock acquisitions interleave.
TasksStart ==
  \A t \in Tasks : t \in QueueSet ~> runs[t] = 1 \/ shutdown

\* pool_destroy returns when no worker was between the test of line 159 and
\* the sleep of line 160 at the moment of the broadcast.
DestroyReturns ==
  (mpc = "join" /\ \A w \in Workers : pc[w] \notin {"block", "wait"})
    ~> mpc = "done"

\* Lines 224-230 of pool_destroy, "wake up all of the tasks" and "wait for all
\* of the task exit": once the flag is set every thread exits.
ShutdownReachesAll ==
  shutdown ~> \A w \in Workers : pc[w] = "exited"

-----------------------------------------------------------------------------
(* The inductive invariant behind HeadExists, PoolOutlivesWorkers and      *)
(* AsleepOnlyWhenIdle; ThreadPoolProofs proves it.                         *)

\* The program counters say who is inside the critical section.
LockOwner ==
  /\ \A w \in Workers : pc[w] \in InCritical <=> queue_lock = w
  /\ mpc \in {"link", "count", "add_unlock"} <=> queue_lock = Main

\* shutdown is set by pool_destroy and never cleared.
ShutdownPhase ==
  shutdown <=> mpc \in {"broadcast", "join", "drain", "done", "fault"}

\* Which threads exist, and which pool_destroy has joined.
Lifecycle ==
  /\ mpc = "init" => i = 0
  /\ mpc \in {"init", "create"} =>
       \A w \in Workers : pc[w] = "none" <=> w > i
  /\ mpc = "join" => \A w \in Workers : w <= i => pc[w] = "exited"
  /\ Released => \A w \in Workers : pc[w] = "exited"

\* The node pool_add_worker is about to link is the latest it allocated.
PendingNode == mpc \in {"add_lock", "link"} => newworker = next /\ next > 0

\* cur_queue_size lags the list only between the two assignments that add or
\* take a node, and says what the worker in the critical section tested.
SizeMatches ==
  ~Released =>
    /\ cur_queue_size >= 0
    /\ Len(queue) = cur_queue_size
         + (IF mpc = "count" \/ \E w \in Workers : pc[w] = "take"
              THEN 1 ELSE 0)
    /\ \A w \in Workers :
         /\ pc[w] = "check" => cur_queue_size > 0 \/ shutdown
         /\ pc[w] = "block" => cur_queue_size = 0

\* AsleepOnlyWhenIdle holds already for workers about to sleep.
DrowsyOnlyWhenIdle ==
  (\A w \in Workers : pc[w] \in {"block", "wait"}) /\ ~shutdown
    => queue = <<>> \/ mpc \in {"count", "add_unlock", "signal"}

\* The invariant that the theorems of ThreadPoolProofs rest on.
IInv ==
  /\ TypeOK
  /\ PendingNode
  /\ LockOwner
  /\ ShutdownPhase
  /\ Lifecycle
  /\ SizeMatches
  /\ DrowsyOnlyWhenIdle

-----------------------------------------------------------------------------
(* The inductive invariant behind NodesOwnedOnce, AtMostOnce, NothingLeaked *)
(* and FirstInFirstOut: tasks are numbered in the order main adds them, so  *)
(* the list is ascending and lies above everything taken before.            *)

\* The last task that was linked.
LastLinked == IF mpc \in {"add_lock", "link"} THEN next - 1 ELSE next

QueueAscends ==
  /\ \A k, l \in 1 .. Len(queue) : k < l => queue[k] < queue[l]
  /\ \A k \in 1 .. Len(queue) : queue[k] <= LastLinked

WorkersBelow ==
  \A w \in Workers :
    /\ pc[w] \in HoldsNode <=> worker[w] # NULL
    /\ worker[w] <= LastLinked
    /\ \A k \in 1 .. Len(queue) : worker[w] < queue[k]
    /\ \A v \in Workers : v # w /\ worker[w] # NULL => worker[v] # worker[w]

RunsBelow ==
  /\ \A t \in Tasks :
       /\ runs[t] <= 1
       /\ runs[t] = 1 => t <= LastLinked
       /\ runs[t] = 1 => \A k \in 1 .. Len(queue) : t < queue[k]
  /\ \A w \in Workers : pc[w] \in {"unlock", "run"} => runs[worker[w]] = 0

LiveNodes ==
  \A t \in Tasks :
    t \in live <=> \/ \E k \in 1 .. Len(queue) : queue[k] = t
                   \/ \E w \in Workers : worker[w] = t
                   \/ mpc \in {"add_lock", "link"} /\ t = next

\* Only the drain empties the list for good.
Drained == mpc \in {"done", "fault"} => queue = <<>>

\* The invariant of the nodes, inductive relative to IInv.
NodeInv ==
  QueueAscends /\ WorkersBelow /\ RunsBelow /\ LiveNodes /\ Drained
=============================================================================
