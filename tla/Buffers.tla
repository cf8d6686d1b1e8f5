------------------------------ MODULE Buffers -------------------------------
(***************************************************************************)
(* The bounded buffers of src/c/application/pthread/producer_consumer,     *)
(* with the main.c that drives each: main puts consecutive numbers, the    *)
(* threads that run tfn get them.  There is one program per directory:     *)
(*   2  a mutex and a count of the items; getitem and putitem answer       *)
(*      EAGAIN on an empty or full buffer and their callers try again;     *)
(*   3  two semaphores, set up by main before it starts the consumers;     *)
(*   4  every thread calls buffer_initmutex first, which calls buffer_init *)
(*      under a mutex until it succeeded once;                             *)
(*   5  the same with pthread_once, so a failure is final;                 *)
(*   6  every getitem and putitem goes through pthread_once, and the       *)
(*      routine writes 1 into the control variable when it succeeded.      *)
(* Nobody looks at what the initialization returns.  A semaphore that is   *)
(* not initialized is zeroed static memory: a thread that waits on it      *)
(* sleeps.  The retry of sem_wait after EINTR leaves everything as it is.  *)
(* Directory 1, whose comment says it may underflow and overflow, is 2     *)
(* without the tests.                                                      *)
(***************************************************************************)
EXTENDS Integers, Sequences, FiniteSets

CONSTANTS
  SIZE,        (* the slots of the buffer                                  *)
  Consumers,   (* the threads that run tfn; each main.c starts one         *)
  Modulus,     (* bound: main's counter i wraps here instead of at 2^32    *)
  MaxFailures  (* bound: how many calls of buffer_init may fail            *)

ASSUME BuffersAssumption ==
  /\ SIZE \in Nat \ {0} /\ Modulus \in Nat \ {0}
  /\ MaxFailures \in Nat
  /\ IsFiniteSet(Consumers)
  /\ "main" \notin Consumers /\ "nobody" \notin Consumers

Items   == 0 .. Modulus - 1
Threads == {"main"} \cup Consumers
Nobody  == "nobody"
EAGAIN  == -1

VARIABLES
  program,      (* the directory                                           *)
  buffer, bufin, bufout,
  semitems, semslots,
  bufferlock,   (* the thread that holds the mutex                         *)
  once,         (* the state of pthread_once, or of smutex and seminit     *)
  pc,           (* where each thread is                                    *)
  item,         (* the argument of main's putitem                          *)
  result,       (* what each thread's last access to the buffer gave       *)
  totalitems,   (* the items in the buffer; only program 2 has this field  *)
  inits,        (* how many calls of buffer_init have succeeded            *)
  failures      (* ... and how many have failed                            *)

slots    == <<program, buffer, bufin, bufout, totalitems>>
sems     == <<semitems, semslots>>
initVars == <<once, inits, failures>>
vars     == <<slots, sems, bufferlock, initVars, pc, item, result>>

Init ==
  /\ program \in 2 .. 6
  /\ buffer = [s \in 0 .. SIZE - 1 |-> 0]
  /\ bufin = 0 /\ bufout = 0 /\ totalitems = 0
  /\ semitems = 0 /\ semslots = 0
  /\ bufferlock = Nobody
  /\ once = "never" /\ inits = 0 /\ failures = 0
  /\ pc = [t \in Threads |->
             IF t # "main" THEN "unborn"
             ELSE IF program \in 3 .. 5 THEN "init" ELSE "create"]
  /\ item = 0
  /\ result = [t \in Threads |-> 0]

Goto(t, here, there) == pc[t] = here /\ pc' = [pc EXCEPT ![t] = there]
Answer(t, x) == result' = [result EXCEPT ![t] = x]

\* Where a thread goes from its initialization, and for another item.
AfterInit(t) == IF program # 6 /\ t = "main" THEN "create" ELSE "wait"
AfterSuccess(t) == IF program = 6 THEN "marking" ELSE AfterInit(t)
NextItem     == IF program = 6 THEN "init" ELSE "wait"

-----------------------------------------------------------------------------
(* Initialization                                                          *)

\* main starts the consumers.
Create ==
  /\ pc["main"] = "create"
  /\ pc' = [t \in Threads |->
              IF t = "main" THEN NextItem
              ELSE IF program \in {2, 3} THEN "wait" ELSE "init"]
  /\ UNCHANGED <<slots, sems, bufferlock, initVars, item, result>>

\* Mutation: the test and the initialization are not one critical section.
EnterInitUnguarded(t) ==
  /\ once \in {"never", "busy"}
  /\ once' = "busy"
  /\ Goto(t, "init", "initing")
  /\ UNCHANGED <<slots, sems, bufferlock, inits, failures, item, result>>

\* The mutex or pthread_once lets one thread in, the others wait for it.
EnterInit(t) ==
  /\ once = "never"
  /\ once' = "busy"
  /\ Goto(t, "init", "initing")
  /\ UNCHANGED <<slots, sems, bufferlock, inits, failures, item, result>>

\* Mutation: a thread does not wait for an initialization under way.
SkipInitEarly(t) ==
  /\ once \in {"busy", "done"}
  /\ Goto(t, "init", AfterInit(t))
  /\ UNCHANGED <<slots, sems, bufferlock, initVars, item, result>>

SkipInit(t) ==
  /\ once = "done"
  /\ Goto(t, "init", AfterInit(t))
  /\ UNCHANGED <<slots, sems, bufferlock, initVars, item, result>>

\* Threads that already sleep on the zeroed semaphores, which happens only
\* after a failure, need not notice that these are initialized under them.
BufferInit(t) ==
  /\ pc[t] = "initing"
  /\ semitems' = 0 /\ semslots' = SIZE
  /\ once' = (IF program = 6 THEN "busy" ELSE "done") /\ inits' = inits + 1
  /\ \E stuck \in SUBSET {u \in Threads : pc[u] = "wait"} :
       pc' = [u \in Threads |-> IF u = t THEN AfterSuccess(t)
                                ELSE IF u \in stuck THEN "stuck" ELSE pc[u]]
  /\ UNCHANGED <<slots, bufferlock, failures, item, result>>

\* init_once = 1 while pthread_once runs, which no standard defines.  The C
\* libraries of Linux keep 1 there for a routine that runs, so the write leaves
\* the guard as it is; but where the control variable also says that somebody
\* sleeps (3 in musl), the threads that sleep by now may be forgotten.
MarkOnce(t) ==
  /\ pc[t] = "marking"
  /\ \E asleep \in SUBSET {u \in Threads : pc[u] = "init"} :
       pc' = [u \in Threads |-> IF u = t THEN "leaving"
                                ELSE IF u \in asleep THEN "stuck" ELSE pc[u]]
  /\ UNCHANGED <<slots, sems, bufferlock, initVars, item, result>>

LeaveOnce(t) ==
  /\ Goto(t, "leaving", AfterInit(t))
  /\ once' = "done"
  /\ UNCHANGED <<slots, sems, bufferlock, inits, failures, item, result>>

\* Only buffer_initmutex of directory 4 lets a later caller try again.
BufferInitFails(t) ==
  /\ failures < MaxFailures
  /\ Goto(t, "initing", AfterInit(t))
  /\ failures' = failures + 1
  /\ once' = IF program = 4 THEN "never" ELSE "done"
  /\ UNCHANGED <<slots, sems, bufferlock, inits, item, result>>

-----------------------------------------------------------------------------
(* putitem and getitem                                                     *)

\* Program 2 has no semaphores to wait for.
Call(t) ==
  /\ program = 2
  /\ Goto(t, "wait", "lock")
  /\ UNCHANGED <<slots, sems, bufferlock, initVars, item, result>>

WaitSlot ==
  /\ program # 2 /\ semslots > 0
  /\ semslots' = semslots - 1
  /\ Goto("main", "wait", "lock")
  /\ UNCHANGED <<slots, semitems, bufferlock, initVars, item, result>>

WaitItem(c) ==
  /\ program # 2 /\ semitems > 0
  /\ semitems' = semitems - 1
  /\ Goto(c, "wait", "lock")
  /\ UNCHANGED <<slots, semslots, bufferlock, initVars, item, result>>

Lock(t) ==
  /\ bufferlock = Nobody
  /\ bufferlock' = t
  /\ Goto(t, "lock", "access")
  /\ UNCHANGED <<slots, sems, initVars, item, result>>

Store ==
  /\ program = 2 => totalitems < SIZE
  /\ Goto("main", "access", "unlock")
  /\ buffer' = [buffer EXCEPT ![bufin] = item]
  /\ bufin' = (bufin + 1) % SIZE
  /\ totalitems' = totalitems + 1
  /\ Answer("main", item)
  /\ UNCHANGED <<program, bufout, sems, bufferlock, initVars, item>>

FullBuffer ==
  /\ program = 2 /\ totalitems >= SIZE
  /\ Goto("main", "access", "unlock")
  /\ Answer("main", EAGAIN)
  /\ UNCHANGED <<slots, sems, bufferlock, initVars, item>>

\* Mutation: the oldest item is read from the slot that is filled next.
FetchNewest(c) ==
  /\ program = 2 => totalitems > 0
  /\ Goto(c, "access", "unlock")
  /\ Answer(c, buffer[(bufin + SIZE - 1) % SIZE])
  /\ bufout' = (bufout + 1) % SIZE
  /\ totalitems' = totalitems - 1
  /\ UNCHANGED <<program, buffer, bufin, sems, bufferlock, initVars, item>>

Fetch(c) ==
  /\ program = 2 => totalitems > 0
  /\ Goto(c, "access", "unlock")
  /\ Answer(c, buffer[bufout])
  /\ bufout' = (bufout + 1) % SIZE
  /\ totalitems' = totalitems - 1
  /\ UNCHANGED <<program, buffer, bufin, sems, bufferlock, initVars, item>>

EmptyBuffer(c) ==
  /\ program = 2 /\ totalitems <= 0
  /\ Goto(c, "access", "unlock")
  /\ Answer(c, EAGAIN)
  /\ UNCHANGED <<slots, sems, bufferlock, initVars, item>>

\* Program 2 then comes back with another call; main's putitem(i++) has moved to
\* the next number even if this one was not stored.
Unlock(t) ==
  /\ Goto(t, "unlock", IF program = 2 THEN "wait" ELSE "post")
  /\ bufferlock' = Nobody
  /\ item' = IF program = 2 /\ t = "main" THEN (item + 1) % Modulus ELSE item
  /\ UNCHANGED <<slots, sems, initVars, result>>

\* Mutation: the item that was stored is not announced.
PostItemForgotten ==
  /\ Goto("main", "post", NextItem)
  /\ item' = (item + 1) % Modulus
  /\ UNCHANGED <<slots, sems, bufferlock, initVars, result>>

\* Then main comes back with the next number.
PostItem ==
  /\ Goto("main", "post", NextItem)
  /\ semitems' = semitems + 1
  /\ item' = (item + 1) % Modulus
  /\ UNCHANGED <<slots, semslots, bufferlock, initVars, result>>

\* Mutation: the consumer forgets to give the slot back.
PostSlotForgotten(c) ==
  /\ Goto(c, "post", NextItem)
  /\ UNCHANGED <<slots, sems, bufferlock, initVars, item, result>>

PostSlot(c) ==
  /\ Goto(c, "post", NextItem)
  /\ semslots' = semslots + 1
  /\ UNCHANGED <<slots, semitems, bufferlock, initVars, item, result>>

-----------------------------------------------------------------------------
Step(t) ==
  EnterInit(t) \/ SkipInit(t) \/ BufferInit(t) \/ BufferInitFails(t)
  \/ MarkOnce(t) \/ LeaveOnce(t) \/ Call(t) \/ Lock(t) \/ Unlock(t)

MainStep == Step("main") \/ Create \/ WaitSlot \/ Store \/ FullBuffer \/ PostItem

ConsumerStep(c) ==
  Step(c) \/ WaitItem(c) \/ Fetch(c) \/ EmptyBuffer(c) \/ PostSlot(c)

Next == MainStep \/ \E c \in Consumers : ConsumerStep(c)

Spec == Init /\ [][Next]_vars

\* A thread that can run does; nothing is assumed of who wins the mutex.
FairSpec == Spec /\ WF_vars(MainStep) /\ \A c \in Consumers : WF_vars(ConsumerStep(c))

-----------------------------------------------------------------------------
TypeOK ==
  /\ program \in 2 .. 6
  /\ buffer \in [0 .. SIZE - 1 -> Items]
  /\ bufin \in 0 .. SIZE - 1 /\ bufout \in 0 .. SIZE - 1
  /\ semitems \in 0 .. SIZE /\ semslots \in 0 .. SIZE
  /\ bufferlock \in Threads \cup {Nobody}
  /\ once \in {"never", "busy", "done"}
  /\ pc \in [Threads -> {"unborn", "create", "init", "initing", "marking",
                         "leaving", "wait", "lock", "access", "unlock", "post", "stuck"}]
  /\ item \in Items /\ result \in [Threads -> Items \cup {EAGAIN}]
  /\ totalitems \in 0 .. SIZE /\ inits \in {0, 1} /\ failures \in 0 .. MaxFailures

\* Only one thread is between the lock and the unlock.
LockOwner ==
  \A t \in Threads : pc[t] \in {"access", "unlock"} <=> bufferlock = t

Initializing(t) == pc[t] \in {"initing", "marking", "leaving"}

\* buffer_initmutex.c:14-16 and the like, "initialize buffer at most ONCE": one
\* thread initializes at a time and none after a success, so the count of the
\* semaphores is never set back under a thread that uses them.
InitPhase ==
  /\ (once = "busy") <=> \E t \in Threads : Initializing(t)
  /\ \A t, u \in Threads : Initializing(t) /\ Initializing(u) => t = u
  /\ once = "never" \/ (\E t \in Threads : pc[t] = "initing") => inits = 0

\* Nobody runs before main has started it.
Births ==
  pc["main"] = "create" \/ (program # 6 /\ pc["main"] \in {"init", "initing"})
    => \A c \in Consumers : pc[c] = "unborn"

\* Program 2 posts no semaphore, and only program 6 writes into the control
\* variable of pthread_once.
Polling ==
  \A t \in Threads : /\ program = 2 => pc[t] # "post"
                     /\ pc[t] \in {"marking", "leaving"} => program = 6

Between(s) == Cardinality({t \in Threads : pc[t] \in s})

Fetching == Cardinality({c \in Consumers : pc[c] \in {"lock", "access"}})
Stored   == IF pc["main"] \in {"unlock", "post"} THEN 1 ELSE 0

\* Every slot is counted once: free, full, or in the hands of a thread; and the
\* buffer holds what semitems promises, what consumers were promised and what
\* main has stored but not yet announced.  So no item overwrites another and no
\* slot is read before it is filled.
TokensConserved ==
  program # 2 =>
    /\ semitems + semslots + Between({"lock", "access", "unlock", "post"})
         = (IF inits > 0 THEN SIZE ELSE 0)
    /\ totalitems = semitems + Fetching + Stored

\* The inductive invariant of the proofs.
IInv == TypeOK /\ LockOwner /\ InitPhase /\ Births /\ Polling /\ TokensConserved

\* buffer_seminit.c:15-18 of directory 5 and the like: the semaphores are
\* initialized before any thread waits on them, unless that failed.
UsedAfterInit ==
  program # 2 /\ failures = 0 => \A t \in Threads : pc[t] = "wait" => inits = 1

Queue == [k \in 1 .. totalitems |-> buffer[(bufout + k - 1) % SIZE]]

Promise == INSTANCE BoundedQueue WITH Producers <- {"main"}, q <- Queue

\* To its callers every one of the buffers is a first in first out queue of
\* SIZE items, and EAGAIN is never a false alarm.
ImplementsQueue == Promise!Spec

\* With semaphores the fairness of the threads is enough for every item to be
\* retrieved, since a producer that finds the buffer full leaves the mutex
\* alone; but not if pthread_once has forgotten all consumers (program 6).  With
\* the polling of program 2 it is not enough, as the comment at
\* buffer_mutexinit_boundary.c:10-16 says.
AllForgotten == program = 6 /\ \A c \in Consumers : pc[c] = "stuck"

EveryItemRetrieved ==
  program # 2 =>
    \A x \in Items :
      (\E k \in 1 .. totalitems : Queue[k] = x)
        ~> AllForgotten \/ ~(\E k \in 1 .. totalitems : Queue[k] = x)
=============================================================================
