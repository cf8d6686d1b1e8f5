------------------------------ MODULE DirCopy -------------------------------
(***************************************************************************)
(* The parallel directory copy of                                          *)
(* src/c/application/pthread/thread_pool/a.c: main opens the files of a    *)
(* directory one after the other, counts each in a System V semaphore and  *)
(* hands it to the pool; copyfilepass copies one file, counts it down and  *)
(* ends its thread.  The pool is a copy of the one of ThreadPool; its list *)
(* is here a queue that hands out files in order, which is what ThreadPool *)
(* is shown to do, and its mutex shows only where it is held across steps: *)
(* a drowsy worker has found the queue empty and no shutdown, holds        *)
(* queue_lock and is about to wait for it and queue_ready.  Spurious       *)
(* wakeups, which can only help here, are left to ThreadPool.              *)
(*                                                                         *)
(* The arguments of file f are targs[2f-2] (source descriptor) and         *)
(* targs[2f-1]; copyfilepass writes its result to the third slot from its  *)
(* argument, which is the source descriptor of file f+1.                   *)
(***************************************************************************)
EXTENDS Integers, Sequences

CONSTANTS
  NThreads,   (* the argument of pool_init                                 *)
  NFiles      (* bound: a directory lists at most so many files            *)

ASSUME DirCopyAssumption == NThreads \in Nat \ {0} /\ NFiles \in Nat \ {0}

Workers == 1 .. NThreads
Files   == 1 .. NFiles

Unset == 0     \* a slot main has not written yet
Bad   == -1    \* open() failed
Count == -2    \* a byte count stands where a descriptor is expected

VARIABLES
  mpc,      (* where main is                                               *)
  n,        (* the files main has read from the directory                  *)
  src,      (* src[f]: targs[2f-2], the descriptor of file f when it is f  *)
  dst,      (* dst[f]: targs[2f-1]                                         *)
  semval,   (* the value of the System V semaphore                         *)
  queue,    (* the files waiting in the pool                               *)
  shutdown, (* the pool's flag                                             *)
  wpc, job, (* what each worker is doing, and with which file              *)
  from, to, (* the locals of copyfilepass                                  *)
  copied,   (* copied[f]: what the destination of f holds after copyfile   *)
  exit      (* "no", or whether the process ended with status 0 or 1       *)

mainVars   == <<mpc, n, dst>>
workerVars == <<wpc, job, from, to, copied>>
poolVars   == <<queue, shutdown>>
vars == <<mainVars, src, semval, poolVars, workerVars, exit>>

Init ==
  /\ mpc = "readdir" /\ n = 0
  /\ src = [f \in 1 .. NFiles + 1 |-> Unset]
  /\ dst = [f \in Files |-> Unset]
  /\ semval = 0 /\ queue = <<>> /\ shutdown = FALSE
  /\ wpc = [w \in Workers |-> "idle"]
  /\ job = [w \in Workers |-> Unset]
  /\ from = [w \in Workers |-> Unset]
  /\ to = [w \in Workers |-> Unset]
  /\ copied = [f \in Files |-> "nothing"]
  /\ exit = "no"

MGoto(here, there) == exit = "no" /\ mpc = here /\ mpc' = there
WGoto(w, here, there) ==
  exit = "no" /\ wpc[w] = here /\ wpc' = [wpc EXCEPT ![w] = there]

LockFree == \A w \in Workers : wpc[w] # "drowsy"

-----------------------------------------------------------------------------
(* main and copydir                                                        *)

ReadRegularFile ==
  /\ n < NFiles
  /\ MGoto("readdir", "open_src")
  /\ n' = n + 1
  /\ UNCHANGED <<src, dst, semval, poolVars, workerVars, exit>>

\* Line 441: any other entry ends the process, whatever the workers are doing.
ReadOtherEntry ==
  /\ MGoto("readdir", "readdir")
  /\ exit' = "ok"
  /\ UNCHANGED <<n, dst, src, semval, poolVars, workerVars>>

\* Mutation: the pool is destroyed without waiting for the semaphore.
EndOfDirectoryNoBarrier ==
  /\ MGoto("readdir", "destroy")
  /\ UNCHANGED <<n, dst, src, semval, poolVars, workerVars, exit>>

EndOfDirectory ==
  /\ MGoto("readdir", "zero")
  /\ UNCHANGED <<n, dst, src, semval, poolVars, workerVars, exit>>

OpenSource ==
  /\ MGoto("open_src", "open_dst")
  /\ \E fd \in {n, Bad} : src' = [src EXCEPT ![n] = fd]
  /\ UNCHANGED <<n, dst, semval, poolVars, workerVars, exit>>

\* Mutation: the result of open is not looked at.
OpenDestinationUnchecked ==
  /\ MGoto("open_dst", "sem_v")
  /\ \E fd \in {n, Bad} : dst' = [dst EXCEPT ![n] = fd]
  /\ UNCHANGED <<n, src, semval, poolVars, workerVars, exit>>

\* Line 448 looks at the descriptors of the first file only.
OpenDestination ==
  /\ MGoto("open_dst", "sem_v")
  /\ \E fd \in {n, Bad} : dst' = [dst EXCEPT ![n] = fd]
  /\ exit' = IF src[1] = Bad \/ dst'[1] = Bad THEN "fail" ELSE "no"
  /\ UNCHANGED <<n, src, semval, poolVars, workerVars>>

SemV ==
  /\ MGoto("sem_v", "add")
  /\ semval' = semval + 1
  /\ UNCHANGED <<n, dst, src, poolVars, workerVars, exit>>

\* pool_add_worker: the task is appended under the lock ...
AddWorker ==
  /\ LockFree
  /\ MGoto("add", "signal")
  /\ queue' = Append(queue, n)
  /\ UNCHANGED <<n, dst, src, semval, shutdown, workerVars, exit>>

\* ... and one waiting worker, if there is one, is woken after the unlock.
Signal ==
  LET asleep == {w \in Workers : wpc[w] = "asleep"} IN
  /\ MGoto("signal", "readdir")
  /\ \/ asleep = {} /\ UNCHANGED wpc
     \/ \E w \in asleep : wpc' = [wpc EXCEPT ![w] = "idle"]
  /\ UNCHANGED <<n, dst, src, semval, poolVars, job, from, to, copied, exit>>

SemZero ==
  /\ MGoto("zero", "destroy")
  /\ semval = 0
  /\ UNCHANGED <<n, dst, src, semval, poolVars, workerVars, exit>>

\* pool_destroy sets the flag and wakes the waiting workers, both without
\* queue_lock (lines 269-272); a drowsy worker sees neither.
Shutdown ==
  /\ MGoto("destroy", "broadcast")
  /\ shutdown' = TRUE
  /\ UNCHANGED <<n, dst, src, semval, queue, workerVars, exit>>

Broadcast ==
  /\ MGoto("broadcast", "join")
  /\ wpc' = [w \in Workers |-> IF wpc[w] = "asleep" THEN "idle" ELSE wpc[w]]
  /\ UNCHANGED <<n, dst, src, semval, poolVars, job, from, to, copied, exit>>

\* It joins all workers and frees what is left of the queue; then main exits.
Join ==
  /\ \A w \in Workers : wpc[w] = "dead"
  /\ MGoto("join", "done")
  /\ queue' = <<>>
  /\ exit' = "ok"
  /\ UNCHANGED <<n, dst, src, semval, shutdown, workerVars>>

-----------------------------------------------------------------------------
(* thread_routine and copyfilepass                                         *)

\* The test of line 216 finds no task and no shutdown; the wait that follows
\* lets go of queue_lock.
Test(w) ==
  /\ LockFree /\ queue = <<>> /\ ~shutdown
  /\ WGoto(w, "idle", "drowsy")
  /\ UNCHANGED <<mainVars, src, semval, poolVars, job, from, to, copied, exit>>

Wait(w) ==
  /\ WGoto(w, "drowsy", "asleep")
  /\ UNCHANGED <<mainVars, src, semval, poolVars, job, from, to, copied, exit>>

Leave(w) ==
  /\ LockFree /\ shutdown
  /\ WGoto(w, "idle", "dead")
  /\ UNCHANGED <<mainVars, src, semval, poolVars, job, from, to, copied, exit>>

Take(w) ==
  /\ LockFree /\ queue # <<>> /\ ~shutdown
  /\ WGoto(w, "idle", "args")
  /\ job' = [job EXCEPT ![w] = Head(queue)]
  /\ queue' = Tail(queue)
  /\ UNCHANGED <<mainVars, src, semval, shutdown, from, to, copied, exit>>

ReadArguments(w) ==
  /\ WGoto(w, "args", "copy")
  /\ from' = [from EXCEPT ![w] = src[job[w]]]
  /\ to' = [to EXCEPT ![w] = dst[job[w]]]
  /\ UNCHANGED <<mainVars, src, semval, poolVars, job, copied, exit>>

\* What copyfile can leave in the destination: a failing write only ends the
\* inner loop of line 372, so the rest of the file may be written after a gap.
CopyOutcomes(w) ==
  IF to[w] = Bad THEN {"nothing"}
  ELSE IF from[w] = job[w] THEN {"whole", "gap"}
  ELSE {"other"}

\* copyfile reaches end of file, and line 400 stores the byte count.
Copy(w) ==
  /\ from[w] # Bad
  /\ WGoto(w, "copy", "close")
  /\ \E c \in CopyOutcomes(w) : copied' = [copied EXCEPT ![job[w]] = c]
  /\ src' = [src EXCEPT ![job[w] + 1] = Count]
  /\ UNCHANGED <<mainVars, semval, poolVars, job, from, to, exit>>

\* Line 364: a read error, of which a bad descriptor is one, ends the process.
ReadError(w) ==
  /\ WGoto(w, "copy", "copy")
  /\ exit' = "fail"
  /\ UNCHANGED <<mainVars, src, semval, poolVars, job, from, to, copied>>

\* Mutation: the file is not counted down.
CloseAndExitUncounted(w) ==
  /\ WGoto(w, "close", "dead")
  /\ UNCHANGED <<mainVars, src, semval, poolVars, job, from, to, copied, exit>>

\* Lines 401-404: close, sem_p and pthread_exit, which ends the pool's worker.
CloseAndExit(w) ==
  /\ semval > 0
  /\ WGoto(w, "close", "dead")
  /\ semval' = semval - 1
  /\ UNCHANGED <<mainVars, src, poolVars, job, from, to, copied, exit>>

-----------------------------------------------------------------------------
MainStep ==
  \/ ReadRegularFile \/ ReadOtherEntry \/ EndOfDirectory
  \/ OpenSource \/ OpenDestination \/ SemV \/ AddWorker \/ Signal
  \/ SemZero \/ Shutdown \/ Broadcast \/ Join

WorkerStep(w) ==
  \/ Test(w) \/ Wait(w) \/ Leave(w) \/ Take(w)
  \/ ReadArguments(w) \/ Copy(w) \/ ReadError(w) \/ CloseAndExit(w)

Next == MainStep \/ \E w \in Workers : WorkerStep(w)

Spec == Init /\ [][Next]_vars

\* A byte count below 3 names standard input, output or error: a worker that
\* takes it for its source may read from the terminal for ever.
ReadsTerminal(w) == wpc[w] = "copy" /\ from[w] = Count

\* Every thread that can run does, but for one that reads from the terminal;
\* the copy of a file ends because the file does.
FairSpec ==
  /\ Spec
  /\ WF_vars(MainStep)
  /\ \A w \in Workers : WF_vars(~ReadsTerminal(w) /\ WorkerStep(w))

-----------------------------------------------------------------------------
TypeOK ==
  /\ mpc \in {"readdir", "open_src", "open_dst", "sem_v", "add", "zero",
              "signal", "destroy", "broadcast", "join", "done"}
  /\ n \in 0 .. NFiles
  /\ src \in [1 .. NFiles + 1 -> Files \cup {Unset, Bad, Count}]
  /\ dst \in [Files -> Files \cup {Unset, Bad}]
  /\ semval \in 0 .. NFiles
  /\ queue \in Seq(Files) /\ shutdown \in BOOLEAN
  /\ wpc \in [Workers -> {"idle", "drowsy", "asleep", "args", "copy", "close",
                         "dead"}]
  /\ job \in [Workers -> Files \cup {Unset}]
  /\ from \in [Workers -> Files \cup {Unset, Bad, Count}]
  /\ to \in [Workers -> Files \cup {Unset, Bad}]
  /\ copied \in [Files -> {"nothing", "whole", "gap", "other"}]
  /\ exit \in {"no", "ok", "fail"}

Served(f) == \E w \in Workers : job[w] = f /\ wpc[w] = "dead"

\* main destroys the pool only when every file it handed over has been copied
\* and its destination closed: the semaphore is a barrier.
BarrierHolds ==
  mpc \in {"destroy", "broadcast", "join", "done"} =>
    \A f \in 1 .. n : Served(f)

\* A file is copied from a descriptor that is not its own only if the worker of
\* the file before it had finished by then, and a file that was served gets
\* nothing only if its destination was not opened, which line 448 overlooks;
\* neither happens to the first file.
WrongCopiesExplained ==
  \A f \in Files :
    /\ copied[f] = "other" =>
         f > 1 /\ \E w \in Workers : job[w] = f - 1 /\ wpc[w] \in {"close", "dead"}
    /\ Served(f) /\ copied[f] = "nothing" => f > 1 /\ dst[f] = Bad

\* A worker reads from the terminal, or one that has no file missed the
\* broadcast and main waits for it, as in ThreadPool.
Stuck ==
  \/ \E w \in Workers : ReadsTerminal(w)
  \/ mpc = "join" /\ \E w \in Workers : wpc[w] = "asleep" /\ job[w] = Unset

\* With no more files than workers the program ends, unless it is stuck.
Terminates == <>(exit # "no") \/ <>[]Stuck

\* Lines 247-248, "when the work is done, free the source and continue to
\* excute another work": a file in the queue is eventually taken, where no
\* worker is kept by the terminal.
QueuedFilesAreTaken ==
  \A f \in Files : (\E k \in 1 .. Len(queue) : queue[k] = f)
    ~> \/ exit # "no"
       \/ \E w \in Workers : job[w] = f \/ ReadsTerminal(w)

\* Line 367 reports "file copy completed." at end of file: what was copied then
\* came from the source file.
CompletedMeansCopied == \A f \in Files : copied[f] # "other"
=============================================================================
