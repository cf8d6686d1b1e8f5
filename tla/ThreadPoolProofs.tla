-------------------------- MODULE ThreadPoolProofs --------------------------
(***************************************************************************)
(* The theorems about the thread pool, for every number of threads and     *)
(* tasks.  All rest on the inductive invariant IInv of ThreadPool.         *)
(***************************************************************************)
EXTENDS ThreadPool, FiniteSetTheorems, TLAPS

LEMMA InitIInv == Init => IInv
<1> SUFFICES ASSUME Init PROVE IInv
  OBVIOUS
<1> USE PoolAssumption DEF Init, Workers, Tasks, NULL, Main, Nobody
<1>1. TypeOK
  <2>1. queue \in Seq(Tasks)
    OBVIOUS
  <2>2. shutdown \in BOOLEAN
    OBVIOUS
  <2>3. pc \in [Workers -> WorkerPC]
    BY DEF WorkerPC
  <2>4. /\ pool \in {"null", "live"}
        /\ mpc \in MainPC
    BY DEF MainPC
  <2>5. /\ cur_queue_size \in Int
        /\ queue_lock \in Workers \cup {Main, Nobody}
        /\ worker \in [Workers -> Tasks \cup {NULL}]
        /\ newworker \in Tasks \cup {NULL}
        /\ i \in 0 .. NThreads
        /\ next \in 0 .. NTasks
        /\ calls \in 0 .. DestroyCalls
        /\ spurious \in 0 .. MaxSpurious
    OBVIOUS
  <2>6. live \in SUBSET Tasks /\ runs \in [Tasks -> Nat]
    OBVIOUS
  <2> QED
    BY <2>1, <2>2, <2>3, <2>4, <2>5, <2>6 DEF TypeOK
<1>2. PendingNode /\ LockOwner /\ ShutdownPhase /\ Lifecycle
  BY DEF PendingNode, LockOwner, ShutdownPhase, Lifecycle, InCritical, Released
<1>3. SizeMatches
  BY DEF SizeMatches
<1>4. DrowsyOnlyWhenIdle
  BY DEF DrowsyOnlyWhenIdle
<1> QED
  BY <1>1, <1>2, <1>3, <1>4 DEF IInv

-----------------------------------------------------------------------------
(* Type correctness                                                        *)

LEMMA NextTypeOK == TypeOK /\ PendingNode /\ [Next]_vars => TypeOK'
<1> SUFFICES ASSUME TypeOK, PendingNode, [Next]_vars PROVE TypeOK'
  OBVIOUS
<1> USE PoolAssumption DEF TypeOK, Workers, Tasks, NULL, Main, Nobody,
        WorkerPC, MainPC, sharedVars, mainVars, histVars, MGoto, WGoto,
        Acquire, Release
<1>1. CASE AllocPool
  BY <1>1 DEF AllocPool
<1>2. CASE CreateThread
  BY <1>2 DEF CreateThread
<1>3. CASE PoolReady
  BY <1>3 DEF PoolReady
<1>4. CASE AllocNode
  BY <1>4 DEF AllocNode
<1>5. CASE AddLock
  BY <1>5 DEF AddLock
<1>6. CASE LinkNode
  BY <1>6 DEF LinkNode, PendingNode
<1>7. CASE CountNode
  BY <1>7 DEF CountNode
<1>8. CASE AddUnlock
  BY <1>8 DEF AddUnlock
<1>9. CASE AddSignal
  BY <1>9 DEF AddSignal, CondSignal, Waiters
<1>10. CASE DestroyCall
  BY <1>10 DEF DestroyCall
<1>11. CASE DestroyNull
  BY <1>11 DEF DestroyNull
<1>12. CASE SetShutdown
  BY <1>12 DEF SetShutdown
<1>13. CASE Broadcast
  BY <1>13 DEF Broadcast, CondBroadcast
<1>14. CASE Join
  BY <1>14 DEF Join
<1>15. CASE JoinedAll
  BY <1>15 DEF JoinedAll
<1>16. CASE DrainNode
  <2>1. Tail(queue) \in Seq(Tasks)
    BY <1>16 DEF DrainNode
  <2>2. live' \subseteq Tasks
    BY <1>16 DEF DrainNode
  <2> QED
    BY <1>16, <2>1, <2>2 DEF DrainNode
<1>17. CASE FreePool
  BY <1>17 DEF FreePool
<1>18. ASSUME NEW w \in Workers, WorkerStep(w) \/ SpuriousWakeup(w)
      PROVE  TypeOK'
  <2>1. CASE Lock(w)
    BY <2>1 DEF Lock
  <2>2. CASE Test(w)
    BY <2>2 DEF Test
  <2>3. CASE Block(w)
    BY <2>3 DEF Block
  <2>4. CASE SpuriousWakeup(w)
    BY <2>4 DEF SpuriousWakeup
  <2>5. CASE Relock(w)
    BY <2>5 DEF Relock
  <2>6. CASE Exit(w)
    BY <2>6 DEF Exit
  <2>7. CASE TakeCount(w)
    BY <2>7 DEF TakeCount
  <2>8. CASE TakeHead(w)
    BY <2>8, SMTT(60) DEF TakeHead
  <2>9. CASE Unlock(w)
    BY <2>9 DEF Unlock
  <2>10. CASE RunTask(w)
    <3>1. runs' \in [Tasks -> Nat]
      <4>1. runs' = [t \in Tasks |-> IF t = worker[w] THEN runs[t] + 1
                                                     ELSE runs[t]]
        BY <2>10 DEF RunTask
      <4>2. \A t \in Tasks : runs[t] + 1 \in Nat /\ runs[t] \in Nat
        OBVIOUS
      <4> QED
        BY <4>1, <4>2, Zenon
    <3>2. pc' \in [Workers -> WorkerPC]
      BY <2>10 DEF RunTask
    <3> QED
      BY <2>10, <3>1, <3>2 DEF RunTask
  <2>11. CASE FreeNode(w)
    BY <2>11 DEF FreeNode
  <2> QED
    BY <1>18, <2>1, <2>2, <2>3, <2>4, <2>5, <2>6, <2>7, <2>8, <2>9, <2>10, <2>11
       DEF WorkerStep
<1>19. CASE UNCHANGED vars
  BY <1>19 DEF vars
<1> QED
  BY <1>1, <1>2, <1>3, <1>4, <1>5, <1>6, <1>7, <1>8, <1>9, <1>10, <1>11, <1>12, <1>13, <1>14, <1>15, <1>16, <1>17, <1>18, <1>19
     DEF Next, MainStep

-----------------------------------------------------------------------------
(* The synchronisation invariants                                          *)

LEMMA NextPendingNode ==
  ASSUME TypeOK, PendingNode, [Next]_vars
  PROVE  PendingNode'
<1> USE PoolAssumption DEF TypeOK, Workers, Tasks, NULL, Main, Nobody,
        WorkerPC, MainPC, sharedVars, mainVars, histVars, MGoto, WGoto,
        Acquire, Release, PendingNode
<1>1. CASE AllocPool
  BY <1>1 DEF AllocPool
<1>2. CASE CreateThread
  BY <1>2 DEF CreateThread
<1>3. CASE PoolReady
  BY <1>3 DEF PoolReady
<1>4. CASE AllocNode
  BY <1>4 DEF AllocNode
<1>5. CASE AddLock
  BY <1>5 DEF AddLock
<1>6. CASE LinkNode
  BY <1>6 DEF LinkNode
<1>7. CASE CountNode
  BY <1>7 DEF CountNode
<1>8. CASE AddUnlock
  BY <1>8 DEF AddUnlock
<1>9. CASE AddSignal
  BY <1>9 DEF AddSignal, CondSignal, Waiters
<1>10. CASE DestroyCall
  BY <1>10 DEF DestroyCall
<1>11. CASE DestroyNull
  BY <1>11 DEF DestroyNull
<1>12. CASE SetShutdown
  BY <1>12 DEF SetShutdown
<1>13. CASE Broadcast
  BY <1>13 DEF Broadcast, CondBroadcast
<1>14. CASE Join
  BY <1>14 DEF Join
<1>15. CASE JoinedAll
  BY <1>15 DEF JoinedAll
<1>16. CASE DrainNode
  BY <1>16 DEF DrainNode
<1>17. CASE FreePool
  BY <1>17 DEF FreePool
<1>18. ASSUME NEW w \in Workers, WorkerStep(w) \/ SpuriousWakeup(w)
      PROVE  PendingNode'
  <2>1. CASE Lock(w)
    BY <2>1 DEF Lock
  <2>2. CASE Test(w)
    BY <2>2 DEF Test
  <2>3. CASE Block(w)
    BY <2>3 DEF Block
  <2>4. CASE SpuriousWakeup(w)
    BY <2>4 DEF SpuriousWakeup
  <2>5. CASE Relock(w)
    BY <2>5 DEF Relock
  <2>6. CASE Exit(w)
    BY <2>6 DEF Exit
  <2>7. CASE TakeCount(w)
    BY <2>7 DEF TakeCount
  <2>8. CASE TakeHead(w)
    BY <2>8 DEF TakeHead
  <2>9. CASE Unlock(w)
    BY <2>9 DEF Unlock
  <2>10. CASE RunTask(w)
    BY <2>10 DEF RunTask
  <2>11. CASE FreeNode(w)
    BY <2>11 DEF FreeNode
  <2> QED
    BY <1>18, <2>1, <2>2, <2>3, <2>4, <2>5, <2>6, <2>7, <2>8, <2>9, <2>10, <2>11
       DEF WorkerStep
<1>19. CASE UNCHANGED vars
  BY <1>19 DEF vars
<1> QED
  BY <1>1, <1>2, <1>3, <1>4, <1>5, <1>6, <1>7, <1>8, <1>9, <1>10,
     <1>11, <1>12, <1>13, <1>14, <1>15, <1>16, <1>17, <1>18, <1>19
     DEF Next, MainStep

LEMMA NextLockOwner ==
  ASSUME TypeOK, Lifecycle, LockOwner, [Next]_vars
  PROVE  LockOwner'
<1> USE PoolAssumption DEF TypeOK, Workers, Tasks, NULL, Main, Nobody,
        WorkerPC, MainPC, sharedVars, mainVars, histVars, MGoto, WGoto,
        Acquire, Release, 
        LockOwner, Lifecycle, InCritical, Released
<1>1. CASE AllocPool
  BY <1>1 DEF AllocPool
<1>2. CASE CreateThread
  BY <1>2 DEF CreateThread
<1>3. CASE PoolReady
  BY <1>3 DEF PoolReady
<1>4. CASE AllocNode
  BY <1>4 DEF AllocNode
<1>5. CASE AddLock
  BY <1>5 DEF AddLock
<1>6. CASE LinkNode
  BY <1>6 DEF LinkNode
<1>7. CASE CountNode
  BY <1>7 DEF CountNode
<1>8. CASE AddUnlock
  BY <1>8 DEF AddUnlock
<1>9. CASE AddSignal
  BY <1>9 DEF AddSignal, CondSignal, Waiters
<1>10. CASE DestroyCall
  BY <1>10 DEF DestroyCall
<1>11. CASE DestroyNull
  BY <1>11 DEF DestroyNull
<1>12. CASE SetShutdown
  BY <1>12 DEF SetShutdown
<1>13. CASE Broadcast
  BY <1>13 DEF Broadcast, CondBroadcast
<1>14. CASE Join
  BY <1>14 DEF Join
<1>15. CASE JoinedAll
  BY <1>15 DEF JoinedAll
<1>16. CASE DrainNode
  BY <1>16 DEF DrainNode
<1>17. CASE FreePool
  BY <1>17 DEF FreePool
<1>18. ASSUME NEW w \in Workers, WorkerStep(w) \/ SpuriousWakeup(w)
      PROVE  LockOwner'
  <2>1. CASE Lock(w)
    BY <2>1 DEF Lock
  <2>2. CASE Test(w)
    BY <2>2 DEF Test
  <2>3. CASE Block(w)
    BY <2>3 DEF Block
  <2>4. CASE SpuriousWakeup(w)
    BY <2>4 DEF SpuriousWakeup
  <2>5. CASE Relock(w)
    BY <2>5 DEF Relock
  <2>6. CASE Exit(w)
    BY <2>6 DEF Exit
  <2>7. CASE TakeCount(w)
    BY <2>7 DEF TakeCount
  <2>8. CASE TakeHead(w)
    BY <2>8 DEF TakeHead
  <2>9. CASE Unlock(w)
    BY <2>9 DEF Unlock
  <2>10. CASE RunTask(w)
    BY <2>10 DEF RunTask
  <2>11. CASE FreeNode(w)
    BY <2>11 DEF FreeNode
  <2> QED
    BY <1>18, <2>1, <2>2, <2>3, <2>4, <2>5, <2>6, <2>7, <2>8, <2>9, <2>10, <2>11
       DEF WorkerStep
<1>19. CASE UNCHANGED vars
  BY <1>19 DEF vars
<1> QED
  BY <1>1, <1>2, <1>3, <1>4, <1>5, <1>6, <1>7, <1>8, <1>9, <1>10,
     <1>11, <1>12, <1>13, <1>14, <1>15, <1>16, <1>17, <1>18, <1>19
     DEF Next, MainStep

LEMMA NextShutdownPhase ==
  ASSUME TypeOK, ShutdownPhase, [Next]_vars
  PROVE  ShutdownPhase'
<1> USE PoolAssumption DEF TypeOK, Workers, Tasks, NULL, Main, Nobody,
        WorkerPC, MainPC, sharedVars, mainVars, histVars, MGoto, WGoto,
        Acquire, Release, ShutdownPhase
<1>1. CASE AllocPool
  BY <1>1 DEF AllocPool
<1>2. CASE CreateThread
  BY <1>2 DEF CreateThread
<1>3. CASE PoolReady
  BY <1>3 DEF PoolReady
<1>4. CASE AllocNode
  BY <1>4 DEF AllocNode
<1>5. CASE AddLock
  BY <1>5 DEF AddLock
<1>6. CASE LinkNode
  BY <1>6 DEF LinkNode
<1>7. CASE CountNode
  BY <1>7 DEF CountNode
<1>8. CASE AddUnlock
  BY <1>8 DEF AddUnlock
<1>9. CASE AddSignal
  BY <1>9 DEF AddSignal, CondSignal, Waiters
<1>10. CASE DestroyCall
  BY <1>10 DEF DestroyCall
<1>11. CASE DestroyNull
  BY <1>11 DEF DestroyNull
<1>12. CASE SetShutdown
  BY <1>12 DEF SetShutdown
<1>13. CASE Broadcast
  BY <1>13 DEF Broadcast, CondBroadcast
<1>14. CASE Join
  BY <1>14 DEF Join
<1>15. CASE JoinedAll
  BY <1>15 DEF JoinedAll
<1>16. CASE DrainNode
  BY <1>16 DEF DrainNode
<1>17. CASE FreePool
  BY <1>17 DEF FreePool
<1>18. ASSUME NEW w \in Workers, WorkerStep(w) \/ SpuriousWakeup(w)
      PROVE  ShutdownPhase'
  <2>1. CASE Lock(w)
    BY <2>1 DEF Lock
  <2>2. CASE Test(w)
    BY <2>2 DEF Test
  <2>3. CASE Block(w)
    BY <2>3 DEF Block
  <2>4. CASE SpuriousWakeup(w)
    BY <2>4 DEF SpuriousWakeup
  <2>5. CASE Relock(w)
    BY <2>5 DEF Relock
  <2>6. CASE Exit(w)
    BY <2>6 DEF Exit
  <2>7. CASE TakeCount(w)
    BY <2>7 DEF TakeCount
  <2>8. CASE TakeHead(w)
    BY <2>8 DEF TakeHead
  <2>9. CASE Unlock(w)
    BY <2>9 DEF Unlock
  <2>10. CASE RunTask(w)
    BY <2>10 DEF RunTask
  <2>11. CASE FreeNode(w)
    BY <2>11 DEF FreeNode
  <2> QED
    BY <1>18, <2>1, <2>2, <2>3, <2>4, <2>5, <2>6, <2>7, <2>8, <2>9, <2>10, <2>11
       DEF WorkerStep
<1>19. CASE UNCHANGED vars
  BY <1>19 DEF vars
<1> QED
  BY <1>1, <1>2, <1>3, <1>4, <1>5, <1>6, <1>7, <1>8, <1>9, <1>10,
     <1>11, <1>12, <1>13, <1>14, <1>15, <1>16, <1>17, <1>18, <1>19
     DEF Next, MainStep

LEMMA NextLifecycle ==
  ASSUME TypeOK, Lifecycle, [Next]_vars
  PROVE  Lifecycle'
<1> USE PoolAssumption DEF TypeOK, Workers, Tasks, NULL, Main, Nobody,
        WorkerPC, MainPC, sharedVars, mainVars, histVars, MGoto, WGoto,
        Acquire, Release, 
        Lifecycle, Released
<1>1. CASE AllocPool
  BY <1>1 DEF AllocPool
<1>2. CASE CreateThread
  BY <1>2 DEF CreateThread
<1>3. CASE PoolReady
  BY <1>3 DEF PoolReady
<1>4. CASE AllocNode
  BY <1>4 DEF AllocNode
<1>5. CASE AddLock
  BY <1>5 DEF AddLock
<1>6. CASE LinkNode
  BY <1>6 DEF LinkNode
<1>7. CASE CountNode
  BY <1>7 DEF CountNode
<1>8. CASE AddUnlock
  BY <1>8 DEF AddUnlock
<1>9. CASE AddSignal
  BY <1>9 DEF AddSignal, CondSignal, Waiters
<1>10. CASE DestroyCall
  BY <1>10 DEF DestroyCall
<1>11. CASE DestroyNull
  BY <1>11 DEF DestroyNull
<1>12. CASE SetShutdown
  BY <1>12 DEF SetShutdown
<1>13. CASE Broadcast
  BY <1>13 DEF Broadcast, CondBroadcast
<1>14. CASE Join
  BY <1>14 DEF Join
<1>15. CASE JoinedAll
  BY <1>15 DEF JoinedAll
<1>16. CASE DrainNode
  BY <1>16 DEF DrainNode
<1>17. CASE FreePool
  BY <1>17 DEF FreePool
<1>18. ASSUME NEW w \in Workers, WorkerStep(w) \/ SpuriousWakeup(w)
      PROVE  Lifecycle'
  <2>1. CASE Lock(w)
    BY <2>1 DEF Lock
  <2>2. CASE Test(w)
    BY <2>2 DEF Test
  <2>3. CASE Block(w)
    BY <2>3 DEF Block
  <2>4. CASE SpuriousWakeup(w)
    BY <2>4 DEF SpuriousWakeup
  <2>5. CASE Relock(w)
    BY <2>5 DEF Relock
  <2>6. CASE Exit(w)
    BY <2>6 DEF Exit
  <2>7. CASE TakeCount(w)
    BY <2>7 DEF TakeCount
  <2>8. CASE TakeHead(w)
    BY <2>8 DEF TakeHead
  <2>9. CASE Unlock(w)
    BY <2>9 DEF Unlock
  <2>10. CASE RunTask(w)
    BY <2>10 DEF RunTask
  <2>11. CASE FreeNode(w)
    BY <2>11 DEF FreeNode
  <2> QED
    BY <1>18, <2>1, <2>2, <2>3, <2>4, <2>5, <2>6, <2>7, <2>8, <2>9, <2>10, <2>11
       DEF WorkerStep
<1>19. CASE UNCHANGED vars
  BY <1>19 DEF vars
<1> QED
  BY <1>1, <1>2, <1>3, <1>4, <1>5, <1>6, <1>7, <1>8, <1>9, <1>10,
     <1>11, <1>12, <1>13, <1>14, <1>15, <1>16, <1>17, <1>18, <1>19
     DEF Next, MainStep

LEMMA NextSizeMatches ==
  ASSUME TypeOK, PendingNode, LockOwner, ShutdownPhase, Lifecycle,
         SizeMatches, [Next]_vars
  PROVE  SizeMatches'
<1> USE PoolAssumption DEF TypeOK, Workers, Tasks, NULL, Main, Nobody,
        WorkerPC, MainPC, sharedVars, mainVars, histVars, MGoto, WGoto,
        Acquire, Release, 
        LockOwner, ShutdownPhase, Lifecycle, SizeMatches, InCritical, Released, PendingNode
<1>1. CASE AllocPool
  BY <1>1 DEF AllocPool
<1>2. CASE CreateThread
  BY <1>2 DEF CreateThread
<1>3. CASE PoolReady
  BY <1>3 DEF PoolReady
<1>4. CASE AllocNode
  BY <1>4 DEF AllocNode
<1>5. CASE AddLock
  BY <1>5 DEF AddLock
<1>6. CASE LinkNode
  BY <1>6 DEF LinkNode
<1>7. CASE CountNode
  BY <1>7 DEF CountNode
<1>8. CASE AddUnlock
  BY <1>8 DEF AddUnlock
<1>9. CASE AddSignal
  BY <1>9, SMTT(60) DEF AddSignal, CondSignal, Waiters
<1>10. CASE DestroyCall
  BY <1>10 DEF DestroyCall
<1>11. CASE DestroyNull
  BY <1>11 DEF DestroyNull
<1>12. CASE SetShutdown
  BY <1>12 DEF SetShutdown
<1>13. CASE Broadcast
  BY <1>13 DEF Broadcast, CondBroadcast
<1>14. CASE Join
  BY <1>14 DEF Join
<1>15. CASE JoinedAll
  BY <1>15 DEF JoinedAll
<1>16. CASE DrainNode
  BY <1>16 DEF DrainNode
<1>17. CASE FreePool
  BY <1>17 DEF FreePool
<1>18. ASSUME NEW w \in Workers, WorkerStep(w) \/ SpuriousWakeup(w)
      PROVE  SizeMatches'
  <2>1. CASE Lock(w)
    BY <2>1 DEF Lock
  <2>2. CASE Test(w)
    BY <2>2 DEF Test
  <2>3. CASE Block(w)
    BY <2>3 DEF Block
  <2>4. CASE SpuriousWakeup(w)
    BY <2>4 DEF SpuriousWakeup
  <2>5. CASE Relock(w)
    BY <2>5 DEF Relock
  <2>6. CASE Exit(w)
    BY <2>6 DEF Exit
  <2>7. CASE TakeCount(w)
    BY <2>7 DEF TakeCount
  <2>8. CASE TakeHead(w)
    BY <2>8, SMTT(60) DEF TakeHead
  <2>9. CASE Unlock(w)
    BY <2>9 DEF Unlock
  <2>10. CASE RunTask(w)
    BY <2>10 DEF RunTask
  <2>11. CASE FreeNode(w)
    BY <2>11 DEF FreeNode
  <2> QED
    BY <1>18, <2>1, <2>2, <2>3, <2>4, <2>5, <2>6, <2>7, <2>8, <2>9, <2>10, <2>11
       DEF WorkerStep
<1>19. CASE UNCHANGED vars
  BY <1>19 DEF vars
<1> QED
  BY <1>1, <1>2, <1>3, <1>4, <1>5, <1>6, <1>7, <1>8, <1>9, <1>10,
     <1>11, <1>12, <1>13, <1>14, <1>15, <1>16, <1>17, <1>18, <1>19
     DEF Next, MainStep

LEMMA NextDrowsy ==
  ASSUME TypeOK, LockOwner, ShutdownPhase, Lifecycle, SizeMatches,
         DrowsyOnlyWhenIdle, [Next]_vars
  PROVE  DrowsyOnlyWhenIdle'
<1> USE PoolAssumption DEF TypeOK, Workers, Tasks, NULL, Main, Nobody,
        WorkerPC, MainPC, sharedVars, mainVars, histVars, MGoto, WGoto,
        Acquire, Release, 
        LockOwner, ShutdownPhase, Lifecycle, SizeMatches, InCritical, Released,
        DrowsyOnlyWhenIdle
<1>1. CASE AllocPool
  BY <1>1 DEF AllocPool
<1>2. CASE CreateThread
  BY <1>2 DEF CreateThread
<1>3. CASE PoolReady
  BY <1>3 DEF PoolReady
<1>4. CASE AllocNode
  BY <1>4 DEF AllocNode
<1>5. CASE AddLock
  BY <1>5 DEF AddLock
<1>6. CASE LinkNode
  BY <1>6 DEF LinkNode
<1>7. CASE CountNode
  BY <1>7 DEF CountNode
<1>8. CASE AddUnlock
  BY <1>8 DEF AddUnlock
<1>9. CASE AddSignal
  <2>1. CASE Waiters # {}
    BY <1>9, <2>1 DEF AddSignal, CondSignal, Waiters
  <2>2. CASE Waiters = {}
    <3>1. pc' = pc /\ queue' = queue /\ shutdown' = shutdown
      BY <1>9, <2>2 DEF AddSignal, CondSignal
    <3>2. ASSUME pc[1] = "block" PROVE queue = <<>>
      BY <1>9, <3>2 DEF AddSignal
    <3>3. 1 \in Workers /\ \A w \in Workers : w \notin Waiters
      BY <2>2
    <3>4. pc[1] # "wait"
      BY <3>3 DEF Waiters
    <3> QED
      BY <3>1, <3>2, <3>3, <3>4
  <2> QED
    BY <2>1, <2>2
<1>10. CASE DestroyCall
  BY <1>10 DEF DestroyCall
<1>11. CASE DestroyNull
  BY <1>11 DEF DestroyNull
<1>12. CASE SetShutdown
  BY <1>12 DEF SetShutdown
<1>13. CASE Broadcast
  BY <1>13 DEF Broadcast, CondBroadcast
<1>14. CASE Join
  BY <1>14 DEF Join
<1>15. CASE JoinedAll
  BY <1>15 DEF JoinedAll
<1>16. CASE DrainNode
  BY <1>16 DEF DrainNode
<1>17. CASE FreePool
  BY <1>17 DEF FreePool
<1>18. ASSUME NEW w \in Workers, WorkerStep(w) \/ SpuriousWakeup(w)
      PROVE  DrowsyOnlyWhenIdle'
  <2>1. CASE Lock(w)
    BY <2>1 DEF Lock
  <2>2. CASE Test(w)
    BY <2>2 DEF Test
  <2>3. CASE Block(w)
    BY <2>3 DEF Block
  <2>4. CASE SpuriousWakeup(w)
    BY <2>4 DEF SpuriousWakeup
  <2>5. CASE Relock(w)
    BY <2>5 DEF Relock
  <2>6. CASE Exit(w)
    BY <2>6 DEF Exit
  <2>7. CASE TakeCount(w)
    BY <2>7 DEF TakeCount
  <2>8. CASE TakeHead(w)
    BY <2>8 DEF TakeHead
  <2>9. CASE Unlock(w)
    BY <2>9 DEF Unlock
  <2>10. CASE RunTask(w)
    BY <2>10 DEF RunTask
  <2>11. CASE FreeNode(w)
    BY <2>11 DEF FreeNode
  <2> QED
    BY <1>18, <2>1, <2>2, <2>3, <2>4, <2>5, <2>6, <2>7, <2>8, <2>9, <2>10, <2>11
       DEF WorkerStep
<1>19. CASE UNCHANGED vars
  BY <1>19 DEF vars
<1> QED
  BY <1>1, <1>2, <1>3, <1>4, <1>5, <1>6, <1>7, <1>8, <1>9, <1>10,
     <1>11, <1>12, <1>13, <1>14, <1>15, <1>16, <1>17, <1>18, <1>19
     DEF Next, MainStep

-----------------------------------------------------------------------------
(* The ownership of the nodes                                              *)

\* What Append does to the elements of a list.
LEMMA AppendFacts ==
  ASSUME NEW S, NEW q \in Seq(S), NEW x \in S, NEW r, r = Append(q, x)
  PROVE  /\ r \in Seq(S)
         /\ Len(r) = Len(q) + 1
         /\ \A k \in 1 .. Len(q) : r[k] = q[k]
         /\ r[Len(q) + 1] = x
         /\ \A t : (\E k \in 1 .. Len(r) : r[k] = t)
                     <=> (\E k \in 1 .. Len(q) : q[k] = t) \/ t = x
<1>1. /\ r \in Seq(S)
      /\ Len(r) = Len(q) + 1
      /\ \A k \in 1 .. Len(q) : r[k] = q[k]
      /\ r[Len(q) + 1] = x
  OBVIOUS
<1>2. Len(q) \in Nat
  OBVIOUS
<1>3. ASSUME NEW t, NEW k \in 1 .. Len(r), r[k] = t
      PROVE  (\E l \in 1 .. Len(q) : q[l] = t) \/ t = x
  BY <1>1, <1>2, <1>3
<1>4. ASSUME NEW t, NEW k \in 1 .. Len(q), q[k] = t
      PROVE  \E l \in 1 .. Len(r) : r[l] = t
  BY <1>1, <1>2, <1>4
<1>5. \E l \in 1 .. Len(r) : r[l] = x
  BY <1>1, <1>2
<1> QED
  BY <1>1, <1>3, <1>4, <1>5

\* What taking the head off the ascending list does to it: the rest lies above
\* the head that goes.
LEMMA ShrinkFacts ==
  ASSUME TypeOK, QueueAscends, queue # <<>>, queue' = Tail(queue)
  PROVE  /\ Len(queue) \in Nat \ {0} /\ 1 \in 1 .. Len(queue)
         /\ Head(queue) = queue[1] /\ queue[1] \in Tasks
         /\ \A k \in 1 .. Len(queue') :
              /\ queue[1] < queue'[k]
              /\ \E l \in 1 .. Len(queue) : queue'[k] = queue[l]
         /\ \A t : (\E k \in 1 .. Len(queue) : queue[k] = t)
                     <=> (\E k \in 1 .. Len(queue') : queue'[k] = t)
                           \/ t = queue[1]
<1>1. Tasks \in SUBSET Nat /\ queue \in Seq(Tasks)
  BY PoolAssumption DEF TypeOK, Tasks
<1>2. \A k, l \in 1 .. Len(queue) : k < l => queue[k] < queue[l]
  BY DEF QueueAscends
<1> DEFINE r == queue'
<1>r. r = Tail(queue)
  OBVIOUS
<1> HIDE DEF r
<1>3. /\ Len(queue) \in Nat \ {0}
      /\ Len(r) = Len(queue) - 1
      /\ \A k \in 1 .. Len(queue) - 1 : r[k] = queue[k + 1]
      /\ \A k \in 1 .. Len(queue) : queue[k] \in Tasks
  BY <1>1, <1>r
<1>4. r \in Seq(Tasks) /\ Head(queue) = queue[1] /\ queue[1] \in Tasks
  BY <1>1, <1>3, <1>r
<1>5. ASSUME NEW k \in 1 .. Len(r)
      PROVE  queue[1] < r[k] /\ \E l \in 1 .. Len(queue) : r[k] = queue[l]
  <2>1. k + 1 \in 1 .. Len(queue) /\ r[k] = queue[k + 1] /\ 1 < k + 1
    BY <1>3
  <2>2. 1 \in 1 .. Len(queue)
    BY <1>3
  <2> QED
    BY <1>2, <2>1, <2>2
<1>6. ASSUME NEW t, NEW k \in 1 .. Len(queue), queue[k] = t, t # queue[1]
      PROVE  \E l \in 1 .. Len(r) : r[l] = t
  <2>1. k - 1 \in 1 .. Len(r) /\ r[k - 1] = t
    BY <1>3, <1>6
  <2> QED
    BY <2>1
<1>7. 1 \in 1 .. Len(queue)
  BY <1>3
<1>8. \A t : (\E k \in 1 .. Len(queue) : queue[k] = t)
               <=> (\E k \in 1 .. Len(r) : r[k] = t) \/ t = queue[1]
  BY <1>5, <1>6, <1>7
<1> QED
  BY <1>3, <1>4, <1>5, <1>7, <1>8 DEF r

LEMMA TakeHeadFacts ==
  ASSUME TypeOK, WorkersBelow, NEW w \in Workers, TakeHead(w)
  PROVE  /\ queue # <<>> /\ queue' = Tail(queue)
         /\ worker' = [worker EXCEPT ![w] = Head(queue)]
         /\ pc' = [pc EXCEPT ![w] = "unlock"]
         /\ worker[w] = NULL
         /\ UNCHANGED <<next, mpc, live, runs>>
         /\ LastLinked' = LastLinked
BY DEF TakeHead, WGoto, WorkersBelow, HoldsNode, mainVars, histVars,
       LastLinked

LEMMA LinkNodeFacts ==
  ASSUME TypeOK, PendingNode, LinkNode
  PROVE  /\ Len(queue) \in Nat /\ Len(queue') = Len(queue) + 1
         /\ \A k \in 1 .. Len(queue) : queue'[k] = queue[k]
         /\ queue'[Len(queue) + 1] = next
         /\ \A t : (\E k \in 1 .. Len(queue') : queue'[k] = t)
                     <=> (\E k \in 1 .. Len(queue) : queue[k] = t) \/ t = next
         /\ mpc = "link" /\ mpc' = "count"
         /\ UNCHANGED <<live, worker, next>>
         /\ LastLinked = next - 1 /\ LastLinked' = next
<1>1. /\ newworker = next /\ newworker \in Tasks /\ queue \in Seq(Tasks)
      /\ queue' = Append(queue, newworker)
  BY PoolAssumption DEF TypeOK, PendingNode, LinkNode, MGoto, Tasks, NULL
<1>2. Len(queue) \in Nat
  BY <1>1
<1>3. /\ Len(queue') = Len(queue) + 1
      /\ \A k \in 1 .. Len(queue) : queue'[k] = queue[k]
      /\ queue'[Len(queue) + 1] = next
      /\ \A t : (\E k \in 1 .. Len(queue') : queue'[k] = t)
                  <=> (\E k \in 1 .. Len(queue) : queue[k] = t) \/ t = next
  BY <1>1, AppendFacts
<1>4. /\ mpc = "link" /\ mpc' = "count"
      /\ UNCHANGED <<live, worker, next>>
  BY DEF LinkNode, MGoto, histVars
<1>5. LastLinked = next - 1 /\ LastLinked' = next
  BY <1>4 DEF LastLinked
<1> QED
  BY <1>2, <1>3, <1>4, <1>5

LEMMA LinkNodeAscends ==
  ASSUME TypeOK, PendingNode, QueueAscends, LinkNode
  PROVE  QueueAscends'
<1>1. \A k \in 1 .. Len(queue) : queue[k] \in Int /\ queue[k] <= next - 1
  BY LinkNodeFacts, PoolAssumption, SMTT(60) DEF QueueAscends, TypeOK, Tasks
<1>2. next \in Int
  BY DEF TypeOK
<1>3. ASSUME NEW k \in 1 .. Len(queue'), NEW l \in 1 .. Len(queue'), k < l
      PROVE  queue'[k] < queue'[l]
  <2>1. k \in 1 .. Len(queue) /\ queue'[k] = queue[k]
    BY <1>3, LinkNodeFacts
  <2>2. CASE l \in 1 .. Len(queue)
    BY <2>1, <2>2, <1>3, LinkNodeFacts DEF QueueAscends
  <2>3. CASE l = Len(queue) + 1
    BY <2>1, <2>3, <1>1, <1>2, LinkNodeFacts
  <2> QED
    BY <2>2, <2>3, LinkNodeFacts
<1>4. ASSUME NEW k \in 1 .. Len(queue') PROVE queue'[k] <= LastLinked'
  <2>1. CASE k \in 1 .. Len(queue)
    BY <2>1, <1>1, <1>2, LinkNodeFacts
  <2>2. CASE k = Len(queue) + 1
    BY <2>2, <1>2, LinkNodeFacts
  <2> QED
    BY <2>1, <2>2, LinkNodeFacts
<1> QED
  BY <1>3, <1>4 DEF QueueAscends

LEMMA LinkNodeBelow ==
  ASSUME TypeOK, PendingNode, QueueAscends, WorkersBelow, RunsBelow, LinkNode
  PROVE  WorkersBelow' /\ RunsBelow'
<1>1. /\ \A k \in 1 .. Len(queue') :
           \/ k \in 1 .. Len(queue) /\ queue'[k] = queue[k]
           \/ queue'[k] = next
      /\ LastLinked = next - 1 /\ LastLinked' = next /\ next \in Int
      /\ UNCHANGED <<worker, pc, runs>>
  <2>1. UNCHANGED <<worker, pc, runs>> /\ next \in Int
    BY DEF LinkNode, histVars, TypeOK
  <2> QED
    BY <2>1, LinkNodeFacts
<1>2. WorkersBelow'
  <2>1. \A w \in Workers : worker[w] \in Int
    BY PoolAssumption DEF TypeOK, Tasks, NULL
  <2> QED
    BY <1>1, <2>1 DEF WorkersBelow
<1>3. RunsBelow'
  <2>1. Tasks \subseteq Int
    BY PoolAssumption DEF Tasks
  <2>2. ASSUME NEW t \in Tasks, runs'[t] = 1
        PROVE  /\ t <= LastLinked'
               /\ \A k \in 1 .. Len(queue') : t < queue'[k]
    <3>1. /\ runs[t] = 1 /\ t <= next - 1
          /\ \A k \in 1 .. Len(queue) : t < queue[k]
      BY <1>1, <2>2 DEF RunsBelow
    <3> QED
      BY <1>1, <2>1, <3>1
  <2>3. /\ \A t \in Tasks : runs'[t] <= 1
        /\ \A w \in Workers :
             pc'[w] \in {"unlock", "run"} => runs'[worker'[w]] = 0
    BY <1>1 DEF RunsBelow
  <2> QED
    BY <2>2, <2>3 DEF RunsBelow
<1> QED
  BY <1>2, <1>3

LEMMA LinkNodeLive ==
  ASSUME TypeOK, PendingNode, LiveNodes, LinkNode
  PROVE  LiveNodes'
BY LinkNodeFacts DEF LiveNodes

LEMMA TakeHeadBelow ==
  ASSUME TypeOK, QueueAscends, WorkersBelow, NEW w \in Workers, TakeHead(w)
  PROVE  WorkersBelow'
<1>1. /\ worker' = [worker EXCEPT ![w] = queue[1]]
      /\ pc' = [pc EXCEPT ![w] = "unlock"]
      /\ LastLinked' = LastLinked
      /\ queue[1] \in Tasks /\ queue[1] # NULL
      /\ queue[1] <= LastLinked
      /\ \A v \in Workers : worker[v] < queue[1]
      /\ \A k \in 1 .. Len(queue') : queue[1] < queue'[k]
      /\ \A v \in Workers, k \in 1 .. Len(queue') : worker[v] < queue'[k]
  <2>1. 1 \in 1 .. Len(queue) /\ queue[1] \in Tasks /\ queue[1] # NULL
    BY TakeHeadFacts, ShrinkFacts, PoolAssumption DEF Tasks, NULL
  <2>2. /\ queue[1] <= LastLinked
        /\ \A v \in Workers : worker[v] < queue[1]
    BY <2>1 DEF QueueAscends, WorkersBelow
  <2>3. /\ worker' = [worker EXCEPT ![w] = queue[1]]
        /\ pc' = [pc EXCEPT ![w] = "unlock"]
        /\ LastLinked' = LastLinked
    BY TakeHeadFacts, ShrinkFacts
  <2>4. \A k \in 1 .. Len(queue') :
          queue[1] < queue'[k] /\ \E l \in 1 .. Len(queue) : queue'[k] = queue[l]
    BY TakeHeadFacts, ShrinkFacts
  <2>5. \A v \in Workers, k \in 1 .. Len(queue') : worker[v] < queue'[k]
    BY <2>4, Zenon DEF WorkersBelow
  <2> QED
    BY <2>1, <2>2, <2>3, <2>4, <2>5
<1>2. /\ worker \in [Workers -> Tasks \cup {NULL}]
      /\ pc \in [Workers -> WorkerPC]
  BY DEF TypeOK
<1>3. \A v \in Workers : worker[v] \in Int
  BY <1>2, PoolAssumption DEF Tasks, NULL
<1>4. ASSUME NEW v \in Workers
      PROVE  /\ pc'[v] \in HoldsNode <=> worker'[v] # NULL
             /\ worker'[v] <= LastLinked'
             /\ \A k \in 1 .. Len(queue') : worker'[v] < queue'[k]
             /\ \A u \in Workers :
                  u # v /\ worker'[v] # NULL => worker'[u] # worker'[v]
  <2>1. CASE v = w
    <3>1. worker'[v] = queue[1] /\ pc'[v] = "unlock"
      BY <1>1, <1>2, <2>1
    <3>2. ASSUME NEW u \in Workers, u # v PROVE worker'[u] # queue[1]
      BY <1>1, <1>2, <1>3, <2>1, <3>2, PoolAssumption DEF Tasks
    <3> QED
      BY <1>1, <3>1, <3>2 DEF HoldsNode
  <2>2. CASE v # w
    <3>1. worker'[v] = worker[v] /\ pc'[v] = pc[v]
      BY <1>1, <1>2, <2>2
    <3>2. ASSUME NEW u \in Workers, u # v, worker[v] # NULL
          PROVE  worker'[u] # worker[v]
      BY <1>1, <1>2, <1>3, <3>2, PoolAssumption DEF Tasks, WorkersBelow
    <3> QED
      BY <1>1, <3>1, <3>2 DEF WorkersBelow
  <2> QED
    BY <2>1, <2>2
<1> QED
  BY <1>4 DEF WorkersBelow

LEMMA TakeHeadRuns ==
  ASSUME TypeOK, QueueAscends, WorkersBelow, RunsBelow, NEW w \in Workers,
         TakeHead(w)
  PROVE  RunsBelow'
<1>1. /\ worker' = [worker EXCEPT ![w] = queue[1]]
      /\ pc' = [pc EXCEPT ![w] = "unlock"]
      /\ LastLinked' = LastLinked /\ runs' = runs
      /\ 1 \in 1 .. Len(queue) /\ queue[1] \in Tasks
      /\ \A k \in 1 .. Len(queue') :
           \E l \in 1 .. Len(queue) : queue'[k] = queue[l]
  BY TakeHeadFacts, ShrinkFacts
<1>2. runs[queue[1]] = 0
  <2>1. runs[queue[1]] \in Nat /\ runs[queue[1]] <= 1 /\ queue[1] \in Int
    BY <1>1, PoolAssumption DEF TypeOK, RunsBelow, Tasks
  <2>2. runs[queue[1]] # 1
    BY <1>1, <2>1 DEF RunsBelow
  <2> QED
    BY <2>1, <2>2
<1>3. \A t \in Tasks, k \in 1 .. Len(queue') : runs[t] = 1 => t < queue'[k]
  BY <1>1, Zenon DEF RunsBelow
<1>4. ASSUME NEW v \in Workers, pc'[v] \in {"unlock", "run"}
      PROVE  runs'[worker'[v]] = 0
  <2>1. CASE v = w
    BY <1>1, <1>2, <2>1 DEF TypeOK
  <2>2. CASE v # w
    BY <1>1, <1>4, <2>2 DEF TypeOK, RunsBelow
  <2> QED
    BY <2>1, <2>2
<1> QED
  BY <1>1, <1>3, <1>4 DEF RunsBelow

LEMMA TakeHeadLive ==
  ASSUME TypeOK, QueueAscends, WorkersBelow, LiveNodes, NEW w \in Workers,
         TakeHead(w)
  PROVE  LiveNodes'
<1>1. /\ worker' = [worker EXCEPT ![w] = queue[1]] /\ worker[w] = NULL
      /\ UNCHANGED <<live, next, mpc>>
      /\ \A t : (\E k \in 1 .. Len(queue) : queue[k] = t)
                  <=> (\E k \in 1 .. Len(queue') : queue'[k] = t)
                        \/ t = queue[1]
  BY TakeHeadFacts, ShrinkFacts
<1>2. \A t \in Tasks : (\E v \in Workers : worker'[v] = t)
                         <=> (\E v \in Workers : worker[v] = t) \/ t = queue[1]
  BY <1>1, PoolAssumption DEF TypeOK, Tasks, NULL
<1> QED
  BY <1>1, <1>2, Zenon DEF LiveNodes

LEMMA DrainNodeLive ==
  ASSUME TypeOK, QueueAscends, WorkersBelow, LiveNodes, DrainNode
  PROVE  LiveNodes'
<1>1. queue # <<>> /\ queue' = Tail(queue)
  BY DEF DrainNode
<1>2. /\ live' = live \ {queue[1]}
      /\ mpc = "drain" /\ UNCHANGED <<worker, next, mpc>>
  BY <1>1, ShrinkFacts DEF DrainNode, mainVars
<1>3. \A t \in Tasks : (\E k \in 1 .. Len(queue') : queue'[k] = t)
                         <=> (\E k \in 1 .. Len(queue) : queue[k] = t)
                               /\ t # queue[1]
  <2>1. \A k \in 1 .. Len(queue') : queue'[k] # queue[1]
    <3>1. SUFFICES ASSUME NEW k \in 1 .. Len(queue') PROVE queue'[k] # queue[1]
      OBVIOUS
    <3>2. queue[1] < queue'[k] /\ queue[1] \in Int
      BY <1>1, ShrinkFacts, PoolAssumption DEF Tasks
    <3> QED
      BY <3>2
  <2> QED
    BY <1>1, <2>1, ShrinkFacts
<1>4. \A v \in Workers : worker[v] # queue[1]
  <2>1. 1 \in 1 .. Len(queue) /\ queue[1] \in Int
    BY <1>1, ShrinkFacts, PoolAssumption DEF Tasks
  <2> QED
    BY <2>1 DEF WorkersBelow
<1> QED
  BY <1>2, <1>3, <1>4 DEF LiveNodes

LEMMA NextQueueAscends ==
  ASSUME TypeOK, PendingNode, QueueAscends, [Next]_vars
  PROVE  QueueAscends'
<1> USE PoolAssumption DEF TypeOK, Workers, Tasks, NULL, Main, Nobody,
        WorkerPC, MainPC, sharedVars, mainVars, histVars, MGoto, WGoto,
        Acquire, Release, HoldsNode, LastLinked, PendingNode,
        QueueAscends
<1>1. CASE AllocPool
  BY <1>1 DEF AllocPool
<1>2. CASE CreateThread
  BY <1>2 DEF CreateThread
<1>3. CASE PoolReady
  BY <1>3 DEF PoolReady
<1>4. CASE AllocNode
  BY <1>4 DEF AllocNode
<1>5. CASE AddLock
  BY <1>5 DEF AddLock
<1>6. CASE LinkNode
  BY <1>6, LinkNodeAscends
<1>7. CASE CountNode
  BY <1>7 DEF CountNode
<1>8. CASE AddUnlock
  BY <1>8 DEF AddUnlock
<1>9. CASE AddSignal
  BY <1>9 DEF AddSignal, CondSignal, Waiters
<1>10. CASE DestroyCall
  BY <1>10 DEF DestroyCall
<1>11. CASE DestroyNull
  BY <1>11 DEF DestroyNull
<1>12. CASE SetShutdown
  BY <1>12 DEF SetShutdown
<1>13. CASE Broadcast
  BY <1>13 DEF Broadcast, CondBroadcast
<1>14. CASE Join
  BY <1>14 DEF Join
<1>15. CASE JoinedAll
  BY <1>15 DEF JoinedAll
<1>16. CASE DrainNode
  BY <1>16, SMTT(60) DEF DrainNode
<1>17. CASE FreePool
  BY <1>17 DEF FreePool
<1>18. ASSUME NEW w \in Workers, WorkerStep(w) \/ SpuriousWakeup(w)
      PROVE  QueueAscends'
  <2>1. CASE Lock(w)
    BY <2>1 DEF Lock
  <2>2. CASE Test(w)
    BY <2>2 DEF Test
  <2>3. CASE Block(w)
    BY <2>3 DEF Block
  <2>4. CASE SpuriousWakeup(w)
    BY <2>4 DEF SpuriousWakeup
  <2>5. CASE Relock(w)
    BY <2>5 DEF Relock
  <2>6. CASE Exit(w)
    BY <2>6 DEF Exit
  <2>7. CASE TakeCount(w)
    BY <2>7 DEF TakeCount
  <2>8. CASE TakeHead(w)
    BY <2>8, SMTT(60) DEF TakeHead
  <2>9. CASE Unlock(w)
    BY <2>9 DEF Unlock
  <2>10. CASE RunTask(w)
    BY <2>10 DEF RunTask
  <2>11. CASE FreeNode(w)
    BY <2>11 DEF FreeNode
  <2> QED
    BY <1>18, <2>1, <2>2, <2>3, <2>4, <2>5, <2>6, <2>7, <2>8, <2>9, <2>10, <2>11
       DEF WorkerStep
<1>19. CASE UNCHANGED vars
  BY <1>19 DEF vars
<1> QED
  BY <1>1, <1>2, <1>3, <1>4, <1>5, <1>6, <1>7, <1>8, <1>9, <1>10,
     <1>11, <1>12, <1>13, <1>14, <1>15, <1>16, <1>17, <1>18, <1>19
     DEF Next, MainStep

LEMMA NextWorkersBelow ==
  ASSUME TypeOK, PendingNode, Lifecycle, QueueAscends, WorkersBelow,
         RunsBelow, [Next]_vars
  PROVE  WorkersBelow'
<1> USE PoolAssumption DEF TypeOK, Workers, Tasks, NULL, Main, Nobody,
        WorkerPC, MainPC, sharedVars, mainVars, histVars, MGoto, WGoto,
        Acquire, Release, HoldsNode, LastLinked, PendingNode,
        QueueAscends, WorkersBelow, Lifecycle, Released
<1>1. CASE AllocPool
  BY <1>1 DEF AllocPool
<1>2. CASE CreateThread
  BY <1>2 DEF CreateThread
<1>3. CASE PoolReady
  BY <1>3 DEF PoolReady
<1>4. CASE AllocNode
  BY <1>4 DEF AllocNode
<1>5. CASE AddLock
  BY <1>5 DEF AddLock
<1>6. CASE LinkNode
  BY <1>6, LinkNodeBelow
<1>7. CASE CountNode
  BY <1>7 DEF CountNode
<1>8. CASE AddUnlock
  BY <1>8 DEF AddUnlock
<1>9. CASE AddSignal
  BY <1>9 DEF AddSignal, CondSignal, Waiters
<1>10. CASE DestroyCall
  BY <1>10 DEF DestroyCall
<1>11. CASE DestroyNull
  BY <1>11 DEF DestroyNull
<1>12. CASE SetShutdown
  BY <1>12 DEF SetShutdown
<1>13. CASE Broadcast
  BY <1>13 DEF Broadcast, CondBroadcast
<1>14. CASE Join
  BY <1>14 DEF Join
<1>15. CASE JoinedAll
  BY <1>15 DEF JoinedAll
<1>16. CASE DrainNode
  BY <1>16 DEF DrainNode
<1>17. CASE FreePool
  BY <1>17 DEF FreePool
<1>18. ASSUME NEW w \in Workers, WorkerStep(w) \/ SpuriousWakeup(w)
      PROVE  WorkersBelow'
  <2>1. CASE Lock(w)
    BY <2>1 DEF Lock
  <2>2. CASE Test(w)
    BY <2>2 DEF Test
  <2>3. CASE Block(w)
    BY <2>3 DEF Block
  <2>4. CASE SpuriousWakeup(w)
    BY <2>4 DEF SpuriousWakeup
  <2>5. CASE Relock(w)
    BY <2>5 DEF Relock
  <2>6. CASE Exit(w)
    BY <2>6 DEF Exit
  <2>7. CASE TakeCount(w)
    BY <2>7 DEF TakeCount
  <2>8. CASE TakeHead(w)
    BY <2>8, TakeHeadBelow
  <2>9. CASE Unlock(w)
    BY <2>9 DEF Unlock
  <2>10. CASE RunTask(w)
    BY <2>10 DEF RunTask
  <2>11. CASE FreeNode(w)
    <3>1. /\ worker' = [worker EXCEPT ![w] = NULL]
          /\ pc' = [pc EXCEPT ![w] = "lock"]
          /\ queue' = queue /\ LastLinked' = LastLinked
      BY <2>11 DEF FreeNode
    <3>2. LastLinked >= 0 /\ \A k \in 1 .. Len(queue) : queue[k] > 0
      BY SMTT(60)
    <3> QED
      BY <3>1, <3>2
  <2> QED
    BY <1>18, <2>1, <2>2, <2>3, <2>4, <2>5, <2>6, <2>7, <2>8, <2>9, <2>10, <2>11
       DEF WorkerStep
<1>19. CASE UNCHANGED vars
  BY <1>19 DEF vars
<1> QED
  BY <1>1, <1>2, <1>3, <1>4, <1>5, <1>6, <1>7, <1>8, <1>9, <1>10,
     <1>11, <1>12, <1>13, <1>14, <1>15, <1>16, <1>17, <1>18, <1>19
     DEF Next, MainStep

LEMMA NextRunsBelow ==
  ASSUME TypeOK, PendingNode, QueueAscends, WorkersBelow, RunsBelow,
         [Next]_vars
  PROVE  RunsBelow'
<1> USE PoolAssumption DEF TypeOK, Workers, Tasks, NULL, Main, Nobody,
        WorkerPC, MainPC, sharedVars, mainVars, histVars, MGoto, WGoto,
        Acquire, Release, HoldsNode, LastLinked, PendingNode,
        QueueAscends, WorkersBelow, RunsBelow
<1>1. CASE AllocPool
  BY <1>1 DEF AllocPool
<1>2. CASE CreateThread
  BY <1>2 DEF CreateThread
<1>3. CASE PoolReady
  BY <1>3 DEF PoolReady
<1>4. CASE AllocNode
  BY <1>4 DEF AllocNode
<1>5. CASE AddLock
  BY <1>5 DEF AddLock
<1>6. CASE LinkNode
  BY <1>6, LinkNodeBelow
<1>7. CASE CountNode
  BY <1>7 DEF CountNode
<1>8. CASE AddUnlock
  BY <1>8 DEF AddUnlock
<1>9. CASE AddSignal
  BY <1>9 DEF AddSignal, CondSignal, Waiters
<1>10. CASE DestroyCall
  BY <1>10 DEF DestroyCall
<1>11. CASE DestroyNull
  BY <1>11 DEF DestroyNull
<1>12. CASE SetShutdown
  BY <1>12 DEF SetShutdown
<1>13. CASE Broadcast
  BY <1>13 DEF Broadcast, CondBroadcast
<1>14. CASE Join
  BY <1>14 DEF Join
<1>15. CASE JoinedAll
  BY <1>15 DEF JoinedAll
<1>16. CASE DrainNode
  BY <1>16 DEF DrainNode
<1>17. CASE FreePool
  BY <1>17 DEF FreePool
<1>18. ASSUME NEW w \in Workers, WorkerStep(w) \/ SpuriousWakeup(w)
      PROVE  RunsBelow'
  <2>1. CASE Lock(w)
    BY <2>1 DEF Lock
  <2>2. CASE Test(w)
    BY <2>2 DEF Test
  <2>3. CASE Block(w)
    BY <2>3 DEF Block
  <2>4. CASE SpuriousWakeup(w)
    BY <2>4 DEF SpuriousWakeup
  <2>5. CASE Relock(w)
    BY <2>5 DEF Relock
  <2>6. CASE Exit(w)
    BY <2>6 DEF Exit
  <2>7. CASE TakeCount(w)
    BY <2>7 DEF TakeCount
  <2>8. CASE TakeHead(w)
    BY <2>8, TakeHeadRuns
  <2>9. CASE Unlock(w)
    BY <2>9 DEF Unlock
  <2>10. CASE RunTask(w)
    <3>1. worker[w] \in Tasks /\ runs[worker[w]] = 0
      BY <2>10 DEF RunTask
    <3>2. /\ runs' = [runs EXCEPT ![worker[w]] = 1]
          /\ pc' = [pc EXCEPT ![w] = "running"]
          /\ UNCHANGED <<queue, worker, next, mpc>>
      BY <2>10, <3>1 DEF RunTask
    <3>3. \A v \in Workers : pc'[v] \in {"unlock", "run"} =>
            /\ pc[v] \in {"unlock", "run"}
            /\ worker[v] # worker[w]
      BY <3>1, <3>2
    <3>4. \A v \in Workers : pc'[v] \in {"unlock", "run"} =>
            runs'[worker'[v]] = 0
      BY <3>1, <3>2, <3>3
    <3>5. \A t \in Tasks : runs'[t] = 1 => runs[t] = 1 \/ t = worker[w]
      BY <3>1, <3>2
    <3>6. \A t \in Tasks : runs'[t] <= 1
      BY <3>1, <3>2
    <3> QED
      BY <3>1, <3>2, <3>4, <3>5, <3>6
  <2>11. CASE FreeNode(w)
    BY <2>11 DEF FreeNode
  <2> QED
    BY <1>18, <2>1, <2>2, <2>3, <2>4, <2>5, <2>6, <2>7, <2>8, <2>9, <2>10, <2>11
       DEF WorkerStep
<1>19. CASE UNCHANGED vars
  BY <1>19 DEF vars
<1> QED
  BY <1>1, <1>2, <1>3, <1>4, <1>5, <1>6, <1>7, <1>8, <1>9, <1>10,
     <1>11, <1>12, <1>13, <1>14, <1>15, <1>16, <1>17, <1>18, <1>19
     DEF Next, MainStep

LEMMA NextLiveNodes ==
  ASSUME TypeOK, PendingNode, QueueAscends, WorkersBelow, LiveNodes,
         [Next]_vars
  PROVE  LiveNodes'
<1> USE PoolAssumption DEF TypeOK, Workers, Tasks, NULL, Main, Nobody,
        WorkerPC, MainPC, sharedVars, mainVars, histVars, MGoto, WGoto,
        Acquire, Release, HoldsNode, LastLinked, PendingNode,
        QueueAscends, WorkersBelow, LiveNodes
<1>1. CASE AllocPool
  BY <1>1 DEF AllocPool
<1>2. CASE CreateThread
  BY <1>2 DEF CreateThread
<1>3. CASE PoolReady
  BY <1>3 DEF PoolReady
<1>4. CASE AllocNode
  BY <1>4 DEF AllocNode
<1>5. CASE AddLock
  BY <1>5 DEF AddLock
<1>6. CASE LinkNode
  BY <1>6, LinkNodeLive
<1>7. CASE CountNode
  BY <1>7 DEF CountNode
<1>8. CASE AddUnlock
  BY <1>8 DEF AddUnlock
<1>9. CASE AddSignal
  BY <1>9 DEF AddSignal, CondSignal, Waiters
<1>10. CASE DestroyCall
  BY <1>10 DEF DestroyCall
<1>11. CASE DestroyNull
  BY <1>11 DEF DestroyNull
<1>12. CASE SetShutdown
  BY <1>12 DEF SetShutdown
<1>13. CASE Broadcast
  BY <1>13 DEF Broadcast, CondBroadcast
<1>14. CASE Join
  BY <1>14 DEF Join
<1>15. CASE JoinedAll
  BY <1>15 DEF JoinedAll
<1>16. CASE DrainNode
  BY <1>16, DrainNodeLive
<1>17. CASE FreePool
  BY <1>17 DEF FreePool
<1>18. ASSUME NEW w \in Workers, WorkerStep(w) \/ SpuriousWakeup(w)
      PROVE  LiveNodes'
  <2>1. CASE Lock(w)
    BY <2>1 DEF Lock
  <2>2. CASE Test(w)
    BY <2>2 DEF Test
  <2>3. CASE Block(w)
    BY <2>3 DEF Block
  <2>4. CASE SpuriousWakeup(w)
    BY <2>4 DEF SpuriousWakeup
  <2>5. CASE Relock(w)
    BY <2>5 DEF Relock
  <2>6. CASE Exit(w)
    BY <2>6 DEF Exit
  <2>7. CASE TakeCount(w)
    BY <2>7 DEF TakeCount
  <2>8. CASE TakeHead(w)
    BY <2>8, TakeHeadLive
  <2>9. CASE Unlock(w)
    BY <2>9 DEF Unlock
  <2>10. CASE RunTask(w)
    BY <2>10 DEF RunTask
  <2>11. CASE FreeNode(w)
    <3>1. /\ worker' = [worker EXCEPT ![w] = NULL]
          /\ live' = live \ {worker[w]}
          /\ UNCHANGED <<queue, next, mpc>>
      BY <2>11 DEF FreeNode
    <3>2. worker[w] # NULL /\ pc[w] = "running"
      BY <2>11 DEF FreeNode
    <3>3. \A t \in Tasks : (\E v \in Workers : worker'[v] = t)
                             <=> (\E v \in Workers : worker[v] = t)
                                   /\ t # worker[w]
      BY <3>1, <3>2
    <3>4. /\ \A k \in 1 .. Len(queue) : queue[k] # worker[w]
          /\ mpc \in {"add_lock", "link"} => worker[w] # next
      BY <3>2, SMTT(60)
    <3> QED
      BY <3>1, <3>3, <3>4
  <2> QED
    BY <1>18, <2>1, <2>2, <2>3, <2>4, <2>5, <2>6, <2>7, <2>8, <2>9, <2>10, <2>11
       DEF WorkerStep
<1>19. CASE UNCHANGED vars
  BY <1>19 DEF vars
<1> QED
  BY <1>1, <1>2, <1>3, <1>4, <1>5, <1>6, <1>7, <1>8, <1>9, <1>10,
     <1>11, <1>12, <1>13, <1>14, <1>15, <1>16, <1>17, <1>18, <1>19
     DEF Next, MainStep

-----------------------------------------------------------------------------
(* The theorems                                                            *)

LEMMA NextDrained ==
  ASSUME Drained, QueueAscends, [Next]_vars
  PROVE  Drained'
<1> USE DEF Drained, MGoto, sharedVars, mainVars, histVars
<1>1. CASE MainStep
  BY <1>1 DEF MainStep, AllocPool, CreateThread, PoolReady, AllocNode, AddLock,
     LinkNode, CountNode, AddUnlock, AddSignal, DestroyCall, DestroyNull,
     SetShutdown, Broadcast, Join, JoinedAll, DrainNode, FreePool
<1>2. ASSUME NEW w \in Workers, WorkerStep(w) \/ SpuriousWakeup(w)
      PROVE  Drained'
  BY <1>2 DEF WorkerStep, Lock, Test, Block, SpuriousWakeup, Relock, Exit,
     TakeCount, TakeHead, Unlock, RunTask, FreeNode
<1>3. CASE UNCHANGED vars
  BY <1>3 DEF vars
<1> QED
  BY <1>1, <1>2, <1>3 DEF Next

\* IInv is an invariant of the pool: types, ownership of queue_lock, the life of
\* the threads, the agreement of cur_queue_size with the list, and no lost
\* wakeup in pool_add_worker.
THEOREM Synchronisation == Spec => []IInv
<1>1. Init => IInv
  BY InitIInv
<1>2. IInv /\ [Next]_vars => IInv'
  <2> SUFFICES ASSUME IInv, [Next]_vars PROVE IInv'
    OBVIOUS
  <2>1. TypeOK' /\ PendingNode' /\ LockOwner'
    BY NextTypeOK, NextPendingNode, NextLockOwner DEF IInv
  <2>2. ShutdownPhase' /\ Lifecycle'
    BY NextShutdownPhase, NextLifecycle DEF IInv
  <2>3. SizeMatches' /\ DrowsyOnlyWhenIdle'
    BY NextSizeMatches, NextDrowsy DEF IInv
  <2> QED
    BY <2>1, <2>2, <2>3 DEF IInv
<1> QED
  BY <1>1, <1>2, PTL DEF Spec

\* Every variable keeps its type, for any number of threads and tasks.
THEOREM TypeCorrect == Spec => []TypeOK
<1>1. IInv => TypeOK
  BY DEF IInv
<1> QED
  BY <1>1, Synchronisation, PTL

\* Line 176 never reads through a null queue_head.
THEOREM HeadAlwaysExists == Spec => []HeadExists
<1>1. IInv => HeadExists
  <2> SUFFICES ASSUME IInv, NEW w \in Workers, pc[w] = "take"
               PROVE  queue # <<>>
    BY DEF HeadExists
  <2>1. ~Released
    BY DEF IInv, Lifecycle
  <2>2. cur_queue_size \in Int /\ Len(queue) = cur_queue_size + 1
          /\ cur_queue_size >= 0
    BY <2>1 DEF IInv, SizeMatches, TypeOK
  <2> QED
    BY <2>2
<1> QED
  BY <1>1, Synchronisation, PTL

\* pool_destroy releases the pool only after every thread has exited.
THEOREM PoolReleasedLast == Spec => []PoolOutlivesWorkers
<1>1. IInv => PoolOutlivesWorkers
  BY DEF IInv, Lifecycle, Released, PoolOutlivesWorkers
<1> QED
  BY <1>1, Synchronisation, PTL

\* pool_add_worker loses no wakeup: while a task waits, and its signal has been
\* sent, some worker is awake.
THEOREM NoLostWakeup == Spec => []AsleepOnlyWhenIdle
<1>1. IInv => AsleepOnlyWhenIdle
  BY DEF IInv, DrowsyOnlyWhenIdle, AsleepOnlyWhenIdle
<1> QED
  BY <1>1, Synchronisation, PTL

LEMMA InitNodeInv == Init => NodeInv
<1> SUFFICES ASSUME Init PROVE NodeInv
  OBVIOUS
<1>1. Len(queue) = 0 /\ Drained
  BY DEF Init, Drained
<1> QED
  BY <1>1, PoolAssumption DEF Init, NodeInv, QueueAscends, WorkersBelow,
     RunsBelow, LiveNodes, LastLinked, HoldsNode, Tasks, NULL

\* NodeInv is an invariant: the list ascends, lies above every task taken from
\* it, and accounts with the workers for every allocated node.
THEOREM NodeOwnership == Spec => []NodeInv
<1>1. Init => NodeInv
  BY InitNodeInv
<1>2. IInv /\ NodeInv /\ [Next]_vars => NodeInv'
  <2> SUFFICES ASSUME IInv, NodeInv, [Next]_vars PROVE NodeInv'
    OBVIOUS
  <2>1. QueueAscends' /\ WorkersBelow'
    BY NextQueueAscends, NextWorkersBelow DEF IInv, NodeInv
  <2>2. RunsBelow' /\ LiveNodes' /\ Drained'
    BY NextRunsBelow, NextLiveNodes, NextDrained DEF IInv, NodeInv
  <2> QED
    BY <2>1, <2>2 DEF NodeInv
<1> QED
  BY <1>1, <1>2, Synchronisation, PTL DEF Spec

\* No task is executed twice, and none before it is taken off the list.
THEOREM TasksRunAtMostOnce == Spec => []AtMostOnce
<1>1. IInv /\ NodeInv => AtMostOnce
  <2> SUFFICES ASSUME IInv, NodeInv, NEW t \in Tasks
               PROVE  runs[t] <= 1 /\ (t \in QueueSet => runs[t] = 0)
    BY DEF AtMostOnce
  <2>1. runs[t] \in Nat /\ runs[t] <= 1 /\ t \in Int
    BY PoolAssumption DEF IInv, TypeOK, NodeInv, RunsBelow, Tasks
  <2>2. t \in QueueSet => runs[t] # 1
    BY <2>1 DEF NodeInv, RunsBelow, QueueSet
  <2> QED
    BY <2>1, <2>2
<1> QED
  BY <1>1, Synchronisation, NodeOwnership, PTL

\* A node is reachable by one thread only, and allocated while it is.
THEOREM NodesHaveOneOwner == Spec => []NodesOwnedOnce
<1>1. IInv /\ NodeInv => NodesOwnedOnce
  <2> SUFFICES ASSUME IInv, NodeInv PROVE NodesOwnedOnce
    OBVIOUS
  <2>1. \A k \in 1 .. Len(queue) : queue[k] \in Tasks
    BY DEF IInv, TypeOK
  <2>2. QueueSet \subseteq live
    BY <2>1 DEF QueueSet, NodeInv, LiveNodes
  <2>3. \A w \in Workers : worker[w] # NULL =>
          worker[w] \in Tasks /\ worker[w] \in Int /\ worker[w] \in live
    BY PoolAssumption DEF IInv, TypeOK, NodeInv, LiveNodes, Tasks
  <2>4. \A w \in Workers : worker[w] # NULL => worker[w] \notin QueueSet
    BY <2>3 DEF QueueSet, NodeInv, WorkersBelow
  <2>5. \A v, w \in Workers :
          worker[v] = worker[w] /\ worker[v] # NULL => v = w
    BY DEF NodeInv, WorkersBelow
  <2> QED
    BY <2>2, <2>3, <2>4, <2>5 DEF NodesOwnedOnce
<1> QED
  BY <1>1, Synchronisation, NodeOwnership, PTL

\* When pool_destroy has returned, every node has been freed.
THEOREM DestroyLeaksNothing == Spec => []NothingLeaked
<1>1. IInv /\ NodeInv => NothingLeaked
  <2> SUFFICES ASSUME IInv, NodeInv, mpc \in {"done", "fault"}
               PROVE  live = {} /\ queue = <<>>
    BY DEF NothingLeaked
  <2>1. queue = <<>> /\ Len(queue) = 0
    BY DEF NodeInv, Drained
  <2>2. \A w \in Workers : worker[w] = NULL
    BY DEF IInv, Lifecycle, Released, NodeInv, WorkersBelow, HoldsNode
  <2>3. live \subseteq Tasks /\ NULL \notin Tasks
    BY PoolAssumption DEF IInv, TypeOK, Tasks, NULL
  <2> QED
    BY <2>1, <2>2, <2>3 DEF NodeInv, LiveNodes
<1> QED
  BY <1>1, Synchronisation, NodeOwnership, PTL

\* The pool is first in, first out.
THEOREM QueueIsFifo == Spec => []FirstInFirstOut
<1>1. IInv /\ NodeInv => FirstInFirstOut
  <2> SUFFICES ASSUME IInv, NodeInv, NEW t \in Tasks, NEW u \in Tasks,
                      u < t, u \in QueueSet
               PROVE  runs[t] = 0 /\ \A w \in Workers : worker[w] # t
    BY DEF FirstInFirstOut
  <2>1. PICK k \in 1 .. Len(queue) : queue[k] = u
    BY DEF QueueSet
  <2>2. t \in Int /\ u \in Int /\ runs[t] \in Nat
    BY PoolAssumption DEF IInv, TypeOK, Tasks
  <2>3. runs[t] <= 1 /\ runs[t] # 1
    BY <2>1, <2>2 DEF NodeInv, RunsBelow
  <2>4. \A w \in Workers : worker[w] # t
    BY <2>1, <2>2 DEF NodeInv, WorkersBelow
  <2> QED
    BY <2>2, <2>3, <2>4
<1> QED
  BY <1>1, Synchronisation, NodeOwnership, PTL

-----------------------------------------------------------------------------
(* The refinement: every step of the pool is a step of TaskPool or none    *)

\* A task whose process has been called was counted before it returns.
RunningCounted == \A w \in Workers : pc[w] = "running" => runs[worker[w]] = 1

LEMMA NextRunningCounted ==
  ASSUME TypeOK, NodeInv, RunningCounted, [Next]_vars
  PROVE  RunningCounted'
<1> USE DEF RunningCounted, TypeOK, WGoto, MGoto
<1>1. ASSUME NEW v \in Workers, RunTask(v) PROVE RunningCounted'
  <2>1. /\ worker[v] \in Tasks /\ runs[worker[v]] = 0
        /\ \A w \in Workers : w # v => worker[w] # worker[v]
    BY <1>1 DEF RunTask, NodeInv, WorkersBelow, RunsBelow, HoldsNode
  <2>2. runs' = [runs EXCEPT ![worker[v]] = 1]
    BY <1>1, <2>1 DEF RunTask
  <2> QED
    BY <1>1, <2>1, <2>2 DEF RunTask, NodeInv, WorkersBelow, HoldsNode
<1>2. CASE MainStep
  BY <1>2 DEF MainStep, AllocPool, CreateThread, PoolReady, AllocNode, AddLock,
     LinkNode, CountNode, AddUnlock, AddSignal, CondSignal, Waiters,
     DestroyCall, DestroyNull, SetShutdown, Broadcast, CondBroadcast, Join,
     JoinedAll, DrainNode, FreePool, histVars, mainVars
<1>3. ASSUME NEW v \in Workers, WorkerStep(v) \/ SpuriousWakeup(v), ~RunTask(v)
      PROVE  RunningCounted'
  <2>1. /\ runs' = runs
        /\ pc'[v] # "running"
        /\ \A w \in Workers : w # v => pc'[w] = pc[w] /\ worker'[w] = worker[w]
    BY <1>3 DEF WorkerStep, Lock, Test, Block, Relock, Exit, TakeCount,
       TakeHead, Unlock, FreeNode, SpuriousWakeup, histVars
  <2> QED
    BY <2>1
<1>4. CASE UNCHANGED vars
  BY <1>4 DEF vars, histVars
<1> QED
  BY <1>1, <1>2, <1>3, <1>4 DEF Next, WorkerStep

\* What main has linked is an initial part of the tasks.
LEMMA LinkedIs ==
  ASSUME TypeOK, PendingNode
  PROVE  Linked = {t \in Tasks : t <= LastLinked}
<1>1. next \in Int /\ \A t \in Tasks : t \in Int
  BY PoolAssumption DEF TypeOK, Tasks
<1>2. CASE mpc \in {"add_lock", "link"}
  <2>1. newworker = next /\ LastLinked = next - 1
    BY <1>2 DEF PendingNode, LastLinked
  <2>2. Linked = {t \in Tasks : t <= next /\ t # next}
    BY <1>2, <2>1 DEF Linked
  <2> QED
    BY <1>1, <2>1, <2>2
<1>3. CASE mpc \notin {"add_lock", "link"}
  BY <1>3 DEF Linked, LastLinked
<1> QED
  BY <1>2, <1>3

LEMMA LinkedIsNext ==
  ASSUME TypeOK', PendingNode'
  PROVE  Linked' = {t \in Tasks : t <= LastLinked'}
<1>1. next' \in Int /\ \A t \in Tasks : t \in Int
  BY PoolAssumption DEF TypeOK, Tasks
<1>2. CASE mpc' \in {"add_lock", "link"}
  <2>1. newworker' = next' /\ LastLinked' = next' - 1
    BY <1>2 DEF PendingNode, LastLinked
  <2>2. Linked' = {t \in Tasks : t <= next' /\ t # next'}
    BY <1>2, <2>1 DEF Linked
  <2> QED
    BY <1>1, <2>1, <2>2
<1>3. CASE mpc' \notin {"add_lock", "link"}
  BY <1>3 DEF Linked, LastLinked
<1> QED
  BY <1>2, <1>3

\* What a worker holds is a task, and a worker that holds none leaves room for
\* one more.
LEMMA HeldFacts ==
  ASSUME TypeOK
  PROVE  /\ \A t : t \in Held <=> t \in Tasks /\ \E w \in Workers : worker[w] = t
         /\ \A w \in Workers : worker[w] = NULL => Cardinality(Held) < NThreads
<1>1. \A t : t \in Held <=> t \in Tasks /\ \E w \in Workers : worker[w] = t
  BY PoolAssumption DEF TypeOK, Held, Tasks, NULL
<1>2. ASSUME NEW w \in Workers, worker[w] = NULL
      PROVE  Cardinality(Held) < NThreads
  <2> DEFINE Busy == {v \in Workers : worker[v] # NULL}
             f == [v \in Busy |-> worker[v]]
  <2>1. IsFiniteSet(Workers) /\ Cardinality(Workers) = NThreads
    BY FS_Interval, PoolAssumption DEF Workers
  <2>2. /\ IsFiniteSet(Workers \ {w})
        /\ Cardinality(Workers \ {w}) = NThreads - 1
    BY <2>1, <1>2, FS_RemoveElement
  <2>3. Busy \in SUBSET (Workers \ {w})
    BY <1>2
  <2>4. IsFiniteSet(Busy) /\ Cardinality(Busy) <= NThreads - 1
    BY <2>2, <2>3, FS_Subset
  <2>5. f \in Surjection(Busy, Held)
    BY DEF Surjection, Held
  <2>6. IsFiniteSet(Held) /\ Cardinality(Held) <= Cardinality(Busy)
    BY <2>4, <2>5, FS_Surjection
  <2> QED
    BY <2>4, <2>6, FS_CardinalityType, PoolAssumption
<1> QED
  BY <1>1, <1>2

\* A step that leaves the list, the nodes in hand, the counts, the last node
\* linked and the life of the pool alone is no step of TaskPool.
LEMMA StutterFacts ==
  ASSUME TypeOK, PendingNode, TypeOK', PendingNode',
         UNCHANGED <<queue, worker, runs>>, LastLinked' = LastLinked,
         Released' = Released
  PROVE  UNCHANGED Promise!vars
<1>1. Linked' = Linked
  <2>1. Linked' = {t \in Tasks : t <= LastLinked'}
    BY LinkedIsNext
  <2> QED
    BY <2>1, LinkedIs
<1>2. Held' = Held /\ Executed' = Executed /\ QueueSet' = QueueSet
  BY DEF Held, Executed, QueueSet
<1> QED
  BY <1>1, <1>2 DEF Promise!vars

\* Linking a node is Submit.
LEMMA LinkNodeSubmits ==
  ASSUME TypeOK, PendingNode, ShutdownPhase, NodeInv, TypeOK', PendingNode',
         LinkNode
  PROVE  \E t \in Tasks : Promise!Submit(t)
<1>1. /\ next \in Tasks /\ queue' = Append(queue, next)
      /\ UNCHANGED <<worker, runs>>
      /\ ~Released /\ Released' = Released
  BY PoolAssumption DEF TypeOK, PendingNode, LinkNode, MGoto, Tasks, NULL,
     histVars, Released
<1>2. Held' = Held /\ Executed' = Executed
  BY <1>1 DEF Held, Executed
<1>3. /\ \A k \in 1 .. Len(queue) : queue[k] # next
      /\ next \notin Held /\ next \notin Executed /\ next \notin Linked
  <2>1. LastLinked = next - 1 /\ next \in Int
    BY LinkNodeFacts, SMTT(60) DEF TypeOK
  <2>2. \A k \in 1 .. Len(queue) : queue[k] # next
    <3>1. \A k \in 1 .. Len(queue) : queue[k] \in Int
      <4>1. \A k \in 1 .. Len(queue) : queue[k] \in Tasks
        BY SMTT(60) DEF TypeOK
      <4> QED
        BY <4>1, PoolAssumption DEF Tasks
    <3> QED
      BY <2>1, <3>1 DEF NodeInv, QueueAscends
  <2>3. next \notin Held
    BY <2>1, HeldFacts DEF NodeInv, WorkersBelow
  <2>4. next \notin Executed
    BY <1>1, <2>1, SMTT(60) DEF NodeInv, RunsBelow, TypeOK, Executed
  <2>5. next \notin Linked
    BY <2>1, LinkedIs
  <2> QED
    BY <2>2, <2>3, <2>4, <2>5
<1>4. Linked' = Linked \cup {next}
  <2>1. Linked' = {t \in Tasks : t <= LastLinked'}
    BY LinkedIsNext
  <2> QED
    BY <1>1, <2>1, LinkedIs, LinkNodeFacts DEF Tasks
<1>5. QueueSet' = QueueSet \cup {next}
  BY LinkNodeFacts DEF QueueSet
<1>6. next \notin Promise!Known
  BY <1>3 DEF Promise!Known
<1>7. UNCHANGED <<Held, Executed \ Held,
                  Linked \ (QueueSet \cup Held \cup Executed), Released>>
  BY <1>1, <1>2, <1>3, <1>4, <1>5
<1>8. Promise!Submit(next)
  BY <1>1, <1>6, <1>7 DEF Promise!Submit
<1> QED
  BY <1>1, <1>8

\* Taking the head is Start.
LEMMA TakeHeadStarts ==
  ASSUME IInv, NodeInv, TypeOK', PendingNode', NEW w \in Workers, TakeHead(w)
  PROVE  Promise!Start
<1>1. /\ TypeOK /\ PendingNode /\ QueueAscends /\ WorkersBelow /\ RunsBelow
      /\ ~Released /\ Released' = Released
  BY DEF IInv, NodeInv, Lifecycle, TakeHead, WGoto, mainVars, Released
<1>2. /\ queue # <<>> /\ queue' = Tail(queue)
      /\ worker' = [worker EXCEPT ![w] = queue[1]] /\ worker[w] = NULL
      /\ runs' = runs /\ LastLinked' = LastLinked
      /\ Head(queue) = queue[1] /\ queue[1] \in Tasks
      /\ 1 \in 1 .. Len(queue)
      /\ \A t : (\E k \in 1 .. Len(queue) : queue[k] = t)
                  <=> (\E k \in 1 .. Len(queue') : queue'[k] = t)
                        \/ t = queue[1]
  BY <1>1, TakeHeadFacts, ShrinkFacts
<1>3. Held' = Held \cup {queue[1]}
  BY <1>1, <1>2, PoolAssumption, SMTT(60) DEF TypeOK, Held, Tasks, NULL
<1>4. Executed' = Executed /\ queue[1] \notin Executed
  <2>1. runs[queue[1]] \in Nat /\ runs[queue[1]] <= 1 /\ queue[1] \in Int
    BY <1>1, <1>2, PoolAssumption, SMTT(60) DEF TypeOK, RunsBelow, Tasks
  <2>2. runs[queue[1]] # 1
    BY <1>1, <1>2, <2>1 DEF RunsBelow
  <2> QED
    BY <1>2, <2>1, <2>2 DEF Executed
<1>5. Linked' = Linked
  <2>1. Linked' = {t \in Tasks : t <= LastLinked'}
    BY LinkedIsNext
  <2> QED
    BY <1>1, <1>2, <2>1, LinkedIs
<1>6. QueueSet = QueueSet' \cup {queue[1]}
  BY <1>2 DEF QueueSet
<1>7. Cardinality(Held) < NThreads
  BY <1>1, <1>2, HeldFacts
<1>8. UNCHANGED <<Executed \ Held,
                  Linked \ (QueueSet \cup Held \cup Executed), Released>>
  BY <1>1, <1>3, <1>4, <1>5, <1>6
<1>9. queue # <<>> /\ queue' = Tail(queue) /\ Held' = Held \cup {Head(queue)}
  BY <1>2, <1>3
<1>10. Promise!Cardinality(Held) = Cardinality(Held)
  BY DEF Promise!Cardinality, Cardinality, Promise!IsFiniteSet, IsFiniteSet
<1> QED
  BY <1>1, <1>7, <1>8, <1>9, <1>10 DEF Promise!Start

\* Freeing a node after its process has run is Finish.
LEMMA FreeNodeFinishes ==
  ASSUME IInv, NodeInv, RunningCounted, TypeOK', PendingNode',
         NEW w \in Workers, FreeNode(w)
  PROVE  \E t \in Tasks : Promise!Finish(t)
<1> DEFINE t == worker[w]
<1>1. /\ t \in Tasks /\ runs[t] = 1
      /\ \A v \in Workers : v # w => worker[v] # t
      /\ worker' = [worker EXCEPT ![w] = NULL]
      /\ UNCHANGED <<queue, runs, mpc, next, newworker>>
  BY DEF IInv, TypeOK, NodeInv, WorkersBelow, HoldsNode, RunningCounted,
     FreeNode, WGoto, sharedVars, mainVars
<1>2. t \in Held /\ Held' = Held \ {t}
  BY <1>1, PoolAssumption DEF IInv, TypeOK, Held, Tasks, NULL
<1>3. t \in Executed /\ Executed' = Executed
  BY <1>1 DEF Executed
<1>4. /\ Linked' = Linked /\ Released' = Released /\ QueueSet' = QueueSet
      /\ queue' = queue
  BY <1>1 DEF Linked, Released, QueueSet
<1>5. Promise!Finish(t)
  BY <1>2, <1>3, <1>4 DEF Promise!Finish
<1> QED
  BY <1>1, <1>5

\* The return of the last pthread_join is Close.
LEMMA JoinedAllCloses ==
  ASSUME IInv, NodeInv, JoinedAll
  PROVE  Promise!Close
<1>1. /\ UNCHANGED <<queue, worker, runs, next, newworker>>
      /\ mpc = "join" /\ mpc' = "drain" /\ i = NThreads
  BY DEF JoinedAll, MGoto, sharedVars, histVars
<1>2. \A w \in Workers : worker[w] = NULL
  <2>1. \A w \in Workers : pc[w] = "exited"
    BY <1>1 DEF IInv, Lifecycle, Workers
  <2> QED
    BY <2>1 DEF NodeInv, WorkersBelow, HoldsNode
<1>3. Held = {} /\ Held' = Held /\ Executed' = Executed /\ QueueSet' = QueueSet
  BY <1>1, <1>2 DEF Held, Executed, QueueSet
<1>4. Linked' = Linked /\ ~Released /\ Released'
  BY <1>1 DEF Linked, Released
<1> QED
  BY <1>1, <1>3, <1>4 DEF Promise!Close

\* Freeing a node that was never taken is Discard.
LEMMA DrainNodeDiscards ==
  ASSUME IInv, NodeInv, DrainNode
  PROVE  Promise!Discard
<1>1. /\ queue # <<>> /\ queue' = Tail(queue)
      /\ UNCHANGED <<worker, runs, next, newworker, mpc>>
      /\ mpc = "drain"
  BY DEF DrainNode, mainVars
<1>2. /\ Head(queue) = queue[1] /\ queue[1] \in Tasks
      /\ 1 \in 1 .. Len(queue)
      /\ \A t : (\E k \in 1 .. Len(queue) : queue[k] = t)
                  <=> (\E k \in 1 .. Len(queue') : queue'[k] = t)
                        \/ t = queue[1]
      /\ \A k \in 1 .. Len(queue') : queue[1] < queue'[k]
  BY <1>1, ShrinkFacts DEF IInv, NodeInv
<1>3. /\ Held' = Held /\ Executed' = Executed /\ Linked' = Linked
      /\ Released /\ Released'
  BY <1>1 DEF Held, Executed, Linked, Released
<1>4. queue[1] \notin Held
  BY <1>1, PoolAssumption DEF IInv, Lifecycle, Released, NodeInv,
     WorkersBelow, HoldsNode, Held, Tasks, NULL
<1>5. queue[1] \notin Executed
  <2>1. runs[queue[1]] \in Nat /\ runs[queue[1]] <= 1 /\ queue[1] \in Int
    BY <1>2, PoolAssumption DEF IInv, TypeOK, NodeInv, RunsBelow, Tasks
  <2>2. runs[queue[1]] # 1
    BY <1>2, <2>1 DEF NodeInv, RunsBelow
  <2> QED
    BY <2>1, <2>2 DEF Executed
<1>6. queue[1] \in Linked
  <2>1. queue[1] <= LastLinked
    BY <1>2 DEF NodeInv, QueueAscends
  <2> QED
    BY <1>2, <2>1, LinkedIs DEF IInv
<1>7. QueueSet = QueueSet' \cup {queue[1]} /\ queue[1] \notin QueueSet'
  <2>1. queue[1] \in Int
    BY <1>2, PoolAssumption DEF Tasks
  <2>2. \A t : t \in QueueSet <=> t \in QueueSet' \/ t = queue[1]
    BY <1>2 DEF QueueSet
  <2>3. \A k \in 1 .. Len(queue') : queue'[k] # queue[1]
    <3> SUFFICES ASSUME NEW k \in 1 .. Len(queue'), queue'[k] = queue[1]
                 PROVE  FALSE
      OBVIOUS
    <3>1. queue[1] < queue[1]
      BY <1>2
    <3> QED
      BY <2>1, <3>1
  <2> QED
    BY <2>2, <2>3 DEF QueueSet
<1> QED
  BY <1>1, <1>2, <1>3, <1>4, <1>5, <1>6, <1>7 DEF Promise!Discard

\* The steps that only synchronise are no steps of TaskPool.
LEMMA OtherStepsStutter ==
  ASSUME IInv, TypeOK', PendingNode',
         \/ MainStep /\ ~LinkNode /\ ~JoinedAll /\ ~DrainNode
         \/ \E w \in Workers : \/ Lock(w) \/ Test(w) \/ Block(w) \/ Relock(w)
                             \/ Exit(w) \/ TakeCount(w) \/ Unlock(w)
                             \/ SpuriousWakeup(w)
         \/ UNCHANGED vars
  PROVE  UNCHANGED Promise!vars
<1>1. /\ UNCHANGED <<queue, worker, runs>>
      /\ LastLinked' = LastLinked
      /\ Released' = Released
  <2> USE DEF MGoto, sharedVars, mainVars, histVars, LastLinked, Released
  <2>1. CASE MainStep /\ ~LinkNode /\ ~JoinedAll /\ ~DrainNode
    <3>1. CASE AllocNode
      BY <3>1, PoolAssumption DEF AllocNode, IInv, TypeOK
    <3>2. CASE AddLock \/ CountNode \/ AddUnlock \/ AddSignal
      BY <3>2 DEF AddLock, CountNode, AddUnlock, AddSignal
    <3>3. CASE AllocPool \/ CreateThread \/ PoolReady
      BY <3>3 DEF AllocPool, CreateThread, PoolReady
    <3>4. CASE DestroyCall \/ DestroyNull \/ SetShutdown \/ Broadcast
      BY <3>4 DEF DestroyCall, DestroyNull, SetShutdown, Broadcast
    <3>5. CASE Join \/ FreePool
      BY <3>5 DEF Join, FreePool
    <3> QED
      BY <2>1, <3>1, <3>2, <3>3, <3>4, <3>5 DEF MainStep
  <2>2. CASE \E w \in Workers : \/ Lock(w) \/ Test(w) \/ Block(w) \/ Relock(w)
                              \/ Exit(w) \/ TakeCount(w) \/ Unlock(w)
                              \/ SpuriousWakeup(w)
    BY <2>2 DEF Lock, Test, Block, Relock, Exit, TakeCount, Unlock,
       SpuriousWakeup
  <2>3. CASE UNCHANGED vars
    BY <2>3 DEF vars
  <2> QED
    BY <2>1, <2>2, <2>3
<1> QED
  BY <1>1, StutterFacts DEF IInv

LEMMA RunTaskStutters ==
  ASSUME IInv, NodeInv, NEW w \in Workers, RunTask(w)
  PROVE  UNCHANGED Promise!vars
<1>1. /\ UNCHANGED <<queue, worker, mpc, next, newworker>>
      /\ worker[w] \in Tasks /\ runs[worker[w]] = 0
      /\ runs' = [runs EXCEPT ![worker[w]] = 1]
  <2>1. worker[w] \in Tasks /\ runs[worker[w]] = 0
    BY DEF RunTask, WGoto, IInv, TypeOK, NodeInv, WorkersBelow, RunsBelow,
       HoldsNode
  <2>2. runs' = [runs EXCEPT ![worker[w]] = 1]
    BY <2>1 DEF RunTask
  <2> QED
    BY <2>1, <2>2 DEF RunTask, sharedVars, mainVars
<1>2. worker[w] \in Held
  BY <1>1, PoolAssumption DEF Held, Tasks, NULL
<1>3. Executed' = Executed \cup {worker[w]}
  BY <1>1 DEF Executed, IInv, TypeOK
<1>4. /\ Held' = Held /\ QueueSet' = QueueSet /\ Linked' = Linked
      /\ Released' = Released
  BY <1>1 DEF Held, QueueSet, Linked, Released
<1> QED
  BY <1>1, <1>2, <1>3, <1>4 DEF Promise!vars

\* The pool keeps the promises of its comments: tasks start in the order they
\* were added, at most max_thread_num at a time, each once; pool_destroy waits
\* for those that run and discards those that wait.
THEOREM PoolKeepsPromise == Spec => ImplementsTaskPool
<1>1. Init => Promise!Init
  <2> SUFFICES ASSUME Init PROVE Promise!Init
    OBVIOUS
  <2>1. Held = {} /\ Executed = {} /\ Linked = {} /\ ~Released
    BY PoolAssumption DEF Init, Held, Executed, Linked, Released, Tasks, NULL
  <2> QED
    BY <2>1 DEF Init, Promise!Init
<1>2. Init => RunningCounted
  BY DEF Init, RunningCounted
<1>3. IInv /\ NodeInv /\ RunningCounted /\ [Next]_vars => RunningCounted'
  BY NextRunningCounted DEF IInv
<1>4. IInv /\ NodeInv /\ RunningCounted /\ TypeOK' /\ PendingNode'
        /\ [Next]_vars
          => [Promise!Next]_(Promise!vars)
  <2> SUFFICES ASSUME IInv, NodeInv, RunningCounted, TypeOK', PendingNode',
                      [Next]_vars
               PROVE  Promise!Next \/ UNCHANGED Promise!vars
    OBVIOUS
  <2>1. CASE LinkNode
    BY <2>1, LinkNodeSubmits DEF IInv, Promise!Next
  <2>2. CASE JoinedAll
    BY <2>2, JoinedAllCloses DEF Promise!Next
  <2>3. CASE DrainNode
    BY <2>3, DrainNodeDiscards DEF Promise!Next
  <2>4. ASSUME NEW w \in Workers, TakeHead(w) PROVE Promise!Next
    BY <2>4, TakeHeadStarts DEF Promise!Next
  <2>5. ASSUME NEW w \in Workers, FreeNode(w) PROVE Promise!Next
    BY <2>5, FreeNodeFinishes DEF Promise!Next
  <2>6. ASSUME NEW w \in Workers, RunTask(w) PROVE UNCHANGED Promise!vars
    BY <2>6, RunTaskStutters
  <2> QED
    BY <2>1, <2>2, <2>3, <2>4, <2>5, <2>6, OtherStepsStutter
       DEF Next, WorkerStep
<1>5. IInv => TypeOK /\ PendingNode
  BY DEF IInv
<1> QED
  BY <1>1, <1>2, <1>3, <1>4, <1>5, Synchronisation, NodeOwnership, PTL
     DEF Spec, ImplementsTaskPool, Promise!Spec
=============================================================================
