---------------------------- MODULE CameraProofs ----------------------------
(***************************************************************************)
(* Proofs about the three parts of the camera board that share no state:   *)
(* FrameGrab, the programs that take a picture; ConfigFile, the settings;  *)
(* CameraCtl, the control of the camera.                                   *)
(***************************************************************************)
EXTENDS FrameGrab, ConfigFile, CameraCtl, SequenceTheorems, FiniteSetTheorems,
        NaturalsInduction, WellFoundedInduction, TLAPS

(***************************************************************************)
(* FrameGrab.  A picture is whole because the buffer it is copied from is  *)
(* not with the driver: no buffer is queued twice, and what the driver     *)
(* hands over it has filled to the end.                                    *)
(***************************************************************************)
Counters ==
  /\ n_buffers \in Nat /\ counter \in Nat /\ index \in Nat /\ tries \in Nat /\ signals \in Nat /\ frame \in Nat
Flags ==
  /\ prog \in {"camera1", "camera2", "camera3", "camera4", "camera6"}
  /\ {fd, filling, streaming, failed, taken} \subseteq BOOLEAN
Memory ==
  /\ mapped \subseteq exists /\ exists \subseteq Buffers
  /\ content \in [Buffers -> [{1, 2} -> Nat]]
Lists == queued \in Seq(Buffers) /\ done \in Seq(Buffers) /\ file \in Seq(Nat) /\ Len(file) <= 2
Shape == Counters /\ Flags /\ Memory /\ Lists

\* Which programs come to which place.
V4L2Places == {"request", "query", "queue", "streamon", "select", "dequeue", "requeue"}
V4L1Places == {"map", "capture", "sync", "scan", "fopen"}
Route ==
  /\ pc \in V4L2Places \cup V4L1Places \cup {"open", "setup", "write", "unmap"} \/ Ended
  /\ pc \in V4L2Places => V4L2
  /\ pc \in V4L1Places => ~V4L2
  /\ pc = "scan" => prog = "camera3"
  /\ pc \in {"open", "setup", "request", "map"} => exists = {} /\ mapped = {}

\* No buffer is queued twice.
In(b, s) == \E k \in 1 .. Len(s) : s[k] = b
Once(s) == \A j, k \in 1 .. Len(s) : s[j] = s[k] => j = k
Queues ==
  /\ Once(queued) /\ Once(done)
  /\ \A b \in Buffers : In(b, queued) => b \in exists /\ ~In(b, done)
  /\ \A b \in Buffers : In(b, done) => b \in exists
  /\ pc \in {"open", "setup", "request", "query", "map", "capture"} => queued = << >>
  /\ pc \in {"open", "setup", "request", "query", "queue", "streamon", "map", "capture"} => done = << >> /\ ~streaming
  /\ pc = "queue" => \A b \in Buffers : In(b, queued) => b < counter
  /\ ~V4L2 => Len(queued) + Len(done) <= 1

\* What the driver has delivered is whole, and so is what was taken from it.
WholeFrame(b) == content[b][1] = content[b][2] /\ content[b][1] > 0
Pictures ==
  /\ \A b \in Buffers : In(b, done) => WholeFrame(b)
  /\ filling => queued # << >> /\ content[Head(queued)][1] = frame /\ frame > 0
  /\ taken => pc \in {"write", "requeue", "unmap", "exit", "fopen", "crash", "abort"}
  /\ pc \notin {"write", "requeue", "unmap", "exit", "crash"} => file = << >>
  /\ pc = "write" => Len(file) < 2
  /\ taken /\ pc \in {"write", "fopen"} =>
       /\ index \in Buffers /\ WholeFrame(index) /\ ~In(index, queued) /\ ~In(index, done)
       /\ \A k \in 1 .. Len(file) : file[k] = content[index][k]
  /\ taken /\ Len(file) = 2 => file[1] = file[2] /\ file[1] > 0

\* A program without a failed call has all its buffers mapped, and one to write.
Success ==
  /\ ~failed /\ V4L2 =>
       /\ pc = "query" => exists = 0 .. n_buffers - 1 /\ mapped = 0 .. counter - 1 /\ counter <= n_buffers
       /\ pc \in {"queue", "streamon", "select", "dequeue", "write"} => mapped = exists
       /\ pc = "write" => index \in exists
       /\ pc \in {"requeue", "unmap", "exit"} => Len(file) = 2
  /\ ~failed /\ prog = "camera6" =>
       /\ pc \in {"capture", "sync", "fopen", "write"} => mapped = exists
       /\ pc \in {"sync", "fopen", "write"} => index \in exists
       /\ pc \in {"unmap", "exit"} => Len(file) = 2
       /\ pc = "sync" => tries < MaxTries
  /\ pc \in {"open", "setup", "request"} => counter = 0
  /\ pc \in {"open", "setup", "map", "capture"} => tries = 0

IInv == Shape /\ Route /\ Queues /\ Pictures /\ Success

\* The empty sequence has no element.
LEMMA NoneIn == Once(<< >>) /\ \A b : ~In(b, << >>)
BY DEF Once, In

\* What a sequence without repetitions has after a buffer was appended.
LEMMA AppendOnce ==
  ASSUME NEW s \in Seq(Buffers), NEW b \in Buffers
  PROVE  /\ Append(s, b) \in Seq(Buffers) /\ Len(Append(s, b)) = Len(s) + 1
         /\ Append(s, b) # << >> /\ s # << >> => Head(Append(s, b)) = Head(s)
         /\ \A c : In(c, Append(s, b)) <=> (In(c, s) \/ c = b)
         /\ Once(s) /\ ~In(b, s) => Once(Append(s, b))
BY AppendProperties DEF Once, In

\* What it has after its head was taken.
LEMMA TailOnce ==
  ASSUME NEW s \in Seq(Buffers), s # << >>
  PROVE  /\ Tail(s) \in Seq(Buffers) /\ Len(Tail(s)) = Len(s) - 1
         /\ Head(s) \in Buffers /\ In(Head(s), s)
         /\ \A c : In(c, Tail(s)) => In(c, s)
         /\ \A c : In(c, s) => c = Head(s) \/ In(c, Tail(s))
         /\ Once(s) => Once(Tail(s)) /\ ~In(Head(s), Tail(s))
<1>1. /\ Tail(s) \in Seq(Buffers) /\ Len(Tail(s)) = Len(s) - 1 /\ Len(s) \in Nat \ {0}
      /\ Head(s) \in Buffers /\ Head(s) = s[1]
      /\ \A k \in 1 .. Len(s) - 1 : Tail(s)[k] = s[k + 1]
  BY HeadTailProperties, EmptySeq
<1>2. /\ \A c : In(c, Tail(s)) => In(c, s)
      /\ In(Head(s), s)
  BY <1>1 DEF In
<1>3. ASSUME NEW c, In(c, s), c # Head(s) PROVE In(c, Tail(s))
  <2>1. PICK k \in 1 .. Len(s) : s[k] = c
    BY <1>3 DEF In
  <2>2. k - 1 \in 1 .. Len(s) - 1 /\ Tail(s)[k - 1] = c
    BY <1>1, <1>3, <2>1
  <2> QED BY <1>1, <2>2 DEF In
<1>4. ASSUME Once(s) PROVE Once(Tail(s)) /\ ~In(Head(s), Tail(s))
  <2>1. \A j, k \in 1 .. Len(s) : s[j] = s[k] => j = k
    BY <1>4 DEF Once
  <2>2. \A k \in 1 .. Len(s) - 1 : k + 1 \in 1 .. Len(s) /\ 1 \in 1 .. Len(s) /\ k + 1 # 1
    BY <1>1
  <2> QED BY <1>1, <2>1, <2>2 DEF Once, In
<1> QED BY <1>1, <1>2, <1>3, <1>4

\* The set of the elements of a sequence, by index.
LEMMA ToSetIsIn == ASSUME NEW s \in Seq(Buffers) PROVE \A b : b \in ToSet(s) <=> In(b, s)
BY DEF ToSet, In

\* Buffers are numbers, and the first k of them are buffers.
LEMMA BufferFacts == Buffers \subseteq Nat /\ \A k \in 0 .. MaxBuffers : 0 .. k - 1 \subseteq Buffers
BY FrameGrabAssumption DEF Buffers

\* Every step keeps the counters in their type.
LEMMA CountersKept == ASSUME Shape, [Next]_vars PROVE Counters'
<1> USE DEF Shape, Counters, Flags, Memory, Lists, progVars, drvVars, history
<1>1. CASE Open
  BY <1>1 DEF Open, Fails
<1>2. CASE Setup
  BY <1>2 DEF Setup, Succeeds, Fails
<1>3. CASE RequestBuffers
  BY <1>3 DEF RequestBuffers, Succeeds, Fails
<1>4. CASE MapBuffer
  BY <1>4 DEF MapBuffer, Fails, BufferAt
<1>5. CASE QueueBuffer
  BY <1>5 DEF QueueBuffer, Fails
<1>6. CASE LoopEnds
  BY <1>6 DEF LoopEnds
<1>7. CASE StreamOn
  BY <1>7 DEF StreamOn, Fails
<1>8. CASE Select
  BY <1>8 DEF Select, Readable, Timeout, Fails
<1>9. CASE Dequeue
  <2>1. done # << >> => Head(done) \in Nat
    BY TailOnce, BufferFacts
  <2> QED BY <1>9, <2>1 DEF Dequeue, Fails
<1>10. CASE Requeue
  BY <1>10 DEF Requeue, Fails, Owned, ToSet
<1>11. CASE StreamOff
  BY <1>11 DEF StreamOff
<1>12. CASE Map
  BY <1>12 DEF Map, Succeeds, Fails
<1>13. CASE Capture
  BY <1>13 DEF Capture, Fails
<1>14. CASE Sync
  BY <1>14 DEF Sync, Fails, ToSet
<1>15. CASE Scan
  BY <1>15 DEF Scan, Fails
<1>16. CASE Fopen \/ WriteNowhere
  BY <1>16 DEF Fopen, WriteNowhere, Fails
<1>17. CASE Write
  BY <1>17 DEF Write, Source, AfterWrite
<1>18. CASE Unmap
  BY <1>18 DEF Unmap
<1>19. CASE Fill
  BY <1>19 DEF Fill
<1>20. CASE UNCHANGED vars
  BY <1>20 DEF vars
<1> QED BY <1>1, <1>2, <1>3, <1>4, <1>5, <1>6, <1>7, <1>8, <1>9, <1>10, <1>11, <1>12, <1>13, <1>14, <1>15, <1>16, <1>17, <1>18, <1>19, <1>20 DEF Next, Program

\* Every step keeps the flags in their type.
LEMMA FlagsKept == ASSUME Shape, [Next]_vars PROVE Flags'
<1> USE DEF Shape, Flags, progVars, drvVars, history
<1>1. CASE Open
  BY <1>1 DEF Open, Fails
<1>2. CASE Setup
  BY <1>2 DEF Setup, Succeeds, Fails
<1>3. CASE RequestBuffers
  BY <1>3 DEF RequestBuffers, Succeeds, Fails
<1>4. CASE MapBuffer
  BY <1>4 DEF MapBuffer, Fails, BufferAt
<1>5. CASE QueueBuffer
  BY <1>5 DEF QueueBuffer, Fails
<1>6. CASE LoopEnds
  BY <1>6 DEF LoopEnds
<1>7. CASE StreamOn
  BY <1>7 DEF StreamOn, Fails
<1>8. CASE Select
  BY <1>8 DEF Select, Readable, Timeout, Fails
<1>9. CASE Dequeue
  BY <1>9 DEF Dequeue, Fails
<1>10. CASE Requeue
  BY <1>10 DEF Requeue, Fails, Owned, ToSet
<1>11. CASE StreamOff
  BY <1>11 DEF StreamOff
<1>12. CASE Map
  BY <1>12 DEF Map, Succeeds, Fails
<1>13. CASE Capture
  BY <1>13 DEF Capture, Fails
<1>14. CASE Sync
  BY <1>14 DEF Sync, Fails, ToSet
<1>15. CASE Scan
  BY <1>15 DEF Scan, Fails
<1>16. CASE Fopen \/ WriteNowhere
  BY <1>16 DEF Fopen, WriteNowhere, Fails
<1>17. CASE Write
  BY <1>17 DEF Write, Source, AfterWrite
<1>18. CASE Unmap
  BY <1>18 DEF Unmap
<1>19. CASE Fill
  BY <1>19 DEF Fill
<1>20. CASE UNCHANGED vars
  BY <1>20 DEF vars
<1> QED BY <1>1, <1>2, <1>3, <1>4, <1>5, <1>6, <1>7, <1>8, <1>9, <1>10, <1>11, <1>12, <1>13, <1>14, <1>15, <1>16, <1>17, <1>18, <1>19, <1>20 DEF Next, Program

\* Only granted buffers are mapped, and each holds two halves.
LEMMA MemoryKept == ASSUME Shape, Route, [Next]_vars PROVE Memory'
<1> USE DEF Shape, Memory, Lists, progVars, drvVars, history
<1>1. CASE Open
  BY <1>1 DEF Open, Fails
<1>2. CASE Setup
  BY <1>2 DEF Setup, Succeeds, Fails
<1>3. CASE RequestBuffers
  BY <1>3, BufferFacts DEF RequestBuffers, Succeeds, Fails, Route
<1>4. CASE MapBuffer
  BY <1>4 DEF MapBuffer, Fails, BufferAt
<1>5. CASE QueueBuffer
  BY <1>5 DEF QueueBuffer, Fails
<1>6. CASE LoopEnds
  BY <1>6 DEF LoopEnds
<1>7. CASE StreamOn
  BY <1>7 DEF StreamOn, Fails
<1>8. CASE Select
  BY <1>8 DEF Select, Readable, Timeout, Fails
<1>9. CASE Dequeue
  BY <1>9 DEF Dequeue, Fails
<1>10. CASE Requeue
  BY <1>10 DEF Requeue, Fails, Owned, ToSet
<1>11. CASE StreamOff
  BY <1>11 DEF StreamOff
<1>12. CASE Map
  <2>1. UNCHANGED content /\ exists = {} /\ mapped = {}
    BY <1>12 DEF Map, Route
  <2>2. \/ \E k \in 1 .. MaxBuffers : exists' = 0 .. k - 1 /\ (mapped' = exists' \/ mapped' = mapped)
        \/ UNCHANGED << exists, mapped >>
    BY <1>12 DEF Map
  <2> QED BY <2>1, <2>2, BufferFacts
<1>13. CASE Capture
  BY <1>13 DEF Capture, Fails
<1>14. CASE Sync
  BY <1>14 DEF Sync, Fails, ToSet
<1>15. CASE Scan
  BY <1>15 DEF Scan, Fails
<1>16. CASE Fopen \/ WriteNowhere
  BY <1>16 DEF Fopen, WriteNowhere, Fails
<1>17. CASE Write
  BY <1>17 DEF Write, Source, AfterWrite
<1>18. CASE Unmap
  BY <1>18 DEF Unmap
<1>19. CASE Fill
  <2>1. Head(queued) \in Buffers /\ UNCHANGED << mapped, exists >>
    BY <1>19, TailOnce DEF Fill
  <2>2. ASSUME NEW b \in Buffers, NEW m \in Nat
        PROVE  /\ [content EXCEPT ![b][1] = m] \in [Buffers -> [{1, 2} -> Nat]]
               /\ [content EXCEPT ![b][2] = m] \in [Buffers -> [{1, 2} -> Nat]]
    OBVIOUS
  <2>3. /\ [content EXCEPT ![Head(queued)][1] = frame + 1] \in [Buffers -> [{1, 2} -> Nat]]
        /\ [content EXCEPT ![Head(queued)][2] = frame] \in [Buffers -> [{1, 2} -> Nat]]
    BY <2>1, <2>2 DEF Counters
  <2>4. \/ content' = [content EXCEPT ![Head(queued)][1] = frame + 1]
        \/ content' = [content EXCEPT ![Head(queued)][2] = frame]
    BY <1>19 DEF Fill
  <2>5. content' \in [Buffers -> [{1, 2} -> Nat]]
    BY <2>3, <2>4
  <2> QED BY <2>1, <2>5
<1>20. CASE UNCHANGED vars
  BY <1>20 DEF vars
<1> QED BY <1>1, <1>2, <1>3, <1>4, <1>5, <1>6, <1>7, <1>8, <1>9, <1>10, <1>11, <1>12, <1>13, <1>14, <1>15, <1>16, <1>17, <1>18, <1>19, <1>20 DEF Next, Program

\* The queues of the driver hold buffers, the file at most two halves.
LEMMA ListsKept == ASSUME Shape, Route, Queues, Pictures, [Next]_vars PROVE Lists'
<1> USE DEF Shape, Memory, Lists, progVars, drvVars, history
<1>1. CASE Open
  BY <1>1 DEF Open, Fails
<1>2. CASE Setup
  BY <1>2 DEF Setup, Succeeds, Fails
<1>3. CASE RequestBuffers
  BY <1>3 DEF RequestBuffers, Succeeds, Fails
<1>4. CASE MapBuffer
  BY <1>4 DEF MapBuffer, Fails, BufferAt
<1>5. CASE QueueBuffer
  <2>1. counter \in exists => counter \in Buffers
    OBVIOUS
  <2> QED BY <1>5, <2>1, AppendOnce DEF QueueBuffer, Fails
<1>6. CASE LoopEnds
  BY <1>6 DEF LoopEnds
<1>7. CASE StreamOn
  BY <1>7 DEF StreamOn, Fails
<1>8. CASE Select
  BY <1>8 DEF Select, Readable, Timeout, Fails
<1>9. CASE Dequeue
  BY <1>9, TailOnce DEF Dequeue, Fails
<1>10. CASE Requeue
  <2>1. index \in exists => index \in Buffers
    OBVIOUS
  <2>2. /\ UNCHANGED << done, file >>
        /\ (index \in exists /\ queued' = Append(queued, index)) \/ UNCHANGED queued
    BY <1>10 DEF Requeue, progVars
  <2> QED BY <2>1, <2>2, AppendOnce
<1>11. CASE StreamOff
  BY <1>11 DEF StreamOff
<1>12. CASE Map
  BY <1>12 DEF Map, Succeeds, Fails
<1>13. CASE Capture
  <2>1. index \in exists => index \in Buffers
    OBVIOUS
  <2> QED BY <1>13, <2>1, AppendOnce DEF Capture, Fails
<1>14. CASE Sync
  <2>1. index \in ToSet(done) => done # << >>
    BY ToSetIsIn, NoneIn
  <2> QED BY <1>14, <2>1, TailOnce DEF Sync, Fails
<1>15. CASE Scan
  BY <1>15 DEF Scan, Fails
<1>16. CASE Fopen \/ WriteNowhere
  BY <1>16 DEF Fopen, WriteNowhere, Fails
<1>17. CASE Write
  <2>1. UNCHANGED << queued, done >>
    BY <1>17 DEF Write, drvVars
  <2>2. CASE Source \in mapped
    <3>1. Len(file) < 2 /\ Len(file) + 1 \in {1, 2}
      BY <1>17 DEF Write, Pictures
    <3>2. content[Source][Len(file) + 1] \in Nat
      BY <2>2, <3>1
    <3>3. file' = Append(file, content[Source][Len(file) + 1])
      BY <1>17, <2>2 DEF Write
    <3> QED BY <2>1, <3>1, <3>2, <3>3, AppendProperties
  <2>3. CASE Source \notin mapped
    BY <1>17, <2>1, <2>3 DEF Write
  <2> QED BY <2>2, <2>3
<1>18. CASE Unmap
  BY <1>18 DEF Unmap
<1>19. CASE Fill
  <2>1. /\ Head(queued) \in Buffers /\ Tail(queued) \in Seq(Buffers)
        /\ Append(done, Head(queued)) \in Seq(Buffers)
    BY <1>19, TailOnce, AppendOnce DEF Fill
  <2> QED BY <1>19, <2>1 DEF Fill, progVars
<1>20. CASE UNCHANGED vars
  BY <1>20 DEF vars
<1> QED BY <1>1, <1>2, <1>3, <1>4, <1>5, <1>6, <1>7, <1>8, <1>9, <1>10, <1>11, <1>12, <1>13, <1>14, <1>15, <1>16, <1>17, <1>18, <1>19, <1>20 DEF Next, Program

\* A program takes only the steps of its own version of the interface.
LEMMA RouteKept == ASSUME Shape, Route, [Next]_vars PROVE Route'
<1> USE DEF Shape, Counters, Flags, Memory, Lists, Route, V4L2Places, V4L1Places, V4L2, Ended, progVars, drvVars, history
<1>1. CASE Open
  BY <1>1 DEF Open, Fails
<1>2. CASE Setup
  BY <1>2 DEF Setup, Succeeds, Fails
<1>3. CASE RequestBuffers
  BY <1>3 DEF RequestBuffers, Succeeds, Fails
<1>4. CASE MapBuffer
  BY <1>4 DEF MapBuffer, Fails, BufferAt
<1>5. CASE QueueBuffer
  BY <1>5 DEF QueueBuffer, Fails
<1>6. CASE LoopEnds
  BY <1>6 DEF LoopEnds
<1>7. CASE StreamOn
  BY <1>7 DEF StreamOn, Fails
<1>8. CASE Select
  BY <1>8 DEF Select, Readable, Timeout, Fails
<1>9. CASE Dequeue
  BY <1>9 DEF Dequeue, Fails
<1>10. CASE Requeue
  BY <1>10 DEF Requeue, Fails, Owned, ToSet
<1>11. CASE StreamOff
  BY <1>11 DEF StreamOff
<1>12. CASE Map
  BY <1>12 DEF Map, Succeeds, Fails
<1>13. CASE Capture
  BY <1>13 DEF Capture, Fails
<1>14. CASE Sync
  BY <1>14 DEF Sync, Fails, ToSet
<1>15. CASE Scan
  BY <1>15 DEF Scan, Fails
<1>16. CASE Fopen \/ WriteNowhere
  BY <1>16 DEF Fopen, WriteNowhere, Fails
<1>17. CASE Write
  BY <1>17 DEF Write, Source, AfterWrite
<1>18. CASE Unmap
  BY <1>18 DEF Unmap
<1>19. CASE Fill
  BY <1>19 DEF Fill
<1>20. CASE UNCHANGED vars
  BY <1>20 DEF vars
<1> QED BY <1>1, <1>2, <1>3, <1>4, <1>5, <1>6, <1>7, <1>8, <1>9, <1>10, <1>11, <1>12, <1>13, <1>14, <1>15, <1>16, <1>17, <1>18, <1>19, <1>20 DEF Next, Program

\* No buffer is queued twice, or both queued and done.
LEMMA QueuesKept == ASSUME Shape, Route, Queues, [Next]_vars PROVE Queues'
<1> USE DEF Shape, Counters, Flags, Memory, Lists, Route, V4L2Places, V4L1Places, V4L2, Ended, Queues, progVars, drvVars, history
<1>1. CASE Open
  BY <1>1 DEF Open, Fails
<1>2. CASE Setup
  BY <1>2 DEF Setup, Succeeds, Fails
<1>3. CASE RequestBuffers
  BY <1>3 DEF RequestBuffers, Succeeds, Fails
<1>4. CASE MapBuffer
  BY <1>4 DEF MapBuffer, Fails, BufferAt
<1>5. CASE QueueBuffer
  <2>1. /\ pc = "queue" /\ pc' = pc /\ counter' = counter + 1 /\ counter \in Nat /\ done = << >>
        /\ UNCHANGED << done, exists, streaming, prog >>
    BY <1>5 DEF QueueBuffer, Counters
  <2>2. CASE queued' = queued
    BY <2>1, <2>2, BufferFacts
  <2>3. CASE counter \in exists /\ queued' = Append(queued, counter)
    <3>1. counter \in Buffers /\ ~In(counter, queued)
      BY <2>1, <2>3
    <3> QED BY <2>1, <2>3, <3>1, AppendOnce, NoneIn, BufferFacts
  <2> QED BY <1>5, <2>2, <2>3 DEF QueueBuffer
<1>6. CASE LoopEnds
  BY <1>6 DEF LoopEnds
<1>7. CASE StreamOn
  BY <1>7 DEF StreamOn, Fails
<1>8. CASE Select
  BY <1>8 DEF Select, Readable, Timeout, Fails
<1>9. CASE Dequeue
  <2>1. /\ pc = "dequeue" /\ pc' \in {"write", "abort"} /\ V4L2
        /\ UNCHANGED << queued, exists, streaming, prog >>
        /\ (done # << >> /\ done' = Tail(done)) \/ UNCHANGED done
    BY <1>9 DEF Dequeue
  <2>2. CASE UNCHANGED done
    BY <2>1, <2>2
  <2>3. CASE done # << >> /\ done' = Tail(done)
    <3>1. Once(done') /\ \A b \in Buffers : In(b, done') => In(b, done)
      BY <2>3, TailOnce
    <3> QED BY <2>1, <2>3, <3>1
  <2> QED BY <2>1, <2>2, <2>3
<1>10. CASE Requeue
  <2>1. /\ pc' = "unmap" /\ V4L2 /\ UNCHANGED << done, exists, streaming, prog >>
    BY <1>10 DEF Requeue
  <2>2. CASE queued' = queued
    BY <2>1, <2>2
  <2>3. CASE index \in exists \ Owned /\ queued' = Append(queued, index)
    <3>1. index \in Buffers /\ ~In(index, queued) /\ ~In(index, done)
      BY <2>3, ToSetIsIn DEF Owned
    <3> QED BY <2>1, <2>3, <3>1, AppendOnce
  <2> QED BY <1>10, <2>2, <2>3 DEF Requeue
<1>11. CASE StreamOff
  <2>1. pc' = "exit" /\ queued' = << >> /\ done' = << >> /\ UNCHANGED << prog, exists >>
    BY <1>11 DEF StreamOff
  <2> QED BY <2>1, NoneIn
<1>12. CASE Map
  BY <1>12 DEF Map, Succeeds, Fails
<1>13. CASE Capture
  <2>1. /\ pc = "capture" /\ pc' \in {"scan", "sync", "failure"} /\ queued = << >> /\ done = << >>
        /\ UNCHANGED << done, exists, prog >> /\ ~V4L2
    BY <1>13 DEF Capture
  <2>2. CASE queued' = queued
    BY <2>1, <2>2, NoneIn
  <2>3. CASE index \in exists /\ queued' = Append(queued, index)
    <3>1. index \in Buffers /\ Once(queued) /\ ~In(index, queued) /\ queued \in Seq(Buffers)
      BY <2>1, <2>3, NoneIn
    <3>2. Once(queued') /\ Len(queued') = Len(queued) + 1
      BY <2>3, <3>1, AppendOnce
    <3>3. Len(queued) = 0 /\ Len(done) = 0
      BY <2>1
    <3>4. \A b \in Buffers : In(b, queued') <=> b = index
      BY <2>1, <2>3, <3>1, AppendOnce, NoneIn
    <3>5. Once(done') /\ \A b \in Buffers : ~In(b, done')
      BY <2>1, NoneIn
    <3> QED BY <2>1, <2>3, <3>2, <3>3, <3>4, <3>5
  <2> QED BY <1>13, <2>2, <2>3 DEF Capture
<1>14. CASE Sync
  <2>1. /\ pc = "sync" /\ pc' \in {"fopen", "unmap", "sync", "exit"}
        /\ UNCHANGED << queued, exists, streaming, prog >>
        /\ (index \in ToSet(done) /\ done' = Tail(done)) \/ UNCHANGED done
    BY <1>14 DEF Sync
  <2>2. CASE UNCHANGED done
    BY <2>1, <2>2
  <2>3. CASE index \in ToSet(done) /\ done' = Tail(done)
    <3>1. done # << >>
      BY <2>3, ToSetIsIn, NoneIn
    <3>2. /\ Once(done') /\ Len(done') = Len(done) - 1
          /\ \A b \in Buffers : In(b, done') => In(b, done)
      BY <2>3, <3>1, TailOnce
    <3>3. Len(done) \in Nat /\ Len(queued) \in Nat
      OBVIOUS
    <3> QED BY <2>1, <3>2, <3>3
  <2> QED BY <2>1, <2>2, <2>3
<1>15. CASE Scan
  BY <1>15 DEF Scan, Fails
<1>16. CASE Fopen \/ WriteNowhere
  BY <1>16 DEF Fopen, WriteNowhere, Fails
<1>17. CASE Write
  BY <1>17 DEF Write, Source, AfterWrite
<1>18. CASE Unmap
  BY <1>18 DEF Unmap
<1>19. CASE Fill
  <2>1. /\ UNCHANGED << pc, exists, streaming, prog, counter >> /\ queued # << >> /\ streaming
    BY <1>19 DEF Fill, progVars
  <2>2. CASE UNCHANGED << queued, done >>
    BY <2>1, <2>2
  <2>3. CASE queued' = Tail(queued) /\ done' = Append(done, Head(queued))
    <3>1. /\ Head(queued) \in Buffers /\ In(Head(queued), queued) /\ Tail(queued) \in Seq(Buffers)
          /\ Len(done') = Len(done) + 1 /\ Len(queued') = Len(queued) - 1
          /\ Len(done) \in Nat /\ Len(queued) \in Nat
      BY <2>1, <2>3, TailOnce, AppendOnce
    <3>2. Once(queued') /\ Once(done')
      BY <2>1, <2>3, <3>1, TailOnce, AppendOnce
    <3>3. ASSUME NEW b \in Buffers
          PROVE  /\ In(b, queued') => In(b, queued) /\ b # Head(queued)
                 /\ In(b, done') => In(b, done) \/ b = Head(queued)
      BY <2>1, <2>3, <3>1, TailOnce, AppendOnce
    <3> QED BY <2>1, <3>1, <3>2, <3>3
  <2> QED BY <1>19, <2>2, <2>3 DEF Fill
<1>20. CASE UNCHANGED vars
  BY <1>20 DEF vars
<1> QED BY <1>1, <1>2, <1>3, <1>4, <1>5, <1>6, <1>7, <1>8, <1>9, <1>10, <1>11, <1>12, <1>13, <1>14, <1>15, <1>16, <1>17, <1>18, <1>19, <1>20 DEF Next, Program

\* What the driver hands over is whole, and the program copies that buffer
\* while the driver does not have it.
LEMMA PicturesKept == ASSUME Shape, Route, Queues, Pictures, [Next]_vars PROVE Pictures'
<1> USE DEF Shape, Counters, Flags, Memory, Lists, Route, V4L2Places, V4L1Places, V4L2, Ended, Queues, Pictures, WholeFrame, progVars, drvVars, history
<1>1. CASE Open
  BY <1>1 DEF Open, Fails
<1>2. CASE Setup
  BY <1>2 DEF Setup, Succeeds, Fails
<1>3. CASE RequestBuffers
  BY <1>3 DEF RequestBuffers, Succeeds, Fails
<1>4. CASE MapBuffer
  BY <1>4 DEF MapBuffer, Fails, BufferAt
<1>5. CASE QueueBuffer
  <2>1. /\ pc = "queue" /\ pc' = pc /\ UNCHANGED << done, content, filling, frame, taken, file >>
        /\ (counter \in exists /\ queued' = Append(queued, counter)) \/ UNCHANGED queued
    BY <1>5 DEF QueueBuffer
  <2>2. filling => queued' # << >> /\ Head(queued') = Head(queued)
    <3>1. queued \in Seq(Buffers) /\ (filling => queued # << >>) /\ (counter \in exists => counter \in Buffers)
      OBVIOUS
    <3> QED BY ONLY <2>1, <3>1, AppendOnce
  <2> QED BY <2>1, <2>2
<1>6. CASE LoopEnds
  BY <1>6 DEF LoopEnds
<1>7. CASE StreamOn
  BY <1>7 DEF StreamOn, Fails
<1>8. CASE Select
  BY <1>8 DEF Select, Readable, Timeout, Fails
<1>9. CASE Dequeue
  <2>1. /\ pc = "dequeue" /\ pc' \in {"write", "abort"} /\ file = << >> /\ ~taken
        /\ UNCHANGED << queued, content, filling, frame, file >>
        /\ \/ done # << >> /\ done' = Tail(done) /\ index' = Head(done) /\ taken'
           \/ UNCHANGED << done, taken >>
    BY <1>9 DEF Dequeue
  <2>2. CASE UNCHANGED << done, taken >>
    BY <2>1, <2>2
  <2>3. CASE done # << >> /\ done' = Tail(done) /\ index' = Head(done) /\ taken'
    <3>1. /\ index' \in Buffers /\ In(index', done) /\ ~In(index', done')
          /\ \A b \in Buffers : In(b, done') => In(b, done)
      BY <2>3, TailOnce
    <3>2. ~In(index', queued')
      BY <2>1, <3>1
    <3> QED BY <2>1, <2>3, <3>1, <3>2
  <2> QED BY <2>1, <2>2, <2>3
<1>10. CASE Requeue
  <2>1. /\ pc' = "unmap" /\ UNCHANGED << done, content, filling, frame, taken, file >>
        /\ (index \in exists /\ queued' = Append(queued, index)) \/ UNCHANGED queued
    BY <1>10 DEF Requeue, progVars
  <2>2. filling => queued' # << >> /\ Head(queued') = Head(queued)
    <3>1. queued \in Seq(Buffers) /\ (filling => queued # << >>) /\ (index \in exists => index \in Buffers)
      OBVIOUS
    <3> QED BY ONLY <2>1, <3>1, AppendOnce
  <2>3. pc = "requeue"
    BY <1>10 DEF Requeue
  <2> QED BY <2>1, <2>2, <2>3
<1>11. CASE StreamOff
  <2>1. /\ pc = "unmap" /\ pc' = "exit" /\ done' = << >> /\ ~filling' /\ UNCHANGED << taken, file >>
    BY <1>11 DEF StreamOff
  <2> QED BY <2>1, NoneIn
<1>12. CASE Map
  BY <1>12 DEF Map, Succeeds, Fails
<1>13. CASE Capture
  <2>1. /\ pc = "capture" /\ pc' \in {"scan", "sync", "failure"} /\ queued = << >>
        /\ UNCHANGED << done, content, filling, frame, taken, file >>
    BY <1>13 DEF Capture, progVars
  <2> QED BY <2>1
<1>14. CASE Sync
  <2>1. /\ pc = "sync" /\ pc' \in {"fopen", "unmap", "sync", "exit"} /\ file = << >> /\ ~taken
        /\ UNCHANGED << queued, content, filling, frame, file, index >>
        /\ \/ index \in ToSet(done) /\ done' = Tail(done) /\ taken' /\ pc' \in {"fopen", "unmap"}
           \/ UNCHANGED << done, taken >>
    BY <1>14 DEF Sync
  <2>2. CASE UNCHANGED << done, taken >>
    BY <2>1, <2>2
  <2>3. CASE index \in ToSet(done) /\ done' = Tail(done) /\ taken' /\ pc' \in {"fopen", "unmap"}
    <3>1. In(index, done) /\ done # << >>
      BY <2>3, ToSetIsIn, NoneIn
    <3>2. /\ Len(Tail(done)) = Len(done) - 1 /\ Tail(done) \in Seq(Buffers)
          /\ Len(queued) \in Nat /\ Len(Tail(done)) \in Nat
      <4>1. queued \in Seq(Buffers) /\ done \in Seq(Buffers)
        OBVIOUS
      <4> QED BY ONLY <3>1, <4>1, TailOnce
    <3>3. Len(queued) + Len(done) <= 1 /\ Len(done) \in Nat
      BY <2>1
    <3>4. Len(queued) = 0 /\ Len(Tail(done)) = 0
      BY <3>2, <3>3
    <3>5. queued = << >> /\ Tail(done) = << >>
      BY <3>2, <3>4, EmptySeq
    <3>6. index \in Buffers /\ WholeFrame(index)
      BY <3>1 DEF In
    <3>7. \A b : ~In(b, queued') /\ ~In(b, done')
      BY <2>1, <2>3, <3>5, NoneIn
    <3>8. WholeFrame(index)' /\ index' \in Buffers
      BY <2>1, <3>6
    <3> QED BY ONLY <2>1, <2>3, <3>7, <3>8, Pictures, Len(<< >>) = 0 DEF Pictures
  <2> QED BY <2>1, <2>2, <2>3
<1>15. CASE Scan
  BY <1>15 DEF Scan, Fails
<1>16. CASE Fopen \/ WriteNowhere
  <2>1. CASE Fopen
    BY <2>1 DEF Fopen
  <2>2. CASE WriteNowhere
    <3>1. /\ pc = "write" /\ pc' = "crash" /\ file = << >>
          /\ UNCHANGED << queued, done, content, filling, frame, taken, index, file >>
      BY <2>2 DEF WriteNowhere
    <3>2. Len(file') = 0
      BY ONLY <3>1
    <3> QED BY ONLY <3>1, <3>2, Pictures DEF Pictures, In, WholeFrame
  <2> QED BY <1>16, <2>1, <2>2
<1>17. CASE Write
  <2>1. /\ pc = "write" /\ pc' \in {"write", "requeue", "unmap", "crash"} /\ Len(file) < 2
        /\ UNCHANGED << queued, done, content, filling, frame, taken, index >>
    BY <1>17 DEF Write, AfterWrite
  <2>2. CASE Source \in mapped
    <3>1. Len(file) \in {0, 1} /\ index \in Buffers
      <4>1. file \in Seq(Nat)
        OBVIOUS
      <4>2. Len(file) \in Nat
        BY ONLY <4>1
      <4>3. index \in Buffers
        BY <2>2 DEF Source
      <4>4. Len(file) < 2
        BY <2>1
      <4>5. Len(file) = 0 \/ Len(file) = 1
        BY ONLY <4>2, <4>4
      <4> QED BY ONLY <4>3, <4>5
    <3>2. /\ file' = Append(file, content[index][Len(file) + 1])
          /\ pc' = "write" => Len(file') # 2
      BY <1>17, <2>2 DEF Write, AfterWrite, Source
    <3>3. content[index][Len(file) + 1] \in Nat
      <4>1. content[index] \in [{1, 2} -> Nat]
        BY <3>1
      <4>2. content[index][1] \in Nat /\ content[index][2] \in Nat
        BY ONLY <4>1
      <4>3. CASE Len(file) = 0
        BY ONLY <4>2, <4>3
      <4>4. CASE Len(file) = 1
        BY ONLY <4>2, <4>4
      <4> QED BY ONLY <3>1, <4>3, <4>4
    <3>4. /\ Len(file') = Len(file) + 1 /\ file'[Len(file) + 1] = content[index][Len(file) + 1]
          /\ \A k \in 1 .. Len(file) : file'[k] = file[k]
      BY <3>2, <3>3, AppendProperties
    <3>5. ASSUME taken
          PROVE  \A k \in 1 .. Len(file') : file'[k] = content[index][k]
      <4>1. \A k \in 1 .. Len(file) : file[k] = content[index][k]
        BY <2>1, <3>5
      <4>2. ASSUME NEW k \in 1 .. Len(file')
            PROVE  k \in 1 .. Len(file) \/ k = Len(file) + 1
        BY ONLY <3>1, <3>4
      <4> QED BY ONLY <3>4, <4>1, <4>2
    <3>6. ASSUME taken, Len(file') = 2
          PROVE  file'[1] = file'[2] /\ file'[1] > 0
      BY <2>1, <3>5, <3>6
    <3>7. pc' = "write" => Len(file') < 2
      BY <3>1, <3>2, <3>4
    <3>8. UNCHANGED << queued, done, content, filling, frame, taken, index >>
      BY <2>1
    <3>9. taken /\ pc = "write" => WholeFrame(index) /\ ~In(index, queued) /\ ~In(index, done)
      OBVIOUS
    <3> QED BY <2>1, <3>1, <3>5, <3>6, <3>7
  <2>3. CASE Source \notin mapped
    BY <1>17, <2>1, <2>3 DEF Write, AfterWrite
  <2> QED BY <2>2, <2>3
<1>18. CASE Unmap
  BY <1>18 DEF Unmap
<1>19. CASE Fill
  <2> DEFINE b == Head(queued)
  <2>1. /\ UNCHANGED << pc, progVars, taken >> /\ queued # << >> /\ streaming
    BY <1>19 DEF Fill
  <2>2. b \in Buffers /\ In(b, queued) /\ ~In(b, done) /\ Tail(queued) \in Seq(Buffers)
    BY <2>1, TailOnce
  <2>3. taken /\ pc \in {"write", "fopen"} => b # index
    BY <2>2
  <2>4. \A c \in Buffers : c # b => content'[c] = content[c]
    BY <1>19, <2>2 DEF Fill
  <2>5. CASE /\ frame' = frame + 1 /\ content' = [content EXCEPT ![b][1] = frame + 1]
             /\ filling' /\ UNCHANGED << queued, done >>
    <3>1. content'[b][1] = frame + 1
      BY <2>2, <2>5
    <3>2. \A c \in Buffers : In(c, done') => content'[c] = content[c]
      BY <2>2, <2>4, <2>5
    <3> QED BY <2>1, <2>3, <2>4, <2>5, <3>1, <3>2
  <2>6. CASE /\ filling /\ ~filling' /\ content' = [content EXCEPT ![b][2] = frame]
             /\ queued' = Tail(queued) /\ done' = Append(done, b) /\ UNCHANGED frame
    <3>1. content'[b][1] = frame /\ content'[b][2] = frame /\ frame > 0
      BY <2>2, <2>6
    <3>2. ASSUME NEW c \in Buffers
          PROVE  /\ In(c, done') => WholeFrame(c)'
                 /\ In(c, queued') => In(c, queued)
                 /\ In(c, done') => In(c, done) \/ c = b
      <4>1. In(c, done') => In(c, done) \/ c = b
        BY <2>2, <2>6, AppendOnce
      <4>2. In(c, queued') => In(c, queued)
        BY <2>1, <2>6, TailOnce
      <4> QED BY <2>4, <3>1, <4>1, <4>2
    <3> QED BY <2>1, <2>3, <2>4, <2>6, <3>2
  <2> QED BY <1>19, <2>5, <2>6 DEF Fill
<1>20. CASE UNCHANGED vars
  BY <1>20 DEF vars
<1> QED BY <1>1, <1>2, <1>3, <1>4, <1>5, <1>6, <1>7, <1>8, <1>9, <1>10, <1>11, <1>12, <1>13, <1>14, <1>15, <1>16, <1>17, <1>18, <1>19, <1>20 DEF Next, Program

\* Without a failed call all buffers are mapped when one is written.
LEMMA SuccessKept == ASSUME Shape, Route, Queues, Success, Pictures, [Next]_vars PROVE Success'
<1> USE DEF Shape, Counters, Flags, Memory, Lists, Route, V4L2Places, V4L1Places, V4L2, Ended, Success, progVars, drvVars, history
<1>1. CASE Open
  BY <1>1 DEF Open, Fails
<1>2. CASE Setup
  BY <1>2 DEF Setup, Succeeds, Fails
<1>3. CASE RequestBuffers
  BY <1>3 DEF RequestBuffers, Succeeds, Fails
<1>4. CASE MapBuffer
  <2>1. /\ pc = "query" /\ pc' = pc /\ counter < n_buffers /\ counter' = counter + 1 /\ UNCHANGED << prog, n_buffers, index, exists, file >>
        /\ (mapped' = mapped \cup {counter} /\ failed' = failed) \/ failed'
    BY <1>4 DEF MapBuffer, Fails, BufferAt
  <2>2. ASSUME ~failed', V4L2
        PROVE  exists' = 0 .. n_buffers' - 1 /\ mapped' = 0 .. counter' - 1 /\ counter' <= n_buffers'
    <3>1. exists = 0 .. n_buffers - 1 /\ mapped = 0 .. counter - 1 /\ mapped' = mapped \cup {counter}
      BY <2>1, <2>2
    <3>2. counter \in Nat /\ n_buffers \in Nat
      OBVIOUS
    <3> QED BY ONLY <2>1, <3>1, <3>2
  <2> QED BY <2>1, <2>2
<1>5. CASE QueueBuffer
  BY <1>5 DEF QueueBuffer, Fails
<1>6. CASE LoopEnds
  BY <1>6 DEF LoopEnds
<1>7. CASE StreamOn
  BY <1>7 DEF StreamOn, Fails
<1>8. CASE Select
  BY <1>8 DEF Select, Readable, Timeout, Fails
<1>9. CASE Dequeue
  <2>1. /\ pc = "dequeue" /\ pc' \in {"write", "abort"} /\ V4L2 /\ UNCHANGED << prog, mapped, exists >>
        /\ (done # << >> /\ index' = Head(done) /\ failed' = failed) \/ failed'
    BY <1>9 DEF Dequeue, Fails
  <2>2. done # << >> => Head(done) \in exists
    BY TailOnce DEF Queues
  <2> QED BY <2>1, <2>2
<1>10. CASE Requeue
  BY <1>10 DEF Requeue, Fails, Owned, ToSet
<1>11. CASE StreamOff
  <2>1. pc = "unmap" /\ V4L2 /\ pc' = "exit" /\ UNCHANGED << prog, file >>
    BY <1>11 DEF StreamOff
  <2>2. ~failed' => ~failed
    BY <1>11, Zenon DEF StreamOff
  <2> QED BY <2>1, <2>2
<1>12. CASE Map
  BY <1>12 DEF Map, Succeeds, Fails
<1>13. CASE Capture
  <2>1. /\ pc = "capture" /\ ~V4L2 /\ UNCHANGED << prog, mapped, exists, index, tries >>
        /\ ~failed' => ~failed
        /\ ~failed' /\ prog = "camera6" => pc' = "sync" /\ index \in exists
    BY <1>13 DEF Capture, Fails, progVars
  <2>2. tries < MaxTries
    BY <2>1, FrameGrabAssumption
  <2>3. pc' \in {"scan", "sync", "failure"}
    BY <1>13 DEF Capture
  <2> QED BY <2>1, <2>2, <2>3
<1>14. CASE Sync
  <2>1. pc = "sync" /\ ~V4L2 /\ UNCHANGED << prog, mapped, exists, index >>
    BY <1>14 DEF Sync
  <2>2. ~failed' => ~failed
    <3> USE DEF Sync, Fails
    <3> QED BY <1>14, Zenon
  <2>3. CASE prog # "camera6"
    BY <1>14, <2>1, <2>2, <2>3 DEF Sync
  <2>4. CASE prog = "camera6" /\ pc' = "fopen"
    BY <2>1, <2>2, <2>4
  <2>5. CASE prog = "camera6" /\ pc' # "fopen"
    <3>1. /\ failed' \/ (tries' = tries + 1 /\ failed' = (failed \/ tries' = MaxTries))
          /\ failed' \/ pc' = IF tries' < MaxTries THEN "sync" ELSE "exit"
      BY <1>14, <2>5 DEF Sync, Fails
    <3>2. ~failed' => tries' = tries + 1 /\ tries' # MaxTries
      BY <3>1, Zenon
    <3>3. ~failed' => tries < MaxTries
      BY <2>1, <2>2, <2>5
    <3>4. ~failed' => tries' < MaxTries /\ pc' = "sync"
      <4>1. tries \in Nat /\ MaxTries \in Nat
        BY FrameGrabAssumption
      <4> QED BY ONLY <3>1, <3>2, <3>3, <4>1
    <3>5. pc' \in {"sync", "exit"}
      BY <1>14, <2>5 DEF Sync
    <3>6. ~failed' /\ prog = "camera6" => pc' = "sync" /\ mapped = exists /\ index \in exists /\ tries' < MaxTries
      BY <2>1, <2>2, <3>4
    <3> QED BY <2>1, <2>5, <3>5, <3>6
  <2> QED BY <2>3, <2>4, <2>5
<1>15. CASE Scan
  <2>1. prog = "camera3" /\ pc' \in {"crash", "fopen", "failure"} /\ UNCHANGED prog
    BY <1>15 DEF Scan, progVars
  <2> QED BY <2>1
<1>16. CASE Fopen \/ WriteNowhere
  BY <1>16 DEF Fopen, WriteNowhere, Fails
<1>17. CASE Write
  BY <1>17 DEF Write, Source, AfterWrite
<1>18. CASE Unmap
  BY <1>18 DEF Unmap
<1>19. CASE Fill
  BY <1>19 DEF Fill
<1>20. CASE UNCHANGED vars
  BY <1>20 DEF vars
<1> QED BY <1>1, <1>2, <1>3, <1>4, <1>5, <1>6, <1>7, <1>8, <1>9, <1>10, <1>11, <1>12, <1>13, <1>14, <1>15, <1>16, <1>17, <1>18, <1>19, <1>20 DEF Next, Program

\* The inductive invariant holds at first.
LEMMA IInvInit == Init => IInv
<1> SUFFICES ASSUME Init PROVE IInv
  OBVIOUS
<1>1. Counters /\ Flags
  BY FrameGrabAssumption DEF Init, Counters, Flags
<1>5. Lists
  BY EmptySeq DEF Init, Lists
<1>3. << 0, 0 >> \in [{1, 2} -> Nat]
  OBVIOUS
<1>4. Memory
  BY <1>3 DEF Init, Memory
<1>2. Route /\ Queues /\ Pictures /\ Success
  BY NoneIn DEF Init, Route, Queues, Pictures, Success, V4L2Places, V4L1Places, V4L2, Ended
<1> QED BY <1>1, <1>2, <1>4, <1>5 DEF IInv, Shape

(* A buffer that was handed over goes whole into the file: both halves are *)
(* of the same frame, whatever the driver does between the steps of the    *)
(* program; and a program that ends with no failed call has written one    *)
(* (read_frame, main of 6_camera_test.c), for any number of buffers,       *)
(* frames and retries.                                                     *)
THEOREM PicturesWhole == Spec => []PictureIsWhole
<1>1. IInv /\ [Next]_vars => IInv'
  BY CountersKept, FlagsKept, MemoryKept, ListsKept, RouteKept, QueuesKept, PicturesKept, SuccessKept DEF IInv, Shape
<1>2. IInv => PictureIsWhole
  BY DEF IInv, Shape, Flags, Lists, Pictures, Success, PictureIsWhole, V4L2
<1> QED BY IInvInit, <1>1, <1>2, PTL DEF Spec

(***************************************************************************)
(* ConfigFile, for any names, values and files and any number of calls and *)
(* stops.                                                                  *)
(***************************************************************************)
\* Which call is at which step.
Steps ==
  /\ cpc \in {"idle", "remove", "rename", "create", "write"}
  /\ cpc = "idle" => op.do = "none"
  /\ cpc = "remove" => Uncopied
  /\ cpc = "rename" => ~Uncopied

\* Where the settings of the last complete write are, unless a call that keeps
\* no copy lost them: in the file, which a call with a copy has yet to move, or
\* in that copy.
Kept ==
  ~hurt /\ ~Bare =>
    \/ conf = full /\ (cpc \in {"idle", "remove", "rename"} \/ Uncopied)
    \/ saved = full /\ conf \in {Missing, Empty} /\ cpc # "rename"

\* A file that is gone or empty has no account, so that set_wifi leaves it.
LEMMA EmptyHasNoAccount == ~AccountMatches(Empty)
<1>1. {i \in DOMAIN Empty.lines : Empty.lines[i].name \in DOMAIN OldAccount} = {}
  <2>1. Empty.lines = << >>
    BY DEF Empty, Content
  <2>2. DOMAIN Empty.lines = {}
    BY <2>1
  <2> QED BY <2>2
<1>2. Cardinality({}) = 0
  BY FS_EmptySet
<1>3. ASSUME AccountMatches(Empty) PROVE FALSE
  <2>1. Cardinality({i \in DOMAIN Empty.lines : Empty.lines[i].name \in DOMAIN OldAccount}) = 2
    BY <1>3 DEF AccountMatches
  <2>2. Cardinality({}) = 2
    BY <1>1, <2>1
  <2> QED BY <1>2, <2>2
<1> QED BY <1>3

(* set_wifi loses no settings (project/camera.c): what the last complete   *)
(* call wrote is the file or its saved copy, wherever the program stops    *)
(* and whatever cannot be created or written, unless the rename failed.    *)
THEOREM WifiLosesNothing == ConfigSpec => []WifiSurvives
<1>1. ConfigInit => Steps /\ Kept
  BY DEF ConfigInit, Steps, Kept, NoOp, Uncopied, Bare
<1>2. ASSUME Steps, Kept, [ConfigNext]_confVars PROVE Steps' /\ Kept'
  <2>1. CASE UNCHANGED confVars
    BY <1>2, <2>1 DEF confVars, Steps, Kept, Uncopied, Bare
  <2>2. ASSUME NEW name \in Names, ReadConfig(name) PROVE Steps' /\ Kept'
    BY <1>2, <2>2 DEF ReadConfig, ConfigIdle, Steps, Kept, Uncopied, Bare
  <2>3. ASSUME NEW name \in Names, DeleteConfig(name) PROVE Steps' /\ Kept'
    BY <1>2, <2>3 DEF DeleteConfig, Counted, ConfigIdle, Call, Steps, Kept, Uncopied, Bare
  <2>4. ASSUME NEW name \in Names, NEW value \in Values, AddOrAltConfig(name, value) PROVE Steps' /\ Kept'
    <3>1. /\ cpc = "idle" /\ cpc' = "remove" /\ op'.do = "alter"
          /\ UNCHANGED << conf, saved, full, hurt >>
      BY <2>4 DEF AddOrAltConfig, Counted, ConfigIdle, Call
    <3> QED BY <1>2, <3>1 DEF Steps, Kept, Uncopied, Bare
  <2>5. CASE SetWifi
    <3>1. /\ cpc = "idle" /\ cpc' = "rename" /\ op'.do = "wifi" /\ conf # Missing /\ conf # Empty
          /\ UNCHANGED << conf, saved, full, hurt >>
      BY <2>5, EmptyHasNoAccount DEF SetWifi, Counted, ConfigIdle, Call, FirstOfWifi
    <3> QED BY <1>2, <3>1 DEF Steps, Kept, Uncopied, Bare
  <2>6. CASE Declined \/ WifiCrash
    BY <1>2, <2>6 DEF Declined, WifiCrash, Counted, ConfigIdle, Steps, Kept, Uncopied, Bare
  <2>7. CASE RemoveFile \/ Rename
    BY <1>2, <2>7 DEF RemoveFile, Rename, Steps, Kept, Uncopied, Bare
  <2>8. CASE Create
    <3>1. CASE conf' = Empty /\ cpc' = "write" /\ UNCHANGED << op, sum_buf, view, hurt >>
      BY <1>2, <2>8, <3>1 DEF Create, Steps, Kept, Uncopied, Bare
    <3>2. CASE Ends(conf) /\ hurt' = (hurt \/ Bare)
      BY <1>2, <2>8, <3>2 DEF Create, Ends, NoOp, Steps, Kept, Uncopied, Bare
    <3> QED BY <2>8, <3>1, <3>2 DEF Create
  <2>9. CASE Put
    BY <2>9 DEF Put, Ends, NoOp, Steps, Kept, Uncopied, Bare
  <2>10. CASE PutFails \/ Stop
    <3>1. /\ cpc' = "idle" /\ op'.do = "none" /\ UNCHANGED << conf, saved, full >>
          /\ cpc # "idle" /\ hurt' = (hurt \/ Bare)
      BY <2>10 DEF PutFails, Stop, Ends, NoOp
    <3> QED BY <1>2, <3>1 DEF Steps, Kept, Uncopied, Bare
  <2> QED BY <1>2, <2>1, <2>2, <2>3, <2>4, <2>5, <2>6, <2>7, <2>8, <2>9, <2>10 DEF ConfigNext
<1>3. Kept => WifiSurvives
  BY DEF Kept, WifiSurvives
<1> QED BY <1>1, <1>2, <1>3, PTL DEF ConfigSpec

(***************************************************************************)
(* What a reader of the file finds.  A nonempty set of numbers has a least *)
(* one, so a name that has a line has a first one.                         *)
(***************************************************************************)
LEMMA LeastExists ==
  ASSUME NEW S \in SUBSET Nat, S # {}
  PROVE  \E m \in S : \A y \in S : m <= y
<1>1. IsWellFoundedOn(OpToRel(<, Nat), Nat)
  BY NatLessThanWellFounded
<1>2. PICK m \in S : \A y \in S : ~ (<< y, m >> \in OpToRel(<, Nat))
  BY <1>1, WFMin
<1>3. ASSUME NEW y \in S PROVE m <= y
  <2>1. ~ (y < m)
    BY <1>2 DEF OpToRel
  <2> QED BY <2>1
<1> QED BY <1>3

\* Induction over the numbers up to n, about a set.
LEMMA UpTo ==
  ASSUME NEW n \in Nat, NEW S, 0 \in S, \A k \in 0 .. n - 1 : k \in S => k + 1 \in S
  PROVE  0 .. n \subseteq S
<1> DEFINE T == (0 .. n) \ S
<1>1. SUFFICES ASSUME T # {} PROVE FALSE
  OBVIOUS
<1>2. PICK m \in T : \A y \in T : m <= y
  <2>1. T \in SUBSET Nat
    OBVIOUS
  <2> HIDE DEF T
  <2> QED BY <1>1, <2>1, LeastExists
<1>3. m # 0 /\ m - 1 \in 0 .. n - 1 /\ ~ (m <= m - 1)
  OBVIOUS
<1>4. m - 1 \in S
  BY <1>2, <1>3
<1>5. (m - 1) + 1 \in S
  BY <1>3, <1>4
<1> QED BY <1>3, <1>5

\* Min is the least number.
LEMMA MinIs ==
  ASSUME NEW S \in SUBSET Nat, NEW m \in S, \A y \in S : m <= y
  PROVE  Min(S) = m
<1> DEFINE least == CHOOSE x \in S : \A y \in S : x <= y
<1>1. least \in S /\ \A y \in S : least <= y
  OBVIOUS
<1>2. Min(S) = least
  BY DEF Min
<1> HIDE DEF least
<1> QED BY <1>1, <1>2

\* The characters and lines of a file, and the first line of a name.
Written == UNION {ToSet(value) : value \in Values}
Char == Written \cup {"SSID", "AUTH_KEY", "=", "S", "K"}
Line == [name : {"", "missing", "SSID", "AUTH_KEY"}, value : Seq(Char)]
FirstAt(lines, name, i) ==
  i \in 1 .. Len(lines) /\ lines[i].name = name /\ \A j \in 1 .. i - 1 : lines[j].name # name
NoneOf(lines, name) == \A i \in 1 .. Len(lines) : lines[i].name # name

\* The setting is the value of the first line of that name.
LEMMA SettingIs ==
  ASSUME NEW text, text.lines \in Seq(Line), NEW name
  PROVE  /\ NoneOf(text.lines, name) \/ \E i : FirstAt(text.lines, name, i)
         /\ NoneOf(text.lines, name) => Setting(text, name) = None
         /\ \A i : FirstAt(text.lines, name, i) => Setting(text, name) = text.lines[i].value
<1> DEFINE lines == text.lines
           S == Matches(text, name)
<1>1. Len(lines) \in Nat /\ DOMAIN lines = 1 .. Len(lines)
  OBVIOUS
<1>2. S = {i \in 1 .. Len(lines) : lines[i].name = name} /\ S \in SUBSET Nat
  BY <1>1 DEF Matches
<1>3. NoneOf(lines, name) => Setting(text, name) = None
  BY <1>2 DEF NoneOf, Setting
<1>4. ASSUME NEW i, FirstAt(lines, name, i) PROVE Setting(text, name) = lines[i].value
  <2>1. i \in S
    BY <1>2, <1>4 DEF FirstAt
  <2>2. ASSUME NEW y \in S PROVE i <= y
    <3>1. y \in 1 .. Len(lines) /\ lines[y].name = name /\ i \in 1 .. Len(lines)
      BY <1>2, <1>4 DEF FirstAt
    <3>2. ~ (y \in 1 .. i - 1)
      BY <1>4, <3>1 DEF FirstAt
    <3> QED BY <1>1, <3>1, <3>2
  <2>3. Min(S) = i
    <3> HIDE DEF S
    <3> QED BY <1>2, <2>1, <2>2, MinIs
  <2> QED BY <2>1, <2>3 DEF Setting
<1>5. ASSUME ~ NoneOf(lines, name) PROVE \E i : FirstAt(lines, name, i)
  <2>1. S # {}
    BY <1>2, <1>5 DEF NoneOf
  <2>2. PICK i \in S : \A y \in S : i <= y
    <3> HIDE DEF S
    <3> QED BY <1>2, <2>1, LeastExists
  <2>3. ASSUME NEW j \in 1 .. i - 1 PROVE lines[j].name # name
    <3>1. i \in 1 .. Len(lines)
      BY <1>2
    <3>2. j \in 1 .. Len(lines) /\ ~ (i <= j)
      BY <1>1, <3>1
    <3> QED BY <1>2, <2>2, <3>2
  <2> QED BY <1>2, <2>3 DEF FirstAt
<1> QED BY <1>3, <1>4, <1>5

\* A setting is none, or a text.
LEMMA SettingType ==
  ASSUME NEW text, text.lines \in Seq(Line), NEW name
  PROVE  Setting(text, name) = None \/ Setting(text, name) \in Seq(Char)
<1>1. ASSUME NEW i, FirstAt(text.lines, name, i) PROVE text.lines[i].value \in Seq(Char)
  <2>1. i \in 1 .. Len(text.lines)
    BY <1>1 DEF FirstAt
  <2>2. text.lines[i] \in Line
    BY <2>1
  <2> QED BY <2>2 DEF Line
<1> QED BY <1>1, SettingIs

\* Where the first lines of a name have the same value, so has the setting.
LEMMA SameSetting ==
  ASSUME NEW c, NEW d, c.lines \in Seq(Line), d.lines \in Seq(Line), NEW name,
         NoneOf(c.lines, name) => NoneOf(d.lines, name),
         \A i : FirstAt(c.lines, name, i) =>
           \E j : FirstAt(d.lines, name, j) /\ d.lines[j].value = c.lines[i].value
  PROVE  Setting(d, name) = Setting(c, name)
<1>1. CASE NoneOf(c.lines, name)
  BY <1>1, SettingIs
<1>2. ASSUME NEW i, FirstAt(c.lines, name, i) PROVE Setting(d, name) = Setting(c, name)
  <2>1. PICK j : FirstAt(d.lines, name, j) /\ d.lines[j].value = c.lines[i].value
    BY <1>2
  <2> QED BY <1>2, <2>1, SettingIs
<1> QED BY <1>1, <1>2, SettingIs

(***************************************************************************)
(* What the functions make of the settings: each changes those it is       *)
(* called for, and no other.                                               *)
(***************************************************************************)
\* A text of one character.
LEMMA OneText == \A x \in Char : << x >> \in Seq(Char)
OBVIOUS

\* The values that lines are given are texts.
LEMMA ValuesAreTexts == Values \subseteq Seq(Char)
<1> SUFFICES ASSUME NEW value \in Values PROVE value \in Seq(Char)
  OBVIOUS
<1>1. value \in Seq(ToSet(value))
  BY ConfigAssumption
<1>2. ToSet(value) \subseteq Char
  BY DEF Char, Written
<1> QED BY <1>1, <1>2

\* A pair is a line, and the plain line is one.
LEMMA LinesAre ==
  /\ Plain \in Line
  /\ \A name \in {"SSID", "AUTH_KEY"}, value \in Seq(Char) :
       Pair(name, value) \in Line /\ Pair(name, value).name = name /\ Pair(name, value).value = value
<1>1. << >> \in Seq(Char)
  BY EmptySeq
<1>2. Plain \in Line
  BY <1>1 DEF Plain, Line
<1> QED BY <1>2 DEF Pair, Line

\* One line more, of a name that had none: AddOrAltConfig.
LEMMA AddedSetting ==
  ASSUME NEW text, text.lines \in Seq(Line), NEW name \in {"SSID", "AUTH_KEY"}, NEW value \in Seq(Char),
         Matches(text, name) = {}, text.ended \/ text.lines = << >>
  PROVE  /\ Added(text, name, value) \in Seq(Line)
         /\ \A c : c.lines = Added(text, name, value) =>
              /\ Setting(c, name) = value
              /\ \A o : o # name => Setting(c, o) = Setting(text, o)
<1> DEFINE lines == text.lines
           n == Len(lines)
           more == Append(lines, Pair(name, value))
<1>1. n \in Nat /\ (lines = << >> => n = 0)
  OBVIOUS
<1>2. Added(text, name, value) = more
  BY <1>1 DEF Added
<1>3. Pair(name, value) \in Line /\ Pair(name, value).name = name /\ Pair(name, value).value = value
  BY LinesAre
<1>4. /\ more \in Seq(Line) /\ Len(more) = n + 1 /\ more[n + 1] = Pair(name, value)
      /\ \A i \in 1 .. n : more[i] = lines[i]
  BY <1>3, AppendProperties
<1>5. NoneOf(lines, name)
  BY DEF NoneOf, Matches
<1> HIDE DEF more
<1> SUFFICES ASSUME NEW c, c.lines = more
             PROVE  Setting(c, name) = value /\ \A o : o # name => Setting(c, o) = Setting(text, o)
  BY <1>2, <1>4
<1>6. FirstAt(more, name, n + 1)
  <2>1. ASSUME NEW j \in 1 .. (n + 1) - 1 PROVE more[j].name # name
    <3>1. j \in 1 .. n
      BY <1>1
    <3> QED BY <1>4, <1>5, <3>1 DEF NoneOf
  <2>2. n + 1 \in 1 .. Len(more)
    BY <1>1, <1>4
  <2> QED BY <1>3, <1>4, <2>1, <2>2 DEF FirstAt
<1>7. Setting(c, name) = value
  BY <1>3, <1>4, <1>6, SettingIs
<1>8. ASSUME NEW o, o # name PROVE Setting(c, o) = Setting(text, o)
  <2>1. NoneOf(lines, o) => NoneOf(more, o)
    <3> SUFFICES ASSUME NoneOf(lines, o), NEW i \in 1 .. n + 1 PROVE more[i].name # o
      BY <1>4 DEF NoneOf
    <3>1. i \in 1 .. n \/ i = n + 1
      BY <1>1
    <3> QED BY <1>3, <1>4, <1>8, <3>1 DEF NoneOf
  <2>2. ASSUME NEW i, FirstAt(lines, o, i) PROVE FirstAt(more, o, i) /\ more[i].value = lines[i].value
    <3>1. i \in 1 .. n /\ lines[i].name = o /\ \A j \in 1 .. i - 1 : lines[j].name # o
      BY <2>2 DEF FirstAt
    <3>2. i \in 1 .. Len(more) /\ more[i] = lines[i]
      BY <1>1, <1>4, <3>1
    <3>3. ASSUME NEW j \in 1 .. i - 1 PROVE more[j].name # o
      <4>1. j \in 1 .. n
        BY <1>1, <3>1
      <4> QED BY <1>4, <3>1, <4>1
    <3> QED BY <3>1, <3>2, <3>3 DEF FirstAt
  <2>3. /\ c.lines \in Seq(Line) /\ (NoneOf(lines, o) => NoneOf(c.lines, o))
        /\ \A i : FirstAt(lines, o, i) => FirstAt(c.lines, o, i) /\ c.lines[i].value = lines[i].value
    BY <1>4, <2>1, <2>2
  <2> HIDE DEF lines
  <2>4. \A i : FirstAt(lines, o, i) => \E j : FirstAt(c.lines, o, j) /\ c.lines[j].value = lines[i].value
    BY <2>3
  <2> QED BY <2>3, <2>4, SameSetting DEF lines
<1> QED BY <1>7, <1>8

\* Other values in lines of the same names: AddOrAltConfig and set_wifi_config.
LEMMA ChangedSetting ==
  ASSUME NEW text, NEW c, text.lines \in Seq(Line), c.lines \in Seq(Line),
         Len(c.lines) = Len(text.lines),
         \A i \in 1 .. Len(text.lines) : c.lines[i].name = text.lines[i].name,
         NEW o
  PROVE  /\ NoneOf(text.lines, o) => Setting(c, o) = None
         /\ \A i : FirstAt(text.lines, o, i) => Setting(c, o) = c.lines[i].value
<1>1. NoneOf(text.lines, o) => NoneOf(c.lines, o)
  BY DEF NoneOf
<1>2. ASSUME NEW i, FirstAt(text.lines, o, i) PROVE FirstAt(c.lines, o, i)
  <2>1. i \in 1 .. Len(text.lines) /\ text.lines[i].name = o /\ \A j \in 1 .. i - 1 : text.lines[j].name # o
    BY <1>2 DEF FirstAt
  <2>2. ASSUME NEW j \in 1 .. i - 1 PROVE c.lines[j].name # o
    <3>1. j \in 1 .. Len(text.lines)
      BY <2>1
    <3> QED BY <2>1, <3>1
  <2> QED BY <2>1, <2>2 DEF FirstAt
<1> QED BY <1>1, <1>2, SettingIs

\* A value in all lines of one name.
LEMMA ReplacedSetting ==
  ASSUME NEW text, text.lines \in Seq(Line), NEW name \in {"SSID", "AUTH_KEY"}, NEW value \in Seq(Char),
         Matches(text, name) # {}
  PROVE  /\ Replaced(text, name, value) \in Seq(Line)
         /\ \A c : c.lines = Replaced(text, name, value) =>
              /\ Setting(c, name) = value
              /\ \A o : o # name => Setting(c, o) = Setting(text, o)
<1> DEFINE lines == text.lines
           new == Replaced(text, name, value)
<1>1. Pair(name, value) \in Line /\ Pair(name, value).name = name /\ Pair(name, value).value = value
  BY LinesAre
<1>2. DOMAIN lines = 1 .. Len(lines) /\ Len(lines) \in Nat /\ \A i \in 1 .. Len(lines) : lines[i] \in Line
  OBVIOUS
<1>3. new = [i \in 1 .. Len(lines) |-> IF lines[i].name = name THEN Pair(name, value) ELSE lines[i]]
  BY <1>2 DEF Replaced
<1>4. /\ new \in Seq(Line) /\ Len(new) = Len(lines)
      /\ \A i \in 1 .. Len(lines) : new[i] = IF lines[i].name = name THEN Pair(name, value) ELSE lines[i]
  BY <1>1, <1>2, <1>3
<1>5. \A i \in 1 .. Len(lines) : new[i].name = lines[i].name
  BY <1>1, <1>4
<1> SUFFICES ASSUME NEW c, c.lines = new
             PROVE  Setting(c, name) = value /\ \A o : o # name => Setting(c, o) = Setting(text, o)
  BY <1>4
<1> HIDE DEF new
<1>6. ASSUME NEW o
      PROVE  /\ NoneOf(lines, o) => Setting(c, o) = None
             /\ \A i : FirstAt(lines, o, i) => Setting(c, o) = new[i].value
  <2>1. c.lines \in Seq(Line) /\ Len(c.lines) = Len(lines) /\ \A i \in 1 .. Len(lines) : c.lines[i].name = lines[i].name
    BY <1>4, <1>5
  <2>2. /\ NoneOf(lines, o) => Setting(c, o) = None
        /\ \A i : FirstAt(lines, o, i) => Setting(c, o) = c.lines[i].value
    BY <2>1, ChangedSetting
  <2> QED BY <2>2
<1>7. Setting(c, name) = value
  <2>1. ~ NoneOf(lines, name)
    BY <1>2 DEF Matches, NoneOf
  <2>2. PICK i : FirstAt(lines, name, i)
    BY <2>1, SettingIs
  <2>3. new[i].value = value
    BY <1>1, <1>4, <2>2 DEF FirstAt
  <2> QED BY <1>6, <2>2, <2>3
<1>8. ASSUME NEW o, o # name PROVE Setting(c, o) = Setting(text, o)
  <2>1. CASE NoneOf(lines, o)
    BY <1>6, <2>1, SettingIs
  <2>2. ASSUME NEW i, FirstAt(lines, o, i) PROVE Setting(c, o) = Setting(text, o)
    <3>1. new[i] = lines[i]
      BY <1>4, <1>8, <2>2 DEF FirstAt
    <3> QED BY <1>6, <2>2, <3>1, SettingIs
  <2> QED BY <2>1, <2>2, SettingIs
<1> QED BY <1>7, <1>8

\* The other account in all lines of both names.
LEMMA AccountSetting ==
  ASSUME NEW text, text.lines \in Seq(Line)
  PROVE  /\ WithNewAccount(text).lines \in Seq(Line)
         /\ AccountMatches(text) => \A name \in {"SSID", "AUTH_KEY"} :
              Setting(WithNewAccount(text), name) =
                IF Setting(text, name) = None THEN None ELSE NewAccount[name]
<1> DEFINE lines == text.lines
           c == WithNewAccount(text)
           both == {"SSID", "AUTH_KEY"}
<1>1. DOMAIN OldAccount = both /\ DOMAIN NewAccount = both
  BY DEF OldAccount, NewAccount
<1>2. \A name \in both : NewAccount[name] \in Seq(Char) /\ OldAccount[name] # None
  <2>1. << "S" >> \in Seq(Char) /\ << "K" >> \in Seq(Char)
    <3>1. "S" \in Char /\ "K" \in Char
      <4>1. {"SSID", "AUTH_KEY", "=", "S", "K"} \subseteq Char
        BY DEF Char
      <4> QED BY <4>1
    <3> QED BY <3>1, OneText
  <2>2. << "s" >> # << "none" >> /\ << "k" >> # << "none" >>
    OBVIOUS
  <2>3. /\ NewAccount["SSID"] = << "S" >> /\ NewAccount["AUTH_KEY"] = << "K" >>
        /\ OldAccount["SSID"] = << "s" >> /\ OldAccount["AUTH_KEY"] = << "k" >>
    BY DEF OldAccount, NewAccount
  <2> QED BY <2>1, <2>2, <2>3 DEF None
<1>3. DOMAIN lines = 1 .. Len(lines) /\ Len(lines) \in Nat /\ \A i \in 1 .. Len(lines) : lines[i] \in Line
  OBVIOUS
<1>4. c.lines = [i \in 1 .. Len(lines) |->
        IF lines[i].name \in both THEN Pair(lines[i].name, NewAccount[lines[i].name]) ELSE lines[i]]
  BY <1>1, <1>3 DEF WithNewAccount, Content
<1>5. ASSUME NEW name \in both
      PROVE  /\ Pair(name, NewAccount[name]) \in Line /\ Pair(name, NewAccount[name]).name = name
             /\ Pair(name, NewAccount[name]).value = NewAccount[name]
  <2>1. name \in both /\ NewAccount[name] \in Seq(Char)
    BY <1>2
  <2> QED BY <2>1, LinesAre
<1> HIDE DEF c, both
<1>6. /\ c.lines \in Seq(Line) /\ Len(c.lines) = Len(lines)
      /\ \A i \in 1 .. Len(lines) : c.lines[i] =
           IF lines[i].name \in both THEN Pair(lines[i].name, NewAccount[lines[i].name]) ELSE lines[i]
  BY <1>3, <1>4, <1>5
<1>7. \A i \in 1 .. Len(lines) : c.lines[i].name = lines[i].name
  BY <1>5, <1>6
<1>8. ASSUME AccountMatches(text), NEW name \in both
      PROVE  Setting(c, name) = IF Setting(text, name) = None THEN None ELSE NewAccount[name]
  <2>1. /\ NoneOf(lines, name) => Setting(c, name) = None
        /\ \A i : FirstAt(lines, name, i) => Setting(c, name) = c.lines[i].value
    <3>1. c.lines \in Seq(Line) /\ Len(c.lines) = Len(lines)
      BY <1>6
    <3> QED BY <1>7, <3>1, ChangedSetting
  <2>2. CASE NoneOf(lines, name)
    BY <2>1, <2>2, SettingIs
  <2>3. ASSUME NEW i, FirstAt(lines, name, i)
        PROVE  Setting(c, name) = IF Setting(text, name) = None THEN None ELSE NewAccount[name]
    <3>1. i \in 1 .. Len(lines) /\ lines[i].name = name
      BY <2>3 DEF FirstAt
    <3>2. c.lines[i].value = NewAccount[name]
      BY <1>5, <1>6, <3>1
    <3>3. lines[i].value = OldAccount[name]
      BY <1>1, <1>3, <1>8, <3>1 DEF AccountMatches
    <3>4. Setting(text, name) = OldAccount[name]
      BY <2>3, <3>3, SettingIs
    <3> QED BY <1>2, <2>1, <2>3, <3>2, <3>4
  <2> QED BY <2>2, <2>3, SettingIs
<1> QED BY <1>6, <1>8 DEF c, both

\* Without the lines of one name, from the loop over the lines: DeleteConfig.
Keeps(f, lines, name) ==
  f = [i \in 0 .. Len(lines) |->
         IF i = 0 THEN << >>
         ELSE IF lines[i].name = name THEN f[i - 1] ELSE Append(f[i - 1], lines[i])]
\* One step of the loop.
LEMMA KeepsAt ==
  ASSUME NEW lines, NEW name, NEW f, Len(lines) \in Nat, Keeps(f, lines, name)
  PROVE  /\ f[0] = << >>
         /\ \A i \in 0 .. Len(lines) - 1 :
              f[i + 1] = IF lines[i + 1].name = name THEN f[i] ELSE Append(f[i], lines[i + 1])
<1>1. \A i \in 0 .. Len(lines) :
        f[i] = IF i = 0 THEN << >> ELSE IF lines[i].name = name THEN f[i - 1] ELSE Append(f[i - 1], lines[i])
  BY DEF Keeps
<1>2. ASSUME NEW i \in 0 .. Len(lines) - 1
      PROVE  f[i + 1] = IF lines[i + 1].name = name THEN f[i] ELSE Append(f[i], lines[i + 1])
  <2>1. i + 1 \in 0 .. Len(lines) /\ i + 1 # 0 /\ (i + 1) - 1 = i
    OBVIOUS
  <2> QED BY <1>1, <2>1
<1> QED BY <1>1, <1>2

\* The loop has a result.
LEMMA KeepsExists == ASSUME NEW lines, NEW name, Len(lines) \in Nat PROVE \E f : Keeps(f, lines, name)
<1> DEFINE n == Len(lines)
           Grown(f, i) == IF lines[i].name = name THEN f[i - 1] ELSE Append(f[i - 1], lines[i])
           Upto(f, k) == f = [i \in 0 .. k |-> IF i = 0 THEN << >> ELSE Grown(f, i)]
           S == {k \in 0 .. n : \E f : Upto(f, k)}
<1>1. 0 \in S
  <2>1. Upto([i \in 0 .. 0 |-> << >>], 0)
    OBVIOUS
  <2>2. 0 \in 0 .. n
    OBVIOUS
  <2> HIDE DEF Upto
  <2> QED BY <2>1, <2>2
<1>2. ASSUME NEW k \in 0 .. n - 1, k \in S PROVE k + 1 \in S
  <2>1. PICK f : Upto(f, k)
    BY <1>2
  <2> DEFINE g == [i \in 0 .. k + 1 |-> IF i = k + 1 THEN Grown(f, k + 1) ELSE f[i]]
  <2>2. \A i \in 0 .. k : g[i] = f[i]
    OBVIOUS
  <2>3. \A i \in 0 .. k : f[i] = IF i = 0 THEN << >> ELSE Grown(f, i)
    BY <2>1
  <2>4. ASSUME NEW i \in 0 .. k + 1 PROVE g[i] = IF i = 0 THEN << >> ELSE Grown(g, i)
    <3>1. i # 0 => i - 1 \in 0 .. k
      OBVIOUS
    <3>2. i # 0 => Grown(g, i) = Grown(f, i)
      BY <2>2, <3>1
    <3>3. CASE i = k + 1
      BY <3>2, <3>3
    <3>4. CASE i \in 0 .. k
      BY <2>2, <2>3, <3>2, <3>4
    <3> QED BY <3>3, <3>4
  <2>5. g = [i \in 0 .. k + 1 |-> g[i]]
    OBVIOUS
  <2> HIDE DEF g
  <2>6. [i \in 0 .. k + 1 |-> g[i]] = [i \in 0 .. k + 1 |-> IF i = 0 THEN << >> ELSE Grown(g, i)]
    <3> HIDE DEF Grown
    <3> QED BY <2>4
  <2>7. Upto(g, k + 1)
    BY <2>5, <2>6
  <2> HIDE DEF Upto
  <2> QED BY <2>7
<1> HIDE DEF S
<1>3. 0 .. n \subseteq S
  BY <1>1, <1>2, UpTo
<1>4. n \in S
  BY <1>3
<1>5. PICK f : Upto(f, n)
  BY <1>4 DEF S
<1>6. Keeps(f, lines, name)
  BY <1>5 DEF Keeps
<1> QED BY <1>6

\* What the loop keeps of the first lines: none of that name, and of every other
\* name the first one, still as the first one.
StillThere(left, lines, k, name) ==
  /\ left \in Seq(Line) /\ NoneOf(left, name)
  /\ \A j \in 1 .. Len(left) : \E i \in 1 .. k : left[j] = lines[i]
  /\ \A o, i : o # name /\ i <= k /\ FirstAt(lines, o, i) => \E j : FirstAt(left, o, j) /\ left[j] = lines[i]

\* All that of the whole loop.
LEMMA KeptAll ==
  ASSUME NEW lines \in Seq(Line), NEW name, NEW f, Keeps(f, lines, name)
  PROVE  StillThere(f[Len(lines)], lines, Len(lines), name)
<1> DEFINE n == Len(lines)
           S == {k \in 0 .. n : StillThere(f[k], lines, k, name)}
<1>1. n \in Nat
  OBVIOUS
<1>2. /\ f[0] = << >>
      /\ \A k \in 0 .. n - 1 : f[k + 1] = IF lines[k + 1].name = name THEN f[k] ELSE Append(f[k], lines[k + 1])
  BY <1>1, KeepsAt
<1>3. 0 \in S
  <2>1. << >> \in Seq(Line) /\ Len(<< >>) = 0
    BY EmptySeq
  <2>2. \A o, i : ~ (i <= 0 /\ FirstAt(lines, o, i))
    BY DEF FirstAt
  <2>3. StillThere(<< >>, lines, 0, name)
    <3>1. \A j : j \notin 1 .. 0
      OBVIOUS
    <3>2. NoneOf(<< >>, name)
      BY <2>1, <3>1 DEF NoneOf
    <3>3. \A j \in 1 .. Len(<< >>) : \E i \in 1 .. 0 : << >>[j] = lines[i]
      BY <2>1, <3>1
    <3>4. << >> \in Seq(Line)
      BY <2>1
    <3> QED BY <2>2, <3>2, <3>3, <3>4 DEF StillThere
  <2>4. 0 \in 0 .. n
    BY <1>1
  <2> QED BY <1>2, <2>3, <2>4
<1>4. ASSUME NEW k \in 0 .. n - 1, k \in S PROVE k + 1 \in S
  <2> DEFINE left == f[k]
             x == lines[k + 1]
  <2>1. StillThere(left, lines, k, name)
    BY <1>4
  <2>2. k + 1 \in 1 .. n /\ x \in Line /\ k + 1 \in 0 .. n
    <3>1. k + 1 \in 1 .. n /\ k + 1 \in 0 .. n
      BY <1>1
    <3> QED BY <3>1
  <2>3. CASE x.name = name
    <3>1. f[k + 1] = left
      BY <1>2, <2>3
    <3>2. ASSUME NEW o, NEW i, o # name, i <= k + 1, FirstAt(lines, o, i) PROVE i <= k
      BY <1>1, <2>3, <3>2 DEF FirstAt
    <3>3. StillThere(left, lines, k + 1, name)
      <4>1. \A i \in 1 .. k : i \in 1 .. k + 1
        OBVIOUS
      <4> HIDE DEF left
      <4> QED BY <2>1, <3>2, <4>1 DEF StillThere
    <3> QED BY <2>2, <3>1, <3>3
  <2>4. CASE x.name # name
    <3> DEFINE more == Append(left, x)
               m == Len(left)
    <3>1. f[k + 1] = more
      BY <1>2, <2>4
    <3>2. left \in Seq(Line) /\ m \in Nat
      BY <2>1 DEF StillThere
    <3>3. /\ more \in Seq(Line) /\ Len(more) = m + 1 /\ more[m + 1] = x
          /\ \A j \in 1 .. m : more[j] = left[j]
      <4> HIDE DEF left, x
      <4> QED BY <2>2, <3>2, AppendProperties
    <3> HIDE DEF more, m, left
    <3>4. \A j \in 1 .. m + 1 : j \in 1 .. m \/ j = m + 1
      BY <3>2
    <3>5. NoneOf(more, name)
      <4>1. \A j \in 1 .. m : left[j].name # name
        BY <2>1 DEF StillThere, NoneOf, m
      <4>2. ASSUME NEW j \in 1 .. m + 1 PROVE more[j].name # name
        BY <2>4, <3>3, <3>4, <4>1
      <4> QED BY <3>3, <4>2 DEF NoneOf
    <3>6. ASSUME NEW j \in 1 .. m + 1 PROVE \E i \in 1 .. k + 1 : more[j] = lines[i]
      <4>1. CASE j \in 1 .. m
        <5>1. PICK i \in 1 .. k : left[j] = lines[i]
          BY <2>1, <4>1 DEF StillThere, m
        <5>2. i \in 1 .. k + 1
          OBVIOUS
        <5> QED BY <3>3, <4>1, <5>1, <5>2
      <4>2. CASE j = m + 1
        <5>1. k + 1 \in 1 .. k + 1
          OBVIOUS
        <5> QED BY <3>3, <4>2, <5>1
      <4> QED BY <3>4, <4>1, <4>2
    <3>7. ASSUME NEW o, NEW i, o # name, i <= k + 1, FirstAt(lines, o, i)
          PROVE  \E j : FirstAt(more, o, j) /\ more[j] = lines[i]
      <4>1. i \in 1 .. n /\ lines[i].name = o /\ \A j \in 1 .. i - 1 : lines[j].name # o
        BY <3>7 DEF FirstAt
      <4>2. CASE i <= k
        <5>1. PICK j : FirstAt(left, o, j) /\ left[j] = lines[i]
          BY <2>1, <3>7, <4>2 DEF StillThere
        <5>2. j \in 1 .. m /\ left[j].name = o /\ \A l \in 1 .. j - 1 : left[l].name # o
          BY <5>1 DEF FirstAt, m
        <5>3. j \in 1 .. m + 1 /\ \A l \in 1 .. j - 1 : l \in 1 .. m
          BY <3>2, <5>2
        <5>4. more[j] = left[j] /\ \A l \in 1 .. j - 1 : more[l].name # o
          BY <3>3, <5>2, <5>3
        <5>5. FirstAt(more, o, j)
          BY <3>3, <5>2, <5>3, <5>4 DEF FirstAt
        <5> QED BY <5>1, <5>4, <5>5
      <4>3. CASE i = k + 1
        <5>1. ASSUME NEW l \in 1 .. (m + 1) - 1 PROVE more[l].name # o
          <6>1. l \in 1 .. m
            BY <3>2
          <6>2. PICK j \in 1 .. k : left[l] = lines[j]
            BY <2>1, <6>1 DEF StillThere, m
          <6>3. j \in 1 .. i - 1
            BY <4>3
          <6> QED BY <3>3, <4>1, <6>1, <6>2, <6>3
        <5>2. m + 1 \in 1 .. m + 1
          BY <3>2
        <5>3. FirstAt(more, o, m + 1)
          BY <3>3, <4>1, <4>3, <5>1, <5>2 DEF FirstAt
        <5> QED BY <3>3, <4>3, <5>3
      <4> QED BY <1>1, <3>7, <4>1, <4>2, <4>3
    <3>8. StillThere(more, lines, k + 1, name)
      BY <3>3, <3>5, <3>6, <3>7 DEF StillThere
    <3> QED BY <2>2, <3>1, <3>8
  <2> QED BY <2>3, <2>4
<1> HIDE DEF S
<1>5. 0 .. n \subseteq S
  BY <1>1, <1>3, <1>4, UpTo
<1>6. n \in S
  BY <1>1, <1>5
<1> QED BY <1>6 DEF S

\* DeleteConfig: that name has no setting any more.
LEMMA DeletedSetting ==
  ASSUME NEW text, text.lines \in Seq(Line), NEW name
  PROVE  /\ Deleted(text, name).lines \in Seq(Line)
         /\ Setting(Deleted(text, name), name) = None
         /\ \A o : o # name => Setting(Deleted(text, name), o) = Setting(text, o)
<1> DEFINE lines == text.lines
           f == CHOOSE f : Keeps(f, lines, name)
           c == Deleted(text, name)
<1>1. Len(lines) \in Nat
  OBVIOUS
<1>2. c.lines = f[Len(lines)]
  BY DEF Deleted, Content, Keeps
<1>3. Keeps(f, lines, name)
  BY <1>1, KeepsExists
<1> HIDE DEF f, c
<1>4. StillThere(c.lines, lines, Len(lines), name)
  BY <1>2, <1>3, KeptAll
<1>5. c.lines \in Seq(Line) /\ NoneOf(c.lines, name)
  BY <1>4 DEF StillThere
<1>6. Setting(c, name) = None
  BY <1>5, SettingIs
<1>7. ASSUME NEW o, o # name PROVE Setting(c, o) = Setting(text, o)
  <2>1. NoneOf(lines, o) => NoneOf(c.lines, o)
    <3>1. \A j \in 1 .. Len(c.lines) : \E i \in 1 .. Len(lines) : c.lines[j] = lines[i]
      BY <1>4 DEF StillThere
    <3> QED BY <3>1 DEF NoneOf
  <2>2. ASSUME NEW i, FirstAt(lines, o, i)
        PROVE  \E j : FirstAt(c.lines, o, j) /\ c.lines[j].value = lines[i].value
    <3>1. i <= Len(lines)
      BY <1>1, <2>2 DEF FirstAt
    <3> QED BY <1>4, <1>7, <2>2, <3>1 DEF StillThere
  <2> QED BY <1>5, <2>1, <2>2, SameSetting
<1> QED BY <1>5, <1>6, <1>7 DEF c

(***************************************************************************)
(* The invariant: the files are lines; a call that is under way will write *)
(* what it has promised, or knows that it will not; and no read is to be   *)
(* answered then.                                                          *)
(***************************************************************************)
Filed == conf.lines \in Seq(Line) /\ sum_buf.lines \in Seq(Line)
Promised ==
  cpc # "idle" => answer.name = "none" /\ (op.exact => op.after = View(sum_buf))
EditsInv == Filed /\ Promised /\ EditsRead

\* A file that is missing, one that is empty, and one that is spoilt.
LEMMA SpecialFiles ==
  /\ Missing.lines \in Seq(Line) /\ Empty.lines \in Seq(Line)
  /\ Content(<< Plain >>, FALSE).lines \in Seq(Line)
<1>1. << >> \in Seq(Char) /\ << >> \in Seq(Line)
  BY EmptySeq
<1>2. Pair("missing", << >>) \in Line
  BY <1>1 DEF Pair, Line
<1> QED BY <1>1, <1>2, LinesAre DEF Missing, Empty, Content

\* The files at first are lines.
LEMMA FilesAtFirst == ASSUME NEW text \in Contents PROVE text.lines \in Seq(Line)
<1> DEFINE L == {Plain} \cup {Pair(name, value) : name \in Names, value \in Values}
           S == UNION {[1 .. n -> L] : n \in 0 .. MaxLines}
<1>1. L \subseteq Line
  <2>1. Names \subseteq {"SSID", "AUTH_KEY"} /\ Values \subseteq Seq(Char)
    BY ConfigAssumption, ValuesAreTexts
  <2> QED BY <2>1, LinesAre
<1>2. \E ended \in BOOLEAN, lines \in S : text = Content(lines, ended)
  BY DEF Contents
<1> HIDE DEF L
<1>3. PICK lines \in S : text.lines = lines
  BY <1>2 DEF Content
<1>4. PICK n \in 0 .. MaxLines : lines \in [1 .. n -> L]
  OBVIOUS
<1>5. n \in Nat
  BY ConfigAssumption
<1>6. lines \in [1 .. n -> Line]
  BY <1>1, <1>4
<1> QED BY <1>3, <1>5, <1>6

\* What follows from other settings of one name.
LEMMA ViewIs ==
  ASSUME NEW name \in Names, NEW x, NEW c, NEW d,
         Setting(d, name) = x, \A o \in Names : o # name => Setting(d, o) = Setting(c, o)
  PROVE  View(d) = [View(c) EXCEPT ![name] = x]
BY DEF View

\* The calls that edit: the text that they are going to write.
LEMMA BeginsToEdit ==
  ASSUME Filed, Promised, EditsRead,
         NEW step, NEW do, NEW text, NEW exact, NEW after,
         text.lines \in Seq(Line), exact => after = View(text),
         step # "idle", Call(step, do, text, exact, after), Counted, conf' = conf
  PROVE  EditsInv'
<1>1. cpc' = step /\ sum_buf' = text /\ op'.exact = exact /\ op'.after = after /\ answer'.name = "none"
  BY DEF Call, Counted
<1>2. Filed'
  BY <1>1 DEF Filed
<1>3. Promised'
  <2>1. View(sum_buf)' = View(text)
    BY <1>1 DEF View, Setting, Matches
  <2> QED BY <1>1, <2>1 DEF Promised
<1>4. EditsRead'
  BY <1>1 DEF EditsRead
<1> QED BY <1>2, <1>3, <1>4 DEF EditsInv

\* The calls begin between calls.
LEMMA IdleView == ASSUME EditsRead, Counted PROVE view = View(conf)
BY DEF EditsRead, Counted, ConfigIdle

\* AddOrAltConfig, without an overflow and not behind a line without a newline.
LEMMA AlteredView ==
  ASSUME NEW text, text.lines \in Seq(Line), NEW name \in Names, NEW value \in Values
  PROVE  LET glues == Matches(text, name) = {} /\ ~text.ended /\ text.lines # << >>
         IN  /\ Altered(text, name, value).lines \in Seq(Line)
             /\ ~glues => View(Altered(text, name, value)) = [View(text) EXCEPT ![name] = value]
<1> DEFINE c == Altered(text, name, value)
<1>1. name \in {"SSID", "AUTH_KEY"} /\ value \in Seq(Char)
  BY ConfigAssumption, ValuesAreTexts
<1>2. CASE Matches(text, name) # {}
  <2>1. c.lines = Replaced(text, name, value)
    BY <1>2 DEF Altered, Content
  <2> HIDE DEF c
  <2>2. c.lines \in Seq(Line) /\ Setting(c, name) = value /\ \A o : o # name => Setting(c, o) = Setting(text, o)
    BY <1>1, <1>2, <2>1, ReplacedSetting
  <2>3. View(c) = [View(text) EXCEPT ![name] = value]
    BY <2>2, ViewIs
  <2> QED BY <2>2, <2>3 DEF c
<1>3. CASE Matches(text, name) = {} /\ (text.ended \/ text.lines = << >>)
  <2>1. c.lines = Added(text, name, value)
    BY <1>3 DEF Altered, Content
  <2> HIDE DEF c
  <2>2. c.lines \in Seq(Line) /\ Setting(c, name) = value /\ \A o : o # name => Setting(c, o) = Setting(text, o)
    BY <1>1, <1>3, <2>1, AddedSetting
  <2>3. View(c) = [View(text) EXCEPT ![name] = value]
    BY <2>2, ViewIs
  <2> QED BY <2>2, <2>3 DEF c
<1>4. CASE Matches(text, name) = {} /\ ~text.ended /\ text.lines # << >>
  <2> DEFINE lines == text.lines
             n == Len(lines)
             line == lines[n]
  <2>1. n \in Nat \ {0} /\ n \in 1 .. n /\ line \in Line
    BY <1>4, EmptySeq
  <2>2. Glued(line, name, value) \in Line
    <3>1. << name, "=" >> \in Seq(Char)
      <4>1. name \in Char /\ "=" \in Char
        BY <1>1 DEF Char
      <4> QED BY <4>1
    <3>2. line.value \in Seq(Char) /\ line.name \in {"", "missing", "SSID", "AUTH_KEY"}
      BY <2>1 DEF Line
    <3>3. line.value \o << name, "=" >> \o value \in Seq(Char)
      <4>1. line.value \o << name, "=" >> \in Seq(Char)
        BY <3>1, <3>2, ConcatProperties
      <4> QED BY <1>1, <4>1, ConcatProperties
    <3> DEFINE joined == line.value \o << name, "=" >> \o value
    <3>4. Glued(line, name, value) = IF line = Plain THEN Plain ELSE Pair(line.name, joined)
      BY DEF Glued
    <3>5. joined \in Seq(Char)
      BY <3>3
    <3> HIDE DEF joined
    <3>6. Pair(line.name, joined) \in Line
      BY <3>2, <3>5 DEF Pair, Line
    <3> QED BY <3>4, <3>6, LinesAre
  <2>3. Added(text, name, value) = [lines EXCEPT ![n] = Glued(line, name, value)]
    BY <1>4, <2>1 DEF Added
  <2>4. [lines EXCEPT ![n] = Glued(line, name, value)] \in Seq(Line)
    <3> DEFINE g == Glued(line, name, value)
    <3>1. g \in Line
      BY <2>2
    <3> HIDE DEF g
    <3>2. [lines EXCEPT ![n] = g] \in Seq(Line)
      BY <2>1, <3>1
    <3> QED BY <3>2 DEF g
  <2>5. c.lines = Added(text, name, value)
    BY <1>4 DEF Altered, Content
  <2> QED BY <1>4, <2>3, <2>4, <2>5
<1> QED BY <1>2, <1>3, <1>4

\* Every call that begins, and every step of one.
LEMMA EditsInvKept == ASSUME EditsInv, [ConfigNext]_confVars PROVE EditsInv'
<1> USE DEF EditsInv
<1>1. ASSUME NEW name \in Names, ReadConfig(name) PROVE EditsInv'
  <2>1. cpc = "idle" /\ UNCHANGED << conf, cpc, op, sum_buf, view >>
    BY <1>1 DEF ReadConfig, ConfigIdle
  <2>2. View(conf) = view /\ Setting(conf, name) = view[name]
    BY <2>1 DEF EditsRead, View
  <2>3. ASSUME answer'.name # "none"
        PROVE  answer'.name = name /\ answer'.buff = IF view[name] = None THEN << >> ELSE view[name]
    <3>1. /\ answer' = [name |-> name, buff |-> config_buff']
          /\ config_buff' = IF Setting(conf, name) = None THEN << >> ELSE Copied(Setting(conf, name), << >>)
      <4>1. PICK buff \in {<< >>, config_buff} :
              /\ config_buff' = IF Setting(conf, name) = None THEN buff ELSE Copied(Setting(conf, name), buff)
              /\ answer' = IF buff = << >> THEN [name |-> name, buff |-> config_buff'] ELSE [name |-> "none", buff |-> << >>]
        BY <1>1 DEF ReadConfig
      <4>2. buff = << >>
        BY <2>3, <4>1
      <4> QED BY <4>1, <4>2
    <3>2. ASSUME NEW some \in Seq(Char) PROVE Copied(some, << >>) = some
      <4>1. SubSeq(<< >>, Len(some) + 1, Len(<< >>)) = << >>
        <5>1. Len(some) \in Nat /\ Len(<< >>) = 0
          BY EmptySeq
        <5>2. Len(some) + 1 > Len(<< >>)
          BY <5>1
        <5> QED BY <5>1, <5>2
      <4> QED BY <4>1, ConcatProperties, EmptySeq DEF Copied
    <3>3. Setting(conf, name) # None => Copied(Setting(conf, name), << >>) = Setting(conf, name)
      BY <3>2, SettingType DEF Filed
    <3> QED BY <2>2, <3>1, <3>3
  <2>4. Filed' /\ Promised'
    BY <2>1 DEF Filed, Promised
  <2>5. EditsRead'
    BY <2>1, <2>2, <2>3 DEF EditsRead, View, Setting, Matches
  <2> QED BY <2>4, <2>5
<1>2. ASSUME NEW name \in Names, DeleteConfig(name) PROVE EditsInv'
  <2>1. View(Deleted(conf, name)) = [view EXCEPT ![name] = None] /\ Deleted(conf, name).lines \in Seq(Line)
    BY <1>2, IdleView, DeletedSetting, ViewIs DEF DeleteConfig, Filed
  <2> QED BY <1>2, <2>1, BeginsToEdit DEF DeleteConfig
<1>3. ASSUME NEW name \in Names, NEW value \in Values, AddOrAltConfig(name, value) PROVE EditsInv'
  <2> DEFINE over  == Overflows(conf, name, value)
             glues == Matches(conf, name) = {} /\ ~conf.ended /\ conf.lines # << >>
  <2>1. PICK text \in {Altered(conf, name, value)} \cup (IF over THEN {Content(<< Plain >>, FALSE)} ELSE {}) :
          Call("remove", "alter", text, ~over /\ ~glues, [view EXCEPT ![name] = value])
    BY <1>3 DEF AddOrAltConfig
  <2>2. Altered(conf, name, value).lines \in Seq(Line)
        /\ (~glues => View(Altered(conf, name, value)) = [view EXCEPT ![name] = value])
    BY <1>3, IdleView, AlteredView DEF AddOrAltConfig, Filed
  <2>3. text.lines \in Seq(Line)
    BY <2>1, <2>2, SpecialFiles
  <2>4. ~over /\ ~glues => [view EXCEPT ![name] = value] = View(text)
    BY <2>1, <2>2
  <2>5. Counted /\ conf' = conf
    BY <1>3 DEF AddOrAltConfig
  <2> HIDE DEF over, glues
  <2> QED BY <2>1, <2>3, <2>4, <2>5, BeginsToEdit
<1>4. CASE SetWifi
  <2> DEFINE after == [name \in Names |-> IF view[name] = None THEN None ELSE NewAccount[name]]
  <2>1. WithNewAccount(conf).lines \in Seq(Line)
    BY AccountSetting DEF Filed
  <2>2. after = View(WithNewAccount(conf))
    <3>1. view = View(conf) /\ AccountMatches(conf)
      BY <1>4, IdleView DEF SetWifi
    <3>2. \A name \in Names : Setting(WithNewAccount(conf), name) = IF view[name] = None THEN None ELSE NewAccount[name]
      BY <3>1, AccountSetting, ConfigAssumption DEF Filed, View
    <3> QED BY <3>2 DEF View
  <2>3. Call(FirstOfWifi, "wifi", WithNewAccount(conf), TRUE, after) /\ Counted /\ conf' = conf
    BY <1>4 DEF SetWifi
  <2> HIDE DEF after
  <2>4. FirstOfWifi # "idle"
    BY DEF FirstOfWifi
  <2> QED BY <2>1, <2>2, <2>3, <2>4, BeginsToEdit
<1>5. CASE Declined \/ WifiCrash
  <2>1. cpc = "idle" /\ answer'.name = "none" /\ UNCHANGED << conf, cpc, sum_buf, op, view >>
    BY <1>5 DEF Declined, WifiCrash, Counted, ConfigIdle
  <2>2. View(conf)' = View(conf)
    BY <2>1 DEF View, Setting, Matches
  <2>3. cpc' = "idle"
    BY <2>1
  <2> QED BY <2>1, <2>2, <2>3 DEF Filed, Promised, EditsRead
<1>6. CASE RemoveFile \/ Rename
  <2>1. /\ cpc # "idle" /\ cpc' # "idle" /\ conf' \in {conf, Missing} /\ UNCHANGED << sum_buf, answer >>
        /\ op'.exact = op.exact /\ op'.after = op.after
    BY <1>6 DEF RemoveFile, Rename
  <2>2. Filed'
    BY <2>1, SpecialFiles DEF Filed
  <2> QED BY <2>1, <2>2 DEF Promised, EditsRead, View, Setting, Matches
<1>7. ASSUME NEW text, text.lines \in Seq(Line), cpc # "idle", Ends(text), view' = View(text),
             UNCHANGED answer
      PROVE  EditsInv'
  <2>1. cpc' = "idle" /\ conf' = text /\ sum_buf' = Empty /\ answer'.name = "none"
    BY <1>7 DEF Ends, Promised
  <2>2. Filed'
    BY <1>7, <2>1, SpecialFiles DEF Filed
  <2>3. View(conf)' = View(text)
    BY <2>1 DEF View, Setting, Matches
  <2> QED BY <1>7, <2>1, <2>2, <2>3 DEF Promised, EditsRead
<1>8. CASE Create
  <2>1. CASE conf' = Empty /\ cpc' = "write" /\ UNCHANGED << op, sum_buf, view, hurt >>
    <3>1. cpc # "idle" /\ UNCHANGED << op, sum_buf, answer >>
      BY <1>8, <2>1 DEF Create
    <3>2. Filed'
      BY <2>1, <3>1, SpecialFiles DEF Filed
    <3> QED BY <2>1, <3>1, <3>2 DEF Promised, EditsRead, View, Setting, Matches
  <2>2. CASE Ends(conf) /\ view' = View(conf)
    BY <1>7, <1>8, <2>2 DEF Create, Filed
  <2> QED BY <1>8, <2>1, <2>2 DEF Create
<1>9. CASE Put
  <2>1. cpc # "idle" /\ Ends(sum_buf) /\ UNCHANGED answer /\ view' = View(sum_buf)
    BY <1>9 DEF Put, Promised
  <2> QED BY <1>7, <2>1 DEF Filed
<1>10. CASE PutFails \/ Stop
  <2>1. cpc # "idle" /\ Ends(conf) /\ UNCHANGED answer /\ view' = View(conf)
    BY <1>10 DEF PutFails, Stop
  <2> QED BY <1>7, <2>1 DEF Filed
<1>11. CASE UNCHANGED confVars
  <2>1. UNCHANGED << conf, cpc, op, sum_buf, view, answer >>
    BY <1>11 DEF confVars
  <2>2. View(conf)' = View(conf) /\ View(sum_buf)' = View(sum_buf)
    BY <2>1 DEF View, Setting, Matches
  <2> QED BY <2>1, <2>2 DEF Filed, Promised, EditsRead
<1> QED BY <1>1, <1>2, <1>3, <1>4, <1>5, <1>6, <1>8, <1>9, <1>10, <1>11 DEF ConfigNext

(* Between the calls a reader finds what the calls have set, for every     *)
(* name, and ReadConfig returns it (gedit_config.c, and set_wifi of        *)
(* project/camera.c), for any files, values and numbers of lines, calls    *)
(* and stops: the edited text has the settings that were asked for, and    *)
(* what interrupts an edit leaves those of the file.                       *)
THEOREM EditsAreRead == ConfigSpec => []EditsRead
<1>1. ConfigInit => EditsInv
  <2> SUFFICES ASSUME ConfigInit PROVE EditsInv
    OBVIOUS
  <2>1. conf \in Contents /\ sum_buf = Empty /\ cpc = "idle" /\ view = View(conf) /\ answer.name = "none"
    BY DEF ConfigInit
  <2> QED BY <2>1, FilesAtFirst, SpecialFiles DEF EditsInv, Filed, Promised, EditsRead
<1>2. EditsInv /\ [ConfigNext]_confVars => EditsInv'
  BY EditsInvKept
<1>3. EditsInv => EditsRead
  BY DEF EditsInv
<1> QED BY <1>1, <1>2, <1>3, PTL DEF ConfigSpec

(***************************************************************************)
(* The camera control.  Division with a remainder.                         *)
(***************************************************************************)
LEMMA DivMod ==
  ASSUME NEW x \in Int, NEW m \in Nat \ {0}
  PROVE  x \div m \in Int /\ x % m \in 0 .. m - 1 /\ x = m * (x \div m) + (x % m)
OBVIOUS

\* Products grow with their factors.
LEMMA ProductGrows ==
  ASSUME NEW a \in Int, NEW b \in Int, NEW c \in Nat, a <= b
  PROVE  c * a <= c * b
OBVIOUS

\* Quotient and remainder are unique.
LEMMA DivModUnique ==
  ASSUME NEW m \in Nat \ {0}, NEW q \in Int, NEW r \in 0 .. m - 1
  PROVE  (m * q + r) % m = r /\ (m * q + r) \div m = q
<1> DEFINE x == m * q + r
           p == x \div m
           s == x % m
<1>1. x \in Int /\ p \in Int /\ s \in 0 .. m - 1 /\ x = m * p + s
  BY DivMod
<1>2. m * (p - q) = r - s
  BY <1>1
<1> HIDE DEF p, s, x
<1>3. CASE p - q >= 1
  <2>1. m * 1 <= m * (p - q)
    BY <1>1, <1>3, ProductGrows
  <2> QED BY <1>1, <1>2, <2>1
<1>4. CASE p - q <= -1
  <2>1. m * (p - q) <= m * (-1)
    BY <1>1, <1>4, ProductGrows
  <2> QED BY <1>1, <1>2, <2>1
<1>5. CASE p - q = 0
  BY <1>1, <1>2, <1>5 DEF p, s, x
<1> QED BY <1>1, <1>3, <1>4, <1>5

\* An i2c register and an int: half an int.
Half == (B * B) \div 2

\* The sizes of registers and of an int.
LEMMA Sizes ==
  ASSUME CtlAssumption
  PROVE  /\ B \in Nat /\ B >= 2 /\ B * B \in Nat \ {0} /\ Half \in Nat \ {0} /\ B * B = 2 * Half
         /\ B \div 2 \in Nat /\ B = 2 * (B \div 2) /\ B * (B \div 2) = Half /\ Half >= B /\ K \in Nat \ {0}
<1>1. B \in Nat /\ B >= 2 /\ K \in Nat \ {0}
  BY DEF CtlAssumption
<1> DEFINE h == B \div 2
<1>2. h \in Int /\ B = 2 * h
  BY <1>1, DivMod DEF CtlAssumption
<1>3. B * B = 2 * (B * h) + 0 /\ B * h \in Int /\ h >= 1
  BY <1>1, <1>2
<1>4. Half = B * h
  <2> DEFINE g == B * h
  <2>1. (2 * g + 0) \div 2 = g
    <3>1. g \in Int /\ 0 \in 0 .. 2 - 1 /\ 2 \in Nat \ {0}
      BY <1>3
    <3> HIDE DEF g
    <3> QED BY <3>1, DivModUnique
  <2> QED BY <1>3, <2>1 DEF Half
<1>5. B * 1 <= B * h
  BY <1>1, <1>2, <1>3, ProductGrows
<1> HIDE DEF h
<1>6. h \in Nat /\ Half \in Nat \ {0} /\ B * B = 2 * Half /\ Half >= B
  BY <1>1, <1>2, <1>3, <1>4, <1>5
<1>7. B * B \in Nat \ {0}
  BY <1>6
<1> QED BY <1>1, <1>2, <1>4, <1>6, <1>7 DEF h

\* What the casts to int keep.
LEMMA IntOf ==
  ASSUME CtlAssumption, NEW x \in Int
  PROVE  /\ ToInt(x) \in Int
         /\ x \in 0 .. Half - 1 => ToInt(x) = x
         /\ x \in Half .. 2 * Half - 1 => ToInt(x) = x - 2 * Half
         /\ x \in -Half .. -1 => ToInt(x) = x
<1>1. Half \in Nat \ {0} /\ B * B = 2 * Half
  BY Sizes
<1> DEFINE m == 2 * Half
<1>2. m \in Nat \ {0} /\ ToInt(x) = IF x % m >= Half THEN (x % m) - m ELSE x % m
  BY <1>1 DEF ToInt, Half
<1>3. x % m \in 0 .. m - 1
  BY <1>2, DivMod
<1>4. x \in 0 .. m - 1 => x % m = x
  <2>1. x \in 0 .. m - 1 => (m * 0 + x) % m = x
    <3> HIDE DEF m
    <3> QED BY <1>2, DivModUnique
  <2> QED BY <1>1, <2>1
<1>5. x \in -Half .. -1 => x % m = x + m
  <2>1. x \in -Half .. -1 => x + m \in 0 .. m - 1 /\ m * (-1) + (x + m) = x
    BY <1>1
  <2>2. ASSUME NEW y \in 0 .. m - 1 PROVE (m * (-1) + y) % m = y
    <3> HIDE DEF m
    <3> QED BY <1>2, DivModUnique
  <2> QED BY <2>1, <2>2
<1> QED BY <1>1, <1>2, <1>3, <1>4, <1>5

(***************************************************************************)
(* The answers.                                                            *)
(***************************************************************************)
\* What a read of a register that holds v may return.
ReadOf(v) == {v, -1} \cup (IF v >= B \div 2 THEN {v - B} ELSE {})

\* An exposure time that is answered and greater than 0 is what the two reads
\* hold: neither was an error, nor was the upper half negative.
LEMMA TimeAnswer ==
  ASSUME CtlAssumption, NEW lo \in 0 .. B - 1, NEW hi \in 0 .. B - 1, NEW a \in ReadOf(lo), NEW b \in ReadOf(hi),
         ExposureAnswer(<< a, b >>) > 0
  PROVE  ExposureAnswer(<< a, b >>) = (lo + B * hi) \div K /\ lo + B * hi < Half
<1>1. /\ B \in Nat /\ B >= 2 /\ Half \in Nat \ {0} /\ B * B = 2 * Half /\ Half >= B
      /\ B \div 2 \in Nat /\ B = 2 * (B \div 2) /\ B * (B \div 2) = Half /\ K \in Nat \ {0}
  BY Sizes
<1> DEFINE h == B \div 2
<1>2. (a \in {lo, lo - B, -1} /\ b \in {hi, -1}) \/ (hi >= h /\ b = hi - B /\ a \in {lo, lo - B, -1})
  BY DEF ReadOf
<1>3. ExposureAnswer(<< a, b >>) = Divided(Or(a, b))
  BY DEF ExposureAnswer
<1>4. ASSUME NEW x \in Int, Divided(x) > 0 PROVE x >= 0 /\ Divided(x) = x \div K
  <2>1. ASSUME x < 0 PROVE Divided(x) <= 0
    <3>1. (0 - x) \div K \in Int /\ (0 - x) % K \in 0 .. K - 1 /\ 0 - x = K * ((0 - x) \div K) + ((0 - x) % K)
      BY <1>1, <2>1, DivMod
    <3>2. (0 - x) \div K >= 0
      <4> DEFINE q == (0 - x) \div K
                 r == (0 - x) % K
      <4>1. q \in Int /\ r \in 0 .. K - 1 /\ 0 - x = K * q + r
        BY <3>1
      <4> HIDE DEF q, r
      <4>2. ASSUME q <= -1 PROVE FALSE
        <5>1. K * q <= K * (-1)
          BY <1>1, <4>1, <4>2, ProductGrows
        <5> QED BY <1>1, <2>1, <4>1, <5>1
      <4>3. q >= 0
        BY <4>1, <4>2
      <4> QED BY <4>3 DEF q
    <3> QED BY <2>1, <3>1, <3>2 DEF Divided
  <2>2. Divided(x) \in Int
    BY <1>1, <1>4, DivMod DEF Divided
  <2>3. x >= 0
    BY <1>4, <2>1, <2>2
  <2> QED BY <2>3 DEF Divided
<1>5. a = lo
  <2>1. ASSUME a < 0 PROVE FALSE
    <3>1. Or(a, b) = a /\ a \in Int
      BY <1>1, <1>2, <2>1 DEF Or
    <3> QED BY <1>3, <1>4, <2>1, <3>1
  <2> QED BY <1>1, <1>2, <2>1
<1> DEFINE x == lo + b * B
<1>6. b \in Int /\ x \in Int /\ ExposureAnswer(<< a, b >>) = Divided(ToInt(x))
  BY <1>1, <1>2, <1>3, <1>5 DEF Or
<1>7. ToInt(x) \in Int /\ ToInt(x) >= 0 /\ ExposureAnswer(<< a, b >>) = ToInt(x) \div K
  <2>1. ToInt(x) \in Int
    BY <1>6, IntOf
  <2> QED BY <1>4, <1>6, <2>1
<1>8. B * hi <= B * (B - 1) /\ B * hi \in Int /\ B * (B - 1) = B * B - B
  BY <1>1, ProductGrows
<1>9. hi >= h => B * hi >= Half
  <2>1. hi >= h => B * h <= B * hi
    BY <1>1, ProductGrows
  <2> QED BY <1>1, <2>1
<1>10. hi < h => B * hi <= Half - B
  <2>1. hi < h => B * hi <= B * (h - 1)
    BY <1>1, ProductGrows
  <2>2. B * (h - 1) = Half - B
    BY <1>1
  <2> QED BY <2>1, <2>2
<1>11. hi < h /\ b = hi
  <2>1. ASSUME x \in -Half .. -1 PROVE FALSE
    BY <1>1, <1>6, <1>7, <2>1, IntOf
  <2>2. ASSUME x \in Half .. 2 * Half - 1 PROVE FALSE
    <3>1. ToInt(x) = x - 2 * Half
      BY <1>6, <2>2, IntOf
    <3> QED BY <1>1, <1>6, <1>7, <2>2, <3>1
  <2>3. CASE b = -1
    <3>1. x = lo - B
      BY <1>1, <2>3
    <3> QED BY <1>1, <2>1, <3>1
  <2>4. CASE hi >= h /\ b = hi - B
    <3>1. x = lo + B * hi - 2 * Half
      BY <1>1, <1>8, <2>4
    <3> QED BY <1>1, <1>8, <1>9, <2>1, <2>4, <3>1
  <2>5. CASE hi >= h /\ b = hi
    <3>1. x = lo + B * hi
      BY <1>1, <1>8, <2>5
    <3> QED BY <1>1, <1>8, <1>9, <2>2, <2>5, <3>1
  <2> QED BY <1>1, <1>2, <2>3, <2>4, <2>5
<1>12. x = lo + B * hi /\ x \in 0 .. Half - 1
  <2>1. x = lo + B * hi
    BY <1>1, <1>8, <1>11
  <2>2. B * hi >= 0
    BY <1>1
  <2> QED BY <1>1, <1>8, <1>10, <1>11, <2>1, <2>2
<1>13. ToInt(x) = x
  BY <1>6, <1>12, IntOf
<1> HIDE DEF x
<1>14. ToInt(x) = lo + B * hi /\ lo + B * hi < Half
  BY <1>1, <1>8, <1>12, <1>13
<1> QED BY <1>7, <1>14

\* A product that fits an int comes back as the time that was asked for.
LEMMA TimeAsked ==
  ASSUME CtlAssumption, NEW time \in Nat, time * K < Half
  PROVE  ((Ntime(time) % B) + B * ((Ntime(time) \div B) % B)) \div K = time
<1>1. B \in Nat \ {0} /\ Half \in Nat \ {0} /\ B * B = 2 * Half /\ K \in Nat \ {0}
  BY Sizes
<1> DEFINE whole == time * K
<1>2. whole \in 0 .. Half - 1
  BY <1>1
<1>3. Ntime(time) = whole
  BY <1>2, IntOf DEF Ntime
<1> HIDE DEF whole
<1> DEFINE q == whole \div B
           r == whole % B
<1>4. whole \in Int
  BY <1>2
<1>5. q \in Int /\ r \in 0 .. B - 1 /\ whole = B * q + r
  BY <1>1, <1>4, DivMod
<1> HIDE DEF q, r
<1>6. q \in 0 .. B - 1
  <2>1. ASSUME q <= -1 PROVE FALSE
    <3>1. B * q <= B * (-1)
      BY <1>1, <1>5, <2>1, ProductGrows
    <3> QED BY <1>1, <1>2, <1>5, <3>1
  <2>2. ASSUME q >= B PROVE FALSE
    <3>1. B * B <= B * q
      BY <1>1, <1>5, <2>2, ProductGrows
    <3> QED BY <1>1, <1>2, <1>5, <3>1
  <2> QED BY <1>1, <1>5, <2>1, <2>2
<1>7. q % B = q
  <2>1. (B * 0 + q) % B = q
    BY <1>1, <1>6, DivModUnique
  <2>2. B * 0 + q = q
    BY <1>1, <1>5
  <2> QED BY <2>1, <2>2
<1>8. r + B * (q % B) = whole
  BY <1>1, <1>5, <1>7
<1>9. whole \div K = time
  <2>1. (K * time + 0) \div K = time
    <3>1. K \in Nat \ {0} /\ time \in Int /\ 0 \in 0 .. K - 1
      BY <1>1
    <3> QED BY <3>1, DivModUnique
  <2>2. K * time + 0 = whole
    BY <1>1 DEF whole
  <2> QED BY <2>1, <2>2
<1> QED BY <1>3, <1>8, <1>9 DEF q, r

\* The lights: what is read for a light that is off or on.
LEMMA LightAnswer ==
  ASSUME CtlAssumption, NEW u \in {0, 1}, NEW v \in {0, 1}, NEW a \in ReadOf(u), NEW b \in ReadOf(v), NEW mode \in 0 .. 3,
         FlashAnswer(<< a, b >>, mode) = 0
  PROVE  u = Bit1(mode) /\ v = Bit2(mode) \div 2
<1>1. B \in Nat /\ B >= 2 /\ B \div 2 \in Nat /\ B = 2 * (B \div 2)
  BY Sizes
<1>2. /\ a \in {u, -1} \/ (u = 1 /\ a = 1 - B)
      /\ b \in {v, -1} \/ (v = 1 /\ b = 1 - B)
  BY <1>1 DEF ReadOf
<1>3. b = Bit2(mode) /\ a = Bit1(mode)
  BY DEF FlashAnswer
<1>4. Bit1(mode) \in {0, 1} /\ Bit2(mode) \in {0, 2} /\ 0 \div 2 = 0 /\ 2 \div 2 = 1
  <2>1. mode % 2 \in 0 .. 2 - 1
    BY DivMod
  <2> QED BY <2>1 DEF Bit1, Bit2
<1>5. v = 0 /\ Bit2(mode) = 0
  BY <1>1, <1>2, <1>3, <1>4
<1> QED BY <1>1, <1>2, <1>3, <1>4, <1>5

(***************************************************************************)
(* The transactions of a call, and what it still has to do: End comes last.*)
(***************************************************************************)
Registers == {"mode", "low", "high", "flash1", "flash2", "sharpen", "contrast"}
Work == {u \in [do : {"write", "read", "pin", "sysfs", "open", "pulse"},
                of : Registers \cup {"test", "clock", "data", "latch", "i2c", "pcie"}, value : Int] :
  /\ u.do = "write" => u.of \in Registers /\ (u.of \in {"flash1", "flash2"} => u.value \in {0, 1})
  /\ u.do = "read" => u.of \in Registers \cup {"test"}}
Unit == Work \cup {End}
EndLast(s) == s \in Seq(Unit) /\ \A k \in 1 .. Len(s) : s[k] = End <=> k = Len(s)

\* The transactions are work, and no work is the end of a call.
LEMMA WorkIs ==
  /\ \A r \in Registers \cup {"test"} : ReadReg(r) \in Work
  /\ \A r \in Registers, v \in Int : (r \in {"flash1", "flash2"} => v \in {0, 1}) => WriteReg(r, v) \in Work
  /\ \A k \in {"clock", "data", "latch"}, v \in Int : Pin(k, v) \in Work /\ Sysfs(k, v) \in Work
  /\ \A v \in Int : Pulse(v) \in Work
  /\ \A d \in {"i2c", "pcie"} : Device(d) \in Work
  /\ End \notin Work /\ \A u \in Unit : u.do = "end" <=> u = End
BY DEF Work, Unit, End, ReadReg, WriteReg, Pin, Sysfs, Pulse, Device, Registers

\* What begins ends with End.
LEMMA ScriptEnds ==
  ASSUME NEW s \in Seq(Work)
  PROVE  EndLast(Append(s, End)) /\ Append(s, End) # << >>
<1>1. /\ Append(s, End) \in Seq(Unit) /\ Len(Append(s, End)) = Len(s) + 1 /\ Len(s) \in Nat
      /\ \A k \in 1 .. Len(s) : Append(s, End)[k] = s[k] /\ s[k] \in Work
      /\ Append(s, End)[Len(s) + 1] = End
  <2>1. s \in Seq(Unit) /\ End \in Unit
    BY DEF Unit
  <2> QED BY <2>1, AppendProperties
<1> QED BY <1>1, WorkIs DEF EndLast

\* The next transaction, and what is left after it.
LEMMA EndComesLast ==
  ASSUME NEW s, EndLast(s), s # << >>
  PROVE  /\ Head(s) \in Unit /\ EndLast(Tail(s)) /\ (Head(s) = End <=> Tail(s) = << >>)
         /\ Head(s) # End => Head(s) \in Work
<1>1. /\ s \in Seq(Unit) /\ Len(s) \in Nat \ {0} /\ Head(s) = s[1] /\ Tail(s) \in Seq(Unit)
      /\ Len(Tail(s)) = Len(s) - 1 /\ \A k \in 1 .. Len(s) - 1 : Tail(s)[k] = s[k + 1]
  BY HeadTailProperties, EmptySeq DEF EndLast
<1>0. \A k \in 1 .. Len(s) : s[k] \in Unit /\ (s[k] = End <=> k = Len(s))
  <2>1. \A k \in 1 .. Len(s) : s[k] \in Unit
    BY <1>1, ElementOfSeq
  <2>2. \A k \in 1 .. Len(s) : s[k] = End <=> k = Len(s)
    BY DEF EndLast
  <2> QED BY ONLY <2>1, <2>2
<1>2. Head(s) \in Unit /\ (Head(s) = End <=> Len(s) = 1)
  <2>1. 1 \in 1 .. Len(s)
    BY <1>1
  <2> QED BY <1>0, <1>1, <2>1
<1>3. Tail(s) = << >> <=> Len(s) = 1
  BY <1>1, EmptySeq
<1>4. EndLast(Tail(s))
  <2>1. ASSUME NEW k \in 1 .. Len(s) - 1 PROVE Tail(s)[k] = End <=> k = Len(s) - 1
    <3>1. k + 1 \in 1 .. Len(s) /\ Tail(s)[k] = s[k + 1] /\ (k + 1 = Len(s) <=> k = Len(s) - 1)
      BY <1>1
    <3> QED BY <1>0, <3>1
  <2> QED BY <1>1, <2>1 DEF EndLast
<1> QED BY <1>2, <1>3, <1>4 DEF Unit

\* A call that has ended, and one that only has to end.
LEMMA EndAlone == EndLast(<< >>) /\ EndLast(<< End >>) /\ << End >> # << >>
<1>1. << End >> \in Seq(Unit) /\ Len(<< End >>) = 1 /\ << End >>[1] = End
  BY DEF Unit
<1>2. << >> \in Seq(Unit) /\ Len(<< >>) = 0
  BY EmptySeq
<1> QED BY <1>1, <1>2 DEF EndLast

\* Every call is a sequence of work.
LEMMA BitsWork == ASSUME NEW value, NEW m \in Nat PROVE Bits(value, m) \in Seq(Work)
<1> DEFINE pulses == [k \in 1 .. m |-> Pulse(IF k - 1 \in value THEN 1 ELSE 0)]
<1>1. \A k \in 1 .. m : Pulse(IF k - 1 \in value THEN 1 ELSE 0) \in Work
  BY WorkIs
<1>2. pulses \in Seq(Work)
  BY <1>1, IsASeq
<1>3. << Pin("clock", 0) >> \in Seq(Work)
  BY WorkIs
<1> QED BY <1>2, <1>3, ConcatProperties DEF Bits

\* A word to the sensor is work,
LEMMA WordWork == ASSUME CtlAssumption, NEW a, NEW value PROVE WriteValue(a, value) \in Seq(Work)
<1>1. << Pin("latch", 0) >> \in Seq(Work) /\ << Pin("latch", 1) >> \in Seq(Work)
  BY WorkIs
<1>2. Bits(a, A) \in Seq(Work) /\ Bits(value, D) \in Seq(Work)
  BY BitsWork DEF CtlAssumption
<1>3. << Pin("latch", 0) >> \o Bits(a, A) \in Seq(Work)
  BY <1>1, <1>2, ConcatProperties
<1>4. (<< Pin("latch", 0) >> \o Bits(a, A)) \o Bits(value, D) \in Seq(Work)
  BY <1>2, <1>3, ConcatProperties
<1> QED BY <1>1, <1>4, ConcatProperties DEF WriteValue

\* and so is init_camera.
LEMMA InitWork == ASSUME CtlAssumption PROVE InitCamera \in Seq(Work)
<1>1. << Device("i2c"), Device("pcie"), ReadReg("test") >> \in Seq(Work) /\ << >> \in Seq(Work)
  BY WorkIs
<1>2. InitPins \in Seq(Work)
  BY WorkIs DEF InitPins
<1>3. (IF variant = "camera" THEN InitPins ELSE << >>) \o << Device("i2c"), Device("pcie"), ReadReg("test") >> \in Seq(Work)
  BY <1>1, <1>2, ConcatProperties
<1> QED BY <1>3, WordWork, ConcatProperties DEF InitCamera

\* Four transactions, and the end.
LEMMA FourThenEnd ==
  ASSUME NEW a \in Work, NEW b \in Work, NEW u \in Work, NEW v \in Work
  PROVE  << a, b, u, v >> \in Seq(Work) /\ Append(<< a, b, u, v >>, End) = << a, b, u, v, End >>
<1>1. << a, b, u, v >> \in Seq(Work)
  OBVIOUS
<1>2. Len(<< a, b, u, v >>) = 4
  OBVIOUS
<1>3. Append(<< a, b, u, v >>, End) = << a, b, u, v, End >>
  <2> DEFINE s == << a, b, u, v >>
  <2>1. /\ Append(s, End) \in Seq(Unit) /\ Len(Append(s, End)) = 5
        /\ \A k \in 1 .. 4 : Append(s, End)[k] = s[k]
        /\ Append(s, End)[5] = End
    <3>1. s \in Seq(Unit) /\ End \in Unit
      BY DEF Unit
    <3>3. Len(s) = 4
      OBVIOUS
    <3> HIDE DEF s
    <3>2. /\ Append(s, End) \in Seq(Unit) /\ Len(Append(s, End)) = Len(s) + 1
          /\ \A k \in 1 .. Len(s) : Append(s, End)[k] = s[k]
          /\ Append(s, End)[Len(s) + 1] = End
      BY ONLY <3>1, AppendProperties
    <3> QED BY <3>1, <3>2, <3>3
  <2>2. << a, b, u, v, End >> \in Seq(Unit) /\ Len(<< a, b, u, v, End >>) = 5
    BY DEF Unit
  <2>3. \A k \in 1 .. 5 : Append(s, End)[k] = << a, b, u, v, End >>[k]
    BY <2>1
  <2> DEFINE t == Append(s, End)
           w == << a, b, u, v, End >>
  <2>4. t \in Seq(Unit) /\ w \in Seq(Unit) /\ Len(t) = 5 /\ Len(w) = 5 /\ \A k \in 1 .. 5 : t[k] = w[k]
    BY <2>1, <2>2, <2>3
  <2> HIDE DEF t, w
  <2>5. t = w
    BY <2>4, SeqEqual
  <2> QED BY <2>5 DEF t, w
<1> QED BY <1>1, <1>3

\* The halves of the number of clocks, and what a call of either answer does.
LowHalf(time) == Ntime(time) % B
HighHalf(time) == (Ntime(time) \div B) % B

\* The halves of an exposure time are values of registers.
LEMMA Halves ==
  ASSUME CtlAssumption, NEW time \in Nat
  PROVE  LowHalf(time) \in 0 .. B - 1 /\ HighHalf(time) \in 0 .. B - 1
<1>1. B \in Nat \ {0} /\ K \in Nat
  BY Sizes
<1>2. time * K \in Int
  BY <1>1
<1>3. Ntime(time) \in Int
  BY <1>2, IntOf DEF Ntime
<1>4. Ntime(time) \div B \in Int
  BY <1>1, <1>3, DivMod
<1> QED BY <1>1, <1>3, <1>4, DivMod DEF LowHalf, HighHalf

\* The transactions of set_exposure_time,
LEMMA TimeWork ==
  ASSUME CtlAssumption, NEW time \in Nat
  PROVE  /\ SetExposureTime(time) \in Seq(Work)
         /\ Append(SetExposureTime(time), End) =
              << WriteReg("low", LowHalf(time)), WriteReg("high", HighHalf(time)), ReadReg("low"), ReadReg("high"), End >>
<1>1. LowHalf(time) \in Int /\ HighHalf(time) \in Int
  <2>1. B \in Nat
    BY Sizes
  <2> QED BY <2>1, Halves
<1>2. /\ WriteReg("low", LowHalf(time)) \in Work /\ WriteReg("high", HighHalf(time)) \in Work
      /\ ReadReg("low") \in Work /\ ReadReg("high") \in Work
  BY <1>1, WorkIs DEF Registers
<1>3. SetExposureTime(time) = << WriteReg("low", LowHalf(time)), WriteReg("high", HighHalf(time)), ReadReg("low"), ReadReg("high") >>
  BY DEF SetExposureTime, LowHalf, HighHalf
<1> QED BY <1>2, <1>3, FourThenEnd

\* of enable_flashlight,
LEMMA LightWork ==
  ASSUME CtlAssumption, NEW mode \in Modes
  PROVE  /\ EnableFlashlight(mode) \in Seq(Work)
         /\ Append(EnableFlashlight(mode), End) =
              << WriteReg("flash1", And(mode)), WriteReg("flash2", And(mode)), ReadReg("flash1"), ReadReg("flash2"), End >>
<1>1. /\ WriteReg("flash1", And(mode)) \in Work /\ WriteReg("flash2", And(mode)) \in Work
      /\ ReadReg("flash1") \in Work /\ ReadReg("flash2") \in Work
  BY WorkIs DEF Registers, And
<1>3. EnableFlashlight(mode) = << WriteReg("flash1", And(mode)), WriteReg("flash2", And(mode)), ReadReg("flash1"), ReadReg("flash2") >>
  BY DEF EnableFlashlight
<1> QED BY <1>1, <1>3, FourThenEnd

\* and of the other functions.
LEMMA OtherWork ==
  /\ \A mode \in Int : SetTriggerMode(mode) \in Seq(Work)
  /\ \A p : CameraCapture(p) \in Seq(Work)
  /\ SetSharpen(1) \in Seq(Work) /\ SetContrast(1) \in Seq(Work)
  /\ \A k \in {"clock", "latch"}, v \in {0, 1} : << Sysfs(k, v) >> \in Seq(Work)
<1>1. /\ \A mode \in Int : WriteReg("mode", mode) \in Work
      /\ WriteReg("sharpen", 1) \in Work /\ WriteReg("contrast", 1) \in Work
      /\ ReadReg("mode") \in Work /\ ReadReg("sharpen") \in Work /\ ReadReg("contrast") \in Work
      /\ \A k \in {"clock", "latch"}, v \in {0, 1} : Sysfs(k, v) \in Work
  BY WorkIs DEF Registers
<1> QED BY <1>1 DEF SetTriggerMode, CameraCapture, SetSharpen, SetContrast

(***************************************************************************)
(* The shape of the state, and whose turn it is: a process that is alone   *)
(* in its call finds all others idle, and so does a call that ended alone. *)
(***************************************************************************)
CtlShape ==
  /\ DOMAIN ctlCall = Users
  /\ todo \in [Users -> Seq(Unit)] /\ got \in [Users -> Seq(Int)]
  /\ how \in [Users -> {"clean", "alone", "shared"}]
  /\ ctlReg \in [Registers -> Int] /\ ctlReg["flash1"] \in {0, 1} /\ ctlReg["flash2"] \in {0, 1}
  /\ DOMAIN pins = {"clock", "data", "latch"} /\ DOMAIN store = {Green1Red, Green2Blue, Other}
  /\ DOMAIN n_gain = Users /\ \A q \in Users : DOMAIN n_gain[q] = {Green1Red, Green2Blue}
  /\ DOMAIN m_gain = Users /\ \A q \in Users : DOMAIN m_gain[q] = AllChannels
  /\ ranged \in BOOLEAN
CtlTurns ==
  /\ \A q \in Users : EndLast(todo[q]) /\ (CtlIdle(q) => got[q] = << >>)
  /\ \A q, o \in Users : how[q] # "shared" /\ o # q => todo[o] = << >>
LastIdle ==
  last.name # "none" =>
    /\ last.how \in {"clean", "alone", "shared"} /\ last.by \in Users
    /\ DOMAIN last = {"name", "arg", "by", "how", "answer"}
    /\ last.how # "shared" => \A q \in Users : todo[q] = << >>

\* A step in the middle of a call.
Middle(p) ==
  I2cWrite(p) \/ I2cRead(p) \/ OpenDevice(p) \/ TestDevice(p) \/ SetPin(p) \/ PulseBit(p)

\* What a step in the middle of a call may change.
LEMMA MiddleDoes ==
  ASSUME CtlAssumption, CtlShape, CtlTurns, NEW p \in Users, Middle(p)
  PROVE  /\ todo[p] # << >> /\ Next1(p) \in Work
         /\ \E s : todo' = [todo EXCEPT ![p] = s] /\ EndLast(s) /\ (s = << >> => ctlCall'[p].name = "dead")
         /\ ctlCall' = ctlCall \/ \E x : ctlCall' = [ctlCall EXCEPT ![p] = x]
         /\ got' = got \/ \E x \in Int : got' = [got EXCEPT ![p] = Append(@, x)]
         /\ how' = how \/ how' = [how EXCEPT ![p] = IF @ = "clean" THEN "alone" ELSE @]
         /\ UNCHANGED << n_gain, m_gain, ranged, last >>
<1>1. todo[p] # << >> /\ Next1(p).do # "end"
  BY DEF Middle, I2cWrite, I2cRead, OpenDevice, TestDevice, SetPin, PulseBit, Doing
<1>2. EndLast(todo[p])
  BY DEF CtlTurns
<1>3. Next1(p) \in Work /\ EndLast(Tail(todo[p])) /\ Tail(todo[p]) # << >>
  BY <1>1, <1>2, EndComesLast, WorkIs DEF Next1
<1>4. \/ Goes(p) \/ Returns(p)
      \/ todo' = [todo EXCEPT ![p] = << >>] /\ ctlCall' = [ctlCall EXCEPT ![p] = NoCall("dead")]
  BY DEF Middle, I2cWrite, I2cRead, OpenDevice, TestDevice, SetPin, PulseBit, FailedWrite
<1>5. \E s : todo' = [todo EXCEPT ![p] = s] /\ EndLast(s) /\ (s = << >> => ctlCall'[p].name = "dead")
  <2>1. CASE Goes(p)
    BY <1>3, <2>1 DEF Goes
  <2>2. CASE Returns(p)
    BY <2>2, EndAlone DEF Returns
  <2>3. CASE todo' = [todo EXCEPT ![p] = << >>] /\ ctlCall' = [ctlCall EXCEPT ![p] = NoCall("dead")]
    <3>1. ctlCall'[p].name = "dead"
      BY <2>3 DEF CtlShape, NoCall
    <3> QED BY <2>3, <3>1, EndAlone
  <2> QED BY <1>4, <2>1, <2>2, <2>3
<1>6. ctlCall' = ctlCall \/ \E x : ctlCall' = [ctlCall EXCEPT ![p] = x]
  BY DEF Middle, I2cWrite, I2cRead, OpenDevice, TestDevice, SetPin, PulseBit
<1>7. got' = got \/ \E x \in Int : got' = [got EXCEPT ![p] = Append(@, x)]
  <2>1. ASSUME I2cRead(p) PROVE \E x \in Int : got' = [got EXCEPT ![p] = Append(@, x)]
    <3>1. Next1(p).of \in Registers
      BY <1>3, <2>1 DEF I2cRead, Doing, Work
    <3>2. Extended(ctlReg[Next1(p).of]) \in Int
      <4>1. ctlReg[Next1(p).of] \in Int /\ B \in Int
        <5>1. ctlReg \in [Registers -> Int]
          BY DEF CtlShape
        <5>2. B \in Int
          BY Sizes
        <5> QED BY <3>1, <5>1, <5>2
      <4> QED BY <4>1 DEF Extended
    <3> QED BY <2>1, <3>2 DEF I2cRead
  <2> QED BY <2>1 DEF Middle, I2cWrite, OpenDevice, TestDevice, SetPin, PulseBit
<1>8. how' = how \/ how' = [how EXCEPT ![p] = IF @ = "clean" THEN "alone" ELSE @]
  BY DEF Middle, I2cWrite, I2cRead, OpenDevice, TestDevice, SetPin, PulseBit, Failing
<1>9. UNCHANGED << n_gain, m_gain, ranged, last >>
  BY DEF Middle, I2cWrite, I2cRead, OpenDevice, TestDevice, SetPin, PulseBit, ctlHistory
<1> QED BY <1>1, <1>3, <1>5, <1>6, <1>7, <1>8, <1>9

\* The last step of a call.
LEMMA EndDoes ==
  ASSUME CtlShape, CtlTurns, NEW p \in Users, EndCall(p)
  PROVE  /\ todo[p] = << End >> /\ todo' = [todo EXCEPT ![p] = << >>]
         /\ ctlCall' = [ctlCall EXCEPT ![p] = NoCall("idle")] /\ got' = [got EXCEPT ![p] = << >>]
         /\ how' = [how EXCEPT ![p] = "shared"]
         /\ UNCHANGED << ctlReg, n_gain, pins, store, shift, ranged >>
         /\ m_gain' = IF ctlCall[p].name \in Channels THEN [m_gain EXCEPT ![p][ctlCall[p].name] = ctlCall[p].arg] ELSE m_gain
<1>1. todo[p] # << >> /\ Head(todo[p]).do = "end" /\ EndLast(todo[p])
  BY DEF EndCall, Doing, Next1, CtlTurns
<1>2. Head(todo[p]) = End /\ Tail(todo[p]) = << >>
  BY <1>1, EndComesLast, WorkIs
<1>3. todo[p] = << End >>
  <2>1. todo[p] \in Seq(Unit) /\ Len(todo[p]) = 1 /\ todo[p][1] = End
    <3>1. todo[p] \in Seq(Unit)
      BY <1>1 DEF EndLast
    <3>2. Len(Tail(todo[p])) = Len(todo[p]) - 1 /\ Head(todo[p]) = todo[p][1] /\ Len(todo[p]) \in Nat
      BY <1>1, <3>1, HeadTailProperties
    <3>3. Len(Tail(todo[p])) = 0
      <4>1. Len(<< >>) = 0
        OBVIOUS
      <4> QED BY ONLY <1>2, <4>1
    <3> QED BY <1>2, <3>1, <3>2, <3>3
  <2>2. << End >> \in Seq(Unit) /\ Len(<< End >>) = 1 /\ << End >>[1] = End
    BY DEF Unit
  <2> DEFINE s == todo[p]
             t == << End >>
  <2>3. s \in Seq(Unit) /\ t \in Seq(Unit) /\ Len(s) = 1 /\ Len(t) = 1 /\ \A k \in 1 .. 1 : s[k] = t[k]
    BY <2>1, <2>2
  <2> HIDE DEF s, t
  <2>4. s = t
    BY <2>3, SeqEqual
  <2> QED BY <2>4 DEF s, t
<1> QED BY <1>2, <1>3 DEF EndCall, Goes, sensor

\* What a call begins with.
Started(p, name, arg, steps) ==
  /\ Begin(p, name, arg, steps) /\ steps \in Seq(Work)
  /\ name = "exposure" => arg \in Times /\ steps = SetExposureTime(arg)
  /\ name = "flash" => arg \in Modes /\ steps = EnableFlashlight(arg)
  /\ IF name \in Channels
     THEN LET r == GainRegister[name]
              value == Packed(n_gain[p][r], name, arg)
          IN  /\ steps = WriteValue(r, value) /\ n_gain' = [n_gain EXCEPT ![p][r] = value]
              /\ ranged' = (ranged /\ arg = Low(arg)) /\ arg \in Gains
     ELSE UNCHANGED << n_gain, ranged >>

\* Every call begins with transactions that are work.
LEMMA BeginDoes ==
  ASSUME CtlAssumption, NEW p \in Users, CallDevice(p) \/ SetGain(p)
  PROVE  \E name, arg, steps : Started(p, name, arg, steps)
<1> DEFINE Device1(name, arg, steps) == Begin(p, name, arg, steps) /\ UNCHANGED << n_gain, ranged >>
<1>1. Channels \subseteq {"green1", "green2", "red", "blue"}
  BY DEF CtlAssumption
<1>2. ASSUME NEW name, NEW arg, NEW steps, name \notin {"green1", "green2", "red", "blue", "exposure", "flash"},
             steps \in Seq(Work), Device1(name, arg, steps)
      PROVE  Started(p, name, arg, steps)
  BY <1>1, <1>2 DEF Started
<1>3. ASSUME CallDevice(p) PROVE \E name, arg, steps : Started(p, name, arg, steps)
  <2>1. UNCHANGED << n_gain, ranged >>
    BY <1>3 DEF CallDevice
  <2>2. CASE Begin(p, "init", 0, InitCamera)
    <3>1. Started(p, "init", 0, InitCamera)
      BY <1>2, <2>1, <2>2, InitWork
    <3> QED BY <3>1
  <2>3. ASSUME NEW mode \in {SoftwareMode, VideoMode}, Begin(p, "mode", mode, SetTriggerMode(mode))
        PROVE  \E name, arg, steps : Started(p, name, arg, steps)
    <3>1. SetTriggerMode(mode) \in Seq(Work)
      BY OtherWork DEF SoftwareMode, VideoMode
    <3>2. Started(p, "mode", mode, SetTriggerMode(mode))
      BY <1>2, <2>1, <2>3, <3>1
    <3> QED BY <3>2
  <2>4. ASSUME NEW time \in Times, Begin(p, "exposure", time, SetExposureTime(time))
        PROVE  \E name, arg, steps : Started(p, name, arg, steps)
    <3>1. SetExposureTime(time) \in Seq(Work)
      BY TimeWork DEF CtlAssumption
    <3>2. Started(p, "exposure", time, SetExposureTime(time))
      BY <1>1, <2>1, <2>4, <3>1 DEF Started
    <3> QED BY <3>2
  <2>5. CASE Begin(p, "capture", 0, CameraCapture(p))
    <3>1. Started(p, "capture", 0, CameraCapture(p))
      BY <1>2, <2>1, <2>5, OtherWork
    <3> QED BY <3>1
  <2>6. ASSUME NEW mode \in Modes, Begin(p, "flash", mode, EnableFlashlight(mode))
        PROVE  \E name, arg, steps : Started(p, name, arg, steps)
    <3>1. EnableFlashlight(mode) \in Seq(Work)
      BY LightWork
    <3>2. Started(p, "flash", mode, EnableFlashlight(mode))
      BY <1>1, <2>1, <2>6, <3>1 DEF Started
    <3> QED BY <3>2
  <2>7. CASE Begin(p, "sharpen", 1, SetSharpen(1))
    <3>1. Started(p, "sharpen", 1, SetSharpen(1))
      BY <1>2, <2>1, <2>7, OtherWork
    <3> QED BY <3>1
  <2>8. CASE Begin(p, "contrast", 1, SetContrast(1))
    <3>1. Started(p, "contrast", 1, SetContrast(1))
      BY <1>2, <2>1, <2>8, OtherWork
    <3> QED BY <3>1
  <2>9. CASE Begin(p, "gain", {0}, WriteValue(Other, {0}))
    <3>1. Started(p, "gain", {0}, WriteValue(Other, {0}))
      BY <1>2, <2>1, <2>9, WordWork
    <3> QED BY <3>1
  <2>10. ASSUME NEW k \in {"clock", "latch"}, NEW v \in {0, 1}, Begin(p, "gpio", v, << Sysfs(k, v) >>)
         PROVE  \E name, arg, steps : Started(p, name, arg, steps)
    <3>1. Started(p, "gpio", v, << Sysfs(k, v) >>)
      BY <1>2, <2>1, <2>10, OtherWork
    <3> QED BY <3>1
  <2> QED BY <1>3, <2>2, <2>3, <2>4, <2>5, <2>6, <2>7, <2>8, <2>9, <2>10 DEF CallDevice
<1>4. ASSUME SetGain(p) PROVE \E name, arg, steps : Started(p, name, arg, steps)
  <2>1. PICK channel \in Channels, gain \in Gains :
          LET r == GainRegister[channel]
              value == Packed(n_gain[p][r], channel, gain)
          IN  /\ Begin(p, channel, gain, WriteValue(r, value))
              /\ n_gain' = [n_gain EXCEPT ![p][r] = value]
              /\ ranged' = (ranged /\ gain = Low(gain))
    BY <1>4 DEF SetGain
  <2> DEFINE r == GainRegister[channel]
             value == Packed(n_gain[p][r], channel, gain)
  <2>2. WriteValue(r, value) \in Seq(Work)
    BY WordWork
  <2>3. channel # "exposure" /\ channel # "flash"
    BY <1>1
  <2>4. Started(p, channel, gain, WriteValue(r, value))
    BY <2>1, <2>2, <2>3 DEF Started
  <2> QED BY <2>4
<1> QED BY <1>3, <1>4

\* All others are shared after a step of p, and have not moved.
LEMMA OthersWait ==
  ASSUME CtlAssumption, CtlShape, CtlTurns, NEW p \in Users, UserStep(p), NEW q \in Users, q # p
  PROVE  /\ how'[q] = "shared" /\ todo'[q] = todo[q] /\ got'[q] = got[q] /\ ctlCall'[q] = ctlCall[q]
         /\ n_gain'[q] = n_gain[q] /\ m_gain'[q] = m_gain[q]
<1>1. CASE Middle(p)
  <2>1. how[q] = "shared"
    <3>1. todo[p] # << >>
      BY <1>1, MiddleDoes
    <3> QED BY <3>1 DEF CtlTurns
  <2>2. how' = how \/ how' = [how EXCEPT ![p] = IF @ = "clean" THEN "alone" ELSE @]
    BY <1>1, MiddleDoes
  <2>3. how'[q] = "shared"
    BY <2>1, <2>2 DEF CtlShape
  <2>4. todo'[q] = todo[q]
    <3>1. PICK s : todo' = [todo EXCEPT ![p] = s]
      BY <1>1, MiddleDoes
    <3> QED BY <3>1 DEF CtlShape
  <2>5. got'[q] = got[q]
    <3>1. got' = got \/ \E x \in Int : got' = [got EXCEPT ![p] = Append(@, x)]
      BY <1>1, MiddleDoes
    <3> QED BY <3>1 DEF CtlShape
  <2>6. ctlCall'[q] = ctlCall[q]
    <3>1. ctlCall' = ctlCall \/ \E x : ctlCall' = [ctlCall EXCEPT ![p] = x]
      BY <1>1, MiddleDoes
    <3> QED BY <3>1 DEF CtlShape
  <2>7. n_gain' = n_gain /\ m_gain' = m_gain
    BY <1>1, MiddleDoes
  <2> QED BY <2>3, <2>4, <2>5, <2>6, <2>7
<1>2. CASE EndCall(p)
  <2>1. todo[p] # << >>
    BY <1>2, EndDoes, EndAlone
  <2>2. how[q] = "shared"
    BY <2>1 DEF CtlTurns
  <2>3. /\ todo' = [todo EXCEPT ![p] = << >>] /\ ctlCall' = [ctlCall EXCEPT ![p] = NoCall("idle")]
        /\ got' = [got EXCEPT ![p] = << >>] /\ how' = [how EXCEPT ![p] = "shared"] /\ n_gain' = n_gain
        /\ m_gain' = IF ctlCall[p].name \in Channels THEN [m_gain EXCEPT ![p][ctlCall[p].name] = ctlCall[p].arg] ELSE m_gain
    BY <1>2, EndDoes
  <2>4. m_gain'[q] = m_gain[q]
    BY <2>3 DEF CtlShape
  <2> QED BY <2>2, <2>3, <2>4 DEF CtlShape
<1>3. CASE CallDevice(p) \/ SetGain(p)
  <2>1. PICK name, arg, steps : Started(p, name, arg, steps)
    BY <1>3, BeginDoes
  <2>2. n_gain'[q] = n_gain[q]
    BY <2>1 DEF Started, CtlShape
  <2>3. /\ ctlCall' = [ctlCall EXCEPT ![p] = [name |-> name, arg |-> arg]]
        /\ todo' = [todo EXCEPT ![p] = Append(steps, End)] /\ how' = How(p) /\ UNCHANGED << got, m_gain >>
    BY <2>1 DEF Started, Begin
  <2> QED BY <2>2, <2>3 DEF CtlShape, How
<1> QED BY <1>1, <1>2, <1>3 DEF UserStep, Middle

(***************************************************************************)
(* Every step keeps the shape and the turns.                               *)
(***************************************************************************)
LEMMA ShapeKeptMiddle ==
  ASSUME CtlAssumption, CtlShape, CtlTurns, NEW p \in Users, Middle(p)
  PROVE  CtlShape' /\ CtlTurns'
<1>1. todo[p] # << >> /\ Next1(p) \in Work
  BY MiddleDoes
<1>2. PICK s : todo' = [todo EXCEPT ![p] = s] /\ EndLast(s) /\ (s = << >> => ctlCall'[p].name = "dead")
  BY MiddleDoes
<1>3. todo' \in [Users -> Seq(Unit)]
  BY <1>2 DEF CtlShape, EndLast
<1>4. DOMAIN ctlCall' = Users
  <2>1. ctlCall' = ctlCall \/ \E x : ctlCall' = [ctlCall EXCEPT ![p] = x]
    BY MiddleDoes
  <2> QED BY <2>1 DEF CtlShape
<1>5. got' \in [Users -> Seq(Int)] /\ \A q \in Users : q # p => got'[q] = got[q]
  <2>1. got' = got \/ \E x \in Int : got' = [got EXCEPT ![p] = Append(@, x)]
    BY MiddleDoes
  <2>2. got \in [Users -> Seq(Int)]
    BY DEF CtlShape
  <2>3. ASSUME NEW x \in Int PROVE Append(got[p], x) \in Seq(Int)
    BY <2>2, AppendProperties
  <2> QED BY <2>1, <2>2, <2>3
<1>6. how' \in [Users -> {"clean", "alone", "shared"}] /\ (how'[p] # "shared" => how[p] # "shared")
  <2>1. how' = how \/ how' = [how EXCEPT ![p] = IF @ = "clean" THEN "alone" ELSE @]
    BY MiddleDoes
  <2> QED BY <2>1 DEF CtlShape
<1>7. ctlReg' \in [Registers -> Int] /\ ctlReg'["flash1"] \in {0, 1} /\ ctlReg'["flash2"] \in {0, 1}
  <2>1. ctlReg' = ctlReg \/ (Next1(p).do = "write" /\ ctlReg' = [ctlReg EXCEPT ![Next1(p).of] = Next1(p).value])
    BY DEF Middle, I2cWrite, I2cRead, OpenDevice, TestDevice, SetPin, PulseBit, Doing
  <2>2. ASSUME Next1(p).do = "write"
        PROVE  /\ Next1(p).of \in Registers /\ Next1(p).value \in Int
               /\ Next1(p).of \in {"flash1", "flash2"} => Next1(p).value \in {0, 1}
    BY <1>1, <2>2 DEF Work
  <2> QED BY <2>1, <2>2 DEF CtlShape, Registers
<1>8. DOMAIN pins' = DOMAIN pins /\ DOMAIN store' = DOMAIN store
  BY DEF Middle, I2cWrite, I2cRead, OpenDevice, TestDevice, SetPin, PulseBit, sensor, SensorSees, SensorSeesBit, Latched
<1>9. n_gain' = n_gain /\ m_gain' = m_gain /\ ranged' = ranged
  BY MiddleDoes
<1>10. CtlShape'
  BY <1>3, <1>4, <1>5, <1>6, <1>7, <1>8, <1>9 DEF CtlShape
<1>11. ASSUME NEW q \in Users PROVE EndLast(todo'[q]) /\ (CtlIdle(q)' => got'[q] = << >>)
  <2>1. CASE q = p
    BY <1>2, <2>1 DEF CtlShape, CtlIdle
  <2>2. CASE q # p
    <3>1. todo'[q] = todo[q] /\ got'[q] = got[q] /\ ctlCall'[q] = ctlCall[q]
      BY <2>2, OthersWait DEF UserStep, Middle
    <3> QED BY <3>1 DEF CtlTurns, CtlIdle
  <2> QED BY <2>1, <2>2
<1>12. ASSUME NEW q \in Users, NEW o \in Users, how'[q] # "shared", o # q PROVE todo'[o] = << >>
  <2>1. q = p
    BY <1>12, OthersWait DEF UserStep, Middle
  <2>2. how[p] # "shared" /\ todo'[o] = todo[o]
    BY <1>6, <1>12, <2>1, OthersWait DEF UserStep, Middle
  <2> QED BY <1>12, <2>1, <2>2 DEF CtlTurns
<1> QED BY <1>10, <1>11, <1>12 DEF CtlTurns

\* The end of a call keeps the shape and the turns,
LEMMA ShapeKeptEnd ==
  ASSUME CtlAssumption, CtlShape, CtlTurns, NEW p \in Users, EndCall(p)
  PROVE  CtlShape' /\ CtlTurns'
<1>1. /\ todo' = [todo EXCEPT ![p] = << >>] /\ ctlCall' = [ctlCall EXCEPT ![p] = NoCall("idle")]
      /\ got' = [got EXCEPT ![p] = << >>] /\ how' = [how EXCEPT ![p] = "shared"]
      /\ UNCHANGED << ctlReg, n_gain, pins, store, ranged >>
      /\ m_gain' = IF ctlCall[p].name \in Channels THEN [m_gain EXCEPT ![p][ctlCall[p].name] = ctlCall[p].arg] ELSE m_gain
  BY EndDoes
<1>2. << >> \in Seq(Unit) /\ << >> \in Seq(Int)
  BY EmptySeq
<1>3. DOMAIN m_gain' = Users /\ \A q \in Users : DOMAIN m_gain'[q] = AllChannels
  BY <1>1 DEF CtlShape
<1>4. CtlShape'
  BY <1>1, <1>2, <1>3 DEF CtlShape
<1>5. ASSUME NEW q \in Users PROVE EndLast(todo'[q]) /\ (CtlIdle(q)' => got'[q] = << >>)
  <2>1. CASE q = p
    BY <1>1, <2>1, EndAlone DEF CtlShape
  <2>2. CASE q # p
    BY <1>1, <2>2 DEF CtlShape, CtlTurns, CtlIdle
  <2> QED BY <2>1, <2>2
<1>6. ASSUME NEW q \in Users PROVE how'[q] = "shared"
  BY <1>1, OthersWait DEF CtlShape, UserStep
<1> QED BY <1>4, <1>5, <1>6 DEF CtlTurns

\* and so does the beginning of one,
LEMMA ShapeKeptBegin ==
  ASSUME CtlAssumption, CtlShape, CtlTurns, NEW p \in Users, CallDevice(p) \/ SetGain(p)
  PROVE  CtlShape' /\ CtlTurns'
<1>1. PICK name, arg, steps : Started(p, name, arg, steps)
  BY BeginDoes
<1>2. /\ ctlCall' = [ctlCall EXCEPT ![p] = [name |-> name, arg |-> arg]] /\ CtlIdle(p)
      /\ todo' = [todo EXCEPT ![p] = Append(steps, End)] /\ how' = How(p)
      /\ UNCHANGED << got, m_gain, ctlReg, pins, shift, store >>
  BY <1>1 DEF Started, Begin, sensor
<1>3. EndLast(Append(steps, End)) /\ Append(steps, End) # << >>
  BY <1>1, ScriptEnds DEF Started
<1>4. todo' \in [Users -> Seq(Unit)]
  BY <1>2, <1>3 DEF CtlShape, EndLast
<1>5. how' \in [Users -> {"clean", "alone", "shared"}]
  BY <1>2 DEF How
<1>6. DOMAIN n_gain' = Users /\ \A q \in Users : DOMAIN n_gain'[q] = {Green1Red, Green2Blue}
  BY <1>1 DEF CtlShape, Started
<1>7. ranged' \in BOOLEAN
  BY <1>1 DEF CtlShape, Started
<1>8. CtlShape'
  BY <1>2, <1>4, <1>5, <1>6, <1>7 DEF CtlShape
<1>9. ASSUME NEW q \in Users PROVE EndLast(todo'[q]) /\ (CtlIdle(q)' => got'[q] = << >>)
  <2>1. CASE q = p
    BY <1>2, <1>3, <2>1 DEF CtlShape, CtlIdle
  <2>2. CASE q # p
    BY <1>2, <2>2 DEF CtlShape, CtlTurns, CtlIdle
  <2> QED BY <2>1, <2>2
<1>10. ASSUME NEW q \in Users, NEW o \in Users, how'[q] # "shared", o # q PROVE todo'[o] = << >>
  <2>1. q = p /\ Alone(p)
    BY <1>2, <1>10 DEF How
  <2> QED BY <1>2, <1>10, <2>1 DEF Alone, CtlShape
<1> QED BY <1>8, <1>9, <1>10 DEF CtlTurns

\* an undone pin, which leaves no call clean,
LEMMA ShapeKeptBank ==
  ASSUME CtlShape, CtlTurns, BankUndoes
  PROVE  CtlShape' /\ CtlTurns' /\ UNCHANGED << ctlCall, todo, got, ctlReg, n_gain, m_gain, ranged >>
         /\ \A q \in Users : how'[q] # "clean" /\ (how'[q] = "shared" <=> how[q] = "shared")
<1>1. UNCHANGED << ctlCall, todo, got, ctlReg, n_gain, m_gain, ranged >>
  BY DEF BankUndoes
<1>2. how' = [q \in Users |-> IF how[q] = "clean" THEN "alone" ELSE how[q]]
  BY DEF BankUndoes
<1>3. DOMAIN pins' = DOMAIN pins /\ DOMAIN store' = DOMAIN store
  BY DEF BankUndoes, SensorSees, Latched
<1>4. CtlShape'
  BY <1>1, <1>2, <1>3 DEF CtlShape
<1>5. CtlTurns'
  BY <1>1, <1>2 DEF CtlShape, CtlTurns, CtlIdle
<1> QED BY <1>1, <1>2, <1>4, <1>5 DEF CtlShape

\* and every step.
LEMMA ShapeKept ==
  ASSUME CtlAssumption, CtlShape, CtlTurns, [CtlNext]_ctlVars
  PROVE  CtlShape' /\ CtlTurns'
<1>1. CASE UNCHANGED ctlVars
  BY <1>1 DEF ctlVars, procVars, sensor, ctlHistory, CtlShape, CtlTurns, CtlIdle
<1>2. ASSUME NEW p \in Users, UserStep(p) PROVE CtlShape' /\ CtlTurns'
  BY <1>2, ShapeKeptMiddle, ShapeKeptEnd, ShapeKeptBegin DEF UserStep, Middle
<1> QED BY <1>1, <1>2, ShapeKeptBank DEF CtlNext

\* No process was disturbed in a call that ended alone.
LEMMA LastKept ==
  ASSUME CtlAssumption, CtlShape, CtlTurns, LastIdle, [CtlNext]_ctlVars
  PROVE  LastIdle'
<1>1. CASE UNCHANGED ctlVars
  BY <1>1 DEF ctlVars, procVars, ctlHistory, LastIdle
<1>2. ASSUME NEW p \in Users, UserStep(p) PROVE LastIdle'
  <2>1. CASE Middle(p)
    <3>1. todo[p] # << >> /\ last' = last
      BY <2>1, MiddleDoes
    <3> QED BY <3>1 DEF LastIdle
  <2>2. CASE CallDevice(p) \/ SetGain(p)
    BY <2>2, BeginDoes DEF Started, Begin, LastIdle
  <2>3. CASE EndCall(p)
    <3>1. last' = [name |-> ctlCall[p].name, arg |-> ctlCall[p].arg, by |-> p, how |-> how[p], answer |-> Answer(p)]
      BY <2>3 DEF EndCall
    <3>2. todo' = [todo EXCEPT ![p] = << >>]
      BY <2>3, EndDoes
    <3>3. how[p] # "shared" => \A q \in Users : todo'[q] = << >>
      BY <3>2 DEF CtlTurns, CtlShape
    <3> QED BY <3>1, <3>3 DEF LastIdle, CtlShape
  <2> QED BY <1>2, <2>1, <2>2, <2>3 DEF UserStep, Middle
<1>3. CASE BankUndoes
  BY <1>3 DEF BankUndoes, LastIdle
<1> QED BY <1>1, <1>2, <1>3 DEF CtlNext

(***************************************************************************)
(* What a call that is alone has done: set_exposure_time and               *)
(* enable_flashlight, for what is left of the call, what was read, and the *)
(* registers.                                                              *)
(***************************************************************************)
One == << End >>
Two(v) == << v, End >>
Three(u, v) == << u, v, End >>
Four(b, u, v) == << b, u, v, End >>
Five(a, b, u, v) == << a, b, u, v, End >>
Read1(x) == << x >>
Read2(x, y) == << x, y >>

Exposing(s, reads, r, time) ==
  LET lo == LowHalf(time)
      hi == HighHalf(time)
  IN  \/ /\ s = Five(WriteReg("low", lo), WriteReg("high", hi), ReadReg("low"), ReadReg("high"))
         /\ reads = << >>
      \/ /\ s = Four(WriteReg("high", hi), ReadReg("low"), ReadReg("high"))
         /\ reads = << >> /\ r["low"] = lo
      \/ /\ s = Three(ReadReg("low"), ReadReg("high"))
         /\ reads = << >> /\ r["low"] = lo /\ r["high"] = hi
      \/ /\ s = Two(ReadReg("high")) /\ r["low"] = lo /\ r["high"] = hi
         /\ \E x \in ReadOf(lo) : reads = Read1(x)
      \/ /\ s = One /\ r["low"] = lo /\ r["high"] = hi
         /\ \E x \in ReadOf(lo), y \in ReadOf(hi) : reads = Read2(x, y)
      \/ s = One /\ reads = << >>
Flashing(s, reads, r, mode) ==
  \/ /\ s = Five(WriteReg("flash1", And(mode)), WriteReg("flash2", And(mode)), ReadReg("flash1"), ReadReg("flash2"))
     /\ reads = << >>
  \/ /\ s = Four(WriteReg("flash2", And(mode)), ReadReg("flash1"), ReadReg("flash2")) /\ reads = << >>
  \/ s = Three(ReadReg("flash1"), ReadReg("flash2")) /\ reads = << >>
  \/ s = Two(ReadReg("flash2")) /\ \E x \in ReadOf(r["flash1"]) : reads = Read1(x)
  \/ s = One /\ \E x \in ReadOf(r["flash1"]), y \in ReadOf(r["flash2"]) : reads = Read2(x, y)

\* Alone, each process is at one of these steps, and the last answer is true.
Exposures == \A q \in Users :
  todo[q] # << >> /\ how[q] # "shared" /\ ctlCall[q].name = "exposure" =>
    ctlCall[q].arg \in Times /\ Exposing(todo[q], got[q], ctlReg, ctlCall[q].arg)
Flashes == \A q \in Users :
  todo[q] # << >> /\ how[q] # "shared" /\ ctlCall[q].name = "flash" =>
    ctlCall[q].arg \in Modes /\ Flashing(todo[q], got[q], ctlReg, ctlCall[q].arg)

\* What is left after a transaction.
LEMMA WhatIsLeft ==
  /\ \A a, b, u, v : Head(Five(a, b, u, v)) = a /\ Tail(Five(a, b, u, v)) = Four(b, u, v)
  /\ \A b, u, v : Head(Four(b, u, v)) = b /\ Tail(Four(b, u, v)) = Three(u, v)
  /\ \A u, v : Head(Three(u, v)) = u /\ Tail(Three(u, v)) = Two(v)
  /\ \A v : Head(Two(v)) = v /\ Tail(Two(v)) = One
  /\ Head(One) = End
<1>1. ASSUME NEW a, NEW b, NEW u, NEW v PROVE Head(Five(a, b, u, v)) = a /\ Tail(Five(a, b, u, v)) = Four(b, u, v)
  <2>1. Head(Five(a, b, u, v)) = a
    BY DEF Five
  <2>2. Tail(Five(a, b, u, v)) = Four(b, u, v)
    BY DEF Five, Four
  <2> QED BY <2>1, <2>2
<1>2. ASSUME NEW b, NEW u, NEW v PROVE Head(Four(b, u, v)) = b /\ Tail(Four(b, u, v)) = Three(u, v)
  BY DEF Four, Three
<1>3. ASSUME NEW u, NEW v PROVE Head(Three(u, v)) = u /\ Tail(Three(u, v)) = Two(v)
  BY DEF Three, Two
<1>4. ASSUME NEW v PROVE Head(Two(v)) = v /\ Tail(Two(v)) = One
  BY DEF Two, One
<1>5. Head(One) = End
  BY DEF One
<1> QED BY <1>1, <1>2, <1>3, <1>4, <1>5

\* What was read after one more read.
LEMMA ReadingOn ==
  /\ \A s, x : s = << >> => Append(s, x) = Read1(x)
  /\ \A x, y : Append(Read1(x), y) = Read2(x, y)
  /\ \A x : Read1(x) # << >>
<1>1. ASSUME NEW x PROVE Read1(x) # << >> /\ Append(<< >>, x) = Read1(x)
  BY DEF Read1
<1>2. ASSUME NEW x, NEW y PROVE Append(Read1(x), y) = Read2(x, y)
  <2> DEFINE s == << x >>
             w == << x, y >>
             t == Append(s, y)
             V == {x, y}
  <2>0. s \in Seq(V)
    OBVIOUS
  <2>1. Len(s) = 1 /\ s[1] = x
    OBVIOUS
  <2>2. w \in Seq(V) /\ Len(w) = 2 /\ w[1] = x /\ w[2] = y
    OBVIOUS
  <2>3. y \in V
    OBVIOUS
  <2> HIDE DEF s, w, V
  <2>4. /\ t \in Seq(V) /\ Len(t) = Len(s) + 1 /\ t[Len(s) + 1] = y
        /\ \A k \in 1 .. Len(s) : t[k] = s[k]
    BY <2>0, <2>3, AppendProperties
  <2> HIDE DEF t
  <2>5. Len(t) = Len(w) /\ \A k \in 1 .. Len(t) : t[k] = w[k]
    BY <2>1, <2>2, <2>4
  <2>6. t = w
    BY <2>2, <2>4, <2>5, SeqEqual
  <2> QED BY <2>6 DEF t, s, w, Read1, Read2
<1> QED BY <1>1, <1>2

\* A call of set_exposure_time that is alone goes from one of its steps to the
\* next, whatever fails.
LEMMA ExposuresKept ==
  ASSUME CtlAssumption, CtlShape, CtlTurns, Exposures, [CtlNext]_ctlVars
  PROVE  Exposures'
<1>1. CASE UNCHANGED ctlVars
  BY <1>1 DEF ctlVars, procVars, Exposures
<1>2. CASE BankUndoes
  <2>1. /\ UNCHANGED << ctlCall, todo, got, ctlReg >>
        /\ \A q \in Users : how'[q] = "shared" <=> how[q] = "shared"
    BY <1>2, ShapeKeptBank
  <2> QED BY <2>1 DEF Exposures
<1>3. ASSUME NEW p \in Users, UserStep(p) PROVE Exposures'
  <2> SUFFICES ASSUME todo'[p] # << >>, how'[p] # "shared", ctlCall'[p].name = "exposure"
               PROVE  ctlCall'[p].arg \in Times /\ Exposing(todo'[p], got'[p], ctlReg', ctlCall'[p].arg)
    BY <1>3, OthersWait DEF Exposures
  <2>1. CASE EndCall(p)
    BY <2>1, EndDoes DEF CtlShape
  <2>2. CASE CallDevice(p) \/ SetGain(p)
    <3>1. PICK name, arg, steps : Started(p, name, arg, steps)
      BY <2>2, BeginDoes
    <3>2. /\ ctlCall' = [ctlCall EXCEPT ![p] = [name |-> name, arg |-> arg]] /\ CtlIdle(p)
          /\ todo' = [todo EXCEPT ![p] = Append(steps, End)] /\ got' = got
      BY <3>1 DEF Started, Begin
    <3>3. ctlCall'[p].name = name /\ ctlCall'[p].arg = arg /\ todo'[p] = Append(steps, End) /\ got'[p] = << >>
      BY <3>2 DEF CtlShape, CtlTurns
    <3>4. arg \in Times /\ steps = SetExposureTime(arg)
      BY <3>1, <3>3 DEF Started
    <3>5. arg \in Nat
      BY <3>4 DEF CtlAssumption
    <3>6. Append(steps, End) =
            Five(WriteReg("low", LowHalf(arg)), WriteReg("high", HighHalf(arg)), ReadReg("low"), ReadReg("high"))
      BY <3>4, <3>5, TimeWork DEF Five
    <3> QED BY <3>3, <3>4, <3>6 DEF Exposing
  <2>3. CASE Middle(p)
    <3>1. todo[p] # << >> /\ how[p] # "shared"
      <4>1. how' = how \/ how' = [how EXCEPT ![p] = IF @ = "clean" THEN "alone" ELSE @]
        BY <2>3, MiddleDoes
      <4> QED BY <2>3, <4>1, MiddleDoes DEF CtlShape
    <3>2. ~TestDevice(p) => ctlCall' = ctlCall
      BY <2>3 DEF Middle, I2cWrite, I2cRead, OpenDevice, SetPin, PulseBit
    <3>3. TestDevice(p) => ctlCall'[p] = ctlCall[p] \/ ctlCall'[p] = NoCall("dead")
      BY DEF TestDevice, CtlShape
    <3>4. ctlCall'[p] = ctlCall[p]
      BY <3>2, <3>3 DEF NoCall
    <3> DEFINE time == ctlCall[p].arg
               lo == LowHalf(time)
               hi == HighHalf(time)
    <3>5. time \in Times /\ time \in Nat /\ ctlCall[p].name = "exposure" /\ Exposing(todo[p], got[p], ctlReg, time)
      BY <3>1, <3>4 DEF Exposures, CtlAssumption
    <3>6. Next1(p).do \in {"write", "read", "end"} /\ Next1(p).of # "test"
      BY <3>5, WhatIsLeft DEF Exposing, Next1, WriteReg, ReadReg, End
    <3>7. I2cWrite(p) \/ I2cRead(p)
      BY <2>3, <3>6 DEF Middle, OpenDevice, TestDevice, SetPin, PulseBit, Doing
    <3>8. ASSUME I2cWrite(p) PROVE Exposing(todo'[p], got'[p], ctlReg', time)
      <4>1. Next1(p).do = "write" /\ got' = got
        BY <3>8 DEF I2cWrite, Doing
      <4>2. \/ ctlReg' = [ctlReg EXCEPT ![Next1(p).of] = Next1(p).value] /\ todo'[p] = Tail(todo[p])
            \/ todo'[p] = One
        BY <3>5, <3>8 DEF I2cWrite, FailedWrite, Goes, Returns, CtlShape, One
      <4>3. got[p] = << >>
        BY <3>5, <4>1, WhatIsLeft DEF Exposing, Next1, WriteReg, ReadReg, End
      <4>4. CASE todo[p] = Five(WriteReg("low", lo), WriteReg("high", hi), ReadReg("low"), ReadReg("high"))
        <5>1. Next1(p) = WriteReg("low", lo) /\ Tail(todo[p]) = Four(WriteReg("high", hi), ReadReg("low"), ReadReg("high"))
          BY <4>4, WhatIsLeft DEF Next1
        <5>2. ctlReg' = [ctlReg EXCEPT ![Next1(p).of] = Next1(p).value] => ctlReg'["low"] = lo
          BY <5>1 DEF WriteReg, CtlShape, Registers
        <5> QED BY <4>1, <4>2, <4>3, <5>1, <5>2 DEF Exposing
      <4>5. CASE todo[p] = Four(WriteReg("high", hi), ReadReg("low"), ReadReg("high")) /\ ctlReg["low"] = lo
        <5>1. Next1(p) = WriteReg("high", hi) /\ Tail(todo[p]) = Three(ReadReg("low"), ReadReg("high"))
          BY <4>5, WhatIsLeft DEF Next1
        <5>2. ctlReg' = [ctlReg EXCEPT ![Next1(p).of] = Next1(p).value] => ctlReg'["high"] = hi /\ ctlReg'["low"] = lo
          BY <4>5, <5>1 DEF WriteReg, CtlShape, Registers
        <5> QED BY <4>1, <4>2, <4>3, <5>1, <5>2 DEF Exposing
      <4> QED BY <3>5, <4>1, <4>4, <4>5, WhatIsLeft DEF Exposing, Next1, WriteReg, ReadReg, End
    <3>9. ASSUME I2cRead(p) PROVE Exposing(todo'[p], got'[p], ctlReg', time)
      <4>1. Next1(p).do = "read" /\ ctlReg' = ctlReg /\ todo'[p] = Tail(todo[p])
        BY <3>9 DEF I2cRead, Doing, Goes, CtlShape
      <4>2. \E x \in ReadOf(ctlReg[Next1(p).of]) : got'[p] = Append(got[p], x)
        BY <3>9 DEF I2cRead, ReadOf, Extended, CtlShape
      <4>3. CASE todo[p] = Three(ReadReg("low"), ReadReg("high")) /\ got[p] = << >> /\ ctlReg["low"] = lo /\ ctlReg["high"] = hi
        <5>1. Next1(p) = ReadReg("low") /\ Tail(todo[p]) = Two(ReadReg("high"))
          BY <4>3, WhatIsLeft DEF Next1
        <5>2. PICK x \in ReadOf(lo) : got'[p] = Append(got[p], x)
          BY <4>2, <4>3, <5>1 DEF ReadReg
        <5>3. got'[p] = Read1(x)
          BY <4>3, <5>2, ReadingOn
        <5> QED BY <4>1, <4>3, <5>1, <5>3 DEF Exposing
      <4>4. CASE todo[p] = Two(ReadReg("high")) /\ ctlReg["low"] = lo /\ ctlReg["high"] = hi /\ \E x \in ReadOf(lo) : got[p] = Read1(x)
        <5>1. Next1(p) = ReadReg("high") /\ Tail(todo[p]) = One
          BY <4>4, WhatIsLeft DEF Next1
        <5>2. PICK x \in ReadOf(lo) : got[p] = Read1(x)
          BY <4>4
        <5>3. PICK y \in ReadOf(hi) : got'[p] = Append(got[p], y)
          BY <4>2, <4>4, <5>1 DEF ReadReg
        <5>4. got'[p] = Read2(x, y)
          BY <5>2, <5>3, ReadingOn
        <5> QED BY <4>1, <4>4, <5>1, <5>4 DEF Exposing
      <4> QED BY <3>5, <4>1, <4>3, <4>4, WhatIsLeft DEF Exposing, Next1, WriteReg, ReadReg, End
    <3> QED BY <3>4, <3>5, <3>7, <3>8, <3>9
  <2> QED BY <1>3, <2>1, <2>2, <2>3 DEF UserStep, Middle
<1> QED BY <1>1, <1>2, <1>3 DEF CtlNext

\* So does one of enable_flashlight.
LEMMA FlashesKept ==
  ASSUME CtlAssumption, CtlShape, CtlTurns, Flashes, [CtlNext]_ctlVars
  PROVE  Flashes'
<1>1. CASE UNCHANGED ctlVars
  BY <1>1 DEF ctlVars, procVars, Flashes
<1>2. CASE BankUndoes
  <2>1. /\ UNCHANGED << ctlCall, todo, got, ctlReg >>
        /\ \A q \in Users : how'[q] = "shared" <=> how[q] = "shared"
    BY <1>2, ShapeKeptBank
  <2> QED BY <2>1 DEF Flashes
<1>3. ASSUME NEW p \in Users, UserStep(p) PROVE Flashes'
  <2> SUFFICES ASSUME todo'[p] # << >>, how'[p] # "shared", ctlCall'[p].name = "flash"
               PROVE  ctlCall'[p].arg \in Modes /\ Flashing(todo'[p], got'[p], ctlReg', ctlCall'[p].arg)
    BY <1>3, OthersWait DEF Flashes
  <2>1. CASE EndCall(p)
    BY <2>1, EndDoes DEF CtlShape
  <2>2. CASE CallDevice(p) \/ SetGain(p)
    <3>1. PICK name, arg, steps : Started(p, name, arg, steps)
      BY <2>2, BeginDoes
    <3>2. /\ ctlCall' = [ctlCall EXCEPT ![p] = [name |-> name, arg |-> arg]] /\ CtlIdle(p)
          /\ todo' = [todo EXCEPT ![p] = Append(steps, End)] /\ got' = got
      BY <3>1 DEF Started, Begin
    <3>3. ctlCall'[p].name = name /\ ctlCall'[p].arg = arg /\ todo'[p] = Append(steps, End) /\ got'[p] = << >>
      BY <3>2 DEF CtlShape, CtlTurns
    <3>4. arg \in Modes /\ steps = EnableFlashlight(arg)
      BY <3>1, <3>3 DEF Started
    <3>5. Append(steps, End) =
            Five(WriteReg("flash1", And(arg)), WriteReg("flash2", And(arg)), ReadReg("flash1"), ReadReg("flash2"))
      BY <3>4, LightWork DEF Five
    <3> QED BY <3>3, <3>4, <3>5 DEF Flashing
  <2>3. CASE Middle(p)
    <3>1. todo[p] # << >> /\ how[p] # "shared"
      <4>1. how' = how \/ how' = [how EXCEPT ![p] = IF @ = "clean" THEN "alone" ELSE @]
        BY <2>3, MiddleDoes
      <4> QED BY <2>3, <4>1, MiddleDoes DEF CtlShape
    <3>2. ~TestDevice(p) => ctlCall' = ctlCall
      BY <2>3 DEF Middle, I2cWrite, I2cRead, OpenDevice, SetPin, PulseBit
    <3>3. TestDevice(p) => ctlCall'[p] = ctlCall[p] \/ ctlCall'[p] = NoCall("dead")
      BY DEF TestDevice, CtlShape
    <3>4. ctlCall'[p] = ctlCall[p]
      BY <3>2, <3>3 DEF NoCall
    <3> DEFINE mode == ctlCall[p].arg
    <3>5. mode \in Modes /\ ctlCall[p].name = "flash" /\ Flashing(todo[p], got[p], ctlReg, mode)
      BY <3>1, <3>4 DEF Flashes
    <3>6. Next1(p).do \in {"write", "read", "end"} /\ Next1(p).of # "test"
      BY <3>5, WhatIsLeft DEF Flashing, Next1, WriteReg, ReadReg, End
    <3>7. I2cWrite(p) \/ I2cRead(p)
      BY <2>3, <3>6 DEF Middle, OpenDevice, TestDevice, SetPin, PulseBit, Doing
    <3>8. ASSUME I2cWrite(p) PROVE Flashing(todo'[p], got'[p], ctlReg', mode)
      <4>1. Next1(p).do = "write" /\ got' = got
        BY <3>8 DEF I2cWrite, Doing
      <4>2. todo'[p] = Tail(todo[p])
        BY <3>5, <3>8 DEF I2cWrite, FailedWrite, Goes, CtlShape
      <4> QED BY <3>5, <4>1, <4>2, WhatIsLeft DEF Flashing, Next1, WriteReg, ReadReg, End
    <3>9. ASSUME I2cRead(p) PROVE Flashing(todo'[p], got'[p], ctlReg', mode)
      <4>1. Next1(p).do = "read" /\ ctlReg' = ctlReg /\ todo'[p] = Tail(todo[p])
        BY <3>9 DEF I2cRead, Doing, Goes, CtlShape
      <4>2. \E x \in ReadOf(ctlReg[Next1(p).of]) : got'[p] = Append(got[p], x)
        BY <3>9 DEF I2cRead, ReadOf, Extended, CtlShape
      <4>3. CASE todo[p] = Three(ReadReg("flash1"), ReadReg("flash2")) /\ got[p] = << >>
        <5>1. Next1(p) = ReadReg("flash1") /\ Tail(todo[p]) = Two(ReadReg("flash2"))
          BY <4>3, WhatIsLeft DEF Next1
        <5>2. PICK x \in ReadOf(ctlReg["flash1"]) : got'[p] = Append(got[p], x)
          BY <4>2, <5>1 DEF ReadReg
        <5>3. got'[p] = Read1(x)
          BY <4>3, <5>2, ReadingOn
        <5> QED BY <4>1, <5>1, <5>3 DEF Flashing
      <4>4. CASE todo[p] = Two(ReadReg("flash2")) /\ \E x \in ReadOf(ctlReg["flash1"]) : got[p] = Read1(x)
        <5>1. Next1(p) = ReadReg("flash2") /\ Tail(todo[p]) = One
          BY <4>4, WhatIsLeft DEF Next1
        <5>2. PICK x \in ReadOf(ctlReg["flash1"]) : got[p] = Read1(x)
          BY <4>4
        <5>3. PICK y \in ReadOf(ctlReg["flash2"]) : got'[p] = Append(got[p], y)
          BY <4>2, <5>1 DEF ReadReg
        <5>4. got'[p] = Read2(x, y)
          BY <5>2, <5>3, ReadingOn
        <5> QED BY <4>1, <5>1, <5>4 DEF Flashing
      <4> QED BY <3>5, <4>1, <4>3, <4>4, WhatIsLeft DEF Flashing, Next1, WriteReg, ReadReg, End
    <3> QED BY <3>4, <3>5, <3>7, <3>8, <3>9
  <2> QED BY <1>3, <2>1, <2>2, <2>3 DEF UserStep, Middle
<1> QED BY <1>1, <1>2, <1>3 DEF CtlNext

\* The answers are true when the call ends, and stay so while all are idle.
LEMMA AnswersKept ==
  ASSUME CtlAssumption, CtlShape, CtlTurns, LastIdle, Exposures, Flashes, AnswersTrue, [CtlNext]_ctlVars
  PROVE  AnswersTrue'
<1>1. CASE UNCHANGED ctlVars
  BY <1>1 DEF ctlVars, ctlHistory, AnswersTrue
<1>2. CASE BankUndoes
  BY <1>2 DEF BankUndoes, AnswersTrue, LastIdle
<1>3. ASSUME NEW p \in Users, UserStep(p) PROVE AnswersTrue'
  <2>1. CASE Middle(p)
    <3>1. todo[p] # << >> /\ last' = last
      BY <2>1, MiddleDoes
    <3> QED BY <3>1 DEF LastIdle, AnswersTrue
  <2>2. CASE CallDevice(p) \/ SetGain(p)
    BY <2>2, BeginDoes DEF Started, Begin, AnswersTrue
  <2>3. CASE EndCall(p)
    <3>1. last' = [name |-> ctlCall[p].name, arg |-> ctlCall[p].arg, by |-> p, how |-> how[p], answer |-> Answer(p)]
      BY <2>3 DEF EndCall
    <3>2. todo[p] = One /\ todo[p] # << >> /\ ctlReg' = ctlReg
      BY <2>3, EndDoes, EndAlone DEF One
    <3>3. ASSUME ctlCall[p].name = "exposure", how[p] # "shared", Answer(p) > 0
          PROVE  /\ Answer(p) = (ctlReg["low"] + B * ctlReg["high"]) \div K
                 /\ ctlCall[p].arg * K < (B * B) \div 2 => Answer(p) = ctlCall[p].arg
      <4> DEFINE time == ctlCall[p].arg
                 lo == LowHalf(time)
                 hi == HighHalf(time)
      <4>1. time \in Nat /\ Exposing(One, got[p], ctlReg, time)
        BY <3>2, <3>3 DEF Exposures, CtlAssumption
      <4>2. Answer(p) = ExposureAnswer(got[p])
        BY <3>3 DEF Answer
      <4>3. got[p] # << >>
        <5>1. ExposureAnswer(<< >>) = -1
          BY DEF ExposureAnswer
        <5> QED BY <3>3, <4>2, <5>1
      <4>4. /\ ctlReg["low"] = lo /\ ctlReg["high"] = hi
            /\ \E x \in ReadOf(lo), y \in ReadOf(hi) : got[p] = Read2(x, y)
        <5>1. /\ One # Five(WriteReg("low", lo), WriteReg("high", hi), ReadReg("low"), ReadReg("high"))
              /\ One # Four(WriteReg("high", hi), ReadReg("low"), ReadReg("high"))
              /\ One # Three(ReadReg("low"), ReadReg("high"))
              /\ One # Two(ReadReg("high"))
          BY WhatIsLeft DEF WriteReg, ReadReg, End
        <5> QED BY <4>1, <4>3, <5>1 DEF Exposing
      <4>5. lo \in 0 .. B - 1 /\ hi \in 0 .. B - 1
        BY <4>1, Halves
      <4>6. PICK x \in ReadOf(lo), y \in ReadOf(hi) : got[p] = Read2(x, y)
        BY <4>4
      <4>7. ExposureAnswer(Read2(x, y)) = (lo + B * hi) \div K
        <5>1. ExposureAnswer(Read2(x, y)) > 0
          BY <3>3, <4>2, <4>6
        <5> HIDE DEF lo, hi
        <5> QED BY <4>5, <5>1, TimeAnswer DEF Read2
      <4>8. time * K < Half => (lo + B * hi) \div K = time
        BY <4>1, TimeAsked DEF LowHalf, HighHalf
      <4> QED BY <4>2, <4>4, <4>6, <4>7, <4>8 DEF Half
    <3>4. ASSUME ctlCall[p].name = "flash", how[p] # "shared", Answer(p) = 0
          PROVE  ctlReg["flash1"] = Bit1(ctlCall[p].arg) /\ ctlReg["flash2"] = Bit2(ctlCall[p].arg) \div 2
      <4> DEFINE mode == ctlCall[p].arg
      <4>1. mode \in 0 .. 3 /\ Flashing(One, got[p], ctlReg, mode)
        BY <3>2, <3>4 DEF Flashes, CtlAssumption
      <4>2. Answer(p) = FlashAnswer(got[p], mode)
        BY <3>4 DEF Answer
      <4>3. \E x \in ReadOf(ctlReg["flash1"]), y \in ReadOf(ctlReg["flash2"]) : got[p] = Read2(x, y)
        <5>1. /\ One # Five(WriteReg("flash1", And(mode)), WriteReg("flash2", And(mode)), ReadReg("flash1"), ReadReg("flash2"))
              /\ One # Four(WriteReg("flash2", And(mode)), ReadReg("flash1"), ReadReg("flash2"))
              /\ One # Three(ReadReg("flash1"), ReadReg("flash2"))
              /\ One # Two(ReadReg("flash2"))
          BY WhatIsLeft DEF WriteReg, ReadReg, End
        <5> QED BY <4>1, <5>1 DEF Flashing
      <4>4. PICK x \in ReadOf(ctlReg["flash1"]), y \in ReadOf(ctlReg["flash2"]) : got[p] = Read2(x, y)
        BY <4>3
      <4>5. FlashAnswer(Read2(x, y), mode) = 0
        BY <3>4, <4>2, <4>4
      <4>6. ctlReg["flash1"] \in {0, 1} /\ ctlReg["flash2"] \in {0, 1}
        BY DEF CtlShape
      <4> HIDE DEF mode
      <4>7. ctlReg["flash1"] = Bit1(mode) /\ ctlReg["flash2"] = Bit2(mode) \div 2
        BY <4>1, <4>4, <4>5, <4>6, LightAnswer DEF Read2
      <4> QED BY <4>7 DEF mode
    <3>5. /\ last'.name = ctlCall[p].name /\ last'.arg = ctlCall[p].arg /\ last'.how = how[p] /\ last'.answer = Answer(p)
      BY <3>1
    <3> QED BY <3>2, <3>3, <3>4, <3>5 DEF AnswersTrue
  <2> QED BY <1>3, <2>1, <2>2, <2>3 DEF UserStep, Middle
<1> QED BY <1>1, <1>2, <1>3 DEF CtlNext

\* Together.
CtlInv == CtlShape /\ CtlTurns /\ LastIdle /\ Exposures /\ Flashes

\* The inductive invariant holds at first, and is kept.
LEMMA CtlInvInit == ASSUME CtlAssumption, CtlInit PROVE CtlInv /\ AnswersTrue
<1>1. << >> \in Seq(Unit) /\ << >> \in Seq(Int)
  BY EmptySeq
<1>2. CtlShape
  BY <1>1 DEF CtlInit, CtlShape, Registers
<1>3. CtlTurns
  BY EndAlone DEF CtlInit, CtlTurns
<1>4. LastIdle /\ Exposures /\ Flashes /\ AnswersTrue
  BY DEF CtlInit, LastIdle, Exposures, Flashes, AnswersTrue
<1> QED BY <1>2, <1>3, <1>4 DEF CtlInv

\* Every step keeps it.
LEMMA CtlInvKept ==
  ASSUME CtlAssumption, CtlInv, [CtlNext]_ctlVars
  PROVE  CtlInv'
BY ShapeKept, LastKept, ExposuresKept, FlashesKept DEF CtlInv

(* An answer that is no error is true while no other process calls         *)
(* (set_exposure_time, enable_flashlight), for every width of the          *)
(* registers, with char signed or not, and whatever fails.                 *)
THEOREM AnswersAreTrue == CtlSpec => []AnswersTrue
<1>0. CtlAssumption
  BY CtlIsAssumed
<1>1. CtlInit => CtlInv /\ AnswersTrue
  BY <1>0, CtlInvInit
<1>2. CtlInv /\ AnswersTrue /\ [CtlNext]_ctlVars => CtlInv' /\ AnswersTrue'
  BY <1>0, CtlInvKept, AnswersKept DEF CtlInv
<1> QED BY <1>1, <1>2, PTL DEF CtlSpec

(***************************************************************************)
(* The words to the sensor: the transactions of a gain function, one by    *)
(* one, and the bits that have arrived after k of them.                    *)
(***************************************************************************)
BitAt(a, value, j) ==
  IF j <= A THEN (IF j - 1 \in a THEN 1 ELSE 0) ELSE (IF j - A - 1 \in value THEN 1 ELSE 0)
StepAt(a, value, k) ==
  IF k = 1 THEN Pin("latch", 0)
  ELSE IF k <= A + 1 THEN Pulse(BitAt(a, value, k - 1))
  ELSE IF k = A + 2 THEN Pin("clock", 0)
  ELSE IF k <= A + D + 2 THEN Pulse(BitAt(a, value, k - 2))
  ELSE IF k = A + D + 3 THEN Pin("clock", 0)
  ELSE IF k = A + D + 4 THEN Pin("latch", 1) ELSE End
Sent(k) == IF k <= 1 THEN 0 ELSE IF k <= A + 1 THEN k - 1 ELSE IF k <= A + D + 2 THEN k - 2 ELSE A + D
WordPart(a, value, m) == [j \in 1 .. m |-> BitAt(a, value, j)]

\* The sizes of gains, addresses and values.
LEMMA SizesOfWord == ASSUME CtlAssumption PROVE W \in Nat \ {0} /\ A \in Nat /\ A >= 2 /\ D \in Nat /\ D >= 2 * W
BY DEF CtlAssumption

\* Two sequences after each other, by index.
LEMMA Joined ==
  ASSUME NEW s \in Seq(Unit), NEW t \in Seq(Unit)
  PROVE  /\ s \o t \in Seq(Unit) /\ Len(s \o t) = Len(s) + Len(t)
         /\ \A k \in 1 .. Len(s) : (s \o t)[k] = s[k]
         /\ \A k \in 1 .. Len(t) : (s \o t)[Len(s) + k] = t[k]
<1>1. /\ s \o t \in Seq(Unit) /\ Len(s \o t) = Len(s) + Len(t) /\ Len(s) \in Nat /\ Len(t) \in Nat
      /\ \A k \in 1 .. Len(s) + Len(t) : (s \o t)[k] = IF k <= Len(s) THEN s[k] ELSE t[k - Len(s)]
  BY ConcatProperties
<1>2. ASSUME NEW k \in 1 .. Len(t) PROVE (s \o t)[Len(s) + k] = t[k]
  <2>1. Len(s) + k \in 1 .. Len(s) + Len(t) /\ ~(Len(s) + k <= Len(s)) /\ (Len(s) + k) - Len(s) = k
    BY <1>1
  <2> QED BY <1>1, <2>1
<1> QED BY <1>1, <1>2

\* The transactions of write_a and write_d, by index.
LEMMA BitsAre ==
  ASSUME NEW value, NEW m \in Nat
  PROVE  /\ Bits(value, m) \in Seq(Unit) /\ Len(Bits(value, m)) = m + 1
         /\ \A k \in 1 .. m : Bits(value, m)[k] = Pulse(IF k - 1 \in value THEN 1 ELSE 0)
         /\ Bits(value, m)[m + 1] = Pin("clock", 0)
<1> DEFINE pulses == [k \in 1 .. m |-> Pulse(IF k - 1 \in value THEN 1 ELSE 0)]
           low == << Pin("clock", 0) >>
<1>1. \A k \in 1 .. m : Pulse(IF k - 1 \in value THEN 1 ELSE 0) \in Unit
  BY WorkIs DEF Unit
<1>2. pulses \in Seq(Unit) /\ Len(pulses) = m /\ \A k \in 1 .. m : pulses[k] = Pulse(IF k - 1 \in value THEN 1 ELSE 0)
  <2>1. pulses \in Seq(Unit)
    BY <1>1, IsASeq
  <2>2. DOMAIN pulses = 1 .. m
    OBVIOUS
  <2>3. Len(pulses) = m
    BY <2>1, <2>2, LenProperties
  <2> QED BY <2>1, <2>3
<1>3. low \in Seq(Unit) /\ Len(low) = 1 /\ low[1] = Pin("clock", 0)
  BY WorkIs DEF Unit
<1>4. Bits(value, m) = pulses \o low
  BY DEF Bits
<1> HIDE DEF pulses, low
<1>5. /\ pulses \o low \in Seq(Unit) /\ Len(pulses \o low) = m + 1
      /\ \A k \in 1 .. m : (pulses \o low)[k] = pulses[k]
      /\ (pulses \o low)[m + 1] = low[1]
  <2>1. pulses \in Seq(Unit) /\ low \in Seq(Unit)
    BY <1>2, <1>3
  <2>2. /\ pulses \o low \in Seq(Unit) /\ Len(pulses \o low) = Len(pulses) + Len(low)
        /\ \A k \in 1 .. Len(pulses) : (pulses \o low)[k] = pulses[k]
        /\ \A k \in 1 .. Len(low) : (pulses \o low)[Len(pulses) + k] = low[k]
    BY <2>1, Joined
  <2> QED BY <1>2, <1>3, <2>2
<1> QED BY <1>2, <1>3, <1>4, <1>5

\* The transactions of a gain function, by index.
LEMMA WordScript ==
  ASSUME CtlAssumption, NEW a, NEW value
  PROVE  LET s == Append(WriteValue(a, value), End)
         IN  s \in Seq(Unit) /\ Len(s) = A + D + 5 /\ \A k \in 1 .. A + D + 5 : s[k] = StepAt(a, value, k)
<1> DEFINE w0 == << Pin("latch", 0) >>
           w1 == Bits(a, A)
           w2 == Bits(value, D)
           w3 == << Pin("latch", 1) >>
           u1 == w0 \o w1
           u2 == u1 \o w2
           u3 == u2 \o w3
           s == Append(u3, End)
<1>1. A \in Nat /\ D \in Nat
  BY SizesOfWord
<1>2. WriteValue(a, value) = u3
  BY DEF WriteValue
<1>3. /\ w0 \in Seq(Unit) /\ Len(w0) = 1 /\ w0[1] = Pin("latch", 0)
      /\ w3 \in Seq(Unit) /\ Len(w3) = 1 /\ w3[1] = Pin("latch", 1)
  BY WorkIs DEF Unit
<1>4. /\ w1 \in Seq(Unit) /\ Len(w1) = A + 1
      /\ \A k \in 1 .. A : w1[k] = Pulse(IF k - 1 \in a THEN 1 ELSE 0)
      /\ w1[A + 1] = Pin("clock", 0)
  BY <1>1, BitsAre
<1>5. /\ w2 \in Seq(Unit) /\ Len(w2) = D + 1
      /\ \A k \in 1 .. D : w2[k] = Pulse(IF k - 1 \in value THEN 1 ELSE 0)
      /\ w2[D + 1] = Pin("clock", 0)
  BY <1>1, BitsAre
<1> HIDE DEF w0, w1, w2, w3
<1>6. /\ u1 \in Seq(Unit) /\ Len(u1) = A + 2 /\ u1[1] = w0[1]
      /\ \A k \in 1 .. A + 1 : u1[1 + k] = w1[k]
  <2>1. /\ u1 \in Seq(Unit) /\ Len(u1) = Len(w0) + Len(w1)
        /\ \A k \in 1 .. Len(w0) : u1[k] = w0[k]
        /\ \A k \in 1 .. Len(w1) : u1[Len(w0) + k] = w1[k]
    BY <1>3, <1>4, Joined
  <2> HIDE DEF u1
  <2>2. 1 \in 1 .. Len(w0) /\ Len(w0) + Len(w1) = A + 2 /\ Len(w0) = 1
    BY <1>1, <1>3, <1>4
  <2> QED BY <1>4, <2>1, <2>2
<1> HIDE DEF u1
<1>7. /\ u2 \in Seq(Unit) /\ Len(u2) = A + D + 3
      /\ \A k \in 1 .. A + 2 : u2[k] = u1[k]
      /\ \A k \in 1 .. D + 1 : u2[A + 2 + k] = w2[k]
  <2>1. /\ u2 \in Seq(Unit) /\ Len(u2) = Len(u1) + Len(w2)
        /\ \A k \in 1 .. Len(u1) : u2[k] = u1[k]
        /\ \A k \in 1 .. Len(w2) : u2[Len(u1) + k] = w2[k]
    BY <1>5, <1>6, Joined
  <2> HIDE DEF u2
  <2>2. Len(u1) + Len(w2) = A + D + 3
    BY <1>1, <1>5, <1>6
  <2> QED BY <1>5, <1>6, <2>1, <2>2
<1> HIDE DEF u2
<1>8. /\ u3 \in Seq(Unit) /\ Len(u3) = A + D + 4
      /\ \A k \in 1 .. A + D + 3 : u3[k] = u2[k]
      /\ u3[A + D + 4] = w3[1]
  <2>1. /\ u3 \in Seq(Unit) /\ Len(u3) = Len(u2) + Len(w3)
        /\ \A k \in 1 .. Len(u2) : u3[k] = u2[k]
        /\ \A k \in 1 .. Len(w3) : u3[Len(u2) + k] = w3[k]
    BY <1>3, <1>7, Joined
  <2> HIDE DEF u3
  <2>2. 1 \in 1 .. Len(w3)
    BY <1>3
  <2>3. u3[Len(u2) + 1] = w3[1]
    BY <2>1, <2>2
  <2>4. Len(u2) + 1 = A + D + 4 /\ Len(u2) + Len(w3) = A + D + 4
    BY <1>1, <1>3, <1>7
  <2> QED BY <1>7, <2>1, <2>3, <2>4
<1> HIDE DEF u3
<1>9. /\ s \in Seq(Unit) /\ Len(s) = A + D + 5
      /\ \A k \in 1 .. A + D + 4 : s[k] = u3[k]
      /\ s[A + D + 5] = End
  <2>1. End \in Unit
    BY DEF Unit
  <2>2. u3 \in Seq(Unit)
    BY <1>8
  <2>3. /\ s \in Seq(Unit) /\ Len(s) = Len(u3) + 1
        /\ \A k \in 1 .. Len(u3) : s[k] = u3[k]
        /\ s[Len(u3) + 1] = End
    BY <2>1, <2>2, AppendProperties
  <2> HIDE DEF s
  <2>4. Len(u3) + 1 = A + D + 5
    BY <1>1, <1>8
  <2> QED BY <1>8, <2>3, <2>4
<1> HIDE DEF s
<1>10. ASSUME NEW k \in 1 .. A + D + 5 PROVE s[k] = StepAt(a, value, k)
  <2>1. CASE k = 1
    <3>0. 1 \in 1 .. A + 2 /\ 1 \in 1 .. A + D + 3 /\ 1 \in 1 .. A + D + 4
      BY <1>1
    <3>1. s[k] = u3[1] /\ u3[1] = u2[1] /\ u2[1] = u1[1]
      BY <1>7, <1>8, <1>9, <2>1, <3>0
    <3> QED BY <1>3, <1>6, <2>1, <3>1 DEF StepAt
  <2>2. CASE k \in 2 .. A + 2
    <3>1. s[k] = u3[k] /\ u3[k] = u2[k] /\ u2[k] = u1[k]
      BY <1>1, <1>7, <1>8, <1>9, <2>2
    <3>2. k - 1 \in 1 .. A + 1 /\ 1 + (k - 1) = k
      BY <1>1, <2>2
    <3>3. u1[k] = w1[k - 1]
      BY <1>6, <3>2
    <3>4. CASE k = A + 2
      <4>1. k - 1 = A + 1
        BY <1>1, <3>4
      <4>2. StepAt(a, value, k) = Pin("clock", 0)
        BY <1>1, <3>4 DEF StepAt
      <4> QED BY <1>4, <3>1, <3>3, <4>1, <4>2
    <3>5. CASE k # A + 2
      <4>1. k - 1 \in 1 .. A /\ k <= A + 1 /\ k # 1 /\ k - 1 <= A
        BY <1>1, <2>2, <3>5
      <4>2. w1[k - 1] = Pulse(IF (k - 1) - 1 \in a THEN 1 ELSE 0)
        BY <1>4, <4>1
      <4>3. BitAt(a, value, k - 1) = IF (k - 1) - 1 \in a THEN 1 ELSE 0
        BY <4>1 DEF BitAt
      <4>4. StepAt(a, value, k) = Pulse(BitAt(a, value, k - 1))
        BY <4>1 DEF StepAt
      <4> QED BY <3>1, <3>3, <4>2, <4>3, <4>4
    <3> QED BY <3>4, <3>5
  <2>3. CASE k \in A + 3 .. A + D + 3
    <3>1. s[k] = u3[k] /\ u3[k] = u2[k]
      BY <1>1, <1>8, <1>9, <2>3
    <3>2. k - A - 2 \in 1 .. D + 1 /\ A + 2 + (k - A - 2) = k
      BY <1>1, <2>3
    <3>3. u2[k] = w2[k - A - 2]
      BY <1>7, <3>2
    <3>4. CASE k = A + D + 3
      <4>1. k - A - 2 = D + 1
        BY <1>1, <3>4
      <4>2. StepAt(a, value, k) = Pin("clock", 0)
        BY <1>1, <3>4 DEF StepAt
      <4> QED BY <1>5, <3>1, <3>3, <4>1, <4>2
    <3>5. CASE k # A + D + 3
      <4>1. /\ k - A - 2 \in 1 .. D /\ k <= A + D + 2 /\ k # 1 /\ ~(k <= A + 1) /\ k # A + 2 /\ ~(k - 2 <= A)
            /\ (k - A - 2) - 1 = (k - 2) - A - 1
        BY <1>1, <2>3, <3>5
      <4>2. w2[k - A - 2] = Pulse(IF (k - A - 2) - 1 \in value THEN 1 ELSE 0)
        BY <1>5, <4>1
      <4>3. BitAt(a, value, k - 2) = IF (k - 2) - A - 1 \in value THEN 1 ELSE 0
        BY <4>1 DEF BitAt
      <4>4. StepAt(a, value, k) = Pulse(BitAt(a, value, k - 2))
        BY <4>1 DEF StepAt
      <4> QED BY <3>1, <3>3, <4>1, <4>2, <4>3, <4>4
    <3> QED BY <3>4, <3>5
  <2>4. CASE k = A + D + 4
    <3>1. s[k] = u3[A + D + 4]
      BY <1>1, <1>9, <2>4
    <3>2. StepAt(a, value, k) = Pin("latch", 1)
      BY <1>1, <2>4 DEF StepAt
    <3> QED BY <1>3, <1>8, <3>1, <3>2
  <2>5. CASE k = A + D + 5
    <3>1. StepAt(a, value, k) = End
      BY <1>1, <2>5 DEF StepAt
    <3> QED BY <1>9, <2>5, <3>1
  <2> QED BY <1>1, <2>1, <2>2, <2>3, <2>4, <2>5
<1> QED BY <1>2, <1>9, <1>10 DEF s

\* A word that has arrived in part, and one bit more of it.
LEMMA WordGrows ==
  ASSUME CtlAssumption, NEW a, NEW value, NEW m \in Nat
  PROVE  /\ WordPart(a, value, 0) = << >> /\ Len(WordPart(a, value, m)) = m
         /\ Append(WordPart(a, value, m), BitAt(a, value, m + 1)) = WordPart(a, value, m + 1)
<1>1. \A j : BitAt(a, value, j) \in {0, 1}
  BY DEF BitAt
<1>2. ASSUME NEW l \in Nat PROVE WordPart(a, value, l) \in Seq({0, 1}) /\ Len(WordPart(a, value, l)) = l
                                /\ \A j \in 1 .. l : WordPart(a, value, l)[j] = BitAt(a, value, j)
  <2>1. WordPart(a, value, l) \in Seq({0, 1})
    BY <1>1, IsASeq DEF WordPart
  <2>2. DOMAIN WordPart(a, value, l) = 1 .. l
    BY DEF WordPart
  <2>3. Len(WordPart(a, value, l)) = l
    BY <2>1, <2>2, LenProperties
  <2> QED BY <2>1, <2>3 DEF WordPart
<1>3. WordPart(a, value, 0) = << >>
  <2>1. WordPart(a, value, 0) \in Seq({0, 1}) /\ Len(WordPart(a, value, 0)) = 0
    BY <1>2
  <2> QED BY <2>1, EmptySeq
<1> DEFINE s == WordPart(a, value, m)
           t == Append(s, BitAt(a, value, m + 1))
           w == WordPart(a, value, m + 1)
<1>4. s \in Seq({0, 1}) /\ Len(s) = m /\ \A j \in 1 .. m : s[j] = BitAt(a, value, j)
  BY <1>2
<1>5. w \in Seq({0, 1}) /\ Len(w) = m + 1 /\ \A j \in 1 .. m + 1 : w[j] = BitAt(a, value, j)
  <2>1. m + 1 \in Nat
    OBVIOUS
  <2> QED BY <1>2, <2>1
<1> HIDE DEF s, w
<1>6. t \in Seq({0, 1}) /\ Len(t) = m + 1 /\ t[m + 1] = BitAt(a, value, m + 1) /\ \A j \in 1 .. m : t[j] = s[j]
  <2>1. BitAt(a, value, m + 1) \in {0, 1}
    BY <1>1
  <2> QED BY <1>4, <2>1, AppendProperties
<1> HIDE DEF t
<1>7. t = w
  <2>1. \A j \in 1 .. m + 1 : t[j] = w[j]
    BY <1>4, <1>5, <1>6
  <2> QED BY <1>5, <1>6, <2>1, SeqEqual
<1> QED BY <1>3, <1>4, <1>7 DEF s, t, w

\* The sensor understands the word.
LEMMA WordUnderstood ==
  ASSUME CtlAssumption, NEW a \in {Green1Red, Green2Blue}, NEW value
  PROVE  LET word == WordPart(a, value, A + D)
         IN  /\ AddressOf(SubSeq(word, 1, A)) = a
             /\ ValueOf(SubSeq(word, A + 1, A + D)) = value \cap 0 .. D - 1
<1> DEFINE word == WordPart(a, value, A + D)
           first == SubSeq(word, 1, A)
           rest == SubSeq(word, A + 1, A + D)
<1>1. A \in Nat /\ A >= 2 /\ D \in Nat
  BY SizesOfWord
<1>2. word \in Seq({0, 1}) /\ Len(word) = A + D /\ \A j \in 1 .. A + D : word[j] = BitAt(a, value, j)
  <2>1. \A j \in 1 .. A + D : BitAt(a, value, j) \in {0, 1}
    BY DEF BitAt
  <2>2. A + D \in Nat
    BY <1>1
  <2>3. word \in Seq({0, 1})
    BY <2>1, <2>2, IsASeq DEF WordPart
  <2>4. DOMAIN word = 1 .. A + D
    BY DEF WordPart
  <2>5. Len(word) = A + D
    BY <2>2, <2>3, <2>4, LenProperties
  <2> QED BY <2>3, <2>5 DEF WordPart
<1> HIDE DEF word
<1>3. Len(first) = A /\ \A j \in 1 .. A : first[j] = BitAt(a, value, j)
  BY <1>1, <1>2
<1>4. Len(rest) = D /\ \A j \in 1 .. D : rest[j] = BitAt(a, value, A + j)
  BY <1>1, <1>2
<1> HIDE DEF first, rest
<1>5. ValueOf(first) = a
  <2>1. ASSUME NEW k \in 0 .. A - 1 PROVE first[k + 1] = 1 <=> k \in a
    <3>1. k + 1 \in 1 .. A /\ k + 1 <= A /\ (k + 1) - 1 = k
      BY <1>1
    <3> QED BY <1>3, <3>1 DEF BitAt
  <2>2. a \subseteq 0 .. A - 1
    BY <1>1 DEF Green1Red, Green2Blue
  <2> QED BY <1>3, <2>1, <2>2 DEF ValueOf
<1>6. ValueOf(rest) = value \cap 0 .. D - 1
  <2>1. ASSUME NEW k \in 0 .. D - 1 PROVE rest[k + 1] = 1 <=> k \in value
    <3>1. k + 1 \in 1 .. D /\ ~(A + (k + 1) <= A) /\ (A + (k + 1)) - A - 1 = k
      BY <1>1
    <3> QED BY <1>4, <3>1 DEF BitAt
  <2> QED BY <1>4, <2>1 DEF ValueOf
<1>7. AddressOf(first) = a
  BY <1>5 DEF AddressOf
<1> QED BY <1>6, <1>7 DEF first, rest, word

\* After k transactions of a word: what is left, the latch, and what arrived.
InWord(s, ps, sh, st, a, value, k) ==
  /\ s \in Seq(Unit) /\ Len(s) = A + D + 5 - k
  /\ \A j \in 1 .. A + D + 5 - k : s[j] = StepAt(a, value, j + k)
  /\ k = 0 => ps["latch"] = 1
  /\ k \in 1 .. A + D + 3 => ps["latch"] = 0 /\ sh = WordPart(a, value, Sent(k))
  /\ k = A + D + 4 => st[a] = value \cap 0 .. D - 1
Words == \A q \in Users :
  todo[q] # << >> /\ how[q] = "clean" /\ ctlCall[q].name \in Channels =>
    \E k \in 0 .. A + D + 4 :
      InWord(todo[q], pins, shift, store, GainRegister[ctlCall[q].name], n_gain[q][GainRegister[ctlCall[q].name]], k)

\* Of these calls only the pins are used.
PinsOnly == \A q \in Users :
  ctlCall[q].name \in Channels => \A j \in 1 .. Len(todo[q]) : todo[q][j].do \in {"pin", "pulse", "end"}

\* Every gain that is set has its register.
LEMMA RegisterOfChannel ==
  ASSUME CtlAssumption, NEW c \in Channels
  PROVE  GainRegister[c] \in {Green1Red, Green2Blue} /\ c \in AllChannels
BY DEF CtlAssumption, GainRegister, AllChannels

\* Every step keeps that.
LEMMA PinsOnlyKept ==
  ASSUME CtlAssumption, CtlShape, CtlTurns, PinsOnly, [CtlNext]_ctlVars
  PROVE  PinsOnly'
<1>1. CASE UNCHANGED ctlVars
  BY <1>1 DEF ctlVars, procVars, PinsOnly
<1>2. CASE BankUndoes
  BY <1>2, ShapeKeptBank DEF PinsOnly
<1>3. ASSUME NEW p \in Users, UserStep(p) PROVE PinsOnly'
  <2> SUFFICES ASSUME ctlCall'[p].name \in Channels, NEW j \in 1 .. Len(todo'[p])
               PROVE  todo'[p][j].do \in {"pin", "pulse", "end"}
    BY <1>3, OthersWait DEF PinsOnly
  <2>1. CASE EndCall(p)
    <3>1. todo'[p] = << >>
      BY <2>1, EndDoes DEF CtlShape
    <3> QED BY <3>1
  <2>2. CASE CallDevice(p) \/ SetGain(p)
    <3>1. PICK name, arg, steps : Started(p, name, arg, steps)
      BY <2>2, BeginDoes
    <3>2. /\ ctlCall' = [ctlCall EXCEPT ![p] = [name |-> name, arg |-> arg]]
          /\ todo' = [todo EXCEPT ![p] = Append(steps, End)]
      BY <3>1 DEF Started, Begin
    <3>3. ctlCall'[p].name = name /\ todo'[p] = Append(steps, End)
      BY <3>2 DEF CtlShape
    <3> DEFINE r == GainRegister[name]
               value == Packed(n_gain[p][r], name, arg)
    <3>4. todo'[p] = Append(WriteValue(r, value), End)
      BY <3>1, <3>3 DEF Started
    <3> HIDE DEF r, value
    <3>5. Len(todo'[p]) = A + D + 5 /\ \A k \in 1 .. A + D + 5 : todo'[p][k] = StepAt(r, value, k)
      BY <3>4, WordScript
    <3>6. todo'[p][j] = StepAt(r, value, j)
      BY <3>5
    <3> QED BY <3>6 DEF StepAt, Pin, Pulse, End
  <2>3. CASE Middle(p)
    <3>1. todo[p] # << >> /\ EndLast(todo[p]) /\ Next1(p) \in Work
      BY <2>3, MiddleDoes DEF CtlTurns
    <3>2. /\ todo[p] \in Seq(Unit) /\ Len(todo[p]) \in Nat \ {0} /\ Next1(p) = todo[p][1]
          /\ Len(Tail(todo[p])) = Len(todo[p]) - 1 /\ \A l \in 1 .. Len(todo[p]) - 1 : Tail(todo[p])[l] = todo[p][l + 1]
      BY <3>1, HeadTailProperties, EmptySeq DEF EndLast, Next1
    <3>3. ctlCall'[p].name = ctlCall[p].name
      <4>1. ~TestDevice(p) => ctlCall' = ctlCall
        BY <2>3 DEF Middle, I2cWrite, I2cRead, OpenDevice, SetPin, PulseBit
      <4>2. TestDevice(p) => ctlCall'[p] = ctlCall[p] \/ ctlCall'[p].name = "dead"
        BY DEF TestDevice, CtlShape, NoCall
      <4>3. "dead" \notin Channels
        BY DEF CtlAssumption
      <4> QED BY <4>1, <4>2, <4>3
    <3>4. \A l \in 1 .. Len(todo[p]) : todo[p][l].do \in {"pin", "pulse", "end"}
      BY <3>3 DEF PinsOnly
    <3>5. Next1(p).do \in {"pin", "pulse", "end"}
      BY <3>2, <3>4
    <3>6. SetPin(p) \/ PulseBit(p)
      BY <2>3, <3>5 DEF Middle, I2cWrite, I2cRead, OpenDevice, TestDevice, Doing
    <3>7. todo'[p] = Tail(todo[p])
      BY <3>6 DEF SetPin, PulseBit, Goes, CtlShape
    <3> QED BY <3>2, <3>4, <3>7
  <2> QED BY <1>3, <2>1, <2>2, <2>3 DEF UserStep, Middle
<1> QED BY <1>1, <1>2, <1>3 DEF CtlNext

\* One transaction of a clean call brings the word one step further.
LEMMA WordGoesOn ==
  ASSUME CtlAssumption, CtlShape, CtlTurns, NEW p \in Users, Middle(p), how[p] = "clean", how'[p] = "clean",
         NEW a \in {Green1Red, Green2Blue}, NEW value, NEW k \in 0 .. A + D + 4,
         InWord(todo[p], pins, shift, store, a, value, k)
  PROVE  k < A + D + 4 /\ InWord(todo'[p], pins', shift', store', a, value, k + 1)
<1> DEFINE s == todo[p]
<1>1. A \in Nat /\ A >= 2 /\ D \in Nat /\ D >= 1
  BY SizesOfWord
<1>2. s # << >> /\ Next1(p) \in Work /\ s \in Seq(Unit)
  BY MiddleDoes DEF CtlShape
<1>3. /\ Next1(p) = s[1] /\ Tail(s) \in Seq(Unit) /\ Len(s) \in Nat
      /\ Len(Tail(s)) = Len(s) - 1 /\ \A l \in 1 .. Len(s) - 1 : Tail(s)[l] = s[l + 1]
  BY <1>2, HeadTailProperties DEF Next1
<1>4. Len(s) = A + D + 5 - k /\ \A j \in 1 .. A + D + 5 - k : s[j] = StepAt(a, value, j + k)
  BY DEF InWord
<1>5. Next1(p) = StepAt(a, value, k + 1)
  <2>1. 1 \in 1 .. A + D + 5 - k /\ 1 + k = k + 1
    BY <1>1
  <2> QED BY <1>3, <1>4, <2>1
<1>6. k < A + D + 4
  <2>1. k = A + D + 4 => StepAt(a, value, k + 1) = End
    BY <1>1 DEF StepAt
  <2> QED BY <1>1, <1>2, <1>5, <2>1, WorkIs
<1>7. Next1(p).do \in {"pin", "pulse"}
  BY <1>1, <1>2, <1>5, WorkIs DEF StepAt, Pin, Pulse, End
<1>8. SetPin(p) \/ PulseBit(p)
  BY <1>7 DEF Middle, I2cWrite, I2cRead, OpenDevice, TestDevice, Doing
<1>9. todo'[p] = Tail(s)
  BY <1>8 DEF SetPin, PulseBit, Goes, CtlShape
<1>10. /\ Tail(s) \in Seq(Unit) /\ Len(Tail(s)) = A + D + 5 - (k + 1)
       /\ \A j \in 1 .. A + D + 5 - (k + 1) : Tail(s)[j] = StepAt(a, value, j + (k + 1))
  <2>1. Len(s) - 1 = A + D + 5 - (k + 1)
    BY <1>1, <1>4
  <2>2. ASSUME NEW j \in 1 .. A + D + 5 - (k + 1) PROVE Tail(s)[j] = StepAt(a, value, j + (k + 1))
    <3>1. j + 1 \in 1 .. A + D + 5 - k /\ (j + 1) + k = j + (k + 1)
      BY <1>1
    <3>2. Tail(s)[j] = s[j + 1]
      BY <1>3, <2>1
    <3>3. s[j + 1] = StepAt(a, value, (j + 1) + k)
      BY <1>4, <3>1
    <3> QED BY <3>1, <3>2, <3>3
  <2> QED BY <1>3, <2>1, <2>2
<1>11. ~Failing(p, TRUE) /\ ~Failing(p, FALSE) /\ ~Failing(p, ~Wired(p))
  BY DEF Failing, CtlShape
<1>12. ASSUME Next1(p).do = "pin" PROVE SensorSees(Next1(p).of, Next1(p).value)
  BY <1>8, <1>11, <1>12 DEF SetPin, PulseBit, Doing
<1>13. ASSUME Next1(p).do = "pulse" PROVE SensorSeesBit(Next1(p).value)
  BY <1>8, <1>11, <1>13 DEF SetPin, PulseBit, Doing
<1>14. ASSUME NEW v, NEW m \in Nat, k \in 1 .. A + D + 3, Next1(p) = Pulse(v), Sent(k) = m, Sent(k + 1) = m + 1, m < A + D,
              v = BitAt(a, value, m + 1)
       PROVE  pins'["latch"] = 0 /\ shift' = WordPart(a, value, Sent(k + 1))
  <2>1. pins["latch"] = 0 /\ shift = WordPart(a, value, m)
    BY <1>14 DEF InWord
  <2>2. SensorSeesBit(v)
    BY <1>13, <1>14 DEF Pulse
  <2>3. pins'["latch"] = 0
    BY <2>1, <2>2 DEF SensorSeesBit, CtlShape
  <2>4. Len(shift) = m /\ Append(shift, v) = WordPart(a, value, m + 1)
    BY <1>14, <2>1, WordGrows
  <2>5. shift' = Append(shift, v)
    BY <1>1, <1>14, <2>1, <2>2, <2>4 DEF SensorSeesBit, Received, WordSize
  <2> QED BY <1>14, <2>3, <2>4, <2>5
<1>15. ASSUME k \in 1 .. A + D + 3, Next1(p) = Pin("clock", 0), Sent(k) = Sent(k + 1)
       PROVE  pins'["latch"] = 0 /\ shift' = WordPart(a, value, Sent(k + 1))
  <2>1. pins["latch"] = 0 /\ shift = WordPart(a, value, Sent(k))
    BY <1>15 DEF InWord
  <2>2. SensorSees("clock", 0)
    BY <1>12, <1>15 DEF Pin
  <2>3. pins'["latch"] = 0
    BY <2>1, <2>2 DEF SensorSees, CtlShape
  <2>4. shift' = shift
    BY <2>2 DEF SensorSees
  <2> QED BY <1>15, <2>1, <2>3, <2>4
<1>16. k + 1 \in 1 .. A + D + 3 => pins'["latch"] = 0 /\ shift' = WordPart(a, value, Sent(k + 1))
  <2>1. CASE k = 0
    <3>1. pins["latch"] = 1
      BY <2>1 DEF InWord
    <3>2. Next1(p) = Pin("latch", 0)
      BY <1>5, <2>1 DEF StepAt
    <3>3. SensorSees("latch", 0)
      BY <1>12, <3>2 DEF Pin
    <3>4. pins'["latch"] = 0 /\ shift' = << >>
      BY <3>1, <3>3 DEF SensorSees, CtlShape
    <3>5. Sent(k + 1) = 0
      BY <2>1 DEF Sent
    <3>6. WordPart(a, value, 0) = << >>
      BY WordGrows
    <3> QED BY <3>4, <3>5, <3>6
  <2>2. CASE k \in 1 .. A
    <3>1. k + 1 # 1 /\ k + 1 <= A + 1 /\ (k + 1) - 1 = k
      BY <1>1, <2>2
    <3>2. Next1(p) = Pulse(BitAt(a, value, k))
      BY <1>5, <3>1 DEF StepAt
    <3>3. Sent(k) = k - 1 /\ Sent(k + 1) = (k - 1) + 1 /\ k - 1 \in Nat /\ k - 1 < A + D /\ k = (k - 1) + 1 /\ k \in 1 .. A + D + 3
      BY <1>1, <2>2 DEF Sent
    <3> DEFINE m == k - 1
    <3>4. m \in Nat /\ Sent(k) = m /\ Sent(k + 1) = m + 1 /\ m < A + D /\ k = m + 1
      BY <3>3
    <3> HIDE DEF m
    <3> QED BY <1>14, <3>2, <3>3, <3>4
  <2>3. CASE k = A + 1
    <3>1. k + 1 # 1 /\ ~(k + 1 <= A + 1) /\ k + 1 = A + 2
      BY <1>1, <2>3
    <3>2. Next1(p) = Pin("clock", 0)
      BY <1>5, <3>1 DEF StepAt
    <3>3. Sent(k) = Sent(k + 1) /\ k \in 1 .. A + D + 3
      BY <1>1, <2>3 DEF Sent
    <3> QED BY <1>15, <3>2, <3>3
  <2>4. CASE k \in A + 2 .. A + D + 1
    <3>1. k + 1 # 1 /\ ~(k + 1 <= A + 1) /\ k + 1 # A + 2 /\ k + 1 <= A + D + 2 /\ (k + 1) - 2 = k - 1
      BY <1>1, <2>4
    <3>2. Next1(p) = Pulse(BitAt(a, value, k - 1))
      BY <1>5, <3>1 DEF StepAt
    <3> DEFINE m == k - 2
    <3>3. m \in Nat /\ Sent(k) = m /\ Sent(k + 1) = m + 1 /\ m < A + D /\ k - 1 = m + 1 /\ k \in 1 .. A + D + 3
      BY <1>1, <2>4 DEF Sent
    <3> HIDE DEF m
    <3> QED BY <1>14, <3>2, <3>3
  <2>5. CASE k = A + D + 2
    <3>1. k + 1 # 1 /\ ~(k + 1 <= A + 1) /\ k + 1 # A + 2 /\ ~(k + 1 <= A + D + 2) /\ k + 1 = A + D + 3
      BY <1>1, <2>5
    <3>2. Next1(p) = Pin("clock", 0)
      BY <1>5, <3>1 DEF StepAt
    <3>3. Sent(k) = Sent(k + 1) /\ k \in 1 .. A + D + 3
      BY <1>1, <2>5 DEF Sent
    <3> QED BY <1>15, <3>2, <3>3
  <2> QED BY <1>1, <2>1, <2>2, <2>3, <2>4, <2>5
<1>17. k + 1 = A + D + 4 => store'[a] = value \cap 0 .. D - 1
  <2> SUFFICES ASSUME k = A + D + 3 PROVE store'[a] = value \cap 0 .. D - 1
    BY <1>1
  <2>1. pins["latch"] = 0 /\ shift = WordPart(a, value, A + D)
    BY <1>1 DEF InWord, Sent
  <2>2. Next1(p) = Pin("latch", 1)
    BY <1>1, <1>5 DEF StepAt
  <2>3. SensorSees("latch", 1)
    BY <1>12, <2>2 DEF Pin
  <2>4. store' = Latched
    BY <2>1, <2>3 DEF SensorSees
  <2>5. Len(shift) = A + D
    BY <1>1, <2>1, WordGrows
  <2>6. /\ AddressOf(SubSeq(shift, 1, A)) = a
        /\ ValueOf(SubSeq(shift, A + 1, A + D)) = value \cap 0 .. D - 1
    BY <2>1, WordUnderstood
  <2> QED BY <2>4, <2>5, <2>6 DEF Latched, WordSize, CtlShape
<1>18. k + 1 # 0
  BY <1>1
<1> QED BY <1>6, <1>9, <1>10, <1>16, <1>17, <1>18 DEF InWord

\* Every step keeps the words on their way; only a step of its own, with nothing
\* failing, leaves a call clean.
LEMMA WordsKept ==
  ASSUME CtlAssumption, CtlShape, CtlTurns, PinsOnly, Words, [CtlNext]_ctlVars
  PROVE  Words'
<1>1. CASE UNCHANGED ctlVars
  BY <1>1 DEF ctlVars, procVars, sensor, Words
<1>2. CASE BankUndoes
  BY <1>2, ShapeKeptBank DEF Words
<1>3. ASSUME NEW p \in Users, UserStep(p) PROVE Words'
  <2> DEFINE At(k) == InWord(todo'[p], pins', shift', store', GainRegister[ctlCall'[p].name], n_gain'[p][GainRegister[ctlCall'[p].name]], k)
  <2> SUFFICES ASSUME todo'[p] # << >>, how'[p] = "clean", ctlCall'[p].name \in Channels
               PROVE  \E k \in 0 .. A + D + 4 : At(k)
    BY <1>3, OthersWait DEF Words
  <2>1. CASE EndCall(p)
    BY <2>1, EndDoes DEF CtlShape
  <2>2. CASE CallDevice(p) \/ SetGain(p)
    <3>1. PICK name, arg, steps : Started(p, name, arg, steps)
      BY <2>2, BeginDoes
    <3>2. /\ ctlCall' = [ctlCall EXCEPT ![p] = [name |-> name, arg |-> arg]]
          /\ todo' = [todo EXCEPT ![p] = Append(steps, End)] /\ how' = How(p) /\ pins' = pins
      BY <3>1 DEF Started, Begin, sensor
    <3>3. ctlCall'[p].name = name /\ todo'[p] = Append(steps, End) /\ name \in Channels
      BY <3>2 DEF CtlShape
    <3>4. pins'["latch"] = 1
      BY <3>2 DEF How
    <3> DEFINE r == GainRegister[name]
               value == Packed(n_gain[p][r], name, arg)
    <3>5. r \in {Green1Red, Green2Blue}
      BY <3>3, RegisterOfChannel
    <3>6. n_gain' = [n_gain EXCEPT ![p][r] = value] /\ todo'[p] = Append(WriteValue(r, value), End)
      BY <3>1, <3>3 DEF Started
    <3>7. n_gain'[p][r] = value
      BY <3>5, <3>6 DEF CtlShape
    <3> HIDE DEF r, value
    <3>8. /\ todo'[p] \in Seq(Unit) /\ Len(todo'[p]) = A + D + 5
          /\ \A k \in 1 .. A + D + 5 : todo'[p][k] = StepAt(r, value, k)
      BY <3>6, WordScript
    <3>9. A \in Nat /\ D \in Nat
      BY SizesOfWord
    <3>10. \A j \in 1 .. A + D + 5 - 0 : todo'[p][j] = StepAt(r, value, j + 0)
      <4>1. ASSUME NEW j \in 1 .. A + D + 5 - 0 PROVE j \in 1 .. A + D + 5 /\ j + 0 = j
        BY <3>9
      <4> QED BY <3>8, <4>1
    <3>11. InWord(todo'[p], pins', shift', store', r, value, 0)
      <4>1. A + D + 5 - 0 = A + D + 5 /\ 0 \notin 1 .. A + D + 3 /\ 0 # A + D + 4
        BY <3>9
      <4> QED BY <3>4, <3>8, <3>10, <4>1 DEF InWord
    <3>12. At(0)
      BY <3>3, <3>7, <3>11 DEF r
    <3>13. 0 \in 0 .. A + D + 4
      BY <3>9
    <3> QED BY <3>12, <3>13
  <2>3. CASE Middle(p)
    <3>1. how[p] = "clean"
      <4>1. how' = how \/ how' = [how EXCEPT ![p] = IF @ = "clean" THEN "alone" ELSE @]
        BY <2>3, MiddleDoes
      <4> QED BY <4>1 DEF CtlShape
    <3>2. ctlCall'[p].name = ctlCall[p].name
      <4>1. ~TestDevice(p) => ctlCall' = ctlCall
        BY <2>3 DEF Middle, I2cWrite, I2cRead, OpenDevice, SetPin, PulseBit
      <4>2. TestDevice(p) => ctlCall'[p] = ctlCall[p] \/ ctlCall'[p].name = "dead"
        BY DEF TestDevice, CtlShape, NoCall
      <4>3. "dead" \notin Channels
        BY DEF CtlAssumption
      <4> QED BY <4>1, <4>2, <4>3
    <3>3. todo[p] # << >> /\ n_gain' = n_gain
      BY <2>3, MiddleDoes
    <3> DEFINE r == GainRegister[ctlCall[p].name]
               value == n_gain[p][r]
    <3>4. PICK k \in 0 .. A + D + 4 : InWord(todo[p], pins, shift, store, r, value, k)
      BY <3>1, <3>2, <3>3 DEF Words
    <3>5. r \in {Green1Red, Green2Blue}
      BY <3>2, RegisterOfChannel
    <3>6. k < A + D + 4 /\ InWord(todo'[p], pins', shift', store', r, value, k + 1)
      <4> HIDE DEF r, value
      <4> QED BY <2>3, <3>1, <3>4, <3>5, WordGoesOn
    <3>7. At(k + 1)
      BY <3>2, <3>3, <3>6
    <3>8. k + 1 \in 0 .. A + D + 4
      BY <3>6, SizesOfWord
    <3> QED BY <3>7, <3>8
  <2> QED BY <1>3, <2>1, <2>2, <2>3 DEF UserStep, Middle
<1> QED BY <1>1, <1>2, <1>3 DEF CtlNext

(***************************************************************************)
(* The packing: setting one gain in its range leaves the other, and the    *)
(* word in the range that the sensor takes.                                *)
(***************************************************************************)
LEMMA HighIs ==
  ASSUME CtlAssumption, NEW word \in SUBSET Nat
  PROVE  \A x : x \in High(word) <=> x \in Nat /\ x + W \in word
<1>1. W \in Nat \ {0}
  BY SizesOfWord
<1>2. ASSUME NEW x, x \in High(word) PROVE x \in Nat /\ x + W \in word
  <2>1. PICK k \in word \ Low(word) : x = k - W
    BY <1>2 DEF High
  <2>2. k \in Nat /\ k >= W
    BY <1>1, <2>1 DEF Low
  <2>3. x + W = k
    BY <1>1, <2>1, <2>2
  <2> QED BY <1>1, <2>1, <2>2, <2>3
<1>3. ASSUME NEW x, x \in Nat, x + W \in word PROVE x \in High(word)
  <2>1. ~(x + W < W) /\ (x + W) - W = x
    BY <1>1, <1>3
  <2>2. x + W \in word \ Low(word)
    BY <1>3, <2>1 DEF Low
  <2> QED BY <2>1, <2>2 DEF High
<1> QED BY <1>2, <1>3

\* A gain in its range, packed into a word: the other gain stays.
LEMMA PackingKeeps ==
  ASSUME CtlAssumption, NEW word \in SUBSET (0 .. 2 * W - 1), NEW gain \in SUBSET Nat, gain = Low(gain),
         NEW channel \in AllChannels
  PROVE  /\ Packed(word, channel, gain) \in SUBSET (0 .. 2 * W - 1)
         /\ channel \in {"green1", "blue"} =>
              Low(Packed(word, channel, gain)) = gain /\ High(Packed(word, channel, gain)) = High(word)
         /\ channel \in {"red", "green2"} =>
              Low(Packed(word, channel, gain)) = Low(word) /\ High(Packed(word, channel, gain)) = gain
<1>1. W \in Nat \ {0}
  BY SizesOfWord
<1>2. \A k \in gain : k \in Nat /\ k < W
  BY DEF Low
<1>3. word \in SUBSET Nat /\ \A k \in word : k \in Nat /\ k < 2 * W
  BY <1>1
<1>4. CASE channel \in {"green1", "blue"}
  <2> DEFINE packed == PutLow(word, gain)
  <2>1. Packed(word, channel, gain) = packed
    BY <1>4 DEF Packed
  <2>2. \A k : k \in packed <=> k \in gain \/ (k \in word /\ ~(k < W))
    BY DEF PutLow, Low
  <2> HIDE DEF packed
  <2>3. ASSUME NEW k \in packed PROVE k \in 0 .. 2 * W - 1
    <3>1. CASE k \in gain
      <4>1. k \in Nat /\ k < W
        BY <1>2, <3>1
      <4> QED BY <1>1, <4>1
    <3>2. CASE k \in word
      BY <3>2
    <3> QED BY <2>2, <3>1, <3>2
  <2>4. packed \in SUBSET Nat
    BY <1>2, <1>3, <2>2
  <2>5. Low(packed) = gain
    BY <1>2, <2>2 DEF Low
  <2>6. High(packed) = High(word)
    <3>1. ASSUME NEW x \in Nat PROVE x + W \in packed <=> x + W \in word
      <4>1. ~(x + W < W)
        BY <1>1
      <4> QED BY <1>2, <2>2, <4>1
    <3>2. \A x : x \in High(packed) <=> x \in High(word)
      BY <1>3, <2>4, <3>1, HighIs
    <3> QED BY <3>2
  <2> QED BY <1>4, <2>1, <2>3, <2>5, <2>6
<1>5. CASE channel \notin {"green1", "blue"}
  <2> DEFINE packed == PutHigh(word, gain)
  <2>1. Packed(word, channel, gain) = packed
    BY <1>5 DEF Packed
  <2>2. \A k : k \in packed <=> (k \in word /\ k < W) \/ \E b \in gain : k = b + W
    BY DEF PutHigh, Shifted, Low
  <2> HIDE DEF packed
  <2>3. ASSUME NEW k \in packed PROVE k \in 0 .. 2 * W - 1
    <3>1. ASSUME NEW b \in gain, k = b + W PROVE k \in 0 .. 2 * W - 1
      <4>1. b \in Nat /\ b < W
        BY <1>2, <3>1
      <4> QED BY <1>1, <3>1, <4>1
    <3>2. CASE k \in word
      BY <3>2
    <3> QED BY <2>2, <3>1, <3>2
  <2>4. packed \in SUBSET Nat
    BY <1>1, <2>3
  <2>5. Low(packed) = Low(word)
    <3>1. ASSUME NEW b \in gain PROVE ~(b + W < W)
      BY <1>1, <1>2
    <3>2. \A k : k \in packed /\ k < W <=> k \in word /\ k < W
      BY <2>2, <3>1
    <3> QED BY <3>2 DEF Low
  <2>6. High(packed) = gain
    <3>1. ASSUME NEW x \in Nat PROVE x + W \in packed <=> x \in gain
      <4>1. ~(x + W < W)
        BY <1>1
      <4>2. ASSUME NEW b \in gain, x + W = b + W PROVE x = b
        BY <1>1, <1>2, <4>2
      <4> QED BY <2>2, <4>1, <4>2
    <3>2. \A x : x \in High(packed) <=> x \in gain
      BY <1>2, <2>4, <3>1, HighIs
    <3> QED BY <3>2
  <2> QED BY <1>5, <2>1, <2>3, <2>5, <2>6
<1> QED BY <1>4, <1>5

\* The gain that a process has asked for last.
Given(q, c) == IF todo[q] # << >> /\ ctlCall[q].name = c /\ c \in Channels THEN ctlCall[q].arg ELSE m_gain[q][c]
Gained == ranged => \A q \in Users :
  /\ \A r \in {Green1Red, Green2Blue} : n_gain[q][r] \in SUBSET (0 .. 2 * W - 1)
  /\ Low(n_gain[q][Green1Red]) = Given(q, "green1") /\ High(n_gain[q][Green1Red]) = Given(q, "red")
  /\ Low(n_gain[q][Green2Blue]) = Given(q, "blue") /\ High(n_gain[q][Green2Blue]) = Given(q, "green2")

\* Every step keeps the gains that a process has set and those it has packed equal.
LEMMA GainedKept ==
  ASSUME CtlAssumption, CtlShape, CtlTurns, PinsOnly, Gained, [CtlNext]_ctlVars
  PROVE  Gained'
<1>0. Green1Red # Green2Blue
  BY DEF Green1Red, Green2Blue
<1>1. CASE UNCHANGED ctlVars
  BY <1>1 DEF ctlVars, procVars, ctlHistory, Gained, Given
<1>2. CASE BankUndoes
  <2>1. ctlCall' = ctlCall /\ todo' = todo /\ n_gain' = n_gain /\ m_gain' = m_gain /\ ranged' = ranged
    BY <1>2 DEF BankUndoes
  <2>2. \A q, c : Given(q, c)' = Given(q, c)
    BY <2>1 DEF Given
  <2> QED BY <2>1, <2>2 DEF Gained
<1>3. ASSUME NEW p \in Users, UserStep(p) PROVE Gained'
  <2>1. \A q \in Users : q # p => n_gain'[q] = n_gain[q] /\ \A c : Given(q, c)' = Given(q, c)
    BY <1>3, OthersWait DEF Given
  <2>2. CASE EndCall(p)
    <3>1. /\ todo[p] = << End >> /\ todo'[p] = << >> /\ n_gain' = n_gain /\ ranged' = ranged
          /\ m_gain' = IF ctlCall[p].name \in Channels THEN [m_gain EXCEPT ![p][ctlCall[p].name] = ctlCall[p].arg] ELSE m_gain
      BY <2>2, EndDoes DEF CtlShape
    <3>2. \A c \in AllChannels : Given(p, c)' = Given(p, c)
      <4>1. ctlCall[p].name \in Channels => ctlCall[p].name \in AllChannels
        BY RegisterOfChannel
      <4>2. << End >> # << >>
        BY EndAlone
      <4> QED BY <3>1, <4>1, <4>2 DEF Given, CtlShape
    <3>3. {"green1", "red", "green2", "blue"} \subseteq AllChannels
      BY DEF AllChannels, GainRegister
    <3> QED BY <2>1, <3>1, <3>2, <3>3 DEF Gained
  <2>3. CASE CallDevice(p) \/ SetGain(p)
    <3>1. PICK name, arg, steps : Started(p, name, arg, steps)
      BY <2>3, BeginDoes
    <3>2. /\ ctlCall' = [ctlCall EXCEPT ![p] = [name |-> name, arg |-> arg]] /\ todo[p] = << >>
          /\ todo' = [todo EXCEPT ![p] = Append(steps, End)] /\ m_gain' = m_gain
      BY <3>1 DEF Started, Begin, CtlIdle
    <3>3. /\ ctlCall'[p].name = name /\ ctlCall'[p].arg = arg /\ todo'[p] # << >>
      BY <3>1, <3>2, ScriptEnds DEF CtlShape, Started
    <3>4. \A c : Given(p, c) = m_gain[p][c]
      BY <3>2 DEF Given
    <3>5. \A c : c # name \/ c \notin Channels => Given(p, c)' = m_gain[p][c]
      BY <3>2, <3>3 DEF Given
    <3>6. CASE name \notin Channels
      <4>1. UNCHANGED << n_gain, ranged >>
        BY <3>1, <3>6 DEF Started
      <4>2. \A c : Given(p, c)' = Given(p, c)
        BY <3>4, <3>5, <3>6
      <4> QED BY <2>1, <4>1, <4>2 DEF Gained
    <3>7. CASE name \in Channels
      <4> DEFINE r == GainRegister[name]
                 word == n_gain[p][r]
                 value == Packed(word, name, arg)
      <4>1. r \in {Green1Red, Green2Blue} /\ name \in AllChannels
        BY <3>7, RegisterOfChannel
      <4>2. n_gain' = [n_gain EXCEPT ![p][r] = value] /\ ranged' = (ranged /\ arg = Low(arg)) /\ arg \in SUBSET Nat
        BY <3>1, <3>7 DEF Started, CtlAssumption
      <4>3. n_gain'[p][r] = value /\ \A o \in {Green1Red, Green2Blue} : o # r => n_gain'[p][o] = n_gain[p][o]
        BY <4>1, <4>2 DEF CtlShape
      <4>4. Given(p, name)' = arg
        BY <3>3, <3>7 DEF Given
      <4> SUFFICES ASSUME ranged' PROVE Gained'
        BY DEF Gained
      <4>5. ranged /\ arg = Low(arg) /\ word \in SUBSET (0 .. 2 * W - 1)
        BY <4>1, <4>2 DEF Gained
      <4>6. /\ value \in SUBSET (0 .. 2 * W - 1)
            /\ name \in {"green1", "blue"} => Low(value) = arg /\ High(value) = High(word)
            /\ name \in {"red", "green2"} => Low(value) = Low(word) /\ High(value) = arg
        <5> HIDE DEF word, r
        <5> QED BY <4>1, <4>2, <4>5, PackingKeeps
      <4>7. \A o \in {Green1Red, Green2Blue} : n_gain'[p][o] \in SUBSET (0 .. 2 * W - 1)
        <5> HIDE DEF value, r
        <5> QED BY <4>3, <4>5, <4>6 DEF Gained
      <4>8. /\ r = IF name \in {"green1", "red"} THEN Green1Red ELSE Green2Blue
            /\ name \in {"green1", "red", "green2", "blue"}
        BY <4>1 DEF GainRegister, AllChannels
      <4>9. /\ Low(n_gain[p][Green1Red]) = m_gain[p]["green1"] /\ High(n_gain[p][Green1Red]) = m_gain[p]["red"]
            /\ Low(n_gain[p][Green2Blue]) = m_gain[p]["blue"] /\ High(n_gain[p][Green2Blue]) = m_gain[p]["green2"]
        BY <3>4, <4>5 DEF Gained
      <4>10. \A c : c # name => Given(p, c)' = m_gain[p][c]
        BY <3>5
      <4>11. /\ Low(n_gain'[p][Green1Red]) = Given(p, "green1")' /\ High(n_gain'[p][Green1Red]) = Given(p, "red")'
             /\ Low(n_gain'[p][Green2Blue]) = Given(p, "blue")' /\ High(n_gain'[p][Green2Blue]) = Given(p, "green2")'
        <5>1. CASE name \in {"green1", "red"}
          <6>1. n_gain'[p][Green1Red] = value /\ word = n_gain[p][Green1Red] /\ n_gain'[p][Green2Blue] = n_gain[p][Green2Blue]
            BY <1>0, <4>3, <4>8, <5>1
          <6> HIDE DEF value, word, r
          <6> QED BY <4>4, <4>6, <4>9, <4>10, <5>1, <6>1
        <5>2. CASE name \in {"green2", "blue"}
          <6>1. n_gain'[p][Green2Blue] = value /\ word = n_gain[p][Green2Blue] /\ n_gain'[p][Green1Red] = n_gain[p][Green1Red]
            BY <1>0, <4>3, <4>8, <5>2
          <6> HIDE DEF value, word, r
          <6> QED BY <4>4, <4>6, <4>9, <4>10, <5>2, <6>1
        <5> QED BY <4>8, <5>1, <5>2
      <4> QED BY <2>1, <4>5, <4>7, <4>11 DEF Gained
    <3> QED BY <3>6, <3>7
  <2>4. CASE Middle(p)
    <3>1. todo[p] # << >> /\ UNCHANGED << n_gain, m_gain, ranged >>
      BY <2>4, MiddleDoes
    <3>2. ASSUME ctlCall[p].name \in Channels PROVE todo'[p] # << >> /\ ctlCall' = ctlCall
      <4>1. EndLast(todo[p]) /\ Next1(p) \in Work
        BY <2>4, MiddleDoes DEF CtlTurns
      <4>2. Next1(p) = todo[p][1] /\ 1 \in 1 .. Len(todo[p])
        BY <3>1, <4>1, HeadTailProperties, EmptySeq DEF EndLast, Next1
      <4>3. Next1(p).do \in {"pin", "pulse", "end"}
        BY <3>2, <4>2 DEF PinsOnly
      <4>4. SetPin(p) \/ PulseBit(p)
        BY <2>4, <4>3 DEF Middle, I2cWrite, I2cRead, OpenDevice, TestDevice, Doing
      <4>5. ctlCall' = ctlCall /\ todo'[p] = Tail(todo[p])
        BY <4>4 DEF SetPin, PulseBit, Goes, CtlShape
      <4>6. Tail(todo[p]) # << >>
        BY <3>1, <4>1, EndComesLast, WorkIs DEF Next1
      <4> QED BY <4>5, <4>6
    <3>3. ctlCall[p].name \notin Channels => ctlCall'[p].name \notin Channels
      <4>1. ~TestDevice(p) => ctlCall' = ctlCall
        BY <2>4 DEF Middle, I2cWrite, I2cRead, OpenDevice, SetPin, PulseBit
      <4>2. TestDevice(p) => ctlCall'[p] = ctlCall[p] \/ ctlCall'[p].name = "dead"
        BY DEF TestDevice, CtlShape, NoCall
      <4>3. "dead" \notin Channels
        BY DEF CtlAssumption
      <4> QED BY <4>1, <4>2, <4>3
    <3>4. \A c : Given(p, c)' = Given(p, c)
      BY <3>1, <3>2, <3>3 DEF Given
    <3> QED BY <2>1, <3>1, <3>4 DEF Gained
  <2> QED BY <1>3, <2>2, <2>3, <2>4 DEF UserStep, Middle
<1> QED BY <1>1, <1>2, <1>3 DEF CtlNext

\* At the end of a clean call the sensor has the word, and both gains in it.
LEMMA GainsKept ==
  ASSUME CtlAssumption, CtlShape, CtlTurns, LastIdle, Words, Gained, Gained', GainsArrive, [CtlNext]_ctlVars
  PROVE  GainsArrive'
<1>1. CASE UNCHANGED ctlVars
  BY <1>1 DEF ctlVars, procVars, sensor, ctlHistory, GainsArrive
<1>2. CASE BankUndoes
  <2>1. last'.name \in Channels /\ last'.how = "clean" => FALSE
    <3>1. "none" \notin Channels
      BY DEF CtlAssumption
    <3> QED BY <1>2, <3>1 DEF BankUndoes, LastIdle
  <2> QED BY <2>1 DEF GainsArrive
<1>3. ASSUME NEW p \in Users, UserStep(p) PROVE GainsArrive'
  <2>1. CASE Middle(p)
    <3>1. todo[p] # << >> /\ last' = last
      BY <2>1, MiddleDoes
    <3>2. "none" \notin Channels
      BY DEF CtlAssumption
    <3> QED BY <3>1, <3>2 DEF LastIdle, GainsArrive
  <2>2. CASE CallDevice(p) \/ SetGain(p)
    <3>1. last' = [name |-> "none"]
      BY <2>2, BeginDoes DEF Started, Begin
    <3>2. "none" \notin Channels
      BY DEF CtlAssumption
    <3> QED BY <3>1, <3>2 DEF GainsArrive
  <2>3. CASE EndCall(p)
    <3>1. last' = [name |-> ctlCall[p].name, arg |-> ctlCall[p].arg, by |-> p, how |-> how[p], answer |-> Answer(p)]
      BY <2>3 DEF EndCall
    <3>2. todo[p] = << End >> /\ todo[p] # << >> /\ todo'[p] = << >> /\ UNCHANGED << store, n_gain, ranged >>
      <4>1. todo[p] = << End >> /\ todo' = [todo EXCEPT ![p] = << >>]
        BY <2>3, EndDoes
      <4>2. todo'[p] = << >>
        BY <4>1 DEF CtlShape
      <4>3. todo[p] # << >>
        BY <4>1, EndAlone
      <4>4. UNCHANGED << store, n_gain, ranged >>
        BY <2>3 DEF EndCall, sensor
      <4> QED BY <4>1, <4>2, <4>3, <4>4
    <3> DEFINE c == ctlCall[p].name
               r == GainRegister[c]
    <3> SUFFICES ASSUME c \in Channels, how[p] = "clean" PROVE GainsArrive'
      BY <3>1 DEF GainsArrive
    <3>3. r \in {Green1Red, Green2Blue} /\ c \in AllChannels
      BY RegisterOfChannel
    <3>4. store[r] = n_gain[p][r] \cap 0 .. D - 1
      <4>1. PICK k \in 0 .. A + D + 4 : InWord(todo[p], pins, shift, store, r, n_gain[p][r], k)
        BY <3>2 DEF Words
      <4>2. Len(todo[p]) = 1
        BY <3>2
      <4>3. k = A + D + 4
        <5>1. Len(todo[p]) = A + D + 5 - k
          BY <4>1 DEF InWord
        <5>2. A \in Nat /\ D \in Nat
          BY SizesOfWord
        <5>3. 1 = A + D + 5 - k
          BY <4>2, <5>1
        <5> QED BY <5>2, <5>3
      <4> QED BY <4>1, <4>3 DEF InWord
    <3>5. ASSUME ranged PROVE n_gain[p][r] \cap 0 .. D - 1 = n_gain[p][r]
      <4>1. n_gain[p][r] \in SUBSET (0 .. 2 * W - 1)
        BY <3>3, <3>5 DEF Gained
      <4>2. 0 .. 2 * W - 1 \subseteq 0 .. D - 1
        BY SizesOfWord
      <4> QED BY <4>1, <4>2
    <3>6. ASSUME ranged
          PROVE  /\ Low(n_gain[p][Green1Red]) = m_gain'[p]["green1"] /\ High(n_gain[p][Green1Red]) = m_gain'[p]["red"]
                 /\ Low(n_gain[p][Green2Blue]) = m_gain'[p]["blue"] /\ High(n_gain[p][Green2Blue]) = m_gain'[p]["green2"]
      <4>1. \A d : Given(p, d)' = m_gain'[p][d]
        BY <3>2 DEF Given
      <4>2. /\ Low(n_gain'[p][Green1Red]) = Given(p, "green1")' /\ High(n_gain'[p][Green1Red]) = Given(p, "red")'
            /\ Low(n_gain'[p][Green2Blue]) = Given(p, "blue")' /\ High(n_gain'[p][Green2Blue]) = Given(p, "green2")'
        BY <3>2, <3>6 DEF Gained
      <4> QED BY <3>2, <4>1, <4>2
    <3>7. last'.name = c /\ last'.by = p
      BY <3>1
    <3>8. Green1Red # Green2Blue
      BY DEF Green1Red, Green2Blue
    <3>9. store'[r] = n_gain'[p][r] \cap 0 .. D - 1
      BY <3>2, <3>4
    <3>10. ASSUME ranged PROVE store'[r] = n_gain[p][r]
      BY <3>2, <3>4, <3>5, <3>10
    <3>11. ASSUME ranged'
           PROVE  /\ Low(store'[r]) = m_gain'[p][IF r = Green1Red THEN "green1" ELSE "blue"]
                  /\ High(store'[r]) = m_gain'[p][IF r = Green1Red THEN "red" ELSE "green2"]
      <4>1. ranged
        BY <3>2, <3>11
      <4> QED BY <3>3, <3>6, <3>8, <3>10, <4>1
    <3> QED BY <3>7, <3>9, <3>11 DEF GainsArrive
  <2> QED BY <1>3, <2>1, <2>2, <2>3 DEF UserStep, Middle
<1> QED BY <1>1, <1>2, <1>3 DEF CtlNext

\* Together, with what the answers need.
GainInv == CtlInv /\ PinsOnly /\ Words /\ Gained

\* The inductive invariant of the gains holds at first.
LEMMA GainInvInit == ASSUME CtlAssumption, CtlInit PROVE GainInv /\ GainsArrive
<1>1. PinsOnly /\ Words
  <2>1. "idle" \notin Channels /\ "new" \notin Channels
    BY DEF CtlAssumption
  <2> QED BY <2>1 DEF CtlInit, PinsOnly, Words, NoCall
<1>2. Gained
  <2>1. W \in Nat \ {0}
    BY SizesOfWord
  <2>2. Low({}) = {} /\ High({}) = {}
    BY DEF Low, High
  <2>3. {"green1", "red", "green2", "blue"} \subseteq AllChannels
    BY DEF AllChannels, GainRegister
  <2>4. \A q \in Users : \A c \in AllChannels : Given(q, c) = {}
    BY DEF CtlInit, Given
  <2>5. \A q \in Users : \A r \in {Green1Red, Green2Blue} : n_gain[q][r] = {}
    BY DEF CtlInit
  <2> QED BY <2>2, <2>3, <2>4, <2>5 DEF Gained
<1>3. GainsArrive
  <2>1. "none" \notin Channels
    BY DEF CtlAssumption
  <2> QED BY <2>1 DEF CtlInit, GainsArrive
<1> QED BY <1>1, <1>2, <1>3, CtlInvInit DEF GainInv

(* After a gain function that nothing disturbed the sensor has the word    *)
(* that the process keeps; and if all gains were in their range, both gains*)
(* in it are those that the get functions of the process return            *)
(* (write_value, set_*_gain and get_*_gain), for every width of addresses, *)
(* values and gains, and whatever others have set before.                  *)
THEOREM GainsReachSensor == CtlSpec => []GainsArrive
<1>0. CtlAssumption
  BY CtlIsAssumed
<1>1. CtlInit => GainInv /\ GainsArrive
  BY <1>0, GainInvInit
<1>2. GainInv /\ [CtlNext]_ctlVars => GainInv'
  BY <1>0, CtlInvKept, PinsOnlyKept, WordsKept, GainedKept DEF GainInv, CtlInv
<1>3. GainInv /\ GainsArrive /\ [CtlNext]_ctlVars => GainsArrive'
  BY <1>0, <1>2, GainsKept DEF GainInv, CtlInv
<1> QED BY <1>1, <1>2, <1>3, PTL DEF CtlSpec
=============================================================================
