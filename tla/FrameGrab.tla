------------------------------ MODULE FrameGrab ------------------------------
(***************************************************************************)
(* The programs that take one picture from a video device.                 *)
(*   "camera1", "camera2"   V4L2: 1_camera_test.c (camera_test.c is the    *)
(*              same file) and 2_camera_test.c, which stream through a     *)
(*              queue of mapped buffers                                    *)
(*   "camera3", "camera4", "camera6"   V4L1, one mapped area of frames     *)
(* The video driver fills the buffers that it owns while the program runs; *)
(* a buffer is read in two halves, so that a picture may be torn.  Most    *)
(* calls that fail are reported and otherwise ignored.                     *)
(***************************************************************************)
EXTENDS Integers, Sequences, SequencesExt, FiniteSets

CONSTANTS
  Programs,      \* the programs to be run, some of the above
  MaxBuffers,    \* buffers the driver grants at most
  MaxTries,      \* retries of VIDIOCSYNC in camera6: 100
  MaxFrames, MaxSignals   \* bounds of the check: frames captured, signals

ASSUME FrameGrabAssumption ==
  /\ Programs \subseteq {"camera1", "camera2", "camera3", "camera4", "camera6"}
  /\ MaxBuffers \in Nat \ {0} /\ MaxTries \in Nat \ {0} /\ MaxFrames \in Nat /\ MaxSignals \in Nat

VARIABLES
  prog, pc,
  fd,            \* the device is open
  n_buffers, counter,   \* counter: of the loops of init_mmap and of start_capturing
  index,         \* buf.index, mm.frame, frame_current
  mapped,        \* buffers mapped into the program
  file,          \* what the picture file holds: up to two halves
  exists, queued, done, filling, streaming, content, frame,   \* the driver
  tries, signals,
  failed, taken  \* history: a call failed; a captured frame was handed over

progVars == << prog, fd, n_buffers, counter, index, mapped, file, tries, signals >>
drvVars  == << exists, queued, done, filling, streaming, content, frame >>
history  == << failed, taken >>
vars     == << pc, progVars, drvVars, history >>

Buffers == 0 .. MaxBuffers - 1
V4L2 == prog \in {"camera1", "camera2"}
Owned == ToSet(queued) \cup ToSet(done)     \* buffers that the driver has
Ended == pc \in {"exit", "failure", "abort", "crash"}

Init ==
  /\ prog \in Programs /\ pc = "open" /\ fd = FALSE
  /\ n_buffers = 0 /\ counter = 0 /\ mapped = {} /\ file = << >>
  /\ index = IF prog = "camera6" THEN 1 ELSE 0
  /\ exists = {} /\ queued = << >> /\ done = << >> /\ filling = FALSE /\ streaming = FALSE
  /\ content = [b \in Buffers |-> << 0, 0 >>] /\ frame = 0
  /\ tries = 0 /\ signals = 0 /\ failed = FALSE /\ taken = FALSE

(***************************************************************************)
(* The driver: captures into the first buffer queued, half by half, until  *)
(* the device is closed or the process gone.                               *)
(***************************************************************************)
Fill ==
  /\ queued # << >> /\ streaming /\ ~Ended
  /\ LET b == Head(queued) IN
     \/ /\ ~filling /\ frame < MaxFrames
        /\ frame' = frame + 1 /\ content' = [content EXCEPT ![b][1] = frame + 1]
        /\ filling' = TRUE /\ UNCHANGED << queued, done >>
     \/ /\ filling /\ filling' = FALSE /\ content' = [content EXCEPT ![b][2] = frame]
        /\ queued' = Tail(queued) /\ done' = Append(done, b) /\ UNCHANGED frame
  /\ UNCHANGED << pc, progVars, exists, streaming, history >>

(***************************************************************************)
(* What every call may do: succeed, when the device is open, or fail.      *)
(***************************************************************************)
Succeeds == fd /\ UNCHANGED failed
Fails == failed' = TRUE

Open ==
  /\ pc = "open"
  /\ \/ fd' = TRUE /\ pc' = "setup" /\ UNCHANGED failed
     \/ /\ Fails /\ UNCHANGED fd
        /\ pc' = IF prog \in {"camera2", "camera4"} THEN "setup" ELSE "failure"
  /\ UNCHANGED << prog, n_buffers, counter, index, mapped, file, tries, signals, drvVars, taken >>

\* VIDIOC_QUERYCAP, VIDIOC_S_FMT; VIDIOCGCAP, VIDIOCGPICT, VIDIOCSPREVIEW
Setup ==
  /\ pc = "setup"
  /\ \/ Succeeds /\ pc' = IF V4L2 THEN "request" ELSE "map"
     \/ Fails /\ pc' = IF V4L2 THEN "request" ELSE IF prog = "camera4" THEN "map" ELSE "failure"
  /\ UNCHANGED << progVars, drvVars, taken >>

(***************************************************************************)
(* V4L2.  The driver may grant any number of buffers; after a failure      *)
(* req.count is still the 1 that was asked for.                            *)
(***************************************************************************)
RequestBuffers ==
  /\ pc = "request" /\ pc' = "query"
  /\ \/ Succeeds /\ \E k \in 0 .. MaxBuffers : n_buffers' = k /\ exists' = 0 .. k - 1
     \/ Fails /\ n_buffers' = 1 /\ UNCHANGED exists
  /\ UNCHANGED << prog, fd, counter, index, mapped, file, tries, signals,
                  queued, done, filling, streaming, content, frame, taken >>

BufferAt == counter

MapBuffer ==
  /\ pc = "query" /\ counter < n_buffers /\ counter' = counter + 1
  /\ \/ counter \in exists /\ mapped' = mapped \cup {BufferAt} /\ UNCHANGED failed
     \/ Fails /\ UNCHANGED mapped
  /\ UNCHANGED << pc, prog, fd, n_buffers, index, file, tries, signals, drvVars, taken >>

QueueBuffer ==
  /\ pc = "queue" /\ counter < n_buffers /\ counter' = counter + 1
  /\ \/ counter \in exists /\ queued' = Append(queued, counter) /\ UNCHANGED failed
     \/ Fails /\ UNCHANGED queued
  /\ UNCHANGED << pc, prog, fd, n_buffers, index, mapped, file, tries, signals,
                  exists, done, filling, streaming, content, frame, taken >>

LoopEnds ==
  /\ counter = n_buffers
  /\ \/ pc = "query" /\ pc' = "queue" /\ counter' = 0
     \/ pc = "queue" /\ pc' = "streamon" /\ UNCHANGED counter
  /\ UNCHANGED << prog, fd, n_buffers, index, mapped, file, tries, signals, drvVars, history >>

StreamOn ==
  /\ pc = "streamon" /\ pc' = "select"
  /\ \/ exists # {} /\ streaming' = TRUE /\ UNCHANGED failed
     \/ Fails /\ UNCHANGED streaming
  /\ UNCHANGED << progVars, exists, queued, done, filling, content, frame, taken >>

\* A device that does not stream is readable: it has an error to report.
Readable == fd /\ (done # << >> \/ ~streaming)

\* Mutation: the program waits again after a timeout.
TimeoutRetried == ~Readable /\ pc' = "select"
Timeout == ~Readable /\ pc' = "failure"

Select ==
  /\ pc = "select"
  /\ \/ Readable /\ pc' = "dequeue" /\ UNCHANGED << signals, failed >>
     \/ Timeout /\ UNCHANGED << signals, failed >>
     \/ signals < MaxSignals /\ signals' = signals + 1 /\ UNCHANGED << pc, failed >>   \* EINTR
     \/ fd /\ Fails /\ pc' = "dequeue" /\ UNCHANGED signals
  /\ UNCHANGED << prog, fd, n_buffers, counter, index, mapped, file, tries, drvVars, taken >>

\* Only the assertion looks at the result; the index is 0 after a failure.
Dequeue ==
  /\ pc = "dequeue"
  /\ \/ /\ done # << >> /\ streaming /\ index' = Head(done) /\ done' = Tail(done)
        /\ taken' = TRUE /\ UNCHANGED failed
     \/ Fails /\ index' = 0 /\ UNCHANGED << done, taken >>
  /\ pc' = IF index' < n_buffers THEN "write" ELSE "abort"
  /\ UNCHANGED << prog, fd, n_buffers, counter, mapped, file, tries, signals,
                  exists, queued, filling, streaming, content, frame >>

Requeue ==
  /\ pc = "requeue" /\ pc' = "unmap"
  /\ \/ /\ index \in exists \ Owned /\ queued' = Append(queued, index) /\ UNCHANGED failed
     \/ Fails /\ UNCHANGED queued
  /\ UNCHANGED << progVars, exists, done, filling, streaming, content, frame, taken >>

\* camera2 unmaps the first buffer every time.  STREAMOFF takes all buffers back,
\* and if it fails close does.
StreamOff ==
  /\ pc = "unmap" /\ V4L2 /\ pc' = "exit" /\ fd' = FALSE
  /\ mapped' = IF prog = "camera1" THEN {} ELSE mapped \ {0}
  /\ streaming' = FALSE /\ filling' = FALSE /\ queued' = << >> /\ done' = << >>
  /\ failed' \in {failed, TRUE}
  /\ UNCHANGED << prog, n_buffers, counter, index, file, tries, signals, exists, content, frame, taken >>

(***************************************************************************)
(* V4L1.  VIDIOCGMBUF and mmap; the tests map < 0 of camera3 and camera4   *)
(* compare pointers and are never true, so those go on without a mapping.  *)
(***************************************************************************)
Map ==
  /\ pc = "map"
  /\ \/ /\ Succeeds /\ pc' = "capture"
        /\ \E k \in 1 .. MaxBuffers : exists' = 0 .. k - 1 /\ mapped' = exists'
     \/ /\ Fails /\ UNCHANGED << exists, mapped >>              \* VIDIOCGMBUF
        /\ pc' = IF prog = "camera4" THEN "capture" ELSE "failure"
     \/ /\ Fails /\ fd /\ UNCHANGED mapped                      \* mmap
        /\ \E k \in 1 .. MaxBuffers : exists' = 0 .. k - 1
        /\ pc' = IF prog = "camera6" THEN "failure" ELSE "capture"
  /\ UNCHANGED << prog, fd, n_buffers, counter, index, file, tries, signals,
                  queued, done, filling, streaming, content, frame, taken >>

\* VIDIOCMCAPTURE of frame 0 or 1, which V4L1 needs no STREAMON for.  camera3 calls VIDIOCCAPTURE with 0,
\* which captures nothing, and never VIDIOCSYNC.
Capture ==
  /\ pc = "capture"
  /\ \/ /\ prog = "camera3" /\ pc' = "scan"
        /\ UNCHANGED << queued, streaming, failed >>
     \/ /\ prog # "camera3" /\ fd /\ index \in exists /\ pc' = "sync"
        /\ queued' = Append(queued, index) /\ streaming' = TRUE /\ UNCHANGED failed
     \/ /\ prog # "camera3" /\ Fails /\ UNCHANGED << queued, streaming >>
        /\ pc' = IF prog = "camera6" THEN "failure" ELSE "sync"
  /\ UNCHANGED << progVars, exists, done, filling, content, frame, taken >>

\* VIDIOCSYNC returns when the frame is there.  camera6 tries again after
\* EAGAIN and EINTR only, and writes the picture after any other error.
Sync ==
  /\ pc = "sync"
  /\ \/ /\ index \in ToSet(done) /\ done' = Tail(done) /\ taken' = TRUE
        /\ pc' = IF prog = "camera6" THEN "fopen" ELSE "unmap"
        /\ UNCHANGED << tries, failed >>
     \/ /\ prog = "camera6" /\ tries' = tries + 1
        /\ pc' = IF tries' < MaxTries THEN "sync" ELSE "exit"
        /\ failed' = (failed \/ tries' = MaxTries) /\ UNCHANGED << done, taken >>
     \/ /\ Fails /\ UNCHANGED << done, taken, tries >>
        /\ pc' = IF prog = "camera6" THEN "fopen" ELSE "unmap"
  /\ UNCHANGED << prog, fd, n_buffers, counter, index, mapped, file, signals,
                  exists, queued, filling, streaming, content, frame >>

\* get_jpegsize, of which the result is not used, and malloc, memcpy.
Scan ==
  /\ pc = "scan"
  /\ \/ pc' = (IF mapped = {} THEN "crash" ELSE "fopen") /\ UNCHANGED failed
     \/ mapped # {} /\ Fails /\ pc' = "failure"
  /\ UNCHANGED << progVars, drvVars, taken >>

Fopen ==
  /\ pc = "fopen"
  /\ pc' \in {"write", "crash"} /\ failed' = (failed \/ pc' = "crash")
  /\ UNCHANGED << progVars, drvVars, taken >>

(***************************************************************************)
(* fwrite, half by half.  camera6 writes the whole area, of which the file *)
(* has the frame that was captured.  A buffer that is not mapped has       *)
(* length 0 (VIDIOC_QUERYBUF failed), or the address MAP_FAILED.           *)
(***************************************************************************)
\* Mutation: buffers->start, as in the munmap of camera2.
FirstBuffer == 0
Source == index

AfterWrite == IF V4L2 THEN "requeue" ELSE "unmap"

Write ==
  /\ pc = "write"
  /\ IF Source \in mapped
     THEN /\ file' = Append(file, content[Source][Len(file) + 1])
          /\ pc' = IF Len(file') = 2 THEN AfterWrite ELSE "write"
     ELSE pc' \in {AfterWrite, "crash"} /\ UNCHANGED file
  /\ UNCHANGED << prog, fd, n_buffers, counter, index, mapped, tries, signals, drvVars, history >>

\* camera1 and camera2 have opened the file first of all; nobody looks whether
\* they could.
WriteNowhere ==
  /\ pc = "write" /\ V4L2 /\ file = << >> /\ pc' = "crash" /\ Fails
  /\ UNCHANGED << progVars, drvVars, taken >>

\* munmap, close.  camera4 gives munmap whatever is in an unset variable when
\* VIDIOCGMBUF failed.
Unmap ==
  /\ pc = "unmap" /\ ~V4L2
  /\ IF prog = "camera4" /\ exists = {} THEN pc' \in {"exit", "crash"} ELSE pc' = "exit"
  /\ mapped' = {} /\ fd' = (fd /\ prog = "camera6")
  /\ UNCHANGED << prog, n_buffers, counter, index, file, tries, signals, drvVars, history >>

Program ==
  \/ Open \/ Setup \/ RequestBuffers \/ MapBuffer \/ QueueBuffer \/ LoopEnds \/ StreamOn
  \/ Select \/ Dequeue \/ Requeue \/ StreamOff
  \/ Map \/ Capture \/ Sync \/ Scan \/ Fopen \/ Write \/ WriteNowhere \/ Unmap
Next == Program \/ Fill

Spec == Init /\ [][Next]_vars

\* The program is scheduled; the driver need not deliver a frame.
FairSpec == Spec /\ WF_vars(Program)

(***************************************************************************)
(* Properties.                                                             *)
(***************************************************************************)
TypeOK ==
  /\ pc \in {"open", "setup", "request", "query", "queue", "streamon", "select", "dequeue",
             "write", "requeue", "unmap", "map", "capture", "sync", "scan", "fopen"} \/ Ended
  /\ mapped \subseteq exists /\ exists \subseteq Buffers /\ index \in Buffers \cup {1}
  /\ Owned \subseteq exists /\ Len(queued) + Len(done) = Cardinality(Owned)
  /\ Len(file) <= 2 /\ tries <= MaxTries

(* A buffer that the driver handed over (VIDIOC_DQBUF, VIDIOCSYNC) goes    *)
(* whole into the file: the driver does not touch it before it is queued   *)
(* again.  And a program that ends with no failed call has written one     *)
(* (read_frame, main of 6_camera_test.c).                                  *)
PictureIsWhole ==
  /\ taken /\ Len(file) = 2 => file[1] = file[2] /\ file[1] # 0
  /\ pc = "exit" /\ ~failed /\ prog \in {"camera1", "camera2", "camera6"} => Len(file) = 2

(* The streaming programs end although the camera sends nothing: the       *)
(* select of main has a timeout of two seconds.                            *)
GrabEnds == V4L2 ~> Ended
=============================================================================
