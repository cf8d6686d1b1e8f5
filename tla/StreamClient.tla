---------------------------- MODULE StreamClient ----------------------------
(***************************************************************************)
(* The TCP clients of the camera, all of which cut a byte stream into what *)
(* was sent:                                                               *)
(*   "command"  tcp_command: the data thread of client.c records one file  *)
(*              per video; the main thread of comand.c sends commands and  *)
(*              stores photos over a second connection                     *)
(*   "select"   2_slect_test/client.c: the same recorder without commands  *)
(*   "single"   2_slect_test/client_single.c: the first video only         *)
(*   "file"     fileclient.c, project/client.c: a header with a name, then *)
(*              the contents of a file until the server closes             *)
(* A unit of the stream stands for a run of bytes that the code treats     *)
(* alike.  TCP keeps order and loses nothing, but one recv returns any     *)
(* part of what was asked for.                                             *)
(***************************************************************************)
EXTENDS Integers, Sequences, SequencesExt, FiniteSetsExt

CONSTANTS
  Programs,      \* the programs to be run, some of the four above
  N,             \* videos, and images of a photo: 4 in the code
  Lens,          \* the frames of the camera: lengths of the N videos
  ImageSize, AckSize,
  Limits,        \* how many files the process may have open (RLIMIT_NOFILE)
  MaxFrames, MaxSessions, MaxCommands   \* bounds of the check

ASSUME StreamAssumption ==
  /\ Programs \subseteq {"command", "select", "single", "file"}
  /\ N \in Nat \ {0} /\ Lens \subseteq [1 .. N -> Nat]
  /\ ImageSize \in Nat \ {0} /\ AckSize \in Nat \ {0}
  /\ Limits \subseteq Nat

VARIABLES
  program, file_flag, limit,
  mpc, mode, operate, count, ctl, image, len, photo, short,
  cut,           \* history: the images of the photo that fwrite stored in part
  session, sem, cancel, fds,
  dpc, linked, buf, net_enc, ret, slice, frame, file,
  sent, line, dead

setup    == << program, file_flag, limit >>
mainVars == << mpc, mode, operate, count, ctl, image, len, photo, short, cut >>
syncVars == << session, sem, cancel >>
dataVars == << dpc, linked, buf, net_enc, ret, slice, frame, file >>
vars == << setup, mainVars, syncVars, fds, dataVars, sent, line, dead >>

Videos == 1 .. N

(***************************************************************************)
(* What the camera sends: for each frame its lengths and then its videos.  *)
(***************************************************************************)
Units(f, v, n) == [k \in 1 .. n |-> << f, v, k >>]
FrameUnits(f, lens) ==
  FlattenSeq(<< [v \in Videos |-> << f, 0, lens[v] >>] >>
             \o [v \in Videos |-> Units(f, v, lens[v])])
HeaderSize == N
Image(c, i) == Units(c, i, ImageSize)
Reply(c, type) ==
  CASE type \in {1, 9} -> Units(c, 0, AckSize)
    [] type = 8        -> FlattenSeq(<< Units(c, 0, AckSize) >> \o [i \in Videos |-> Image(c, i)])
    [] OTHER           -> << >>

Running == mpc # "exited"
Recorder == program \in {"command", "select"}

Init ==
  /\ program \in Programs /\ limit \in Limits
  /\ file_flag \in IF Recorder THEN BOOLEAN ELSE {TRUE}
  /\ mpc = IF program = "command" THEN "create" ELSE "none"
  /\ mode \in IF program = "command" THEN {"manual", "auto"} ELSE {"none"}
  /\ operate = 0 /\ count = 0
  /\ ctl = << >> /\ image = << >> /\ len = 0 /\ photo = << >> /\ short = FALSE /\ cut = {}
  /\ session = IF program = "command" THEN 0 ELSE 1
  /\ sem = 0 /\ cancel = FALSE
  /\ fds = IF program = "command" THEN 1 ELSE 0
  /\ dpc = IF program = "command" THEN "none" ELSE "open"
  /\ linked = FALSE /\ buf = << >> /\ net_enc = [v \in Videos |-> 0]
  /\ ret = "unset" /\ slice = 1 /\ frame = 0 /\ file = [v \in Videos |-> << >>]
  /\ sent = << >> /\ line = << >> /\ dead = "no"

(***************************************************************************)
(* The camera, and the file server: external.                              *)
(***************************************************************************)
CameraSends ==
  /\ linked /\ dead = "no" /\ Len(sent) < IF program = "file" THEN 1 ELSE MaxFrames
  /\ \E lens \in Lens :
       /\ sent' = Append(sent, lens)
       /\ line' = line \o FrameUnits(Len(sent) + 1, lens)
  /\ UNCHANGED << setup, mainVars, syncVars, fds, dataVars, dead >>

\* recv may fail as soon as the peer is gone, with units still on the way.
CameraDies ==
  /\ linked /\ dead = "no" /\ dead' \in {"closed", "reset"}
  /\ UNCHANGED << setup, mainVars, syncVars, fds, dataVars, sent, line >>

(***************************************************************************)
(* The data thread; in the other programs, the program.                    *)
(***************************************************************************)
DGoto(from, to) == Running /\ dpc = from /\ dpc' = to

\* fopen "wb" truncates.  A thread that cannot open returns without sem_post.
OpenFiles ==
  /\ LET opened == IF program = "file" THEN 0 ELSE Min({N, limit - fds})
     IN  /\ DGoto("open", IF opened = N \/ program = "file" THEN "connect" ELSE "ended")
         /\ file' = [v \in Videos |-> IF v <= opened THEN << >> ELSE file[v]]
         /\ fds' = fds + opened
  /\ UNCHANGED << setup, mainVars, syncVars, linked, buf, net_enc, ret, slice, frame, sent, line, dead >>

AfterConnect == IF program = "command" THEN "post" ELSE "header"

\* socket, connect and send.
Connect ==
  /\ fds < limit /\ dead = "no"
  /\ DGoto("connect", AfterConnect)
  /\ linked' = TRUE /\ fds' = fds + 1
  /\ UNCHANGED << setup, mainVars, syncVars, buf, net_enc, ret, slice, frame, file, sent, line, dead >>

\* Whatever fails there ends the whole process.
ConnectFails ==
  /\ Running /\ dpc = "connect" /\ mpc' = "exited"
  /\ UNCHANGED << setup, mode, operate, count, ctl, image, len, photo, short, cut,
                  syncVars, fds, dataVars, sent, line, dead >>

SemPost ==
  /\ DGoto("post", "header") /\ sem' = sem + 1
  /\ UNCHANGED << setup, mainVars, session, cancel, fds, linked, buf, net_enc, ret, slice,
                  frame, file, sent, line, dead >>

\* What one recv of at most want units may return.
Part(want) == {SubSeq(line, 1, k) : k \in 1 .. Min({want, Len(line)})}
LeaveRest(got) == line' = SubSeq(line, Len(got) + 1, Len(line))

\* Where the data of each video ends in the body of a frame.
Ends(lens) == LET end[v \in 0 .. N] == IF v = 0 THEN 0 ELSE end[v - 1] + lens[v] IN end
Sum(lens) == Ends(lens)[N]

\* client_single.c takes a header that arrives in parts for an error; the file
\* clients take the part for the header.
RecvHeader ==
  /\ Running /\ dpc = "header"
  /\ \E got \in Part(HeaderSize - Len(buf)) :
       /\ LeaveRest(got)
       /\ IF Len(buf \o got) = HeaderSize /\ program # "file"
          THEN /\ net_enc' = [v \in Videos |-> (buf \o got)[v][3]]
               /\ dpc' = IF Sum(net_enc') = 0 THEN "write" ELSE "body"
               /\ buf' = << >> /\ frame' = frame + 1 /\ slice' = 1
               /\ UNCHANGED << short, fds, file >>
          ELSE /\ dpc' = CASE Recorder -> "header" [] program = "single" -> "ended"
                            [] program = "file" -> IF fds < limit THEN "body" ELSE "ended"
               /\ buf' = IF Recorder THEN buf \o got ELSE << >>
               /\ short' = (short \/ (program = "file" /\ Len(got) < HeaderSize))
               /\ fds' = IF program = "file" /\ fds < limit THEN fds + 1 ELSE fds
               /\ file' = IF program = "file" THEN [file EXCEPT ![1] = << >>] ELSE file
               /\ UNCHANGED << net_enc, frame, slice >>
  /\ UNCHANGED << setup, mpc, mode, operate, count, ctl, image, len, photo, cut, syncVars, linked, ret, sent, dead >>

BodyLeft == Sum(net_enc) - Len(buf)

RecvBody ==
  /\ Running /\ dpc = "body" /\ program # "file"
  /\ \E got \in Part(BodyLeft) :
       /\ LeaveRest(got) /\ buf' = buf \o got
       /\ dpc' = IF Len(buf') < Sum(net_enc) THEN "body" ELSE "write"
  /\ UNCHANGED << setup, mainVars, syncVars, fds, linked, net_enc, ret, slice, frame, file, sent, dead >>

\* Mutant: the file is opened again for each part.
RecvFileRewinding ==
  /\ Running /\ dpc = "body" /\ program = "file"
  /\ \E got \in Part(Len(line)) :
       LeaveRest(got) /\ file' = [file EXCEPT ![1] = got]
  /\ UNCHANGED << setup, mainVars, syncVars, fds, dpc, linked, buf, net_enc, ret, slice, frame, sent, dead >>

\* fileclient.c writes each part as it comes.
RecvFile ==
  /\ Running /\ dpc = "body" /\ program = "file"
  /\ \E got \in Part(Len(line)) :
       LeaveRest(got) /\ file' = [file EXCEPT ![1] = @ \o got]
  /\ UNCHANGED << setup, mainVars, syncVars, fds, dpc, linked, buf, net_enc, ret, slice, frame, sent, dead >>

\* A short fwrite ends the program.
WriteFileFails ==
  /\ Running /\ dpc = "body" /\ program = "file" /\ dpc' = "ended"
  /\ \E got \in Part(Len(line)) : \E k \in 0 .. Len(got) - 1 :
       LeaveRest(got) /\ file' = [file EXCEPT ![1] = @ \o SubSeq(got, 1, k)]
  /\ UNCHANGED << setup, mainVars, syncVars, fds, linked, buf, net_enc, ret, slice, frame, sent, dead >>

\* recv returns 0 or -1.  Only a failure in the header closes the socket.
RecvFails ==
  /\ Running /\ dpc \in {"header", "body"} /\ dead # "no"
  /\ dpc' = "ended"
  /\ fds' = IF Recorder /\ dpc = "header" THEN fds - 1 ELSE fds
  /\ UNCHANGED << setup, mainVars, syncVars, linked, buf, net_enc, ret, slice, frame, file, sent, line, dead >>

\* Mutant: every video is written from the start of the body.
SliceFromStart(v) == SubSeq(buf, 1, net_enc[v])
Slice(v) == SubSeq(buf, Ends(net_enc)[v - 1] + 1, Ends(net_enc)[v])

AfterSlice == IF program = "single" \/ slice = N THEN "header" ELSE "write"

\* ret is read after the first slice even when nothing was written: it keeps
\* the 1 of an earlier fwrite or, never assigned, is whatever the stack held.
WriteSlice ==
  /\ Running /\ dpc = "write" /\ (Recorder => file_flag)
  /\ IF net_enc[slice] # 0
     THEN file' = [file EXCEPT ![slice] = @ \o Slice(slice)] /\ ret' = "one" /\ dpc' = AfterSlice
     ELSE /\ UNCHANGED << file, ret >>
          /\ dpc' \in CASE program = "single" -> {"ended"}
                        [] Recorder /\ slice = 1 /\ ret = "unset" -> {AfterSlice, "ended"}
                        [] OTHER -> {AfterSlice}
  /\ slice' = slice + 1
  /\ buf' = IF dpc' = "header" THEN << >> ELSE buf
  /\ UNCHANGED << setup, mainVars, syncVars, fds, linked, net_enc, frame, sent, line, dead >>

\* fwrite stores a part of the slice, on a full disk or because pthread_cancel
\* acts in it: the thread ends.
WriteFails ==
  /\ Running /\ dpc = "write" /\ (Recorder => file_flag) /\ dpc' = "ended"
  /\ \E k \in 0 .. net_enc[slice] - 1 :
       file' = [file EXCEPT ![slice] = @ \o SubSeq(Slice(slice), 1, k)]
  /\ UNCHANGED << setup, mainVars, syncVars, fds, linked, buf, net_enc, ret, slice, frame, sent, line, dead >>

NothingToWrite ==
  /\ Recorder /\ ~file_flag /\ DGoto("write", "header") /\ buf' = << >>
  /\ UNCHANGED << setup, mainVars, syncVars, fds, linked, net_enc, ret, slice, frame, file, sent, line, dead >>

\* pthread_cancel takes effect in recv, and before an fwrite or after it; for one
\* that acts in fwrite see WriteFails.  Nothing is closed.
Cancelled ==
  /\ cancel /\ Running /\ dpc \in {"header", "body", "write"} /\ dpc' = "ended"
  /\ UNCHANGED << setup, mainVars, syncVars, fds, linked, buf, net_enc, ret, slice, frame, file, sent, line, dead >>

(***************************************************************************)
(* The main thread of comand.c.                                            *)
(***************************************************************************)
MGoto(from, to) == mpc = from /\ mpc' = to

Create ==
  /\ MGoto("create", "wait") /\ session < MaxSessions
  /\ session' = session + 1 /\ cancel' = FALSE
  /\ dpc' = "open" /\ linked' = FALSE /\ buf' = << >> /\ ret' = "unset" /\ frame' = 0 /\ slice' = 1
  /\ sent' = << >> /\ line' = << >>
  /\ UNCHANGED << setup, mode, operate, count, ctl, image, len, photo, short, cut, sem, fds, net_enc, file, dead >>

\* Mutant: a signal ends the wait and nobody looks at the result.
SemWaitInterrupted ==
  /\ MGoto("wait", "command") /\ sem' = sem
  /\ UNCHANGED << setup, mode, operate, count, ctl, image, len, photo, short, cut, session, cancel,
                  fds, dataVars, sent, line, dead >>

SemWait ==
  /\ MGoto("wait", "command") /\ sem > 0 /\ sem' = sem - 1
  /\ UNCHANGED << setup, mode, operate, count, ctl, image, len, photo, short, cut, session, cancel,
                  fds, dataVars, sent, line, dead >>

AutoCommand == << 3, 8, 9, 4 >>[operate + 1]

Command ==
  /\ mpc = "command" /\ count < MaxCommands
  /\ count' = count + 1 /\ operate' = IF mode = "auto" THEN (operate + 1) % 4 ELSE operate
  /\ \E type \in IF mode = "auto" THEN {AutoCommand} ELSE {1, 3, 4, 8, 9} :
       /\ ctl' = IF dead = "no" THEN ctl \o Reply(count', type) ELSE ctl
       /\ mpc' = CASE type \in {1, 9} -> "ack" [] type = 8 -> "head"
                   [] type = 4 -> "cancel" [] OTHER -> "command"
  /\ image' = << >> /\ len' = 0 /\ photo' = << >> /\ cut' = {}
  /\ UNCHANGED << setup, mode, short, syncVars, fds, dataVars, sent, line, dead >>

\* send to a peer that is gone raises SIGPIPE.
BrokenPipe ==
  /\ MGoto("command", "exited") /\ dead # "no"
  /\ UNCHANGED << setup, mode, operate, count, ctl, image, len, photo, short, cut, syncVars,
                  fds, dataVars, sent, line, dead >>

\* One recv, whatever it returns, is taken for the ack or the head of the photo.
RecvAck ==
  /\ mpc \in {"ack", "head"} /\ mpc' = IF mpc = "ack" THEN "command" ELSE "image"
  /\ \/ /\ Len(ctl) > 0 /\ dead' = dead
        /\ \E k \in 1 .. Min({AckSize, Len(ctl)}) :
             ctl' = SubSeq(ctl, k + 1, Len(ctl)) /\ short' = (short \/ k < AckSize)
     \/ /\ dead # "no" /\ dead' = "closed" /\ ctl' = << >> /\ short' = TRUE
  /\ UNCHANGED << setup, mode, operate, count, image, len, photo, cut, syncVars, fds, dataVars, sent, line >>

RecvImage ==
  /\ mpc = "image" /\ len # ImageSize
  /\ \E k \in 1 .. Min({ImageSize - len, Len(ctl)}) :
       /\ image' = image \o SubSeq(ctl, 1, k) /\ len' = len + k
       /\ ctl' = SubSeq(ctl, k + 1, Len(ctl))
  /\ UNCHANGED << setup, mpc, mode, operate, count, photo, short, cut, syncVars, fds, dataVars, sent, line, dead >>

\* recv returns -1, which is added to len.  From then on it returns 0 and the
\* loop spins: a step that changes nothing.
RecvImageFails ==
  /\ mpc = "image" /\ len # ImageSize /\ dead = "reset"
  /\ dead' = "closed" /\ len' = len - 1 /\ ctl' = << >>
  /\ UNCHANGED << setup, mpc, mode, operate, count, image, photo, short, cut, syncVars, fds, dataVars, sent, line >>

\* Mutant: len is not reset.
SaveImageKeepingLen ==
  /\ mpc = "image" /\ len = ImageSize /\ fds < limit
  /\ photo' = Append(photo, image) /\ image' = << >> /\ len' = len
  /\ mpc' = IF Len(photo') = N THEN "command" ELSE "image"
  /\ UNCHANGED << setup, mode, operate, count, ctl, short, cut, syncVars, fds, dataVars, sent, line, dead >>

SaveImage ==
  /\ mpc = "image" /\ len = ImageSize /\ fds < limit
  /\ photo' = Append(photo, image) /\ image' = << >> /\ len' = 0
  /\ mpc' = IF Len(photo') = N THEN "command" ELSE "image"
  /\ UNCHANGED << setup, mode, operate, count, ctl, short, cut, syncVars, fds, dataVars, sent, line, dead >>

\* On a full disk fwrite stores a part of the image, and nobody looks at the result.
SavePart ==
  /\ mpc = "image" /\ len = ImageSize /\ fds < limit
  /\ \E k \in 0 .. Len(image) - 1 : photo' = Append(photo, SubSeq(image, 1, k))
  /\ cut' = cut \cup {Len(photo')} /\ image' = << >> /\ len' = 0
  /\ mpc' = IF Len(photo') = N THEN "command" ELSE "image"
  /\ UNCHANGED << setup, mode, operate, count, ctl, short, syncVars, fds, dataVars, sent, line, dead >>

SaveFails ==
  /\ MGoto("image", "exited") /\ len = ImageSize /\ fds >= limit
  /\ UNCHANGED << setup, mode, operate, count, ctl, image, len, photo, short, cut, syncVars, fds, dataVars, sent, line, dead >>

\* Mutant: the main thread joins without pthread_cancel.
CancelForgotten ==
  /\ MGoto("cancel", "join") /\ UNCHANGED cancel
  /\ UNCHANGED << setup, mode, operate, count, ctl, image, len, photo, short, cut, session, sem, fds,
                  dataVars, sent, line, dead >>

Cancel ==
  /\ MGoto("cancel", "join") /\ cancel' = TRUE
  /\ UNCHANGED << setup, mode, operate, count, ctl, image, len, photo, short, cut, session, sem, fds,
                  dataVars, sent, line, dead >>

Join ==
  /\ MGoto("join", "create") /\ dpc = "ended"
  /\ UNCHANGED << setup, mode, operate, count, ctl, image, len, photo, short, cut, syncVars, fds,
                  dataVars, sent, line, dead >>

DataThread ==
  \/ OpenFiles \/ Connect \/ ConnectFails \/ SemPost \/ RecvHeader \/ RecvBody \/ RecvFile
  \/ WriteFileFails \/ RecvFails \/ WriteSlice \/ WriteFails \/ NothingToWrite \/ Cancelled
MainThread ==
  \/ Create \/ SemWait \/ Command \/ BrokenPipe \/ RecvAck \/ RecvImage \/ RecvImageFails
  \/ SaveImage \/ SavePart \/ SaveFails \/ Cancel \/ Join
Next == DataThread \/ MainThread \/ CameraSends \/ CameraDies

Spec == Init /\ [][Next]_vars

\* Runnable threads run; the camera need not do anything.
FairSpec == Spec /\ WF_vars(DataThread) /\ WF_vars(MainThread)

(***************************************************************************)
(* Properties.                                                             *)
(***************************************************************************)
TypeOK ==
  /\ mpc \in {"none", "create", "wait", "command", "ack", "head", "image", "cancel", "join", "exited"}
  /\ dpc \in {"none", "open", "connect", "post", "header", "body", "write", "ended"}
  /\ sem \in 0 .. 1 /\ fds \in 0 .. limit
  /\ Len(buf) <= HeaderSize \/ Len(buf) <= Sum(net_enc)
  /\ len \in -1 .. ImageSize /\ Len(photo) <= N

\* The units of video v in the first n frames the camera sent.
Video(v, n) == FlattenSeq([f \in 1 .. n |-> Units(f, v, sent[f][v])])
Whole == FlattenSeq([f \in 1 .. Len(sent) |-> FrameUnits(f, sent[f])])

(* However TCP cuts the stream, each file of a recording holds the data of *)
(* its own video, of whole frames, in order, and the files of one recording*)
(* end within one frame of each other, also when the thread is cancelled   *)
(* or the connection is lost in the middle.  A write that fails leaves a   *)
(* part of a frame in the file it was for, at the end: nothing is written  *)
(* after it (data_pthread, main of the other clients).                     *)
FilesHoldStream ==
  \/ ~linked \/ program = "file"
  \/ \A v \in Videos :
       \/ Recorder /\ ~file_flag /\ file[v] = << >>
       \/ program = "single" /\ v > 1 /\ file[v] = << >>
       \/ file[v] = Video(v, frame)
       \/ file[v] = Video(v, frame - 1) /\ dpc # "header"
       \/ /\ dpc = "ended" /\ v = slice
          /\ \E k \in 0 .. sent[frame][v] : file[v] = Video(v, frame - 1) \o Units(frame, v, k)

(* What the file clients write is a part of what the server sent after the *)
(* header, in order, and all of it when nothing is left on the way: unless *)
(* the only recv of the header was short.  What stays behind when recv or  *)
(* fwrite fails is the beginning of the contents.                          *)
FileSent == SubSeq(Whole, HeaderSize + 1, Len(Whole))
FileHoldsContents ==
  program = "file" /\ ~short =>
    /\ dpc = "body" => file[1] \o line = FileSent
    /\ dpc = "ended" => IsPrefix(file[1], FileSent)

(* No command is sent before the data connection of this session stands:   *)
(* sem_stream lets the main thread through once for each sem_post of       *)
(* data_pthread, and a session's post is never left for a later one.       *)
CommandsAfterConnect ==
  mpc \in {"command", "ack", "head", "image", "cancel", "join"} => linked

(* The images stored for a photo are those sent for this command, each     *)
(* whole and in order, as long as no single recv of an ack or a head was   *)
(* short: those are read once, and what stays behind is taken for the next *)
(* reply.  An fwrite that fails cuts off the end of its own image only.    *)
PhotosHoldImages ==
  ~short => \A i \in 1 .. Len(photo) :
    /\ IsPrefix(photo[i], Image(count, i))
    /\ i \notin cut => photo[i] = Image(count, i)

(* "medium stop" ends the recording: pthread_join returns although the     *)
(* data thread is in recv and the camera sends nothing.                    *)
StopEnds == mpc = "join" ~> mpc = "create"
=============================================================================
