---------------------------- MODULE CommandServer ----------------------------
(***************************************************************************)
(* The command server of the camera, main of project/camera.c: it serves   *)
(* one connection until that ends, then the next.  A client sends          *)
(* commands, which the network may cut and join: a command is two halves,  *)
(* and recv returns any number of those that have come.  Whatever          *)
(* check_cmd says of a command, main answers with the version: it sets     *)
(* ret to HOST_ASK_VERSION before it looks.  The other answers, among them *)
(* set_wifi (ConfigFile), are not reached.                                 *)
(*                                                                         *)
(* The network is external: what is sent on an open connection comes in    *)
(* order; a send to a client that has closed is lost, or kills the server. *)
(***************************************************************************)
EXTENDS Integers, Sequences, FiniteSets

CONSTANTS
  Clients,      \* those who connect
  Commands,     \* what they send: codes of Codes, and others
  MaxSends      \* bound of the check: commands of all clients

ASSUME ServerAssumption == MaxSends \in Nat

VARIABLES
  spc,          \* the server: "accept", "recv", "check", "send", "exit"
  connfd,       \* whom it serves
  camer_cmd,    \* the halves it has received last
  stray,        \* whether the byte that check_cmd writes behind camer_cmd hits
                \* something that the server needs
  link,         \* of a client: "new", "queued", "open", "closed", "refused"
  stream,       \* of a client: the halves on their way to the server
  owed,         \* history: its commands less the answers to it
  eager,        \* history: it has sent a command before it had an answer to the last
  sends         \* how many commands were sent

serverVars == << spc, connfd, camer_cmd, stray, link, stream, owed, eager, sends >>

HOST_ASK_VERSION   == 1
HOST_ASK_CAPTURE   == 4
HOST_ASK_SETWIFI   == 10
HOST_ASK_CHECKTIME == 15
Codes == {HOST_ASK_VERSION, HOST_ASK_CAPTURE, HOST_ASK_SETWIFI, HOST_ASK_CHECKTIME}

Nobody == "nobody"

ServerInit ==
  /\ spc = "accept" /\ connfd = Nobody /\ camer_cmd = << >> /\ stray \in BOOLEAN
  /\ link = [c \in Clients |-> "new"] /\ stream = [c \in Clients |-> << >>]
  /\ owed = [c \in Clients |-> 0] /\ eager = [c \in Clients |-> FALSE] /\ sends = 0

(***************************************************************************)
(* The clients.  One that closes may leave commands on their way.          *)
(***************************************************************************)
Connect(c) ==
  /\ link[c] = "new"
  /\ link' = [link EXCEPT ![c] = IF spc = "exit" THEN "refused" ELSE "queued"]
  /\ UNCHANGED << spc, connfd, camer_cmd, stray, stream, owed, eager, sends >>

SendCommand(c) ==
  /\ link[c] \in {"queued", "open"} /\ sends < MaxSends /\ sends' = sends + 1
  /\ \E code \in Commands : stream' = [stream EXCEPT ![c] = @ \o << << code, 1 >>, << code, 2 >> >>]
  /\ owed' = [owed EXCEPT ![c] = @ + 1] /\ eager' = [eager EXCEPT ![c] = @ \/ owed[c] > 0]
  /\ UNCHANGED << spc, connfd, camer_cmd, stray, link >>

Hangup(c) ==
  /\ link[c] \in {"queued", "open"} /\ link' = [link EXCEPT ![c] = "closed"]
  /\ UNCHANGED << spc, connfd, camer_cmd, stray, stream, owed, eager, sends >>

(***************************************************************************)
(* The server.                                                             *)
(***************************************************************************)
Died == /\ spc' = "exit" /\ connfd' = Nobody /\ camer_cmd' = << >>
        /\ link' = [c \in Clients |-> IF link[c] = "new" THEN "new" ELSE "closed"]

\* A connection that its client has closed already is accepted, or refused
\* with an error: exit.
Accept ==
  /\ spc = "accept"
  /\ \E c \in Clients :
       \/ /\ link[c] = "queued" /\ spc' = "recv" /\ connfd' = c
          /\ link' = [link EXCEPT ![c] = "open"] /\ UNCHANGED camer_cmd
       \/ link[c] = "closed" /\ stream[c] # << >> /\ spc' = "recv" /\ connfd' = c /\ UNCHANGED << link, camer_cmd >>
       \/ link[c] = "queued" /\ Died
  /\ UNCHANGED << stray, stream, owed, eager, sends >>

\* 0, or an error: close(connfd).
Closes ==
  /\ spc' = "accept" /\ connfd' = Nobody /\ link' = [link EXCEPT ![connfd] = "closed"]
  /\ stream' = [stream EXCEPT ![connfd] = << >>] /\ UNCHANGED camer_cmd

\* recv_buff was cleared, and has room for all.
Recv ==
  /\ spc = "recv"
  /\ \/ \E n \in 1 .. Len(stream[connfd]) :
          /\ camer_cmd' = SubSeq(stream[connfd], 1, n) /\ spc' = "check"
          /\ stream' = [stream EXCEPT ![connfd] = SubSeq(@, n + 1, Len(@))]
          /\ UNCHANGED << connfd, link >>
     \/ stream[connfd] = << >> /\ link[connfd] = "closed" /\ Closes
     \/ link[connfd] = "closed" /\ Closes        \* reset
  /\ UNCHANGED << stray, owed, eager, sends >>

(***************************************************************************)
(* check_cmd.  A second half looks like a wrong head; a first half alone   *)
(* has the right head and code, and no sum.  After the code it writes      *)
(* data[BUFFSIZE - 1], of an array of DATA_SIZE.                           *)
(***************************************************************************)
HeadAndCode(halves) == Head(halves)[2] = 1 /\ Head(halves)[1] \in Codes
CheckCmd(halves) ==
  IF HeadAndCode(halves) /\ Len(halves) >= 2 THEN Head(halves)[1] ELSE -1

\* Mutation: ret is what check_cmd returned.
Checked(halves) == CheckCmd(halves)
Ret(halves) == HOST_ASK_VERSION

Answers(ret) == ret = HOST_ASK_VERSION

Check ==
  /\ spc = "check"
  /\ \/ HeadAndCode(camer_cmd) /\ stray /\ Died
     \/ /\ HeadAndCode(camer_cmd) => ~stray
        /\ spc' = IF Answers(Ret(camer_cmd)) THEN "send" ELSE "recv"
        /\ UNCHANGED << connfd, camer_cmd, link >>
  /\ UNCHANGED << stray, stream, owed, eager, sends >>

\* One answer to all that one recv brought: two commands that it joined get one,
\* a command that was cut gets two.
SendVersion ==
  /\ spc = "send"
  /\ \/ /\ spc' = "recv" /\ camer_cmd' = << >> /\ UNCHANGED << connfd, link >>
        /\ owed' = [owed EXCEPT ![connfd] = IF @ = 0 THEN 0 ELSE @ - 1]
     \/ link[connfd] = "closed" /\ Died /\ UNCHANGED owed
  /\ UNCHANGED << stray, stream, eager, sends >>

Server == Accept \/ Recv \/ Check \/ SendVersion
ServerNext == Server \/ \E c \in Clients : Connect(c) \/ SendCommand(c) \/ Hangup(c)

ServerSpec == ServerInit /\ [][ServerNext]_serverVars
ServerFairSpec == ServerSpec /\ WF_serverVars(Server)

(* A client that is served and waits for each answer before it sends the   *)
(* next command gets the answer, or loses the connection, whatever the     *)
(* command contains and however it is cut (the loop of main).  One that    *)
(* does not wait (eager) gets a single answer to commands that one recv    *)
(* joins, and may wait for the other for ever.                             *)
Waits(c) == link[c] = "open" /\ owed[c] > 0 /\ ~eager[c]
Answered == \A c \in Clients : Waits(c) ~> ~Waits(c)
=============================================================================
