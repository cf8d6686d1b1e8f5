---------------------------- MODULE MCFrameGrab -----------------------------
(***************************************************************************)
(* The programs of one thread that a camera board runs, for TLC: FrameGrab *)
(* with two buffers, so that the driver fills one while the other is       *)
(* written; CommandServer with two clients; ConfigFile.  A behaviour has   *)
(* one of them.                                                            *)
(***************************************************************************)
EXTENDS FrameGrab, CommandServer, ConfigFile

\* Nothing, the old account and password, and one that is too long.
MCValues == {<< >>, << "s" >>, << "k" >>, << "1", "2", "3", "4", "5", "6", "7", "8", "9", "0" >>}

VARIABLE which     \* "grab", "server" or "config"

\* The parts that a behaviour has not stay in one of their initial states.
MCInit ==
  /\ which \in {"grab", "server", "config"}
  /\ Init /\ ServerInit /\ ConfigInit
  /\ which # "grab" => prog = "camera3"
  /\ which # "server" => ~stray
  /\ which # "config" => conf = Empty

Grab       == which = "grab" /\ Program /\ UNCHANGED << which, serverVars, confVars >>
Serve      == which = "server" /\ Server /\ UNCHANGED << which, vars, confVars >>
GrabStep   == which = "grab" /\ Next /\ UNCHANGED << which, serverVars, confVars >>
ServerStep == which = "server" /\ ServerNext /\ UNCHANGED << which, vars, confVars >>
ConfigStep == which = "config" /\ ConfigNext /\ UNCHANGED << which, vars, serverVars >>

MCNext == GrabStep \/ ServerStep \/ ConfigStep

allVars == << which, vars, serverVars, confVars >>

\* FairSpec of FrameGrab and ServerFairSpec of CommandServer.
MCSpec == MCInit /\ [][MCNext]_allVars /\ WF_allVars(Grab) /\ WF_allVars(Serve)
=============================================================================
