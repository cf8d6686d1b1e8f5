------------------------------ MODULE ConfigFile -----------------------------
(***************************************************************************)
(* A file of settings, name=value in lines, and what rewrites it:          *)
(* ReadConfig, AddOrAltConfig and DeleteConfig of gedit_config.c, and      *)
(* set_wifi of project/camera.c, all on the same file.  A line without "=" *)
(* is "plain"; a value is a sequence of characters.  The program may stop  *)
(* at any moment, and starts again.                                        *)
(*                                                                         *)
(* Left out: lines of 256 and names of 40 characters or more, values of    *)
(* SAFE_SAPCE or more.  A file this small is written when it is closed, as *)
(* a whole or, on a full disk, not at all.  A board that stops with the    *)
(* program may lose what was written: nothing calls fsync.                 *)
(***************************************************************************)
EXTENDS Integers, Sequences, FiniteSets, SequencesExt, FiniteSetsExt

CONSTANTS
  Names,       \* the names that the files have: "SSID", "AUTH_KEY"
  Values,      \* the values, some sequences
  MaxLines,    \* bound of the check: lines of the file at first
  MaxCalls, MaxStops  \* bounds of the check: calls, and how often the program stops

ASSUME ConfigAssumption ==
  /\ Names \subseteq {"SSID", "AUTH_KEY"} /\ (\A value \in Values : value \in Seq(ToSet(value)))
  /\ MaxLines \in Nat /\ MaxCalls \in Nat /\ MaxStops \in Nat

VARIABLES
  conf, saved,   \* the file, and network_config~
  cpc, op,       \* the next step of the call, and which call it is
  sum_buf,       \* what it will write
  config_buff,   \* the caller's buffer
  calls, stops,  \* how many there were
  view,          \* history: the settings as the calls that ended have left them
  answer,        \* history: the call that ended last, if it was a read
  full,          \* history: the file as the last call that wrote it has left it
  hurt           \* history: a call that left no copy did not end

confVars == << conf, saved, cpc, op, sum_buf, config_buff, calls, stops, view, answer, full, hurt >>

(***************************************************************************)
(* Contents: lines, and whether the last of them ends with a newline.      *)
(***************************************************************************)
Plain == [name |-> "", value |-> << >>]
Pair(name, value) == [name |-> name, value |-> value]
Content(lines, ended) == [lines |-> lines, ended |-> ended]
Missing == Content(<< Pair("missing", << >>) >>, FALSE)
Empty   == Content(<< >>, TRUE)
Contents ==
  {Content(lines, ended) : ended \in BOOLEAN, lines \in
     UNION {[1 .. n -> {Plain} \cup {Pair(name, value) : name \in Names, value \in Values}] : n \in 0 .. MaxLines}}

Matches(content, name) == {i \in DOMAIN content.lines : content.lines[i].name = name}

None == << "none" >>

\* What a reader of the file finds: the first line of that name.
Setting(content, name) ==
  IF Matches(content, name) = {} THEN None ELSE content.lines[Min(Matches(content, name))].value
View(content) == [name \in Names |-> Setting(content, name)]

(***************************************************************************)
(* What the functions make of a file.  A line that is added goes behind    *)
(* the last one, into it if that has no newline.                           *)
(***************************************************************************)
Glued(line, name, value) ==
  IF line = Plain THEN Plain ELSE Pair(line.name, line.value \o << name, "=" >> \o value)

Added(content, name, value) ==
  LET n == Len(content.lines) IN
  IF content.ended \/ n = 0 THEN Append(content.lines, Pair(name, value))
  ELSE [content.lines EXCEPT ![n] = Glued(@, name, value)]

Replaced(content, name, value) ==
  [i \in DOMAIN content.lines |-> IF content.lines[i].name = name THEN Pair(name, value) ELSE content.lines[i]]

\* A replacement brings its own newline, another last line may have none.
EndedAfter(content, names) == content.ended \/ Last(content.lines).name \in names

Altered(content, name, value) ==
  IF Matches(content, name) = {} THEN Content(Added(content, name, value), TRUE)
  ELSE Content(Replaced(content, name, value), EndedAfter(content, {name}))

\* Mutation: only the first line of that name goes.
DeletedOnce(content, name) ==
  Content(IF Matches(content, name) = {} THEN content.lines
          ELSE RemoveAt(content.lines, Min(Matches(content, name))), TRUE)
Deleted(content, name) ==
  LET others[i \in 0 .. Len(content.lines)] ==
        IF i = 0 THEN << >>
        ELSE IF content.lines[i].name = name THEN others[i - 1]
        ELSE Append(others[i - 1], content.lines[i])
      left == others[Len(content.lines)]
  IN  Content(left, left = << >> \/ EndedAfter(content, {name}))

(***************************************************************************)
(* sum_buf has room for the file, the new line and 4 characters more; two  *)
(* lines that a longer one replaces are too much for it.                   *)
(***************************************************************************)
NameLength == [SSID |-> 4, AUTH_KEY |-> 8]
Length(line) == NameLength[line.name] + 1 + Len(line.value)
Overflows(content, name, value) ==
  LET matches == Matches(content, name)
      line == Length(Pair(name, value))
      old  == MapThenSumSet(LAMBDA i : Length(content.lines[i]) + 1, matches)
      newline == IF matches = {} THEN 1 ELSE 0
      growth == (IF matches = {} THEN line ELSE Cardinality(matches) * (line + 1) - old) + newline
      unended == IF ~content.ended /\ matches # {} /\ Last(content.lines).name = name THEN 1 ELSE 0
  IN  growth + unended + 1 > line + 5

(***************************************************************************)
(* The calls.                                                              *)
(***************************************************************************)
ConfigIdle == cpc = "idle" /\ calls < MaxCalls /\ calls' = calls + 1
Counted == ConfigIdle /\ answer' = [name |-> "none", buff |-> << >>]

\* strncpy copies no terminator: the rest of a longer text stays behind it.
Copied(text, buff) == text \o SubSeq(buff, Len(text) + 1, Len(buff))

\* Into a buffer that the caller cleared, or not.
ReadConfig(name) ==
  /\ ConfigIdle
  /\ \E buff \in {<< >>, config_buff} :
       /\ config_buff' = IF Setting(conf, name) = None THEN buff ELSE Copied(Setting(conf, name), buff)
       /\ answer' = IF buff = << >> THEN [name |-> name, buff |-> config_buff'] ELSE [name |-> "none", buff |-> << >>]
  /\ UNCHANGED << conf, saved, cpc, op, sum_buf, stops, view, full, hurt >>

NoOp == [do |-> "none", exact |-> TRUE, after |-> View(Missing)]
Call(step, do, content, exact, after) ==
  /\ cpc' = step /\ sum_buf' = content /\ op' = [do |-> do, exact |-> exact, after |-> after]

\* After an overflow the program goes on, with a text that is spoilt or not,
\* or has died: Stop.
AddOrAltConfig(name, value) ==
  /\ Counted /\ conf # Missing
  /\ LET over  == Overflows(conf, name, value)
         glues == Matches(conf, name) = {} /\ ~conf.ended /\ conf.lines # << >>
     IN  \E content \in {Altered(conf, name, value)} \cup (IF over THEN {Content(<< Plain >>, FALSE)} ELSE {}) :
           Call("remove", "alter", content, ~over /\ ~glues, [view EXCEPT ![name] = value])
  /\ UNCHANGED << conf, saved, config_buff, stops, view, full, hurt >>

DeleteConfig(name) ==
  /\ Counted /\ conf # Missing
  /\ Call("remove", "delete", Deleted(conf, name), TRUE, [view EXCEPT ![name] = None])
  /\ UNCHANGED << conf, saved, config_buff, stops, view, full, hurt >>

(***************************************************************************)
(* set_wifi.  A message that is not blank is written through characters    *)
(* taken for a pointer: the program dies.  With a blank one account and    *)
(* password keep their first values, and if the file has exactly two of    *)
(* the lines, with these, they get the others.                             *)
(***************************************************************************)
OldAccount == [SSID |-> << "s" >>, AUTH_KEY |-> << "k" >>]   \* admin, 12345
NewAccount == [SSID |-> << "S" >>, AUTH_KEY |-> << "K" >>]   \* zhanzheng, 98765432

\* check_acconut_password
AccountMatches(content) ==
  LET lines == {i \in DOMAIN content.lines : content.lines[i].name \in DOMAIN OldAccount}
  IN  /\ Cardinality(lines) = 2
      /\ \A i \in lines : content.lines[i].value = OldAccount[content.lines[i].name]

\* set_wifi_config
WithNewAccount(content) ==
  Content([i \in DOMAIN content.lines |->
             IF content.lines[i].name \in DOMAIN NewAccount
             THEN Pair(content.lines[i].name, NewAccount[content.lines[i].name]) ELSE content.lines[i]],
          EndedAfter(content, DOMAIN NewAccount))

\* Mutation: the old file is written over.
WritesOver == "create"
FirstOfWifi == "rename"

SetWifi ==
  /\ Counted /\ conf # Missing /\ AccountMatches(conf)
  /\ Call(FirstOfWifi, "wifi", WithNewAccount(conf), TRUE,
          [name \in Names |-> IF view[name] = None THEN None ELSE NewAccount[name]])
  /\ UNCHANGED << conf, saved, config_buff, stops, view, full, hurt >>

\* All calls that end without a change: no file, a wrong account.
Declined ==
  /\ Counted /\ (conf = Missing \/ ~AccountMatches(conf))
  /\ UNCHANGED << conf, saved, cpc, op, sum_buf, config_buff, stops, view, full, hurt >>

WifiCrash ==
  /\ Counted /\ stops < MaxStops /\ stops' = stops + 1
  /\ config_buff' = << >>
  /\ UNCHANGED << conf, saved, cpc, op, sum_buf, view, full, hurt >>

(***************************************************************************)
(* The steps on the file.  Nobody looks at what remove, rename and fputs   *)
(* return.                                                                 *)
(***************************************************************************)
RemoveFile ==
  /\ cpc = "remove" /\ conf' \in {conf, Missing} /\ cpc' = "create"
  /\ UNCHANGED << saved, op, sum_buf, config_buff, calls, stops, view, answer, full, hurt >>

\* If it fails, fopen "w+" will cut the old file off: "over".
Rename ==
  /\ cpc = "rename" /\ cpc' = "create"
  /\ \/ saved' = conf /\ conf' = Missing /\ op' = op
     \/ UNCHANGED << saved, conf >> /\ op' = [do |-> "over", exact |-> op.exact, after |-> op.after]
  /\ UNCHANGED << sum_buf, config_buff, calls, stops, view, answer, full, hurt >>

\* The calls that leave no copy, from where the file they began with is gone.
Uncopied == op.do \in {"alter", "delete", "over"}
Bare == Uncopied /\ (cpc = "write" \/ conf = Missing)

Ends(content) ==
  /\ conf' = content /\ cpc' = "idle" /\ op' = NoOp /\ sum_buf' = Empty

Create ==
  /\ cpc = "create"
  /\ \/ conf' = Empty /\ cpc' = "write" /\ UNCHANGED << op, sum_buf, view, hurt >>
     \/ /\ Ends(conf) /\ view' = View(conf) /\ hurt' = (hurt \/ Bare)      \* return 2
  /\ UNCHANGED << saved, config_buff, calls, stops, answer, full >>

Put ==
  /\ cpc = "write" /\ Ends(sum_buf)
  /\ view' = IF op.exact THEN op.after ELSE View(sum_buf)
  /\ full' = sum_buf /\ hurt' = FALSE
  /\ UNCHANGED << saved, config_buff, calls, stops, answer >>

PutFails ==
  /\ cpc = "write" /\ Ends(conf) /\ view' = View(conf) /\ hurt' = (hurt \/ Bare)
  /\ UNCHANGED << saved, config_buff, calls, stops, answer, full >>

Stop ==
  /\ cpc # "idle" /\ stops < MaxStops /\ stops' = stops + 1
  /\ Ends(conf) /\ view' = View(conf) /\ config_buff' = << >>
  /\ hurt' = (hurt \/ Bare)
  /\ UNCHANGED << saved, calls, answer, full >>

(***************************************************************************)
(* The specification, and the properties.                                  *)
(***************************************************************************)
ConfigInit ==
  /\ conf \in {c \in Contents : c.lines = << >> => c.ended} /\ saved = Missing /\ cpc = "idle"
  /\ op = NoOp /\ sum_buf = Empty /\ config_buff = << >> /\ calls = 0 /\ stops = 0
  /\ view = View(conf) /\ answer = [name |-> "none", buff |-> << >>] /\ full = conf /\ hurt = FALSE

ConfigNext ==
  \/ \E name \in Names : ReadConfig(name) \/ DeleteConfig(name)
  \/ \E name \in Names, value \in Values : AddOrAltConfig(name, value)
  \/ SetWifi \/ Declined \/ WifiCrash \/ RemoveFile \/ Rename \/ Create \/ Put \/ PutFails \/ Stop

ConfigSpec == ConfigInit /\ [][ConfigNext]_confVars

(* Between the calls a reader finds what the calls have set, for every     *)
(* name, however often the file had it, whatever stopped before; and       *)
(* ReadConfig returns it, into a cleared buffer.  (gedit_config.c.  Not    *)
(* after a line that was added to one without a newline.)                  *)
EditsRead ==
  cpc = "idle" =>
    /\ View(conf) = view
    /\ answer.name # "none" =>
         answer.buff = IF view[answer.name] = None THEN << >> ELSE view[answer.name]

(* set_wifi loses no settings, wherever the program stops and whether or   *)
(* not the new file can be created and written: what the last complete     *)
(* call wrote is the file or is network_config~.  Not when the rename of   *)
(* the old file failed, and then the write of the new one or the program:  *)
(* nobody looks at the result of rename.  Nor for AddOrAltConfig and       *)
(* DeleteConfig, which remove the file first (Bare, hurt).                 *)
WifiSurvives ==
  ~hurt /\ ~Bare => conf = full \/ saved = full
=============================================================================
