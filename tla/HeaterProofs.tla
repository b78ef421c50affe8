---------------------------- MODULE HeaterProofs ----------------------------
(***************************************************************************)
(* Proofs about Heater, for every range of levels, every set of targets,   *)
(* every number of requests, knob turns and lost replies.                  *)
(*                                                                         *)
(* The inductive invariant IInv is a conjunction, and each part has a      *)
(* lemma that a step keeps it: the variables are Typed; there is Room for  *)
(* another sweep; the sweeps are Numbered; a request is at a place its     *)
(* verb leads to (Asked); one sweep moves at a time (Alone); _hw is with   *)
(* whoever is between a write and its record (Locked); what is remembered  *)
(* is what the box has (Shown); a set or a stop that has been answered is  *)
(* not written over (TakenOver); the port is closed after the switch-off   *)
(* (Closing).  A lemma has one step per action that changes what its part  *)
(* is about.                                                               *)
(***************************************************************************)
EXTENDS Heater, TLAPS

\* A step is one of these; what the requests ask for are levels.
AnyStep ==
  \/ \E verb \in Verbs, v \in Levels : Receive(verb, v)
  \/ CommanderLeaves \/ StopRamp \/ JoinRamp \/ GiveUpJoin \/ SendSetpoint \/ StoreSetpoint
  \/ BeginRamp \/ AssignThread \/ StartThread
  \/ ReadOutput \/ ToggleOutput \/ ConfirmOutput \/ OutputFails
  \/ \E r \in Sweeps : WalkStep(r) \/ WalkSend(r) \/ WalkStore(r) \/ WalkEnd(r)
  \/ PollStep \/ MainStep \/ TurnKnob \/ UNCHANGED vars

\* Next, with the requests in one disjunct.
LEMMA StepOf == ASSUME [Next]_vars PROVE AnyStep
<1>1. 0 \in Levels /\ Targets \subseteq Levels
  BY HeaterAssumption DEF Levels
<1>2. CASE CommandStep
  BY <1>1, <1>2 DEF CommandStep, AnyStep, Verbs
<1>3. CASE \E r \in Sweeps : WalkSteps(r)
  BY <1>3 DEF WalkSteps, AnyStep
<1>4. CASE PollStep \/ MainStep \/ TurnKnob \/ UNCHANGED vars
  BY <1>4 DEF AnyStep
<1> QED BY <1>2, <1>3, <1>4 DEF Next

-----------------------------------------------------------------------------
(* Types *)

\* The set each variable stays in.
Boxes == [sp : Levels, on : BOOLEAN, cycle : BOOLEAN]
Holders == {Free, Commander, Poller, Main} \cup Sweeps
Memories == [sp : Levels, on : BOOLEAN, cycle : BOOLEAN, band : {"no", "since", "stable"}]
Ramps == [id : 0 .. MaxCommands, running : BOOLEAN, thread : 0 .. MaxCommands,
          halt : 0 .. MaxCommands]
WalkPlaces == {"none", "made", "walk", "want", "sent", "end", "dead"}
WalkRecords == [pc : WalkPlaces, at : Levels, to : Levels]
Commands == [pc : {"recv", "stop", "join", "send", "store", "begin", "assign", "go",
                   "output", "toggle", "confirm", "gone"},
             verb : Verbs, value : Levels, join : 0 .. MaxCommands]
Polls == [pc : {"loop", "temp", "rest", "store", "gone"}, full : BOOLEAN, temp : Levels,
          on : BOOLEAN, cycle : BOOLEAN, sp : Levels]
Mains == [pc : {"serve", "stop", "join", "poll", "off", "toggle", "close", "disconnect",
                "over", "raised"}, join : 0 .. MaxCommands]
Services == [stop : BOOLEAN, keep : BOOLEAN, polling : BOOLEAN]
Budgets == [commands : 0 .. MaxCommands, surprises : 0 .. MaxSurprises]

Typed ==
  /\ box \in Boxes /\ hw \in Holders /\ ours \in Memories /\ ramp \in Ramps
  /\ halted \in SUBSET Sweeps /\ walks \in [Sweeps -> WalkRecords]
  /\ cmd \in Commands /\ poll \in Polls /\ main \in Mains /\ service \in Services
  /\ left \in Budgets /\ held \in Levels \cup {Unknown}
  /\ open \in BOOLEAN /\ connected \in BOOLEAN /\ bumped \in BOOLEAN
  /\ strange \in BOOLEAN /\ gaveUp \in BOOLEAN

\* The sets above are those of TypeOK, one name per variable.
LEMMA TypedIsTypeOK == Typed <=> TypeOK
  BY DEF Typed, TypeOK, Boxes, Holders, Memories, Ramps, WalkPlaces, WalkRecords,
     Commands, Polls, Mains, Services, Budgets

\* What the assumption on the constants says of the least and greatest values.
LEMMA Zeros ==
  /\ 0 \in Levels /\ 0 \in 0 .. MaxCommands
  /\ MaxCommands \in 0 .. MaxCommands /\ MaxSurprises \in 0 .. MaxSurprises
  /\ Targets \subseteq Levels
  BY HeaterAssumption DEF Levels

\* The constant records belong to the sets of their variables.
LEMMA Constants ==
  /\ Away \in Commands /\ Asleep \in Polls /\ NotStarted \in WalkRecords
  /\ [Away EXCEPT !.pc = "gone"] \in Commands /\ Turn \in Commands
  /\ Free \in Holders /\ Commander \in Holders /\ Poller \in Holders /\ Main \in Holders
  /\ Sweeps \subseteq Holders
<1>1. Away \in Commands /\ [Away EXCEPT !.pc = "gone"] \in Commands /\ Turn \in Commands
  BY Zeros DEF Away, Turn, Commands, Verbs
<1>2. Asleep \in Polls
  BY Zeros DEF Asleep, Polls
<1>3. NotStarted \in WalkRecords
  BY Zeros DEF NotStarted, WalkRecords, WalkPlaces
<1>4. /\ Free \in Holders /\ Commander \in Holders /\ Poller \in Holders /\ Main \in Holders
      /\ Sweeps \subseteq Holders
  BY DEF Holders
<1> QED BY <1>1, <1>2, <1>3, <1>4


\* What a switching that fails does to the variables it changes.
LEMMA OutputFailsDoes ==
  ASSUME Typed, OutputFails
  PROVE  /\ cmd.pc \in {"output", "toggle", "confirm"} /\ (cmd.pc = "output" => hw = Free)
         /\ cmd' = Turn /\ cmd'.verb = "off" /\ cmd'.pc \in {"recv", "gone"}
         /\ (service.stop => cmd'.pc = "gone")
         /\ hw' = Free /\ box'.sp = box.sp /\ box' \in Boxes
         /\ left' \in Budgets /\ left'.commands = left.commands
         /\ left'.surprises # left.surprises /\ left'.surprises # MaxSurprises
         /\ UNCHANGED <<open, connected, poll, main, ours, bumped, ramp, halted, walks,
                        service, strange, held, gaveUp>>
<1>1. /\ cmd.pc \in {"output", "toggle", "confirm"} /\ (cmd.pc = "output" => hw = Free)
      /\ cmd' = Turn /\ hw' = Free
      /\ UNCHANGED <<open, connected, poll, main, ours, bumped, ramp, halted, walks,
                     service, strange, held, gaveUp>>
  BY DEF OutputFails, UnchangedByCommand
<1>2. /\ Turn.verb = "off" /\ Turn.pc \in {"recv", "gone"}
      /\ (service.stop => Turn.pc = "gone")
  BY DEF Turn, Away
<1>3. box'.sp = box.sp /\ box' \in Boxes
  BY DEF OutputFails, Typed, Boxes
<1>4. /\ left' \in Budgets /\ left'.commands = left.commands
      /\ left'.surprises # left.surprises /\ left'.surprises # MaxSurprises
  BY HeaterAssumption DEF OutputFails, LoseReply, Typed, Budgets
<1> QED BY <1>1, <1>2, <1>3, <1>4

\* The same of the switch-off at the end.
LEMMA SwitchOffFailsDoes ==
  ASSUME Typed, SwitchOffFails
  PROVE  /\ main.pc \in {"off", "toggle", "close"} /\ (main.pc = "off" => hw = Free)
         /\ main' \in Mains /\ main'.pc = "disconnect"
         /\ open' = FALSE /\ hw' = Free /\ box'.sp = box.sp /\ box' \in Boxes
         /\ left' \in Budgets /\ left'.commands = left.commands
         /\ left'.surprises # left.surprises /\ left'.surprises # MaxSurprises
         /\ UNCHANGED <<connected, cmd, poll, ours, bumped, ramp, halted, walks, service,
                        strange, held, gaveUp>>
<1>1. /\ main.pc \in {"off", "toggle", "close"} /\ (main.pc = "off" => hw = Free)
      /\ open' = FALSE /\ hw' = Free
      /\ UNCHANGED <<connected, cmd, poll, ours, bumped, ramp, halted, walks, service,
                     strange, held, gaveUp>>
  BY DEF SwitchOffFails
<1>2. main' \in Mains /\ main'.pc = "disconnect"
  BY DEF SwitchOffFails, Typed, Mains
<1>3. box'.sp = box.sp /\ box' \in Boxes
  BY DEF SwitchOffFails, Typed, Boxes
<1>4. /\ left' \in Budgets /\ left'.commands = left.commands
      /\ left'.surprises # left.surprises /\ left'.surprises # MaxSurprises
  BY HeaterAssumption DEF SwitchOffFails, LoseReply, Typed, Budgets
<1> QED BY <1>1, <1>2, <1>3, <1>4

\* A request that will start a sweep, and has not yet.
Promised == IF cmd.pc \in {"stop", "join", "begin"} /\ cmd.verb = "ramp" THEN 1 ELSE 0

\* There is a number left for every sweep that may still be started.
Room ==
  /\ ramp.id + left.commands + Promised <= MaxCommands
  /\ cmd.pc = "begin" => cmd.verb = "ramp"

\* Every step keeps every variable in its set; the number of a new sweep fits.
LEMMA StepTyped == ASSUME Typed, Room, [Next]_vars PROVE Typed'
<1>1. ASSUME NEW verb \in Verbs, NEW v \in Levels, Receive(verb, v) PROVE Typed'
  <2>1. left' \in Budgets
    <3>1. left.commands > 0 /\ left' = [left EXCEPT !.commands = left.commands - 1]
      BY <1>1 DEF Receive
    <3> QED BY <3>1, HeaterAssumption DEF Typed, Budgets
  <2>2. cmd' \in Commands
    BY ZenonT(60), <1>1, Constants, Zeros DEF Receive, Turn, Away, UnchangedByCommand,
       Typed, Commands, Verbs
  <2>3. service' \in Services
    BY <1>1, Constants, Zeros DEF Receive, Turn, Away, UnchangedByCommand, Typed,
       Services
  <2>4. held' \in Levels \cup {Unknown}
    BY <1>1, Constants, Zeros DEF Receive, Turn, Away, UnchangedByCommand, Typed, Boxes
  <2> QED BY <1>1, <2>1, <2>2, <2>3, <2>4 DEF Receive, UnchangedByCommand, Typed
<1>2. ASSUME CommanderLeaves PROVE Typed'
  <2>1. cmd' \in Commands
    BY <1>2, Constants, Zeros DEF CommanderLeaves, UnchangedByCommand, Typed, Commands,
       Verbs
  <2> QED BY <1>2, <2>1 DEF CommanderLeaves, UnchangedByCommand, Typed
<1>3. ASSUME StopRamp PROVE Typed'
  <2>1. halted' \in SUBSET Sweeps
    BY <1>3, Constants, Zeros, HeaterAssumption DEF StopRamp, Halted,
       UnchangedByCommand, Typed, Ramps, Sweeps
  <2>2. cmd' \in Commands
    BY <1>3, Constants, Zeros DEF StopRamp, Halted, UnchangedByCommand, Typed, Commands,
       Verbs, Ramps
  <2> QED BY <1>3, <2>1, <2>2 DEF StopRamp, UnchangedByCommand, Typed
<1>4. ASSUME JoinRamp PROVE Typed'
  <2>1. cmd' \in Commands
    BY <1>4, Constants, Zeros DEF JoinRamp, AfterJoin, Ended, Holds, UnchangedByCommand,
       Typed, Commands, Verbs
  <2>2. gaveUp' \in BOOLEAN
    BY <1>4, Constants, Zeros DEF JoinRamp, AfterJoin, Ended, Holds, UnchangedByCommand,
       Typed
  <2>3. held' \in Levels \cup {Unknown}
    BY <1>4, Constants, Zeros DEF JoinRamp, AfterJoin, Ended, Holds, UnchangedByCommand,
       Typed, Boxes
  <2> QED BY <1>4, <2>1, <2>2, <2>3 DEF JoinRamp, AfterJoin, UnchangedByCommand, Typed
<1>5. ASSUME GiveUpJoin PROVE Typed'
  <2>1. cmd' \in Commands
    BY <1>5, Constants, Zeros DEF GiveUpJoin, AfterJoin, Outlasts, Holds,
       UnchangedByCommand, Typed, Commands, Verbs
  <2>2. gaveUp' \in BOOLEAN
    BY <1>5, Constants, Zeros DEF GiveUpJoin, AfterJoin, Outlasts, Holds,
       UnchangedByCommand, Typed
  <2>3. held' \in Levels \cup {Unknown}
    BY <1>5, Constants, Zeros DEF GiveUpJoin, AfterJoin, Outlasts, Holds,
       UnchangedByCommand, Typed, Boxes
  <2> QED BY <1>5, <2>1, <2>2, <2>3 DEF GiveUpJoin, AfterJoin, UnchangedByCommand, Typed
<1>6. ASSUME SendSetpoint PROVE Typed'
  <2>1. box' \in Boxes
    BY <1>6, Constants, Zeros, HeaterAssumption DEF SendSetpoint, Refused, LoseReply,
       UnchangedByCommand, Typed, Boxes, Commands
  <2>2. hw' \in Holders
    BY <1>6, Constants, Zeros DEF SendSetpoint, Refused, LoseReply, UnchangedByCommand,
       Typed
  <2>3. left' \in Budgets
    BY <1>6, Constants, Zeros, HeaterAssumption DEF SendSetpoint, Refused, LoseReply,
       UnchangedByCommand, Typed, Budgets
  <2>4. strange' \in BOOLEAN
    BY <1>6, Constants, Zeros DEF SendSetpoint, Refused, LoseReply, UnchangedByCommand,
       Typed
  <2>5. cmd' \in Commands
    BY <1>6, Constants, Zeros DEF SendSetpoint, Refused, LoseReply, UnchangedByCommand,
       Typed, Commands, Verbs
  <2> QED BY <1>6, <2>1, <2>2, <2>3, <2>4, <2>5 DEF SendSetpoint, LoseReply,
     UnchangedByCommand, Typed
<1>7. ASSUME StoreSetpoint PROVE Typed'
  <2>1. ours' \in Memories
    BY <1>7, Constants, Zeros DEF StoreSetpoint, NewSetpoint, Holds, UnchangedByCommand,
       Typed, Memories, Commands
  <2>2. bumped' \in BOOLEAN
    BY <1>7, Constants, Zeros DEF StoreSetpoint, NewSetpoint, Holds, UnchangedByCommand,
       Typed
  <2>3. hw' \in Holders
    BY <1>7, Constants, Zeros DEF StoreSetpoint, NewSetpoint, Holds, UnchangedByCommand,
       Typed
  <2>4. strange' \in BOOLEAN
    BY <1>7, Constants, Zeros DEF StoreSetpoint, NewSetpoint, Holds, UnchangedByCommand,
       Typed
  <2>5. held' \in Levels \cup {Unknown}
    BY <1>7, Constants, Zeros DEF StoreSetpoint, NewSetpoint, Holds, UnchangedByCommand,
       Typed, Boxes
  <2>6. cmd' \in Commands
    BY <1>7, Constants, Zeros DEF StoreSetpoint, NewSetpoint, Holds, UnchangedByCommand,
       Typed, Commands, Verbs
  <2> QED BY <1>7, <2>1, <2>2, <2>3, <2>4, <2>5, <2>6 DEF StoreSetpoint, NewSetpoint,
     UnchangedByCommand, Typed
<1>8. ASSUME BeginRamp PROVE Typed'
  <2>1. ramp' \in Ramps
    <3>1. Promised = 1
      BY <1>8 DEF BeginRamp, Room, Promised
    <3>2. ramp.id \in 0 .. MaxCommands /\ left.commands \in 0 .. MaxCommands
      BY DEF Typed, Ramps, Budgets
    <3>3. ramp.id + 1 \in 0 .. MaxCommands
      BY <3>1, <3>2, HeaterAssumption DEF Room
    <3>4. ramp' = [ramp EXCEPT !.id = ramp.id + 1, !.running = TRUE, !.halt = ramp.id + 1]
      BY <1>8 DEF BeginRamp
    <3> QED BY <3>3, <3>4 DEF Typed, Ramps
  <2>2. walks' \in [Sweeps -> WalkRecords]
    BY <1>8, Constants, Zeros, HeaterAssumption DEF BeginRamp, UnchangedByCommand,
       Typed, WalkRecords, WalkPlaces, Memories, Commands
  <2>3. cmd' \in Commands
    BY <1>8, Constants, Zeros DEF BeginRamp, UnchangedByCommand, Typed, Commands, Verbs
  <2> QED BY <1>8, <2>1, <2>2, <2>3 DEF BeginRamp, UnchangedByCommand, Typed
<1>9. ASSUME AssignThread PROVE Typed'
  <2>1. ramp' \in Ramps
    BY <1>9, Constants, Zeros DEF AssignThread, UnchangedByCommand, Typed, Ramps
  <2>2. cmd' \in Commands
    BY <1>9, Constants, Zeros DEF AssignThread, UnchangedByCommand, Typed, Commands,
       Verbs
  <2> QED BY <1>9, <2>1, <2>2 DEF AssignThread, UnchangedByCommand, Typed
<1>10. ASSUME StartThread PROVE Typed'
  <2>1. walks' \in [Sweeps -> WalkRecords]
    BY <1>10, Constants, Zeros DEF StartThread, UnchangedByCommand, Typed, WalkRecords,
       WalkPlaces
  <2>2. cmd' \in Commands
    BY <1>10, Constants, Zeros DEF StartThread, UnchangedByCommand, Typed, Commands,
       Verbs
  <2> QED BY <1>10, <2>1, <2>2 DEF StartThread, UnchangedByCommand, Typed
<1>11. ASSUME ReadOutput PROVE Typed'
  <2>1. cmd' \in Commands
    BY <1>11, Constants, Zeros DEF ReadOutput, UnchangedByCommand, Typed, Commands,
       Verbs
  <2>2. ours' \in Memories
    BY <1>11, Constants, Zeros DEF ReadOutput, UnchangedByCommand, Typed, Memories,
       Boxes
  <2>3. hw' \in Holders
    BY <1>11, Constants, Zeros DEF ReadOutput, UnchangedByCommand, Typed
  <2> QED BY <1>11, <2>1, <2>2, <2>3 DEF ReadOutput, UnchangedByCommand, Typed
<1>12. ASSUME ToggleOutput PROVE Typed'
  <2>1. box' \in Boxes
    BY <1>12, Constants, Zeros DEF ToggleOutput, UnchangedByCommand, Typed, Boxes
  <2>2. cmd' \in Commands
    BY <1>12, Constants, Zeros DEF ToggleOutput, UnchangedByCommand, Typed, Commands,
       Verbs
  <2> QED BY <1>12, <2>1, <2>2 DEF ToggleOutput, UnchangedByCommand, Typed
<1>13. ASSUME ConfirmOutput PROVE Typed'
  <2>1. ours' \in Memories
    BY <1>13, Constants, Zeros DEF ConfirmOutput, UnchangedByCommand, Typed, Memories,
       Boxes
  <2>2. hw' \in Holders
    BY <1>13, Constants, Zeros DEF ConfirmOutput, UnchangedByCommand, Typed
  <2>3. cmd' \in Commands
    BY <1>13, Constants, Zeros DEF ConfirmOutput, UnchangedByCommand, Typed, Commands,
       Verbs
  <2> QED BY <1>13, <2>1, <2>2, <2>3 DEF ConfirmOutput, UnchangedByCommand, Typed
<1>14. ASSUME NEW r \in Sweeps, WalkStep(r) PROVE Typed'
  <2>1. walks' \in [Sweeps -> WalkRecords]
    <3>1. walks[r] \in WalkRecords
      BY DEF Typed
    <3>2. Between(walks[r].at, walks[r].to) \subseteq Levels
      BY <3>1, HeaterAssumption DEF Between, Levels, WalkRecords
    <3>3. ASSUME NEW v \in Levels, NEW p \in WalkPlaces
          PROVE  [walks EXCEPT ![r].at = v, ![r].pc = p] \in [Sweeps -> WalkRecords]
      BY DEF Typed, WalkRecords
    <3>4. [walks EXCEPT ![r].pc = "end"] \in [Sweeps -> WalkRecords]
      BY DEF Typed, WalkRecords, WalkPlaces
    <3>5. {"want", "end", "walk"} \subseteq WalkPlaces
      BY DEF WalkPlaces
    <3>6. CASE r \in halted
      BY <1>14, <3>4, <3>6 DEF WalkStep
    <3>7. CASE r \notin halted
      <4>1. PICK v \in Between(walks[r].at, walks[r].to) :
              walks' = [walks EXCEPT ![r].at = v,
                                     ![r].pc = IF v # ours.sp THEN "want"
                                               ELSE IF v = walks[r].to THEN "end" ELSE "walk"]
        BY <1>14, <3>7 DEF WalkStep
      <4>2. (IF v # ours.sp THEN "want" ELSE IF v = walks[r].to THEN "end" ELSE "walk")
              \in WalkPlaces
        BY <3>5
      <4> QED BY <3>2, <3>3, <4>1, <4>2
    <3> QED BY <3>6, <3>7
  <2> QED BY <1>14, <2>1 DEF WalkStep, UnchangedByWalk, Typed
<1>15. ASSUME NEW r \in Sweeps, WalkSend(r) PROVE Typed'
  <2>1. walks' \in [Sweeps -> WalkRecords]
    BY <1>15, Constants, Zeros DEF WalkSend, Refused, LoseReply, UnchangedByWalk, Typed,
       WalkRecords, WalkPlaces
  <2>2. box' \in Boxes
    BY <1>15, Constants, Zeros, HeaterAssumption DEF WalkSend, Refused, LoseReply,
       UnchangedByWalk, Typed, Boxes, WalkRecords
  <2>3. hw' \in Holders
    BY <1>15, Constants, Zeros DEF WalkSend, Refused, LoseReply, UnchangedByWalk, Typed
  <2>4. left' \in Budgets
    BY <1>15, Constants, Zeros, HeaterAssumption DEF WalkSend, Refused, LoseReply,
       UnchangedByWalk, Typed, Budgets
  <2>5. strange' \in BOOLEAN
    BY <1>15, Constants, Zeros DEF WalkSend, Refused, LoseReply, UnchangedByWalk, Typed
  <2> QED BY <1>15, <2>1, <2>2, <2>3, <2>4, <2>5 DEF WalkSend, LoseReply, UnchangedByWalk,
     Typed
<1>16. ASSUME NEW r \in Sweeps, WalkStore(r) PROVE Typed'
  <2>1. ours' \in Memories
    BY <1>16, Constants, Zeros DEF WalkStore, NewSetpoint, UnchangedByWalk, Typed,
       Memories, WalkRecords
  <2>2. bumped' \in BOOLEAN
    BY <1>16, Constants, Zeros DEF WalkStore, NewSetpoint, UnchangedByWalk, Typed
  <2>3. hw' \in Holders
    BY <1>16, Constants, Zeros DEF WalkStore, NewSetpoint, UnchangedByWalk, Typed
  <2>4. strange' \in BOOLEAN
    BY <1>16, Constants, Zeros DEF WalkStore, NewSetpoint, UnchangedByWalk, Typed
  <2>5. walks' \in [Sweeps -> WalkRecords]
    BY <1>16, Constants, Zeros DEF WalkStore, NewSetpoint, UnchangedByWalk, Typed,
       WalkRecords, WalkPlaces
  <2> QED BY <1>16, <2>1, <2>2, <2>3, <2>4, <2>5 DEF WalkStore, NewSetpoint,
     UnchangedByWalk, Typed
<1>17. ASSUME NEW r \in Sweeps, WalkEnd(r) PROVE Typed'
  <2>1. ramp' \in Ramps
    BY <1>17, Constants, Zeros DEF WalkEnd, UnchangedByWalk, Typed, Ramps
  <2>2. walks' \in [Sweeps -> WalkRecords]
    BY <1>17, Constants, Zeros DEF WalkEnd, UnchangedByWalk, Typed, WalkRecords,
       WalkPlaces
  <2> QED BY <1>17, <2>1, <2>2 DEF WalkEnd, UnchangedByWalk, Typed
<1>18. ASSUME PollBegin PROVE Typed'
  <2>1. poll' \in Polls
    BY ZenonT(60), <1>18, Constants, Zeros DEF PollBegin, UnchangedByPoll, Typed, Polls
  <2>2. bumped' \in BOOLEAN
    BY <1>18, Constants, Zeros DEF PollBegin, UnchangedByPoll, Typed
  <2> QED BY <1>18, <2>1, <2>2 DEF PollBegin, UnchangedByPoll, Typed
<1>19. ASSUME PollLeaves PROVE Typed'
  <2>1. poll' \in Polls
    BY <1>19, Constants, Zeros DEF PollLeaves, UnchangedByPoll, Typed, Polls
  <2> QED BY <1>19, <2>1 DEF PollLeaves, UnchangedByPoll, Typed
<1>20. ASSUME PollTemperature PROVE Typed'
  <2>1. ours' \in Memories
    BY <1>20, Constants, Zeros DEF PollTemperature, UnchangedByPoll, Typed, Memories
  <2>2. poll' \in Polls
    BY <1>20, Constants, Zeros DEF PollTemperature, UnchangedByPoll, Typed, Polls
  <2>3. hw' \in Holders
    BY <1>20, Constants, Zeros DEF PollTemperature, UnchangedByPoll, Typed
  <2> QED BY <1>20, <2>1, <2>2, <2>3 DEF PollTemperature, UnchangedByPoll, Typed
<1>21. ASSUME PollRest PROVE Typed'
  <2>1. poll' \in Polls
    BY <1>21, Constants, Zeros DEF PollRest, UnchangedByPoll, Typed, Polls, Boxes
  <2>2. hw' \in Holders
    BY <1>21, Constants, Zeros DEF PollRest, UnchangedByPoll, Typed
  <2> QED BY <1>21, <2>1, <2>2 DEF PollRest, UnchangedByPoll, Typed
<1>22. ASSUME PollFails PROVE Typed'
  <2>1. left' \in Budgets
    BY <1>22, Constants, Zeros, HeaterAssumption DEF PollFails, LoseReply,
       UnchangedByPoll, Typed, Budgets
  <2>2. ours' \in Memories
    BY <1>22, Constants, Zeros DEF PollFails, LoseReply, UnchangedByPoll, Typed,
       Memories
  <2>3. poll' \in Polls
    BY <1>22, Constants, Zeros DEF PollFails, LoseReply, UnchangedByPoll, Typed, Polls
  <2>4. hw' \in Holders
    BY <1>22, Constants, Zeros DEF PollFails, LoseReply, UnchangedByPoll, Typed
  <2> QED BY <1>22, <2>1, <2>2, <2>3, <2>4 DEF PollFails, LoseReply, UnchangedByPoll,
     Typed
<1>23. ASSUME PollStore PROVE Typed'
  <2>1. ours' \in Memories
    BY <1>23, Constants, Zeros DEF PollStore, Judge, InBand, UnchangedByPoll, Typed,
       Memories, Polls
  <2>2. bumped' \in BOOLEAN
    BY <1>23, Constants, Zeros DEF PollStore, Judge, InBand, UnchangedByPoll, Typed
  <2>3. strange' \in BOOLEAN
    BY <1>23, Constants, Zeros DEF PollStore, Judge, InBand, UnchangedByPoll, Typed
  <2>4. poll' \in Polls
    BY <1>23, Constants, Zeros DEF PollStore, Judge, InBand, UnchangedByPoll, Typed,
       Polls
  <2> QED BY <1>23, <2>1, <2>2, <2>3, <2>4 DEF PollStore, UnchangedByPoll, Typed
<1>24. ASSUME Interrupt PROVE Typed'
  <2>1. service' \in Services
    BY <1>24, Constants, Zeros DEF Interrupt, UnchangedByMain, Typed, Services
  <2> QED BY <1>24, <2>1 DEF Interrupt, UnchangedByMain, Typed
<1>25. ASSUME ShutDown PROVE Typed'
  <2>1. service' \in Services
    BY <1>25, Constants, Zeros DEF ShutDown, UnchangedByMain, Typed, Services
  <2>2. main' \in Mains
    BY <1>25, Constants, Zeros DEF ShutDown, UnchangedByMain, Typed, Mains
  <2> QED BY <1>25, <2>1, <2>2 DEF ShutDown, UnchangedByMain, Typed
<1>26. ASSUME StopRampAtEnd PROVE Typed'
  <2>1. halted' \in SUBSET Sweeps
    BY <1>26, Constants, Zeros, HeaterAssumption DEF StopRampAtEnd, Halted,
       UnchangedByMain, Typed, Ramps, Sweeps
  <2>2. main' \in Mains
    BY <1>26, Constants, Zeros DEF StopRampAtEnd, Halted, UnchangedByMain, Typed, Mains,
       Ramps
  <2> QED BY <1>26, <2>1, <2>2 DEF StopRampAtEnd, UnchangedByMain, Typed
<1>27. ASSUME JoinRampAtEnd PROVE Typed'
  <2>1. main' \in Mains
    BY <1>27, Constants, Zeros DEF JoinRampAtEnd, Ended, Outlasts, UnchangedByMain,
       Typed, Mains
  <2>2. gaveUp' \in BOOLEAN
    BY <1>27, Constants, Zeros DEF JoinRampAtEnd, Ended, Outlasts, UnchangedByMain,
       Typed
  <2> QED BY <1>27, <2>1, <2>2 DEF JoinRampAtEnd, UnchangedByMain, Typed
<1>28. ASSUME JoinPoll PROVE Typed'
  <2>1. main' \in Mains
    BY <1>28, Constants, Zeros DEF JoinPoll, UnchangedByMain, Typed, Mains
  <2> QED BY <1>28, <2>1 DEF JoinPoll, UnchangedByMain, Typed
<1>29. ASSUME SwitchOff PROVE Typed'
  <2>1. hw' \in Holders
    BY <1>29, Constants, Zeros DEF SwitchOff, UnchangedByMain, Typed
  <2>2. main' \in Mains
    BY <1>29, Constants, Zeros DEF SwitchOff, UnchangedByMain, Typed, Mains
  <2>3. ours' \in Memories
    BY <1>29, Constants, Zeros DEF SwitchOff, UnchangedByMain, Typed, Memories
  <2>4. open' \in BOOLEAN
    BY <1>29, Constants, Zeros DEF SwitchOff, UnchangedByMain, Typed
  <2> QED BY <1>29, <2>1, <2>2, <2>3, <2>4 DEF SwitchOff, UnchangedByMain, Typed
<1>30. ASSUME ToggleAtEnd PROVE Typed'
  <2>1. box' \in Boxes
    BY <1>30, Constants, Zeros DEF ToggleAtEnd, UnchangedByMain, Typed, Boxes
  <2>2. main' \in Mains
    BY <1>30, Constants, Zeros DEF ToggleAtEnd, UnchangedByMain, Typed, Mains
  <2> QED BY <1>30, <2>1, <2>2 DEF ToggleAtEnd, UnchangedByMain, Typed
<1>31. ASSUME Close PROVE Typed'
  <2>1. ours' \in Memories
    BY <1>31, Constants, Zeros DEF Close, UnchangedByMain, Typed, Memories, Boxes
  <2>2. open' \in BOOLEAN
    BY <1>31, Constants, Zeros DEF Close, UnchangedByMain, Typed
  <2>3. hw' \in Holders
    BY <1>31, Constants, Zeros DEF Close, UnchangedByMain, Typed
  <2>4. main' \in Mains
    BY <1>31, Constants, Zeros DEF Close, UnchangedByMain, Typed, Mains
  <2> QED BY <1>31, <2>1, <2>2, <2>3, <2>4 DEF Close, UnchangedByMain, Typed
<1>32. ASSUME Disconnect PROVE Typed'
  <2>1. connected' \in BOOLEAN
    BY <1>32, Constants, Zeros DEF Disconnect, UnchangedByMain, Typed
  <2>2. main' \in Mains
    BY <1>32, Constants, Zeros DEF Disconnect, UnchangedByMain, Typed, Mains
  <2> QED BY <1>32, <2>1, <2>2 DEF Disconnect, UnchangedByMain, Typed
<1>33. ASSUME TurnKnob PROVE Typed'
  <2>1. left' \in Budgets
    BY <1>33, Constants, Zeros, HeaterAssumption DEF TurnKnob, LoseReply,
       UnchangedByPanel, Typed, Budgets
  <2>2. box' \in Boxes
    BY <1>33, Constants, Zeros DEF TurnKnob, LoseReply, UnchangedByPanel, Typed, Boxes
  <2>3. strange' \in BOOLEAN
    BY <1>33, Constants, Zeros DEF TurnKnob, LoseReply, UnchangedByPanel, Typed
  <2>4. held' \in Levels \cup {Unknown}
    BY <1>33, Constants, Zeros DEF TurnKnob, LoseReply, UnchangedByPanel, Typed, Boxes
  <2> QED BY <1>33, <2>1, <2>2, <2>3, <2>4 DEF TurnKnob, LoseReply, UnchangedByPanel,
     Typed
<1>34. CASE UNCHANGED vars
  BY <1>34 DEF vars, Typed
<1>35. ASSUME OutputFails PROVE Typed'
  BY <1>35, OutputFailsDoes, Constants DEF Typed
<1>36. ASSUME SwitchOffFails PROVE Typed'
  BY <1>36, SwitchOffFailsDoes, Constants DEF Typed
<1>37. AnyStep
  BY StepOf
<1> QED BY <1>1, <1>2, <1>3, <1>4, <1>5, <1>6, <1>7, <1>8, <1>9, <1>10, <1>11, <1>12,
   <1>13, <1>14, <1>15, <1>16, <1>17, <1>18, <1>19, <1>20, <1>21, <1>22, <1>23, <1>24,
   <1>25, <1>26, <1>27, <1>28, <1>29, <1>30, <1>31, <1>32, <1>33, <1>34, <1>35, <1>36, <1>37 DEF
   AnyStep, PollStep, MainStep

\* The sweeps never run out of numbers.
LEMMA StepRoom == ASSUME Typed, Room, [Next]_vars PROVE Room'
<1>1. ASSUME NEW verb \in Verbs, NEW v \in Levels, Receive(verb, v) PROVE Room'
  <2>1. left.commands > 0 /\ left' = [left EXCEPT !.commands = left.commands - 1] /\ ramp' = ramp
    BY <1>1 DEF Receive
  <2>2. cmd.pc = "recv" /\ cmd'.pc # "begin"
    BY <1>1 DEF Receive, Turn, Away, Typed, Commands
  <2>3. Promised = 0 /\ Promised' \in {0, 1}
    BY <2>2 DEF Promised
  <2> QED BY <2>1, <2>2, <2>3, HeaterAssumption DEF Room, Typed, Ramps, Budgets
<1>2. ASSUME CommanderLeaves PROVE Room'
  BY <1>2, HeaterAssumption DEF CommanderLeaves, Away, UnchangedByCommand, Typed,
     Commands, Room, Promised, Ramps, Budgets
<1>3. ASSUME StopRamp PROVE Room'
  BY <1>3, HeaterAssumption DEF StopRamp, Halted, UnchangedByCommand, Typed, Commands,
     Room, Promised, Ramps, Budgets
<1>4. ASSUME JoinRamp PROVE Room'
  BY <1>4, HeaterAssumption DEF JoinRamp, AfterJoin, Ended, Holds, Turn, Away,
     UnchangedByCommand, Typed, Commands, Room, Promised, Ramps, Budgets
<1>5. ASSUME GiveUpJoin PROVE Room'
  BY <1>5, HeaterAssumption DEF GiveUpJoin, AfterJoin, Outlasts, Holds, Turn, Away,
     UnchangedByCommand, Typed, Commands, Room, Promised, Ramps, Budgets
<1>6. ASSUME SendSetpoint PROVE Room'
  BY <1>6, HeaterAssumption DEF SendSetpoint, Refused, LoseReply, Turn, Away,
     UnchangedByCommand, Typed, Budgets, Commands, Room, Promised, Ramps
<1>7. ASSUME StoreSetpoint PROVE Room'
  BY <1>7, HeaterAssumption DEF StoreSetpoint, NewSetpoint, Holds, Turn, Away,
     UnchangedByCommand, Typed, Commands, Room, Promised, Ramps, Budgets
<1>8. ASSUME BeginRamp PROVE Room'
  BY <1>8, HeaterAssumption DEF BeginRamp, UnchangedByCommand, Typed, Ramps, Commands,
     Room, Promised, Budgets
<1>9. ASSUME AssignThread PROVE Room'
  BY <1>9, HeaterAssumption DEF AssignThread, UnchangedByCommand, Typed, Ramps,
     Commands, Room, Promised, Budgets
<1>10. ASSUME StartThread PROVE Room'
  BY <1>10, HeaterAssumption DEF StartThread, Turn, Away, UnchangedByCommand, Typed,
     Commands, Room, Promised, Ramps, Budgets
<1>11. ASSUME ReadOutput PROVE Room'
  BY <1>11, HeaterAssumption DEF ReadOutput, Turn, Away, UnchangedByCommand, Typed,
     Commands, Room, Promised, Ramps, Budgets
<1>12. ASSUME ToggleOutput PROVE Room'
  BY <1>12, HeaterAssumption DEF ToggleOutput, UnchangedByCommand, Typed, Commands,
     Room, Promised, Ramps, Budgets
<1>13. ASSUME ConfirmOutput PROVE Room'
  BY <1>13, HeaterAssumption DEF ConfirmOutput, Turn, Away, UnchangedByCommand, Typed,
     Commands, Room, Promised, Ramps, Budgets
<1>14. ASSUME NEW r \in Sweeps, WalkSend(r) PROVE Room'
  BY <1>14, HeaterAssumption DEF WalkSend, Refused, LoseReply, UnchangedByWalk, Typed,
     Budgets, Room, Promised, Commands, Ramps
<1>15. ASSUME NEW r \in Sweeps, WalkEnd(r) PROVE Room'
  BY <1>15, HeaterAssumption DEF WalkEnd, NotStarted, UnchangedByWalk, Typed, Ramps,
     Room, Promised, Commands, Budgets
<1>16. ASSUME PollFails PROVE Room'
  BY <1>16, HeaterAssumption DEF PollFails, LoseReply, Asleep, UnchangedByPoll, Typed,
     Budgets, Room, Promised, Commands, Ramps
<1>17. ASSUME TurnKnob PROVE Room'
  BY <1>17, HeaterAssumption DEF TurnKnob, LoseReply, UnchangedByPanel, Typed, Budgets,
     Room, Promised, Commands, Ramps
<1>18. CASE UNCHANGED <<ramp, left, cmd>>
  BY SMTT(60), <1>18 DEF Room, Promised, Commands, Ramps, Budgets
<1>19. (\E r \in Sweeps : WalkStep(r)) \/ (\E r \in Sweeps : WalkStore(r)) \/ PollBegin \/
   PollLeaves \/ PollTemperature \/ PollRest \/ PollStore \/ Interrupt \/ ShutDown \/
   StopRampAtEnd \/ JoinRampAtEnd \/ JoinPoll \/ SwitchOff \/ ToggleAtEnd \/ Close \/
   Disconnect \/ UNCHANGED vars => UNCHANGED <<ramp, left, cmd>>
  BY DEF vars, WalkStep, WalkStore, PollBegin, PollLeaves, PollTemperature, PollRest,
     PollStore, Interrupt, ShutDown, StopRampAtEnd, JoinRampAtEnd, JoinPoll, SwitchOff,
     ToggleAtEnd, Close, Disconnect, UnchangedByMain, UnchangedByPoll, UnchangedByWalk
<1>20. ASSUME OutputFails PROVE Room'
  BY <1>20, OutputFailsDoes, HeaterAssumption DEF Typed, Room, Promised, Ramps, Budgets
<1>21. ASSUME SwitchOffFails PROVE Room'
  BY <1>21, SwitchOffFailsDoes, HeaterAssumption DEF Typed, Room, Promised, Ramps, Budgets
<1>22. AnyStep
  BY StepOf
<1> QED BY <1>1, <1>2, <1>3, <1>4, <1>5, <1>6, <1>7, <1>8, <1>9, <1>10, <1>11, <1>12,
   <1>13, <1>14, <1>15, <1>16, <1>17, <1>18, <1>19, <1>20, <1>21, <1>22 DEF AnyStep, PollStep, MainStep

\* What the steps of a sweep do to where the sweeps are.
LEMMA WalkStepDoes ==
  ASSUME Typed, NEW r \in Sweeps, WalkStep(r)
  PROVE  /\ walks[r].pc = "walk" /\ walks'[r].pc \in {"walk", "want", "end"}
         /\ \A q \in Sweeps \ {r} : walks'[q] = walks[q]
<1>1. CASE r \in halted
  BY <1>1 DEF WalkStep, Typed, WalkRecords
<1>2. CASE r \notin halted
  <2>1. PICK v \in Between(walks[r].at, walks[r].to) :
          walks' = [walks EXCEPT ![r].at = v,
                                 ![r].pc = IF v # ours.sp THEN "want"
                                           ELSE IF v = walks[r].to THEN "end" ELSE "walk"]
    BY <1>2 DEF WalkStep
  <2>2. walks'[r] = [walks[r] EXCEPT !.at = v, !.pc = IF v # ours.sp THEN "want"
                                                      ELSE IF v = walks[r].to THEN "end"
                                                      ELSE "walk"]
        /\ \A q \in Sweeps \ {r} : walks'[q] = walks[q]
    BY <2>1 DEF Typed
  <2>3. walks[r] \in WalkRecords
    BY DEF Typed
  <2> QED BY <2>2, <2>3 DEF WalkStep, WalkRecords
<1> QED BY <1>1, <1>2

\* Sending takes _hw, unless the send fails.
LEMMA WalkSendDoes ==
  ASSUME Typed, NEW r \in Sweeps, WalkSend(r)
  PROVE  /\ walks[r].pc = "want" /\ hw = Free
         /\ \/ walks'[r].pc = "sent" /\ hw' = r
            \/ walks'[r].pc = "end" /\ hw' = Free
         /\ \A q \in Sweeps \ {r} : walks'[q] = walks[q]
<1>1. \/ walks' = [walks EXCEPT ![r].pc = "end"] /\ hw' = hw
      \/ walks' = [walks EXCEPT ![r].pc = "sent"] /\ hw' = r
  BY DEF WalkSend
<1> QED BY <1>1 DEF WalkSend, Typed, WalkRecords

\* A new sweep gets the next number; Room has it.
LEMMA BeginRampDoes ==
  ASSUME Typed, Room, BeginRamp
  PROVE  /\ ramp.id \in Nat /\ ramp.id + 1 \in Sweeps
         /\ ramp' = [ramp EXCEPT !.id = ramp.id + 1, !.running = TRUE, !.halt = ramp.id + 1]
         /\ walks'[ramp.id + 1].pc = "made"
         /\ \A q \in Sweeps \ {ramp.id + 1} : walks'[q] = walks[q]
         /\ cmd.pc = "begin" /\ cmd'.pc = "assign" /\ cmd'.verb = cmd.verb
<1>1. Promised = 1
  BY DEF BeginRamp, Room, Promised
<1>2. ramp.id \in Nat /\ left.commands \in Nat
  BY DEF Typed, Ramps, Budgets
<1>3. ramp.id + 1 \in Sweeps
  BY <1>1, <1>2, HeaterAssumption DEF Room, Sweeps
<1>4. walks'[ramp.id + 1].pc = "made" /\ \A q \in Sweeps \ {ramp.id + 1} : walks'[q] = walks[q]
  BY <1>3 DEF BeginRamp, Typed
<1> QED BY <1>2, <1>3, <1>4 DEF BeginRamp, Typed, Commands

\* Only the newest sweep is started.
LEMMA StartThreadDoes ==
  ASSUME Typed, StartThread
  PROVE  /\ cmd.pc = "go" /\ cmd'.pc \in {"recv", "gone"} /\ cmd'.verb = "off"
         /\ \A q \in Sweeps : walks'[q].pc = IF q = ramp.id THEN "walk" ELSE walks[q].pc
<1>1. cmd.pc = "go" /\ cmd' = Turn /\ walks' = [walks EXCEPT ![ramp.id].pc = "walk"]
  BY DEF StartThread
<1> QED BY <1>1 DEF Turn, Away, Typed, WalkRecords

-----------------------------------------------------------------------------
(* The sweeps: one at a time, as long as no join gives up *)

Over == \A r \in Sweeps : walks[r].pc \in {"none", "dead"}

Numbered ==
  /\ \A r \in Sweeps : walks[r].pc = "none" <=> r > ramp.id
  /\ \A r \in Sweeps : walks[r].pc = "made" => r = ramp.id /\ cmd.pc \in {"assign", "go"}
  /\ cmd.pc \in {"assign", "go"} => ramp.id \in Sweeps /\ walks[ramp.id].pc = "made"
  /\ cmd.pc # "assign" => ramp.thread = ramp.id
  /\ cmd.pc = "join" => cmd.join = ramp.id

Asked ==
  /\ cmd.pc \in {"send", "store"} => cmd.verb = "set"
  /\ cmd.pc \in {"begin", "assign", "go"} => cmd.verb = "ramp"

Alone ==
  /\ ~gaveUp => \A r \in Sweeps : r < ramp.id => walks[r].pc = "dead"
  /\ ~gaveUp /\ (~ramp.running \/ cmd.pc \in {"begin", "send", "store"}) => Over
  /\ held # Unknown => Over /\ cmd.verb \notin {"set", "ramp"}

\* The commander numbers the sweeps and knows the newest.
LEMMA StepNumbered == ASSUME Typed, Room, Numbered, [Next]_vars PROVE Numbered'
<1>1. ASSUME NEW verb \in Verbs, NEW v \in Levels, Receive(verb, v) PROVE Numbered'
  BY <1>1, HeaterAssumption DEF Receive, Away, Turn, UnchangedByCommand, Typed,
     Commands, Numbered, Sweeps, Ramps, WalkRecords
<1>2. ASSUME CommanderLeaves PROVE Numbered'
  BY <1>2, HeaterAssumption DEF CommanderLeaves, Away, UnchangedByCommand, Typed,
     Commands, Numbered, Sweeps, Ramps, WalkRecords
<1>3. ASSUME StopRamp PROVE Numbered'
  BY <1>3, HeaterAssumption DEF StopRamp, Halted, UnchangedByCommand, Typed, Commands,
     Numbered, Sweeps, Ramps, WalkRecords
<1>4. ASSUME JoinRamp PROVE Numbered'
  BY <1>4, HeaterAssumption DEF JoinRamp, AfterJoin, Ended, Holds, Turn, Away,
     UnchangedByCommand, Typed, Commands, Numbered, Sweeps, Ramps, WalkRecords
<1>5. ASSUME GiveUpJoin PROVE Numbered'
  BY <1>5, HeaterAssumption DEF GiveUpJoin, AfterJoin, Outlasts, Holds, Turn, Away,
     UnchangedByCommand, Typed, Commands, Numbered, Sweeps, Ramps, WalkRecords
<1>6. ASSUME SendSetpoint PROVE Numbered'
  BY <1>6, HeaterAssumption DEF SendSetpoint, Refused, LoseReply, Turn, Away,
     UnchangedByCommand, Typed, Commands, Numbered, Sweeps, Ramps, WalkRecords
<1>7. ASSUME StoreSetpoint PROVE Numbered'
  BY <1>7, HeaterAssumption DEF StoreSetpoint, NewSetpoint, Holds, Turn, Away,
     UnchangedByCommand, Typed, Commands, Numbered, Sweeps, Ramps, WalkRecords
<1>8. ASSUME BeginRamp PROVE Numbered'
  <2>1. ramp'.id = ramp.id + 1 /\ ramp'.thread = ramp.thread /\ cmd'.join = cmd.join
    BY <1>8, BeginRampDoes DEF BeginRamp, Typed, Ramps, Commands
  <2> QED BY <1>8, <2>1, BeginRampDoes DEF Numbered, Sweeps
<1>9. ASSUME AssignThread PROVE Numbered'
  BY <1>9, HeaterAssumption DEF AssignThread, UnchangedByCommand, Typed, Ramps,
     Commands, Numbered, Sweeps, WalkRecords
<1>10. ASSUME StartThread PROVE Numbered'
  BY <1>10, HeaterAssumption DEF StartThread, Turn, Away, UnchangedByCommand, Typed,
     WalkRecords, Commands, Numbered, Sweeps, Ramps
<1>11. ASSUME ReadOutput PROVE Numbered'
  BY <1>11, HeaterAssumption DEF ReadOutput, Turn, Away, UnchangedByCommand, Typed,
     Commands, Numbered, Sweeps, Ramps, WalkRecords
<1>12. ASSUME ToggleOutput PROVE Numbered'
  BY <1>12, HeaterAssumption DEF ToggleOutput, UnchangedByCommand, Typed, Commands,
     Numbered, Sweeps, Ramps, WalkRecords
<1>13. ASSUME ConfirmOutput PROVE Numbered'
  BY <1>13, HeaterAssumption DEF ConfirmOutput, Turn, Away, UnchangedByCommand, Typed,
     Commands, Numbered, Sweeps, Ramps, WalkRecords
<1>14. ASSUME NEW r \in Sweeps, WalkStep(r) PROVE Numbered'
  BY ZenonT(60), <1>14, WalkStepDoes DEF WalkStep, UnchangedByWalk, Numbered, Sweeps
<1>15. ASSUME NEW r \in Sweeps, WalkSend(r) PROVE Numbered'
  <2>1. ramp' = ramp /\ cmd' = cmd
    BY <1>15 DEF WalkSend, UnchangedByWalk
  <2> QED BY <1>15, <2>1, WalkSendDoes DEF Numbered, Sweeps
<1>16. ASSUME NEW r \in Sweeps, WalkStore(r) PROVE Numbered'
  BY <1>16, HeaterAssumption DEF WalkStore, NewSetpoint, UnchangedByWalk, Typed,
     WalkRecords, Numbered, Sweeps, Commands, Ramps
<1>17. ASSUME NEW r \in Sweeps, WalkEnd(r) PROVE Numbered'
  BY <1>17, HeaterAssumption DEF WalkEnd, NotStarted, UnchangedByWalk, Typed, Ramps,
     WalkRecords, Numbered, Sweeps, Commands
<1>18. CASE UNCHANGED <<walks, ramp, cmd>>
  BY <1>18 DEF Numbered, Sweeps, Commands, Ramps, WalkRecords
<1>19. PollBegin \/ PollLeaves \/ PollTemperature \/ PollRest \/ PollFails \/ PollStore \/
   Interrupt \/ ShutDown \/ StopRampAtEnd \/ JoinRampAtEnd \/ JoinPoll \/ SwitchOff \/
   ToggleAtEnd \/ Close \/ Disconnect \/ TurnKnob \/ UNCHANGED vars => UNCHANGED <<walks,
   ramp, cmd>>
  BY DEF vars, PollBegin, PollLeaves, PollTemperature, PollRest, PollFails, PollStore,
     Interrupt, ShutDown, StopRampAtEnd, JoinRampAtEnd, JoinPoll, SwitchOff,
     ToggleAtEnd, Close, Disconnect, TurnKnob, UnchangedByMain, UnchangedByPanel,
     UnchangedByPoll
<1>20. ASSUME OutputFails PROVE Numbered'
  BY <1>20, OutputFailsDoes DEF Numbered, Sweeps
<1>21. ASSUME SwitchOffFails PROVE Numbered'
  BY <1>21, SwitchOffFailsDoes DEF Numbered, Sweeps
<1>22. AnyStep
  BY StepOf
<1> QED BY <1>1, <1>2, <1>3, <1>4, <1>5, <1>6, <1>7, <1>8, <1>9, <1>10, <1>11, <1>12,
   <1>13, <1>14, <1>15, <1>16, <1>17, <1>18, <1>19, <1>20, <1>21, <1>22 DEF AnyStep, PollStep, MainStep

\* Only a set sends, only a ramp begins a sweep.
LEMMA StepAsked == ASSUME Typed, Asked, [Next]_vars PROVE Asked'
<1>1. ASSUME NEW verb \in Verbs, NEW v \in Levels, Receive(verb, v) PROVE Asked'
  BY ZenonT(60), <1>1 DEF Receive, Away, Turn, UnchangedByCommand, Typed, Commands,
     Asked
<1>2. ASSUME CommanderLeaves PROVE Asked'
  BY <1>2 DEF CommanderLeaves, Away, UnchangedByCommand, Typed, Commands, Asked
<1>3. ASSUME StopRamp PROVE Asked'
  BY <1>3 DEF StopRamp, Halted, UnchangedByCommand, Typed, Commands, Asked
<1>4. ASSUME JoinRamp PROVE Asked'
  BY <1>4 DEF JoinRamp, AfterJoin, Ended, Holds, Turn, Away, UnchangedByCommand, Typed,
     Commands, Asked
<1>5. ASSUME GiveUpJoin PROVE Asked'
  BY <1>5 DEF GiveUpJoin, AfterJoin, Outlasts, Holds, Turn, Away, UnchangedByCommand,
     Typed, Commands, Asked
<1>6. ASSUME SendSetpoint PROVE Asked'
  BY <1>6 DEF SendSetpoint, Refused, LoseReply, Turn, Away, UnchangedByCommand, Typed,
     Commands, Asked
<1>7. ASSUME StoreSetpoint PROVE Asked'
  BY <1>7 DEF StoreSetpoint, NewSetpoint, Holds, Turn, Away, UnchangedByCommand, Typed,
     Commands, Asked
<1>8. ASSUME BeginRamp PROVE Asked'
  BY <1>8 DEF BeginRamp, UnchangedByCommand, Typed, Commands, Asked
<1>9. ASSUME AssignThread PROVE Asked'
  BY <1>9 DEF AssignThread, UnchangedByCommand, Typed, Commands, Asked
<1>10. ASSUME StartThread PROVE Asked'
  BY <1>10 DEF StartThread, Turn, Away, UnchangedByCommand, Typed, Commands, Asked
<1>11. ASSUME ReadOutput PROVE Asked'
  BY <1>11 DEF ReadOutput, Turn, Away, UnchangedByCommand, Typed, Commands, Asked
<1>12. ASSUME ToggleOutput PROVE Asked'
  BY <1>12 DEF ToggleOutput, UnchangedByCommand, Typed, Commands, Asked
<1>13. ASSUME ConfirmOutput PROVE Asked'
  BY <1>13 DEF ConfirmOutput, Turn, Away, UnchangedByCommand, Typed, Commands, Asked
<1>14. CASE UNCHANGED <<cmd>>
  BY <1>14 DEF Asked, Commands
<1>15. (\E r \in Sweeps : WalkStep(r)) \/ (\E r \in Sweeps : WalkSend(r)) \/ (\E r \in
   Sweeps : WalkStore(r)) \/ (\E r \in Sweeps : WalkEnd(r)) \/ PollBegin \/ PollLeaves \/
   PollTemperature \/ PollRest \/ PollFails \/ PollStore \/ Interrupt \/ ShutDown \/
   StopRampAtEnd \/ JoinRampAtEnd \/ JoinPoll \/ SwitchOff \/ ToggleAtEnd \/ Close \/
   Disconnect \/ TurnKnob \/ UNCHANGED vars => UNCHANGED <<cmd>>
  BY DEF vars, WalkStep, WalkSend, WalkStore, WalkEnd, PollBegin, PollLeaves,
     PollTemperature, PollRest, PollFails, PollStore, Interrupt, ShutDown,
     StopRampAtEnd, JoinRampAtEnd, JoinPoll, SwitchOff, ToggleAtEnd, Close, Disconnect,
     TurnKnob, UnchangedByMain, UnchangedByPanel, UnchangedByPoll, UnchangedByWalk
<1>16. ASSUME OutputFails PROVE Asked'
  BY <1>16, OutputFailsDoes DEF Asked
<1>17. ASSUME SwitchOffFails PROVE Asked'
  BY <1>17, SwitchOffFailsDoes DEF Asked
<1>18. AnyStep
  BY StepOf
<1> QED BY <1>1, <1>2, <1>3, <1>4, <1>5, <1>6, <1>7, <1>8, <1>9, <1>10, <1>11, <1>12,
   <1>13, <1>14, <1>15, <1>16, <1>17, <1>18 DEF AnyStep, PollStep, MainStep

\* A sweep begins when the one before it has ended.
LEMMA StepAlone == ASSUME Typed, Room, Numbered, Asked, Alone, [Next]_vars PROVE Alone'
<1>1. ASSUME NEW verb \in Verbs, NEW v \in Levels, Receive(verb, v) PROVE Alone'
  BY ZenonT(60), <1>1, HeaterAssumption DEF Receive, Away, Turn, UnchangedByCommand,
     Typed, Commands, Alone, Over, Numbered, Asked, Sweeps, Ramps, WalkRecords, Unknown,
     Levels
<1>2. ASSUME CommanderLeaves PROVE Alone'
  BY <1>2, HeaterAssumption DEF CommanderLeaves, Away, UnchangedByCommand, Typed,
     Commands, Alone, Over, Numbered, Asked, Sweeps, Ramps, WalkRecords, Unknown, Levels
<1>3. ASSUME StopRamp PROVE Alone'
  BY <1>3, HeaterAssumption DEF StopRamp, Halted, UnchangedByCommand, Typed, Commands,
     Alone, Over, Numbered, Asked, Sweeps, Ramps, WalkRecords, Unknown, Levels
<1>4. ASSUME JoinRamp PROVE Alone'
  BY <1>4, HeaterAssumption DEF JoinRamp, AfterJoin, Ended, Holds, Turn, Away,
     UnchangedByCommand, Typed, Commands, Alone, Over, Numbered, Asked, Sweeps, Ramps,
     WalkRecords, Unknown, Levels
<1>5. ASSUME GiveUpJoin PROVE Alone'
  BY <1>5, HeaterAssumption DEF GiveUpJoin, AfterJoin, Outlasts, Holds, Turn, Away,
     UnchangedByCommand, Typed, Commands, Alone, Over, Numbered, Asked, Sweeps, Ramps,
     WalkRecords, Unknown, Levels
<1>6. ASSUME SendSetpoint PROVE Alone'
  BY <1>6, HeaterAssumption DEF SendSetpoint, Refused, LoseReply, Turn, Away,
     UnchangedByCommand, Typed, Commands, Alone, Over, Numbered, Asked, Sweeps, Ramps,
     WalkRecords, Unknown, Levels
<1>7. ASSUME StoreSetpoint PROVE Alone'
  BY <1>7, HeaterAssumption DEF StoreSetpoint, NewSetpoint, Holds, Turn, Away,
     UnchangedByCommand, Typed, Commands, Alone, Over, Numbered, Asked, Sweeps, Ramps,
     WalkRecords, Unknown, Levels
<1>8. ASSUME BeginRamp PROVE Alone'
  BY <1>8, HeaterAssumption DEF BeginRamp, UnchangedByCommand, Typed, Ramps,
     WalkRecords, Commands, Alone, Over, Numbered, Asked, Sweeps, Unknown, Levels
<1>9. ASSUME AssignThread PROVE Alone'
  BY <1>9, HeaterAssumption DEF AssignThread, UnchangedByCommand, Typed, Ramps,
     Commands, Alone, Over, Numbered, Asked, Sweeps, WalkRecords, Unknown, Levels
<1>10. ASSUME StartThread PROVE Alone'
  BY <1>10, HeaterAssumption DEF StartThread, Turn, Away, UnchangedByCommand, Typed,
     WalkRecords, Commands, Alone, Over, Numbered, Asked, Sweeps, Ramps, Unknown, Levels
<1>11. ASSUME ReadOutput PROVE Alone'
  BY SMTT(60), <1>11, HeaterAssumption DEF ReadOutput, Turn, Away, UnchangedByCommand,
     Typed, Commands, Alone, Over, Numbered, Asked, Sweeps, Ramps, WalkRecords, Unknown,
     Levels
<1>12. ASSUME ToggleOutput PROVE Alone'
  BY <1>12, HeaterAssumption DEF ToggleOutput, UnchangedByCommand, Typed, Commands,
     Alone, Over, Numbered, Asked, Sweeps, Ramps, WalkRecords, Unknown, Levels
<1>13. ASSUME ConfirmOutput PROVE Alone'
  BY <1>13, HeaterAssumption DEF ConfirmOutput, Turn, Away, UnchangedByCommand, Typed,
     Commands, Alone, Over, Numbered, Asked, Sweeps, Ramps, WalkRecords, Unknown, Levels
<1>14. ASSUME NEW r \in Sweeps, WalkStep(r) PROVE Alone'
  BY ZenonT(60), <1>14, HeaterAssumption DEF WalkStep, Between, UnchangedByWalk, Typed,
     WalkRecords, Alone, Over, Numbered, Asked, Sweeps, Commands, Ramps, Unknown, Levels
<1>15. ASSUME NEW r \in Sweeps, WalkSend(r) PROVE Alone'
  BY <1>15, HeaterAssumption DEF WalkSend, Refused, LoseReply, UnchangedByWalk, Typed,
     WalkRecords, Alone, Over, Numbered, Asked, Sweeps, Commands, Ramps, Unknown, Levels
<1>16. ASSUME NEW r \in Sweeps, WalkStore(r) PROVE Alone'
  BY <1>16, HeaterAssumption DEF WalkStore, NewSetpoint, UnchangedByWalk, Typed,
     WalkRecords, Alone, Over, Numbered, Asked, Sweeps, Commands, Ramps, Unknown, Levels
<1>17. ASSUME NEW r \in Sweeps, WalkEnd(r) PROVE Alone'
  BY SMTT(60), <1>17, HeaterAssumption DEF WalkEnd, NotStarted, UnchangedByWalk, Typed,
     Ramps, WalkRecords, Alone, Over, Numbered, Asked, Sweeps, Commands, Unknown, Levels
<1>18. ASSUME JoinRampAtEnd PROVE Alone'
  BY <1>18, HeaterAssumption DEF JoinRampAtEnd, Ended, Outlasts, UnchangedByMain, Typed,
     Alone, Over, Numbered, Asked, Sweeps, Commands, Ramps, WalkRecords, Unknown, Levels
<1>19. ASSUME TurnKnob PROVE Alone'
  BY <1>19, HeaterAssumption DEF TurnKnob, LoseReply, UnchangedByPanel, Typed, Alone,
     Over, Numbered, Asked, Sweeps, Commands, Ramps, WalkRecords, Unknown, Levels
<1>20. CASE UNCHANGED <<walks, ramp, cmd, gaveUp, held>>
  BY <1>20 DEF Alone, Over, Numbered, Asked, Sweeps, Commands, Ramps, WalkRecords,
     Unknown, Levels
<1>21. PollBegin \/ PollLeaves \/ PollTemperature \/ PollRest \/ PollFails \/ PollStore \/
   Interrupt \/ ShutDown \/ StopRampAtEnd \/ JoinPoll \/ SwitchOff \/ ToggleAtEnd \/ Close
   \/ Disconnect \/ UNCHANGED vars => UNCHANGED <<walks, ramp, cmd, gaveUp, held>>
  BY DEF vars, PollBegin, PollLeaves, PollTemperature, PollRest, PollFails, PollStore,
     Interrupt, ShutDown, StopRampAtEnd, JoinPoll, SwitchOff, ToggleAtEnd, Close,
     Disconnect, UnchangedByMain, UnchangedByPoll
<1>22. ASSUME OutputFails PROVE Alone'
  BY <1>22, OutputFailsDoes DEF Alone, Over
<1>23. ASSUME SwitchOffFails PROVE Alone'
  BY <1>23, SwitchOffFailsDoes DEF Alone, Over, Sweeps
<1>24. AnyStep
  BY StepOf
<1> QED BY <1>1, <1>2, <1>3, <1>4, <1>5, <1>6, <1>7, <1>8, <1>9, <1>10, <1>11, <1>12,
   <1>13, <1>14, <1>15, <1>16, <1>17, <1>18, <1>19, <1>20, <1>21, <1>22, <1>23, <1>24 DEF AnyStep,
   PollStep, MainStep

-----------------------------------------------------------------------------
(* Who holds the lock _hw: the thread that is between a write and its record *)

Locked ==
  /\ hw = Commander <=> cmd.pc \in {"store", "toggle", "confirm"}
  /\ hw = Poller <=> poll.pc = "rest"
  /\ hw = Main <=> main.pc \in {"toggle", "close"}
  /\ \A r \in Sweeps : hw = r <=> walks[r].pc = "sent"

\* Every step hands the lock over as it goes.
LEMMA StepLocked == ASSUME Typed, Room, Numbered, Locked, [Next]_vars PROVE Locked'
<1>1. ASSUME NEW verb \in Verbs, NEW v \in Levels, Receive(verb, v) PROVE Locked'
  BY <1>1 DEF Receive, Away, Turn, UnchangedByCommand, Typed, Commands, Locked, Free,
     Commander, Poller, Main, Sweeps
<1>2. ASSUME CommanderLeaves PROVE Locked'
  BY <1>2 DEF CommanderLeaves, Away, UnchangedByCommand, Typed, Commands, Locked, Free,
     Commander, Poller, Main, Sweeps
<1>3. ASSUME StopRamp PROVE Locked'
  BY <1>3 DEF StopRamp, Halted, UnchangedByCommand, Typed, Commands, Locked, Free,
     Commander, Poller, Main, Sweeps
<1>4. ASSUME JoinRamp PROVE Locked'
  BY <1>4 DEF JoinRamp, AfterJoin, Ended, Holds, Turn, Away, UnchangedByCommand, Typed,
     Commands, Locked, Free, Commander, Poller, Main, Sweeps
<1>5. ASSUME GiveUpJoin PROVE Locked'
  BY <1>5 DEF GiveUpJoin, AfterJoin, Outlasts, Holds, Turn, Away, UnchangedByCommand,
     Typed, Commands, Locked, Free, Commander, Poller, Main, Sweeps
<1>6. ASSUME SendSetpoint PROVE Locked'
  BY <1>6 DEF SendSetpoint, Refused, LoseReply, Turn, Away, UnchangedByCommand, Typed,
     Commands, Locked, Free, Commander, Poller, Main, Sweeps
<1>7. ASSUME StoreSetpoint PROVE Locked'
  BY <1>7 DEF StoreSetpoint, NewSetpoint, Holds, Turn, Away, UnchangedByCommand, Typed,
     Commands, Locked, Free, Commander, Poller, Main, Sweeps
<1>8. ASSUME BeginRamp PROVE Locked'
  BY <1>8, BeginRampDoes DEF BeginRamp, UnchangedByCommand, Numbered, Locked, Free,
     Commander, Poller, Main, Sweeps
<1>9. ASSUME AssignThread PROVE Locked'
  BY <1>9 DEF AssignThread, UnchangedByCommand, Typed, Commands, Locked, Free,
     Commander, Poller, Main, Sweeps
<1>10. ASSUME StartThread PROVE Locked'
  BY <1>10, StartThreadDoes DEF StartThread, UnchangedByCommand, Numbered, Locked, Free,
     Commander, Poller, Main, Sweeps
<1>11. ASSUME ReadOutput PROVE Locked'
  BY <1>11 DEF ReadOutput, Turn, Away, UnchangedByCommand, Typed, Commands, Locked,
     Free, Commander, Poller, Main, Sweeps
<1>12. ASSUME ToggleOutput PROVE Locked'
  BY <1>12 DEF ToggleOutput, UnchangedByCommand, Typed, Commands, Locked, Free,
     Commander, Poller, Main, Sweeps
<1>13. ASSUME ConfirmOutput PROVE Locked'
  BY <1>13 DEF ConfirmOutput, Turn, Away, UnchangedByCommand, Typed, Commands, Locked,
     Free, Commander, Poller, Main, Sweeps
<1>14. ASSUME NEW r \in Sweeps, WalkStep(r) PROVE Locked'
  BY ZenonT(60), <1>14, WalkStepDoes DEF WalkStep, UnchangedByWalk, Locked, Free,
     Commander, Poller, Main, Sweeps
<1>15. ASSUME NEW r \in Sweeps, WalkSend(r) PROVE Locked'
  <2>1. cmd' = cmd /\ poll' = poll /\ main' = main
    BY <1>15 DEF WalkSend, UnchangedByWalk
  <2> QED BY <1>15, <2>1, WalkSendDoes DEF Locked, Free, Commander, Poller, Main, Sweeps
<1>16. ASSUME NEW r \in Sweeps, WalkStore(r) PROVE Locked'
  BY <1>16 DEF WalkStore, NewSetpoint, UnchangedByWalk, Typed, WalkRecords, Locked,
     Free, Commander, Poller, Main, Sweeps
<1>17. ASSUME NEW r \in Sweeps, WalkEnd(r) PROVE Locked'
  BY <1>17 DEF WalkEnd, NotStarted, UnchangedByWalk, Typed, WalkRecords, Locked, Free,
     Commander, Poller, Main, Sweeps
<1>18. ASSUME PollBegin PROVE Locked'
  BY <1>18 DEF PollBegin, UnchangedByPoll, Typed, Polls, Locked, Free, Commander,
     Poller, Main, Sweeps
<1>19. ASSUME PollLeaves PROVE Locked'
  BY <1>19 DEF PollLeaves, Asleep, UnchangedByPoll, Typed, Polls, Locked, Free,
     Commander, Poller, Main, Sweeps
<1>20. ASSUME PollTemperature PROVE Locked'
  <2>1. /\ hw = Free /\ poll.pc = "temp"
        /\ (poll' = Asleep /\ hw' = hw) \/ (poll'.pc = "rest" /\ hw' = Poller)
    BY <1>20 DEF PollTemperature, Typed, Polls
  <2>2. cmd' = cmd /\ main' = main /\ walks' = walks
    BY <1>20 DEF PollTemperature, UnchangedByPoll
  <2> QED BY <2>1, <2>2 DEF Asleep, Locked, Free, Commander, Poller, Main, Sweeps
<1>21. ASSUME PollRest PROVE Locked'
  BY <1>21 DEF PollRest, UnchangedByPoll, Typed, Polls, Locked, Free, Commander, Poller,
     Main, Sweeps
<1>22. ASSUME PollFails PROVE Locked'
  BY <1>22 DEF PollFails, LoseReply, Asleep, UnchangedByPoll, Typed, Polls, Locked,
     Free, Commander, Poller, Main, Sweeps
<1>23. ASSUME PollStore PROVE Locked'
  BY <1>23 DEF PollStore, Judge, InBand, Asleep, UnchangedByPoll, Typed, Polls, Locked,
     Free, Commander, Poller, Main, Sweeps
<1>24. ASSUME ShutDown PROVE Locked'
  BY <1>24 DEF ShutDown, UnchangedByMain, Typed, Mains, Locked, Free, Commander, Poller,
     Main, Sweeps
<1>25. ASSUME StopRampAtEnd PROVE Locked'
  BY <1>25 DEF StopRampAtEnd, Halted, UnchangedByMain, Typed, Mains, Locked, Free,
     Commander, Poller, Main, Sweeps
<1>26. ASSUME JoinRampAtEnd PROVE Locked'
  BY <1>26 DEF JoinRampAtEnd, Ended, Outlasts, UnchangedByMain, Typed, Mains, Locked,
     Free, Commander, Poller, Main, Sweeps
<1>27. ASSUME JoinPoll PROVE Locked'
  BY <1>27 DEF JoinPoll, UnchangedByMain, Typed, Mains, Locked, Free, Commander, Poller,
     Main, Sweeps
<1>28. ASSUME SwitchOff PROVE Locked'
  BY <1>28 DEF SwitchOff, UnchangedByMain, Typed, Mains, Locked, Free, Commander,
     Poller, Main, Sweeps
<1>29. ASSUME ToggleAtEnd PROVE Locked'
  BY <1>29 DEF ToggleAtEnd, UnchangedByMain, Typed, Mains, Locked, Free, Commander,
     Poller, Main, Sweeps
<1>30. ASSUME Close PROVE Locked'
  BY <1>30 DEF Close, UnchangedByMain, Typed, Mains, Locked, Free, Commander, Poller,
     Main, Sweeps
<1>31. ASSUME Disconnect PROVE Locked'
  BY <1>31 DEF Disconnect, UnchangedByMain, Typed, Mains, Locked, Free, Commander,
     Poller, Main, Sweeps
<1>32. CASE UNCHANGED <<hw, cmd, poll, main, walks>>
  BY <1>32 DEF Locked, Free, Commander, Poller, Main, Sweeps
<1>33. Interrupt \/ TurnKnob \/ UNCHANGED vars => UNCHANGED <<hw, cmd, poll, main, walks>>
  BY DEF vars, Interrupt, TurnKnob, UnchangedByMain, UnchangedByPanel
<1>34. ASSUME OutputFails PROVE Locked'
  BY <1>34, OutputFailsDoes DEF Locked, Free, Commander, Poller, Main, Sweeps
<1>35. ASSUME SwitchOffFails PROVE Locked'
  BY <1>35, SwitchOffFailsDoes DEF Locked, Free, Commander, Poller, Main, Sweeps
<1>36. AnyStep
  BY StepOf
<1> QED BY <1>1, <1>2, <1>3, <1>4, <1>5, <1>6, <1>7, <1>8, <1>9, <1>10, <1>11, <1>12,
   <1>13, <1>14, <1>15, <1>16, <1>17, <1>18, <1>19, <1>20, <1>21, <1>22, <1>23, <1>24,
   <1>25, <1>26, <1>27, <1>28, <1>29, <1>30, <1>31, <1>32, <1>33, <1>34, <1>35, <1>36 DEF AnyStep,
   PollStep, MainStep

-----------------------------------------------------------------------------
(* What the status shows *)

\* A setpoint has been written and is not stored yet.
Writing == cmd.pc = "store" \/ \E r \in Sweeps : walks[r].pc = "sent"

\* What we remember, and what a poll is about to store, is the box's setpoint.
Shown ==
  ~strange /\ ~Writing =>
    /\ ours.sp = box.sp
    /\ poll.pc = "store" /\ ~bumped => poll.sp = box.sp

\* A setpoint is stored with what it makes obsolete, and an old reading stores nothing.
LEMMA StepShown == ASSUME Typed, Room, Numbered, Shown, [Next]_vars PROVE Shown'
<1>1. ASSUME NEW verb \in Verbs, NEW v \in Levels, Receive(verb, v) PROVE Shown'
  BY <1>1 DEF Receive, Away, Turn, UnchangedByCommand, Typed, Commands, Shown, Writing
<1>2. ASSUME CommanderLeaves PROVE Shown'
  BY <1>2 DEF CommanderLeaves, Away, UnchangedByCommand, Typed, Commands, Shown, Writing
<1>3. ASSUME StopRamp PROVE Shown'
  BY <1>3 DEF StopRamp, Halted, UnchangedByCommand, Typed, Commands, Shown, Writing
<1>4. ASSUME JoinRamp PROVE Shown'
  BY <1>4 DEF JoinRamp, AfterJoin, Ended, Holds, Turn, Away, UnchangedByCommand, Typed,
     Commands, Shown, Writing
<1>5. ASSUME GiveUpJoin PROVE Shown'
  BY <1>5 DEF GiveUpJoin, AfterJoin, Outlasts, Holds, Turn, Away, UnchangedByCommand,
     Typed, Commands, Shown, Writing
<1>6. ASSUME SendSetpoint PROVE Shown'
  BY <1>6 DEF SendSetpoint, Refused, LoseReply, Turn, Away, UnchangedByCommand, Typed,
     Boxes, Commands, Shown, Writing
<1>7. ASSUME StoreSetpoint PROVE Shown'
  BY <1>7 DEF StoreSetpoint, NewSetpoint, Holds, Turn, Away, UnchangedByCommand, Typed,
     Memories, Commands, Shown, Writing
<1>8. ASSUME BeginRamp PROVE Shown'
  BY <1>8, BeginRampDoes DEF BeginRamp, UnchangedByCommand, Shown, Writing, Numbered
<1>9. ASSUME AssignThread PROVE Shown'
  BY <1>9 DEF AssignThread, UnchangedByCommand, Typed, Commands, Shown, Writing
<1>10. ASSUME StartThread PROVE Shown'
  BY <1>10, StartThreadDoes DEF StartThread, UnchangedByCommand, Shown, Writing,
     Numbered
<1>11. ASSUME ReadOutput PROVE Shown'
  BY <1>11 DEF ReadOutput, Turn, Away, UnchangedByCommand, Typed, Commands, Memories,
     Shown, Writing
<1>12. ASSUME ToggleOutput PROVE Shown'
  BY <1>12 DEF ToggleOutput, UnchangedByCommand, Typed, Boxes, Commands, Shown, Writing
<1>13. ASSUME ConfirmOutput PROVE Shown'
  BY <1>13 DEF ConfirmOutput, Turn, Away, UnchangedByCommand, Typed, Memories, Commands,
     Shown, Writing
<1>14. ASSUME NEW r \in Sweeps, WalkStep(r) PROVE Shown'
  BY <1>14 DEF WalkStep, Between, UnchangedByWalk, Typed, WalkRecords, Shown, Writing
<1>15. ASSUME NEW r \in Sweeps, WalkSend(r) PROVE Shown'
  BY <1>15 DEF WalkSend, Refused, LoseReply, UnchangedByWalk, Typed, WalkRecords, Boxes,
     Shown, Writing
<1>16. ASSUME NEW r \in Sweeps, WalkStore(r) PROVE Shown'
  BY <1>16 DEF WalkStore, NewSetpoint, UnchangedByWalk, Typed, Memories, WalkRecords,
     Shown, Writing
<1>17. ASSUME NEW r \in Sweeps, WalkEnd(r) PROVE Shown'
  BY <1>17 DEF WalkEnd, NotStarted, UnchangedByWalk, Typed, WalkRecords, Shown, Writing
<1>18. ASSUME PollBegin PROVE Shown'
  BY <1>18 DEF PollBegin, UnchangedByPoll, Typed, Polls, Shown, Writing
<1>19. ASSUME PollLeaves PROVE Shown'
  BY <1>19 DEF PollLeaves, Asleep, UnchangedByPoll, Typed, Polls, Shown, Writing
<1>20. ASSUME PollTemperature PROVE Shown'
  <2>1. poll'.pc # "store" /\ ours'.sp = ours.sp
    <3>1. poll' = Asleep \/ poll'.pc = "rest"
      BY <1>20 DEF PollTemperature, Typed, Polls
    <3>2. ours' = ours \/ ours' = [ours EXCEPT !.band = "no"]
      BY <1>20 DEF PollTemperature
    <3> QED BY <3>1, <3>2 DEF Asleep, Typed, Memories
  <2> QED BY <1>20, <2>1 DEF PollTemperature, UnchangedByPoll, Shown, Writing
<1>21. ASSUME PollRest PROVE Shown'
  BY <1>21 DEF PollRest, UnchangedByPoll, Typed, Polls, Shown, Writing
<1>22. ASSUME PollFails PROVE Shown'
  BY <1>22 DEF PollFails, LoseReply, Asleep, UnchangedByPoll, Typed, Memories, Polls,
     Shown, Writing
<1>23. ASSUME PollStore PROVE Shown'
  BY <1>23 DEF PollStore, Judge, InBand, Asleep, UnchangedByPoll, Typed, Memories,
     Polls, Shown, Writing
<1>24. ASSUME SwitchOff PROVE Shown'
  BY <1>24 DEF SwitchOff, UnchangedByMain, Typed, Memories, Shown, Writing
<1>25. ASSUME ToggleAtEnd PROVE Shown'
  BY <1>25 DEF ToggleAtEnd, UnchangedByMain, Typed, Boxes, Shown, Writing
<1>26. ASSUME Close PROVE Shown'
  BY <1>26 DEF Close, UnchangedByMain, Typed, Memories, Shown, Writing
<1>27. ASSUME TurnKnob PROVE Shown'
  BY <1>27 DEF TurnKnob, LoseReply, UnchangedByPanel, Typed, Boxes, Shown, Writing
<1>28. CASE UNCHANGED <<strange, cmd, walks, ours, box, poll, bumped>>
  BY <1>28 DEF Shown, Writing
<1>29. Interrupt \/ ShutDown \/ StopRampAtEnd \/ JoinRampAtEnd \/ JoinPoll \/ Disconnect
   \/ UNCHANGED vars => UNCHANGED <<strange, cmd, walks, ours, box, poll, bumped>>
  BY DEF vars, Interrupt, ShutDown, StopRampAtEnd, JoinRampAtEnd, JoinPoll, Disconnect,
     UnchangedByMain
<1>30. ASSUME OutputFails PROVE Shown'
  BY <1>30, OutputFailsDoes DEF Shown, Writing
<1>31. ASSUME SwitchOffFails PROVE Shown'
  BY <1>31, SwitchOffFailsDoes DEF Shown, Writing
<1>32. AnyStep
  BY StepOf
<1> QED BY <1>1, <1>2, <1>3, <1>4, <1>5, <1>6, <1>7, <1>8, <1>9, <1>10, <1>11, <1>12,
   <1>13, <1>14, <1>15, <1>16, <1>17, <1>18, <1>19, <1>20, <1>21, <1>22, <1>23, <1>24,
   <1>25, <1>26, <1>27, <1>28, <1>29, <1>30, <1>31, <1>32 DEF AnyStep, PollStep, MainStep

-----------------------------------------------------------------------------
(* A set or a stop that has been answered *)

\* Nobody writes over what a set or a stop left.
LEMMA StepTaken == ASSUME Typed, Asked, Alone, Numbered, TakenOver, [Next]_vars PROVE TakenOver'
<1>1. ASSUME NEW verb \in Verbs, NEW v \in Levels, Receive(verb, v) PROVE TakenOver'
  BY <1>1 DEF Receive, Away, Turn, UnchangedByCommand, Typed, TakenOver, Alone, Over,
     Asked, Commands, WalkRecords, Boxes, Holds
<1>2. ASSUME JoinRamp PROVE TakenOver'
  BY <1>2 DEF JoinRamp, AfterJoin, Ended, Holds, Turn, Away, UnchangedByCommand, Typed,
     TakenOver, Alone, Over, Asked, Commands, WalkRecords, Boxes
<1>3. ASSUME GiveUpJoin PROVE TakenOver'
  BY <1>3 DEF GiveUpJoin, AfterJoin, Outlasts, Holds, Turn, Away, UnchangedByCommand,
     Typed, TakenOver, Alone, Over, Asked, Commands, WalkRecords, Boxes
<1>4. ASSUME SendSetpoint PROVE TakenOver'
  BY <1>4 DEF SendSetpoint, Refused, LoseReply, Turn, Away, UnchangedByCommand, Typed,
     Boxes, TakenOver, Alone, Over, Asked, Commands, WalkRecords, Holds
<1>5. ASSUME StoreSetpoint PROVE TakenOver'
  BY <1>5 DEF StoreSetpoint, NewSetpoint, Holds, Turn, Away, UnchangedByCommand, Typed,
     TakenOver, Alone, Over, Asked, Commands, WalkRecords, Boxes
<1>6. ASSUME ToggleOutput PROVE TakenOver'
  BY <1>6 DEF ToggleOutput, UnchangedByCommand, Typed, Boxes, TakenOver, Alone, Over,
     Asked, Commands, WalkRecords, Holds
<1>7. ASSUME NEW r \in Sweeps, WalkSend(r) PROVE TakenOver'
  BY <1>7 DEF WalkSend, Refused, LoseReply, UnchangedByWalk, Typed, Boxes, TakenOver,
     Alone, Over, Asked, Commands, WalkRecords, Holds
<1>8. ASSUME ToggleAtEnd PROVE TakenOver'
  BY <1>8 DEF ToggleAtEnd, UnchangedByMain, Typed, Boxes, TakenOver, Alone, Over, Asked,
     Commands, WalkRecords, Holds
<1>9. ASSUME TurnKnob PROVE TakenOver'
  BY <1>9 DEF TurnKnob, LoseReply, UnchangedByPanel, Typed, Boxes, TakenOver, Alone,
     Over, Asked, Commands, WalkRecords, Holds
<1>10. CASE UNCHANGED <<box, held>>
  BY SMTT(60), <1>10 DEF TakenOver, Alone, Over, Asked, Commands, WalkRecords, Boxes,
     Holds
<1>11. CommanderLeaves \/ StopRamp \/ BeginRamp \/ AssignThread \/ StartThread \/
   ReadOutput \/ ConfirmOutput \/ (\E r \in Sweeps : WalkStep(r)) \/ (\E r \in Sweeps :
   WalkStore(r)) \/ (\E r \in Sweeps : WalkEnd(r)) \/ PollBegin \/ PollLeaves \/
   PollTemperature \/ PollRest \/ PollFails \/ PollStore \/ Interrupt \/ ShutDown \/
   StopRampAtEnd \/ JoinRampAtEnd \/ JoinPoll \/ SwitchOff \/ Close \/ Disconnect \/
   UNCHANGED vars => UNCHANGED <<box, held>>
  BY DEF vars, CommanderLeaves, StopRamp, BeginRamp, AssignThread, StartThread,
     ReadOutput, ConfirmOutput, WalkStep, WalkStore, WalkEnd, PollBegin, PollLeaves,
     PollTemperature, PollRest, PollFails, PollStore, Interrupt, ShutDown,
     StopRampAtEnd, JoinRampAtEnd, JoinPoll, SwitchOff, Close, Disconnect,
     UnchangedByCommand, UnchangedByMain, UnchangedByPoll, UnchangedByWalk
<1>12. ASSUME OutputFails PROVE TakenOver'
  BY <1>12, OutputFailsDoes DEF TakenOver
<1>13. ASSUME SwitchOffFails PROVE TakenOver'
  BY <1>13, SwitchOffFailsDoes DEF TakenOver
<1>14. AnyStep
  BY StepOf
<1> QED BY <1>1, <1>2, <1>3, <1>4, <1>5, <1>6, <1>7, <1>8, <1>9, <1>10, <1>11, <1>12, <1>13, <1>14 DEF
   AnyStep, PollStep, MainStep

-----------------------------------------------------------------------------
(* The end of the service *)

Untouched == DisableOnShutdown /\ ~service.keep /\ left.surprises = MaxSurprises

Closing ==
  /\ main.pc # "serve" => service.stop /\ cmd.pc # "recv"
  /\ main.pc # "over" => connected
  /\ ~open <=> main.pc \in {"disconnect", "over"}
  /\ ~open => cmd.pc # "toggle"
  /\ Untouched /\ main.pc = "toggle" => box.on
  /\ Untouched /\ main.pc \in {"close", "disconnect", "over"} => ~box.on

\* The port is closed under the lock, after the switch-off.
LEMMA StepClosing == ASSUME Typed, Locked, Closing, [Next]_vars PROVE Closing'
<1>1. ASSUME NEW verb \in Verbs, NEW v \in Levels, Receive(verb, v) PROVE Closing'
  BY <1>1 DEF Receive, Away, Turn, UnchangedByCommand, Typed, Budgets, Commands,
     Services, Closing, Untouched, Locked, Free, Commander, Main
<1>2. ASSUME CommanderLeaves PROVE Closing'
  BY <1>2 DEF CommanderLeaves, Away, UnchangedByCommand, Typed, Commands, Closing,
     Untouched, Locked, Free, Commander, Main
<1>3. ASSUME StopRamp PROVE Closing'
  BY <1>3 DEF StopRamp, Halted, UnchangedByCommand, Typed, Commands, Closing, Untouched,
     Locked, Free, Commander, Main
<1>4. ASSUME JoinRamp PROVE Closing'
  BY <1>4 DEF JoinRamp, AfterJoin, Ended, Holds, Turn, Away, UnchangedByCommand, Typed,
     Commands, Closing, Untouched, Locked, Free, Commander, Main
<1>5. ASSUME GiveUpJoin PROVE Closing'
  BY <1>5 DEF GiveUpJoin, AfterJoin, Outlasts, Holds, Turn, Away, UnchangedByCommand,
     Typed, Commands, Closing, Untouched, Locked, Free, Commander, Main
<1>6. ASSUME SendSetpoint PROVE Closing'
  BY <1>6 DEF SendSetpoint, Refused, LoseReply, Turn, Away, UnchangedByCommand, Typed,
     Boxes, Budgets, Commands, Closing, Untouched, Locked, Free, Commander, Main
<1>7. ASSUME StoreSetpoint PROVE Closing'
  BY <1>7 DEF StoreSetpoint, NewSetpoint, Holds, Turn, Away, UnchangedByCommand, Typed,
     Commands, Closing, Untouched, Locked, Free, Commander, Main
<1>8. ASSUME BeginRamp PROVE Closing'
  BY <1>8 DEF BeginRamp, UnchangedByCommand, Typed, Commands, Closing, Untouched,
     Locked, Free, Commander, Main
<1>9. ASSUME AssignThread PROVE Closing'
  BY <1>9 DEF AssignThread, UnchangedByCommand, Typed, Commands, Closing, Untouched,
     Locked, Free, Commander, Main
<1>10. ASSUME StartThread PROVE Closing'
  BY <1>10 DEF StartThread, Turn, Away, UnchangedByCommand, Typed, Commands, Closing,
     Untouched, Locked, Free, Commander, Main
<1>11. ASSUME ReadOutput PROVE Closing'
  BY <1>11 DEF ReadOutput, Turn, Away, UnchangedByCommand, Typed, Commands, Closing,
     Untouched, Locked, Free, Commander, Main
<1>12. ASSUME ToggleOutput PROVE Closing'
  BY <1>12 DEF ToggleOutput, UnchangedByCommand, Typed, Boxes, Commands, Closing,
     Untouched, Locked, Free, Commander, Main
<1>13. ASSUME ConfirmOutput PROVE Closing'
  BY <1>13 DEF ConfirmOutput, Turn, Away, UnchangedByCommand, Typed, Commands, Closing,
     Untouched, Locked, Free, Commander, Main
<1>14. ASSUME NEW r \in Sweeps, WalkSend(r) PROVE Closing'
  BY <1>14 DEF WalkSend, Refused, LoseReply, UnchangedByWalk, Typed, Boxes, Budgets,
     Closing, Untouched, Locked, Free, Commander, Main
<1>15. ASSUME PollFails PROVE Closing'
  BY <1>15 DEF PollFails, LoseReply, Asleep, UnchangedByPoll, Typed, Budgets, Closing,
     Untouched, Locked, Free, Commander, Main
<1>16. ASSUME Interrupt PROVE Closing'
  BY <1>16 DEF Interrupt, UnchangedByMain, Typed, Services, Closing, Untouched, Locked,
     Free, Commander, Main
<1>17. ASSUME ShutDown PROVE Closing'
  BY <1>17 DEF ShutDown, UnchangedByMain, Typed, Services, Mains, Closing, Untouched,
     Locked, Free, Commander, Main
<1>18. ASSUME StopRampAtEnd PROVE Closing'
  BY <1>18 DEF StopRampAtEnd, Halted, UnchangedByMain, Typed, Mains, Closing, Untouched,
     Locked, Free, Commander, Main
<1>19. ASSUME JoinRampAtEnd PROVE Closing'
  BY <1>19 DEF JoinRampAtEnd, Ended, Outlasts, UnchangedByMain, Typed, Mains, Closing,
     Untouched, Locked, Free, Commander, Main
<1>20. ASSUME JoinPoll PROVE Closing'
  BY <1>20 DEF JoinPoll, UnchangedByMain, Typed, Mains, Closing, Untouched, Locked,
     Free, Commander, Main
<1>21. ASSUME SwitchOff PROVE Closing'
  <2>1. /\ main.pc = "off" /\ hw = Free
        /\ UNCHANGED <<box, connected, service, cmd, left>>
    BY <1>21 DEF SwitchOff, UnchangedByMain
  <2>2. cmd.pc # "toggle"
    BY <2>1 DEF Locked, Free, Commander
  <2>3. \/ main'.pc = "toggle" /\ open' = open /\ box.on
        \/ /\ main'.pc = "disconnect" /\ open' = FALSE
           /\ ~(connected /\ DisableOnShutdown /\ ~service.keep /\ box.on)
    BY <1>21 DEF SwitchOff, Typed, Mains
  <2> QED BY <2>1, <2>2, <2>3 DEF Closing, Untouched, Typed
<1>22. ASSUME ToggleAtEnd PROVE Closing'
  BY <1>22 DEF ToggleAtEnd, UnchangedByMain, Typed, Boxes, Mains, Closing, Untouched,
     Locked, Free, Commander, Main
<1>23. ASSUME Close PROVE Closing'
  BY <1>23 DEF Close, UnchangedByMain, Typed, Mains, Closing, Untouched, Locked, Free,
     Commander, Main
<1>24. ASSUME Disconnect PROVE Closing'
  BY <1>24 DEF Disconnect, UnchangedByMain, Typed, Mains, Closing, Untouched, Locked,
     Free, Commander, Main
<1>25. ASSUME TurnKnob PROVE Closing'
  BY <1>25 DEF TurnKnob, LoseReply, UnchangedByPanel, Typed, Budgets, Boxes, Closing,
     Untouched, Locked, Free, Commander, Main
<1>26. CASE UNCHANGED <<main, service, cmd, connected, open, box, left>>
  BY <1>26 DEF Closing, Untouched, Locked, Free, Commander, Main
<1>27. (\E r \in Sweeps : WalkStep(r)) \/ (\E r \in Sweeps : WalkStore(r)) \/ (\E r \in
   Sweeps : WalkEnd(r)) \/ PollBegin \/ PollLeaves \/ PollTemperature \/ PollRest \/
   PollStore \/ UNCHANGED vars => UNCHANGED <<main, service, cmd, connected, open, box,
   left>>
  BY DEF vars, WalkStep, WalkStore, WalkEnd, PollBegin, PollLeaves, PollTemperature,
     PollRest, PollStore, UnchangedByPoll, UnchangedByWalk
<1>28. ASSUME OutputFails PROVE Closing'
  BY <1>28, OutputFailsDoes DEF Closing, Untouched, Locked, Free, Commander, Main
<1>29. ASSUME SwitchOffFails PROVE Closing'
  BY <1>29, SwitchOffFailsDoes DEF Closing, Untouched, Locked, Free, Commander, Main
<1>30. AnyStep
  BY StepOf
<1> QED BY <1>1, <1>2, <1>3, <1>4, <1>5, <1>6, <1>7, <1>8, <1>9, <1>10, <1>11, <1>12,
   <1>13, <1>14, <1>15, <1>16, <1>17, <1>18, <1>19, <1>20, <1>21, <1>22, <1>23, <1>24,
   <1>25, <1>26, <1>27, <1>28, <1>29, <1>30 DEF AnyStep, PollStep, MainStep

-----------------------------------------------------------------------------
(* The inductive invariant and what follows from it *)

IInv ==
  /\ Typed /\ Room /\ Numbered /\ Asked /\ Alone /\ Locked /\ Shown /\ TakenOver /\ Closing

\* The service starts with the state of the box, no request and no sweep.
LEMMA InitIInv == Init => IInv
<1> SUFFICES ASSUME Init PROVE IInv
  OBVIOUS
<1>1. Typed
  <2>1. box \in Boxes /\ ours \in Memories
    BY Zeros DEF Init, Boxes, Memories
  <2>2. ramp \in Ramps /\ halted \in SUBSET Sweeps /\ walks \in [Sweeps -> WalkRecords]
    BY Zeros, Constants DEF Init, Ramps
  <2>3. main \in Mains /\ service \in Services /\ left \in Budgets
    BY Zeros DEF Init, Mains, Services, Budgets
  <2> QED BY <2>1, <2>2, <2>3, Constants DEF Init, Typed
<1>2. Room
  BY HeaterAssumption DEF Init, Room, Promised, Away
<1>3. Numbered /\ Asked
  BY DEF Init, Numbered, Asked, Away, NotStarted, Sweeps
<1>4. Alone /\ TakenOver
  BY DEF Init, Alone, Over, TakenOver, NotStarted, Away, Sweeps
<1>5. Locked
  BY DEF Init, Locked, Away, Asleep, NotStarted, Free, Commander, Poller, Main, Sweeps
<1>6. Shown /\ Closing
  BY DEF Init, Shown, Closing, Untouched, Away, Asleep, NotStarted
<1> QED BY <1>1, <1>2, <1>3, <1>4, <1>5, <1>6 DEF IInv

\* Every step keeps every part.
LEMMA StepIInv == IInv /\ [Next]_vars => IInv'
  BY StepTyped, StepRoom, StepNumbered, StepAsked, StepAlone, StepLocked, StepShown,
     StepTaken, StepClosing DEF IInv

\* The invariant holds in every reachable state.
LEMMA Invariant == Spec => []IInv
  BY InitIInv, StepIInv, PTL DEF Spec

\* Every variable stays in its range, for any number of requests: the numbers of
\* the sweeps, counted by SoftRamp.start, included.
THEOREM HeaterTypeCorrect == Spec => []TypeOK
<1>1. IInv => TypeOK
  BY TypedIsTypeOK DEF IInv
<1> QED BY <1>1, Invariant, PTL

\* "ramp_id >= mine and not ramping = my sweep is over", unless a join gave up
\* (softramp.py start, stop and _walk).
THEOREM EndedSweepsAreOver == Spec => []SweepIsOver
<1>1. IInv => SweepIsOver
  <2> SUFFICES ASSUME IInv, ~ramp.running, ~gaveUp, NEW r \in 1 .. ramp.id
               PROVE  walks[r].pc = "dead"
    BY DEF SweepIsOver
  <2>1. ramp.id \in 0 .. MaxCommands
    BY DEF IInv, Typed, Ramps
  <2>2. r \in Sweeps /\ r <= ramp.id
    BY <2>1, HeaterAssumption DEF Sweeps
  <2>3. walks[r].pc # "none"
    BY <2>1, <2>2 DEF IInv, Numbered, Sweeps
  <2> QED BY <2>2, <2>3 DEF IInv, Alone, Over
<1> QED BY <1>1, Invariant, PTL

\* A set or a stop that has been answered has the setpoint for itself
\* (heater.py set_temperature and ramp_stop, which join the sweep's thread first).
THEOREM SetsTakeOver == Spec => []TakenOver
<1>1. IInv => TakenOver
  BY DEF IInv
<1> QED BY <1>1, Invariant, PTL

\* The setpoint of the status is the box's, unless somebody changed it behind our
\* back (heater.py poll_once and the command generation).
THEOREM StatusShowsTheSetpoint == Spec => []SetpointShown
<1>1. IInv => SetpointShown
  <2> SUFFICES ASSUME IInv, hw = Free, open, ~strange PROVE ours.sp = box.sp
    BY DEF SetpointShown
  <2>1. ~Writing
    BY DEF IInv, Locked, Writing, Free, Commander, Sweeps
  <2> QED BY <2>1 DEF IInv, Shown
<1> QED BY <1>1, Invariant, PTL

\* A shutdown that ran to its end leaves the heater off (heater.py shutdown).
THEOREM ShutdownLeavesItOff == Spec => []OffAtTheEnd
<1>1. IInv => OffAtTheEnd
  BY DEF IInv, Closing, Untouched, OffAtTheEnd
<1> QED BY <1>1, Invariant, PTL

\* Nobody waits for another thread with _hw in hand, so that a join and the step
\* it waits for never wait for each other (softramp.py stop, heater.py shutdown).
THEOREM NoWaitingWithTheLock == Spec => []HolderNeverWaits
<1>1. IInv => HolderNeverWaits
  BY DEF IInv, Locked, HolderNeverWaits
<1> QED BY <1>1, Invariant, PTL

\* What ReachedIsThisOne says of one step.
Reaches ==
  ours'.band = "stable" /\ (ours.band # "stable" \/ ours'.sp # ours.sp) =>
    /\ ours'.sp = ours.sp /\ ours.band = "since"
    /\ poll.temp = ours.sp /\ poll.sp = ours.sp /\ ~bumped

\* What NothingAfterClose says of one step.
Leaves == ~open /\ left'.surprises = left.surprises => box'.sp = box.sp /\ box'.on = box.on

\* "Reached" appears for the setpoint it is shown with, from two readings of the
\* box at that setpoint, the second one taken after it (heater.py poll_once).
THEOREM ReachedForThisSetpoint == Spec => ReachedIsThisOne
<1>1. ASSUME IInv, [Next]_vars PROVE Reaches
  <2>1. ASSUME StoreSetpoint PROVE Reaches
    BY <1>1, <2>1 DEF IInv, StoreSetpoint, NewSetpoint, Holds, Turn, Away,
       UnchangedByCommand, Typed, Memories, Reaches
  <2>2. ASSUME ReadOutput PROVE Reaches
    BY <1>1, <2>2 DEF IInv, ReadOutput, Turn, Away, UnchangedByCommand, Typed, Memories,
       Reaches
  <2>3. ASSUME ConfirmOutput PROVE Reaches
    BY <1>1, <2>3 DEF IInv, ConfirmOutput, Turn, Away, UnchangedByCommand, Typed,
       Memories, Reaches
  <2>4. ASSUME NEW r \in Sweeps, WalkStore(r) PROVE Reaches
    BY <1>1, <2>4 DEF IInv, WalkStore, NewSetpoint, UnchangedByWalk, Typed, Memories,
       Reaches
  <2>5. ASSUME PollTemperature PROVE Reaches
    BY <1>1, <2>5 DEF IInv, PollTemperature, Asleep, UnchangedByPoll, Typed, Memories,
       Reaches
  <2>6. ASSUME PollFails PROVE Reaches
    BY <1>1, <2>6 DEF IInv, PollFails, LoseReply, Asleep, UnchangedByPoll, Typed,
       Memories, Reaches
  <2>7. ASSUME PollStore PROVE Reaches
    BY <1>1, <2>7 DEF IInv, PollStore, Judge, InBand, Asleep, UnchangedByPoll, Typed,
       Memories, Reaches
  <2>8. ASSUME SwitchOff PROVE Reaches
    BY <1>1, <2>8 DEF IInv, SwitchOff, UnchangedByMain, Typed, Memories, Reaches
  <2>9. ASSUME Close PROVE Reaches
    BY <1>1, <2>9 DEF IInv, Close, UnchangedByMain, Typed, Memories, Reaches
  <2>10. ASSUME UNCHANGED <<ours>> PROVE Reaches
    BY SMTT(60), <2>10 DEF Reaches
  <2>11. (\E verb \in Verbs, v \in Levels : Receive(verb, v)) \/ CommanderLeaves \/
     StopRamp \/ JoinRamp \/ GiveUpJoin \/ SendSetpoint \/ BeginRamp \/ AssignThread \/
     StartThread \/ ToggleOutput \/ (\E r \in Sweeps : WalkStep(r)) \/ (\E r \in Sweeps :
     WalkSend(r)) \/ (\E r \in Sweeps : WalkEnd(r)) \/ PollBegin \/ PollLeaves \/ PollRest
     \/ Interrupt \/ ShutDown \/ StopRampAtEnd \/ JoinRampAtEnd \/ JoinPoll \/ ToggleAtEnd
     \/ Disconnect \/ TurnKnob \/ UNCHANGED vars => UNCHANGED <<ours>>
    BY DEF vars, Receive, CommanderLeaves, StopRamp, JoinRamp, GiveUpJoin, SendSetpoint,
       BeginRamp, AssignThread, StartThread, ToggleOutput, WalkStep, WalkSend, WalkEnd,
       PollBegin, PollLeaves, PollRest, Interrupt, ShutDown, StopRampAtEnd,
       JoinRampAtEnd, JoinPoll, ToggleAtEnd, Disconnect, TurnKnob, UnchangedByCommand,
       UnchangedByMain, UnchangedByPanel, UnchangedByPoll, UnchangedByWalk
  <2>12. ASSUME OutputFails PROVE Reaches
    BY <1>1, <2>12, OutputFailsDoes DEF IInv, Reaches
  <2>13. ASSUME SwitchOffFails PROVE Reaches
    BY <1>1, <2>13, SwitchOffFailsDoes DEF IInv, Reaches
  <2>14. AnyStep
    BY <1>1, StepOf
  <2> QED BY <2>1, <2>2, <2>3, <2>4, <2>5, <2>6, <2>7, <2>8, <2>9, <2>10, <2>11, <2>12, <2>13, <2>14 DEF
     AnyStep, PollStep, MainStep
<1>2. IInv /\ [Next]_vars => [Reaches]_vars
  BY <1>1
<1>3. [][Reaches]_vars => ReachedIsThisOne
  BY PTL DEF ReachedIsThisOne, Reaches
<1> QED BY <1>2, <1>3, Invariant, PTL DEF Spec

\* Nothing of the service changes the box once the port is closed.
THEOREM ClosedForGood == Spec => NothingAfterClose
<1>1. ASSUME IInv, [Next]_vars PROVE Leaves
  <2>1. ASSUME SendSetpoint PROVE Leaves
    BY <1>1, <2>1 DEF SendSetpoint, Refused, Leaves
  <2>2. ASSUME ToggleOutput PROVE Leaves
    BY <1>1, <2>2 DEF IInv, ToggleOutput, Closing, Leaves
  <2>3. ASSUME NEW r \in Sweeps, WalkSend(r) PROVE Leaves
    BY <1>1, <2>3 DEF WalkSend, Refused, Leaves
  <2>4. ASSUME ToggleAtEnd PROVE Leaves
    BY <1>1, <2>4 DEF IInv, ToggleAtEnd, Closing, Leaves
  <2>5. ASSUME TurnKnob PROVE Leaves
    BY <1>1, <2>5 DEF IInv, TurnKnob, LoseReply, Typed, Budgets, Leaves
  <2>6. ASSUME UNCHANGED <<box>> PROVE Leaves
    BY SMTT(60), <2>6 DEF Leaves
  <2>7. (\E verb \in Verbs, v \in Levels : Receive(verb, v)) \/ CommanderLeaves \/
     StopRamp \/ JoinRamp \/ GiveUpJoin \/ StoreSetpoint \/ BeginRamp \/ AssignThread \/
     StartThread \/ ReadOutput \/ ConfirmOutput \/ (\E r \in Sweeps : WalkStep(r)) \/ (\E
     r \in Sweeps : WalkStore(r)) \/ (\E r \in Sweeps : WalkEnd(r)) \/ PollBegin \/
     PollLeaves \/ PollTemperature \/ PollRest \/ PollFails \/ PollStore \/ Interrupt \/
     ShutDown \/ StopRampAtEnd \/ JoinRampAtEnd \/ JoinPoll \/ SwitchOff \/ Close \/
     Disconnect \/ UNCHANGED vars => UNCHANGED <<box>>
    BY DEF vars, Receive, CommanderLeaves, StopRamp, JoinRamp, GiveUpJoin,
       StoreSetpoint, BeginRamp, AssignThread, StartThread, ReadOutput, ConfirmOutput,
       WalkStep, WalkStore, WalkEnd, PollBegin, PollLeaves, PollTemperature, PollRest,
       PollFails, PollStore, Interrupt, ShutDown, StopRampAtEnd, JoinRampAtEnd,
       JoinPoll, SwitchOff, Close, Disconnect, UnchangedByCommand, UnchangedByMain,
       UnchangedByPoll, UnchangedByWalk
  <2>8. ASSUME OutputFails PROVE Leaves
    BY <1>1, <2>8, OutputFailsDoes DEF IInv, Typed, Budgets, Leaves
  <2>9. ASSUME SwitchOffFails PROVE Leaves
    BY <1>1, <2>9, SwitchOffFailsDoes DEF IInv, Typed, Budgets, Leaves
  <2>10. AnyStep
    BY <1>1, StepOf
  <2> QED BY <2>1, <2>2, <2>3, <2>4, <2>5, <2>6, <2>7, <2>8, <2>9, <2>10 DEF AnyStep, PollStep,
     MainStep
<1>2. IInv /\ [Next]_vars => [Leaves]_vars
  BY <1>1
<1>3. [][Leaves]_vars => NothingAfterClose
  BY PTL DEF NothingAfterClose, Leaves
<1> QED BY <1>2, <1>3, Invariant, PTL DEF Spec

=============================================================================
