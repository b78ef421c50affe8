-------------------------------- MODULE Heater --------------------------------
(***************************************************************************)
(* A service that walks its instrument: the TC200 temperature controller,  *)
(* modules/environment/tc200-control (heater.py, net/service.py), and the  *)
(* software ramp every such service has a copy of (softramp.py).           *)
(*                                                                         *)
(* Five kinds of thread share the box: the commander answers one request   *)
(* at a time, the poll thread reads the box, every sweep has a thread of   *)
(* its own (its "walk", numbered by its ramp id), the main thread shuts    *)
(* the service down, and people turn the knobs of the box itself.  hw is   *)
(* the lock _hw, held from one step to the next only where it is named;    *)
(* what the locks _lock guard is one step.                                 *)
(*                                                                         *)
(* Temperatures and setpoints are levels; a reading of the temperature may *)
(* be any of them.  Left out: the PID gains, PMAX, TMAX, the sensor        *)
(* setting and the alarms, clamping, the stream's records, events, and     *)
(* what a sweep leaves in ramp_error.                                      *)
(***************************************************************************)
EXTENDS Integers, FiniteSets

CONSTANTS
  Top,                \* the highest temperature level; 0 is the one at the start
  Targets,            \* the setpoints people ask for
  DisableOnShutdown,  \* hardware.disable_on_shutdown
  MaxCommands,        \* how many requests arrive
  MaxSurprises        \* how often a knob is turned or a reply is lost

ASSUME HeaterAssumption ==
  /\ Top \in Nat /\ Targets \subseteq 0 .. Top /\ DisableOnShutdown \in BOOLEAN
  /\ MaxCommands \in Nat /\ MaxSurprises \in Nat

Levels == 0 .. Top
Sweeps == 1 .. MaxCommands

\* Who can hold _hw, next to the sweeps, which are positive numbers.
Free == 0
Commander == -1
Poller == -2
Main == -3

VARIABLES
  box,        \* the instrument: setpoint, output, CYCLE mode
  open,       \* the port is open
  hw,         \* who holds _hw
  ours,       \* what _lock guards: _sp, _enabled, _cycle, the state of _band
  bumped,     \* _gen has grown since the poll thread read it
  connected,  \* _connected
  ramp,       \* SoftRamp: _ramp_id, _running, _thread, and whose event _halt is
  halted,     \* the sweeps whose halt event is set
  walks,      \* the sweeps' threads
  cmd,        \* the commander: where it is, its verb and argument, whom it joins
  poll,       \* the poll thread: where it is and what it has read
  main,       \* the main thread: where it is, whom it joins
  service,    \* the service: _stop, _keep_outputs, and the brain's own _stop
  left,       \* what is left of the bounds
  strange,    \* history: the box's setpoint was changed behind our back
  held,       \* history: the setpoint the last set or stop left the box at
  gaveUp      \* history: a join gave up, or one of a thread not started raised

vars == <<box, open, hw, ours, bumped, connected, ramp, halted, walks, cmd, poll, main,
          service, left, strange, held, gaveUp>>

Unknown == -1
Verbs == {"set", "ramp", "stop", "on", "off", "shutdown"}
Away == [pc |-> "recv", verb |-> "off", value |-> 0, join |-> 0]
Asleep == [pc |-> "loop", full |-> TRUE, temp |-> 0, on |-> FALSE, cycle |-> FALSE,
            sp |-> 0]
NotStarted == [pc |-> "none", at |-> 0, to |-> 0]

TypeOK ==
  /\ box \in [sp : Levels, on : BOOLEAN, cycle : BOOLEAN]
  /\ open \in BOOLEAN /\ connected \in BOOLEAN /\ bumped \in BOOLEAN
  /\ hw \in {Free, Commander, Poller, Main} \cup Sweeps
  /\ ours \in [sp : Levels, on : BOOLEAN, cycle : BOOLEAN,
               band : {"no", "since", "stable"}]
  /\ ramp \in [id : 0 .. MaxCommands, running : BOOLEAN,
               thread : 0 .. MaxCommands, halt : 0 .. MaxCommands]
  /\ halted \subseteq Sweeps
  /\ walks \in [Sweeps -> [pc : {"none", "made", "walk", "want", "sent", "end", "dead"},
                           at : Levels, to : Levels]]
  /\ cmd \in [pc : {"recv", "stop", "join", "send", "store", "begin", "assign", "go",
                    "output", "toggle", "confirm", "gone"},
              verb : Verbs, value : Levels, join : 0 .. MaxCommands]
  /\ poll \in [pc : {"loop", "temp", "rest", "store", "gone"}, full : BOOLEAN,
               temp : Levels, on : BOOLEAN, cycle : BOOLEAN, sp : Levels]
  /\ main \in [pc : {"serve", "stop", "join", "poll", "off", "toggle", "close",
                     "disconnect", "over", "raised"}, join : 0 .. MaxCommands]
  /\ service \in [stop : BOOLEAN, keep : BOOLEAN, polling : BOOLEAN]
  /\ left \in [commands : 0 .. MaxCommands, surprises : 0 .. MaxSurprises]
  /\ strange \in BOOLEAN /\ gaveUp \in BOOLEAN
  /\ held \in Levels \cup {Unknown}

\* The service has adopted the state the box was in (heater.start).
Init ==
  /\ box \in [sp : {0}, on : BOOLEAN, cycle : {FALSE}]
  /\ open = TRUE /\ connected = TRUE /\ hw = Free
  /\ ours = [sp |-> 0, on |-> box.on, cycle |-> FALSE, band |-> "no"]
  /\ bumped = FALSE
  /\ ramp = [id |-> 0, running |-> FALSE, thread |-> 0, halt |-> 0]
  /\ halted = {}
  /\ walks = [r \in Sweeps |-> NotStarted]
  /\ cmd = Away
  /\ poll = Asleep
  /\ main = [pc |-> "serve", join |-> 0]
  /\ service = [stop |-> FALSE, keep |-> FALSE, polling |-> TRUE]
  /\ left = [commands |-> MaxCommands, surprises |-> MaxSurprises]
  /\ strange = FALSE /\ held = Unknown /\ gaveUp = FALSE

---------------------------------------------------------------------------
(* What the threads share.                                                 *)

\* Wrong: what main has closed is not noticed before the flag is cleared.
RefusedByFlag == ~connected \/ ours.cycle

\* A write is refused when we are not connected (_require_connected), in CYCLE
\* mode, and by a serial port that is closed (the simulated box refuses nothing).
Refused == ~connected \/ ours.cycle \/ ~open

\* Wrong: the flag "reached" outlives the setpoint.
NewSetpointFlagLeft(v) ==
  /\ ours' = [ours EXCEPT !.sp = v]
  /\ bumped' = TRUE

\* A new setpoint is stored together with what it makes obsolete: the flag
\* "reached", and the readings the poll thread is in the middle of.
NewSetpoint(v) ==
  /\ ours' = [ours EXCEPT !.sp = v, !.band = "no"]
  /\ bumped' = TRUE

\* SoftRamp.stop tells the newest walk to end, and waits for it to have done so.
Halted == halted \cup ({ramp.halt} \ {0})

\* Wrong: stop() does not wait for the walk.
EndedAtOnce(r) == TRUE

Ended(r) == r \in Sweeps => walks[r].pc = "dead"

\* The wait ends after 5 s, which only a step that waits for the box outlasts.
Outlasts(r) == r \in Sweeps /\ walks[r].pc \in {"want", "sent"}

\* What is known of the box's setpoint once a set or a stop has been answered.
Holds(v) == IF gaveUp THEN Unknown ELSE v

LoseReply ==
  /\ left.surprises > 0
  /\ left' = [left EXCEPT !.surprises = @ - 1]

---------------------------------------------------------------------------
(* The commander.                                                          *)

Turn == [Away EXCEPT !.pc = IF service.stop THEN "gone" ELSE "recv"]

UnchangedByCommand ==
  UNCHANGED <<open, connected, poll, main>>

\* A request may still be received up to 200 ms after the stop flag is set.
Receive(verb, v) ==
  /\ cmd.pc = "recv" /\ left.commands > 0
  /\ left' = [left EXCEPT !.commands = @ - 1]
  /\ \/ /\ verb \in {"set", "stop"}
        /\ cmd' = [Away EXCEPT !.pc = "stop", !.verb = verb, !.value = v]
        /\ UNCHANGED service
     \/ /\ verb = "ramp"
        /\ cmd' = IF ~connected \/ ours.cycle THEN Turn
                  ELSE [Away EXCEPT !.pc = "stop", !.verb = verb, !.value = v]
        /\ UNCHANGED service
     \/ /\ verb \in {"on", "off"}
        /\ cmd' = [Away EXCEPT !.pc = "output", !.verb = verb]
        /\ UNCHANGED service
     \/ /\ verb = "shutdown"
        /\ \E keep \in BOOLEAN : service' = [service EXCEPT !.stop = TRUE, !.keep = keep]
        /\ cmd' = [Away EXCEPT !.pc = "gone"]
  /\ held' = IF verb \in {"set", "ramp"} THEN Unknown ELSE held
  /\ UNCHANGED <<box, hw, ours, bumped, ramp, halted, walks, strange, gaveUp>>
  /\ UnchangedByCommand

CommanderLeaves ==
  /\ cmd.pc = "recv" /\ service.stop
  /\ cmd' = [Away EXCEPT !.pc = "gone"]
  /\ UNCHANGED <<box, hw, ours, bumped, ramp, halted, walks, service, left, strange, held,
                 gaveUp>>
  /\ UnchangedByCommand

\* Wrong: a set leaves the sweep running.
StopRampUnlessSet ==
  /\ cmd.pc = "stop"
  /\ halted' = IF cmd.verb = "set" THEN halted ELSE Halted
  /\ cmd' = IF cmd.verb = "set" THEN [cmd EXCEPT !.pc = "send"]
            ELSE [cmd EXCEPT !.pc = "join", !.join = ramp.thread]
  /\ UNCHANGED <<box, hw, ours, bumped, ramp, walks, service, left, strange, held, gaveUp>>
  /\ UnchangedByCommand

StopRamp ==
  /\ cmd.pc = "stop"
  /\ halted' = Halted
  /\ cmd' = [cmd EXCEPT !.pc = "join", !.join = ramp.thread]
  /\ UNCHANGED <<box, hw, ours, bumped, ramp, walks, service, left, strange, held, gaveUp>>
  /\ UnchangedByCommand

AfterJoin(waited) ==
  /\ cmd' = CASE cmd.verb = "set" -> [cmd EXCEPT !.pc = "send", !.join = 0]
              [] cmd.verb = "ramp" -> [cmd EXCEPT !.pc = "begin", !.join = 0]
              [] OTHER -> Turn
  /\ gaveUp' = (gaveUp \/ ~waited)
  /\ held' = IF cmd.verb = "stop" /\ waited THEN Holds(box.sp) ELSE held

JoinRamp ==
  /\ cmd.pc = "join" /\ Ended(cmd.join)
  /\ AfterJoin(TRUE)
  /\ UNCHANGED <<box, hw, ours, bumped, ramp, halted, walks, service, left, strange>>
  /\ UnchangedByCommand

GiveUpJoin ==
  /\ cmd.pc = "join" /\ Outlasts(cmd.join)
  /\ AfterJoin(FALSE)
  /\ UNCHANGED <<box, hw, ours, bumped, ramp, halted, walks, service, left, strange>>
  /\ UnchangedByCommand

\* set_temperature under _hw: the box first, then what we know of it.  When the
\* reply is lost the box has the setpoint and we do not know.
SendSetpoint ==
  /\ cmd.pc = "send" /\ hw = Free
  /\ \/ /\ Refused
        /\ cmd' = Turn
        /\ UNCHANGED <<box, hw, left, strange>>
     \/ /\ ~Refused
        /\ box' = [box EXCEPT !.sp = cmd.value]
        /\ \/ /\ hw' = Commander /\ cmd' = [cmd EXCEPT !.pc = "store"]
              /\ UNCHANGED <<left, strange>>
           \/ /\ LoseReply /\ strange' = TRUE
              /\ cmd' = Turn /\ UNCHANGED hw
  /\ UNCHANGED <<ours, bumped, ramp, halted, walks, service, held, gaveUp>>
  /\ UnchangedByCommand

StoreSetpoint ==
  /\ cmd.pc = "store"
  /\ NewSetpoint(cmd.value)
  /\ hw' = Free /\ strange' = (box.sp # cmd.value)
  /\ held' = Holds(box.sp)
  /\ cmd' = Turn
  /\ UNCHANGED <<box, ramp, halted, walks, service, left, gaveUp>>
  /\ UnchangedByCommand

\* SoftRamp.start after its stop(): a new number and a new halt event, from
\* where the setpoint is; then the thread is known; then it is started.
BeginRamp ==
  /\ cmd.pc = "begin"
  /\ LET r == ramp.id + 1
     IN /\ ramp' = [ramp EXCEPT !.id = r, !.running = TRUE, !.halt = r]
        /\ walks' = [walks EXCEPT ![r] = [pc |-> "made", at |-> ours.sp, to |-> cmd.value]]
  /\ cmd' = [cmd EXCEPT !.pc = "assign"]
  /\ UNCHANGED <<box, hw, ours, bumped, halted, service, left, strange, held, gaveUp>>
  /\ UnchangedByCommand

AssignThread ==
  /\ cmd.pc = "assign"
  /\ ramp' = [ramp EXCEPT !.thread = ramp.id]
  /\ cmd' = [cmd EXCEPT !.pc = "go"]
  /\ UNCHANGED <<box, hw, ours, bumped, halted, walks, service, left, strange, held, gaveUp>>
  /\ UnchangedByCommand

StartThread ==
  /\ cmd.pc = "go"
  /\ walks' = [walks EXCEPT ![ramp.id].pc = "walk"]
  /\ cmd' = Turn
  /\ UNCHANGED <<box, hw, ours, bumped, ramp, halted, service, left, strange, held, gaveUp>>
  /\ UnchangedByCommand

\* _set_output: the box only knows "toggle", so it is read, toggled when it is
\* not already right, and read again, under _hw; CYCLE mode forbids switching on.
ReadOutput ==
  /\ cmd.pc = "output" /\ hw = Free
  /\ LET on == cmd.verb = "on"
     IN \/ /\ ~connected \/ ~open \/ (on /\ box.cycle)
           /\ cmd' = Turn
           /\ UNCHANGED <<hw, ours>>
        \/ /\ connected /\ open /\ ~(on /\ box.cycle) /\ box.on = on
           /\ ours' = [ours EXCEPT !.on = on]
           /\ cmd' = Turn
           /\ UNCHANGED hw
        \/ /\ connected /\ open /\ ~(on /\ box.cycle) /\ box.on # on
           /\ hw' = Commander
           /\ cmd' = [cmd EXCEPT !.pc = "toggle"]
           /\ UNCHANGED ours
  /\ UNCHANGED <<box, bumped, ramp, halted, walks, service, left, strange, held, gaveUp>>
  /\ UnchangedByCommand

ToggleOutput ==
  /\ cmd.pc = "toggle"
  /\ box' = [box EXCEPT !.on = ~@]
  /\ cmd' = [cmd EXCEPT !.pc = "confirm"]
  /\ UNCHANGED <<hw, ours, bumped, ramp, halted, walks, service, left, strange, held, gaveUp>>
  /\ UnchangedByCommand

ConfirmOutput ==
  /\ cmd.pc = "confirm"
  /\ ours' = [ours EXCEPT !.on = box.on, !.band = "no"]
  /\ hw' = Free
  /\ cmd' = Turn
  /\ UNCHANGED <<box, bumped, ramp, halted, walks, service, left, strange, held, gaveUp>>
  /\ UnchangedByCommand

\* A reply is lost on the way.  Whether the toggle reached the box or not, the
\* request is answered with the error and nothing is remembered.
OutputFails ==
  /\ \/ cmd.pc = "output" /\ hw = Free /\ connected /\ open
     \/ cmd.pc \in {"toggle", "confirm"}
  /\ LoseReply
  /\ \/ UNCHANGED box
     \/ cmd.pc = "toggle" /\ box' = [box EXCEPT !.on = ~@]
  /\ hw' = Free
  /\ cmd' = Turn
  /\ UNCHANGED <<ours, bumped, ramp, halted, walks, service, strange, held, gaveUp>>
  /\ UnchangedByCommand

---------------------------------------------------------------------------
(* A sweep's thread.                                                       *)

UnchangedByWalk ==
  UNCHANGED <<open, connected, halted, cmd, poll, main, service, held, gaveUp>>

\* The levels from a to b: how far the walk is by the time it comes to send.
Between(a, b) == IF a <= b THEN a .. b ELSE b .. a

\* The value that is due.  It is not sent when the setpoint has it already.
WalkStep(r) ==
  /\ walks[r].pc = "walk"
  /\ \/ /\ r \in halted
        /\ walks' = [walks EXCEPT ![r].pc = "end"]
     \/ /\ r \notin halted
        /\ \E v \in Between(walks[r].at, walks[r].to) :
             walks' = [walks EXCEPT ![r].at = v,
                                    ![r].pc = IF v # ours.sp THEN "want"
                                              ELSE IF v = walks[r].to THEN "end"
                                              ELSE "walk"]
  /\ UNCHANGED <<box, hw, ours, bumped, ramp, left, strange>>
  /\ UnchangedByWalk

WalkSend(r) ==
  /\ walks[r].pc = "want" /\ hw = Free
  /\ \/ /\ Refused
        /\ walks' = [walks EXCEPT ![r].pc = "end"]
        /\ UNCHANGED <<box, hw, left, strange>>
     \/ /\ ~Refused
        /\ box' = [box EXCEPT !.sp = walks[r].at]
        /\ \/ /\ hw' = r /\ walks' = [walks EXCEPT ![r].pc = "sent"]
              /\ UNCHANGED <<left, strange>>
           \/ /\ LoseReply /\ strange' = TRUE
              /\ walks' = [walks EXCEPT ![r].pc = "end"]
              /\ UNCHANGED hw
  /\ UNCHANGED <<ours, bumped, ramp>>
  /\ UnchangedByWalk

WalkStore(r) ==
  /\ walks[r].pc = "sent"
  /\ NewSetpoint(walks[r].at)
  /\ hw' = Free /\ strange' = (box.sp # walks[r].at)
  /\ walks' = [walks EXCEPT ![r].pc = IF walks[r].at = walks[r].to THEN "end" ELSE "walk"]
  /\ UNCHANGED <<box, ramp, left>>
  /\ UnchangedByWalk

WalkEnd(r) ==
  /\ walks[r].pc = "end"
  /\ ramp' = IF ramp.id = r THEN [ramp EXCEPT !.running = FALSE] ELSE ramp
  /\ walks' = [walks EXCEPT ![r] = [NotStarted EXCEPT !.pc = "dead"]]
  /\ UNCHANGED <<box, hw, ours, bumped, left, strange>>
  /\ UnchangedByWalk

---------------------------------------------------------------------------
(* The poll thread.                                                        *)

UnchangedByPoll ==
  UNCHANGED <<box, open, connected, ramp, halted, walks, cmd, main, service, held, gaveUp>>

\* During a sweep most polls are fast: the temperature only.
PollBegin ==
  /\ poll.pc = "loop" /\ service.polling
  /\ \E full \in (IF ramp.running THEN BOOLEAN ELSE {TRUE}) :
       poll' = [poll EXCEPT !.pc = "temp", !.full = full]
  /\ bumped' = FALSE
  /\ UNCHANGED <<hw, ours, left, strange>>
  /\ UnchangedByPoll

PollLeaves ==
  /\ poll.pc = "loop" /\ ~service.polling
  /\ poll' = [Asleep EXCEPT !.pc = "gone"]
  /\ UNCHANGED <<hw, ours, bumped, left, strange>>
  /\ UnchangedByPoll

PollTemperature ==
  /\ poll.pc = "temp" /\ hw = Free
  /\ \/ /\ ~open
        /\ ours' = [ours EXCEPT !.band = "no"]
        /\ poll' = Asleep
        /\ UNCHANGED hw
     \/ /\ open /\ ~poll.full
        /\ poll' = Asleep
        /\ UNCHANGED <<hw, ours>>
     \/ /\ open /\ poll.full
        /\ \E temp \in Levels : poll' = [poll EXCEPT !.pc = "rest", !.temp = temp]
        /\ hw' = Poller
        /\ UNCHANGED ours
  /\ UNCHANGED <<bumped, left, strange>>
  /\ UnchangedByPoll

PollRest ==
  /\ poll.pc = "rest"
  /\ poll' = [poll EXCEPT !.pc = "store", !.on = box.on, !.cycle = box.cycle, !.sp = box.sp]
  /\ hw' = Free
  /\ UNCHANGED <<ours, bumped, left, strange>>
  /\ UnchangedByPoll

\* Nothing read: nothing is reached.
PollFails ==
  /\ poll.pc = "rest" /\ LoseReply
  /\ ours' = [ours EXCEPT !.band = "no"]
  /\ poll' = Asleep
  /\ hw' = Free
  /\ UNCHANGED <<bumped, strange>>
  /\ UnchangedByPoll

\* Inside the tolerance for stable_time_s (> 0): two readings at least.
InBand(band) == IF band = "no" THEN {"since"} ELSE {band, "stable"}

\* Wrong: any reading is as good as a new one.
JudgeAnyReading ==
  IF poll.sp # ours.sp THEN [sp |-> poll.sp, band |-> {"no"}]
  ELSE IF poll.on /\ poll.temp = ours.sp THEN [sp |-> ours.sp, band |-> InBand(ours.band)]
  ELSE [sp |-> ours.sp, band |-> {"no"}]

\* A reading older than the setpoint decides nothing.  Another setpoint at the
\* box is one a person chose there, and is adopted.
Judge ==
  IF bumped THEN [sp |-> ours.sp, band |-> {ours.band}]
  ELSE IF poll.sp # ours.sp THEN [sp |-> poll.sp, band |-> {"no"}]
  ELSE IF poll.on /\ poll.temp = ours.sp THEN [sp |-> ours.sp, band |-> InBand(ours.band)]
  ELSE [sp |-> ours.sp, band |-> {"no"}]

PollStore ==
  /\ poll.pc = "store"
  /\ \E band \in Judge.band :
       ours' = [sp |-> Judge.sp, on |-> poll.on, cycle |-> poll.cycle, band |-> band]
  /\ bumped' = (bumped \/ Judge.sp # ours.sp)
  /\ strange' = (strange /\ (bumped \/ box.sp # Judge.sp))
  /\ poll' = Asleep
  /\ UNCHANGED <<hw, left>>
  /\ UnchangedByPoll

---------------------------------------------------------------------------
(* The main thread: the end of the service.                                *)

UnchangedByMain ==
  UNCHANGED <<bumped, ramp, walks, cmd, poll, left, strange, held>>

\* Ctrl-C; a shutdown request sets the same flag from the commander.
Interrupt ==
  /\ main.pc = "serve" /\ ~service.stop
  /\ service' = [service EXCEPT !.stop = TRUE]
  /\ UNCHANGED <<box, open, hw, ours, connected, halted, main, gaveUp>>
  /\ UnchangedByMain

\* stop() sleeps longer than the commander's poll: no request comes after it.
ShutDown ==
  /\ main.pc = "serve" /\ service.stop /\ cmd.pc # "recv"
  /\ service' = [service EXCEPT !.polling = FALSE]
  /\ main' = [main EXCEPT !.pc = "stop"]
  /\ UNCHANGED <<box, open, hw, ours, connected, halted, gaveUp>>
  /\ UnchangedByMain

StopRampAtEnd ==
  /\ main.pc = "stop"
  /\ halted' = Halted
  /\ main' = [pc |-> "join", join |-> ramp.thread]
  /\ UNCHANGED <<box, open, hw, ours, connected, service, gaveUp>>
  /\ UnchangedByMain

\* Thread.join raises for a thread that has not been started yet.
JoinRampAtEnd ==
  /\ main.pc = "join"
  /\ LET r == main.join
     IN \/ Ended(r) /\ main' = [main EXCEPT !.pc = "poll"] /\ UNCHANGED gaveUp
        \/ Outlasts(r) /\ main' = [main EXCEPT !.pc = "poll"] /\ gaveUp' = TRUE
        \/ /\ r \in Sweeps /\ walks[r].pc = "made"
           /\ main' = [main EXCEPT !.pc = "raised"] /\ gaveUp' = TRUE
  /\ UNCHANGED <<box, open, hw, ours, connected, halted, service>>
  /\ UnchangedByMain

JoinPoll ==
  /\ main.pc = "poll" /\ poll.pc \in {"gone", "temp", "rest"}
  /\ main' = [main EXCEPT !.pc = "off"]
  /\ UNCHANGED <<box, open, hw, ours, connected, halted, service, gaveUp>>
  /\ UnchangedByMain

\* Wrong: the output is toggled without a look at it.
SwitchOffBlindly ==
  /\ main.pc = "off" /\ hw = Free
  /\ hw' = Main
  /\ main' = [main EXCEPT !.pc = "toggle"]
  /\ UNCHANGED <<ours, open>>
  /\ UNCHANGED <<box, connected, halted, service, gaveUp>>
  /\ UnchangedByMain

\* Under _hw: the switch-off, and then the port is closed whatever happened.
SwitchOff ==
  /\ main.pc = "off" /\ hw = Free
  /\ LET off == connected /\ DisableOnShutdown /\ ~service.keep
     IN \/ /\ off /\ box.on
           /\ hw' = Main
           /\ main' = [main EXCEPT !.pc = "toggle"]
           /\ UNCHANGED <<ours, open>>
        \/ /\ ~(off /\ box.on)
           /\ ours' = IF off THEN [ours EXCEPT !.on = FALSE] ELSE ours
           /\ open' = FALSE
           /\ main' = [main EXCEPT !.pc = "disconnect"]
           /\ UNCHANGED hw
  /\ UNCHANGED <<box, connected, halted, service, gaveUp>>
  /\ UnchangedByMain

ToggleAtEnd ==
  /\ main.pc = "toggle"
  /\ box' = [box EXCEPT !.on = ~@]
  /\ main' = [main EXCEPT !.pc = "close"]
  /\ UNCHANGED <<open, hw, ours, connected, halted, service, gaveUp>>
  /\ UnchangedByMain

Close ==
  /\ main.pc = "close"
  /\ ours' = [ours EXCEPT !.on = box.on, !.band = "no"]
  /\ open' = FALSE /\ hw' = Free
  /\ main' = [main EXCEPT !.pc = "disconnect"]
  /\ UNCHANGED <<box, connected, halted, service, gaveUp>>
  /\ UnchangedByMain

\* The switch-off fails (a reply is lost): the port is closed all the same, and
\* the heater may still be on.
SwitchOffFails ==
  /\ \/ main.pc = "off" /\ hw = Free /\ connected /\ DisableOnShutdown /\ ~service.keep
     \/ main.pc \in {"toggle", "close"}
  /\ LoseReply
  /\ \/ UNCHANGED box
     \/ main.pc = "toggle" /\ box' = [box EXCEPT !.on = ~@]
  /\ open' = FALSE /\ hw' = Free
  /\ main' = [main EXCEPT !.pc = "disconnect"]
  /\ UNCHANGED <<ours, bumped, connected, ramp, halted, walks, cmd, poll, service,
                 strange, held, gaveUp>>

Disconnect ==
  /\ main.pc = "disconnect"
  /\ connected' = FALSE
  /\ main' = [main EXCEPT !.pc = "over"]
  /\ UNCHANGED <<box, open, hw, ours, halted, service, gaveUp>>
  /\ UnchangedByMain

---------------------------------------------------------------------------
(* The box and the people around it.                                       *)

UnchangedByPanel ==
  UNCHANGED <<open, hw, ours, bumped, connected, ramp, halted, walks, cmd, poll, main,
              service, gaveUp>>

TurnKnob ==
  /\ LoseReply
  /\ \/ /\ \E v \in Targets \ {box.sp} : box' = [box EXCEPT !.sp = v]
        /\ strange' = TRUE
     \/ box' = [box EXCEPT !.on = ~@] /\ UNCHANGED strange
     \/ box' = [box EXCEPT !.cycle = ~@] /\ UNCHANGED strange
  /\ held' = Unknown
  /\ UnchangedByPanel

---------------------------------------------------------------------------
CommandStep ==
  \/ \E verb \in Verbs \ {"set", "ramp"} : Receive(verb, 0)
  \/ \E verb \in {"set", "ramp"}, v \in Targets : Receive(verb, v)
  \/ CommanderLeaves \/ StopRamp \/ JoinRamp \/ GiveUpJoin \/ SendSetpoint \/ StoreSetpoint
  \/ BeginRamp \/ AssignThread \/ StartThread
  \/ ReadOutput \/ ToggleOutput \/ ConfirmOutput \/ OutputFails

WalkSteps(r) == WalkStep(r) \/ WalkSend(r) \/ WalkStore(r) \/ WalkEnd(r)

PollStep == PollBegin \/ PollLeaves \/ PollTemperature \/ PollRest \/ PollFails \/ PollStore

MainStep ==
  \/ Interrupt \/ ShutDown \/ StopRampAtEnd \/ JoinRampAtEnd \/ JoinPoll
  \/ SwitchOff \/ ToggleAtEnd \/ Close \/ SwitchOffFails \/ Disconnect

Next ==
  \/ CommandStep \/ (\E r \in Sweeps : WalkSteps(r)) \/ PollStep \/ MainStep
  \/ TurnKnob

Spec == Init /\ [][Next]_vars

---------------------------------------------------------------------------
(* Properties.                                                             *)

\* "ramp_id >= mine and not ramping = my sweep is over": a client that reads
\* this in the status may rely on it that none of the sweeps' threads will send
\* another value (softramp.py start and _walk), unless a join gave up.
SweepIsOver ==
  ~ramp.running /\ ~gaveUp => \A r \in 1 .. ramp.id : walks[r].pc = "dead"

\* A set takes the setpoint over from a sweep, and a stop leaves it at the last
\* value sent: once either is answered the box's setpoint stays as it is until
\* the next request or until somebody turns a knob, whatever the sweeps' threads
\* were doing (heater.py set_temperature, ramp_stop).
TakenOver == held # Unknown => box.sp = held

\* What the status shows as the setpoint is the setpoint of the box whenever no
\* write is under way, unless a person changed it or a reply was lost and no
\* reading since has told us: a reading that began before a command can never
\* bring the old setpoint back (heater.py poll_once, the command generation).
SetpointShown == hw = Free /\ open /\ ~strange => ours.sp = box.sp

\* "Reached" is never shown next to a setpoint other than the one it was reached
\* for: it appears when a second reading, taken inside the band of this setpoint
\* after the setpoint was stored, follows a first, and it does not outlive a new
\* setpoint (heater.py poll_once, and the rule a setter keeps with the flag).
ReachedIsThisOne ==
  [][ours'.band = "stable" /\ (ours.band # "stable" \/ ours'.sp # ours.sp) =>
       /\ ours'.sp = ours.sp /\ ours.band = "since"
       /\ poll.temp = ours.sp /\ poll.sp = ours.sp /\ ~bumped]_vars

\* After the port is closed nothing of the service changes the box any more: no
\* step of a sweep and no request that still waited for _hw follows the
\* switch-off (heater.py shutdown).
NothingAfterClose ==
  [][~open /\ left'.surprises = left.surprises =>
       box'.sp = box.sp /\ box'.on = box.on]_vars

\* A shutdown that ran to its end leaves the heater off, when it is to switch it
\* off and nobody touched the box.
OffAtTheEnd ==
  main.pc = "over" /\ DisableOnShutdown /\ ~service.keep /\ left.surprises = MaxSurprises
    => ~box.on

\* The same of every shutdown, which is what heater.py's shutdown promises.
ShutdownSwitchesOff ==
  main.pc \in {"over", "raised"} /\ DisableOnShutdown /\ ~service.keep
    /\ left.surprises = MaxSurprises => ~box.on

\* Whoever holds _hw never waits for another thread, so that a request which
\* waits for a sweep's thread, and the thread, which waits for _hw, never wait
\* for each other (softramp.py: stop() comes before the lock the setter needs).
HolderNeverWaits ==
  /\ cmd.pc = "join" => hw # Commander
  /\ main.pc \in {"join", "poll"} => hw # Main
  /\ \A r \in Sweeps : walks[r].pc \in {"want", "end", "dead"} => hw # r
  /\ poll.pc # "rest" => hw # Poller

=============================================================================
