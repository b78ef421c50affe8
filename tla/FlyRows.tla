------------------------------ MODULE FlyRows ------------------------------
(***************************************************************************)
(* A fly scan: scan_core/flyscan.py (fly_sweep, _fly_one_row,              *)
(* _ramp_one_row, _stop_stage, _drive_check), which replaces the odometer  *)
(* of scan_core/engine.py when the innermost axis is flown.  The outer     *)
(* dims are stepped; each row is one continuous move, recorded by streams. *)
(*                                                                         *)
(* Three ways to fly: "stage" (the position knob's blocking set, run in a  *)
(* helper thread), "driven" (another stage is sent far past the row and    *)
(* stopped when the readback has crossed it) and "ramp" (the module sweeps *)
(* the knob).  What flies goes on while the scan's thread does something   *)
(* else; that, a fault and a failing call in the middle of a row, and the  *)
(* shortcut of a zig-zag row that begins where the last one ended, are     *)
(* what this module is about; and that others may move the flown stage:    *)
(* an outer dim, a routine, a person while the scan waits.                 *)
(***************************************************************************)
EXTENDS Odometer

CONSTANTS
  Scans,       \* the fly scans that may be run, see ScansAssumption
  MaxFaults,   \* how often an instrument may begin to report a fault
  MaxErrors,   \* how many calls may fail
  MaxPauses,   \* how often the operator may press Pause
  FaultsLast,  \* a fault of a row in flight is still there when it is checked
  Away,        \* a knob stands where no row asks for
  None         \* Python's None

\* path, outer (the sizes of the stepped dims), zig (their zigzag flags), back
\* (the fly axis's own), speed (its speed_param: "none", "known", or "unread"
\* when the speed the stage had could not be read), against (the driven stage
\* moves the readback down), watched (there is an on_fault handler), breaks
\* (which calls may fail), also (what else moves the flown stage: the outer dims,
\* the routines, a person in the operator's Pause).
ASSUME ScansAssumption ==
  \A s \in Scans :
    /\ s.path \in {"stage", "driven", "ramp"}
    /\ s.outer \in Seq(Nat \ {0}) /\ Len(s.outer) > 0
    /\ {s.back, s.against, s.watched} \subseteq BOOLEAN
    /\ s.speed \in {"none", "known", "unread"}
    /\ s.breaks \subseteq {"approach", "outer", "speed", "start", "flight", "routine",
                      "stop"}
    /\ s.also \subseteq {"outer", "routine", "person"}

ASSUME FlyBoundsAssumption ==
  /\ {MaxFaults, MaxErrors, MaxPauses} \subseteq Nat
  /\ FaultsLast \in BOOLEAN

\* Along the row.
Places == {"low", "high", "between", "beyond", "behind"}

\* A flight: where it began, whether an instrument was in fault, and whether it
\* began without an approach though something else had moved the stage.
Flights == [from : Places, faulted : BOOLEAN, astray : BOOLEAN]

\* What the buffers hold of a row: where the outer knobs stood, and its flight.
Recorded(outer) == [at : [Dims(outer) -> Nat \cup {Away}], flight : Flights]

ASSUME FlyValuesAssumption ==
  /\ None \notin Nat /\ None \notin Places
  /\ \A s \in Scans : None \notin Recorded(s.outer)

VARIABLES
  scan,      \* the scan that is run
  pc,        \* where fly_sweep is
  row,       \* the number of the row
  redo,      \* the row is flown again after a fault
  prev,      \* each outer dim's index, or None
  rbEnd,     \* where the last row's stream saw the knob stop (state["rb_end"])
  atRunin,   \* the knob is taken to be at the row's start already
  moved,     \* the outer dims were set for this row (outer_moved)
  slow,      \* the fly speed is in force (state["fly_speed"])
  learned,   \* the direction of a driven stage is known (drive["k"])
  rows,      \* the buffers: what each row holds, or None
  how,       \* how the sweep of rows ends
  knob,      \* instruments: where the outer knobs stand
  pos,       \* instruments: where the flown knob is along the row
  heading,   \* instruments: where it is going, or None at rest
  speedAt,   \* instruments: the speed it has
  streams,   \* instruments: the streams are recording
  flight,    \* history: this flight, see Flights
  touched,   \* history: something else has moved the stage since rbEnd was taken
  loose,     \* history: what goes on because the call to stop it failed, or the
             \* call that started it seemed to
  unset,     \* history: the last set of a speed failed, or was not waited for
  faulted,   \* instruments: one the scan uses reports a fault
  aborting,  \* operator: Abort has been pressed
  held,      \* operator: Pause is in force
  left,      \* what is left of the bounds
  log        \* history: the axis routines that ran to their end

stepped == <<prev, knob, log>>
place == <<pos, heading, touched>>
pace == <<speedAt, slow, unset>>
recording == <<streams, loose>>
operator == <<aborting, held>>

vars == <<scan, pc, row, redo, stepped, rbEnd, atRunin, moved, learned, rows,
          how, place, pace, recording, flight, faulted, operator, left>>

-----------------------------------------------------------------------------
(* The rows *)

Rows == TotalPoints(scan.outer)
IndexOf(n) == VisitIndex(n, scan.outer, scan.zig)
Here == IndexOf(row)
Backwards(n) == scan.back /\ n % 2 = 1

RunIn(n) == IF Backwards(n) THEN "high" ELSE "low"
FarEnd(n) == IF Backwards(n) THEN "low" ELSE "high"

\* Wrong: a zig-zag row is taken to begin where the stage is.
AtRunInAlways == scan.path # "driven" /\ (slow \/ scan.path = "ramp") /\ rbEnd # None

\* With zig-zag a row starts where the last one ended: no approach.
AtRunIn ==
  /\ scan.path # "driven"
  /\ slow \/ scan.path = "ramp"
  /\ rbEnd = RunIn(row)

Flies == heading # None

\* What the row holds when everything recorded so far is binned.
Binned ==
  [rows EXCEPT ![Here] = [at |-> knob, flight |-> flight]]
Blank == [rows EXCEPT ![Here] = None]

-----------------------------------------------------------------------------
(* How a row fails *)

End(outcome) == pc' = "ending" /\ how' = outcome
Goto(next) == pc' = next /\ UNCHANGED how

Fails(call) ==
  /\ call \in scan.breaks /\ left.errors > 0
  /\ left' = [left EXCEPT !.errors = @ - 1]
GivesUp == aborting /\ End("stopped") /\ UNCHANGED <<left, rows, recording>>

\* stop_streams.  A stop that fails is only logged: what it was to stop goes on.
StopStreams ==
  \/ streams' = FALSE /\ loose' = loose \ {"streams"}
  \/ "stop" \in scan.breaks /\ UNCHANGED streams /\ loose' = loose \cup {"streams"}

\* The streams and what flies.
StopAll ==
  \E deaf \in SUBSET {"streams", "knob"} :
    /\ deaf = {} \/ "stop" \in scan.breaks
    /\ streams' = (streams /\ "streams" \in deaf)
    /\ heading' = IF "knob" \in deaf THEN heading ELSE None
    /\ loose' = deaf

\* _Guard.hold: wait, or stop the scan when there is nobody to wait for.
Hold == IF scan.watched THEN Goto("hold") ELSE End("fault")

\* An error while an instrument reports a fault, or one that is a fault: the
\* streams stop, the row is emptied and the scan waits; any other error ends it.
RowFails(call) ==
  /\ Fails(call)
  /\ \/ StopStreams /\ rows' = Blank /\ Hold
     \/ ~faulted /\ End("error") /\ UNCHANGED <<recording, rows>>

\* Another axis of the scan, a routine or a person takes the flown stage elsewhere.
Elsewhere == pos' = "between" /\ heading' = None /\ touched' = TRUE
MayMove(who) == UNCHANGED place \/ (who \in scan.also /\ Elsewhere)

\* use_speed: the device may have the speed although the call failed.
OwnSpeed == IF slow /\ scan.speed = "known" THEN "own" ELSE speedAt
StillSlow == slow /\ scan.speed # "known"

-----------------------------------------------------------------------------
(* To the start of a row *)

\* Wrong: one row too many.
NextRowLong ==
  /\ pc = "row"
  /\ redo' = FALSE
  /\ \/ row > Rows /\ End("done")
     \/ row <= Rows /\ Goto("runin")
  /\ UNCHANGED <<scan, row, stepped, rbEnd, atRunin, moved, learned, rows,
                 place, pace, recording, flight, faulted, operator, left>>

NextRow ==
  /\ pc = "row"
  /\ redo' = FALSE
  /\ \/ row = Rows /\ End("done")
     \/ row < Rows /\ aborting /\ End("aborted")
     \/ row < Rows /\ ~aborting /\ ~held /\ Goto("runin")
  /\ UNCHANGED <<scan, row, stepped, rbEnd, atRunin, moved, learned, rows,
                 place, pace, recording, flight, faulted, operator, left>>

\* The ordinary speed, then to the row's start, at rest there.
ApproachThen(next) ==
  \/ /\ pos' = RunIn(row) /\ heading' = None
     /\ speedAt' = OwnSpeed /\ slow' = StillSlow
     /\ Goto(next)
     /\ loose' = loose \ {"knob"}
     /\ UNCHANGED <<rows, streams, left>>
  \/ /\ slow /\ scan.speed = "known"
     /\ speedAt' \in {"own", "fly"}
     /\ RowFails("speed") \/ GivesUp
     /\ UNCHANGED <<pos, heading, slow>>
  \/ /\ pos' = "between" /\ heading' = None
     /\ speedAt' = OwnSpeed /\ slow' = StillSlow
     /\ RowFails("approach") \/ GivesUp

\* To the row's start, unless the knob is there.
ToRunIn ==
  /\ pc = "runin"
  /\ atRunin' = AtRunIn
  /\ \/ /\ AtRunIn /\ Goto("outer")
        /\ UNCHANGED <<pos, heading, speedAt, slow, rows, recording, left>>
     \/ ~AtRunIn /\ ApproachThen("outer")
  /\ UNCHANGED <<scan, row, redo, stepped, rbEnd, moved, learned, touched, unset,
                 flight, faulted, operator>>

\* after_axis ran for the dims of closed, before_axis for those of opened.
AxisRoutines(closed, opened) ==
  [k \in DOMAIN log |->
     [opened |-> IF k \in opened THEN log[k].opened + 1 ELSE log[k].opened,
      closed |-> IF k \in closed THEN log[k].closed + 1 ELSE log[k].closed]]

\* Wrong: a row flown again leaves the outer dims where they are.
SetOuterOnce ==
  LET changing == {k \in Dims(scan.outer) : Here[k] # prev[k]}
  IN
  /\ pc = "outer"
  /\ prev' = Here
  /\ knob' = [k \in DOMAIN knob |-> IF k \in changing THEN Here[k] ELSE knob[k]]
  /\ log' = AxisRoutines({k \in changing : prev[k] # None}, changing)
  /\ moved' = (changing # {})
  /\ Goto("ready")
  /\ UNCHANGED <<scan, row, redo, rbEnd, atRunin, learned, rows, place, pace,
                 recording, flight, faulted, operator, left>>

\* The outer dims, outermost first: those that changed, all of them on a redo.
\* Dim k may fail in its after_axis routine, its setpoint or its before_axis.  A
\* dim on the flown stage, or an axis routine, takes that stage elsewhere.
SetOuter ==
  LET changing == {k \in Dims(scan.outer) : Here[k] # prev[k]}
      leaving == {k \in changing : prev[k] # None}
      setting == IF redo THEN Dims(scan.outer) ELSE changing
  IN
  /\ pc = "outer"
  /\ \/ /\ prev' = Here
        /\ knob' = [k \in DOMAIN knob |-> IF k \in setting THEN Here[k] ELSE knob[k]]
        /\ log' = AxisRoutines(leaving, changing)
        /\ moved' = (setting # {})
        /\ Goto("ready")
        /\ UNCHANGED <<rows, recording, left>>
     \/ \E k \in setting, step \in {"leave", "set", "arrive"} :
        LET done == {j \in setting : j < k}
            left_ == leaving \cap (IF step = "leave" THEN done ELSE done \cup {k})
        IN  /\ step = "leave" => k \in leaving
            /\ step = "arrive" => k \in changing
            /\ prev' = [j \in DOMAIN prev |->
                          IF j \in done THEN Here[j]
                          ELSE IF j \in left_ THEN None ELSE prev[j]]
            /\ knob' = [j \in DOMAIN knob |->
                          IF j \in done \/ (j = k /\ step = "arrive") THEN Here[j]
                          ELSE IF j = k /\ step = "set" THEN Away ELSE knob[j]]
            /\ log' = AxisRoutines(left_, changing \cap done)
            /\ RowFails("outer") \/ GivesUp
            /\ UNCHANGED moved
  /\ \/ setting # {} /\ MayMove("outer")
     \/ changing # {} /\ MayMove("routine")
     \/ UNCHANGED place
  /\ UNCHANGED <<scan, row, redo, rbEnd, atRunin, learned, pace, flight,
                 faulted, operator>>

\* The before_point routines.
RowRoutines ==
  /\ pc = "ready"
  /\ \/ /\ Goto(IF moved /\ ~atRunin THEN "return" ELSE "speed")
        /\ UNCHANGED <<rows, recording, left>>
     \/ RowFails("routine") \/ GivesUp
  /\ MayMove("routine")
  /\ UNCHANGED <<scan, row, redo, stepped, rbEnd, atRunin, moved, learned,
                 pace, flight, faulted, operator>>

\* Once more to the start: the outer dims may have moved it.
ReturnToRunIn ==
  /\ pc = "return"
  /\ ApproachThen("speed")
  /\ UNCHANGED <<scan, row, redo, stepped, rbEnd, atRunin, moved, learned,
                 touched, unset, flight, faulted, operator>>

\* The fly speed.  When the call fails, or an Abort ends its wait, the device may
\* have it and the scan does not know.
UseFlySpeed ==
  /\ pc = "speed"
  /\ \/ /\ slow' = (scan.speed # "none")
        /\ speedAt' = IF slow' THEN "fly" ELSE speedAt
        /\ unset' = FALSE
        /\ Goto("takeoff")
        /\ UNCHANGED <<rows, recording, left>>
     \/ /\ ~slow /\ scan.speed # "none"
        /\ speedAt' \in {speedAt, "fly"}
        /\ unset' = TRUE
        /\ RowFails("speed") \/ GivesUp
        /\ UNCHANGED slow
  /\ UNCHANGED <<scan, row, redo, stepped, rbEnd, atRunin, moved, learned, place,
                 flight, faulted, operator>>

-----------------------------------------------------------------------------
(* The flight *)

Goal ==
  CASE scan.path # "driven" -> FarEnd(row)
    [] scan.path = "driven" /\ scan.against /\ ~learned -> "behind"
    [] OTHER -> "beyond"

\* The streams start and record at rest; then the knob is sent off.
TakeOff ==
  /\ pc = "takeoff"
  /\ \/ /\ streams' = TRUE
        /\ heading' = Goal
        /\ loose' = {}
        /\ flight' = [from |-> pos, faulted |-> faulted, astray |-> atRunin /\ touched]
        /\ Goto("flight")
        /\ UNCHANGED <<rows, left>>
     \/ /\ Fails("start")
        /\ heading' \in {heading} \cup (IF scan.path = "ramp" THEN {FarEnd(row)} ELSE {})
        /\ streams' \in BOOLEAN
        /\ loose' = (IF heading' = heading THEN loose \ {"streams"} ELSE {"knob"})
                      \cup (IF streams' THEN {"streams"} ELSE {})
        /\ \/ rows' = Blank /\ Hold /\ (streams' => "stop" \in scan.breaks)
           \/ ~faulted /\ End("error") /\ UNCHANGED rows
        /\ UNCHANGED flight
  /\ UNCHANGED <<scan, row, redo, stepped, rbEnd, atRunin, moved, learned, pos,
                 touched, pace, faulted, operator>>

\* The live plot: the row fills in as it is flown.
FillRow ==
  /\ pc = "flight"
  /\ rows' = Binned
  /\ UNCHANGED <<scan, pc, row, redo, stepped, rbEnd, atRunin, moved, learned,
                 how, place, pace, recording, flight, faulted, operator, left>>

\* The row is over: the knob is at rest, at the far end or stalled short of it;
\* a driven stage is stopped when the readback has crossed the far end, and when
\* that fails the row lasts until it rests by itself.
Land ==
  /\ pc = "flight"
  /\ ~Flies \/ (scan.path = "driven" /\ pos \in {FarEnd(row), "beyond"})
  /\ heading' = None
  /\ StopStreams
  /\ rbEnd' = pos /\ touched' = FALSE
  /\ rows' = Binned
  /\ learned' = TRUE
  /\ Goto("check")
  /\ UNCHANGED <<scan, row, redo, stepped, atRunin, moved, pos, pace, flight,
                 faulted, operator, left>>

\* The first guess of a driven stage's direction was wrong: it is stopped,
\* goes back to the start at its ordinary speed and is flown again.
TurnRound ==
  /\ pc = "flight"
  /\ scan.path = "driven" /\ ~learned /\ scan.against /\ pos # flight.from
  /\ learned' = TRUE
  /\ heading' = None
  /\ StopStreams
  /\ Goto("return")
  /\ UNCHANGED <<scan, row, redo, stepped, rbEnd, atRunin, moved, rows, pos,
                 touched, pace, flight, faulted, operator, left>>

\* Wrong: only the streams are stopped when a ramp's row fails.
BreakSweeping ==
  /\ pc = "flight"
  /\ StopStreams
  /\ Fails("flight")
  /\ (rows' = Blank /\ Hold) \/ (~faulted /\ End("error") /\ UNCHANGED rows)
  /\ UNCHANGED <<scan, row, redo, stepped, rbEnd, atRunin, moved, learned,
                 place, pace, flight, faulted, operator>>

\* What is stopped when a row fails in flight: a ramp; a driven stage where the
\* check of the drive gives it up.  Otherwise a stage goes on to where it was sent.
Interrupted ==
  \/ scan.path = "ramp" /\ StopAll
  \/ scan.path # "ramp" /\ StopStreams /\ UNCHANGED heading
  \/ scan.path = "driven" /\ StopStreams /\ heading' = None

\* A read, a timeout or the move itself fails in flight.
Break ==
  /\ pc = "flight"
  /\ Fails("flight")
  /\ \/ Interrupted /\ rows' = Blank /\ Hold
     \/ /\ ~faulted /\ End("error") /\ UNCHANGED rows
        /\ \/ Interrupted
           \/ scan.path # "ramp" /\ UNCHANGED <<heading, recording>>
  /\ UNCHANGED <<scan, row, redo, stepped, rbEnd, atRunin, moved, learned, pos,
                 touched, pace, flight, faulted, operator>>

\* Abort in flight: the knob is stopped, what was recorded is kept.
AbortFlight ==
  /\ pc = "flight"
  /\ aborting
  /\ StopAll
  /\ rbEnd' = pos
  /\ rows' = Binned
  /\ End("aborted")
  /\ UNCHANGED <<scan, row, redo, stepped, atRunin, moved, learned, pos, touched,
                 pace, flight, faulted, operator, left>>

-----------------------------------------------------------------------------
(* After a row *)

\* Was everything trustworthy while it flew?
CheckRow ==
  /\ pc = "check"
  /\ \/ faulted /\ rows' = Blank /\ Hold
     \/ ~faulted /\ Goto("landed") /\ UNCHANGED rows
  /\ UNCHANGED <<scan, row, redo, stepped, rbEnd, atRunin, moved, learned,
                 place, pace, recording, flight, faulted, operator, left>>

\* The after_point routines (the end of a sweep).
LeaveRow ==
  /\ pc = "landed"
  /\ \/ row' = row + 1 /\ Goto("row") /\ UNCHANGED left
     \/ UNCHANGED row /\ Fails("routine") /\ (End("error") \/ End("stopped"))
  /\ MayMove("routine")
  /\ UNCHANGED <<scan, redo, stepped, rbEnd, atRunin, moved, learned, rows,
                 pace, recording, flight, faulted, operator>>

ResumeRow ==
  /\ pc = "hold"
  /\ ~faulted
  /\ redo' = TRUE
  /\ Goto("runin")
  /\ UNCHANGED <<scan, row, stepped, rbEnd, atRunin, moved, learned, rows,
                 place, pace, recording, flight, faulted, operator, left>>

\* Wrong: Abort is looked at only once the faults have cleared.
AbortWhenCleared ==
  /\ pc = "hold"
  /\ aborting /\ ~faulted
  /\ End("stopped")
  /\ UNCHANGED <<scan, row, redo, stepped, rbEnd, atRunin, moved, learned, rows,
                 place, pace, recording, flight, faulted, operator, left>>

AbortWhilePaused ==
  /\ pc = "hold"
  /\ aborting
  /\ End("stopped")
  /\ UNCHANGED <<scan, row, redo, stepped, rbEnd, atRunin, moved, learned, rows,
                 place, pace, recording, flight, faulted, operator, left>>

\* Wrong: the speed is put back only when the rows are done.
PutBackWhenDone ==
  /\ pc = "ending"
  /\ pc' = "ended"
  /\ StopStreams
  /\ speedAt' = IF how = "done" THEN OwnSpeed ELSE speedAt
  /\ slow' = StillSlow
  /\ UNCHANGED <<scan, row, redo, stepped, rbEnd, atRunin, moved, learned, rows,
                 how, place, unset, flight, faulted, operator, left>>

\* The finally of fly_sweep: the streams and the speed, on every end.  A set of
\* the speed that fails is only logged.
PutBack ==
  /\ pc = "ending"
  /\ pc' = "ended"
  /\ StopStreams
  /\ \/ speedAt' = OwnSpeed /\ slow' = StillSlow /\ UNCHANGED <<unset, left>>
     \/ /\ slow /\ scan.speed = "known"
        /\ Fails("speed")
        /\ speedAt' \in {speedAt, "own"} /\ unset' = TRUE
        /\ UNCHANGED slow
  /\ UNCHANGED <<scan, row, redo, stepped, rbEnd, atRunin, moved, learned, rows,
                 how, place, flight, faulted, operator>>

Finished == pc = "ended" /\ UNCHANGED vars

-----------------------------------------------------------------------------
(* The flown knob, the instruments and the operator *)

sweepVars == <<scan, pc, row, redo, stepped, rbEnd, atRunin, moved, learned,
               rows, how, recording, touched, pace>>

\* It leaves, arrives, or stalls on the way; a driven stage crosses the row.
Moves ==
  /\ Flies
  /\ \/ pos' = "between" /\ pos # "between" /\ UNCHANGED <<heading, left>>
     \/ /\ pos = "between" /\ heading = "beyond"
        /\ pos' = FarEnd(row) /\ UNCHANGED <<heading, left>>
     \/ /\ pos # RunIn(row) /\ (heading = "beyond" => pos = FarEnd(row))
        /\ pos' = heading /\ heading' = None /\ UNCHANGED left
     \/ /\ pos = "between" /\ left.errors > 0
        /\ heading' = None /\ left' = [left EXCEPT !.errors = @ - 1]
        /\ UNCHANGED pos
  /\ UNCHANGED <<sweepVars, flight, faulted, operator>>

FaultAppears ==
  /\ ~faulted /\ left.faults > 0 /\ pc # "ended"
  /\ faulted' = TRUE
  /\ left' = [left EXCEPT !.faults = @ - 1]
  /\ flight' = IF pc = "flight" THEN [flight EXCEPT !.faulted = TRUE] ELSE flight
  /\ UNCHANGED <<sweepVars, pos, heading, operator>>

FaultClears ==
  /\ faulted
  /\ FaultsLast => pc \notin {"flight", "check"}
  /\ faulted' = FALSE
  /\ UNCHANGED <<sweepVars, pos, heading, flight, operator, left>>

\* While the scan waits for a fault, or between rows for the operator, a person
\* re-aims the camera or moves a stage.
Reaim ==
  /\ pc = "hold" \/ (pc = "row" /\ held /\ "person" \in scan.also)
  /\ \/ (\E k \in DOMAIN knob : knob' = [knob EXCEPT ![k] = Away]) /\ UNCHANGED place
     \/ Elsewhere /\ UNCHANGED knob
  /\ UNCHANGED <<scan, pc, row, redo, prev, log, rbEnd, atRunin, moved, learned,
                 rows, how, recording, pace, flight, faulted, operator, left>>

PressAbort ==
  /\ ~aborting /\ pc # "ended"
  /\ aborting' = TRUE
  /\ UNCHANGED <<sweepVars, pos, heading, flight, faulted, held, left>>

PressPause ==
  /\ ~held /\ left.pauses > 0 /\ pc # "ended"
  /\ held' = TRUE
  /\ left' = [left EXCEPT !.pauses = @ - 1]
  /\ UNCHANGED <<sweepVars, pos, heading, flight, faulted, aborting>>

PressResume ==
  /\ held
  /\ held' = FALSE
  /\ UNCHANGED <<sweepVars, pos, heading, flight, faulted, aborting, left>>

-----------------------------------------------------------------------------
(* The specification *)

Init ==
  /\ scan \in Scans
  /\ pc = "row" /\ how = "running"
  /\ row = 0
  /\ redo = FALSE
  /\ prev = [k \in Dims(scan.outer) |-> None]
  /\ rbEnd = None
  /\ atRunin = FALSE /\ moved = FALSE
  /\ slow = FALSE
  /\ learned = FALSE
  /\ rows = [idx \in Grid(scan.outer) |-> None]
  /\ knob = [k \in Dims(scan.outer) |-> Away]
  /\ pos = "between" /\ heading = None
  /\ speedAt = "own"
  /\ streams = FALSE
  /\ touched = FALSE /\ loose = {} /\ unset = FALSE
  /\ flight = [from |-> "between", faulted |-> FALSE, astray |-> FALSE]
  /\ faulted = FALSE /\ aborting = FALSE /\ held = FALSE
  /\ left = [faults |-> MaxFaults, errors |-> MaxErrors, pauses |-> MaxPauses]
  /\ log = [k \in Dims(scan.outer) |-> [opened |-> 0, closed |-> 0]]

SweepStep ==
  \/ NextRow \/ ToRunIn \/ SetOuter \/ RowRoutines \/ ReturnToRunIn \/ UseFlySpeed
  \/ TakeOff \/ Land \/ TurnRound \/ Break \/ AbortFlight
  \/ CheckRow \/ LeaveRow \/ ResumeRow \/ AbortWhilePaused \/ PutBack

Environment ==
  \/ Moves \/ FaultAppears \/ FaultClears \/ Reaim
  \/ PressAbort \/ PressPause \/ PressResume

Next == SweepStep \/ FillRow \/ Environment \/ Finished

Spec == Init /\ [][Next]_vars

\* The scan's thread keeps running: every wait in it has a timeout, and each
\* round of a row in flight looks at Abort.
FairSpec == Spec /\ WF_vars(SweepStep)

-----------------------------------------------------------------------------
(* Properties *)

\* The state of a fly scan has the shape the code gives it.
TypeOK ==
  /\ scan \in Scans
  /\ pc \in {"row", "runin", "outer", "ready", "return", "speed", "takeoff", "flight", "check",
             "landed", "hold", "ending", "ended"}
  /\ how \in {"running", "done", "aborted", "stopped", "error", "fault"}
  /\ row \in 0..Rows
  /\ {redo, atRunin, moved, slow, learned, streams, touched, unset, faulted, aborting, held}
       \subseteq BOOLEAN
  /\ prev \in [Dims(scan.outer) -> Nat \cup {None}]
  /\ knob \in [Dims(scan.outer) -> Nat \cup {Away}]
  /\ rbEnd \in Places \cup {None}
  /\ pos \in Places /\ heading \in Places \cup {None}
  /\ speedAt \in {"own", "fly"}
  /\ loose \subseteq {"streams", "knob"}
  /\ flight \in Flights
  /\ \A idx \in DOMAIN rows : rows[idx] = None \/ rows[idx] \in Recorded(scan.outer)
  /\ left \in [faults : 0..MaxFaults, errors : 0..MaxErrors, pauses : 0..MaxPauses]

\* The flight began at the start of row n.  The shortcut of a zig-zag row trusts
\* rbEnd, which says nothing of what else has moved the stage since.
FromRunIn(f, n) == f.from = RunIn(n) \/ f.astray

\* A row the scan has gone on from holds one flight, from the row's start, with
\* the outer knobs where its slot says and no instrument in fault: whatever
\* failed, was redone or re-aimed before.  No later row writes over it.
RowsBelong ==
  \A n \in 0..(row - 1) :
    LET kept == rows[IndexOf(n)]
    IN  /\ kept # None
        /\ kept.at = IndexOf(n)
        /\ FromRunIn(kept.flight, n)
        /\ ~kept.flight.faulted

\* "Go to a row's run-in and be THERE before the row starts": every flight
\* begins at its row's start, whatever moved the stage before an approach, and
\* without one where nothing else has.
StartsAtRunIn == pc = "flight" => FromRunIn(flight, row)

\* "It is put back at the end, abort or not": the speed the stage had, but for
\* the set of a speed that itself failed or was given up.
SpeedPutBack == pc = "ended" /\ scan.speed = "known" => speedAt = "own" \/ unset

\* Nothing records once the scan has ended or waits for a fault to clear, unless
\* its stop failed.
StreamsStopped == pc \in {"hold", "ended"} /\ streams => "streams" \in loose

\* "The knob must not keep sweeping on its own after the scan has let go of
\* it": at a fault pause and at every end, unless its stop failed, or its start
\* seemed to.
SweepLetGo == scan.path = "ramp" /\ pc \in {"hold", "ended"} /\ Flies => "knob" \in loose

\* Abort in flight stops whatever flies, unless that fails.
AbortStopsFlight == pc = "ended" /\ how = "aborted" /\ Flies => "knob" \in loose

\* A row that is over, however it broke off, leaves nothing going on behind it
\* but what a failed call has left.
NothingGoesOn == StreamsStopped /\ SweepLetGo /\ AbortStopsFlight

\* Each axis routine that ran to its end ran once for its value, rows flown
\* again included.
AxisRoutinesPaired ==
  \A k \in Dims(scan.outer) :
    /\ log[k].opened \in {log[k].closed, log[k].closed + 1}
    /\ prev[k] # None <=> log[k].opened = log[k].closed + 1

\* Whatever was flown again, each row's data is its own and each routine ran once.
RowsComplete == RowsBelong /\ AxisRoutinesPaired

\* Abort ends the scan: held, in flight, or paused for a fault nobody clears.
AbortEnds == aborting ~> pc = "ended"

=============================================================================
