---------------------------- MODULE FlyRowsProofs ----------------------------
(***************************************************************************)
(* Fly scans of any number of rows, over outer dims of any size, with any  *)
(* number of faults, failing calls and pauses.                             *)
(*                                                                         *)
(* The inductive invariant follows the flown knob and the outer ones       *)
(* through a row: the knob rests at the row's start before it takes off,   *)
(* and where the last flight ended is still where it is, or not a start,   *)
(* or something else has moved it (AtStart); every row sets an outer knob, *)
(* after which the stage is approached once more (Advances); the outer     *)
(* knobs stand at the row's values from the moment they are set (OnRow),   *)
(* and what the row holds when it is checked is that flight's (Landed).    *)
(* Quiet and LetGo say where something may record or fly.                  *)
(***************************************************************************)
EXTENDS FlyRows, OdometerProofs

-----------------------------------------------------------------------------
(* What is true of every state *)

Before == {"runin", "outer", "ready", "return", "speed", "takeoff"}
After == {"check", "landed"}
Stopping == {"ending", "ended"}

AxisLog == [opened : Nat, closed : Nat]
Bounds == [faults : 0..MaxFaults, errors : 0..MaxErrors, pauses : 0..MaxPauses]

Shaped ==
  /\ scan \in Scans
  /\ pc \in {"row", "flight", "hold"} \cup Before \cup After \cup Stopping
  /\ how \in {"running", "done", "aborted", "stopped", "error", "fault"}
  /\ row \in 0..Rows
  /\ pc \in {"flight", "hold"} \cup Before \cup After => row < Rows
  /\ redo \in BOOLEAN /\ atRunin \in BOOLEAN /\ moved \in BOOLEAN /\ slow \in BOOLEAN
  /\ learned \in BOOLEAN /\ streams \in BOOLEAN /\ faulted \in BOOLEAN
  /\ aborting \in BOOLEAN /\ held \in BOOLEAN
  /\ prev \in [Dims(scan.outer) -> Nat \cup {None}]
  /\ knob \in [Dims(scan.outer) -> Nat \cup {Away}]
  /\ rbEnd \in Places \cup {None}
  /\ pos \in Places /\ heading \in Places \cup {None}
  /\ speedAt \in {"own", "fly"}
  /\ touched \in BOOLEAN /\ unset \in BOOLEAN /\ loose \subseteq {"streams", "knob"}
  /\ flight \in Flights
  /\ rows \in [Grid(scan.outer) -> Recorded(scan.outer) \cup {None}]
  /\ left \in Bounds
  /\ log \in [Dims(scan.outer) -> AxisLog]

\* Streams record only in flight, or because they did not stop, and a row is left
\* with the knob at rest.
Quiet ==
  /\ streams => pc \in {"flight", "ending"} \/ "streams" \in loose
  /\ pc \in {"row"} \cup After => ~Flies
  /\ pc \notin Stopping => how = "running"
  /\ how = "aborted" => ~Flies \/ "knob" \in loose

\* A ramp is stopped wherever its row fails.
LetGo == scan.path = "ramp" /\ Flies => pc = "flight" \/ "knob" \in loose

\* The fly speed is in force only while the scan knows it, but for a set of a
\* speed that failed.
SpeedKnown == scan.speed = "known" /\ ~slow => speedAt = "own" \/ unset

\* The scans that may leave out the approach to a row; they fly at their speed.
Shortcuts == scan.path = "ramp" \/ scan.speed # "none"

Paced ==
  /\ scan.speed = "none" => ~slow
  /\ scan.speed # "none" /\ pc \in {"takeoff", "flight"} \cup After => slow

\* On the way to a row, and in it, with its outer dims set.
Coming == pc = "row" \/ (pc \in {"runin", "outer"} /\ ~redo)
InRow == pc \in {"ready", "return", "speed", "takeoff", "flight"} \cup After

\* A row of its own: on the way to it some outer dim has another value.
Advances ==
  /\ InRow => prev = Here
  /\ pc = "ready" => moved
  /\ Coming /\ row < Rows => prev # Here

\* A knob flown by its own setpoint is on the row.
OnLine ==
  scan.path # "driven" =>
    pos \in {"low", "high", "between"} /\ heading \in {None, "low", "high"}

\* The knob rests at the row's start.
There == pos = RunIn(row) /\ ~Flies

\* Where a row starts, and where the last flight ended.
AtStart ==
  /\ pc \in {"speed", "takeoff"} => There \/ (atRunin /\ touched)
  /\ pc \in {"outer", "ready"} /\ atRunin => There \/ touched
  /\ pc = "flight" => FromRunIn(flight, row)
  /\ scan.path # "driven" =>
       /\ pc = "flight" => heading \in {None, FarEnd(row)} /\ (heading = None => pos # RunIn(row))
       /\ pc \in After => rbEnd = pos /\ rbEnd \in {"between", FarEnd(row)}
       /\ pc \in {"row", "hold"} \cup Before /\ rbEnd = RunIn(row) /\ Shortcuts =>
            (There \/ touched) /\ (slow \/ scan.path = "ramp")
       /\ pc \in {"outer", "ready"} /\ rbEnd = RunIn(row) /\ Shortcuts => atRunin
       /\ pc = "return" /\ Shortcuts => rbEnd # RunIn(row)
       /\ pc \notin Stopping /\ ~scan.back => rbEnd # "low"

\* The outer knobs stand at the row's values once they are set; before, those
\* the scan knows of stand where they were, but for a row flown again and for
\* what a person has moved in the operator's Pause.
OnRow ==
  /\ InRow => knob = Here
  /\ Coming /\ "person" \notin scan.also =>
       \A k \in Dims(scan.outer) : prev[k] # None => knob[k] = prev[k]

\* What a row holds once it was flown.
Landed ==
  /\ pc \in {"flight", "check"} /\ flight.faulted => faulted
  /\ pc \in After => rows[Here] = [at |-> Here, flight |-> flight] /\ FromRunIn(flight, row)
  /\ pc = "landed" => ~flight.faulted
  /\ RowsBelong

-----------------------------------------------------------------------------
(* The rows *)

\* What the proofs need of the scan: its rows, each with a slot of its own.
LEMMA Scan ==
  ASSUME Shaped
  PROVE  /\ scan \in Scans /\ scan.outer \in Shapes
         /\ Rows \in Nat \ {0} /\ row \in Nat
         /\ \A n \in 0..(Rows - 1) :
              IndexOf(n) \in Grid(scan.outer) /\ IndexOf(n) \in [Dims(scan.outer) -> Nat]
         /\ \A m, n \in 0..(Rows - 1) : IndexOf(m) = IndexOf(n) => m = n
<1>1. scan \in Scans /\ row \in 0..Rows
  BY DEF Shaped
<1>2. scan.outer \in Shapes /\ Len(scan.outer) \in Nat
  BY <1>1, ScansAssumption DEF Shapes
<1>3. Rows \in Nat \ {0}
  <2>1. 1 \in 1..(Len(scan.outer) + 1)
    BY <1>2
  <2> QED BY <1>2, <2>1, BlockIs DEF Rows
<1>4. ASSUME NEW n \in 0..(Rows - 1)
      PROVE  IndexOf(n) \in Grid(scan.outer) /\ IndexOf(n) \in [Dims(scan.outer) -> Nat]
  <2>1. IndexOf(n) \in Grid(scan.outer)
    BY <1>2, <1>4, WholeGridVisited DEF IndexOf, Rows
  <2> QED BY <1>2, <2>1, WholeGridVisited
<1>5. \A m, n \in 0..(Rows - 1) : IndexOf(m) = IndexOf(n) => m = n
  BY <1>2, VisitedOnce DEF IndexOf, Rows
<1> QED BY <1>1, <1>2, <1>3, <1>4, <1>5

\* The row the scan is at has one.
LEMMA HereIn ==
  ASSUME Shaped, row < Rows
  PROVE  /\ row \in 0..(Rows - 1)
         /\ Here \in Grid(scan.outer) /\ Here \in [Dims(scan.outer) -> Nat]
         /\ \A k \in Dims(scan.outer) : Here[k] \in Nat /\ Here[k] # None
<1>1. row \in 0..(Rows - 1)
  BY Scan DEF Shaped
<1>2. Here \in Grid(scan.outer) /\ Here \in [Dims(scan.outer) -> Nat]
  BY <1>1, Scan DEF Here
<1> QED BY <1>1, <1>2, FlyValuesAssumption

\* A row has two ends, and with zig-zag the next one starts where it ends.
LEMMA TwoEnds ==
  ASSUME Shaped
  PROVE  /\ RunIn(row) \in {"low", "high"} /\ FarEnd(row) \in {"low", "high"}
         /\ RunIn(row) # FarEnd(row)
         /\ ~scan.back => RunIn(row) = "low" /\ RunIn(row + 1) = "low"
         /\ scan.back => RunIn(row + 1) = FarEnd(row)
         /\ scan.back \in BOOLEAN
<1>1. scan.back \in BOOLEAN /\ row \in Nat
  BY Scan, ScansAssumption
<1>2. row % 2 = 1 <=> (row + 1) % 2 # 1
  <2>1. ASSUME NEW n \in Nat PROVE n % 2 = 1 <=> (n + 1) % 2 # 1
    OBVIOUS
  <2> QED BY <1>1, <2>1
<1> QED BY <1>1, <1>2 DEF RunIn, FarEnd, Backwards

-----------------------------------------------------------------------------
(* Steps *)

\* The run keeps its scan, and with it all that is derived from the scan.
LEMMA SameScan ==
  ASSUME scan' = scan
  PROVE  /\ Rows' = Rows /\ Dims(scan.outer)' = Dims(scan.outer)
         /\ Grid(scan.outer)' = Grid(scan.outer)
         /\ Recorded(scan.outer)' = Recorded(scan.outer)
         /\ \A n : IndexOf(n)' = IndexOf(n) /\ RunIn(n)' = RunIn(n) /\ FarEnd(n)' = FarEnd(n)
         /\ row' = row => Here' = Here
         /\ (Shortcuts' <=> Shortcuts)
  BY DEF Rows, IndexOf, RunIn, FarEnd, Backwards, Here, Shortcuts

Approaches == ToRunIn \/ ReturnToRunIn

\* Something else moves the flown stage.
Moved == Elsewhere /\ (SetOuter \/ RowRoutines \/ LeaveRow \/ Reaim)

\* Which operations touch which part of the state.
Changes ==
  /\ scan' = scan
  /\ row' = row \/ LeaveRow
  /\ redo' = redo \/ NextRow \/ ResumeRow
  /\ UNCHANGED <<prev, log>> \/ SetOuter
  /\ knob' = knob \/ SetOuter \/ Reaim
  /\ rbEnd' = rbEnd \/ Land \/ AbortFlight
  /\ atRunin' = atRunin \/ ToRunIn
  /\ moved' = moved \/ SetOuter
  /\ learned' = learned \/ Land \/ TurnRound
  /\ rows' = rows
       \/ (rows' = Blank /\ pc \in {"flight", "check"} \cup Before /\ pc' \in {"hold", "ending"})
       \/ (rows' = Binned /\ pc = "flight")
  /\ UNCHANGED <<pos, heading>> \/ Approaches \/ TakeOff \/ Land \/ TurnRound \/ Break
       \/ AbortFlight \/ Moves \/ Moved
  /\ touched' = touched \/ Land \/ Moved
  /\ UNCHANGED <<speedAt, slow>> \/ Approaches \/ UseFlySpeed \/ PutBack
  /\ unset' = unset \/ UseFlySpeed \/ PutBack
  /\ UNCHANGED recording \/ StopStreams \/ StopAll \/ TakeOff
       \/ (streams' = streams /\ loose' = loose \ {"knob"} /\ heading' = None)
  /\ flight' = flight \/ TakeOff \/ FaultAppears
  /\ faulted' = faulted \/ FaultAppears \/ FaultClears
  /\ aborting' = aborting \/ PressAbort
  /\ held' = held \/ PressPause \/ PressResume
  /\ left' = left \/ (\E call : Fails(call)) \/ Moves \/ FaultAppears \/ PressPause

\* The frame of every step.
LEMMA WhoChanges ==
  ASSUME Next
  PROVE  Changes
<1> USE DEF Changes, Approaches, Moved, ApproachThen, RowFails, GivesUp, Goto, End, Hold, Before,
        vars, stepped, place, pace, recording, operator, sweepVars, MayMove
<1>1. CASE NextRow
  BY <1>1 DEF NextRow
<1>2. CASE ToRunIn
  BY SMTT(30), <1>2 DEF ToRunIn
<1>3. CASE SetOuter
  BY ZenonT(60), <1>3 DEF SetOuter
<1>4. CASE RowRoutines
  BY <1>4 DEF RowRoutines
<1>5. CASE ReturnToRunIn
  BY <1>5 DEF ReturnToRunIn
<1>6. CASE UseFlySpeed
  BY <1>6 DEF UseFlySpeed
<1>7. CASE TakeOff
  BY <1>7 DEF TakeOff
<1>8. CASE Land
  BY <1>8 DEF Land
<1>9. CASE TurnRound
  BY <1>9 DEF TurnRound
<1>10. CASE Break
  BY <1>10 DEF Break, Interrupted
<1>11. CASE AbortFlight
  BY <1>11 DEF AbortFlight
<1>12. CASE CheckRow
  BY <1>12 DEF CheckRow
<1>13. CASE LeaveRow
  BY <1>13 DEF LeaveRow
<1>14. CASE ResumeRow
  BY <1>14 DEF ResumeRow
<1>15. CASE AbortWhilePaused
  BY <1>15 DEF AbortWhilePaused
<1>16. CASE PutBack
  BY <1>16 DEF PutBack
<1>17. CASE FillRow
  BY <1>17 DEF FillRow
<1>18. CASE Moves
  BY <1>18 DEF Moves
<1>19. CASE FaultAppears
  BY <1>19 DEF FaultAppears
<1>20. CASE FaultClears
  BY <1>20 DEF FaultClears
<1>21. CASE Reaim
  BY <1>21 DEF Reaim
<1>22. CASE PressAbort
  BY <1>22 DEF PressAbort
<1>23. CASE PressPause
  BY <1>23 DEF PressPause
<1>24. CASE PressResume
  BY <1>24 DEF PressResume
<1>25. CASE Finished
  BY <1>25 DEF Finished
<1> QED
  BY <1>1, <1>2, <1>3, <1>4, <1>5, <1>6, <1>7, <1>8, <1>9, <1>10, <1>11, <1>12, <1>13,
     <1>14, <1>15, <1>16, <1>17, <1>18, <1>19, <1>20, <1>21, <1>22, <1>23, <1>24, <1>25
  DEF Next, SweepStep, Environment

\* Where the scan goes on, and how it ends.
Ways(here, there) ==
  \/ here = "row" /\ there = "runin" /\ NextRow
  \/ here = "runin" /\ there = "outer" /\ ToRunIn
  \/ here = "outer" /\ there = "ready" /\ SetOuter
  \/ here = "ready" /\ there \in {"return", "speed"} /\ RowRoutines
  \/ here = "return" /\ there = "speed" /\ ReturnToRunIn
  \/ here = "speed" /\ there = "takeoff" /\ UseFlySpeed
  \/ here = "takeoff" /\ there = "flight" /\ TakeOff
  \/ here = "flight" /\ there = "check" /\ Land
  \/ here = "flight" /\ there = "return" /\ TurnRound
  \/ here = "check" /\ there = "landed" /\ CheckRow
  \/ here = "landed" /\ there = "row" /\ LeaveRow
  \/ here = "hold" /\ there = "runin" /\ ResumeRow
  \/ (here \in Before \cup {"check"} \/ (here = "flight" /\ Break)) /\ there = "hold"

Flow ==
  \/ pc' = pc /\ how' = how
  \/ Ways(pc, pc') /\ how' = how
  \/ pc = "row" /\ pc' = "ending" /\ how' \in {"done", "aborted"} /\ NextRow
  \/ pc = "flight" /\ pc' = "ending" /\ how' = "aborted" /\ AbortFlight
  \/ (pc \in {"hold"} \cup Before \cup After \/ (pc = "flight" /\ Break)) /\ pc' = "ending"
       /\ how' \in {"stopped", "error", "fault"}
  \/ pc = "ending" /\ pc' = "ended" /\ how' = how /\ PutBack

\* The control flow of every step.
LEMMA WhereNext ==
  ASSUME Next
  PROVE  Flow
<1> USE DEF Flow, Ways, ApproachThen, RowFails, GivesUp, Goto, End, Hold, Before, After,
        vars, stepped, place, pace, recording, operator, sweepVars, MayMove
<1>1. CASE NextRow
  BY <1>1 DEF NextRow
<1>2. CASE ToRunIn
  BY <1>2 DEF ToRunIn
<1>3. CASE SetOuter
  BY <1>3 DEF SetOuter
<1>4. CASE RowRoutines
  BY <1>4 DEF RowRoutines
<1>5. CASE ReturnToRunIn
  BY <1>5 DEF ReturnToRunIn
<1>6. CASE UseFlySpeed
  BY <1>6 DEF UseFlySpeed
<1>7. CASE TakeOff
  BY <1>7 DEF TakeOff
<1>8. CASE Land
  BY <1>8 DEF Land
<1>9. CASE TurnRound
  BY <1>9 DEF TurnRound
<1>10. CASE Break
  BY <1>10 DEF Break
<1>11. CASE AbortFlight
  BY <1>11 DEF AbortFlight
<1>12. CASE CheckRow
  BY <1>12 DEF CheckRow
<1>13. CASE LeaveRow
  BY <1>13 DEF LeaveRow
<1>14. CASE ResumeRow
  BY <1>14 DEF ResumeRow
<1>15. CASE AbortWhilePaused
  BY <1>15 DEF AbortWhilePaused
<1>16. CASE PutBack
  BY <1>16 DEF PutBack
<1>17. CASE FillRow
  BY <1>17 DEF FillRow
<1>18. CASE Moves
  BY <1>18 DEF Moves
<1>19. CASE FaultAppears
  BY <1>19 DEF FaultAppears
<1>20. CASE FaultClears
  BY <1>20 DEF FaultClears
<1>21. CASE Reaim
  BY <1>21 DEF Reaim
<1>22. CASE PressAbort
  BY <1>22 DEF PressAbort
<1>23. CASE PressPause
  BY <1>23 DEF PressPause
<1>24. CASE PressResume
  BY <1>24 DEF PressResume
<1>25. CASE Finished
  BY <1>25 DEF Finished
<1> QED
  BY <1>1, <1>2, <1>3, <1>4, <1>5, <1>6, <1>7, <1>8, <1>9, <1>10, <1>11, <1>12, <1>13,
     <1>14, <1>15, <1>16, <1>17, <1>18, <1>19, <1>20, <1>21, <1>22, <1>23, <1>24, <1>25
  DEF Next, SweepStep, Environment

\* The outer dims: all are set, or those before one that fails, which may have
\* been left.
Changing == {k \in Dims(scan.outer) : Here[k] # prev[k]}
Departing == {k \in Changing : prev[k] # None}
ToSet == IF redo THEN Dims(scan.outer) ELSE Changing

LEMMA OuterStep ==
  ASSUME SetOuter
  PROVE  /\ pc = "outer"
         /\ \/ /\ pc' = "ready" /\ prev' = Here
               /\ knob' = [k \in DOMAIN knob |-> IF k \in ToSet THEN Here[k] ELSE knob[k]]
               /\ log' = AxisRoutines(Departing, Changing)
               /\ moved' = (ToSet # {})
            \/ /\ pc' \in {"hold", "ending"}
               /\ \E done, gone :
                    /\ done \subseteq Dims(scan.outer) /\ gone \subseteq Departing
                    /\ Departing \cap done \subseteq gone
                    /\ prev' = [j \in DOMAIN prev |-> IF j \in done THEN Here[j]
                                                      ELSE IF j \in gone THEN None ELSE prev[j]]
                    /\ log' = AxisRoutines(gone, Changing \cap done)
<1>1. pc = "outer" /\ ToSet \subseteq Dims(scan.outer) /\ Changing \subseteq Dims(scan.outer)
      /\ Changing \subseteq ToSet
  BY DEF SetOuter, ToSet, Changing
<1>2. CASE /\ prev' = Here
           /\ knob' = [k \in DOMAIN knob |-> IF k \in ToSet THEN Here[k] ELSE knob[k]]
           /\ log' = AxisRoutines(Departing, Changing)
           /\ moved' = (ToSet # {})
           /\ Goto("ready")
  BY <1>1, <1>2 DEF Goto
<1>3. CASE \E k \in ToSet, step \in {"leave", "set", "arrive"} :
             LET done == {j \in ToSet : j < k}
                 left_ == Departing \cap (IF step = "leave" THEN done ELSE done \cup {k})
             IN  /\ prev' = [j \in DOMAIN prev |-> IF j \in done THEN Here[j]
                                                   ELSE IF j \in left_ THEN None ELSE prev[j]]
                 /\ log' = AxisRoutines(left_, Changing \cap done)
                 /\ RowFails("outer") \/ GivesUp
  <2>1. PICK k \in ToSet, step \in {"leave", "set", "arrive"} :
             LET done == {j \in ToSet : j < k}
                 left_ == Departing \cap (IF step = "leave" THEN done ELSE done \cup {k})
             IN  /\ prev' = [j \in DOMAIN prev |-> IF j \in done THEN Here[j]
                                                   ELSE IF j \in left_ THEN None ELSE prev[j]]
                 /\ log' = AxisRoutines(left_, Changing \cap done)
                 /\ RowFails("outer") \/ GivesUp
    BY <1>3
  <2> DEFINE done == {j \in ToSet : j < k}
             gone == Departing \cap (IF step = "leave" THEN done ELSE done \cup {k})
  <2>2. /\ prev' = [j \in DOMAIN prev |-> IF j \in done THEN Here[j]
                                          ELSE IF j \in gone THEN None ELSE prev[j]]
        /\ log' = AxisRoutines(gone, Changing \cap done)
    BY <2>1
  <2>3. pc' \in {"hold", "ending"}
    BY <2>1 DEF RowFails, GivesUp, Hold, Goto, End
  <2>4. done \subseteq Dims(scan.outer) /\ gone \subseteq Departing /\ Departing \cap done \subseteq gone
    BY <1>1
  <2> QED BY <1>1, <2>2, <2>3, <2>4
<1>4. \/ /\ prev' = Here
         /\ knob' = [k \in DOMAIN knob |-> IF k \in ToSet THEN Here[k] ELSE knob[k]]
         /\ log' = AxisRoutines(Departing, Changing)
         /\ moved' = (ToSet # {})
         /\ Goto("ready")
      \/ \E k \in ToSet, step \in {"leave", "set", "arrive"} :
             LET done == {j \in ToSet : j < k}
                 left_ == Departing \cap (IF step = "leave" THEN done ELSE done \cup {k})
             IN  /\ prev' = [j \in DOMAIN prev |-> IF j \in done THEN Here[j]
                                                   ELSE IF j \in left_ THEN None ELSE prev[j]]
                 /\ log' = AxisRoutines(left_, Changing \cap done)
                 /\ RowFails("outer") \/ GivesUp
  BY ZenonT(60) DEF SetOuter, ToSet, Changing, Departing
<1> QED BY <1>2, <1>3, <1>4

-----------------------------------------------------------------------------
(* Every step keeps the invariant *)

\* The state keeps its shape.
LEMMA ShapedStep ==
  ASSUME Shaped, Next
  PROVE  Shaped'
<1>1. Changes /\ Flow /\ scan' = scan
  BY WhoChanges, WhereNext DEF Changes
<1>2. /\ Rows' = Rows /\ Dims(scan.outer)' = Dims(scan.outer)
      /\ Grid(scan.outer)' = Grid(scan.outer)
      /\ Recorded(scan.outer)' = Recorded(scan.outer)
  BY <1>1, SameScan
<1>3. Rows \in Nat \ {0} /\ row \in 0..Rows /\ scan \in Scans
  BY Scan DEF Shaped
<1>4. /\ pc' \in {"row", "flight", "hold"} \cup Before \cup After \cup Stopping
      /\ how' \in {"running", "done", "aborted", "stopped", "error", "fault"}
  BY <1>1 DEF Shaped, Flow, Ways, Before, After, Stopping
<1>5. LeaveRow => /\ pc = "landed"
                  /\ \/ row' = row /\ pc' = "ending"
                     \/ row' = row + 1 /\ pc' = "row"
  BY DEF LeaveRow, Goto, End
<1>6. row' \in 0..Rows
  <2>1. pc = "landed" => row < Rows
    BY DEF Shaped, After
  <2> QED BY <1>1, <1>3, <1>5, <2>1 DEF Changes
<1>7. pc' \in {"flight", "hold"} \cup Before \cup After => row' < Rows
  <2> SUFFICES ASSUME pc' \in {"flight", "hold"} \cup Before \cup After PROVE row' < Rows
    OBVIOUS
  <2>1. row' = row
    BY <1>1, <1>5 DEF Changes, Before, After
  <2>2. CASE NextRow
    BY <1>3, <2>1, <2>2 DEF NextRow, End, Before, After
  <2>3. CASE ~NextRow
    <3>1. pc \in {"flight", "hold"} \cup Before \cup After
      <4>1. CASE pc' = pc
        BY <4>1
      <4>2. CASE Ways(pc, pc')
        BY <2>3, <4>2 DEF Ways, Before, After
      <4> QED BY <1>1, <4>1, <4>2 DEF Flow, Before, After
    <3> QED BY <2>1, <3>1 DEF Shaped
  <2> QED BY <2>2, <2>3
<1>8. /\ redo' \in BOOLEAN /\ atRunin' \in BOOLEAN /\ moved' \in BOOLEAN
      /\ learned' \in BOOLEAN /\ faulted' \in BOOLEAN
      /\ aborting' \in BOOLEAN /\ held' \in BOOLEAN
  BY <1>1 DEF Shaped, Changes, NextRow, ResumeRow, ToRunIn, AtRunIn, SetOuter, Land, TurnRound,
              FaultAppears, FaultClears, PressAbort, PressPause, PressResume
<1>9. slow' \in BOOLEAN /\ speedAt' \in {"own", "fly"} /\ unset' \in BOOLEAN
  <2>1. slow \in BOOLEAN /\ speedAt \in {"own", "fly"} /\ unset \in BOOLEAN
    BY DEF Shaped
  <2>2. CASE ToRunIn
    BY <2>1, <2>2 DEF ToRunIn, ApproachThen, OwnSpeed, StillSlow
  <2>3. CASE ReturnToRunIn
    BY <2>1, <2>3 DEF ReturnToRunIn, ApproachThen, OwnSpeed, StillSlow
  <2>4. CASE UseFlySpeed
    BY <2>1, <2>4 DEF UseFlySpeed
  <2>5. CASE PutBack
    BY <2>1, <2>5 DEF PutBack, OwnSpeed, StillSlow
  <2> QED BY <1>1, <2>1, <2>2, <2>3, <2>4, <2>5 DEF Changes, Approaches
<1>10. pos' \in Places /\ heading' \in Places \cup {None}
  <2>1. pos \in Places /\ heading \in Places \cup {None}
    BY DEF Shaped
  <2>2. RunIn(row) \in Places /\ FarEnd(row) \in Places /\ Goal \in Places /\ "between" \in Places
    BY DEF RunIn, FarEnd, Goal, Places
  <2>3. CASE ToRunIn
    BY <2>1, <2>2, <2>3 DEF ToRunIn, ApproachThen
  <2>4. CASE ReturnToRunIn
    BY <2>1, <2>2, <2>4 DEF ReturnToRunIn, ApproachThen
  <2>5. CASE TakeOff
    BY <2>1, <2>2, <2>5 DEF TakeOff
  <2>6. CASE Land \/ TurnRound \/ Break \/ AbortFlight
    BY <2>1, <2>6 DEF Land, TurnRound, Break, Interrupted, StopAll, AbortFlight
  <2>7. CASE Moves
    BY <2>1, <2>2, <2>7 DEF Moves, Flies
  <2>8. CASE Moved
    BY <2>1, <2>2, <2>8 DEF Moved, Elsewhere
  <2> QED BY <1>1, <2>1, <2>3, <2>4, <2>5, <2>6, <2>7, <2>8 DEF Changes, Approaches
<1>17. touched' \in BOOLEAN
  BY <1>1 DEF Changes, Land, Moved, Elsewhere, Shaped
<1>11. rbEnd' \in Places \cup {None}
  BY <1>1 DEF Shaped, Changes, Land, AbortFlight
<1>12. streams' \in BOOLEAN /\ loose' \subseteq {"streams", "knob"}
  <2>1. streams \in BOOLEAN /\ loose \subseteq {"streams", "knob"}
    BY DEF Shaped
  <2>2. CASE StopStreams \/ StopAll
    BY <2>1, <2>2 DEF StopStreams, StopAll
  <2>3. CASE TakeOff
    BY <2>1, <2>3 DEF TakeOff
  <2> QED BY <1>1, <2>1, <2>2, <2>3 DEF Changes, recording
<1>13. flight' \in Flights
  <2>1. flight \in Flights /\ pos \in Places /\ faulted \in BOOLEAN /\ atRunin \in BOOLEAN
        /\ touched \in BOOLEAN
    BY DEF Shaped
  <2> DEFINE started == [from |-> pos, faulted |-> faulted, astray |-> atRunin /\ touched]
  <2>2. TakeOff => flight' = flight \/ flight' = started
    BY DEF TakeOff
  <2>3. FaultAppears => flight' = flight \/ flight' = [flight EXCEPT !.faulted = TRUE]
    BY DEF FaultAppears
  <2>4. started \in Flights
    BY <2>1 DEF Flights
  <2>5. [flight EXCEPT !.faulted = TRUE] \in Flights
    BY <2>1 DEF Flights
  <2> QED BY <1>1, <2>1, <2>2, <2>3, <2>4, <2>5 DEF Changes
<1>14. prev' \in [Dims(scan.outer) -> Nat \cup {None}] /\ log' \in [Dims(scan.outer) -> AxisLog]
       /\ knob' \in [Dims(scan.outer) -> Nat \cup {Away}]
  <2>1. /\ prev \in [Dims(scan.outer) -> Nat \cup {None}] /\ log \in [Dims(scan.outer) -> AxisLog]
        /\ knob \in [Dims(scan.outer) -> Nat \cup {Away}]
    BY DEF Shaped
  <2>2. CASE SetOuter
    <3>1. Here \in [Dims(scan.outer) -> Nat] /\ \A k \in Dims(scan.outer) : Here[k] \in Nat
      BY <2>2, HereIn DEF Shaped, SetOuter, Before
    <3>2. \A closed, opened : AxisRoutines(closed, opened) \in [Dims(scan.outer) -> AxisLog]
      BY <2>1 DEF AxisRoutines, AxisLog
    <3>3. log' \in [Dims(scan.outer) -> AxisLog]
      <4>1. \E closed, opened : log' = AxisRoutines(closed, opened)
        BY <2>2, OuterStep
      <4> QED BY <3>2, <4>1
    <3>4. prev' \in [Dims(scan.outer) -> Nat \cup {None}]
      BY <2>1, <2>2, <3>1 DEF SetOuter
    <3>5. knob' \in [Dims(scan.outer) -> Nat \cup {Away}]
      BY <2>1, <2>2, <3>1 DEF SetOuter
    <3> QED BY <3>3, <3>4, <3>5
  <2>3. CASE ~SetOuter
    BY <1>1, <2>1, <2>3 DEF Changes, Reaim
  <2> QED BY <2>2, <2>3
<1>15. rows' \in [Grid(scan.outer) -> Recorded(scan.outer) \cup {None}]
  <2>1. rows \in [Grid(scan.outer) -> Recorded(scan.outer) \cup {None}]
    BY DEF Shaped
  <2>2. [at |-> knob, flight |-> flight] \in Recorded(scan.outer)
    BY DEF Shaped, Recorded
  <2>3. Blank \in [Grid(scan.outer) -> Recorded(scan.outer) \cup {None}]
    BY <2>1 DEF Blank
  <2>4. Binned \in [Grid(scan.outer) -> Recorded(scan.outer) \cup {None}]
    BY <2>1, <2>2 DEF Binned
  <2> QED BY <1>1, <2>1, <2>3, <2>4 DEF Changes
<1>16. left' \in Bounds
  <2>1. left \in Bounds /\ MaxErrors \in Nat /\ MaxFaults \in Nat /\ MaxPauses \in Nat
    BY FlyBoundsAssumption DEF Shaped
  <2>2. CASE \E call : Fails(call)
    BY <2>1, <2>2 DEF Fails, Bounds
  <2>3. CASE Moves
    BY <2>1, <2>3 DEF Moves, Bounds
  <2>4. CASE FaultAppears \/ PressPause
    BY <2>1, <2>4 DEF FaultAppears, PressPause, Bounds
  <2> QED BY <1>1, <2>1, <2>2, <2>3, <2>4 DEF Changes
<1> QED
  BY <1>1, <1>2, <1>3, <1>4, <1>6, <1>7, <1>8, <1>9, <1>10, <1>11, <1>12, <1>13, <1>14, <1>15,
     <1>16, <1>17
  DEF Shaped

\* Nothing records or flies where it should not.
LEMMA QuietStep ==
  ASSUME Shaped, Quiet, Next
  PROVE  Quiet'
<1>1. Changes /\ Flow
  BY WhoChanges, WhereNext
<1>2. streams' => pc' \in {"flight", "ending"} \/ "streams" \in loose'
  <2> SUFFICES ASSUME streams', pc' \notin {"flight", "ending"} PROVE "streams" \in loose'
    OBVIOUS
  <2>1. CASE StopStreams \/ StopAll
    BY <2>1 DEF StopStreams, StopAll, Quiet
  <2>2. CASE TakeOff
    BY <2>2 DEF TakeOff, Goto, End, Hold
  <2>3. CASE streams' = streams /\ loose' \in {loose, loose \ {"knob"}} /\ ~StopStreams /\ ~StopAll
    <3>1. pc \notin {"flight", "ending"}
      <4>1. ~Land /\ ~TurnRound /\ ~Break /\ ~AbortFlight /\ ~PutBack
        BY <2>3 DEF Land, TurnRound, Break, Interrupted, AbortFlight, PutBack, End
      <4> QED BY <1>1, <4>1 DEF Flow, Ways, Before, After
    <3> QED BY <2>3, <3>1 DEF Quiet
  <2> QED BY <1>1, <2>1, <2>2, <2>3 DEF Changes, recording
<1>3. pc' \notin Stopping => how' = "running"
  BY <1>1 DEF Quiet, Flow, Ways, Stopping, Before
<1>4. pc' \in {"row"} \cup After => ~Flies'
  <2> SUFFICES ASSUME pc' \in {"row"} \cup After PROVE heading' = None
    BY DEF Flies
  <2>1. pc = pc' \/ Land \/ CheckRow \/ LeaveRow
    BY <1>1 DEF Flow, Ways, Before, After
  <2>2. CASE Land
    BY <2>2 DEF Land
  <2>3. CASE CheckRow \/ LeaveRow
    BY <2>3 DEF CheckRow, LeaveRow, Quiet, After, Flies, place, MayMove, Elsewhere
  <2>4. CASE pc = pc' /\ ~Land /\ ~CheckRow /\ ~LeaveRow
    <3>1. heading = None
      BY <2>4 DEF Quiet, Flies
    <3>2. pc \notin {"runin", "return", "takeoff", "flight"}
      BY <2>4 DEF After
    <3>3. ~Approaches /\ ~TakeOff /\ ~TurnRound /\ ~Break /\ ~AbortFlight
      BY <3>2 DEF Approaches, ToRunIn, ReturnToRunIn, TakeOff, TurnRound, Break, AbortFlight
    <3>4. ~Moves
      BY <3>1 DEF Moves, Flies
    <3>5. Moved => heading' = None
      BY DEF Moved, Elsewhere
    <3> QED BY <1>1, <2>4, <3>1, <3>3, <3>4, <3>5 DEF Changes
  <2> QED BY <2>1, <2>2, <2>3, <2>4
<1>5. ASSUME how' = "aborted", heading' # None
      PROVE  "knob" \in loose'
  <2>1. CASE AbortFlight
    BY <1>5, <2>1 DEF AbortFlight, StopAll
  <2>2. CASE NextRow
    <3>1. heading = None
      BY <2>2 DEF NextRow, Quiet, Flies
    <3> QED BY <1>5, <2>2, <3>1 DEF NextRow, place
  <2>3. CASE how = "aborted"
    <3>1. pc \in Stopping
      BY <2>3 DEF Quiet
    <3>2. /\ ~Approaches /\ ~TakeOff /\ ~Land /\ ~TurnRound /\ ~Break /\ ~AbortFlight
          /\ ~SetOuter /\ ~RowRoutines /\ ~LeaveRow /\ ~Reaim
      BY <3>1 DEF Approaches, ToRunIn, ReturnToRunIn, TakeOff, Land, TurnRound, Break, AbortFlight,
                  SetOuter, RowRoutines, LeaveRow, Reaim, Stopping
    <3>3. heading # None
      BY <1>1, <1>5, <3>2 DEF Changes, Moved, Moves, Flies
    <3>4. "knob" \in loose
      BY <2>3, <3>3 DEF Quiet, Flies
    <3> QED BY <1>1, <1>5, <3>2, <3>4 DEF Changes, recording, StopStreams, StopAll
  <2>4. how = "aborted" \/ NextRow \/ AbortFlight
    BY <1>1, <1>5 DEF Flow, Quiet
  <2> QED BY <2>1, <2>2, <2>3, <2>4
<1> QED BY <1>2, <1>3, <1>4, <1>5 DEF Quiet, Flies

\* A ramp is told to stop on every way out of a row.
LEMMA LetGoStep ==
  ASSUME Shaped, LetGo, Next
  PROVE  LetGo'
<1>1. Changes /\ Flow /\ scan' = scan
  BY WhoChanges, WhereNext DEF Changes
<1> SUFFICES ASSUME scan.path = "ramp", heading' # None, pc' # "flight"
             PROVE  "knob" \in loose'
  BY <1>1 DEF LetGo, Flies
<1>2. CASE TakeOff
  BY <1>2 DEF TakeOff, Goto, LetGo, Flies
<1>3. CASE StopAll
  BY <1>3 DEF StopAll
<1>4. CASE ~TakeOff /\ ~StopAll
  <2>1. ~Break /\ ~Land /\ ~TurnRound /\ ~AbortFlight
    BY <1>4 DEF Break, Interrupted, Land, TurnRound, AbortFlight
  <2>2. heading # None
    <3>1. Approaches \/ Moves \/ Moved \/ heading' = heading
      BY <1>1, <1>4, <2>1 DEF Changes
    <3>2. Approaches => heading' = heading \/ heading' = None
      BY DEF Approaches, ToRunIn, ReturnToRunIn, ApproachThen
    <3> QED BY <3>1, <3>2 DEF Moves, Flies, Moved, Elsewhere
  <2>3. pc # "flight"
    BY <1>1, <2>1 DEF Flow, Ways, Before, After
  <2>4. "knob" \in loose
    BY <2>2, <2>3 DEF LetGo, Flies
  <2> QED BY <1>1, <1>4, <2>4 DEF Changes, recording, StopStreams
<1> QED BY <1>2, <1>3, <1>4

\* The speed is the stage's own unless the scan has to put it back, or a set of
\* it has failed.
LEMMA SpeedKnownStep ==
  ASSUME Shaped, SpeedKnown, Next
  PROVE  SpeedKnown'
<1>1. Changes /\ scan' = scan
  BY WhoChanges DEF Changes
<1> SUFFICES ASSUME scan.speed = "known", ~slow' PROVE speedAt' = "own" \/ unset'
  BY <1>1 DEF SpeedKnown
<1>2. ~slow => speedAt = "own" \/ unset
  BY DEF SpeedKnown
<1>3. CASE ToRunIn
  BY <1>2, <1>3 DEF ToRunIn, ApproachThen, OwnSpeed, StillSlow
<1>4. CASE ReturnToRunIn
  BY <1>2, <1>4 DEF ReturnToRunIn, ApproachThen, OwnSpeed, StillSlow
<1>5. CASE UseFlySpeed
  BY <1>2, <1>5 DEF UseFlySpeed
<1>6. CASE PutBack
  BY <1>2, <1>6 DEF PutBack, OwnSpeed
<1> QED BY <1>1, <1>2, <1>3, <1>4, <1>5, <1>6 DEF Changes, Approaches

\* A flight has the fly speed, where the scan sets one.
LEMMA PacedStep ==
  ASSUME Shaped, Paced, Next
  PROVE  Paced'
<1>1. Changes /\ Flow /\ scan' = scan
  BY WhoChanges, WhereNext DEF Changes
<1>2. slow \in BOOLEAN
  BY DEF Shaped
<1>3. CASE Approaches
  <2>1. pc' \notin {"takeoff", "flight"} \cup After
    <3>1. pc \in {"runin", "return"}
      BY <1>3 DEF Approaches, ToRunIn, ReturnToRunIn
    <3>2. ~UseFlySpeed /\ ~TakeOff /\ ~Land /\ ~CheckRow
      BY <3>1 DEF UseFlySpeed, TakeOff, Land, CheckRow
    <3> QED BY <1>1, <3>1, <3>2 DEF Flow, Ways, After, Before
  <2>2. slow' => slow
    BY <1>2, <1>3 DEF Approaches, ToRunIn, ReturnToRunIn, ApproachThen, StillSlow
  <2> QED BY <1>1, <2>1, <2>2 DEF Paced
<1>4. CASE UseFlySpeed
  BY <1>1, <1>2, <1>4 DEF Paced, UseFlySpeed, RowFails, GivesUp, Hold, Goto, End, After
<1>5. CASE PutBack
  BY <1>1, <1>2, <1>5 DEF Paced, PutBack, StillSlow, After
<1>6. CASE slow' = slow /\ ~UseFlySpeed
  <2>1. pc' \in {"takeoff", "flight"} \cup After => pc \in {"takeoff", "flight"} \cup After
    BY <1>1, <1>6 DEF Flow, Ways, After, Before
  <2> QED BY <1>1, <1>6, <2>1 DEF Paced
<1> QED BY <1>1, <1>3, <1>4, <1>5, <1>6 DEF Changes

\* Leaving and arriving alternate.
LEMMA PairedStep ==
  ASSUME Shaped, AxisRoutinesPaired, Next
  PROVE  AxisRoutinesPaired'
<1>1. Changes /\ scan' = scan /\ Dims(scan.outer)' = Dims(scan.outer)
  BY WhoChanges, SameScan DEF Changes
<1>2. SUFFICES ASSUME NEW k \in Dims(scan.outer), SetOuter
               PROVE  /\ log'[k].opened \in {log'[k].closed, log'[k].closed + 1}
                      /\ prev'[k] # None <=> log'[k].opened = log'[k].closed + 1
  BY <1>1 DEF Changes, AxisRoutinesPaired
<1> DEFINE o == log[k].opened
           c == log[k].closed
<1>3. /\ o \in Nat /\ c \in Nat /\ o \in {c, c + 1} /\ (prev[k] # None <=> o = c + 1)
      /\ prev \in [Dims(scan.outer) -> Nat \cup {None}] /\ DOMAIN log = Dims(scan.outer)
  BY DEF Shaped, AxisLog, AxisRoutinesPaired
<1>4. Here[k] # None
  BY <1>2, HereIn DEF Shaped, SetOuter, Before
<1>5. \E opening, leaving \in BOOLEAN :
        /\ log'[k] = [opened |-> IF opening THEN o + 1 ELSE o, closed |-> IF leaving THEN c + 1 ELSE c]
        /\ leaving => prev[k] # None /\ Here[k] # prev[k]
        /\ opening => Here[k] # prev[k] /\ prev'[k] = Here[k] /\ (leaving <=> prev[k] # None)
        /\ ~opening => prev'[k] = IF leaving THEN None ELSE prev[k]
  <2>1. \A closed, opened :
          AxisRoutines(closed, opened)[k] =
            [opened |-> IF k \in opened THEN o + 1 ELSE o, closed |-> IF k \in closed THEN c + 1 ELSE c]
    BY <1>3 DEF AxisRoutines
  <2>2. CASE prev' = Here /\ log' = AxisRoutines(Departing, Changing)
    <3>1. WITNESS (k \in Changing) \in BOOLEAN, (k \in Departing) \in BOOLEAN
    <3> QED BY <2>1, <2>2 DEF Changing, Departing
  <2>3. CASE \E done, gone :
                /\ done \subseteq Dims(scan.outer) /\ gone \subseteq Departing
                /\ Departing \cap done \subseteq gone
                /\ prev' = [j \in DOMAIN prev |-> IF j \in done THEN Here[j]
                                                  ELSE IF j \in gone THEN None ELSE prev[j]]
                /\ log' = AxisRoutines(gone, Changing \cap done)
    <3>1. PICK done, gone :
                /\ done \subseteq Dims(scan.outer) /\ gone \subseteq Departing
                /\ Departing \cap done \subseteq gone
                /\ prev' = [j \in DOMAIN prev |-> IF j \in done THEN Here[j]
                                                  ELSE IF j \in gone THEN None ELSE prev[j]]
                /\ log' = AxisRoutines(gone, Changing \cap done)
      BY <2>3
    <3>2. prev'[k] = IF k \in done THEN Here[k] ELSE IF k \in gone THEN None ELSE prev[k]
      BY <1>3, <3>1
    <3>3. WITNESS (k \in Changing \cap done) \in BOOLEAN, (k \in gone) \in BOOLEAN
    <3> QED BY <2>1, <3>1, <3>2 DEF Changing, Departing
  <2> QED BY <1>2, <2>2, <2>3, OuterStep
<1> QED BY <1>3, <1>4, <1>5

\* Each row differs from the one before in some outer dim, and sets it.
LEMMA AdvancesStep ==
  ASSUME Shaped, Advances, Next
  PROVE  Advances'
<1> Changes
  BY WhoChanges
<1>0. Flow
  BY WhereNext
<1>1. /\ scan' = scan
      /\ row' = row => Here' = Here
      /\ Rows' = Rows /\ row \in Nat /\ scan.outer \in Shapes
  <2>1. scan' = scan
    BY DEF Changes
  <2> QED BY <2>1, SameScan, Scan
<1>2. row' = row \/ (LeaveRow /\ row' = row + 1 /\ pc = "landed" /\ pc' = "row")
  BY DEF Changes, LeaveRow, Goto
<1>3. prev' = prev \/ SetOuter
  BY DEF Changes
<1>4. SetOuter => pc = "outer" /\ pc' \in {"ready", "hold", "ending"}
  BY OuterStep
<1>5. ASSUME InRow'
      PROVE  prev' = Here'
  <2>1. row' = row
    BY <1>2, <1>5 DEF InRow, After
  <2>2. InRow \/ SetOuter
    <3>1. pc' = pc \/ Ways(pc, pc')
      BY <1>0, <1>5 DEF Flow, InRow, After
    <3> QED BY <1>5, <3>1 DEF Ways, InRow, After
  <2>3. CASE SetOuter
    <3>1. pc' \notin {"hold", "ending"}
      BY <1>5 DEF InRow, After
    <3>2. prev' = Here
      BY <2>3, <3>1, OuterStep
    <3> QED BY <1>1, <2>1, <3>2
  <2>4. CASE InRow /\ ~SetOuter
    <3>1. prev = Here /\ prev' = prev
      BY <1>3, <2>4 DEF Advances
    <3> QED BY <1>1, <2>1, <3>1
  <2> QED BY <2>2, <2>3, <2>4
<1>6. ASSUME pc' = "ready"
      PROVE  moved'
  <2>1. (pc = "ready" /\ ~SetOuter) \/ SetOuter
    BY <1>0, <1>4, <1>6 DEF Flow, Ways, Before
  <2>2. CASE SetOuter
    <3>1. pc = "outer" /\ moved' = (ToSet # {})
      BY <1>6, <2>2, OuterStep
    <3>2. Dims(scan.outer) # {}
      <4>1. 1 \in Dims(scan.outer)
        BY ScansAssumption DEF Dims, Shaped
      <4> QED BY <4>1
    <3>3. ASSUME ~redo PROVE Changing # {}
      <4>1. prev # Here
        BY <3>1, <3>3 DEF Advances, Coming, Shaped, Before
      <4>2. prev \in [Dims(scan.outer) -> Nat \cup {None}] /\ Here \in [Dims(scan.outer) -> Nat]
        BY <3>1, HereIn DEF Shaped, Before
      <4>3. \E k \in Dims(scan.outer) : Here[k] # prev[k]
        BY <4>1, <4>2
      <4> QED BY <4>3 DEF Changing
    <3> QED BY <3>1, <3>2, <3>3 DEF ToSet
  <2>3. CASE pc = "ready" /\ ~SetOuter
    <3>1. moved' = moved
      BY <2>3 DEF Changes
    <3>2. moved
      BY <2>3 DEF Advances
    <3> QED BY <3>1, <3>2
  <2> QED BY <2>1, <2>2, <2>3
<1>7. ASSUME Coming', row' < Rows
      PROVE  prev' # Here'
  <2>1. prev' = prev
    BY <1>3, <1>4, <1>7 DEF Coming
  <2>2. CASE row' = row + 1 /\ pc = "landed"
    <3>1. prev = IndexOf(row)
      BY <2>2 DEF Advances, InRow, After, Here
    <3>2. Here' = IndexOf(row + 1)
      <4>1. Here' = VisitIndex(row + 1, scan.outer, scan.zig)
        BY <1>1, <2>2 DEF Here, IndexOf
      <4> QED BY <4>1 DEF IndexOf
    <3>3. row \in 0..(Rows - 1) /\ row + 1 \in 0..(Rows - 1) /\ row # row + 1
      BY <1>1, <1>7, <2>2, Scan
    <3> QED BY <2>1, <3>1, <3>2, <3>3, Scan
  <2>3. CASE row' = row
    <3>1. Coming
      <4>1. pc' = pc \/ Ways(pc, pc')
        BY <1>0, <1>7 DEF Flow, Coming
      <4>2. ~ResumeRow
        BY <1>7 DEF ResumeRow, Goto, Coming
      <4>3. LeaveRow => row' # row \/ pc' = "ending"
        BY <1>1 DEF LeaveRow, End
      <4>4. pc \in {"row", "runin", "outer"}
        BY <1>7, <2>3, <4>1, <4>2, <4>3 DEF Ways, Coming
      <4>5. pc = "row" \/ redo' = redo
        BY <4>2 DEF Changes, NextRow
      <4>6. pc' = "row" => pc = "row"
        BY <2>3, <4>1, <4>3 DEF Ways
      <4> QED BY <1>7, <4>4, <4>5, <4>6 DEF Coming
    <3> QED BY <1>1, <1>7, <2>1, <2>3, <3>1 DEF Advances
  <2> QED BY <1>2, <2>2, <2>3
<1> QED BY <1>1, <1>5, <1>6, <1>7 DEF Advances

\* A knob flown by its own setpoint stays on the row.
LEMMA OnLineStep ==
  ASSUME Shaped, OnLine, Next
  PROVE  OnLine'
<1>1. Changes /\ scan' = scan
  BY WhoChanges DEF Changes
<1> SUFFICES ASSUME scan.path # "driven"
             PROVE  pos' \in {"low", "high", "between"} /\ heading' \in {None, "low", "high"}
  BY <1>1 DEF OnLine
<1>2. /\ pos \in {"low", "high", "between"} /\ heading \in {None, "low", "high"}
      /\ RunIn(row) \in {"low", "high"} /\ FarEnd(row) \in {"low", "high"} /\ Goal = FarEnd(row)
  BY TwoEnds DEF OnLine, Goal
<1>3. CASE Approaches
  BY <1>2, <1>3 DEF Approaches, ToRunIn, ReturnToRunIn, ApproachThen
<1>4. CASE TakeOff
  BY <1>2, <1>4 DEF TakeOff
<1>5. CASE Land \/ TurnRound \/ Break \/ AbortFlight
  BY <1>2, <1>5 DEF Land, TurnRound, Break, Interrupted, StopAll, AbortFlight
<1>6. CASE Moves
  BY <1>2, <1>6, FlyValuesAssumption DEF Moves, Flies, Places
<1>7. CASE Moved
  BY <1>7 DEF Moved, Elsewhere
<1> QED BY <1>1, <1>2, <1>3, <1>4, <1>5, <1>6, <1>7 DEF Changes

\* What a scan is to hold for its flights to begin at the start of a row: on
\* zig-zag, a row does not break in flight and go on from there, and no ramp
\* starts whose start seemed to fail.
Steady(s) ==
  s.path # "driven" /\ s.back =>
    "flight" \notin s.breaks /\ (s.path = "ramp" => "start" \notin s.breaks)

\* Where the knob is along the row.
LEMMA AtStartStep ==
  ASSUME Shaped, Quiet, Paced, Advances, OnLine, AtStart, Steady(scan), Next
  PROVE  AtStart'
<1>1. /\ Changes /\ Flow /\ scan' = scan
      /\ (Shortcuts' <=> Shortcuts)
      /\ \A n : RunIn(n)' = RunIn(n) /\ FarEnd(n)' = FarEnd(n)
  BY WhoChanges, WhereNext, SameScan DEF Changes
<1>2. /\ RunIn(row) \in {"low", "high"} /\ FarEnd(row) \in {"low", "high"}
      /\ RunIn(row) # FarEnd(row) /\ scan.back \in BOOLEAN
      /\ ~scan.back => RunIn(row) = "low" /\ RunIn(row + 1) = "low"
      /\ scan.back => RunIn(row + 1) = FarEnd(row)
  BY TwoEnds
<1>3. row' = row \/ (LeaveRow /\ row' = row + 1 /\ pc = "landed" /\ pc' = "row")
  BY <1>1 DEF Changes, LeaveRow, Goto
<1>4. /\ None \notin Places /\ RunIn(row) # None /\ FarEnd(row) # None
      /\ row' = row => (There' <=> pos' = RunIn(row) /\ heading' = None)
  BY <1>1, <1>2, FlyValuesAssumption DEF Places, There, Flies
\* Who moves the knob.
<1>5. (pos' = pos /\ heading' = heading)
      \/ pc \in {"runin", "return", "takeoff", "flight"} \/ Moves \/ Moved
  BY <1>1 DEF Changes, Approaches, ToRunIn, ReturnToRunIn, TakeOff, Land, TurnRound, Break,
     AbortFlight
<1>6. Moves => Flies /\ pc' = pc /\ touched' = touched
  BY DEF Moves, sweepVars
<1>7. Moved => touched' /\ pc \in {"outer", "ready", "landed", "hold", "row"}
  BY DEF Moved, Elsewhere, SetOuter, RowRoutines, LeaveRow, Reaim
<1>8. touched' = touched \/ Land \/ Moved
  BY <1>1 DEF Changes
<1>9. ASSUME ToRunIn, scan.path # "driven", Shortcuts, rbEnd = RunIn(row)
      PROVE  AtRunIn
  BY <1>9 DEF AtStart, AtRunIn, ToRunIn, Before
<1>10. ASSUME ToRunIn, AtRunIn
       PROVE  /\ scan.path # "driven" /\ Shortcuts /\ rbEnd = RunIn(row)
              /\ There \/ touched
              /\ UNCHANGED <<pos, heading, touched, slow>> /\ pc' = "outer"
  <2>1. scan.path # "driven" /\ Shortcuts /\ rbEnd = RunIn(row)
    BY <1>10 DEF AtRunIn, Shortcuts, Paced
  <2>2. There \/ touched
    BY <1>10, <2>1 DEF AtStart, ToRunIn, Before
  <2>3. UNCHANGED <<pos, heading, touched, slow>> /\ pc' = "outer"
    BY <1>10 DEF ToRunIn, Goto
  <2> QED BY <2>1, <2>2, <2>3
<1>11. ASSUME (ToRunIn /\ ~AtRunIn) \/ ReturnToRunIn, pc' \notin {"hold", "ending"}
       PROVE  pos' = RunIn(row) /\ heading' = None
  BY <1>11 DEF ToRunIn, ReturnToRunIn, ApproachThen, RowFails, GivesUp, Hold, Goto, End
\* The knob rests, or something else moves it.
<1>12. ASSUME pc \notin {"runin", "return", "takeoff", "flight"} \/ (pc = "takeoff" /\ ~TakeOff),
              There \/ touched, row' = row
       PROVE  There' \/ touched'
  <2>1. ~Approaches /\ ~TakeOff /\ ~Land /\ ~TurnRound /\ ~Break /\ ~AbortFlight
    BY <1>12 DEF Approaches, ToRunIn, ReturnToRunIn, TakeOff, Land, TurnRound, Break, AbortFlight
  <2>2. CASE touched
    BY <1>7, <1>8, <2>1, <2>2
  <2>3. CASE There
    <3>1. ~Moves
      BY <2>3 DEF There, Moves
    <3>2. (pos' = pos /\ heading' = heading) \/ Moved
      BY <1>1, <2>1, <3>1 DEF Changes
    <3> QED BY <1>4, <1>7, <1>12, <2>3, <3>2 DEF There, Flies
  <2> QED BY <1>12, <2>2, <2>3
<1>13. pc' \in {"speed", "takeoff"} => There' \/ (atRunin' /\ touched')
  <2> SUFFICES ASSUME pc' \in {"speed", "takeoff"} PROVE There' \/ (atRunin' /\ touched')
    OBVIOUS
  <2>0. row' = row
    BY <1>3
  <2>1. \/ ReturnToRunIn \/ (pc = "ready" /\ RowRoutines)
        \/ (pc \in {"speed", "takeoff"} /\ ~TakeOff)
    BY <1>1 DEF Flow, Ways, Before, TakeOff, Goto, End, Hold
  <2>2. CASE ReturnToRunIn
    BY <1>4, <1>11, <2>0, <2>2
  <2>3. CASE pc = "ready" /\ RowRoutines
    <3>1. atRunin /\ atRunin' = atRunin
      BY <2>3 DEF RowRoutines, Advances, Goto, RowFails, GivesUp, Hold, End
    <3>2. There \/ touched
      BY <2>3, <3>1 DEF AtStart
    <3>3. There' \/ touched'
      BY <1>12, <2>0, <2>3, <3>2
    <3> QED BY <3>1, <3>3
  <2>4. CASE pc \in {"speed", "takeoff"} /\ ~TakeOff
    <3>1. There \/ (atRunin /\ touched)
      BY <2>4 DEF AtStart
    <3>2. There' \/ touched'
      BY <1>12, <2>0, <2>4, <3>1
    <3>3. atRunin' = atRunin /\ touched' = touched
      BY <1>1, <1>7, <1>8, <2>4 DEF Changes, ToRunIn, Land
    <3>4. CASE There
      <4>1. ~Moves /\ ~Moved /\ ~Approaches
        BY <1>7, <2>4, <3>4 DEF There, Moves, Approaches, ToRunIn, ReturnToRunIn
      <4>2. pos' = pos /\ heading' = heading
        BY <1>1, <2>4, <4>1 DEF Changes, Land, TurnRound, Break, AbortFlight
      <4> QED BY <1>4, <2>0, <3>4, <4>2 DEF There, Flies
    <3> QED BY <3>1, <3>3, <3>4
  <2> QED BY <2>1, <2>2, <2>3, <2>4
<1>14. pc' \in {"outer", "ready"} /\ atRunin' => There' \/ touched'
  <2> SUFFICES ASSUME pc' \in {"outer", "ready"}, atRunin' PROVE There' \/ touched'
    OBVIOUS
  <2>0. row' = row
    BY <1>3
  <2>1. ToRunIn \/ (pc \in {"outer", "ready"} /\ ~ToRunIn)
    BY <1>1 DEF Flow, Ways, Before, ToRunIn
  <2>2. CASE ToRunIn
    <3>1. AtRunIn
      BY <2>2 DEF ToRunIn
    <3> QED BY <1>4, <1>10, <2>0, <2>2, <3>1 DEF There, Flies
  <2>3. CASE pc \in {"outer", "ready"} /\ ~ToRunIn
    <3>1. atRunin
      BY <1>1, <2>3 DEF Changes
    <3> QED BY <1>12, <2>0, <2>3, <3>1 DEF AtStart
  <2> QED BY <2>1, <2>2, <2>3
<1>15. pc' = "flight" => FromRunIn(flight, row)'
  <2> SUFFICES ASSUME pc' = "flight" PROVE flight'.from = RunIn(row) \/ flight'.astray
    BY <1>1, <1>3 DEF FromRunIn
  <2>1. pc = "flight" \/ TakeOff
    BY <1>1 DEF Flow, Ways
  <2>2. CASE TakeOff
    <3>1. flight' = [from |-> pos, faulted |-> faulted, astray |-> atRunin /\ touched]
      BY <2>2 DEF TakeOff, Goto, End, Hold
    <3>2. There \/ (atRunin /\ touched)
      BY <2>2 DEF TakeOff, AtStart
    <3> QED BY <3>1, <3>2 DEF There
  <2>3. CASE pc = "flight"
    <3>1. flight \in Flights /\ FromRunIn(flight, row) /\ ~TakeOff
      BY <2>3 DEF Shaped, AtStart, TakeOff
    <3>2. flight'.from = flight.from /\ flight'.astray = flight.astray
      BY <1>1, <3>1 DEF Changes, FaultAppears, Flights
    <3> QED BY <3>1, <3>2 DEF FromRunIn
  <2> QED BY <2>1, <2>2, <2>3
<1>16. ASSUME scan.path # "driven", pc' = "flight"
       PROVE  heading' \in {None, FarEnd(row)'} /\ (heading' = None => pos' # RunIn(row)')
  <2>1. pc = "flight" \/ TakeOff
    BY <1>1, <1>16 DEF Flow, Ways
  <2>2. row' = row
    BY <1>3, <1>16
  <2>3. CASE TakeOff
    <3>1. Goal = FarEnd(row)
      BY <1>16 DEF Goal
    <3>2. heading' = Goal
      BY <1>16, <2>3 DEF TakeOff, Goto, End, Hold
    <3> QED BY <1>1, <1>4, <2>2, <3>1, <3>2
  <2>4. CASE pc = "flight"
    <3>1. heading \in {None, FarEnd(row)} /\ (heading = None => pos # RunIn(row))
      BY <1>16, <2>4 DEF AtStart
    <3>2. CASE Moves
      BY <1>1, <1>2, <1>4, <2>2, <3>1, <3>2 DEF Moves, Flies
    <3>3. CASE ~Moves
      <4>1. ~Approaches /\ ~TakeOff /\ ~Land /\ ~TurnRound /\ ~Break /\ ~AbortFlight /\ ~Moved
        BY <1>7, <1>16, <2>4 DEF Approaches, ToRunIn, ReturnToRunIn, TakeOff, Land, TurnRound,
           Break, AbortFlight, Goto, End, Hold
      <4> QED BY <1>1, <2>2, <3>1, <3>3, <4>1 DEF Changes
    <3> QED BY <3>2, <3>3
  <2> QED BY <2>1, <2>3, <2>4
<1>17. ASSUME scan.path # "driven", pc' \in After
       PROVE  rbEnd' = pos' /\ rbEnd' \in {"between", FarEnd(row)'}
  <2>1. row' = row
    BY <1>3, <1>17 DEF After
  <2>2. Land \/ pc \in After
    BY <1>1, <1>17 DEF Flow, Ways, After, Before
  <2>3. CASE Land
    <3>1. pos \in {"between", FarEnd(row)}
      BY <1>2, <1>17, <2>3 DEF Land, Flies, AtStart, OnLine
    <3> QED BY <1>1, <2>1, <2>3, <3>1 DEF Land
  <2>4. CASE pc \in After
    <3>1. ~Flies /\ rbEnd = pos /\ rbEnd \in {"between", FarEnd(row)}
      BY <1>17, <2>4 DEF AtStart, Quiet
    <3>2. ~Moved
      <4>1. LeaveRow => row' # row \/ pc' = "ending"
        BY <1>2, Scan DEF LeaveRow, End
      <4> QED BY <1>17, <2>1, <2>4, <4>1 DEF Moved, SetOuter, RowRoutines, Reaim, After
    <3>3. pos' = pos
      BY <1>5, <1>6, <2>4, <3>1, <3>2 DEF After
    <3>4. rbEnd' = rbEnd
      BY <1>1, <2>4 DEF Changes, Land, AbortFlight, After
    <3> QED BY <1>1, <2>1, <3>1, <3>3, <3>4
  <2> QED BY <2>2, <2>3, <2>4
<1>18. ASSUME scan.path # "driven", ~scan.back, pc' \notin Stopping
       PROVE  rbEnd' # "low"
  <2>1. CASE Land
    BY <1>2, <1>18, <2>1 DEF Land, AtStart, Flies
  <2>2. CASE ~Land
    <3>1. ~AbortFlight
      BY <1>18 DEF AbortFlight, End, Stopping
    <3>2. pc \notin Stopping
      BY <1>1, <1>18 DEF Flow, Ways, Stopping, Before, After
    <3> QED BY <1>1, <1>18, <2>2, <3>1, <3>2 DEF Changes, AtStart
  <2> QED BY <2>1, <2>2
<1>19. ASSUME scan.path # "driven", Shortcuts, pc' \in {"row", "hold"} \cup Before,
              rbEnd' = RunIn(row)'
       PROVE  (There' \/ touched') /\ (slow' \/ scan.path = "ramp")
  <2>1. CASE LeaveRow /\ row' = row + 1
    <3>1. pc = "landed" /\ UNCHANGED <<rbEnd, slow>> /\ (UNCHANGED place \/ Elsewhere)
      BY <2>1 DEF LeaveRow, pace, MayMove
    <3>2. rbEnd = pos /\ ~Flies
      BY <1>19, <3>1 DEF AtStart, Quiet, After
    <3>3. slow \/ scan.path = "ramp"
      BY <1>19, <3>1 DEF Shortcuts, Paced, After
    <3>4. There' \/ touched'
      BY <1>19, <3>1, <3>2 DEF There, Flies, place, Elsewhere
    <3> QED BY <3>1, <3>3, <3>4
  <2>2. CASE row' = row
    <3>1. rbEnd' = RunIn(row)
      BY <1>1, <1>19, <2>2
    <3>2. pc \notin {"flight"} \cup After \cup Stopping
      <4>1. CASE pc = "flight"
        <5>1. ~Land
          BY <1>19 DEF Land, Goto, Before
        <5>2. ~AbortFlight
          BY <1>19 DEF AbortFlight, End, Before
        <5>3. rbEnd' = rbEnd /\ (TurnRound \/ Break)
          BY <1>1, <1>19, <4>1, <5>1, <5>2 DEF Changes, Flow, Ways, Before, After
        <5>4. Break /\ ~scan.back
          BY <1>19, <5>3 DEF TurnRound, Break, Fails, Steady
        <5>5. rbEnd # "low"
          BY <1>19, <4>1, <5>4 DEF AtStart, Stopping
        <5> QED BY <1>2, <3>1, <5>3, <5>4, <5>5
      <4>2. CASE pc \in After
        <5>1. rbEnd' = rbEnd
          BY <1>1, <4>2 DEF Changes, Land, AbortFlight, After
        <5> QED BY <1>2, <1>19, <3>1, <4>2, <5>1 DEF AtStart
      <4>3. CASE pc \in Stopping
        BY <1>1, <1>19, <4>3 DEF Flow, Ways, Stopping, Before, After
      <4> QED BY <4>1, <4>2, <4>3
    <3>3. pc \in {"row", "hold"} \cup Before /\ rbEnd' = rbEnd
      BY <1>1, <3>2 DEF Shaped, Changes, Land, AbortFlight
    <3>4. (There \/ touched) /\ (slow \/ scan.path = "ramp")
      BY <1>19, <3>1, <3>3 DEF AtStart
    <3>5. CASE Approaches
      <4>1. ~ReturnToRunIn
        BY <1>19, <3>1, <3>3 DEF AtStart, ReturnToRunIn
      <4>2. ToRunIn /\ AtRunIn
        BY <1>9, <1>19, <3>1, <3>3, <3>5, <4>1 DEF Approaches
      <4> QED BY <1>4, <1>10, <2>2, <3>4, <4>2 DEF There, Flies
    <3>6. CASE ~Approaches
      <4>1. There' \/ touched'
        <5>1. CASE TakeOff
          <6>1. scan.back
            BY <1>2, <1>19, <3>1, <3>3, <5>1 DEF TakeOff, AtStart, Stopping
          <6>2. pc' # "flight" /\ "start" \in scan.breaks
            BY <1>19, <5>1 DEF TakeOff, Goto, Fails, Before
          <6>3. heading' = heading /\ pos' = pos /\ touched' = touched
            BY <1>19, <5>1, <6>1, <6>2 DEF TakeOff, Steady, Goto
          <6> QED BY <1>4, <2>2, <3>4, <6>3 DEF There, Flies
        <5>2. CASE ~TakeOff
          <6>1. ~Land /\ ~TurnRound /\ ~Break /\ ~AbortFlight
            BY <3>2 DEF Land, TurnRound, Break, AbortFlight
          <6>2. CASE touched
            BY <1>7, <1>8, <6>1, <6>2
          <6>3. CASE There
            <7>1. ~Moves
              BY <6>3 DEF There, Moves
            <7>2. (pos' = pos /\ heading' = heading) \/ Moved
              BY <1>1, <3>6, <5>2, <6>1, <7>1 DEF Changes
            <7> QED BY <1>4, <1>7, <2>2, <6>3, <7>2 DEF There, Flies
          <6> QED BY <3>4, <6>2, <6>3
        <5> QED BY <5>1, <5>2
      <4>2. slow' \/ scan.path = "ramp"
        <5>1. ~PutBack
          BY <3>2 DEF PutBack, Stopping
        <5>2. UseFlySpeed => slow' = slow \/ slow' = (scan.speed # "none")
          BY DEF UseFlySpeed
        <5> QED BY <1>1, <1>19, <3>4, <3>6, <5>1, <5>2 DEF Changes, Shortcuts
      <4> QED BY <4>1, <4>2
    <3> QED BY <3>5, <3>6
  <2> QED BY <1>3, <2>1, <2>2
<1>20. ASSUME scan.path # "driven", Shortcuts, rbEnd' = RunIn(row)'
       PROVE  /\ pc' \in {"outer", "ready"} => atRunin'
              /\ pc' # "return"
  <2>1. ASSUME pc' \in {"outer", "ready", "return"}
        PROVE  row' = row /\ rbEnd' = rbEnd /\ rbEnd = RunIn(row)
    BY <1>1, <1>3, <1>20, <2>1 DEF Changes, Land, AbortFlight, Goto, End
  <2>2. pc' \in {"outer", "ready"} => atRunin'
    <3> SUFFICES ASSUME pc' \in {"outer", "ready"} PROVE atRunin'
      OBVIOUS
    <3>1. CASE ToRunIn
      <4>1. atRunin' = AtRunIn
        BY <3>1 DEF ToRunIn
      <4>2. AtRunIn
        BY <1>9, <1>20, <2>1, <3>1
      <4> QED BY <4>1, <4>2
    <3>2. CASE ~ToRunIn
      <4>1. pc \in {"outer", "ready"}
        BY <1>1, <3>2 DEF Flow, Ways, Before
      <4> QED BY <1>1, <1>20, <2>1, <3>2, <4>1 DEF Changes, AtStart
    <3> QED BY <3>1, <3>2
  <2>3. pc' # "return"
    <3> SUFFICES ASSUME pc' = "return" PROVE FALSE
      OBVIOUS
    <3>1. (pc = "return" /\ ~ReturnToRunIn) \/ ReturnToRunIn \/ (pc = "ready" /\ RowRoutines) \/ TurnRound
      BY <1>1 DEF Flow, Ways, Before
    <3>2. RowRoutines => ~atRunin
      BY DEF RowRoutines, Goto, RowFails, GivesUp, Hold, End
    <3> QED BY <1>20, <2>1, <3>1, <3>2 DEF AtStart, TurnRound, ReturnToRunIn
  <2> QED BY <2>2, <2>3
<1> QED BY <1>1, <1>13, <1>14, <1>15, <1>16, <1>17, <1>18, <1>19, <1>20 DEF AtStart

\* What a scan is to hold for the outer knobs to stand where the scan has set
\* them: it sets all of them for every row, or nobody moves them in the Pause.
Undisturbed(s) == Len(s.outer) = 1 \/ "person" \notin s.also

\* Where the outer knobs stand.
LEMMA OnRowStep ==
  ASSUME Shaped, Advances, OnRow, Undisturbed(scan), Next
  PROVE  OnRow'
<1> DEFINE Kept == \A k \in Dims(scan.outer) : prev[k] # None => knob[k] = prev[k]
<1> Changes
  BY WhoChanges
<1>0. Flow
  BY WhereNext
<1>1. /\ scan' = scan /\ Dims(scan.outer)' = Dims(scan.outer)
      /\ row' = row => Here' = Here
  <2>1. scan' = scan
    BY DEF Changes
  <2> QED BY <2>1, SameScan
<1>2. row' = row \/ pc' = "row" \/ pc' \in Stopping
  BY DEF Changes, LeaveRow, Goto, End, Stopping
<1>3. knob' = knob \/ pc = "outer" \/ Reaim
  BY OuterStep DEF Changes
<1>4. ASSUME InRow'
      PROVE  knob' = Here'
  <2>1. row' = row
    BY <1>2, <1>4 DEF InRow, After, Stopping
  <2>2. InRow \/ SetOuter
    <3>1. pc' = pc \/ Ways(pc, pc')
      BY <1>0, <1>4 DEF Flow, InRow, After
    <3> QED BY <1>4, <3>1 DEF Ways, InRow, After
  <2>3. CASE InRow
    <3>1. ~Reaim /\ pc # "outer"
      BY <2>3 DEF Reaim, InRow, After
    <3> QED BY <1>1, <1>3, <2>1, <2>3, <3>1 DEF OnRow
  <2>4. CASE SetOuter
    <3>1. /\ pc = "outer"
          /\ knob' = [k \in DOMAIN knob |-> IF k \in ToSet THEN Here[k] ELSE knob[k]]
      BY <1>4, <2>4, OuterStep DEF InRow, After
    <3>2. /\ Here \in [Dims(scan.outer) -> Nat]
          /\ \A k \in Dims(scan.outer) : Here[k] # None
          /\ DOMAIN knob = Dims(scan.outer)
          /\ row < Rows
      BY <3>1, HereIn DEF Shaped, Before
    <3>3. ASSUME NEW k \in Dims(scan.outer), k \notin ToSet
          PROVE  knob[k] = Here[k]
      <4>1. ~redo /\ Here[k] = prev[k]
        BY <3>3 DEF ToSet, Changing
      <4>2. CASE "person" \notin scan.also
        BY <3>1, <3>2, <4>1, <4>2 DEF OnRow, Coming
      <4>3. CASE Len(scan.outer) = 1
        <5>1. Dims(scan.outer) = {k}
          BY <3>3, <4>3 DEF Dims
        <5>2. prev # Here
          BY <3>1, <3>2, <4>1 DEF Advances, Coming
        <5>3. prev \in [Dims(scan.outer) -> Nat \cup {None}]
          BY DEF Shaped
        <5> QED BY <3>2, <4>1, <5>1, <5>2, <5>3
      <4> QED BY <4>2, <4>3 DEF Undisturbed
    <3>4. knob' = [k \in Dims(scan.outer) |-> Here[k]]
      BY <3>1, <3>2, <3>3
    <3> QED BY <1>1, <2>1, <3>2, <3>4
  <2> QED BY <2>2, <2>3, <2>4
<1>5. ASSUME Coming', "person" \notin scan.also
      PROVE  Kept'
  <2>1. ~SetOuter /\ ~Reaim
    <3>1. ~SetOuter
      BY <1>5, OuterStep DEF Coming
    <3>2. ~Reaim
      BY <1>5 DEF Reaim, Coming
    <3> QED BY <3>1, <3>2
  <2>2. knob' = knob /\ prev' = prev
    BY <2>1 DEF Changes
  <2>3. Kept
    <3>1. CASE Coming
      BY <1>5, <3>1 DEF OnRow
    <3>2. CASE pc = "landed"
      BY <3>2 DEF OnRow, Advances, InRow, After
    <3>3. Coming \/ pc = "landed"
      <4>1. CASE pc' = "row"
        BY <1>0, <4>1 DEF Flow, Ways, Before, After, Coming
      <4>2. CASE pc' \in {"runin", "outer"} /\ ~redo'
        <5>1. pc' = pc \/ Ways(pc, pc')
          BY <1>0, <4>2 DEF Flow
        <5>2. ~ResumeRow
          BY <4>2 DEF ResumeRow
        <5>3. pc \in {"row", "runin", "outer"}
          BY <4>2, <5>1, <5>2 DEF Ways
        <5>4. pc = "row" \/ redo' = redo
          BY <5>2 DEF Changes, NextRow
        <5> QED BY <4>2, <5>3, <5>4 DEF Coming
      <4> QED BY <1>5, <4>1, <4>2 DEF Coming
    <3> QED BY <3>1, <3>2, <3>3
  <2> QED BY <1>1, <2>2, <2>3
<1> QED BY <1>1, <1>4, <1>5 DEF OnRow

\* What the rows hold, when no fault comes and goes unseen.
LEMMA LandedStep ==
  ASSUME FaultsLast, Shaped, AtStart, OnRow, Landed, Next
  PROVE  Landed'
<1> Changes
  BY WhoChanges
<1>0. Flow
  BY WhereNext
<1>1. /\ scan' = scan
      /\ row' = row => Here' = Here
      /\ \A n : IndexOf(n)' = IndexOf(n) /\ RunIn(n)' = RunIn(n)
  <2>1. scan' = scan
    BY DEF Changes
  <2> QED BY <2>1, SameScan
<1>2. row' = row \/ LeaveRow
  BY DEF Changes
<1>3. LeaveRow => pc = "landed" /\ rows' = rows /\ pc' \in {"row"} \cup Stopping
                  /\ row' \in {row, row + 1} /\ (row' # row => pc' = "row")
  BY DEF LeaveRow, Goto, End, Stopping
<1>4. /\ rows' = rows \/ (rows' = Binned /\ pc = "flight")
           \/ (rows' = Blank /\ pc \in {"flight", "check"} \cup Before /\ pc' \in {"hold", "ending"})
      /\ DOMAIN rows = Grid(scan.outer)
  BY DEF Changes, Shaped
<1>5. /\ pc' = "flight" => pc = "flight" \/ TakeOff
      /\ pc' = "check" => pc = "check" \/ Land
      /\ pc' = "landed" => pc = "landed" \/ (pc = "check" /\ CheckRow)
  <2>1. ASSUME pc' \in {"flight", "check", "landed"}
        PROVE  pc' = pc \/ Ways(pc, pc')
    BY <1>0, <2>1 DEF Flow
  <2> QED BY <2>1 DEF Ways
<1>6. flight' = flight \/ TakeOff \/ (FaultAppears /\ pc' = pc /\ (pc = "flight" \/ flight' = flight))
  BY DEF Changes, FaultAppears, sweepVars
<1>7. ASSUME pc' \in {"flight", "check"}, flight'.faulted
      PROVE  faulted'
  <2>1. CASE TakeOff
    <3>1. /\ flight' = [from |-> pos, faulted |-> faulted, astray |-> atRunin /\ touched]
          /\ faulted' = faulted
      BY <1>7, <2>1 DEF TakeOff, Goto, End, Hold
    <3> QED BY <1>7, <3>1
  <2>2. CASE FaultAppears
    BY <2>2 DEF FaultAppears
  <2>3. CASE ~TakeOff /\ ~FaultAppears
    <3>1. pc \in {"flight", "check"} /\ flight' = flight
      BY <1>5, <1>6, <1>7, <2>3 DEF Land
    <3>2. ~FaultClears
      BY <3>1 DEF FaultClears
    <3> QED BY <1>7, <2>3, <3>1, <3>2 DEF Changes, Landed
  <2> QED BY <2>1, <2>2, <2>3
<1>8. ASSUME pc' \in After
      PROVE  rows'[Here'] = [at |-> Here', flight |-> flight'] /\ FromRunIn(flight, row)'
  <2>1. row' = row /\ Here' = Here /\ RunIn(row)' = RunIn(row)
    BY <1>1, <1>2, <1>3, <1>8 DEF After, Stopping
  <2>2. CASE Land
    <3>1. rows' = Binned /\ flight' = flight /\ pc = "flight"
      BY <2>2 DEF Land
    <3>2. Here \in Grid(scan.outer) /\ knob = Here /\ FromRunIn(flight, row)
      BY <3>1, HereIn DEF Shaped, OnRow, InRow, AtStart
    <3>3. rows'[Here] = [at |-> Here, flight |-> flight]
      BY <1>4, <3>1, <3>2 DEF Binned
    <3> QED BY <2>1, <3>1, <3>2, <3>3 DEF FromRunIn
  <2>3. CASE pc \in After /\ ~Land
    <3>1. rows' = rows /\ flight' = flight
      BY <1>4, <1>6, <1>8, <2>3 DEF TakeOff, After, Before
    <3> QED BY <2>1, <2>3, <3>1 DEF Landed, FromRunIn
  <2> QED BY <1>5, <1>8, <2>2, <2>3 DEF After
<1>9. ASSUME pc' = "landed"
      PROVE  ~flight'.faulted
  <2>1. flight' = flight
    BY <1>5, <1>6, <1>9 DEF TakeOff
  <2>2. CASE pc = "check" /\ CheckRow
    <3>1. ~faulted
      BY <1>9, <2>2 DEF CheckRow, Goto, End, Hold
    <3> QED BY <2>1, <2>2, <3>1 DEF Landed
  <2>3. CASE pc = "landed"
    BY <2>1, <2>3 DEF Landed
  <2> QED BY <1>5, <1>9, <2>2, <2>3
<1>10. RowsBelong'
  <2>1. SUFFICES ASSUME NEW n \in 0..(row' - 1)
                 PROVE  /\ rows'[IndexOf(n)] # None
                        /\ rows'[IndexOf(n)].at = IndexOf(n)
                        /\ FromRunIn(rows'[IndexOf(n)].flight, n)
                        /\ ~rows'[IndexOf(n)].flight.faulted
    BY <1>1 DEF RowsBelong, FromRunIn
  <2>2. /\ row \in Nat /\ Rows \in Nat /\ row <= Rows
        /\ \A m \in 0..(Rows - 1) : IndexOf(m) \in Grid(scan.outer)
        /\ \A m, o \in 0..(Rows - 1) : IndexOf(m) = IndexOf(o) => m = o
    BY Scan DEF Shaped
  <2>3. row' \in {row, row + 1}
    BY <1>2, <1>3
  <2>4. CASE n \in 0..(row - 1)
    <3>1. rows'[IndexOf(n)] = rows[IndexOf(n)]
      <4>1. CASE rows' = rows
        BY <4>1
      <4>2. CASE rows' \in {Binned, Blank} /\ pc \in {"flight", "check"} \cup Before
        <5>1. row < Rows
          BY <4>2 DEF Shaped, After
        <5>2. n \in 0..(Rows - 1) /\ row \in 0..(Rows - 1) /\ n # row
          BY <2>2, <2>4, <5>1
        <5>3. IndexOf(n) # Here /\ IndexOf(n) \in DOMAIN rows
          BY <1>4, <2>2, <5>2 DEF Here
        <5> QED BY <4>2, <5>3 DEF Binned, Blank
      <4> QED BY <1>4, <4>1, <4>2
    <3> QED BY <2>4, <3>1 DEF Landed, RowsBelong
  <2>5. CASE n = row /\ row' = row + 1
    <3>1. LeaveRow /\ pc = "landed" /\ rows' = rows
      BY <1>2, <1>3, <2>2, <2>5
    <3>2. /\ rows[Here] = [at |-> Here, flight |-> flight]
          /\ FromRunIn(flight, row) /\ ~flight.faulted
      BY <3>1 DEF Landed, After
    <3>3. Here \in Grid(scan.outer) /\ Here = IndexOf(row)
      BY <3>1, HereIn DEF Shaped, After, Here
    <3>4. rows[Here] # None
      <4>1. Here \in [Dims(scan.outer) -> Nat] /\ flight \in Flights
        BY <3>1, HereIn DEF Shaped, After
      <4>2. rows[Here] \in Recorded(scan.outer)
        BY <3>2, <4>1 DEF Recorded
      <4> QED BY <4>2, Scan, FlyValuesAssumption
    <3> QED BY <2>5, <3>1, <3>2, <3>3, <3>4
  <2> QED BY <2>2, <2>3, <2>4, <2>5
<1> QED BY <1>7, <1>8, <1>9, <1>10 DEF Landed

\* The scan that ended has no fly speed in force that it could put back.
Restored == pc = "ended" /\ scan.speed = "known" => ~slow \/ unset

LEMMA RestoredStep ==
  ASSUME Restored, Next
  PROVE  Restored'
<1> Changes
  BY WhoChanges
<1>0. Flow
  BY WhereNext
<1>1. SUFFICES ASSUME pc' = "ended", scan.speed = "known"
               PROVE  ~slow' \/ unset'
  BY DEF Restored, Changes
<1>2. PutBack \/ pc = "ended"
  BY <1>0, <1>1 DEF Flow, Ways
<1>3. CASE PutBack
  BY <1>1, <1>3 DEF PutBack, StillSlow
<1>4. CASE pc = "ended" /\ ~PutBack
  <2>1. ~Approaches /\ ~UseFlySpeed
    BY <1>4 DEF Approaches, ToRunIn, ReturnToRunIn, UseFlySpeed
  <2> QED BY <1>1, <1>4, <2>1 DEF Changes, Restored
<1> QED BY <1>2, <1>3, <1>4

\* What holds of every fly scan.
Bookkeeping == Shaped /\ Quiet /\ Paced /\ AxisRoutinesPaired /\ Advances /\ OnLine

\* The invariants hold when fly_sweep is called.
LEMMA AllAtFirst ==
  ASSUME Init
  PROVE  /\ Bookkeeping /\ AtStart /\ OnRow /\ Landed
         /\ SpeedKnown /\ Restored /\ LetGo
<1>1. scan \in Scans /\ pc = "row" /\ row = 0 /\ heading = None /\ rbEnd = None
  BY DEF Init
<1>2. Shaped
  <2>1. scan.outer \in Shapes /\ Len(scan.outer) \in Nat
    BY <1>1, ScansAssumption DEF Shapes
  <2>2. Rows \in Nat \ {0}
    <3>1. 1 \in 1..(Len(scan.outer) + 1)
      BY <2>1
    <3> QED BY <2>1, <3>1, BlockIs DEF Rows
  <2>3. row \in 0..Rows /\ left \in Bounds
    BY <2>2, FlyBoundsAssumption DEF Init, Bounds
  <2>4. /\ prev \in [Dims(scan.outer) -> Nat \cup {None}]
        /\ knob \in [Dims(scan.outer) -> Nat \cup {Away}]
        /\ rows \in [Grid(scan.outer) -> Recorded(scan.outer) \cup {None}]
        /\ log \in [Dims(scan.outer) -> AxisLog]
    BY DEF Init, AxisLog
  <2>5. flight \in Flights /\ pos \in Places /\ loose \subseteq {"streams", "knob"}
    BY DEF Init, Flights, Places
  <2>6. /\ how = "running" /\ speedAt = "own"
        /\ redo = FALSE /\ atRunin = FALSE /\ moved = FALSE /\ slow = FALSE /\ learned = FALSE
        /\ streams = FALSE /\ faulted = FALSE /\ aborting = FALSE /\ held = FALSE
        /\ touched = FALSE /\ unset = FALSE
    BY DEF Init
  <2> QED BY <1>1, <2>3, <2>4, <2>5, <2>6 DEF Shaped, Before, After, Stopping
<1>3. None # "low" /\ RunIn(row) # None
  BY <1>2, TwoEnds, FlyValuesAssumption DEF Places
<1>4. Quiet /\ Paced /\ SpeedKnown /\ Restored /\ LetGo
  BY DEF Init, Quiet, Paced, SpeedKnown, Restored, LetGo, Flies, After, Stopping
<1>5. AxisRoutinesPaired
  BY DEF Init, AxisRoutinesPaired
<1>6. AtStart
  BY <1>1, <1>3 DEF AtStart, After
<1>7. OnRow
  BY DEF Init, OnRow, InRow, After
<1>8. Landed
  BY <1>1 DEF Landed, RowsBelong, After
<1>9. Advances
  <2>1. 1 \in Dims(scan.outer)
    BY <1>1, ScansAssumption DEF Dims
  <2>2. prev[1] = None /\ moved = FALSE
    BY <2>1 DEF Init
  <2>3. row < Rows => Here[1] # None
    BY <1>2, <2>1, HereIn
  <2> QED BY <1>1, <2>2, <2>3 DEF Advances, InRow, After
<1>10. OnLine
  BY DEF Init, OnLine
<1> QED BY <1>2, <1>4, <1>5, <1>6, <1>7, <1>8, <1>9, <1>10 DEF Bookkeeping

\* They are the same after a step that changes nothing.
LEMMA AllStay ==
  ASSUME UNCHANGED vars
  PROVE  /\ Bookkeeping => Bookkeeping'
         /\ AtStart => AtStart'
         /\ OnRow => OnRow'
         /\ Landed => Landed'
         /\ SpeedKnown => SpeedKnown'
         /\ Restored => Restored'
         /\ LetGo => LetGo'
<1>1. UNCHANGED <<scan, pc, row, redo, prev, rbEnd, atRunin, moved, slow, learned, rows, how, knob,
                  pos, heading, touched, speedAt, unset, streams, loose, flight, faulted, aborting,
                  held, left, log>>
  BY DEF vars, stepped, place, pace, recording, operator
<1>2. /\ Rows' = Rows /\ Dims(scan.outer)' = Dims(scan.outer)
      /\ Grid(scan.outer)' = Grid(scan.outer) /\ Recorded(scan.outer)' = Recorded(scan.outer)
      /\ \A n : IndexOf(n)' = IndexOf(n) /\ RunIn(n)' = RunIn(n) /\ FarEnd(n)' = FarEnd(n)
      /\ Here' = Here /\ (Shortcuts' <=> Shortcuts) /\ (Flies' <=> Flies)
  BY <1>1, SameScan DEF Flies
<1>3. Shaped => Shaped'
  BY <1>1, <1>2 DEF Shaped
<1>4. (Quiet => Quiet') /\ (LetGo => LetGo')
  BY <1>1, <1>2 DEF Quiet, LetGo
<1>5. (Paced => Paced') /\ (SpeedKnown => SpeedKnown') /\ (Restored => Restored')
  BY <1>1 DEF Paced, SpeedKnown, Restored
<1>6. AxisRoutinesPaired => AxisRoutinesPaired'
  BY <1>1, <1>2 DEF AxisRoutinesPaired
<1>7. AtStart => AtStart'
  BY <1>1, <1>2 DEF AtStart, There, FromRunIn
<1>8. OnRow => OnRow'
  BY <1>1, <1>2 DEF OnRow, InRow, Coming
<1>9. Landed => Landed'
  BY <1>1, <1>2 DEF Landed, RowsBelong, FromRunIn
<1>10. (Advances => Advances') /\ (OnLine => OnLine')
  BY <1>1, <1>2 DEF Advances, InRow, Coming, OnLine
<1> QED BY <1>3, <1>4, <1>5, <1>6, <1>7, <1>8, <1>9, <1>10 DEF Bookkeeping

-----------------------------------------------------------------------------
(* The theorems *)

LEMMA BookkeepingHolds == Spec => []Bookkeeping
<1>1. Init => Bookkeeping
  BY AllAtFirst DEF Bookkeeping
<1>2. Bookkeeping /\ [Next]_vars => Bookkeeping'
  <2> SUFFICES ASSUME Bookkeeping, [Next]_vars PROVE Bookkeeping'
    OBVIOUS
  <2>1. CASE Next
    BY <2>1, ShapedStep, QuietStep, PacedStep, PairedStep, AdvancesStep, OnLineStep
    DEF Bookkeeping
  <2>2. CASE UNCHANGED vars
    BY <2>2, AllStay
  <2> QED BY <2>1, <2>2
<1> QED BY <1>1, <1>2, PTL DEF Spec

\* The state of a fly scan has the shape the code gives it.
THEOREM TypeCorrect == Spec => []TypeOK
<1>1. Bookkeeping => TypeOK
  <2> SUFFICES ASSUME Shaped PROVE TypeOK
    BY DEF Bookkeeping
  <2>1. /\ \A idx \in DOMAIN rows : rows[idx] = None \/ rows[idx] \in Recorded(scan.outer)
        /\ left \in [faults : 0..MaxFaults, errors : 0..MaxErrors, pauses : 0..MaxPauses]
    BY DEF Shaped, Bounds
  <2>2. {redo, atRunin, moved, slow, learned, streams, touched, unset, faulted, aborting, held}
          \subseteq BOOLEAN
    BY DEF Shaped
  <2>3. pc \in {"row", "runin", "outer", "ready", "return", "speed", "takeoff", "flight", "check",
                "landed", "hold", "ending", "ended"}
    BY DEF Shaped, Before, After, Stopping
  <2> QED BY <2>1, <2>2, <2>3 DEF Shaped, TypeOK
<1> QED BY <1>1, BookkeepingHolds, PTL

\* Leaving a value and arriving at the next one alternate on every outer axis,
\* whatever row is flown again and whichever routine fails.
THEOREM OncePerValue == Spec => []AxisRoutinesPaired
<1>1. Bookkeeping => AxisRoutinesPaired
  BY DEF Bookkeeping
<1> QED BY <1>1, BookkeepingHolds, PTL

\* Every flight begins at its row's start, whatever else moves the stage before an
\* approach, in scans whose zig-zag rows do not break in flight and whose zig-zag
\* ramps do not start when their start seems to fail.
THEOREM FromTheStart ==
  ASSUME \A s \in Scans : Steady(s)
  PROVE  Spec => []StartsAtRunIn
<1>1. Init => AtStart
  BY AllAtFirst
<1>2. Bookkeeping /\ AtStart /\ [Next]_vars => AtStart'
  <2> SUFFICES ASSUME Bookkeeping, AtStart, [Next]_vars PROVE AtStart'
    OBVIOUS
  <2>1. CASE Next
    <3>1. Steady(scan)
      BY DEF Bookkeeping, Shaped
    <3> QED BY <2>1, <3>1, AtStartStep DEF Bookkeeping
  <2>2. CASE UNCHANGED vars
    BY <2>2, AllStay
  <2> QED BY <2>1, <2>2
<1>3. AtStart => StartsAtRunIn
  BY DEF AtStart, StartsAtRunIn
<1> QED BY <1>1, <1>2, <1>3, BookkeepingHolds, PTL DEF Spec

\* Each row the scan has gone on from holds one flight, its own: from the row's
\* start, with the outer knobs where its slot says and with no fault on, if a
\* fault does not come and go within the row unseen and no person moves an outer
\* knob in the Pause that the next row does not set.
THEOREM RowsAreTheirOwn ==
  ASSUME FaultsLast, \A s \in Scans : Steady(s) /\ Undisturbed(s)
  PROVE  Spec => []RowsComplete
<1> DEFINE Inv == AtStart /\ OnRow /\ Landed
<1>1. Init => Inv
  BY AllAtFirst
<1>2. Bookkeeping /\ Inv /\ [Next]_vars => Inv'
  <2> SUFFICES ASSUME Bookkeeping, Inv, [Next]_vars PROVE Inv'
    OBVIOUS
  <2>1. CASE Next
    <3>1. Steady(scan) /\ Undisturbed(scan)
      BY DEF Bookkeeping, Shaped
    <3> QED BY <2>1, <3>1, AtStartStep, OnRowStep, LandedStep DEF Bookkeeping
  <2>2. CASE UNCHANGED vars
    BY <2>2, AllStay
  <2> QED BY <2>1, <2>2
<1>3. Bookkeeping /\ Inv => RowsComplete
  BY DEF Bookkeeping, Landed, RowsComplete
<1> QED BY <1>1, <1>2, <1>3, BookkeepingHolds, PTL DEF Spec

\* The stage has the speed it had before the scan again on every end, where that
\* speed was read: whatever else failed or was aborted, if the last set of a speed
\* itself did not.
THEOREM OwnSpeedAgain == Spec => []SpeedPutBack
<1>1. Init => SpeedKnown /\ Restored
  BY AllAtFirst
<1>2. Bookkeeping /\ SpeedKnown /\ Restored /\ [Next]_vars => SpeedKnown' /\ Restored'
  <2> SUFFICES ASSUME Bookkeeping, SpeedKnown, Restored, [Next]_vars
               PROVE  SpeedKnown' /\ Restored'
    OBVIOUS
  <2>1. CASE Next
    BY <2>1, SpeedKnownStep, RestoredStep DEF Bookkeeping
  <2>2. CASE UNCHANGED vars
    BY <2>2, AllStay
  <2> QED BY <2>1, <2>2
<1>3. SpeedKnown /\ Restored => SpeedPutBack
  BY DEF SpeedKnown, Restored, SpeedPutBack
<1> QED BY <1>1, <1>2, <1>3, BookkeepingHolds, PTL DEF Spec

\* A row that is over, however it broke off, leaves no stream recording and no
\* ramp sweeping behind it, nor does an abort leave anything flying, but for what
\* a call that failed has left going.
THEOREM NothingLeftBehind == Spec => []NothingGoesOn
<1>1. Init => LetGo
  BY AllAtFirst
<1>2. Bookkeeping /\ LetGo /\ [Next]_vars => LetGo'
  <2> SUFFICES ASSUME Bookkeeping, LetGo, [Next]_vars PROVE LetGo'
    OBVIOUS
  <2>1. CASE Next
    BY <2>1, LetGoStep DEF Bookkeeping
  <2>2. CASE UNCHANGED vars
    BY <2>2, AllStay
  <2> QED BY <2>1, <2>2
<1>3. Bookkeeping /\ LetGo => NothingGoesOn
  BY DEF Bookkeeping, Quiet, LetGo, NothingGoesOn, StreamsStopped, SweepLetGo, AbortStopsFlight
<1> QED BY <1>1, <1>2, <1>3, BookkeepingHolds, PTL DEF Spec

=============================================================================
