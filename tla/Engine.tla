------------------------------- MODULE Engine -------------------------------
(***************************************************************************)
(* One run of one scan: scan_core/engine.py (run, _run, _sweep,            *)
(* _measure_point, _set_dims, _set_together, _Guard.hold), the moments at  *)
(* which scan_core/hooks.py runs the routines, and the scout pass of       *)
(* scan_core/scout.py inside it.                                           *)
(*                                                                         *)
(* The engine is one thread (EngineStep).  Around it the instruments       *)
(* report and clear faults, and the operator presses Abort, Pause and      *)
(* Resume and, while the scan waits for a fault to clear, may move things  *)
(* by hand.  Every call into an instrument or a routine may fail.          *)
(*                                                                         *)
(* A reading is recorded with what was true when it was taken: where the   *)
(* knobs stood, whether a fault was reported, whether the scout's settings *)
(* were still in force.  That is all the properties tell apart.            *)
(***************************************************************************)
EXTENDS Odometer, SequencesExt

CONSTANTS
  Recipes,     \* the scans that may be run, see RecipeType
  ReaimAt,     \* the waits in which a person moves the knobs by hand: at a
               \* point's fault, at a scout point's, in the operator's Pause
  MaxFaults,   \* how often an instrument may begin to report a fault
  MaxErrors,   \* how many calls may fail
  MaxPauses,   \* how often the operator may press Pause
  Away,        \* a knob stands somewhere no point of the scan asks for
  None,        \* Python's None
  Earlier      \* a value copied from the file that is continued

ASSUME BoundsAssumption ==
  /\ MaxFaults \in Nat
  /\ MaxErrors \in Nat
  /\ MaxPauses \in Nat
  /\ ReaimAt \subseteq {"hold", "scout_hold", "paused"}

\* shape, zig (the zigzag flag of each dim), repeats (the dims that move
\* nothing), diagonal, sweepDim and every (an each_sweep routine at the start
\* and one at the end of the sweeps of that dim), skip (when a skip_if step
\* runs) and skipFirst (it is listed before those routines), scouted, each
\* and step (the scout pass), watched (there is an on_fault handler), start
\* (continue_from.start; 0 with continued FALSE is a scan of its own).
RecipeFields ==
  {"shape", "zig", "repeats", "diagonal", "sweepDim", "every", "skip",
   "skipFirst", "scouted", "each", "step", "watched", "continued", "start"}

ASSUME RecipesAssumption ==
  \A r \in Recipes :
    /\ DOMAIN r = RecipeFields
    /\ r.shape \in Seq(Nat \ {0})
    /\ {r.diagonal, r.skipFirst, r.each, r.watched, r.continued} \subseteq BOOLEAN
    /\ r.scouted \subseteq Dims(r.shape) \ r.repeats
    /\ r.sweepDim \in Dims(r.shape)
    /\ r.every \in Nat \ {0}
    /\ r.skip \in {"never", "before", "after"}
    /\ r.start \in 0..(TotalPoints(r.shape) - 1)
    /\ r.continued => r.scouted = {}
    /\ ~r.continued => r.start = 0

\* A point's values, with what was true when they were read.
ReadingsOf(shape) ==
  [at : [Dims(shape) -> Nat \cup {Away}], faulted : BOOLEAN, tuned : BOOLEAN]

ASSUME ValuesAssumption ==
  /\ Away \notin Nat
  /\ None \notin Nat
  /\ None # Away
  /\ Earlier # None
  /\ \A r \in Recipes :
       None \notin ReadingsOf(r.shape) /\ Earlier \notin ReadingsOf(r.shape)

VARIABLES
  recipe,    \* the scan that was asked for
  pc,        \* where the engine is
  flat,      \* the number of the point (ctx["flat"])
  dim,       \* the dim _set_dims has come to
  redo,      \* the point is measured again after a pause
  prev,      \* each dim's index at the last point set, or None
  resend,    \* the dims the scout has moved away (ctx["resend"])
  visit,     \* the numbers of the points to be measured (ctx["visit"])
  scouted,   \* the blocks the scout has looked at (done_blocks)
  coarse,    \* the coarse points read in this block
  data,      \* the buffers: a reading, Earlier or None for each grid index
  reading,   \* the values in hand, not committed yet
  skipped,   \* the indices noted in skipped_points
  todo,      \* what the end of the run still has to do, in order
  how,       \* how the run ends
  sweeping,  \* the points have started
  claimed,   \* the instruments are claimed for this scan
  handed,    \* the dataset the caller gets, or None
  knob,      \* instruments: where each dim's knob stands
  tuned,     \* instruments: the scout-only settings are in force
  faulted,   \* instruments: one the scan uses reports a fault
  aborting,  \* operator: Abort has been pressed (should_abort)
  held,      \* operator: Pause is in force (should_pause)
  left,      \* what is left of the bounds
  log        \* history: the routines that ran to their end

odometer == <<flat, dim, redo, prev, resend>>
scouting == <<visit, scouted, coarse>>
ends == <<todo, how, sweeping, claimed, handed>>
operator == <<aborting, held>>

vars == <<recipe, pc, odometer, scouting, data, reading, skipped, ends,
          knob, tuned, faulted, operator, left, log>>

-----------------------------------------------------------------------------
(* The scan *)

Shape == recipe.shape
Total == TotalPoints(Shape)
Knobs == Dims(Shape) \ recipe.repeats
IndexOf(n) == VisitIndex(n, Shape, recipe.zig)
Here == IndexOf(flat)

\* The unscouted dims outside every scouted one.
OuterDims == {k \in Dims(Shape) : \A s \in recipe.scouted : k < s}

\* The engine moves the dims outside the scouted ones before the scout runs.
LastDim == IF pc = "outer" THEN Cardinality(OuterDims) ELSE Len(Shape)

BlockOf(idx) == [k \in IF recipe.each THEN OuterDims ELSE {} |-> idx[k]]

ScoutDue == recipe.scouted # {} /\ BlockOf(Here) \notin scouted

Block == SweepBlock(Shape)[recipe.sweepDim]
SweepOf(n) == n \div Block

\* A dim is set when its index changed, on a redo, and after the scout.
MustSet(k, again) == again \/ Here[k] # prev[k] \/ k \in resend

\* Two knobs or more change at once and the recipe lets them move together.
MovesTogether(again) ==
  recipe.diagonal /\ Cardinality({k \in Knobs : MustSet(k, again)}) > 1

Budget == [faults : 0..MaxFaults, errors : 0..MaxErrors, pauses : 0..MaxPauses]

-----------------------------------------------------------------------------
(* The ends of a run *)

\* Wrong: the points of a scan stopped inside a point are thrown away.
DutiesDroppingData(outcome) ==
  IF outcome \in {"done", "aborted"} \/ (outcome # "stopped" /\ sweeping)
  THEN <<"dataset", "after">> ELSE <<"after">>

\* What is still to do, in order.  Done or aborted between two points: the
\* dataset is returned.  An error or a fault hands over what was measured,
\* then runs the after-scan routine; an Abort inside a point (or a stop by a
\* routine) does it the other way round.  Before the points have started
\* there is nothing to hand over.
Duties(outcome) ==
  CASE outcome \in {"done", "aborted"} -> <<"dataset", "after">>
    [] outcome \in {"error", "fault"} /\ sweeping -> <<"dataset", "after">>
    [] outcome = "stopped" /\ sweeping -> <<"after", "dataset">>
    [] OTHER -> <<"after">>

End(outcome) ==
  /\ pc' = "ending"
  /\ how' = outcome
  /\ todo' = Duties(outcome)

Goto(place) ==
  /\ pc' = place
  /\ UNCHANGED <<how, todo>>

\* A call fails; a blocking call gives up because of Abort; a routine stops
\* the scan (abort_if, a wait_until that timed out, an answer of the operator).
Fails == left.errors > 0 /\ left' = [left EXCEPT !.errors = @ - 1]
GivesUp == aborting /\ End("stopped") /\ UNCHANGED left
Stops == Fails /\ End("stopped")

\* _Guard.hold: wait, or stop the scan when there is nobody to wait for.
Hold(place) == IF recipe.watched THEN Goto(place) ELSE End("fault")

\* An error inside a point: when an instrument reports a fault, or the error
\* itself was one (is_fault), the scan waits; otherwise it ends.
PointFails ==
  /\ Fails
  /\ Hold("hold") \/ (~faulted /\ End("error"))

\* The outer dims of a block are moved outside that try.
SetFails == IF pc = "outer" THEN Fails /\ End("error") ELSE PointFails

-----------------------------------------------------------------------------
(* Before the points *)

RefuseScan ==
  /\ pc = "claim"
  /\ pc' = "ended"
  /\ how' = "refused"
  /\ UNCHANGED <<recipe, odometer, scouting, data, reading, skipped, todo,
                 sweeping, claimed, handed, knob, tuned, faulted, operator,
                 left, log>>

ClaimInstruments ==
  /\ pc = "claim"
  /\ claimed' = TRUE
  /\ Goto("fixed")
  /\ UNCHANGED <<recipe, odometer, scouting, data, reading, skipped, sweeping,
                 handed, knob, tuned, faulted, operator, left, log>>

\* recipe.fixed: the constant conditions.
SetFixed ==
  /\ pc = "fixed"
  /\ \/ Goto("allocate") /\ UNCHANGED left
     \/ GivesUp
     \/ Fails /\ End("error")
  /\ UNCHANGED <<recipe, odometer, scouting, data, reading, skipped, sweeping,
                 claimed, handed, knob, tuned, faulted, operator, log>>

\* The buffers and the window are set up outside every try: an error there
\* ends the run at once.  A continued scan then copies the earlier values in.
Allocate ==
  /\ pc = "allocate"
  /\ \/ /\ Goto("before")
        /\ data' = [idx \in DOMAIN data |->
                      IF recipe.continued THEN Earlier ELSE None]
        /\ UNCHANGED left
     \/ /\ Fails
        /\ pc' = "ending"
        /\ how' = "unprepared"
        /\ todo' = <<>>
        /\ UNCHANGED data
     \/ /\ recipe.continued
        /\ Fails
        /\ End("error")
        /\ UNCHANGED data
  /\ UNCHANGED <<recipe, odometer, scouting, reading, skipped, sweeping,
                 claimed, handed, knob, tuned, faulted, operator, log>>

\* The before-scan routines; the points start when they are through.
BeforeScan ==
  /\ pc = "before"
  /\ \/ /\ aborting
        /\ End("aborted")
        /\ UNCHANGED <<left, sweeping>>
     \/ /\ ~aborting
        /\ \/ Goto("point") /\ sweeping' = TRUE /\ UNCHANGED left
           \/ /\ UNCHANGED sweeping
              /\ Stops \/ (Fails /\ End("error"))
  /\ UNCHANGED <<recipe, odometer, scouting, data, reading, skipped, claimed,
                 handed, knob, tuned, faulted, operator, log>>

-----------------------------------------------------------------------------
(* Between two points *)

\* Wrong: the odometer stops one point short.
NextPointShort ==
  /\ pc = "point"
  /\ \/ flat >= Total - 1 /\ End("done")
     \/ flat < Total - 1 /\ aborting /\ End("aborted")
     \/ flat < Total - 1 /\ ~aborting /\ ~held
        /\ Goto(IF ScoutDue THEN "outer" ELSE "place")
  /\ dim' = 1
  /\ redo' = FALSE
  /\ UNCHANGED <<recipe, flat, prev, resend, scouting, data, reading, skipped,
                 sweeping, claimed, handed, knob, tuned, faulted, operator,
                 left, log>>

\* Wrong: the odometer goes one point too far.
NextPointLong ==
  /\ pc = "point"
  /\ \/ flat > Total /\ End("done")
     \/ flat <= Total /\ aborting /\ End("aborted")
     \/ flat <= Total /\ ~aborting /\ ~held /\ Goto("place")
  /\ dim' = 1
  /\ redo' = FALSE
  /\ UNCHANGED <<recipe, flat, prev, resend, scouting, data, reading, skipped,
                 sweeping, claimed, handed, knob, tuned, faulted, operator,
                 left, log>>

NextPoint ==
  /\ pc = "point"
  /\ \/ flat = Total /\ End("done")
     \/ flat < Total /\ aborting /\ End("aborted")
     \/ flat < Total /\ ~aborting /\ ~held
        /\ Goto(IF ScoutDue THEN "outer" ELSE "place")
  /\ dim' = 1
  /\ redo' = FALSE
  /\ UNCHANGED <<recipe, flat, prev, resend, scouting, data, reading, skipped,
                 sweeping, claimed, handed, knob, tuned, faulted, operator,
                 left, log>>

SetOut(again) ==
  /\ Goto(IF MovesTogether(again) THEN "together" ELSE "set")
  /\ dim' = 1
  /\ redo' = again

\* A point the scout's mask leaves out is not visited at all.
PlacePoint ==
  /\ pc = "place"
  /\ \/ /\ flat \notin visit
        /\ Goto("point")
        /\ flat' = flat + 1
        /\ UNCHANGED <<dim, redo>>
     \/ /\ flat \in visit
        /\ SetOut(FALSE)
        /\ UNCHANGED flat
  /\ UNCHANGED <<recipe, prev, resend, scouting, data, reading, skipped,
                 sweeping, claimed, handed, knob, tuned, faulted, operator,
                 left, log>>

-----------------------------------------------------------------------------
(* Setting the dims of a point *)

Changed(k) == Here[k] # prev[k]
Leaves(k) == Changed(k) /\ prev[k] # None

\* The knobs of the dims ks go to this point's values, or get lost on the way.
MovedTo(ks, place) ==
  [k \in DOMAIN knob |-> IF k \in ks \cap Knobs THEN place[k] ELSE knob[k]]
Lost == [k \in Dims(Shape) |-> Away]

\* after_axis ran for the dims of closed, before_axis for those of opened.
AxisRoutines(closed, opened) ==
  [log EXCEPT !.axis =
     [k \in DOMAIN @ |->
        [opened |-> IF k \in opened THEN @[k].opened + 1 ELSE @[k].opened,
         closed |-> IF k \in closed THEN @[k].closed + 1 ELSE @[k].closed]]]

\* A dim whose after_axis has run is at no value; it does not run again.
AtNoValue(ks) ==
  [k \in DOMAIN prev |-> IF k \in ks THEN None ELSE prev[k]]
AtThisPoint(ks, before) ==
  [k \in DOMAIN prev |-> IF k \in ks THEN Here[k] ELSE before[k]]

SkipDim ==
  /\ pc \in {"set", "outer"}
  /\ dim <= LastDim
  /\ ~MustSet(dim, redo)
  /\ dim' = dim + 1
  /\ UNCHANGED <<recipe, pc, flat, redo, prev, resend, scouting, data, reading,
                 skipped, ends, knob, tuned, faulted, operator, left, log>>

\* One dim of _set_dims: its after_axis routine, its setpoints, its
\* before_axis routine.
SetDim ==
  LET leaving == {k \in {dim} : Leaves(k)}
      changing == {k \in {dim} : Changed(k)}
  IN
  /\ pc \in {"set", "outer"}
  /\ dim <= LastDim
  /\ MustSet(dim, redo)
  /\ \/ \* all three
        /\ prev' = AtThisPoint({dim}, prev)
        /\ knob' = MovedTo({dim}, Here)
        /\ resend' = resend \ {dim}
        /\ log' = AxisRoutines(leaving, changing)
        /\ dim' = dim + 1
        /\ UNCHANGED <<pc, how, todo, left>>
     \/ \* the after_axis routine does not
        /\ leaving # {}
        /\ SetFails \/ Stops
        /\ UNCHANGED <<prev, knob, resend, log, dim>>
     \/ \* a setpoint (or the wait of a repeat) does not
        /\ prev' = AtNoValue(leaving)
        /\ knob' = MovedTo({dim}, Lost)
        /\ log' = AxisRoutines(leaving, {})
        /\ SetFails \/ GivesUp
        /\ UNCHANGED <<resend, dim>>
     \/ \* the before_axis routine does not
        /\ changing # {}
        /\ prev' = AtNoValue(leaving)
        /\ knob' = MovedTo({dim}, Here)
        /\ resend' = resend \ {dim}
        /\ log' = AxisRoutines(leaving, {})
        /\ SetFails \/ Stops
        /\ UNCHANGED dim
  /\ UNCHANGED <<recipe, flat, redo, scouting, data, reading, skipped,
                 sweeping, claimed, handed, tuned, faulted, operator>>

\* _set_together: every after_axis, every setpoint, every wait, every
\* before_axis.  Stopping short of dim k leaves the dims inside it undone.
SetTogether ==
  LET setting == {k \in Dims(Shape) : MustSet(k, redo)}
      leaving == {k \in setting : Leaves(k)}
      changing == {k \in setting : Changed(k)}
  IN
  /\ pc = "together"
  /\ \/ /\ prev' = AtThisPoint(setting, prev)
        /\ knob' = MovedTo(setting, Here)
        /\ resend' = resend \ setting
        /\ log' = AxisRoutines(leaving, changing)
        /\ Goto("routines")
        /\ UNCHANGED left
     \/ \E k \in leaving :
        LET ran == {j \in leaving : j < k}
        IN  /\ prev' = AtNoValue(ran)
            /\ log' = AxisRoutines(ran, {})
            /\ PointFails \/ Stops
            /\ UNCHANGED <<knob, resend>>
     \/ /\ prev' = AtNoValue(leaving)
        /\ knob' = MovedTo(setting, Lost)
        /\ log' = AxisRoutines(leaving, {})
        /\ PointFails \/ GivesUp
        /\ UNCHANGED resend
     \/ \E k \in changing :
        LET ran == {j \in setting : j < k}
        IN  /\ prev' = AtThisPoint(ran, AtNoValue(leaving))
            /\ knob' = MovedTo(setting, Here)
            /\ resend' = resend \ setting
            /\ log' = AxisRoutines(leaving, ran \cap changing)
            /\ PointFails \/ Stops
  /\ UNCHANGED <<recipe, flat, dim, redo, scouting, data, reading, skipped,
                 sweeping, claimed, handed, tuned, faulted, operator>>

AllDimsSet ==
  /\ pc \in {"set", "outer"}
  /\ dim > LastDim
  /\ Goto(IF pc = "outer" THEN "scout" ELSE "routines")
  /\ UNCHANGED <<recipe, odometer, scouting, data, reading, skipped, sweeping,
                 claimed, handed, knob, tuned, faulted, operator, left, log>>

-----------------------------------------------------------------------------
(* Measuring a point *)

StartFires == SweepStartFires(flat, Block, recipe.every, visit, recipe.start)
EndFires == SweepEndFires(flat, Block, recipe.every, visit, Total)

\* The before_point routines: the each_sweep start routine and a skip_if.  A
\* point that is skipped is not acquired; its slot keeps what it held.
BeforePoint ==
  /\ pc = "routines"
  /\ \/ /\ Goto("acquire")
        /\ log' = [log EXCEPT !.begun = IF StartFires THEN @ \cup {SweepOf(flat)} ELSE @]
        /\ UNCHANGED left
     \/ /\ recipe.skip = "before"
        /\ Goto("commit")
        /\ log' = [log EXCEPT !.begun = IF StartFires /\ ~recipe.skipFirst
                                        THEN @ \cup {SweepOf(flat)} ELSE @]
        /\ UNCHANGED left
     \/ /\ PointFails \/ Stops
        /\ UNCHANGED log
  /\ UNCHANGED <<recipe, odometer, scouting, data, reading, skipped, sweeping,
                 claimed, handed, knob, tuned, faulted, operator>>

\* Trigger and wait; then the first fault check.
Acquire ==
  /\ pc = "acquire"
  /\ \/ PointFails \/ GivesUp
     \/ faulted /\ Hold("hold") /\ UNCHANGED left
     \/ ~faulted /\ Goto("read") /\ UNCHANGED left
  /\ UNCHANGED <<recipe, odometer, scouting, data, reading, skipped, sweeping,
                 claimed, handed, knob, tuned, faulted, operator, log>>

Read ==
  /\ pc = "read"
  /\ \/ /\ Goto("check")
        /\ reading' = [at |-> knob, faulted |-> faulted, tuned |-> tuned]
        /\ UNCHANGED left
     \/ PointFails /\ UNCHANGED reading
  /\ UNCHANGED <<recipe, odometer, scouting, data, skipped, sweeping, claimed,
                 handed, knob, tuned, faulted, operator, log>>

\* The second fault check: the values are kept only when it passes too.
CheckReading ==
  /\ pc = "check"
  /\ \/ faulted /\ Hold("hold") /\ reading' = None
     \/ ~faulted /\ Goto("commit") /\ UNCHANGED reading
  /\ UNCHANGED <<recipe, odometer, scouting, data, skipped, sweeping, claimed,
                 handed, knob, tuned, faulted, operator, left, log>>

\* Wrong: after the pause only the dims that changed are set.
ResumePointAsItWas ==
  /\ pc = "hold"
  /\ ~faulted
  /\ SetOut(FALSE)
  /\ UNCHANGED <<recipe, flat, prev, resend, scouting, data, reading, skipped,
                 sweeping, claimed, handed, knob, tuned, faulted, operator,
                 left, log>>

\* Wrong: after the pause every dim counts as not set, its routines included.
ResumePointAnew ==
  /\ pc = "hold"
  /\ ~faulted
  /\ Goto("set")
  /\ dim' = 1
  /\ redo' = TRUE
  /\ prev' = [k \in DOMAIN prev |-> None]
  /\ UNCHANGED <<recipe, flat, resend, scouting, data, reading, skipped,
                 sweeping, claimed, handed, knob, tuned, faulted, operator,
                 left, log>>

\* The faults have cleared: the point is measured again.
ResumePoint ==
  /\ pc = "hold"
  /\ ~faulted
  /\ SetOut(TRUE)
  /\ UNCHANGED <<recipe, flat, prev, resend, scouting, data, reading, skipped,
                 sweeping, claimed, handed, knob, tuned, faulted, operator,
                 left, log>>

\* Wrong: Abort is looked at only once the faults have cleared.
AbortWhenCleared ==
  /\ pc = "hold"
  /\ aborting /\ ~faulted
  /\ End("stopped")
  /\ UNCHANGED <<recipe, odometer, scouting, data, reading, skipped, sweeping,
                 claimed, handed, knob, tuned, faulted, operator, left, log>>

AbortWhilePaused ==
  /\ pc = "hold"
  /\ aborting
  /\ End("stopped")
  /\ UNCHANGED <<recipe, odometer, scouting, data, reading, skipped, sweeping,
                 claimed, handed, knob, tuned, faulted, operator, left, log>>

\* The values go into the buffers, then the after_point routines run: the
\* each_sweep end routine and a skip_if, which takes the values out again.
Commit ==
  LET measured == IF reading = None THEN data ELSE [data EXCEPT ![Here] = reading]
      ended == IF EndFires THEN log.finished \cup {SweepOf(flat)} ELSE log.finished
  IN
  /\ pc = "commit"
  /\ \/ /\ data' = measured
        /\ skipped' = IF reading = None THEN skipped \cup {Here} ELSE skipped
        /\ log' = [log EXCEPT !.finished = ended]
        /\ flat' = flat + 1
        /\ Goto("point")
        /\ UNCHANGED left
     \/ /\ recipe.skip = "after"
        /\ skipped' = skipped \cup {Here}
        /\ log' = [log EXCEPT !.finished = IF recipe.skipFirst THEN @ ELSE ended]
        /\ flat' = flat + 1
        /\ Goto("point")
        /\ UNCHANGED <<data, left>>
     \/ /\ data' = measured
        /\ (Fails /\ End("error")) \/ Stops
        /\ UNCHANGED <<skipped, log, flat>>
  /\ reading' = None
  /\ UNCHANGED <<recipe, dim, redo, prev, resend, scouting, sweeping, claimed,
                 handed, knob, tuned, faulted, operator>>

-----------------------------------------------------------------------------
(* The scout pass of a block *)

\* The unscouted dims inside, which wait at their first value.
InnerKnobs == Knobs \ (OuterDims \cup recipe.scouted)

CoarsePlaces ==
  {place \in [recipe.scouted -> 0..Total] :
     \A k \in recipe.scouted : place[k] \in CoarseIndices(Shape[k], recipe.step)}

\* Where the mask tells points apart.
CellOf(idx) == [k \in recipe.scouted |-> idx[k]]
Cells == {CellOf(idx) : idx \in Grid(Shape)}

\* The scout-only settings go in force.
StartScout ==
  /\ pc = "scout"
  /\ \/ /\ tuned' = TRUE
        /\ knob' = MovedTo(InnerKnobs, [k \in Dims(Shape) |-> 0])
        /\ coarse' = 0
        /\ Goto("coarse")
        /\ UNCHANGED left
     \/ /\ (Fails /\ End("error")) \/ GivesUp
        /\ UNCHANGED <<tuned, knob, coarse>>
  /\ UNCHANGED <<recipe, odometer, visit, scouted, data, reading, skipped,
                 sweeping, claimed, handed, faulted, operator, log>>

\* One coarse point: move the scouted knobs, read between two fault checks.
\* The order of the pass is left open.
ScoutPoint ==
  /\ pc = "coarse"
  /\ coarse < Cardinality(CoarsePlaces)
  /\ \/ /\ GivesUp \/ (~held /\ Fails /\ End("error"))
        /\ tuned' = FALSE
        /\ UNCHANGED <<knob, coarse>>
     \/ /\ ~aborting /\ ~held
        /\ \E place \in CoarsePlaces : knob' = MovedTo(recipe.scouted, place)
        /\ UNCHANGED left
        /\ \/ /\ faulted
              /\ Hold("scout_hold")
              /\ tuned' = recipe.watched
              /\ UNCHANGED coarse
           \/ /\ ~faulted
              /\ coarse' = coarse + 1
              /\ UNCHANGED <<pc, how, todo, tuned>>
  /\ UNCHANGED <<recipe, odometer, visit, scouted, data, reading, skipped,
                 sweeping, claimed, handed, faulted, operator, log>>

ResumeScout ==
  /\ pc = "scout_hold"
  /\ \/ ~faulted /\ Goto("coarse") /\ UNCHANGED tuned
     \/ aborting /\ End("stopped") /\ tuned' = FALSE
  /\ UNCHANGED <<recipe, odometer, scouting, data, reading, skipped, sweeping,
                 claimed, handed, knob, faulted, operator, left, log>>

\* The settings are put back and the mask is made; the same mask for every
\* block with each FALSE.  The dims the scout moved are set again at the next
\* point.
MakeMask ==
  /\ pc = "coarse"
  /\ coarse = Cardinality(CoarsePlaces)
  /\ \/ /\ Fails /\ End("error")
        /\ tuned' \in BOOLEAN
        /\ UNCHANGED <<visit, scouted, resend>>
     \/ \E keep \in SUBSET Cells :
        /\ tuned' = FALSE
        /\ scouted' = scouted \cup {BlockOf(Here)}
        /\ visit' = {n \in 0..(Total - 1) :
                       IF BlockOf(IndexOf(n)) = BlockOf(Here)
                       THEN CellOf(IndexOf(n)) \in keep ELSE n \in visit}
        /\ UNCHANGED left
        /\ IF keep = {} /\ ~recipe.each
           THEN End("error") /\ UNCHANGED resend
           ELSE /\ Goto("place")
                /\ resend' = resend \cup InnerKnobs \cup recipe.scouted
  /\ coarse' = 0
  /\ UNCHANGED <<recipe, flat, dim, redo, prev, data, reading, skipped,
                 sweeping, claimed, handed, knob, faulted, operator, log>>

-----------------------------------------------------------------------------
(* The end of the run *)

Returns == how \in {"done", "aborted"}

\* _to_dataset.  A failure is logged, but for a scan that ends without an
\* exception it is the exception, and nothing else is done.
HandOver ==
  /\ pc = "ending"
  /\ todo # <<>> /\ Head(todo) = "dataset"
  /\ \/ /\ handed' = data
        /\ todo' = Tail(todo)
        /\ UNCHANGED <<how, left>>
     \/ /\ Fails
        /\ IF Returns THEN how' = "unbuilt" /\ todo' = <<>>
                      ELSE todo' = Tail(todo) /\ UNCHANGED how
        /\ UNCHANGED handed
  /\ UNCHANGED <<recipe, pc, odometer, scouting, data, reading, skipped,
                 sweeping, claimed, knob, tuned, faulted, operator, log>>

\* The after-scan routine.  When it fails, or is aborted, at the end of a
\* finished scan the run ends with RoutineError and the dataset.
AfterScan ==
  /\ pc = "ending"
  /\ todo # <<>> /\ Head(todo) = "after"
  /\ todo' = Tail(todo)
  /\ log' = [log EXCEPT !.after = @ + 1]
  /\ knob' = [k \in DOMAIN knob |-> Away]
  /\ \/ UNCHANGED <<how, left>>
     \/ /\ Fails \/ (aborting /\ how = "done" /\ UNCHANGED left)
        /\ how' = IF Returns THEN "routine" ELSE how
  /\ UNCHANGED <<recipe, pc, odometer, scouting, data, reading, skipped,
                 sweeping, claimed, handed, tuned, faulted, operator>>

ReleaseInstruments ==
  /\ pc = "ending"
  /\ todo = <<>>
  /\ claimed' = FALSE
  /\ pc' = "ended"
  /\ UNCHANGED <<recipe, odometer, scouting, data, reading, skipped, todo, how,
                 sweeping, handed, knob, tuned, faulted, operator, left, log>>

Finished == pc = "ended" /\ UNCHANGED vars

-----------------------------------------------------------------------------
(* The instruments and the operator *)

engineVars == <<recipe, pc, odometer, scouting, data, reading, skipped, ends, log>>

FaultAppears ==
  /\ ~faulted /\ left.faults > 0 /\ pc # "ended"
  /\ faulted' = TRUE
  /\ left' = [left EXCEPT !.faults = @ - 1]
  /\ UNCHANGED <<engineVars, knob, tuned, operator>>

\* A fault lasts longer than a reading: it does not appear and clear between
\* the two fault checks of one point.
FaultClears ==
  /\ faulted /\ pc \notin {"read", "check"}
  /\ faulted' = FALSE
  /\ UNCHANGED <<engineVars, knob, tuned, operator, left>>

\* Where the scan waits for a person.
Wait == IF held /\ pc \in {"point", "coarse"} THEN "paused" ELSE pc

\* While the scan waits, somebody aims the camera or drives a stage.
Reaim ==
  /\ Wait \in ReaimAt
  /\ \E k \in Knobs : knob' = [knob EXCEPT ![k] = Away]
  /\ UNCHANGED <<engineVars, tuned, faulted, operator, left>>

PressAbort ==
  /\ ~aborting /\ pc # "ended"
  /\ aborting' = TRUE
  /\ UNCHANGED <<engineVars, knob, tuned, faulted, held, left>>

PressPause ==
  /\ ~held /\ left.pauses > 0 /\ pc # "ended"
  /\ held' = TRUE
  /\ left' = [left EXCEPT !.pauses = @ - 1]
  /\ UNCHANGED <<engineVars, knob, tuned, faulted, aborting>>

PressResume ==
  /\ held
  /\ held' = FALSE
  /\ UNCHANGED <<engineVars, knob, tuned, faulted, aborting, left>>

-----------------------------------------------------------------------------
(* The specification *)

Init ==
  /\ recipe \in Recipes
  /\ pc = "claim"
  /\ flat = recipe.start
  /\ dim = 1
  /\ redo = FALSE
  /\ prev = [k \in Dims(Shape) |-> None]
  /\ resend = {}
  /\ visit = 0..(Total - 1)
  /\ scouted = {}
  /\ coarse = 0
  /\ data = [idx \in Grid(Shape) |-> None]
  /\ reading = None
  /\ skipped = {}
  /\ todo = <<>>
  /\ how = "running"
  /\ sweeping = FALSE
  /\ claimed = FALSE
  /\ handed = None
  /\ knob = [k \in Dims(Shape) |-> Away]
  /\ tuned = FALSE
  /\ faulted = FALSE
  /\ aborting = FALSE
  /\ held = FALSE
  /\ left = [faults |-> MaxFaults, errors |-> MaxErrors, pauses |-> MaxPauses]
  /\ log = [axis |-> [k \in Dims(Shape) |-> [opened |-> 0, closed |-> 0]],
            begun |-> {}, finished |-> {}, after |-> 0]

EngineStep ==
  \/ RefuseScan \/ ClaimInstruments \/ SetFixed \/ Allocate \/ BeforeScan
  \/ NextPoint \/ PlacePoint
  \/ SkipDim \/ SetDim \/ SetTogether \/ AllDimsSet
  \/ BeforePoint \/ Acquire \/ Read \/ CheckReading \/ Commit
  \/ ResumePoint \/ AbortWhilePaused
  \/ StartScout \/ ScoutPoint \/ ResumeScout \/ MakeMask
  \/ HandOver \/ AfterScan \/ ReleaseInstruments

Environment ==
  \/ FaultAppears \/ FaultClears \/ Reaim
  \/ PressAbort \/ PressPause \/ PressResume

Next == EngineStep \/ Environment \/ Finished

Spec == Init /\ [][Next]_vars

\* The engine's thread keeps running: every call into an instrument returns,
\* at the latest with its timeout.  Nothing is asked of faults or of people.
FairSpec == Spec /\ WF_vars(EngineStep)

-----------------------------------------------------------------------------
(* Properties *)

Reading == ReadingsOf(Shape)

\* The state of one run has the shape the code gives it.
TypeOK ==
  /\ recipe \in Recipes
  /\ pc \in {"claim", "fixed", "allocate", "before", "point", "place", "outer",
             "set", "together", "routines", "acquire", "read", "check",
             "commit", "hold", "scout", "coarse", "scout_hold", "ending", "ended"}
  /\ flat \in 0..Total
  /\ dim \in 1..(Len(Shape) + 1)
  /\ redo \in BOOLEAN
  /\ prev \in [Dims(Shape) -> Nat \cup {None}]
  /\ resend \subseteq Dims(Shape)
  /\ visit \subseteq 0..(Total - 1)
  /\ coarse \in Nat
  /\ \A idx \in DOMAIN data : data[idx] = None \/ data[idx] = Earlier \/ data[idx] \in Reading
  /\ reading = None \/ reading \in Reading
  /\ skipped \subseteq Grid(Shape)
  /\ todo \in {<<>>, <<"after">>, <<"dataset">>, <<"dataset", "after">>, <<"after", "dataset">>}
  /\ how \in {"running", "refused", "unprepared", "done", "aborted", "stopped",
              "fault", "error", "unbuilt", "routine"}
  /\ knob \in [Dims(Shape) -> Nat \cup {Away}]
  /\ {redo, sweeping, claimed, tuned, faulted, aborting, held} \subseteq BOOLEAN
  /\ left \in Budget
  /\ DOMAIN log.axis = Dims(Shape)
  /\ log.after \in Nat

Measured(idx) == data[idx] # None /\ data[idx] # Earlier

\* Every value kept was read with every knob where its slot says, with no
\* instrument in fault and without the scout's settings: whatever the order of
\* pauses, redone points, masks and scout passes before it.
ReadingsBelong ==
  \A idx \in DOMAIN data :
    Measured(idx) =>
      /\ \A k \in Knobs : data[idx].at[k] = idx[k]
      /\ ~data[idx].faulted
      /\ ~data[idx].tuned

\* A scan that ends by itself has measured or skipped every point the mask
\* leaves in from its start on, and nothing else; a continued one keeps every
\* earlier value before its start.
EveryPointVisited ==
  how = "done" =>
    \A n \in 0..(Total - 1) :
      LET idx == IndexOf(n)
      IN  IF n \in visit /\ n >= recipe.start
          THEN Measured(idx) \/ idx \in skipped
          ELSE data[idx] = IF recipe.continued THEN Earlier ELSE None

\* How often a dim takes a new value from the start of the scan on.
NewValues(k) ==
  {n \in recipe.start..(Total - 1) :
     n = recipe.start \/ IndexOf(n)[k] # IndexOf(n - 1)[k]}

\* Each axis routine that ran to its end ran once for its value: leaving a
\* value comes after arriving at it, however often the point was redone, and
\* a full scan has arrived at every value it visited.
AxisRoutinesPaired ==
  \A k \in Dims(Shape) :
    /\ log.axis[k].opened \in {log.axis[k].closed, log.axis[k].closed + 1}
    /\ prev[k] # None <=> log.axis[k].opened = log.axis[k].closed + 1
    /\ how = "done" /\ recipe.scouted = {} =>
         log.axis[k].opened = Cardinality(NewValues(k))

SweepsMeasured == {SweepOf(n) : n \in {m \in visit : m >= recipe.start}}

\* A value is kept only in a sweep whose start routine has run: a focus lost
\* to a mask, a pause or a continuation in the middle of a row would show.
SweepsBegun ==
  \A n \in recipe.start..(Total - 1) :
    Measured(IndexOf(n)) /\ SweepOf(n) % recipe.every = 0 =>
      SweepOf(n) \in log.begun

\* The end routine has run for every sweep it is due after that has a point
\* left in, masked ends of rows included; the scan's last sweep has none.
SweepsFinished ==
  how = "done" =>
    log.finished = {s \in SweepsMeasured :
                      /\ (s + 1) * Block < Total
                      /\ (s + 1) % recipe.every = 0}

\* No sweep is measured without its routines, and none of them is left out.
SweepRoutinesRun == SweepsBegun /\ SweepsFinished

\* The after-scan routine runs once on every end there is a handler for.
AfterScanOnce ==
  pc = "ended" =>
    log.after = IF how \in {"refused", "unprepared", "unbuilt"} THEN 0 ELSE 1

\* Once the points have started every end hands over what was measured, all of
\* it, unless the dataset itself could not be built.
MeasuredIsHandedOver ==
  pc = "ended" /\ sweeping /\ how # "unbuilt" =>
    handed = data \/ (handed = None /\ left.errors < MaxErrors)

\* However the points stopped, the setup is made safe and the data kept.
EndsProperly == AfterScanOnce /\ MeasuredIsHandedOver

\* With every dim on zig-zag two points visited one after the other are
\* neighbours: one dim moves, by one step.
NeighboursInOrder ==
  pc = "claim" /\ (\A k \in Dims(Shape) : recipe.zig[k]) =>
    \A n \in 1..(Total - 1) :
      \E k \in Dims(Shape) :
        /\ \A j \in Dims(Shape) \ {k} : IndexOf(n)[j] = IndexOf(n - 1)[j]
        /\ \/ IndexOf(n)[k] = IndexOf(n - 1)[k] + 1
           \/ IndexOf(n)[k] + 1 = IndexOf(n - 1)[k]

\* Abort ends the scan, wherever the engine is: held, paused for a fault
\* nobody clears, or in the scout pass.
AbortEnds == aborting ~> pc = "ended"

=============================================================================
