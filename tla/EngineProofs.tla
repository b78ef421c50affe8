---------------------------- MODULE EngineProofs ----------------------------
(***************************************************************************)
(* One run of one scan, proved for scans of any number of dims of any      *)
(* size, with any number of faults, failing calls and pauses.              *)
(*                                                                         *)
(* The inductive invariant goes along the point: which dims have been set  *)
(* (SetSoFar) and where their knobs then stand (Stands), so that a reading *)
(* in hand belongs to its slot (Kept); which points have been passed       *)
(* (Covered) of those the mask leaves in (Masked), so that no mask made    *)
(* later says anything of a point behind; how many values of a dim lie     *)
(* behind (Arrived), and which sweeps have begun and ended there (Begun,   *)
(* Finishing).  Ends says what is still to be done at the end of the run.  *)
(* Changes and Flow say once for all which step touches what, and where    *)
(* the engine goes on: the proofs of the parts start from them.            *)
(***************************************************************************)
EXTENDS Engine, OdometerProofs

-----------------------------------------------------------------------------
(* What is true of every state *)

Points == 0..(Total - 1)

\* The engine is at a point, or at the scout pass in front of it.
Setting == {"set", "together"}
Measuring == {"routines", "acquire", "read", "check", "commit"}
Scouting == {"outer", "scout", "coarse", "scout_hold"}
AtPoint == {"place", "hold"} \cup Setting \cup Measuring \cup Scouting

AxisLog == [opened : Nat, closed : Nat]
Log == [axis : [Dims(Shape) -> AxisLog], begun : SUBSET Nat,
        finished : SUBSET Nat, after : Nat]

Shaped ==
  /\ recipe \in Recipes
  /\ pc \in {"claim", "fixed", "allocate", "before", "point", "ending", "ended"}
            \cup AtPoint
  /\ flat \in recipe.start..Total
  /\ pc \in AtPoint => flat < Total
  /\ dim \in 1..(Len(Shape) + 1)
  /\ redo \in BOOLEAN
  /\ prev \in [Dims(Shape) -> Nat \cup {None}]
  /\ resend \subseteq Dims(Shape)
  /\ visit \subseteq Points
  /\ coarse \in Nat
  /\ data \in [Grid(Shape) -> Reading \cup {None, Earlier}]
  /\ reading \in Reading \cup {None}
  /\ skipped \subseteq Grid(Shape)
  /\ todo \in {<<>>, <<"after">>, <<"dataset">>, <<"dataset", "after">>, <<"after", "dataset">>}
  /\ how \in {"running", "refused", "unprepared", "done", "aborted", "stopped",
              "fault", "error", "unbuilt", "routine"}
  /\ knob \in [Dims(Shape) -> Nat \cup {Away}]
  /\ sweeping \in BOOLEAN /\ claimed \in BOOLEAN /\ tuned \in BOOLEAN
  /\ faulted \in BOOLEAN /\ aborting \in BOOLEAN /\ held \in BOOLEAN
  /\ left \in Budget
  /\ log \in Log

\* While the run goes on nothing has been handed over; while it ends, what is
\* still to do and what has been done make up the whole.
Running == pc \notin {"ending", "ended"}
Handled == how \notin {"refused", "unprepared", "unbuilt"}

Ends ==
  /\ Running => how = "running" /\ todo = <<>> /\ handed = None /\ log.after = 0
  /\ pc \in {"claim", "fixed", "allocate", "before"} => ~sweeping
  /\ ~Running => how # "running"
  /\ how = "done" => flat = Total
  /\ pc = "ended" => todo = <<>>
  /\ ~Handled => todo = <<>> /\ log.after = 0
  /\ ~Running /\ Handled =>
       log.after = IF todo \in {<<>>, <<"dataset">>} THEN 1 ELSE 0
  /\ how \in {"done", "aborted"} => todo \in {<<"dataset", "after">>, <<"after">>, <<>>}
  /\ ~Running /\ sweeping /\ how # "unbuilt" =>
       \/ todo \in {<<"dataset">>, <<"dataset", "after">>, <<"after", "dataset">>}
       \/ handed = data
       \/ handed = None /\ left.errors < MaxErrors
  /\ todo \in {<<"dataset">>, <<"dataset", "after">>, <<"after", "dataset">>} => handed = None

\* The dims of this point that have been set.
IsSet(k) == prev[k] = Here[k] /\ k \notin resend

SetSoFar ==
  /\ pc = "set" => \A k \in 1..(dim - 1) : IsSet(k)
  /\ pc \in Measuring => \A k \in Dims(Shape) : IsSet(k)
  /\ pc = "outer" => ~redo

\* The dims of which the engine knows where they stand: not after a pause, when
\* all are set again, nor the dims the scout moves while it does.
Sure(k) ==
  CASE pc \in {"hold", "ending", "ended"} -> FALSE
    [] pc = "set" /\ redo -> k < dim
    [] pc = "together" /\ redo -> FALSE
    [] pc \in {"coarse", "scout_hold"} -> k \in OuterDims
    [] OTHER -> TRUE

Stands == \A k \in Knobs : Sure(k) /\ prev[k] # None /\ k \notin resend => knob[k] = prev[k]

\* A reading was taken at the point it is kept for.
Belongs(r, idx) == ~r.tuned /\ \A k \in Knobs : r.at[k] = idx[k]

Kept ==
  /\ tuned => pc \in {"coarse", "scout_hold", "ending", "ended"}
  /\ reading # None =>
       /\ pc \in {"check", "commit"}
       /\ Belongs(reading, Here)
       /\ reading.faulted => pc = "check" /\ faulted
  /\ \A idx \in Grid(Shape) :
       Measured(idx) => Belongs(data[idx], idx) /\ ~data[idx].faulted

\* The mask: nothing is masked without a scout, and a block is scouted before
\* its first point.
Masked ==
  /\ recipe.scouted = {} => visit = Points
  /\ pc \in Scouting => ScoutDue
  /\ pc \in AtPoint \ Scouting => ~ScoutDue
  /\ pc \in AtPoint \ (Scouting \cup {"place"}) => flat \in visit
  /\ recipe.scouted # {} =>
       \A n \in recipe.start..(flat - 1) : BlockOf(IndexOf(n)) \in scouted

\* The values the buffers start with.
Fresh == IF recipe.continued /\ pc \notin {"claim", "fixed", "allocate"}
         THEN Earlier ELSE None

Passed(n) == n \in visit /\ recipe.start <= n /\ n < flat

Covered ==
  /\ pc \in {"claim", "fixed", "allocate"} => flat = recipe.start
  /\ how \in {"running", "done"} =>
       \A n \in Points :
         IF Passed(n) THEN Measured(IndexOf(n)) \/ IndexOf(n) \in skipped
         ELSE data[IndexOf(n)] = Fresh

\* The axis routines.
NewAt(k, n) == n = recipe.start \/ IndexOf(n)[k] # IndexOf(n - 1)[k]
NewBefore(k, m) == {n \in recipe.start..(m - 1) : NewAt(k, n)}
Opened(k) == log.axis[k].opened

Paired ==
  \A k \in Dims(Shape) :
    /\ log.axis[k].opened \in {log.axis[k].closed, log.axis[k].closed + 1}
    /\ prev[k] # None <=> log.axis[k].opened = log.axis[k].closed + 1

Between == {"claim", "fixed", "allocate", "before", "point", "place"}
Arrived ==
  recipe.scouted = {} =>
    \A k \in Dims(Shape) :
      /\ pc \in Between =>
           /\ prev[k] = IF flat = recipe.start THEN None ELSE IndexOf(flat - 1)[k]
           /\ Opened(k) = Cardinality(NewBefore(k, flat))
      /\ pc \in AtPoint \ Between =>
           \/ /\ prev[k] = Here[k]
              /\ Opened(k) = Cardinality(NewBefore(k, flat + 1))
           \/ /\ prev[k] # Here[k] /\ NewAt(k, flat)
              /\ Opened(k) = Cardinality(NewBefore(k, flat))
      /\ how = "done" => Opened(k) = Cardinality(NewBefore(k, flat))

\* The sweep routines.
Due(n) == SweepOf(n) % recipe.every = 0

Begun ==
  /\ \A n \in Points : Passed(n) /\ Due(n) => SweepOf(n) \in log.begun
  /\ pc \in {"acquire", "read", "check", "commit"} /\ Due(flat) => SweepOf(flat) \in log.begun
  /\ SweepsBegun

EndsAt(n) == SweepEndFires(n, Block, recipe.every, visit, Total)

Finishing ==
  how \in {"running", "done"} =>
    log.finished = {SweepOf(n) : n \in {m \in Points : Passed(m) /\ EndsAt(m)}}

-----------------------------------------------------------------------------
(* The scan, its grid and its dims *)

\* What the proofs need of the recipe that is run.
LEMMA Scan ==
  ASSUME Shaped
  PROVE  /\ recipe \in Recipes
         /\ Shape \in Shapes /\ Len(Shape) \in Nat \ {0} /\ Dims(Shape) = 1..Len(Shape)
         /\ Total \in Nat \ {0}
         /\ recipe.scouted \subseteq Dims(Shape) \ recipe.repeats
         /\ recipe.sweepDim \in Dims(Shape) /\ recipe.every \in Nat \ {0}
         /\ recipe.start \in 0..(Total - 1) /\ flat \in Nat
<1>1. recipe \in Recipes /\ flat \in recipe.start..Total
  BY DEF Shaped
<1>2. /\ Shape \in Shapes /\ recipe.scouted \subseteq Dims(Shape) \ recipe.repeats
      /\ recipe.sweepDim \in Dims(Shape) /\ recipe.every \in Nat \ {0}
      /\ recipe.start \in 0..(Total - 1)
  BY <1>1, RecipesAssumption DEF Shape, Shapes, Total
<1>3. Len(Shape) \in Nat /\ Dims(Shape) = 1..Len(Shape)
  BY <1>2 DEF Shapes, Dims
<1>4. 1 \in 1..(Len(Shape) + 1)
  BY <1>3
<1>5. Total \in Nat \ {0}
  BY <1>2, <1>4, BlockIs DEF Total
<1> QED BY <1>1, <1>2, <1>3, <1>5

\* Every point of the scan has a slot of the buffers, at a value of every dim.
LEMMA IndexIn ==
  ASSUME Shaped, NEW n \in Points
  PROVE  /\ IndexOf(n) \in Grid(Shape)
         /\ IndexOf(n) \in [Dims(Shape) -> Nat]
         /\ \A k \in Dims(Shape) : IndexOf(n)[k] \in Nat /\ IndexOf(n)[k] # None
<1>1. Shape \in Shapes /\ n \in 0..(TotalPoints(Shape) - 1)
  BY Scan DEF Points, Total
<1>2. IndexOf(n) \in Grid(Shape)
  BY <1>1, WholeGridVisited DEF IndexOf
<1>3. IndexOf(n) \in [Dims(Shape) -> Nat]
  BY <1>1, <1>2, WholeGridVisited
<1> QED BY <1>2, <1>3, ValuesAssumption

\* So has the point the engine is at.
LEMMA HereIn ==
  ASSUME Shaped, flat < Total
  PROVE  /\ flat \in Points
         /\ Here \in Grid(Shape) /\ Here \in [Dims(Shape) -> Nat]
         /\ \A k \in Dims(Shape) : Here[k] \in Nat /\ Here[k] # None
<1>1. flat \in Points
  BY Scan DEF Shaped, Points
<1> QED BY <1>1, IndexIn DEF Here

\* The dims outside the scouted ones come first.
LEMMA OuterFirst ==
  ASSUME Shaped
  PROVE  /\ OuterDims \subseteq Dims(Shape)
         /\ LastDim \in 0..Len(Shape)
<1>1. OuterDims \subseteq 1..Len(Shape) /\ Len(Shape) \in Nat /\ OuterDims \subseteq Dims(Shape)
  BY Scan DEF OuterDims
<1>2. IsFiniteSet(1..Len(Shape)) /\ Cardinality(1..Len(Shape)) = Len(Shape)
  <2>1. ASSUME NEW n \in Nat PROVE IsFiniteSet(1..n) /\ Cardinality(1..n) = n
    BY FS_Interval
  <2> QED BY <1>1, <2>1
<1>3. Cardinality(OuterDims) \in Nat /\ Cardinality(OuterDims) <= Len(Shape)
  BY <1>1, <1>2, FS_Subset, FS_CardinalityType
<1> QED BY <1>1, <1>3 DEF LastDim

-----------------------------------------------------------------------------
(* Steps *)

\* The run keeps its scan, and with it all that is derived from the scan.
LEMMA SameScan ==
  ASSUME recipe' = recipe
  PROVE  /\ Shape' = Shape /\ Dims(Shape)' = Dims(Shape) /\ Total' = Total
         /\ Grid(Shape)' = Grid(Shape) /\ Reading' = Reading /\ Knobs' = Knobs
         /\ Points' = Points /\ Log' = Log /\ OuterDims' = OuterDims /\ Budget' = Budget
         /\ Block' = Block
         /\ \A n : IndexOf(n)' = IndexOf(n) /\ SweepOf(n)' = SweepOf(n)
         /\ \A idx : BlockOf(idx)' = BlockOf(idx)
  BY DEF Shape, Dims, Total, Grid, Reading, Knobs, Points, Log, OuterDims, Block,
         IndexOf, SweepOf, BlockOf, Budget

\* Which operations touch which part of the state.
Changes ==
  /\ recipe' = recipe
  /\ data' = data \/ Allocate \/ Commit
  /\ skipped' = skipped \/ Commit
  /\ reading' = reading \/ Read \/ CheckReading \/ Commit
  /\ prev' = prev \/ SetDim \/ SetTogether
  /\ resend' = resend \/ SetDim \/ SetTogether \/ MakeMask
  /\ knob' = knob \/ SetDim \/ SetTogether \/ StartScout \/ ScoutPoint \/ AfterScan \/ Reaim
  /\ UNCHANGED <<visit, scouted>> \/ MakeMask
  /\ log' = log \/ SetDim \/ SetTogether \/ BeforePoint \/ Commit \/ AfterScan
  /\ tuned' = tuned \/ StartScout \/ ScoutPoint \/ ResumeScout \/ MakeMask
  /\ coarse' = coarse \/ StartScout \/ ScoutPoint \/ MakeMask
  /\ sweeping' = sweeping \/ BeforeScan
  /\ handed' = handed \/ HandOver
  /\ flat' = flat \/ PlacePoint \/ Commit
  /\ UNCHANGED <<dim, redo>> \/ NextPoint \/ PlacePoint \/ ResumePoint \/ SkipDim \/ SetDim
  /\ faulted' = faulted \/ FaultAppears \/ FaultClears
  /\ claimed' = claimed \/ ClaimInstruments \/ ReleaseInstruments
  /\ aborting' = aborting \/ PressAbort
  /\ held' = held \/ PressPause \/ PressResume
  /\ left' = left \/ Fails \/ FaultAppears \/ PressPause

\* The frame of every step (Changes).
LEMMA WhoChanges ==
  ASSUME Next
  PROVE  Changes
<1> USE DEF Changes, GivesUp, Stops, PointFails, SetFails, vars, odometer, scouting, ends, operator
<1>1. CASE RefuseScan
  BY <1>1 DEF RefuseScan
<1>2. CASE ClaimInstruments
  BY <1>2 DEF ClaimInstruments
<1>3. CASE SetFixed
  BY <1>3 DEF SetFixed
<1>4. CASE Allocate
  BY <1>4 DEF Allocate
<1>5. CASE BeforeScan
  BY <1>5 DEF BeforeScan
<1>6. CASE NextPoint
  BY <1>6 DEF NextPoint
<1>7. CASE PlacePoint
  BY <1>7 DEF PlacePoint
<1>8. CASE SkipDim
  BY <1>8 DEF SkipDim
<1>9. CASE SetDim
  BY <1>9 DEF SetDim
<1>10. CASE SetTogether
  BY <1>10 DEF SetTogether
<1>11. CASE AllDimsSet
  BY <1>11 DEF AllDimsSet
<1>12. CASE BeforePoint
  BY <1>12 DEF BeforePoint
<1>13. CASE Acquire
  BY <1>13 DEF Acquire
<1>14. CASE Read
  BY <1>14 DEF Read
<1>15. CASE CheckReading
  BY <1>15 DEF CheckReading
<1>16. CASE Commit
  BY <1>16 DEF Commit
<1>17. CASE ResumePoint
  BY <1>17 DEF ResumePoint
<1>18. CASE AbortWhilePaused
  BY <1>18 DEF AbortWhilePaused
<1>19. CASE StartScout
  BY <1>19 DEF StartScout
<1>20. CASE ScoutPoint
  BY <1>20 DEF ScoutPoint
<1>21. CASE ResumeScout
  BY <1>21 DEF ResumeScout
<1>22. CASE MakeMask
  BY <1>22 DEF MakeMask
<1>23. CASE HandOver
  BY <1>23 DEF HandOver
<1>24. CASE AfterScan
  BY <1>24 DEF AfterScan
<1>25. CASE ReleaseInstruments
  BY <1>25 DEF ReleaseInstruments
<1>26. CASE Finished
  BY <1>26 DEF Finished
<1>27. CASE FaultAppears
  BY <1>27 DEF FaultAppears, engineVars
<1>28. CASE FaultClears
  BY <1>28 DEF FaultClears, engineVars
<1>29. CASE Reaim
  BY <1>29 DEF Reaim, engineVars
<1>30. CASE PressAbort
  BY <1>30 DEF PressAbort, engineVars
<1>31. CASE PressPause
  BY <1>31 DEF PressPause, engineVars
<1>32. CASE PressResume
  BY <1>32 DEF PressResume, engineVars
<1> QED
  BY <1>1, <1>2, <1>3, <1>4, <1>5, <1>6, <1>7, <1>8, <1>9, <1>10, <1>11,
     <1>12, <1>13, <1>14, <1>15, <1>16, <1>17, <1>18, <1>19, <1>20, <1>21,
     <1>22, <1>23, <1>24, <1>25, <1>26, <1>27, <1>28, <1>29, <1>30, <1>31,
     <1>32
  DEF Next, EngineStep, Environment

\* The control flow: from which place the engine goes on to which, and how the
\* run comes to its end.
Outcomes == {"done", "aborted", "stopped", "fault", "error"}

Follow(here, there) ==
  \/ here = "claim" /\ there = "fixed"
  \/ here = "fixed" /\ there = "allocate"
  \/ here = "allocate" /\ there = "before" /\ Allocate
  \/ here = "before" /\ there = "point" /\ BeforeScan
  \/ here = "point" /\ there \in {"outer", "place"} /\ NextPoint
  \/ here = "place" /\ there \in {"point", "set", "together"} /\ PlacePoint
  \/ here = "set" /\ there = "routines" /\ AllDimsSet
  \/ here = "together" /\ there = "routines" /\ SetTogether
  \/ here = "routines" /\ there \in {"acquire", "commit"} /\ BeforePoint
  \/ here = "acquire" /\ there = "read"
  \/ here = "read" /\ there = "check" /\ Read
  \/ here = "check" /\ there = "commit" /\ CheckReading
  \/ here = "commit" /\ there = "point" /\ Commit
  \/ here \in (Setting \cup Measuring) \ {"commit"} /\ there = "hold"
  \/ here = "hold" /\ there \in Setting /\ ResumePoint
  \/ here = "outer" /\ there = "scout" /\ AllDimsSet
  \/ here = "scout" /\ there = "coarse" /\ StartScout
  \/ here = "coarse" /\ there = "scout_hold" /\ ScoutPoint
  \/ here = "scout_hold" /\ there = "coarse" /\ ResumeScout
  \/ here = "coarse" /\ there = "place" /\ MakeMask

Flow ==
  \/ pc' = pc /\ UNCHANGED <<how, todo>>
  \/ Follow(pc, pc') /\ UNCHANGED <<how, todo>>
  \/ /\ pc \notin {"claim", "ending", "ended"}
     /\ \E outcome \in Outcomes : End(outcome) /\ (outcome = "done" => NextPoint)
     /\ sweeping' = sweeping
  \/ /\ pc = "allocate" /\ pc' = "ending" /\ how' = "unprepared" /\ todo' = <<>>
     /\ Allocate
  \/ RefuseScan
  \/ HandOver \/ AfterScan \/ ReleaseInstruments

\* The control flow of every step (Flow).
LEMMA WhereNext ==
  ASSUME Next
  PROVE  Flow
<1> USE DEF Flow, Follow, Goto, GivesUp, Stops, Hold, PointFails, SetFails, SetOut, Outcomes,
            Setting, Measuring, ends, operator, vars
<1>1. CASE RefuseScan
  BY <1>1 DEF RefuseScan
<1>2. CASE ClaimInstruments
  BY <1>2 DEF ClaimInstruments
<1>3. CASE SetFixed
  BY <1>3 DEF SetFixed
<1>4. CASE Allocate
  BY <1>4 DEF Allocate
<1>5. CASE BeforeScan
  BY <1>5 DEF BeforeScan
<1>6. CASE NextPoint
  BY <1>6 DEF NextPoint
<1>7. CASE PlacePoint
  BY <1>7 DEF PlacePoint
<1>8. CASE SkipDim
  BY <1>8 DEF SkipDim
<1>9. CASE SetDim
  BY <1>9 DEF SetDim
<1>10. CASE SetTogether
  BY <1>10 DEF SetTogether
<1>11. CASE AllDimsSet
  BY <1>11 DEF AllDimsSet
<1>12. CASE BeforePoint
  BY <1>12 DEF BeforePoint
<1>13. CASE Acquire
  BY <1>13 DEF Acquire
<1>14. CASE Read
  BY <1>14 DEF Read
<1>15. CASE CheckReading
  BY <1>15 DEF CheckReading
<1>16. CASE Commit
  BY <1>16 DEF Commit
<1>17. CASE ResumePoint
  BY <1>17 DEF ResumePoint
<1>18. CASE AbortWhilePaused
  BY <1>18 DEF AbortWhilePaused
<1>19. CASE StartScout
  BY <1>19 DEF StartScout
<1>20. CASE ScoutPoint
  BY <1>20 DEF ScoutPoint
<1>21. CASE ResumeScout
  BY <1>21 DEF ResumeScout
<1>22. CASE MakeMask
  BY <1>22 DEF MakeMask
<1>23. CASE HandOver
  BY <1>23 DEF HandOver
<1>24. CASE AfterScan
  BY <1>24 DEF AfterScan
<1>25. CASE ReleaseInstruments
  BY <1>25 DEF ReleaseInstruments
<1>26. CASE Finished
  BY <1>26 DEF Finished
<1>27. CASE FaultAppears
  BY <1>27 DEF FaultAppears, engineVars
<1>28. CASE FaultClears
  BY <1>28 DEF FaultClears, engineVars
<1>29. CASE Reaim
  BY <1>29 DEF Reaim, engineVars
<1>30. CASE PressAbort
  BY <1>30 DEF PressAbort, engineVars
<1>31. CASE PressPause
  BY <1>31 DEF PressPause, engineVars
<1>32. CASE PressResume
  BY <1>32 DEF PressResume, engineVars
<1> QED
  BY <1>1, <1>2, <1>3, <1>4, <1>5, <1>6, <1>7, <1>8, <1>9, <1>10, <1>11,
     <1>12, <1>13, <1>14, <1>15, <1>16, <1>17, <1>18, <1>19, <1>20, <1>21,
     <1>22, <1>23, <1>24, <1>25, <1>26, <1>27, <1>28, <1>29, <1>30, <1>31,
     <1>32
  DEF Next, EngineStep, Environment

\* What a step of the setting does to the dims, however it ends: the dims of L
\* have been left, those of S have arrived, and each routine that ran has been
\* noted.
Arrives(S, L) ==
  /\ S \subseteq Dims(Shape) /\ L \subseteq Dims(Shape)
  /\ \A k \in L : Leaves(k)
  /\ \A k \in S : Leaves(k) => k \in L
  /\ prev' = [k \in Dims(Shape) |-> IF k \in S THEN Here[k]
                                    ELSE IF k \in L THEN None ELSE prev[k]]
  /\ log' = AxisRoutines(L, {k \in S : Changed(k)})

\* What setting the dims does: some are moved and arrived at, some left.
LEMMA SettingStep ==
  ASSUME Shaped, SetDim \/ SetTogether
  PROVE  /\ flat < Total
         /\ \E S, L \in SUBSET Dims(Shape) : Arrives(S, L)
<1>1. /\ flat < Total /\ DOMAIN prev = Dims(Shape)
      /\ prev = [k \in Dims(Shape) |-> prev[k]]
  BY DEF Shaped, SetDim, SetTogether, AtPoint, Setting, Scouting
<1>2. ASSUME NEW S \in SUBSET Dims(Shape), NEW L \in SUBSET Dims(Shape),
             \A k \in L : Leaves(k), \A k \in S : Leaves(k) => k \in L,
             \/ prev' = AtThisPoint(S, AtNoValue(L))
             \/ prev' = AtThisPoint(S, prev) /\ L \subseteq S
             \/ prev' = AtNoValue(L) /\ S = {},
             log' = AxisRoutines(L, {k \in S : Changed(k)})
      PROVE  Arrives(S, L)
  BY <1>1, <1>2 DEF Arrives, AtThisPoint, AtNoValue
<1>3. CASE SetDim
  <2> DEFINE leaving == {k \in {dim} : Leaves(k)}
             changing == {k \in {dim} : Changed(k)}
  <2>1. dim \in Dims(Shape)
    BY <1>3, Scan, OuterFirst DEF SetDim, Shaped
  <2>2. leaving \in SUBSET Dims(Shape) /\ {dim} \in SUBSET Dims(Shape) /\ {} \in SUBSET Dims(Shape)
        /\ {k \in {} : Changed(k)} = {}
    BY <2>1
  <2>3. CASE prev' = AtThisPoint({dim}, prev) /\ log' = AxisRoutines(leaving, changing)
    <3>1. Arrives({dim}, leaving)
      BY <1>2, <2>2, <2>3
    <3> QED BY <1>1, <2>2, <3>1
  <2>4. CASE prev' = AtNoValue(leaving) /\ log' = AxisRoutines(leaving, {})
    <3>1. Arrives({}, leaving)
      BY <1>2, <2>2, <2>4
    <3> QED BY <1>1, <2>2, <3>1
  <2>5. CASE prev' = prev /\ log' = log
    <3>1. prev' = AtNoValue({}) 
      BY <1>1, <2>5 DEF AtNoValue
    <3>2. log = AxisRoutines({}, {})
      <4>1. log \in Log /\ log.axis \in [Dims(Shape) -> AxisLog]
        BY DEF Shaped, Log
      <4>2. \A k \in Dims(Shape) :
              log.axis[k] = [opened |-> log.axis[k].opened, closed |-> log.axis[k].closed]
        BY <4>1 DEF AxisLog
      <4> QED BY <4>1, <4>2 DEF AxisRoutines, Log
    <3>3. Arrives({}, {})
      BY <1>2, <2>2, <2>5, <3>1, <3>2
    <3> QED BY <1>1, <2>2, <3>3
  <2> QED BY <1>3, <2>3, <2>4, <2>5 DEF SetDim
<1>4. CASE SetTogether
  <2> DEFINE setting == {k \in Dims(Shape) : MustSet(k, redo)}
             leaving == {k \in setting : Leaves(k)}
             changing == {k \in setting : Changed(k)}
  <2>1. /\ setting \in SUBSET Dims(Shape) /\ leaving \in SUBSET Dims(Shape)
        /\ {} \in SUBSET Dims(Shape) /\ {k \in {} : Changed(k)} = {}
    OBVIOUS
  <2>2. CASE prev' = AtThisPoint(setting, prev) /\ log' = AxisRoutines(leaving, changing)
    <3>1. Arrives(setting, leaving)
      BY <1>2, <2>1, <2>2
    <3> QED BY <1>1, <2>1, <3>1
  <2>3. ASSUME NEW k \in leaving,
               prev' = AtNoValue({j \in leaving : j < k}),
               log' = AxisRoutines({j \in leaving : j < k}, {})
        PROVE  \E S, L \in SUBSET Dims(Shape) : Arrives(S, L)
    <3> DEFINE ran == {j \in leaving : j < k}
    <3>1. ran \in SUBSET Dims(Shape) /\ \A j \in ran : Leaves(j)
      OBVIOUS
    <3> HIDE DEF ran
    <3>2. Arrives({}, ran)
      BY <1>2, <2>1, <2>3, <3>1 DEF ran
    <3> QED BY <2>1, <3>1, <3>2
  <2>4. CASE prev' = AtNoValue(leaving) /\ log' = AxisRoutines(leaving, {})
    <3>1. Arrives({}, leaving)
      BY <1>2, <2>1, <2>4
    <3> QED BY <1>1, <2>1, <3>1
  <2>5. ASSUME NEW k \in changing,
               prev' = AtThisPoint({j \in setting : j < k}, AtNoValue(leaving)),
               log' = AxisRoutines(leaving, {j \in setting : j < k} \cap changing)
        PROVE  \E S, L \in SUBSET Dims(Shape) : Arrives(S, L)
    <3> DEFINE ran == {j \in setting : j < k}
    <3>1. ran \in SUBSET Dims(Shape) /\ \A j \in ran : Leaves(j) => j \in leaving
      OBVIOUS
    <3>2. ran \cap changing = {j \in ran : Changed(j)}
      OBVIOUS
    <3> HIDE DEF ran
    <3>3. Arrives(ran, leaving)
      BY <1>2, <2>1, <2>5, <3>1, <3>2 DEF ran
    <3> QED BY <2>1, <3>1, <3>3
  <2> HIDE DEF setting
  <2>6. \/ prev' = AtThisPoint(setting, prev) /\ log' = AxisRoutines(leaving, changing)
        \/ \E k \in leaving : /\ prev' = AtNoValue({j \in leaving : j < k})
                              /\ log' = AxisRoutines({j \in leaving : j < k}, {})
        \/ prev' = AtNoValue(leaving) /\ log' = AxisRoutines(leaving, {})
        \/ \E k \in changing :
             /\ prev' = AtThisPoint({j \in setting : j < k}, AtNoValue(leaving))
             /\ log' = AxisRoutines(leaving, {j \in setting : j < k} \cap changing)
    BY <1>4 DEF SetTogether, setting
  <2> QED BY <1>1, <2>2, <2>3, <2>4, <2>5, <2>6
<1> QED BY <1>1, <1>3, <1>4

-----------------------------------------------------------------------------
(* Every variable keeps its shape *)

\* Every step keeps the shape of the state.
LEMMA ShapedStep ==
  ASSUME Shaped, Next
  PROVE  Shaped'
<1>0. /\ Len(Shape) \in Nat \ {0} /\ Dims(Shape) = 1..Len(Shape) /\ Total \in Nat \ {0}
      /\ recipe \in Recipes /\ recipe.start \in 0..(Total - 1) /\ flat \in Nat
      /\ recipe.watched \in BOOLEAN /\ LastDim \in 0..Len(Shape)
  BY Scan, RecipesAssumption, OuterFirst
<1>1. Changes
  BY WhoChanges
<1>2. recipe' = recipe
  BY <1>1 DEF Changes
<1>3. Flow
  BY WhereNext
<1>4. /\ pc' \in {"claim", "fixed", "allocate", "before", "point", "ending", "ended"}
                \cup AtPoint
      /\ pc' \in AtPoint => pc' = pc \/ pc \in AtPoint \/ (pc = "point" /\ NextPoint)
      /\ how' \in {"running", "refused", "unprepared", "done", "aborted", "stopped",
                   "fault", "error", "unbuilt", "routine"}
  BY <1>3 DEF Shaped, Flow, Follow, End, Outcomes, RefuseScan, HandOver, AfterScan,
              ReleaseInstruments, AtPoint, Setting, Measuring, Scouting
<1>15. todo' \in {<<>>, <<"after">>, <<"dataset">>, <<"dataset", "after">>, <<"after", "dataset">>}
  <2>1. /\ Tail(<<"after">>) = <<>> /\ Tail(<<"dataset">>) = <<>>
        /\ Tail(<<"dataset", "after">>) = <<"after">>
        /\ Tail(<<"after", "dataset">>) = <<"dataset">>
    OBVIOUS
  <2>2. CASE HandOver \/ AfterScan
    BY <2>1, <2>2 DEF Shaped, HandOver, AfterScan
  <2>3. CASE ~HandOver /\ ~AfterScan
    BY <1>3, <2>3 DEF Shaped, Flow, End, Duties, RefuseScan, ReleaseInstruments
  <2> QED BY <2>2, <2>3
<1>5. data' \in [Grid(Shape) -> Reading \cup {None, Earlier}]
  <2>1. CASE Allocate
    BY <2>1 DEF Shaped, Allocate
  <2>2. CASE Commit
    <3>1. Here \in Grid(Shape)
      BY <2>2, HereIn DEF Shaped, Commit, AtPoint, Measuring
    <3> QED BY <2>2, <3>1 DEF Shaped, Commit
  <2> QED BY <1>1, <2>1, <2>2 DEF Changes, Shaped
<1>6. reading' \in Reading \cup {None} /\ skipped' \subseteq Grid(Shape)
  <2>1. reading' \in Reading \cup {None}
    BY <1>1 DEF Changes, Shaped, Read, CheckReading, Commit, Reading, ReadingsOf
  <2>2. CASE Commit
    <3>1. Here \in Grid(Shape)
      BY <2>2, HereIn DEF Shaped, Commit, AtPoint, Measuring
    <3> QED BY <2>1, <2>2, <3>1 DEF Shaped, Commit
  <2> QED BY <1>1, <2>1, <2>2 DEF Changes, Shaped
<1>7. prev' \in [Dims(Shape) -> Nat \cup {None}] /\ resend' \subseteq Dims(Shape)
  <2>1. CASE SetDim \/ SetTogether
    <3>1. prev \in [Dims(Shape) -> Nat \cup {None}] /\ resend \subseteq Dims(Shape)
      BY DEF Shaped
    <3>2. flat < Total /\ \E S, L \in SUBSET Dims(Shape) : Arrives(S, L)
      BY <2>1, SettingStep
    <3>3. prev' \in [Dims(Shape) -> Nat \cup {None}]
      BY <3>1, <3>2, HereIn DEF Arrives
    <3>4. resend' \subseteq Dims(Shape)
      BY <2>1, <3>1 DEF SetDim, SetTogether
    <3> QED BY <3>3, <3>4
  <2>2. CASE MakeMask
    <3>1. recipe.scouted \subseteq Dims(Shape) /\ InnerKnobs \subseteq Dims(Shape)
      BY Scan DEF InnerKnobs, Knobs
    <3> QED BY <2>2, <3>1 DEF MakeMask, Shaped
  <2> QED BY <1>1, <2>1, <2>2 DEF Changes, Shaped
<1>8. knob' \in [Dims(Shape) -> Nat \cup {Away}]
  <2>1. ASSUME NEW ks, NEW place, \A k \in ks \cap Knobs : place[k] \in Nat \cup {Away}
        PROVE  MovedTo(ks, place) \in [Dims(Shape) -> Nat \cup {Away}]
    BY <2>1 DEF MovedTo, Shaped
  <2>2. ASSUME flat < Total, NEW ks
        PROVE  MovedTo(ks, Here) \in [Dims(Shape) -> Nat \cup {Away}]
    BY <2>1, <2>2, HereIn DEF Knobs
  <2>3. ASSUME NEW ks
        PROVE  MovedTo(ks, Lost) \in [Dims(Shape) -> Nat \cup {Away}]
    BY <2>1 DEF Lost, Knobs
  <2>4. CASE SetDim
    BY <2>2, <2>3, <2>4 DEF SetDim, Shaped, AtPoint, Setting, Scouting
  <2>5. CASE SetTogether
    BY ZenonT(60), <2>2, <2>3, <2>5 DEF SetTogether, Shaped, AtPoint, Setting
  <2>6. CASE StartScout
    <3>1. MovedTo(InnerKnobs, [k \in Dims(Shape) |-> 0]) \in [Dims(Shape) -> Nat \cup {Away}]
      BY <2>1 DEF Knobs
    <3> QED BY <2>6, <3>1 DEF StartScout, Shaped
  <2>7. CASE ScoutPoint
    <3>1. ASSUME NEW place \in CoarsePlaces
          PROVE  MovedTo(recipe.scouted, place) \in [Dims(Shape) -> Nat \cup {Away}]
      BY <1>0, <2>1, <3>1 DEF CoarsePlaces
    <3> QED BY <2>7, <3>1 DEF ScoutPoint, Shaped
  <2>8. CASE AfterScan \/ Reaim
    BY <2>8 DEF AfterScan, Reaim, Shaped, Knobs
  <2> QED BY <1>1, <2>4, <2>5, <2>6, <2>7, <2>8 DEF Changes, Shaped
<1>9. visit' \subseteq Points /\ coarse' \in Nat
  <2>1. visit' \subseteq Points
    BY <1>1 DEF Changes, Shaped, MakeMask, Points
  <2>2. coarse' \in Nat
    BY <1>1 DEF Changes, Shaped, StartScout, ScoutPoint, MakeMask
  <2> QED BY <2>1, <2>2
<1>10. log' \in Log
  <2>1. ASSUME NEW closed, NEW opened
        PROVE  AxisRoutines(closed, opened) \in Log
    <3>1. /\ log.axis \in [Dims(Shape) -> AxisLog] /\ log \in Log
      BY DEF Shaped, Log
    <3>2. \A k \in Dims(Shape) : log.axis[k].opened \in Nat /\ log.axis[k].closed \in Nat
      BY <3>1 DEF AxisLog
    <3>3. [k \in Dims(Shape) |->
             [opened |-> IF k \in opened THEN log.axis[k].opened + 1 ELSE log.axis[k].opened,
              closed |-> IF k \in closed THEN log.axis[k].closed + 1 ELSE log.axis[k].closed]]
            \in [Dims(Shape) -> AxisLog]
      BY <3>2 DEF AxisLog
    <3>4. DOMAIN log.axis = Dims(Shape)
      BY <3>1
    <3> QED BY <3>1, <3>3, <3>4 DEF AxisRoutines, Log
  <2>2. CASE SetDim \/ SetTogether
    BY <2>1, <2>2, SettingStep DEF Arrives
  <2>3. flat < Total => SweepOf(flat) \in Nat
    <3>1. Block \in Nat \ {0}
      BY BlockAt, BlockIs, Scan DEF Block
    <3> QED BY <1>0, <3>1, Division DEF SweepOf
  <2>4. CASE BeforePoint
    <3>1. SweepOf(flat) \in Nat /\ log \in Log
      BY <2>3, <2>4 DEF BeforePoint, Shaped, AtPoint, Measuring
    <3> QED BY <2>4, <3>1 DEF BeforePoint, Log
  <2>5. CASE Commit
    <3>1. SweepOf(flat) \in Nat /\ log \in Log
      BY <2>3, <2>5 DEF Commit, Shaped, AtPoint, Measuring
    <3> QED BY <2>5, <3>1 DEF Commit, Log
  <2>6. CASE AfterScan
    <3>1. log \in Log
      BY DEF Shaped
    <3> QED BY <2>6, <3>1 DEF AfterScan, Log
  <2> QED BY <1>1, <2>2, <2>4, <2>5, <2>6 DEF Changes, Shaped
<1>11. left' \in Budget
  <2>1. /\ left.faults \in 0..MaxFaults /\ left.errors \in 0..MaxErrors
        /\ left.pauses \in 0..MaxPauses /\ left \in Budget
    BY DEF Shaped, Budget
  <2>2. Fails => left' \in Budget
    BY <2>1, BoundsAssumption DEF Fails, Budget
  <2>3. FaultAppears => left' \in Budget
    BY <2>1, BoundsAssumption DEF FaultAppears, Budget
  <2>4. PressPause => left' \in Budget
    BY <2>1, BoundsAssumption DEF PressPause, Budget
  <2>5. left' = left => left' \in Budget
    BY <2>1, BoundsAssumption DEF Budget
  <2> QED BY <1>1, <2>2, <2>3, <2>4, <2>5 DEF Changes
<1>12. /\ tuned' \in BOOLEAN /\ sweeping' \in BOOLEAN /\ faulted' \in BOOLEAN
       /\ claimed' \in BOOLEAN /\ aborting' \in BOOLEAN /\ held' \in BOOLEAN
  <2>1. claimed' \in BOOLEAN /\ aborting' \in BOOLEAN /\ held' \in BOOLEAN /\ faulted' \in BOOLEAN
    BY <1>1 DEF Changes, Shaped, ClaimInstruments, ReleaseInstruments, PressAbort, PressPause,
                PressResume, FaultAppears, FaultClears
  <2>2. tuned' \in BOOLEAN /\ sweeping' \in BOOLEAN
    BY <1>0, <1>1 DEF Changes, Shaped, StartScout, ScoutPoint, ResumeScout, MakeMask, BeforeScan
  <2> QED BY <2>1, <2>2
<1>13. /\ flat' \in recipe.start..Total
       /\ dim' \in 1..(Len(Shape) + 1) /\ redo' \in BOOLEAN
  <2>1. flat' \in recipe.start..Total
    <3>1. PlacePoint \/ Commit => flat < Total
      BY DEF Shaped, PlacePoint, Commit, AtPoint, Measuring
    <3>2. flat' = flat \/ ((PlacePoint \/ Commit) /\ flat' = flat + 1)
      BY <1>1 DEF Changes, PlacePoint, Commit
    <3>3. flat \in recipe.start..Total
      BY DEF Shaped
    <3> QED BY <1>0, <3>1, <3>2, <3>3
  <2>2. redo' \in BOOLEAN
    BY <1>0, <1>1 DEF Changes, Shaped, NextPoint, PlacePoint, ResumePoint, SkipDim, SetDim, SetOut
  <2>3. dim' = dim \/ dim' = 1 \/ (dim <= LastDim /\ dim' = dim + 1)
    BY <1>0, <1>1 DEF Changes, NextPoint, PlacePoint, ResumePoint, SkipDim, SetDim, SetOut
  <2>4. dim' \in 1..(Len(Shape) + 1)
    BY <1>0, <2>3 DEF Shaped
  <2> QED BY <2>1, <2>2, <2>4
<1>14. pc' \in AtPoint => flat' < Total
  <2>1. pc' \in AtPoint => flat' = flat
    BY <1>1 DEF Changes, PlacePoint, Commit, Goto, SetOut, End, AtPoint, Measuring,
       Setting, Scouting, Fails, Stops
  <2>2. NextPoint /\ pc' \in AtPoint => flat < Total
    BY DEF NextPoint, End, AtPoint, Setting, Measuring, Scouting
  <2> QED BY <1>4, <2>1, <2>2 DEF Shaped
<1> QED
  BY <1>2, <1>4, <1>5, <1>6, <1>7, <1>8, <1>9, <1>10, <1>11, <1>12, <1>13, <1>14, <1>15, SameScan
  DEF Shaped

-----------------------------------------------------------------------------
(* How the run ends *)

\* Only the after-scan routine counts as one.
LEMMA AfterCounts ==
  ASSUME Shaped, Next
  PROVE  /\ log.after' = log.after \/ (AfterScan /\ log.after' = log.after + 1)
         /\ ~AfterScan => log.after' = log.after
<1>1. log \in Log
  BY DEF Shaped
<1>2. CASE SetDim \/ SetTogether
  BY <1>1, <1>2, SettingStep DEF Arrives, AxisRoutines, Log
<1>3. CASE BeforePoint \/ Commit
  BY <1>1, <1>3 DEF BeforePoint, Commit, Log
<1>4. CASE AfterScan
  BY <1>1, <1>4 DEF AfterScan, Log
<1>5. CASE log' = log
  BY <1>5
<1> QED BY <1>2, <1>3, <1>4, <1>5, WhoChanges DEF Changes

\* A failing call is taken from the bound, and nothing is given back.
LEMMA ErrorsCount ==
  ASSUME Shaped, Next
  PROVE  /\ left.errors < MaxErrors => left'.errors < MaxErrors
         /\ Fails => left'.errors < MaxErrors
<1>1. /\ left.faults \in 0..MaxFaults /\ left.errors \in 0..MaxErrors
      /\ left.pauses \in 0..MaxPauses /\ left \in Budget
  BY DEF Shaped, Budget
<1>2. Fails => left'.errors = left.errors - 1
  BY <1>1 DEF Fails, Budget
<1>3. FaultAppears \/ PressPause => left'.errors = left.errors
  BY <1>1 DEF FaultAppears, PressPause, Budget
<1> QED BY <1>1, <1>2, <1>3, WhoChanges, BoundsAssumption DEF Changes

\* What is to be done at an end, one by one.
LEMMA Duty ==
  /\ <<>> # <<"after">> /\ <<>> # <<"dataset">>
  /\ <<>> # <<"dataset", "after">> /\ <<>> # <<"after", "dataset">>
  /\ <<"after">> # <<"dataset">> /\ <<"after">> # <<"dataset", "after">>
  /\ <<"after">> # <<"after", "dataset">> /\ <<"dataset">> # <<"dataset", "after">>
  /\ <<"dataset">> # <<"after", "dataset">> /\ <<"dataset", "after">> # <<"after", "dataset">>
  /\ Tail(<<"dataset">>) = <<>> /\ Tail(<<"dataset", "after">>) = <<"after">>
  /\ Tail(<<"after">>) = <<>> /\ Tail(<<"after", "dataset">>) = <<"dataset">>
  /\ Head(<<"after">>) = "after" /\ Head(<<"after", "dataset">>) = "after"
  /\ Head(<<"dataset">>) = "dataset" /\ Head(<<"dataset", "after">>) = "dataset"
  OBVIOUS

\* Every step keeps what is done and what is to be done the whole of an end.
LEMMA EndsStep ==
  ASSUME Shaped, Ends, Next
  PROVE  Ends'
<1>1. Changes /\ Flow /\ recipe' = recipe
  BY WhoChanges, WhereNext DEF Changes
<1>2. Total' = Total /\ flat \in Nat /\ Total \in Nat /\ log.after \in Nat
  BY <1>1, SameScan, Scan DEF Shaped, Log
<1>3. ~HandOver => handed' = handed
  BY <1>1 DEF Changes
<1>4. pc \in {"ending", "ended"} => flat' = flat /\ data' = data /\ sweeping' = sweeping
  BY <1>1 DEF Changes, Allocate, Commit, PlacePoint, BeforeScan
<1>5. pc \in {"claim", "fixed", "allocate"} => sweeping' = sweeping
  BY <1>1 DEF Changes, BeforeScan
<1>6. ~AfterScan => log.after' = log.after
  BY AfterCounts
<1>7. left.errors < MaxErrors => left'.errors < MaxErrors
  BY ErrorsCount
<1>8. CASE (pc' = pc \/ Follow(pc, pc')) /\ UNCHANGED <<how, todo>> /\ ~HandOver /\ ~AfterScan
  <2>1. (Running' <=> Running) /\ (pc' = "ended" <=> pc = "ended")
    BY <1>8 DEF Running, Follow, Setting, Measuring
  <2>2. pc' \in {"claim", "fixed", "allocate", "before"} => ~sweeping'
    BY <1>1, <1>5, <1>8 DEF Changes, Follow, Ends, BeforeScan, Setting, Measuring, Goto, End
  <2>3. how = "done" => flat' = Total
    BY <1>4 DEF Ends, Running
  <2> QED BY <1>2, <1>3, <1>4, <1>6, <1>7, <1>8, <2>1, <2>2, <2>3 DEF Ends, Running, Handled
<1>9. CASE /\ pc \notin {"claim", "ending", "ended"}
           /\ \E outcome \in Outcomes : End(outcome) /\ (outcome = "done" => NextPoint)
           /\ sweeping' = sweeping
  <2>1. PICK outcome \in Outcomes : End(outcome) /\ (outcome = "done" => NextPoint)
    BY <1>9
  <2>2. Running /\ pc' = "ending" /\ how' = outcome /\ todo' = Duties(outcome)
    BY <1>9, <2>1 DEF End, Running
  <2>3. ~HandOver /\ ~AfterScan
    BY <1>9 DEF HandOver, AfterScan
  <2>4. outcome = "done" => flat' = Total
    BY <2>1, <2>2 DEF NextPoint, Goto, End
  <2>5. /\ todo' \in {<<"dataset", "after">>, <<"after", "dataset">>, <<"after">>}
        /\ sweeping => todo' \in {<<"dataset", "after">>, <<"after", "dataset">>}
        /\ outcome \in {"done", "aborted"} => todo' = <<"dataset", "after">>
    BY <2>2 DEF Duties, Outcomes
  <2>6. log.after' = 0 /\ handed' = None
    BY <1>3, <1>6, <2>2, <2>3 DEF Ends
  <2> QED BY <1>2, <1>9, <2>2, <2>4, <2>5, <2>6, Duty DEF Ends, Running, Handled, Outcomes
<1>10. CASE pc = "allocate" /\ pc' = "ending" /\ how' = "unprepared" /\ todo' = <<>> /\ Allocate
  BY <1>2, <1>5, <1>6, <1>10 DEF Ends, Running, Handled, AfterScan
<1>11. CASE RefuseScan
  <2>1. ~sweeping' /\ log' = log /\ todo' = todo /\ pc = "claim" /\ pc' = "ended" /\ how' = "refused"
    BY <1>11 DEF RefuseScan, Ends, ends
  <2> QED BY <2>1 DEF Ends, Running, Handled
<1>12. CASE HandOver
  <2>1. /\ pc' = pc /\ pc = "ending" /\ log' = log /\ todo # <<>> /\ Head(todo) = "dataset"
        /\ flat' = flat /\ data' = data /\ sweeping' = sweeping
    BY <1>12 DEF HandOver, odometer
  <2>2. \/ todo = <<"dataset">> /\ Tail(todo) = <<>>
        \/ todo = <<"dataset", "after">> /\ Tail(todo) = <<"after">>
    BY <2>1, Duty DEF Shaped
  <2>3. CASE handed' = data /\ todo' = Tail(todo) /\ UNCHANGED <<how, left>>
    BY <1>2, <2>1, <2>2, <2>3, Duty DEF Ends, Running, Handled
  <2>4. CASE Fails /\ Returns /\ how' = "unbuilt" /\ todo' = <<>>
    <3>1. how \in {"done", "aborted"} /\ todo = <<"dataset", "after">>
      BY <2>2, <2>4 DEF Returns, Ends
    <3> QED BY <1>2, <2>1, <2>4, <3>1 DEF Ends, Running, Handled
  <2>5. CASE Fails /\ ~Returns /\ todo' = Tail(todo) /\ UNCHANGED how /\ UNCHANGED handed
    <3>1. left'.errors < MaxErrors
      BY <2>5, ErrorsCount
    <3> QED BY <1>2, <2>1, <2>2, <2>5, <3>1, Duty DEF Ends, Running, Handled, Returns
  <2> QED BY <1>12, <2>3, <2>4, <2>5 DEF HandOver
<1>13. CASE AfterScan
  <2>1. /\ pc' = pc /\ pc = "ending" /\ todo # <<>> /\ Head(todo) = "after" /\ todo' = Tail(todo)
        /\ flat' = flat /\ data' = data /\ sweeping' = sweeping /\ handed' = handed
    BY <1>13 DEF AfterScan, odometer
  <2>2. \/ todo = <<"after">> /\ Tail(todo) = <<>>
        \/ todo = <<"after", "dataset">> /\ Tail(todo) = <<"dataset">>
    BY <2>1, Duty DEF Shaped
  <2>3. <<"after">> # <<>> /\ <<"after", "dataset">> # <<>> /\ <<"after">> # <<"dataset">>
        /\ <<"after", "dataset">> # <<"dataset">>
    OBVIOUS
  <2>4. log.after = 0 /\ log.after' = 1 /\ Handled
    <3>1. Handled /\ log.after = 0
      BY <2>1, <2>2, <2>3 DEF Ends, Running
    <3>2. log \in Log
      BY DEF Shaped
    <3>3. log.after' = log.after + 1
      BY <1>13, <3>2 DEF AfterScan, Log
    <3> QED BY <3>1, <3>3
  <2>5. how' = how \/ (Returns /\ how' = "routine")
    BY <1>13 DEF AfterScan
  <2> QED BY SMTT(30), <1>2, <1>7, <2>1, <2>2, <2>3, <2>4, <2>5 DEF Ends, Running, Handled, Returns
<1>14. CASE ReleaseInstruments
  <2>1. /\ pc' = "ended" /\ pc = "ending" /\ log' = log /\ todo = <<>> /\ left' = left
        /\ flat' = flat /\ data' = data /\ UNCHANGED <<sweeping, how, todo, handed>>
    BY <1>14 DEF ReleaseInstruments, odometer
  <2> QED BY <1>2, <2>1 DEF Ends, Running, Handled
<1> QED
  BY <1>1, <1>8, <1>9, <1>10, <1>11, <1>12, <1>13, <1>14 DEF Flow

-----------------------------------------------------------------------------
(* The mask *)

\* The engine goes on to the next point from "place" or from "commit".
LEMMA FlatSteps ==
  ASSUME Shaped, Next
  PROVE  \/ flat' = flat
         \/ /\ flat' = flat + 1 /\ flat < Total /\ pc' = "point" /\ UNCHANGED <<visit, scouted>>
            /\ \/ PlacePoint /\ pc = "place" /\ flat \notin visit
               \/ Commit /\ pc = "commit"
<1>1. PlacePoint \/ Commit => flat < Total
  BY DEF Shaped, PlacePoint, Commit, AtPoint, Measuring
<1> QED BY ZenonT(60), <1>1, WhoChanges DEF Changes, PlacePoint, Commit, Goto, scouting

\* A block is scouted before its first point is placed.
LEMMA MaskedStep ==
  ASSUME Shaped, Masked, Next
  PROVE  Masked'
<1>1. Changes /\ Flow /\ recipe' = recipe
  BY WhoChanges, WhereNext DEF Changes
<1>2. /\ Points' = Points /\ flat \in Nat /\ recipe.start \in Nat
      /\ \A n : IndexOf(n)' = IndexOf(n)
      /\ \A idx : BlockOf(idx)' = BlockOf(idx)
  BY <1>1, SameScan, Scan
<1>3. \/ flat' = flat
      \/ /\ flat' = flat + 1 /\ pc' = "point" /\ UNCHANGED <<visit, scouted>>
         /\ pc \in {"place", "commit"}
  BY FlatSteps
<1>4. flat' = flat => BlockOf(Here)' = BlockOf(Here)
  BY <1>1 DEF BlockOf, Here, IndexOf, Shape, OuterDims, Dims
<1>5. (recipe.scouted = {} => visit = Points)'
  BY <1>1, <1>2 DEF Masked, Changes, MakeMask, Scouting, ScoutDue
<1>6. MakeMask => pc' \in {"place", "ending"} /\ flat' = flat
  BY DEF MakeMask, Goto, End, odometer
<1>7. CASE MakeMask
  <2>1. pc' = "place" => BlockOf(Here) \in scouted' 
    BY <1>7 DEF MakeMask, End
  <2>2. scouted \subseteq scouted'
    BY <1>7 DEF MakeMask
  <2> QED BY <1>1, <1>2, <1>4, <1>5, <1>6, <1>7, <2>1, <2>2 DEF Masked, ScoutDue, Scouting,
             AtPoint, Setting, Measuring
<1>8. CASE ~MakeMask
  <2>1. visit' = visit /\ scouted' = scouted
    BY <1>1, <1>8 DEF Changes
  <2>2. pc' \in AtPoint => flat' = flat
    BY <1>3 DEF AtPoint, Setting, Measuring, Scouting
  <2>3. flat' = flat => (ScoutDue' <=> ScoutDue)
    BY <1>1, <1>4, <2>1 DEF ScoutDue
  <2>4. pc' \in Scouting => ScoutDue
    BY <1>1 DEF Flow, Follow, Scouting, Setting, Measuring, Masked, NextPoint, Goto, End,
       RefuseScan, 
                HandOver, AfterScan, ReleaseInstruments
  <2>5. pc' \in AtPoint \ Scouting => ~ScoutDue
    BY <1>1, <1>8 DEF Flow, Follow, AtPoint, Scouting, Setting, Measuring, Masked,
       NextPoint, Goto, End, RefuseScan, 
                HandOver, AfterScan, ReleaseInstruments
  <2>6. pc' \in AtPoint \ (Scouting \cup {"place"}) => flat \in visit
    BY <1>1, <1>8 DEF Flow, Follow, AtPoint, Scouting, Setting, Measuring, Masked,
       PlacePoint, Goto, End, RefuseScan, 
                HandOver, AfterScan, ReleaseInstruments
  <2>7. recipe.scouted # {} => \A n \in recipe.start..(flat' - 1) : BlockOf(IndexOf(n)) \in scouted
    <3>1. flat' # flat => ~ScoutDue
      BY <1>3 DEF Masked, AtPoint, Measuring, Scouting
    <3>2. recipe.scouted # {} /\ flat' # flat => BlockOf(IndexOf(flat)) \in scouted
      BY <3>1 DEF ScoutDue, Here
    <3> QED BY <1>2, <1>3, <3>2 DEF Masked
  <2> QED BY <1>1, <1>2, <1>5, <2>1, <2>2, <2>3, <2>4, <2>5, <2>6, <2>7 DEF Masked, AtPoint
<1> QED BY <1>7, <1>8

-----------------------------------------------------------------------------
(* Setting the dims of a point *)

\* Only the setting moves from value to value and runs the axis routines.
LEMMA Still ==
  ASSUME Shaped, Next, ~SetDim, ~SetTogether
  PROVE  prev' = prev /\ log'.axis = log.axis /\ (resend' = resend \/ MakeMask)
<1>1. log \in Log
  BY DEF Shaped
<1>2. log' = log \/ log'.axis = log.axis
  BY <1>1, WhoChanges DEF Changes, BeforePoint, Commit, AfterScan, Log
<1> QED BY <1>2, WhoChanges DEF Changes

\* The point stays where it is, but for the step to the next one.
LEMMA HereStays ==
  ASSUME Shaped, Next, pc' # "point"
  PROVE  flat' = flat /\ Here' = Here
<1>1. flat' = flat
  BY FlatSteps
<1> QED BY <1>1, WhoChanges DEF Changes, Here, IndexOf, Shape

\* The dims that count as set have been set to this point.
LEMMA SetSoFarStep ==
  ASSUME Shaped, SetSoFar, Next
  PROVE  SetSoFar'
<1>1. Changes /\ Flow /\ recipe' = recipe
  BY WhoChanges, WhereNext DEF Changes
<1>2. Dims(Shape)' = Dims(Shape) /\ Dims(Shape) = 1..Len(Shape) /\ dim \in 1..(Len(Shape) + 1)
      /\ LastDim \in 0..Len(Shape) /\ Len(Shape) \in Nat
  BY <1>1, SameScan, Scan, OuterFirst DEF Shaped
<1>3. (pc = "outer" => ~redo)'
  BY <1>1 DEF Flow, Follow, Changes, NextPoint, PlacePoint, ResumePoint, SkipDim, SetDim, SetOut,
              SetSoFar, Setting, Measuring, End, Goto, HandOver, AfterScan, ReleaseInstruments, RefuseScan
<1>4. CASE SkipDim
  <2>1. pc' = pc /\ pc \in {"set", "outer"} /\ dim' = dim + 1 /\ prev' = prev /\ resend' = resend
        /\ flat' = flat /\ Here' = Here /\ IsSet(dim)
    BY <1>1, <1>4 DEF SkipDim, Here, IndexOf, Shape, MustSet, IsSet
  <2> QED BY <1>2, <1>3, <2>1 DEF SetSoFar, IsSet, Measuring
<1>5. CASE SetDim
  <2>1. flat' = flat /\ Here' = Here /\ DOMAIN prev = Dims(Shape)
    BY <1>1, <1>5 DEF SetDim, Here, IndexOf, Shape, Shaped
  <2>2. pc' = "set" =>
          /\ pc = "set" /\ dim' = dim + 1 /\ dim \in Dims(Shape)
          /\ prev' = AtThisPoint({dim}, prev) /\ resend' = resend \ {dim}
    BY <1>2, <1>5 DEF SetDim, SetFails, PointFails, Stops, GivesUp, Hold, End, Goto, Fails
  <2>3. pc' \notin Measuring
    BY <1>5 DEF SetDim, SetFails, PointFails, Stops, GivesUp, Hold, End, Goto, Measuring
  <2> QED BY <1>2, <1>3, <2>1, <2>2, <2>3 DEF SetSoFar, IsSet, AtThisPoint
<1>6. CASE SetTogether
  <2>1. flat' = flat /\ Here' = Here /\ DOMAIN prev = Dims(Shape)
    BY <1>1, <1>6 DEF SetTogether, Here, IndexOf, Shape, Shaped
  <2>2. pc' # "set" /\ (pc' \in Measuring =>
          LET setting == {k \in Dims(Shape) : MustSet(k, redo)}
          IN  prev' = AtThisPoint(setting, prev) /\ resend' = resend \ setting)
    BY <1>6 DEF SetTogether, PointFails, Stops, GivesUp, Hold, End, Goto, Fails, Measuring
  <2> QED BY <1>2, <1>3, <2>1, <2>2 DEF SetSoFar, IsSet, AtThisPoint, MustSet
<1>7. CASE ~SkipDim /\ ~SetDim /\ ~SetTogether
  <2>1. prev' = prev /\ (resend' = resend \/ MakeMask)
    BY <1>7, Still
  <2>2. pc' = "set" => dim' = 1 \/ (pc = "set" /\ dim' = dim)
    BY <1>1, <1>7 DEF Flow, Follow, Changes, NextPoint, PlacePoint, ResumePoint, SetOut,
                Setting, Measuring, End, Goto, HandOver, AfterScan, ReleaseInstruments, RefuseScan
  <2>3. pc' \in Measuring => pc \in Measuring \/ (pc = "set" /\ AllDimsSet)
    BY <1>1, <1>7 DEF Flow, Follow, Setting, Measuring, End, HandOver, AfterScan,
       ReleaseInstruments,
                RefuseScan
  <2>4. MakeMask => pc' \in {"place", "ending"}
    BY DEF MakeMask, Goto, End
  <2>5. pc = "set" /\ AllDimsSet => dim = Len(Shape) + 1
    BY <1>2 DEF AllDimsSet, LastDim
  <2>6. pc' # "point" => Here' = Here
    BY HereStays
  <2> QED BY <1>2, <1>3, <2>1, <2>2, <2>3, <2>4, <2>5, <2>6 DEF SetSoFar, IsSet, Measuring
<1> QED BY <1>4, <1>5, <1>6, <1>7

-----------------------------------------------------------------------------
(* The axis routines *)

\* The axis routines of dims left and arrived at, one each.
LEMMA Routines ==
  ASSUME Shaped, NEW S \in SUBSET Dims(Shape), NEW L \in SUBSET Dims(Shape), Arrives(S, L),
         NEW k \in Dims(Shape)
  PROVE  /\ prev'[k] = IF k \in S THEN Here[k] ELSE IF k \in L THEN None ELSE prev[k]
         /\ log'.axis[k].opened = IF k \in S /\ Changed(k) THEN log.axis[k].opened + 1
                                  ELSE log.axis[k].opened
         /\ log'.axis[k].closed = IF k \in L THEN log.axis[k].closed + 1
                                  ELSE log.axis[k].closed
<1>1. log \in Log /\ DOMAIN log.axis = Dims(Shape)
  BY DEF Shaped, Log
<1> QED BY <1>1 DEF Arrives, AxisRoutines, Log

\* Leaving and arriving alternate.
LEMMA PairedStep ==
  ASSUME Shaped, Paired, Next
  PROVE  Paired'
<1>1. recipe' = recipe /\ Dims(Shape)' = Dims(Shape)
  BY WhoChanges, SameScan DEF Changes
<1>2. CASE SetDim \/ SetTogether
  <2>1. PICK S \in SUBSET Dims(Shape), L \in SUBSET Dims(Shape) : Arrives(S, L)
    BY <1>2, SettingStep
  <2>2. flat < Total
    BY <1>2, SettingStep
  <2>3. ASSUME NEW k \in Dims(Shape)
        PROVE  /\ log'.axis[k].opened \in {log'.axis[k].closed, log'.axis[k].closed + 1}
               /\ prev'[k] # None <=> log'.axis[k].opened = log'.axis[k].closed + 1
    <3>1. log.axis[k].opened \in Nat /\ log.axis[k].closed \in Nat
      BY DEF Shaped, Log, AxisLog
    <3>2. Here[k] # None
      BY <2>2, HereIn
    <3>3. /\ log.axis[k].opened \in {log.axis[k].closed, log.axis[k].closed + 1}
          /\ prev[k] # None <=> log.axis[k].opened = log.axis[k].closed + 1
      BY DEF Paired
    <3>4. (k \in L => Leaves(k)) /\ (k \in S /\ Leaves(k) => k \in L)
      BY <2>1 DEF Arrives
    <3> QED BY <2>1, <3>1, <3>2, <3>3, <3>4, Routines DEF Leaves, Changed
  <2> QED BY <1>1, <2>3 DEF Paired
<1>3. CASE ~SetDim /\ ~SetTogether
  BY <1>1, <1>3, Still DEF Paired
<1> QED BY <1>2, <1>3

\* One point on, a dim has taken one value more, or none.
LEMMA OneMore ==
  ASSUME Shaped, NEW k, NEW m \in recipe.start..Total
  PROVE  /\ Cardinality(NewBefore(k, m)) \in Nat
         /\ NewAt(k, m) => Cardinality(NewBefore(k, m + 1)) = Cardinality(NewBefore(k, m)) + 1
         /\ ~NewAt(k, m) => NewBefore(k, m + 1) = NewBefore(k, m)
<1>1. recipe.start \in Nat /\ Total \in Nat
  BY Scan
<1>2. IsFiniteSet(recipe.start..(m - 1))
  BY <1>1, FS_Interval
<1>3. IsFiniteSet(NewBefore(k, m))
  BY <1>2, FS_Subset DEF NewBefore
<1>4. m \notin NewBefore(k, m)
  BY <1>1 DEF NewBefore
<1>5. recipe.start..((m + 1) - 1) = (recipe.start..(m - 1)) \cup {m}
  BY <1>1
<1>6. NewAt(k, m) => NewBefore(k, m + 1) = NewBefore(k, m) \cup {m}
  BY <1>5 DEF NewBefore
<1>7. ~NewAt(k, m) => NewBefore(k, m + 1) = NewBefore(k, m)
  BY <1>5 DEF NewBefore
<1> QED BY <1>3, <1>4, <1>6, <1>7, FS_AddElement, FS_CardinalityType

\* Without a scout, the routines that ran are those of the values behind.
LEMMA ArrivedStep ==
  ASSUME Shaped, Masked, SetSoFar, Ends, Arrived, Next
  PROVE  Arrived'
<1> SUFFICES ASSUME recipe.scouted = {}, NEW k \in Dims(Shape)
             PROVE  /\ pc' \in Between =>
                         /\ prev'[k] = IF flat' = recipe.start THEN None ELSE IndexOf(flat' - 1)[k]
                         /\ Opened(k)' = Cardinality(NewBefore(k, flat'))
                    /\ pc' \in AtPoint \ Between =>
                         \/ /\ prev'[k] = Here'[k]
                            /\ Opened(k)' = Cardinality(NewBefore(k, flat' + 1))
                         \/ /\ prev'[k] # Here'[k] /\ NewAt(k, flat')
                            /\ Opened(k)' = Cardinality(NewBefore(k, flat'))
                    /\ how' = "done" => Opened(k)' = Cardinality(NewBefore(k, flat'))
  <2>1. recipe' = recipe
    BY WhoChanges DEF Changes
  <2>2. \A n : IndexOf(n)' = IndexOf(n)
    BY <2>1, SameScan
  <2>3. \A j, m : NewAt(j, m)' <=> NewAt(j, m)
    BY <2>1, <2>2 DEF NewAt
  <2>4. \A j, m : NewBefore(j, m)' = NewBefore(j, m)
    BY <2>1, <2>3 DEF NewBefore
  <2>5. Dims(Shape)' = Dims(Shape)
    BY <2>1, SameScan
  <2> QED BY <2>1, <2>2, <2>3, <2>4, <2>5 DEF Arrived
<1>1. Changes /\ Flow /\ recipe' = recipe
  BY WhoChanges, WhereNext DEF Changes
<1>2. /\ visit = Points /\ ~ScoutDue /\ pc \notin Scouting
  BY DEF Masked, ScoutDue
<1>3. flat \in recipe.start..Total /\ recipe.start \in Nat /\ Total \in Nat
  BY Scan DEF Shaped
<1>4. flat < Total => flat \in visit
  BY <1>2, HereIn
<1>5. CASE SetDim \/ SetTogether
  <2>1. PICK S \in SUBSET Dims(Shape), L \in SUBSET Dims(Shape) : Arrives(S, L)
    BY <1>5, SettingStep
  <2>2. flat < Total /\ pc \in AtPoint \ Between /\ flat' = flat /\ Here' = Here
    BY <1>1, <1>5, SettingStep DEF SetDim, SetTogether, AtPoint, Between, Setting, Scouting,
       Here, IndexOf, Shape
  <2>3. pc' \notin Between /\ how' # "done"
    BY <1>5 DEF SetDim, SetTogether, SetFails, PointFails, Stops, GivesUp, Hold, End, Goto,
                Between, Ends, Running
  <2>4. Opened(k)' = log'.axis[k].opened /\ Opened(k) \in Nat
    BY DEF Opened, Shaped, Log, AxisLog
  <2>5. /\ Cardinality(NewBefore(k, flat)) \in Nat
        /\ NewAt(k, flat) => Cardinality(NewBefore(k, flat + 1)) = Cardinality(NewBefore(k, flat)) + 1
    BY <1>3, OneMore
  <2>6. Here[k] # None /\ (k \in L => Leaves(k))
    BY <2>1, <2>2, HereIn DEF Arrives
  <2>7. \/ /\ prev[k] = Here[k]
           /\ Opened(k) = Cardinality(NewBefore(k, flat + 1))
        \/ /\ prev[k] # Here[k] /\ NewAt(k, flat)
           /\ Opened(k) = Cardinality(NewBefore(k, flat))
    BY <2>2 DEF Arrived
  <2>8. /\ prev'[k] = IF k \in S THEN Here[k] ELSE IF k \in L THEN None ELSE prev[k]
        /\ log'.axis[k].opened = IF k \in S /\ Changed(k) THEN log.axis[k].opened + 1
                                 ELSE log.axis[k].opened
    BY <2>1, Routines
  <2> QED BY <2>2, <2>3, <2>4, <2>5, <2>6, <2>7, <2>8 DEF Opened, Changed, Leaves
<1>6. CASE ~SetDim /\ ~SetTogether
  <2>1. prev' = prev /\ Opened(k)' = Opened(k)
    BY <1>6, Still DEF Opened
  <2>2. CASE flat' = flat
    <3>1. Here' = Here
      BY <1>1, <2>2 DEF Here, IndexOf, Shape
    <3>2. pc' \in Between => pc \in Between
      <4>1. PlacePoint => pc' \notin Between
        <5>1. flat' # flat + 1
          BY <1>3, <2>2
        <5>2. PlacePoint => SetOut(FALSE)
          BY <5>1 DEF PlacePoint
        <5>3. SetOut(FALSE) => pc' \in Setting
          BY DEF SetOut, Goto, Setting
        <5> QED BY <5>2, <5>3 DEF Between, Setting
      <4>2. Commit => pc' = "ending"
        BY <1>3, <2>2 DEF Commit, Fails, Stops, End
      <4> QED BY <1>1, <1>2, <4>1, <4>2 DEF Flow, Follow, Between, End, Setting, Measuring,
                 Scouting,
              RefuseScan, HandOver, AfterScan, ReleaseInstruments
    <3>3. pc' \in AtPoint \ Between => pc \in AtPoint \ Between \/ (pc = "place" /\ pc' \in Setting)
      BY <1>1, <1>2, <1>4, <2>2 DEF Flow, Follow, Between, End, AtPoint, Setting,
         Measuring, Scouting, NextPoint,
         RefuseScan, HandOver, AfterScan, ReleaseInstruments, SetOut, Goto, Commit, ScoutDue
    <3>4. how' = "done" => how = "done" \/ pc = "point"
      BY <1>1 DEF Flow, End, Outcomes, NextPoint, RefuseScan, HandOver, AfterScan,
         ReleaseInstruments
    <3>5. CASE pc = "place" /\ pc' \in Setting
      <4>1. flat < Total /\ how' = "running"
        BY <1>1, <3>5 DEF Shaped, AtPoint, Ends, Running, Flow, Follow, End, Setting, RefuseScan,
           HandOver, AfterScan, ReleaseInstruments
      <4>2. Here[k] # None /\ (flat = recipe.start => NewAt(k, flat))
        BY <4>1, HereIn DEF NewAt
      <4>3. /\ NewAt(k, flat) \/ Here[k] = IndexOf(flat - 1)[k]
            /\ NewAt(k, flat) /\ flat # recipe.start => Here[k] # IndexOf(flat - 1)[k]
        BY DEF NewAt, Here
      <4>4. ~NewAt(k, flat) => NewBefore(k, flat + 1) = NewBefore(k, flat)
        BY <1>3, OneMore
      <4>5. /\ prev[k] = IF flat = recipe.start THEN None ELSE IndexOf(flat - 1)[k]
            /\ Opened(k) = Cardinality(NewBefore(k, flat))
        BY <3>5 DEF Arrived, Between
      <4> QED BY <2>1, <2>2, <3>1, <3>5, <4>1, <4>2, <4>3, <4>4, <4>5 DEF Between, Setting
    <3> QED BY <2>1, <2>2, <3>1, <3>2, <3>3, <3>4, <3>5 DEF Arrived, Between
  <2>3. CASE flat' # flat
    <3>1. flat' = flat + 1 /\ pc' = "point" /\ pc = "commit" /\ Commit /\ flat < Total
      BY <1>4, <2>3, FlatSteps
    <3>2. prev[k] = Here[k] /\ Opened(k) = Cardinality(NewBefore(k, flat + 1))
      BY <3>1 DEF SetSoFar, IsSet, Measuring, Arrived, AtPoint, Between
    <3>3. how' = "running"
      BY <3>1 DEF Ends, Running, Commit, Goto, End, Stops, Fails
    <3> QED BY <1>3, <2>1, <3>1, <3>2, <3>3 DEF Here, AtPoint, Between, Setting, Measuring, Scouting
  <2> QED BY <2>2, <2>3
<1> QED BY <1>5, <1>6

-----------------------------------------------------------------------------
(* The knobs stand where the values say *)

\* While somebody may move the knobs only at a point's fault, when all of them
\* are set again, a dim that counts as set stands where it was set to.
LEMMA StandsStep ==
  ASSUME Shaped, SetSoFar, Stands, ReaimAt \subseteq {"hold"}, Next
  PROVE  Stands'
<1>1. Changes /\ Flow /\ recipe' = recipe
  BY WhoChanges, WhereNext DEF Changes
<1>2. /\ Knobs' = Knobs /\ OuterDims' = OuterDims /\ Knobs \subseteq Dims(Shape)
      /\ Dims(Shape) = 1..Len(Shape) /\ Len(Shape) \in Nat
      /\ DOMAIN knob = Dims(Shape) /\ DOMAIN prev = Dims(Shape)
      /\ dim \in 1..(Len(Shape) + 1) /\ redo \in BOOLEAN
  BY <1>1, SameScan, Scan DEF Knobs, Shaped
<1>3. SUFFICES ASSUME NEW k \in Knobs, Sure(k)', prev'[k] # None, k \notin resend'
               PROVE  knob'[k] = prev'[k]
  BY <1>2 DEF Stands
<1>4. Sure(k)' <=> CASE pc' \in {"hold", "ending", "ended"} -> FALSE
                     [] pc' = "set" /\ redo' -> k < dim'
                     [] pc' = "together" /\ redo' -> FALSE
                     [] pc' \in {"coarse", "scout_hold"} -> k \in OuterDims
                     [] OTHER -> TRUE
  BY <1>2 DEF Sure
<1>5. pc' \notin {"hold", "ending", "ended"} /\ k \in 1..Len(Shape)
  BY <1>2, <1>3, <1>4
<1>6. Sure(k) /\ prev[k] # None /\ k \notin resend => knob[k] = prev[k]
  BY DEF Stands
<1>7. OuterDims \cap recipe.scouted = {} /\ OuterDims \cap InnerKnobs = {}
  BY Scan DEF OuterDims, InnerKnobs
<1>8. CASE SetDim
  <2>1. /\ pc' = pc /\ dim' = dim + 1 /\ redo' = redo /\ resend' = resend \ {dim}
        /\ prev' = AtThisPoint({dim}, prev) /\ knob' = MovedTo({dim}, Here)
        /\ pc \in {"set", "outer"}
    BY <1>5, <1>8 DEF SetDim, SetFails, PointFails, Stops, GivesUp, Hold, End, Goto
  <2>2. k = dim => prev'[k] = Here[k] /\ knob'[k] = Here[k]
    BY <1>2, <2>1 DEF AtThisPoint, MovedTo
  <2>3. k # dim => prev'[k] = prev[k] /\ knob'[k] = knob[k] /\ k \notin resend
    BY <1>2, <1>3, <2>1 DEF AtThisPoint, MovedTo
  <2>4. k # dim => Sure(k)
    BY <1>2, <1>3, <1>4, <1>5, <2>1 DEF Sure
  <2> QED BY <1>3, <1>6, <2>2, <2>3, <2>4
<1>9. CASE SetTogether
  <2> DEFINE setting == {j \in Dims(Shape) : MustSet(j, redo)}
  <2>1. /\ pc = "together" /\ resend' = resend \ setting
        /\ prev' = AtThisPoint(setting, prev) /\ knob' = MovedTo(setting, Here)
    BY <1>5, <1>9 DEF SetTogether, PointFails, Stops, GivesUp, Hold, End, Goto
  <2>2. k \in setting => prev'[k] = Here[k] /\ knob'[k] = Here[k]
    BY <1>2, <2>1 DEF AtThisPoint, MovedTo
  <2>3. k \notin setting => prev'[k] = prev[k] /\ knob'[k] = knob[k] /\ k \notin resend
    BY <1>2, <1>3, <2>1 DEF AtThisPoint, MovedTo
  <2>4. k \notin setting => ~redo
    BY <1>2 DEF MustSet
  <2>5. ~redo => Sure(k)
    BY <2>1 DEF Sure
  <2> QED BY <1>3, <1>6, <2>2, <2>3, <2>4, <2>5
<1>10. CASE StartScout \/ ScoutPoint
  <2>1. pc \in {"scout", "coarse"} /\ pc' \in {"coarse", "scout_hold"} /\ prev' = prev /\ resend' = resend
    BY <1>5, <1>10 DEF StartScout, ScoutPoint, GivesUp, Hold, End, Goto, odometer
  <2>2. k \in OuterDims
    BY <1>3, <1>4, <2>1
  <2>3. knob'[k] = knob[k]
    BY <1>2, <1>7, <1>10, <2>1, <2>2 DEF StartScout, ScoutPoint, MovedTo, End
  <2>4. Sure(k)
    BY <2>1, <2>2 DEF Sure
  <2> QED BY <1>3, <1>6, <2>1, <2>3, <2>4
<1>11. CASE MakeMask
  <2>1. pc = "coarse" /\ prev' = prev /\ knob' = knob
        /\ resend' = resend \cup InnerKnobs \cup recipe.scouted
    BY <1>5, <1>11 DEF MakeMask, End, Goto
  <2>2. k \in OuterDims
    BY <1>3, <2>1 DEF InnerKnobs
  <2>3. Sure(k) /\ k \notin resend
    BY <1>3, <2>1, <2>2 DEF Sure
  <2> QED BY <1>3, <1>6, <2>1, <2>3
<1>12. CASE AfterScan \/ Reaim
  <2>1. AfterScan => pc' = "ending"
    BY DEF AfterScan
  <2>2. Reaim => pc' = "hold"
    BY DEF Reaim, Wait, engineVars
  <2> QED BY <1>5, <1>12, <2>1, <2>2
<1>13. CASE /\ ~SetDim /\ ~SetTogether /\ ~StartScout /\ ~ScoutPoint /\ ~MakeMask
            /\ ~AfterScan /\ ~Reaim
  <2>1. prev' = prev /\ knob' = knob /\ resend' = resend
    BY <1>1, <1>13 DEF Changes
  <2>2. CASE SkipDim
    <3>1. ~redo /\ pc \in {"set", "outer"} /\ pc' = pc
      BY <2>2 DEF SkipDim, MustSet
    <3>2. Sure(k)
      BY <3>1 DEF Sure
    <3> QED BY <1>3, <1>6, <2>1, <3>2
  <2>3. CASE AllDimsSet
    <3>1. pc \in {"set", "outer"} /\ (pc = "set" => k < dim)
      BY <1>2, <1>5, <2>3 DEF AllDimsSet, LastDim
    <3>2. Sure(k)
      BY <3>1 DEF Sure
    <3> QED BY <1>3, <1>6, <2>1, <3>2
  <2>4. CASE ResumePoint
    <3>1. pc' \in {"set", "together"} /\ redo' = TRUE /\ dim' = 1
      BY <2>4 DEF ResumePoint, SetOut, Goto
    <3> QED BY <1>3, <1>4, <1>5, <3>1
  <2>5. CASE ~SkipDim /\ ~AllDimsSet /\ ~ResumePoint
    <3>1. pc' = pc => UNCHANGED <<dim, redo>> \/ pc \notin {"set", "together"}
      BY <1>1, <1>13, <2>5 DEF Changes, NextPoint, PlacePoint
    <3>2. pc' # pc => pc \notin {"hold", "set", "together", "ending", "ended", "coarse"}
      BY <1>1, <1>5, <1>13, <2>5 DEF Flow, Follow, Setting, Measuring, End, RefuseScan, HandOver,
                                     ReleaseInstruments
    <3>3. pc = "scout_hold" /\ pc' # pc => pc' = "coarse"
      BY <1>1, <1>5, <1>13, <2>5 DEF Flow, Follow, Setting, Measuring, End, RefuseScan, HandOver,
                                     ReleaseInstruments
    <3>4. Sure(k)
      <4>1. CASE pc \in {"set", "together"}
        <5>1. pc' = pc /\ dim' = dim /\ redo' = redo
          BY <3>1, <3>2, <4>1
        <5> QED BY <1>3, <1>4, <4>1, <5>1 DEF Sure
      <4>2. CASE pc \in {"coarse", "scout_hold"}
        <5>1. k \in OuterDims
          BY <1>3, <1>4, <3>2, <3>3, <4>2
        <5> QED BY <4>2, <5>1 DEF Sure
      <4>3. CASE pc \notin {"set", "together", "coarse", "scout_hold"}
        BY <1>5, <3>2, <4>3 DEF Sure
      <4> QED BY <4>1, <4>2, <4>3
    <3> QED BY <1>3, <1>6, <2>1, <3>4
  <2> QED BY <2>2, <2>3, <2>4, <2>5
<1> QED BY <1>1, <1>8, <1>9, <1>10, <1>11, <1>12, <1>13

\* A reading in hand is committed or thrown away.
LEMMA InHand ==
  ASSUME Next, pc \in {"check", "commit"}
  PROVE  \/ CheckReading \/ Commit
         \/ pc' = pc /\ reading' = reading /\ data' = data /\ (faulted => faulted' \/ pc = "commit")
<1> USE DEF vars, ends, operator
<1>1. CASE RefuseScan \/ ClaimInstruments \/ SetFixed \/ Allocate \/ BeforeScan \/ NextPoint
           \/ PlacePoint \/ SkipDim \/ SetDim \/ SetTogether \/ AllDimsSet \/ BeforePoint
           \/ Acquire \/ Read \/ ResumePoint \/ AbortWhilePaused \/ StartScout \/ ScoutPoint
           \/ ResumeScout \/ MakeMask \/ HandOver \/ AfterScan \/ ReleaseInstruments \/ Finished
  BY <1>1 DEF RefuseScan, ClaimInstruments, SetFixed, Allocate, BeforeScan, NextPoint, PlacePoint,
         SkipDim, SetDim, SetTogether, AllDimsSet, BeforePoint, Acquire, Read, ResumePoint,
         AbortWhilePaused, StartScout, ScoutPoint, ResumeScout, MakeMask, HandOver, AfterScan,
         ReleaseInstruments, Finished
<1>2. CASE FaultAppears \/ FaultClears \/ Reaim \/ PressAbort \/ PressPause \/ PressResume
  BY <1>2 DEF FaultAppears, FaultClears, Reaim, PressAbort, PressPause, PressResume, engineVars
<1> QED BY <1>1, <1>2 DEF Next, EngineStep, Environment

\* A reading kept belongs to its slot.
LEMMA KeptStep ==
  ASSUME Shaped, SetSoFar, Stands, Kept, Next
  PROVE  Kept'
<1>1. Changes /\ Flow /\ recipe' = recipe
  BY WhoChanges, WhereNext DEF Changes
<1>2. /\ Knobs' = Knobs /\ Grid(Shape)' = Grid(Shape) /\ Knobs \subseteq Dims(Shape)
      /\ \A r, idx : Belongs(r, idx)' <=> Belongs(r, idx)
  BY <1>1, SameScan DEF Knobs, Belongs
<1>3. tuned' => pc' \in {"coarse", "scout_hold", "ending", "ended"}
  <2>1. CASE StartScout \/ ScoutPoint \/ ResumeScout \/ MakeMask
    BY <2>1 DEF StartScout, ScoutPoint, ResumeScout, MakeMask, Kept, Goto, End, Hold, GivesUp
  <2>2. CASE tuned' = tuned /\ ~MakeMask
    BY <1>1, <2>2 DEF Kept, Flow, Follow, Setting, Measuring, End, RefuseScan, HandOver, AfterScan,
                      ReleaseInstruments
  <2> QED BY <1>1, <2>1, <2>2 DEF Changes
<1>4. reading' # None =>
        /\ pc' \in {"check", "commit"}
        /\ Belongs(reading', Here')
        /\ reading'.faulted => pc' = "check" /\ faulted'
  <2>1. CASE Read
    <3>1. CASE reading' = reading
      <4>1. pc = "read"
        BY <2>1 DEF Read
      <4> QED BY <3>1, <4>1 DEF Kept
    <3>2. CASE /\ Goto("check")
               /\ reading' = [at |-> knob, faulted |-> faulted, tuned |-> tuned]
      <4>1. pc = "read" /\ faulted' = faulted /\ Here' = Here
        BY <2>1, <3>2, HereStays DEF Read, Goto
      <4>2. ~tuned /\ flat < Total
        BY <4>1 DEF Kept, Shaped, AtPoint, Measuring
      <4>3. ASSUME NEW k \in Knobs PROVE knob[k] = Here[k]
        <5>1. prev[k] = Here[k] /\ k \notin resend /\ Here[k] # None
          BY <1>2, <4>1, <4>2, HereIn DEF SetSoFar, Measuring, IsSet
        <5>2. Sure(k)
          BY <4>1 DEF Sure
        <5> QED BY <5>1, <5>2 DEF Stands
      <4> QED BY <1>2, <3>2, <4>1, <4>2, <4>3 DEF Belongs, Goto
    <3> QED BY <2>1, <3>1, <3>2 DEF Read
  <2>2. CASE CheckReading
    <3>1. pc = "check" /\ faulted' = faulted /\ (faulted => reading' = None)
          /\ (~faulted => reading' = reading /\ pc' = "commit")
      BY <2>2 DEF CheckReading, Goto
    <3>2. pc' = "commit" => Here' = Here
      BY HereStays
    <3> QED BY <1>2, <3>1, <3>2 DEF Kept
  <2>3. CASE Commit
    BY <2>3 DEF Commit
  <2>4. CASE ~Read /\ ~CheckReading /\ ~Commit
    <3>1. reading' = reading
      BY <1>1, <2>4 DEF Changes
    <3>2. reading # None => pc' = pc /\ (faulted => faulted' \/ pc = "commit") /\ pc' # "point"
      BY <2>4, InHand DEF Kept
    <3> QED BY <1>2, <3>1, <3>2, HereStays DEF Kept
  <2> QED BY <2>1, <2>2, <2>3, <2>4
<1>5. \A idx \in Grid(Shape) :
        Measured(idx)' => Belongs(data'[idx], idx) /\ ~data'[idx].faulted
  <2>1. CASE Allocate
    BY <2>1 DEF Allocate, Measured, Kept, Shaped
  <2>2. CASE Commit
    <3>1. pc = "commit" /\ (data' = data \/ (reading # None /\ data' = [data EXCEPT ![Here] = reading]))
      BY <2>2 DEF Commit
    <3>2. reading # None => Belongs(reading, Here) /\ ~reading.faulted
      BY <3>1 DEF Kept
    <3> QED BY <3>1, <3>2 DEF Kept, Measured, Shaped
  <2>3. CASE data' = data
    BY <2>3 DEF Kept, Measured
  <2> QED BY <1>1, <2>1, <2>2, <2>3 DEF Changes
<1> QED BY <1>2, <1>3, <1>4, <1>5 DEF Kept

-----------------------------------------------------------------------------
(* Every point is visited *)

\* Two points of the scan are two slots of the buffers.
LEMMA OwnSlot ==
  ASSUME Shaped, NEW m \in Points, NEW n \in Points, IndexOf(m) = IndexOf(n)
  PROVE  m = n
<1>1. Shape \in Shapes
  BY Scan
<1> QED BY <1>1, VisitedOnce DEF IndexOf, Points, Total

\* A mask that comes later says nothing new of the points that were passed.
LEMMA PassedStep ==
  ASSUME Shaped, Masked, Next, NEW n \in Points
  PROVE  Passed(n)' <=> Passed(n) \/ (n = flat /\ Commit /\ flat' = flat + 1)
<1>1. /\ recipe' = recipe /\ flat \in Nat /\ recipe.start \in Nat /\ Total \in Nat
      /\ recipe.start <= flat /\ n \in Nat
  BY WhoChanges, Scan DEF Changes, Shaped, Points
<1>2. CASE MakeMask
  <2>1. flat' = flat /\ pc = "coarse" /\ ScoutDue
    BY <1>2 DEF MakeMask, odometer, Masked, Scouting
  <2>2. visit' = visit \/
        \E keep : visit' = {m \in 0..(Total - 1) :
                              IF BlockOf(IndexOf(m)) = BlockOf(Here)
                              THEN CellOf(IndexOf(m)) \in keep ELSE m \in visit}
    BY <1>2 DEF MakeMask
  <2>3. recipe.start <= n /\ n < flat => BlockOf(IndexOf(n)) # BlockOf(Here)
    BY <1>1, <2>1 DEF ScoutDue, Masked
  <2>4. recipe.start <= n /\ n < flat => (n \in visit' <=> n \in visit)
    BY <2>2, <2>3 DEF Points
  <2>5. ~Commit
    BY <2>1 DEF Commit
  <2> QED BY <1>1, <2>1, <2>4, <2>5 DEF Passed
<1>3. CASE ~MakeMask
  <2>1. visit' = visit
    BY <1>3, WhoChanges DEF Changes
  <2>2. Commit => flat \in visit
    BY DEF Commit, Masked, AtPoint, Measuring, Scouting
  <2>3. \/ flat' = flat
        \/ flat' = flat + 1 /\ (flat \notin visit \/ Commit)
    BY FlatSteps
  <2>4. flat' = flat => (Passed(n)' <=> Passed(n)) /\ flat' # flat + 1
    BY <1>1, <2>1 DEF Passed
  <2>5. flat' = flat + 1 => (Passed(n)' <=> Passed(n) \/ (n = flat /\ flat \in visit))
    BY <1>1, <2>1 DEF Passed
  <2>6. Commit /\ flat' = flat + 1 => (Passed(n)' <=> Passed(n) \/ n = flat)
    BY <2>2, <2>5
  <2> QED BY <2>2, <2>3, <2>4, <2>5
<1> QED BY <1>2, <1>3

\* The points behind are measured or skipped, those ahead are as they were.
LEMMA CoveredStep ==
  ASSUME Shaped, Masked, Ends, Covered, Next
  PROVE  Covered'
<1>1. Changes /\ Flow /\ recipe' = recipe /\ Points' = Points
      /\ \A n : IndexOf(n)' = IndexOf(n)
  BY WhoChanges, WhereNext, SameScan DEF Changes
<1>2. (pc \in {"claim", "fixed", "allocate"} => flat = recipe.start)'
  BY <1>1, FlatSteps DEF Flow, Follow, Covered, Setting, Measuring, End, RefuseScan, HandOver,
                         AfterScan, ReleaseInstruments
<1>3. SUFFICES ASSUME how' \in {"running", "done"}, NEW n \in Points
               PROVE  IF Passed(n)' THEN Measured(IndexOf(n))' \/ IndexOf(n) \in skipped'
                      ELSE data'[IndexOf(n)] = Fresh'
  BY <1>1, <1>2 DEF Covered
<1>4. how \in {"running", "done"}
  BY <1>1, <1>3 DEF Flow, Ends, Running, End, Outcomes, RefuseScan, HandOver, AfterScan,
                    ReleaseInstruments
<1>5. Passed(n)' <=> Passed(n) \/ (n = flat /\ Commit /\ flat' = flat + 1)
  BY PassedStep
<1>6. /\ IF Passed(n) THEN Measured(IndexOf(n)) \/ IndexOf(n) \in skipped
         ELSE data[IndexOf(n)] = Fresh
      /\ IndexOf(n) \in Grid(Shape) /\ DOMAIN data = Grid(Shape)
  BY <1>4, IndexIn DEF Covered, Shaped
<1>7. CASE Allocate /\ pc' = "before"
  <2>1. pc = "allocate" /\ data' = [idx \in DOMAIN data |-> IF recipe.continued THEN Earlier ELSE None]
    BY <1>7 DEF Allocate, End
  <2>2. ~Passed(n) /\ ~Commit
    BY <2>1, Scan DEF Covered, Passed, Commit, Points
  <2> QED BY <1>1, <1>5, <1>6, <1>7, <2>1, <2>2 DEF Fresh
<1>8. CASE ~(Allocate /\ pc' = "before")
  <2>1. (pc' \in {"claim", "fixed", "allocate"} <=> pc \in {"claim", "fixed", "allocate"})
        \/ how' = "done"
    BY <1>1, <1>3, <1>8 DEF Flow, Follow, Setting, Measuring, End, Outcomes, RefuseScan, HandOver,
                            AfterScan, ReleaseInstruments
  <2>2. how' = "done" => /\ pc' \notin {"claim", "fixed", "allocate"}
                         /\ pc \notin {"claim", "fixed", "allocate"}
    BY <1>1, <1>8 DEF Flow, Follow, Setting, Measuring, End, Outcomes, RefuseScan,
       HandOver, NextPoint,
                            AfterScan, ReleaseInstruments, Ends, Running
  <2>3. Fresh' = Fresh
    BY <1>1, <2>1, <2>2 DEF Fresh
  <2>4. CASE Commit
    <3>1. /\ pc = "commit" /\ flat \in Points /\ Here \in Grid(Shape)
          /\ how = "running"
      BY <2>4, HereIn DEF Commit, Shaped, AtPoint, Measuring, Ends, Running
    <3>2. /\ flat' = flat + 1
          /\ \/ data' = data /\ Here \in skipped'
             \/ reading # None /\ data' = [data EXCEPT ![Here] = reading]
          /\ skipped \subseteq skipped'
      BY <1>3, <2>4 DEF Commit, Fails, Stops, End, Outcomes
    <3>3. n # flat => IndexOf(n) # Here
      BY <3>1, OwnSlot DEF Here
    <3>4. n # flat => data'[IndexOf(n)] = data[IndexOf(n)]
      BY <1>6, <3>2, <3>3
    <3>5. Here \in skipped' \/ (data'[Here] # None /\ data'[Here] # Earlier)
      <4>1. reading # None => reading # Earlier
        BY Scan, ValuesAssumption DEF Shaped, Reading, Shape
      <4> QED BY <1>6, <3>1, <3>2, <4>1
    <3> QED BY <1>1, <1>5, <1>6, <2>3, <2>4, <3>2, <3>4, <3>5 DEF Measured, Here
  <2>5. CASE ~Commit
    <3>1. data' = data /\ skipped' = skipped
      BY <1>1, <1>3, <1>8, <2>5 DEF Changes, Allocate, Goto, End, Outcomes
    <3> QED BY <1>1, <1>5, <1>6, <2>3, <2>5, <3>1 DEF Measured
  <2> QED BY <2>4, <2>5
<1> QED BY <1>7, <1>8

-----------------------------------------------------------------------------
(* The routines of the sweeps *)

\* Sweeps are counted by numbers.
LEMMA BlockSize ==
  ASSUME Shaped
  PROVE  /\ Block \in Nat \ {0}
         /\ \A n \in Nat : SweepOf(n) \in Nat
<1>1. Block \in Nat \ {0}
  BY BlockAt, Scan DEF Block
<1> QED BY <1>1, Division DEF SweepOf

\* A number lies in a sweep when it lies between the sweep's ends.
LEMMA InSweep ==
  ASSUME NEW b \in Nat \ {0}, NEW s \in Nat, NEW n \in Nat
  PROVE  n \div b = s <=> s * b <= n /\ n < s * b + b
<1>1. ASSUME NEW q \in Nat, NEW r \in 0..(b - 1) PROVE (b * q + r) \div b = q
  OBVIOUS
<1>2. n \div b = s => s * b <= n /\ n < s * b + b
  <2> DEFINE q == n \div b
  <2>1. q \in Nat /\ (n % b) \in 0..(b - 1) /\ n = b * q + (n % b)
    BY Division
  <2>2. b * q = q * b
    BY <2>1
  <2> HIDE DEF q
  <2>3. q * b <= n /\ n < q * b + b
    BY <2>1, <2>2
  <2> QED BY <2>3 DEF q
<1>3. s * b <= n /\ n < s * b + b => n \div b = s
  <2> SUFFICES ASSUME s * b <= n, n < s * b + b PROVE n \div b = s
    OBVIOUS
  <2> DEFINE r == n - s * b
  <2>1. s * b \in Nat /\ b * s = s * b
    BY Products
  <2>2. r \in 0..(b - 1) /\ n = b * s + r
    BY <2>1
  <2> HIDE DEF r
  <2> QED BY <1>1, <2>2
<1> QED BY <1>2, <1>3

\* A sweep that is measured has begun.
LEMMA BegunStep ==
  ASSUME Shaped, Masked, Begun, Next, ~(recipe.skip = "before" /\ recipe.skipFirst)
  PROVE  Begun'
<1>1. Changes /\ Flow /\ recipe' = recipe /\ Points' = Points /\ Total' = Total
      /\ \A n : IndexOf(n)' = IndexOf(n) /\ SweepOf(n)' = SweepOf(n) /\ (Due(n)' <=> Due(n))
  BY WhoChanges, WhereNext, SameScan DEF Changes, Due
<1>2. log \in Log /\ log.begun \subseteq log'.begun
  <2>1. log \in Log
    BY DEF Shaped
  <2>2. CASE SetDim \/ SetTogether
    BY <2>1, <2>2, SettingStep DEF Arrives, AxisRoutines, Log
  <2>3. CASE BeforePoint \/ Commit \/ AfterScan
    BY <2>1, <2>3 DEF BeforePoint, Commit, AfterScan, Log
  <2> QED BY <1>1, <2>1, <2>2, <2>3 DEF Changes
<1>3. recipe.start \in Nat /\ Total \in Nat /\ recipe.start \in Points /\ Points \subseteq Nat
      /\ recipe.start..(Total - 1) \subseteq Points
  BY Scan DEF Points
<1>4. /\ \A n \in Points : Passed(n) /\ Due(n) => SweepOf(n) \in log.begun
      /\ pc \in {"acquire", "read", "check", "commit"} /\ Due(flat) => SweepOf(flat) \in log.begun
      /\ SweepsBegun
  BY DEF Begun
<1>5. \A n \in Points : Passed(n)' /\ Due(n)' => SweepOf(n)' \in log'.begun
  <2> SUFFICES ASSUME NEW n \in Points, Passed(n)', Due(n) PROVE SweepOf(n) \in log'.begun
    BY <1>1
  <2>1. Passed(n) \/ (n = flat /\ Commit)
    BY PassedStep
  <2>2. Commit => pc = "commit"
    BY DEF Commit
  <2> QED BY <1>2, <1>4, <2>1, <2>2
<1>6. pc' \in {"acquire", "read", "check", "commit"} /\ Due(flat') => SweepOf(flat') \in log'.begun
  <2> SUFFICES ASSUME pc' \in {"acquire", "read", "check", "commit"}, Due(flat')
               PROVE  SweepOf(flat') \in log'.begun
    OBVIOUS
  <2>1. flat' = flat
    BY HereStays
  <2>2. pc \in {"acquire", "read", "check", "commit"} \/ BeforePoint
    BY <1>1 DEF Flow, Follow, Setting, Measuring, End, RefuseScan, HandOver, AfterScan,
                ReleaseInstruments
  <2>3. CASE BeforePoint
    <3>1. pc = "routines" /\ flat \in Points
      BY <2>3, HereIn DEF BeforePoint, Shaped, AtPoint, Measuring
    <3>2. log'.begun = IF StartFires THEN log.begun \cup {SweepOf(flat)} ELSE log.begun
      <4>1. CASE Goto("acquire") /\ log' = [log EXCEPT !.begun =
                   IF StartFires THEN @ \cup {SweepOf(flat)} ELSE @]
        BY <1>2, <4>1 DEF Log
      <4>2. CASE /\ recipe.skip = "before"
                 /\ log' = [log EXCEPT !.begun = IF StartFires /\ ~recipe.skipFirst
                                                 THEN @ \cup {SweepOf(flat)} ELSE @]
        BY <1>2, <4>2 DEF Log
      <4>3. PointFails \/ Stops => pc' \in {"hold", "ending"}
        BY DEF PointFails, Stops, Hold, Goto, End
      <4> QED BY <2>3, <4>1, <4>2, <4>3 DEF BeforePoint
    <3>3. CASE StartFires
      BY <2>1, <3>2, <3>3
    <3>4. CASE ~StartFires
      <4> DEFINE first == SweepOf(flat) * Block
      <4>1. flat # recipe.start /\ \E m \in visit : first <= m /\ m < flat
        <5>1. SweepOf(flat) % recipe.every = 0
          BY <2>1 DEF Due
        <5> QED BY <3>4, <5>1 DEF StartFires, SweepStartFires, AnyIn, SweepOf
      <4>2. PICK m \in visit : first <= m /\ m < flat
        BY <4>1
      <4>3. recipe.start < flat /\ m \in Points /\ m \in Nat /\ flat \in Nat
        BY <1>3, <3>1, <4>1, <4>2 DEF Shaped
      <4>4. SweepOf(flat) \in Nat /\ Block \in Nat \ {0} /\ first <= flat /\ flat < first + Block
            /\ first \in Nat
        <5>1. SweepOf(flat) \in Nat /\ Block \in Nat \ {0}
          BY <4>3, BlockSize
        <5>2. SweepOf(flat) * Block \in Nat
          BY <5>1, Products
        <5> QED BY <4>3, <5>1, <5>2, InSweep DEF SweepOf
      <4>5. ASSUME NEW x \in Points, first <= x, x < flat PROVE SweepOf(x) = SweepOf(flat)
        <5>1. x \in Nat /\ x < first + Block
          BY <1>3, <4>3, <4>4, <4>5
        <5> QED BY <4>4, <4>5, <5>1, InSweep DEF SweepOf
      <4>6. \E x \in Points : Passed(x) /\ SweepOf(x) = SweepOf(flat)
        <5>1. CASE recipe.start <= m
          BY <4>2, <4>3, <4>5, <5>1 DEF Passed
        <5>2. CASE m < recipe.start
          <6>1. recipe.continued
            BY <1>3, <4>3, <5>2, Scan, RecipesAssumption
          <6>2. visit = Points
            BY <6>1, Scan, RecipesAssumption DEF Masked
          <6>3. first <= recipe.start
            BY <1>3, <4>2, <4>3, <4>4, <5>2
          <6> QED BY <1>3, <4>3, <4>5, <6>2, <6>3 DEF Passed
        <5> QED BY <1>3, <4>3, <5>1, <5>2
      <4>7. PICK x \in Points : Passed(x) /\ SweepOf(x) = SweepOf(flat)
        BY <4>6
      <4> QED BY <1>2, <1>4, <2>1, <4>7 DEF Due
    <3> QED BY <3>3, <3>4
  <2> QED BY <1>2, <1>4, <2>1, <2>2, <2>3
<1>7. SweepsBegun'
  <2> SUFFICES ASSUME NEW n \in recipe.start..(Total - 1), Measured(IndexOf(n))', Due(n)
               PROVE  SweepOf(n) \in log'.begun
    BY <1>1 DEF SweepsBegun, Due
  <2>1. n \in Points /\ IndexOf(n) \in Grid(Shape) /\ DOMAIN data = Grid(Shape)
    BY <1>3, IndexIn DEF Shaped
  <2>2. CASE Measured(IndexOf(n))
    BY <1>2, <1>4, <2>2 DEF SweepsBegun, Due
  <2>3. CASE ~Measured(IndexOf(n))
    <3>1. data'[IndexOf(n)] # data[IndexOf(n)]
      BY <1>1, <2>3 DEF Measured
    <3>2. ~Allocate
      BY <1>1, <2>1, <3>1 DEF Allocate, Measured
    <3>3. Commit /\ pc = "commit"
      BY <1>1, <3>1, <3>2 DEF Changes, Commit
    <3>4. IndexOf(n) = Here /\ flat \in Points
      BY <2>1, <3>1, <3>3, HereIn DEF Commit, Shaped, AtPoint, Measuring
    <3>5. n = flat
      BY <2>1, <3>4, OwnSlot DEF Here
    <3> QED BY <1>2, <1>4, <3>3, <3>5
  <2> QED BY <2>2, <2>3
<1> QED BY <1>1, <1>5, <1>6, <1>7 DEF Begun

\* What the scan is to hold for the routine at the end of a sweep: a skip does
\* not take it along, and a mask that comes later does not cut the sweep.
EndsAreSeen(r) ==
  /\ ~(r.skip = "after" /\ r.skipFirst)
  /\ r.each /\ r.scouted # {} => \E s \in r.scouted : s <= r.sweepDim

\* Then the points of a sweep lie in one block of the scout.
LEMMA SweepInBlock ==
  ASSUME Shaped, EndsAreSeen(recipe), NEW m \in Points, NEW n \in Points, SweepOf(m) = SweepOf(n),
         recipe.scouted # {}
  PROVE  BlockOf(IndexOf(m)) = BlockOf(IndexOf(n))
<1> DEFINE d == recipe.sweepDim
           S == {j \in 1..d : Sweep(m, Shape, j) = Sweep(n, Shape, j)}
<1>1. /\ Shape \in Shapes /\ Dims(Shape) = 1..Len(Shape) /\ Len(Shape) \in Nat
      /\ d \in Dims(Shape) /\ m \in Nat /\ n \in Nat
      /\ m \in 0..(TotalPoints(Shape) - 1) /\ n \in 0..(TotalPoints(Shape) - 1)
  BY Scan DEF Points, Total
<1>2. d \in S
  BY <1>1 DEF SweepOf, Sweep, Block
<1>3. ASSUME NEW k \in 1..(d - 1), k + 1 \in S PROVE k \in S
  <2>1. k \in Dims(Shape) /\ k \in 1..d
    BY <1>1
  <2>2. /\ Sweep(m, Shape, k) \in Nat /\ Digit(m, Shape, k) \in 0..(Shape[k] - 1)
        /\ Sweep(m, Shape, k + 1) = Shape[k] * Sweep(m, Shape, k) + Digit(m, Shape, k)
        /\ Sweep(n, Shape, k) \in Nat /\ Digit(n, Shape, k) \in 0..(Shape[k] - 1)
        /\ Sweep(n, Shape, k + 1) = Shape[k] * Sweep(n, Shape, k) + Digit(n, Shape, k)
        /\ Shape[k] \in Nat \ {0}
    BY <1>1, <2>1, DigitIs, BlockAt
  <2>3. ASSUME NEW b \in Nat \ {0}, NEW q \in Nat, NEW r \in 0..(b - 1) PROVE (b * q + r) \div b = q
    OBVIOUS
  <2>4. /\ Sweep(m, Shape, k + 1) \div Shape[k] = Sweep(m, Shape, k)
        /\ Sweep(n, Shape, k + 1) \div Shape[k] = Sweep(n, Shape, k)
    BY <2>2, <2>3
  <2> QED BY <1>3, <2>1, <2>4
<1>4. \A k \in 1..d : k \in S
  <2>1. d - 1 \in Nat /\ (d - 1) + 1 = d
    BY <1>1
  <2> HIDE DEF S
  <2> QED BY <1>2, <1>3, <2>1, DownInduction
<1>5. ASSUME NEW k \in Dims(Shape), k < d
      PROVE  IndexOf(m)[k] = IndexOf(n)[k]
  <2>1. k \in 1..d /\ k + 1 \in 1..d
    BY <1>1, <1>5
  <2>2. Sweep(m, Shape, k) = Sweep(n, Shape, k) /\ Sweep(m, Shape, k + 1) = Sweep(n, Shape, k + 1)
    BY <1>4, <2>1
  <2>3. Digit(m, Shape, k) = Digit(n, Shape, k)
    BY <2>2 DEF Digit, Sweep
  <2>4. Value(m, Shape, recipe.zig, k) = Value(n, Shape, recipe.zig, k)
    BY <2>2, <2>3 DEF Value, Turns
  <2> QED BY <1>1, <2>4, VisitIs DEF IndexOf
<1>6. recipe.each => \A k \in OuterDims : k < d
  <2>1. recipe.scouted \subseteq Dims(Shape)
    BY Scan
  <2> QED BY <1>1, <2>1 DEF EndsAreSeen, OuterDims
<1> QED BY <1>5, <1>6, OuterFirst DEF BlockOf

\* No mask made later moves the end of a sweep that was passed.
LEMMA EndsAtStep ==
  ASSUME Shaped, Masked, EndsAreSeen(recipe), Next, NEW n \in Points, Passed(n) \/ ~MakeMask
  PROVE  EndsAt(n)' <=> EndsAt(n)
<1>1. /\ recipe' = recipe /\ Total' = Total /\ Block' = Block /\ n \in Nat /\ flat \in Nat
      /\ Total \in Nat /\ visit \subseteq Points /\ visit' \subseteq Points /\ Points \subseteq Nat
  <2>1. recipe' = recipe /\ Points' = Points /\ Total' = Total /\ Block' = Block
    BY WhoChanges, SameScan DEF Changes
  <2>2. visit' \subseteq Points
    BY <2>1, ShapedStep DEF Shaped
  <2> QED BY <2>1, <2>2, Scan DEF Shaped, Points
<1> DEFINE end == (n \div Block) * Block + Block
<1>2. AnyIn(visit', n + 1, end) <=> AnyIn(visit, n + 1, end)
  <2>1. CASE ~MakeMask
    BY <2>1, WhoChanges DEF Changes
  <2>2. CASE MakeMask
    <3>1. ScoutDue /\ recipe.scouted # {} /\ BlockOf(IndexOf(n)) # BlockOf(Here)
      BY <1>1, <2>2 DEF MakeMask, Masked, Scouting, ScoutDue, Passed
    <3>2. visit' = visit \/
          \E keep : visit' = {m \in 0..(Total - 1) :
                                IF BlockOf(IndexOf(m)) = BlockOf(Here)
                                THEN CellOf(IndexOf(m)) \in keep ELSE m \in visit}
      BY <2>2 DEF MakeMask
    <3>3. ASSUME NEW m \in Points, n + 1 <= m, m < end
          PROVE  m \in visit' <=> m \in visit
      <4>1. Block \in Nat \ {0} /\ n \div Block \in Nat /\ m \in Nat
        BY <1>1, BlockSize DEF SweepOf
      <4>2. (n \div Block) * Block <= n
        BY <1>1, <4>1, InSweep
      <4>3. (n \div Block) * Block \in Nat
        BY <4>1, Products
      <4>4. m \div Block = n \div Block
        <5> DEFINE q == n \div Block
                   first == q * Block
        <5>1. q \in Nat /\ first \in Nat /\ first <= n /\ n \in Nat
          BY <1>1, <4>1, <4>2, <4>3
        <5>2. m < first + Block
          BY <3>3
        <5> HIDE DEF first
        <5>3. first <= m
          BY <3>3, <4>1, <5>1
        <5> HIDE DEF q
        <5>4. m \div Block = q
          BY <4>1, <5>1, <5>2, <5>3, InSweep DEF first
        <5> QED BY <5>4 DEF q
      <4>5. BlockOf(IndexOf(m)) = BlockOf(IndexOf(n))
        BY <2>2, <3>1, <4>4, SweepInBlock DEF SweepOf
      <4> QED BY <3>1, <3>2, <4>5 DEF Points
    <3> QED BY <1>1, <3>3 DEF AnyIn
  <2> QED BY <2>1, <2>2
<1> QED BY <1>1, <1>2 DEF EndsAt, SweepEndFires

\* The sweeps that have ended are those whose last point was passed.
LEMMA FinishingStep ==
  ASSUME Shaped, Masked, Ends, Finishing, EndsAreSeen(recipe), Next
  PROVE  Finishing'
<1>1. Changes /\ Flow /\ recipe' = recipe /\ Points' = Points
      /\ \A n : SweepOf(n)' = SweepOf(n)
  BY WhoChanges, WhereNext, SameScan DEF Changes
<1>2. SUFFICES ASSUME how' \in {"running", "done"}
               PROVE  log'.finished = {SweepOf(n) : n \in {m \in Points : Passed(m)' /\ EndsAt(m)'}}
  BY <1>1 DEF Finishing
<1>3. how \in {"running", "done"}
  BY <1>1, <1>2 DEF Flow, Ends, Running, End, Outcomes, RefuseScan, HandOver, AfterScan,
                    ReleaseInstruments
<1>4. log.finished = {SweepOf(n) : n \in {m \in Points : Passed(m) /\ EndsAt(m)}}
  BY <1>3 DEF Finishing
<1>5. \A m \in Points : Passed(m)' <=> Passed(m) \/ (m = flat /\ Commit /\ flat' = flat + 1)
  BY PassedStep
<1>6. log \in Log
  BY DEF Shaped
<1>7. CASE Commit
  <2>1. pc = "commit" /\ flat \in Points /\ how = "running"
    BY <1>7, HereIn DEF Commit, Shaped, AtPoint, Measuring, Ends, Running
  <2>2. flat' = flat + 1
    BY <1>2, <1>7, <2>1 DEF Commit, Fails, Stops, End
  <2>3. log'.finished = IF EndsAt(flat) THEN log.finished \cup {SweepOf(flat)} ELSE log.finished
    BY <1>2, <1>6, <1>7, <2>1 DEF Commit, Fails, Stops, End, EndsAreSeen, EndFires, EndsAt, Log
  <2>4. ~MakeMask
    BY <2>1 DEF MakeMask
  <2>5. \A m \in Points : EndsAt(m)' <=> EndsAt(m)
    BY <2>4, EndsAtStep
  <2>6. \A m \in Points : Passed(m)' <=> Passed(m) \/ m = flat
    BY <1>5, <1>7, <2>2
  <2> QED BY <1>4, <2>1, <2>3, <2>5, <2>6
<1>8. CASE ~Commit
  <2>1. log'.finished = log.finished
    <3>1. CASE SetDim \/ SetTogether
      BY <1>6, <3>1, SettingStep DEF Arrives, AxisRoutines, Log
    <3>2. CASE BeforePoint \/ AfterScan
      BY <1>6, <3>2 DEF BeforePoint, AfterScan, Log
    <3> QED BY <1>1, <1>8, <3>1, <3>2 DEF Changes
  <2>2. \A m \in Points : Passed(m)' <=> Passed(m)
    BY <1>5, <1>8
  <2>3. \A m \in Points : Passed(m) => (EndsAt(m)' <=> EndsAt(m))
    BY EndsAtStep
  <2> QED BY <1>4, <2>1, <2>2, <2>3
<1> QED BY <1>7, <1>8

\* At the end the last point that is left in a sweep has run its end routine.
LEMMA AllFinished ==
  ASSUME Shaped, Ends, Finishing
  PROVE  SweepsFinished
<1> SUFFICES ASSUME how = "done"
             PROVE  log.finished = {s \in SweepsMeasured :
                                      (s + 1) * Block < Total /\ (s + 1) % recipe.every = 0}
  BY DEF SweepsFinished
<1>1. /\ flat = Total /\ Total \in Nat /\ recipe.start \in Nat /\ Block \in Nat \ {0}
      /\ visit \subseteq Points /\ Points \subseteq Nat
  <2>1. how = "done" => flat = Total
    BY DEF Ends
  <2>2. recipe.start \in 0..(Total - 1) /\ Total \in Nat \ {0} /\ visit \subseteq 0..(Total - 1)
    BY Scan DEF Shaped, Points
  <2> QED BY <2>1, <2>2, BlockSize DEF Points
<1>2. log.finished = {SweepOf(n) : n \in {m \in Points : Passed(m) /\ EndsAt(m)}}
  BY DEF Finishing
<1>3. \A m : m \in Points /\ Passed(m) <=> m \in visit /\ m >= recipe.start
  <2>1. \A m \in Points : m \in Nat /\ m < Total
    BY <1>1 DEF Points
  <2> QED BY <1>1, <2>1 DEF Passed
<1>4. ASSUME NEW n \in Points
      PROVE  LET s == SweepOf(n)
             IN  EndsAt(n) <=> /\ \A m \in visit : m >= n + 1 => SweepOf(m) # s
                               /\ (s + 1) * Block < Total /\ (s + 1) % recipe.every = 0
  <2> DEFINE s == SweepOf(n)
  <2>1. s \in Nat /\ n \in Nat /\ s = n \div Block
    BY <1>1, BlockSize DEF SweepOf
  <2>2. s * Block \in Nat /\ s * Block <= n
    BY <1>1, <2>1, Products, InSweep
  <2>3. s * Block + Block = (s + 1) * Block
    BY <1>1, <2>1
  <2>4. ((s + 1) * Block) \div Block = s + 1
    <3>1. ASSUME NEW b \in Nat \ {0}, NEW q \in Nat PROVE (q * b) \div b = q
      OBVIOUS
    <3> QED BY <1>1, <2>1, <3>1
  <2>5. ASSUME NEW m \in visit, m >= n + 1
        PROVE  m < s * Block + Block <=> SweepOf(m) = s
    <3>1. m \in Nat /\ s * Block <= m
      BY <1>1, <2>1, <2>2, <2>5
    <3> QED BY <1>1, <2>1, <3>1, InSweep DEF SweepOf
  <2>6. AnyIn(visit, n + 1, s * Block + Block) <=> \E m \in visit : m >= n + 1 /\ SweepOf(m) = s
    BY <1>1, <2>1, <2>5 DEF AnyIn
  <2>7. EndsAt(n) <=> /\ ~AnyIn(visit, n + 1, s * Block + Block)
                      /\ s * Block + Block < Total
                      /\ ((s * Block + Block) \div Block) % recipe.every = 0
    BY <2>1 DEF EndsAt, SweepEndFires
  <2> HIDE DEF s
  <2>8. EndsAt(n) <=> /\ \A m \in visit : m >= n + 1 => SweepOf(m) # s
                      /\ (s + 1) * Block < Total /\ (s + 1) % recipe.every = 0
    BY <2>3, <2>4, <2>6, <2>7
  <2> QED BY <2>8 DEF s
<1>5. ASSUME NEW s \in SweepsMeasured
      PROVE  \E n \in visit : /\ n >= recipe.start /\ SweepOf(n) = s
                              /\ \A m \in visit : m >= n + 1 => SweepOf(m) # s
  <2> DEFINE T == {n \in visit : n >= recipe.start /\ SweepOf(n) = s}
             f == [n \in T |-> n]
  <2>1. T # {} /\ T \subseteq Points /\ f \in [T -> Nat]
    BY <1>1, <1>5 DEF SweepsMeasured
  <2>2. IsFiniteSet(T)
    <3>1. ASSUME NEW a \in Int, NEW b \in Int PROVE IsFiniteSet(a..b)
      BY FS_Interval
    <3>2. 0 \in Int /\ Total - 1 \in Int
      BY <1>1
    <3>3. IsFiniteSet(Points)
      BY <3>1, <3>2 DEF Points
    <3> HIDE DEF T
    <3> QED BY <2>1, <3>3, FS_Subset
  <2>3. PICK n \in T : \A m \in T : f[m] <= f[n]
    <3> HIDE DEF T, f
    <3> QED BY <2>1, <2>2, Greatest
  <2>4. ASSUME NEW m \in visit, m >= n + 1, SweepOf(m) = s PROVE FALSE
    <3>1. m \in Nat /\ n \in Nat /\ n >= recipe.start
      BY <1>1, <2>1
    <3>2. m \in T
      BY <1>1, <2>4, <3>1
    <3>3. f[m] = m /\ f[n] = n
      BY <3>2
    <3>4. f[m] <= f[n]
      BY <2>3, <3>2
    <3> HIDE DEF T, f
    <3> QED BY <2>4, <3>1, <3>3, <3>4
  <2> QED BY <2>4
<1>6. \A n \in visit : n >= recipe.start => SweepOf(n) \in SweepsMeasured
  BY DEF SweepsMeasured
<1>7. ASSUME NEW s \in log.finished
      PROVE  s \in SweepsMeasured /\ (s + 1) * Block < Total /\ (s + 1) % recipe.every = 0
  BY <1>2, <1>3, <1>4, <1>6, <1>7
<1>8. ASSUME NEW s \in SweepsMeasured, (s + 1) * Block < Total, (s + 1) % recipe.every = 0
      PROVE  s \in log.finished
  <2>1. PICK n \in visit : /\ n >= recipe.start /\ SweepOf(n) = s
                           /\ \A m \in visit : m >= n + 1 => SweepOf(m) # s
    BY <1>5
  <2>2. n \in Points /\ Passed(n) /\ EndsAt(n)
    BY <1>1, <1>3, <1>4, <1>8, <2>1
  <2> QED BY <1>2, <2>1, <2>2
<1> QED BY <1>7, <1>8

-----------------------------------------------------------------------------
(* The first state, and the steps that change nothing *)

\* The first state has the shape.
LEMMA ShapedAtFirst ==
  ASSUME Init
  PROVE  Shaped
<1>1. recipe \in Recipes /\ flat = recipe.start /\ visit = 0..(Total - 1)
  BY DEF Init
<1>2. /\ Shape \in Shapes /\ recipe.start \in 0..(Total - 1)
      /\ Len(Shape) \in Nat /\ Dims(Shape) = 1..Len(Shape)
  BY <1>1, RecipesAssumption DEF Shape, Shapes, Total, Dims
<1>3. Total \in Nat \ {0}
  <2>1. 1 \in 1..(Len(Shape) + 1)
    BY <1>2
  <2> QED BY <1>2, <2>1, BlockIs DEF Total
<1>4. flat \in recipe.start..Total /\ dim \in 1..(Len(Shape) + 1) /\ visit \subseteq Points
  BY <1>1, <1>2, <1>3 DEF Init, Points
<1>5. log \in Log
  BY DEF Init, Log, AxisLog
<1>6. /\ prev \in [Dims(Shape) -> Nat \cup {None}] /\ knob \in [Dims(Shape) -> Nat \cup {Away}]
      /\ data \in [Grid(Shape) -> Reading \cup {None, Earlier}]
      /\ reading \in Reading \cup {None}
  BY DEF Init
<1>7. left \in Budget
  BY BoundsAssumption DEF Init, Budget
<1>8. /\ pc = "claim" /\ pc \notin AtPoint /\ redo = FALSE /\ resend = {} /\ coarse = 0
      /\ skipped = {} /\ todo = <<>> /\ how = "running" /\ ~sweeping /\ ~claimed /\ ~tuned
      /\ sweeping \in BOOLEAN /\ claimed \in BOOLEAN /\ tuned \in BOOLEAN
      /\ faulted \in BOOLEAN /\ aborting \in BOOLEAN /\ held \in BOOLEAN
  BY DEF Init, AtPoint, Setting, Measuring, Scouting
<1> QED BY <1>1, <1>4, <1>5, <1>6, <1>7, <1>8 DEF Shaped

\* The other invariants hold in it.
LEMMA AllAtFirst ==
  ASSUME Init
  PROVE  /\ Ends /\ SetSoFar /\ Stands /\ Kept /\ Masked /\ Covered /\ Paired /\ Arrived
         /\ Begun /\ Finishing
<1>1. Shaped
  BY ShapedAtFirst
<1>2. /\ pc = "claim" /\ how = "running" /\ todo = <<>> /\ handed = None /\ log.after = 0
      /\ ~sweeping /\ reading = None /\ tuned = FALSE /\ flat = recipe.start /\ visit = Points
      /\ log.begun = {} /\ log.finished = {} /\ data = [idx \in Grid(Shape) |-> None]
      /\ prev = [k \in Dims(Shape) |-> None]
      /\ log.axis = [k \in Dims(Shape) |-> [opened |-> 0, closed |-> 0]]
  BY DEF Init, Points
<1>3. recipe.start \in Nat /\ Total \in Nat /\ recipe.start..(Total - 1) \subseteq Points
  BY <1>1, Scan DEF Points
<1>4. \A n \in Points : ~Passed(n) /\ IndexOf(n) \in Grid(Shape)
  <2>1. \A n \in Points : n \in Nat
    BY <1>3 DEF Points
  <2> QED BY <1>1, <1>2, <1>3, <2>1, IndexIn DEF Passed
<1>5. \A idx \in Grid(Shape) : ~Measured(idx)
  BY <1>2 DEF Measured
<1>6. Ends
  BY <1>2 DEF Ends, Running, Handled
<1>7. SetSoFar /\ Stands
  BY <1>2, Scan, <1>1 DEF SetSoFar, Stands, Measuring, Knobs
<1>8. Kept
  BY <1>2, <1>5 DEF Kept
<1>9. Masked
  <2>1. \A n \in recipe.start..(flat - 1) : FALSE
    BY <1>2, <1>3
  <2>2. pc \notin Scouting /\ pc \notin AtPoint
    BY <1>2 DEF AtPoint, Setting, Measuring, Scouting
  <2> QED BY <1>2, <2>1, <2>2 DEF Masked
<1>10. Covered
  BY <1>2, <1>4 DEF Covered, Fresh
<1>11. Paired
  BY <1>2 DEF Paired
<1>12. Arrived
  <2>1. \A k : NewBefore(k, flat) = {}
    BY <1>2, <1>3 DEF NewBefore
  <2>2. Cardinality({}) = 0
    BY FS_EmptySet
  <2>3. pc \notin AtPoint \ Between /\ how # "done"
    BY <1>2 DEF Between
  <2>4. \A k \in Dims(Shape) : prev[k] = None /\ Opened(k) = 0
    BY <1>2 DEF Opened
  <2> QED BY <1>2, <2>1, <2>2, <2>3, <2>4 DEF Arrived
<1>13. Begun
  BY <1>2, <1>3, <1>4, <1>5 DEF Begun, SweepsBegun
<1>14. Finishing
  BY <1>2, <1>4 DEF Finishing
<1> QED BY <1>6, <1>7, <1>8, <1>9, <1>10, <1>11, <1>12, <1>13, <1>14

\* What the invariants are made of is the same after a step that changes nothing.
LEMMA NothingMoved ==
  ASSUME UNCHANGED vars
  PROVE  /\ UNCHANGED <<recipe, pc, flat, dim, redo, prev, resend, visit, scouted, coarse, data,
                        reading, skipped, todo, how, sweeping, claimed, handed, knob, tuned,
                        faulted, aborting, held, left, log>>
         /\ UNCHANGED <<Here, ScoutDue, Fresh>>
         /\ \A k : /\ IsSet(k)' <=> IsSet(k)
                   /\ Sure(k)' <=> Sure(k)
                   /\ Opened(k)' = Opened(k)
                   /\ \A n : NewAt(k, n)' <=> NewAt(k, n)
                   /\ \A n : NewBefore(k, n)' = NewBefore(k, n)
         /\ \A r, idx : Belongs(r, idx)' <=> Belongs(r, idx)
         /\ \A idx : Measured(idx)' <=> Measured(idx)
         /\ \A n : /\ Passed(n)' <=> Passed(n)
                   /\ EndsAt(n)' <=> EndsAt(n)
                   /\ Due(n)' <=> Due(n)
<1>1. UNCHANGED <<recipe, pc, flat, dim, redo, prev, resend, visit, scouted, coarse, data,
                  reading, skipped, todo, how, sweeping, claimed, handed, knob, tuned,
                  faulted, aborting, held, left, log>>
  BY DEF vars, odometer, scouting, ends, operator
<1>2. /\ UNCHANGED <<Shape, Total, Knobs, OuterDims, Block>>
      /\ \A n : IndexOf(n)' = IndexOf(n) /\ SweepOf(n)' = SweepOf(n)
      /\ \A idx : BlockOf(idx)' = BlockOf(idx)
  BY <1>1, SameScan
<1>3. UNCHANGED <<Here, ScoutDue, Fresh>>
  BY <1>1, <1>2 DEF Here, ScoutDue, Fresh, IndexOf, Shape, BlockOf
<1>4. \A k : /\ IsSet(k)' <=> IsSet(k)
             /\ Sure(k)' <=> Sure(k)
             /\ Opened(k)' = Opened(k)
  BY <1>1, <1>2, <1>3 DEF IsSet, Sure, Opened
<1>5. \A k, n : NewAt(k, n)' <=> NewAt(k, n)
  BY <1>1, <1>2 DEF NewAt
<1>6. \A k, n : NewBefore(k, n)' = NewBefore(k, n)
  BY <1>1, <1>5 DEF NewBefore
<1>7. \A r, idx : Belongs(r, idx)' <=> Belongs(r, idx)
  BY <1>2 DEF Belongs
<1>8. \A idx : Measured(idx)' <=> Measured(idx)
  BY <1>1 DEF Measured
<1>9. \A n : (Passed(n)' <=> Passed(n)) /\ (EndsAt(n)' <=> EndsAt(n)) /\ (Due(n)' <=> Due(n))
  BY <1>1, <1>2 DEF Passed, EndsAt, Due
<1> QED BY <1>1, <1>3, <1>4, <1>5, <1>6, <1>7, <1>8, <1>9

\* Nor does such a step break an invariant.
LEMMA AllStay ==
  ASSUME UNCHANGED vars
  PROVE  /\ Shaped => Shaped'
         /\ Ends => Ends'
         /\ SetSoFar => SetSoFar'
         /\ Stands => Stands'
         /\ Kept => Kept'
         /\ Masked => Masked'
         /\ Covered => Covered'
         /\ Paired => Paired'
         /\ Arrived => Arrived'
         /\ Begun => Begun'
         /\ Finishing => Finishing'
<1> DEFINE Same == UNCHANGED <<recipe, pc, flat, dim, redo, prev, resend, visit, scouted, coarse,
                               data, reading, skipped, todo, how, sweeping, claimed, handed, knob,
                               tuned, faulted, aborting, held, left, log>>
<1>1. Same
  BY NothingMoved
<1>2. /\ UNCHANGED <<Shape, Total, Knobs, Points, Block>> /\ Reading' = Reading /\ Log' = Log
      /\ Dims(Shape)' = Dims(Shape) /\ Grid(Shape)' = Grid(Shape) /\ Budget' = Budget
      /\ \A n : IndexOf(n)' = IndexOf(n) /\ SweepOf(n)' = SweepOf(n)
      /\ \A idx : BlockOf(idx)' = BlockOf(idx)
  BY <1>1, SameScan
<1>3. Shaped => Shaped'
  BY <1>1, <1>2 DEF Shaped
<1>4. Ends => Ends'
  BY <1>1, <1>2 DEF Ends, Running, Handled
<1>5. SetSoFar => SetSoFar'
  BY <1>1, <1>2, NothingMoved DEF SetSoFar
<1>6. Stands => Stands'
  BY <1>1, <1>2, NothingMoved DEF Stands
<1>7. Kept => Kept'
  BY <1>1, <1>2, NothingMoved DEF Kept
<1>8. Masked => Masked'
  BY <1>1, <1>2, NothingMoved DEF Masked
<1>9. Covered => Covered'
  BY <1>1, <1>2, NothingMoved DEF Covered
<1>10. Paired => Paired'
  BY <1>1, <1>2 DEF Paired
<1>11. Arrived => Arrived'
  BY <1>1, <1>2, NothingMoved DEF Arrived
<1>12. Begun => Begun'
  BY <1>1, <1>2, NothingMoved DEF Begun, SweepsBegun
<1>13. Finishing => Finishing'
  BY <1>1, <1>2, NothingMoved DEF Finishing
<1> QED
  BY <1>3, <1>4, <1>5, <1>6, <1>7, <1>8, <1>9, <1>10, <1>11, <1>12, <1>13

-----------------------------------------------------------------------------
(* The theorems *)

\* What holds of every scan: where the engine may be, what it still has to do,
\* which dims have been set, what the mask leaves in, what has been measured
\* and which axis routines have run.
Bookkeeping ==
  Shaped /\ Ends /\ SetSoFar /\ Masked /\ Covered /\ Paired /\ Arrived

\* It is an invariant of the specification.
LEMMA BookkeepingHolds == Spec => []Bookkeeping
<1>1. Init => Bookkeeping
  BY ShapedAtFirst, AllAtFirst DEF Bookkeeping
<1>2. Bookkeeping /\ [Next]_vars => Bookkeeping'
  <2> SUFFICES ASSUME Bookkeeping, [Next]_vars PROVE Bookkeeping'
    OBVIOUS
  <2>1. CASE Next
    BY <2>1, ShapedStep, EndsStep, SetSoFarStep, MaskedStep, CoveredStep, PairedStep, ArrivedStep
    DEF Bookkeeping
  <2>2. CASE UNCHANGED vars
    BY <2>2, AllStay DEF Bookkeeping
  <2> QED BY <2>1, <2>2
<1> QED BY <1>1, <1>2, PTL DEF Spec

\* The state of one run has the shape the code gives it.
THEOREM TypeCorrect == Spec => []TypeOK
<1>1. Bookkeeping => TypeOK
  <2> SUFFICES ASSUME Shaped PROVE TypeOK
    BY DEF Bookkeeping
  <2>1. flat \in 0..Total
    BY Scan DEF Shaped
  <2>2. DOMAIN log.axis = Dims(Shape) /\ log.after \in Nat
    BY DEF Shaped, Log
  <2>3. \A idx \in DOMAIN data : data[idx] = None \/ data[idx] = Earlier \/ data[idx] \in Reading
    BY DEF Shaped
  <2>4. {redo, sweeping, claimed, tuned, faulted, aborting, held} \subseteq BOOLEAN
    BY DEF Shaped
  <2>5. pc \in {"claim", "fixed", "allocate", "before", "point", "place", "outer",
                "set", "together", "routines", "acquire", "read", "check",
                "commit", "hold", "scout", "coarse", "scout_hold", "ending", "ended"}
    BY DEF Shaped, AtPoint, Setting, Measuring, Scouting
  <2> QED BY <2>1, <2>2, <2>3, <2>4, <2>5 DEF Shaped, TypeOK, Points
<1> QED BY <1>1, BookkeepingHolds, PTL

\* However the points stopped, the setup is made safe once and what was
\* measured is handed over.
THEOREM SafeOnEveryEnd == Spec => []EndsProperly
<1>1. Bookkeeping => EndsProperly
  <2> SUFFICES ASSUME Shaped, Ends, pc = "ended"
               PROVE  /\ log.after = IF how \in {"refused", "unprepared", "unbuilt"} THEN 0 ELSE 1
                      /\ sweeping /\ how # "unbuilt" =>
                           handed = data \/ (handed = None /\ left.errors < MaxErrors)
    BY DEF Bookkeeping, EndsProperly, AfterScanOnce, MeasuredIsHandedOver
  <2>1. todo = <<>> /\ ~Running
    BY DEF Ends, Running
  <2>2. todo \notin {<<"dataset">>, <<"dataset", "after">>, <<"after", "dataset">>}
    BY <2>1
  <2> QED BY <2>1, <2>2 DEF Ends, Handled
<1> QED BY <1>1, BookkeepingHolds, PTL

\* A scan that ends by itself has measured or skipped every point the mask
\* leaves in, and nothing else: no point is passed over or measured for
\* another, whatever was paused, redone or masked.
THEOREM NoPointMissed == Spec => []EveryPointVisited
<1>1. Bookkeeping => EveryPointVisited
  <2> SUFFICES ASSUME Shaped, Ends, Covered, how = "done", NEW n \in 0..(Total - 1)
               PROVE  IF n \in visit /\ n >= recipe.start
                      THEN Measured(IndexOf(n)) \/ IndexOf(n) \in skipped
                      ELSE data[IndexOf(n)] = IF recipe.continued THEN Earlier ELSE None
    BY DEF Bookkeeping, EveryPointVisited
  <2>1. ~Running /\ flat = Total
    BY DEF Ends
  <2>2. Fresh = IF recipe.continued THEN Earlier ELSE None
    BY <2>1 DEF Fresh, Running
  <2>3. n \in Points /\ (Passed(n) <=> n \in visit /\ n >= recipe.start)
    <3>1. n \in Nat /\ n < Total /\ recipe.start \in Nat
      BY Scan
    <3> QED BY <2>1, <3>1 DEF Points, Passed
  <2> QED BY <2>2, <2>3 DEF Covered
<1> QED BY <1>1, BookkeepingHolds, PTL

\* Each axis routine that ran to its end ran once for its value, and a full
\* scan has arrived once at every value it visited.
THEOREM OncePerValue == Spec => []AxisRoutinesPaired
<1>1. Bookkeeping => AxisRoutinesPaired
  <2> SUFFICES ASSUME Paired, Arrived, Ends, NEW k \in Dims(Shape), how = "done",
                      recipe.scouted = {}
               PROVE  log.axis[k].opened = Cardinality(NewValues(k))
    BY DEF Bookkeeping, AxisRoutinesPaired, Paired
  <2>1. flat = Total
    BY DEF Ends
  <2>2. NewValues(k) = NewBefore(k, Total)
    BY DEF NewValues, NewBefore, NewAt
  <2> QED BY <2>1, <2>2 DEF Arrived, Opened
<1> QED BY <1>1, BookkeepingHolds, PTL

\* Every value kept was read where its slot says, with no fault and without
\* the scout's settings, if knobs are moved by hand only at a fault's pause.
THEOREM ReadInPlace ==
  ASSUME ReaimAt \subseteq {"hold"}
  PROVE  Spec => []ReadingsBelong
<1> DEFINE Inv == Bookkeeping /\ Stands /\ Kept
<1>1. Init => Stands /\ Kept
  BY AllAtFirst
<1>2. Bookkeeping /\ Stands /\ Kept /\ [Next]_vars => Stands' /\ Kept'
  <2> SUFFICES ASSUME Bookkeeping, Stands, Kept, [Next]_vars PROVE Stands' /\ Kept'
    OBVIOUS
  <2>1. CASE Next
    BY <2>1, StandsStep, KeptStep DEF Bookkeeping
  <2>2. CASE UNCHANGED vars
    BY <2>2, AllStay
  <2> QED BY <2>1, <2>2
<1>3. Bookkeeping /\ Kept => ReadingsBelong
  <2> SUFFICES ASSUME Shaped, Kept, NEW idx \in DOMAIN data, Measured(idx)
               PROVE  /\ \A k \in Knobs : data[idx].at[k] = idx[k]
                      /\ ~data[idx].faulted /\ ~data[idx].tuned
    BY DEF Bookkeeping, ReadingsBelong
  <2>1. idx \in Grid(Shape)
    BY DEF Shaped
  <2> QED BY <2>1 DEF Kept, Belongs
<1> QED BY <1>1, <1>2, <1>3, BookkeepingHolds, PTL DEF Spec

\* No sweep is measured without its routines and none of them is left out, in
\* scans whose skip_if stands after those routines in the list and whose
\* sweeps lie within one block of the scout.
THEOREM RoutinesOfSweeps ==
  ASSUME \A r \in Recipes : ~(r.skip = "before" /\ r.skipFirst) /\ EndsAreSeen(r)
  PROVE  Spec => []SweepRoutinesRun
<1>1. Init => Begun /\ Finishing
  BY AllAtFirst
<1>2. Bookkeeping /\ Begun /\ Finishing /\ [Next]_vars => Begun' /\ Finishing'
  <2> SUFFICES ASSUME Bookkeeping, Begun, Finishing, [Next]_vars PROVE Begun' /\ Finishing'
    OBVIOUS
  <2>1. CASE Next
    <3>1. recipe \in Recipes
      BY DEF Bookkeeping, Shaped
    <3> QED BY <2>1, <3>1, BegunStep, FinishingStep DEF Bookkeeping
  <2>2. CASE UNCHANGED vars
    BY <2>2, AllStay
  <2> QED BY <2>1, <2>2
<1>3. Bookkeeping /\ Begun /\ Finishing => SweepRoutinesRun
  BY AllFinished DEF Bookkeeping, Begun, SweepRoutinesRun
<1> QED BY <1>1, <1>2, <1>3, BookkeepingHolds, PTL DEF Spec

\* With every dim on zig-zag two points visited one after the other are
\* neighbours.
THEOREM Neighbours == Spec => []NeighboursInOrder
<1>1. Bookkeeping => NeighboursInOrder
  <2> SUFFICES ASSUME Shaped, \A k \in Dims(Shape) : recipe.zig[k], NEW n \in 1..(Total - 1)
               PROVE  \E k \in Dims(Shape) :
                        /\ \A j \in Dims(Shape) \ {k} : IndexOf(n)[j] = IndexOf(n - 1)[j]
                        /\ \/ IndexOf(n)[k] = IndexOf(n - 1)[k] + 1
                           \/ IndexOf(n)[k] + 1 = IndexOf(n - 1)[k]
    BY DEF Bookkeeping, NeighboursInOrder
  <2>1. Shape \in Shapes /\ n \in 1..(TotalPoints(Shape) - 1)
    BY Scan DEF Total
  <2> QED BY <2>1, NeighboursVisited DEF IndexOf
<1> QED BY <1>1, BookkeepingHolds, PTL

=============================================================================
