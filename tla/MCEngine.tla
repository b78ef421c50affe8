------------------------------ MODULE MCEngine ------------------------------
(***************************************************************************)
(* Small scans of every kind the engine knows: rows with and without       *)
(* zig-zag, three dims, a repeat axis, diagonal row changes, a continued   *)
(* scan, a script with nobody to pause for, skip_if before and after the   *)
(* point, and a scout pass once and per outer step.                        *)
(***************************************************************************)
EXTENDS Engine

Plain(shape) ==
  [shape |-> shape, zig |-> [k \in Dims(shape) |-> FALSE], repeats |-> {},
   diagonal |-> FALSE, sweepDim |-> Len(shape), every |-> 1, skip |-> "never",
   skipFirst |-> FALSE, scouted |-> {}, each |-> FALSE, step |-> 1,
   watched |-> TRUE, continued |-> FALSE, start |-> 0]

ZigZag(r) == [r EXCEPT !.zig = [k \in Dims(r.shape) |-> TRUE]]
Scouting(r, dims, each, step) ==
  [r EXCEPT !.scouted = dims, !.each = each, !.step = step]

MCRecipes ==
  { ZigZag([Plain(<<2, 2, 2>>) EXCEPT !.every = 2]),
    [ZigZag(Plain(<<2, 2>>)) EXCEPT !.diagonal = TRUE, !.skip = "after"],
    [Plain(<<3, 2>>) EXCEPT !.repeats = {1}, !.watched = FALSE],
    [ZigZag(Plain(<<2, 3>>)) EXCEPT !.continued = TRUE, !.start = 2],
    [Plain(<<2, 2>>) EXCEPT !.diagonal = TRUE, !.skip = "before"],
    Scouting(ZigZag(Plain(<<2, 2>>)), {2}, TRUE, 1),
    Scouting([Plain(<<2, 2>>) EXCEPT !.skip = "before"], {1}, FALSE, 1),
    Scouting(Plain(<<3>>), {1}, FALSE, 2) }

\* The sweeps of the middle dim go across two blocks of the scout (README, where
\* the code departs from what it says).
MCSweepAcrossBlocks ==
  { Scouting([Plain(<<2, 2, 2>>) EXCEPT !.sweepDim = 2], {3}, TRUE, 1) }

=============================================================================
