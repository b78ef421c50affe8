------------------------------ MODULE Odometer ------------------------------
(***************************************************************************)
(* In which order a scan visits its grid, and which of its points begin or *)
(* end a sweep: the pure part of scan_core/engine.py (_unravel,            *)
(* _serpentine, visit_index), scan_core/hooks.py (sweep_block,             *)
(* _each_sweep_fires) and scan_core/scout.py (coarse_indices, any_in).     *)
(*                                                                         *)
(* A shape is the sequence of the sizes of the dims, outermost first; an   *)
(* index gives each dim a value from 0 to its size less one; a flat number *)
(* counts the points from 0 in the order they are visited.                 *)
(***************************************************************************)
EXTENDS Naturals, Sequences, FiniteSets

Dims(shape) == 1..Len(shape)

\* The points of one sweep of each dim; the last entry closes the recursion.
SweepBlock(shape) ==
  LET points[k \in 1..(Len(shape) + 1)] ==
        IF k > Len(shape) THEN 1 ELSE shape[k] * points[k + 1]
  IN  points

TotalPoints(shape) == SweepBlock(shape)[1]

Unravel(flat, shape) ==
  LET block == SweepBlock(shape)
  IN  [k \in Dims(shape) |-> (flat \div block[k + 1]) % shape[k]]

\* How many sweeps of each dim lie before the one idx belongs to.
SweepsBefore(idx, shape) ==
  LET sweep[k \in Dims(shape)] ==
        IF k = 1 THEN 0 ELSE sweep[k - 1] * shape[k - 1] + idx[k - 1]
  IN  sweep

\* Wrong: the old scan-wide rule, a dim turns when the sum of the outer
\* indices is odd.
SerpentineBySum(idx, shape, flags) ==
  LET sum[k \in Dims(shape)] == IF k = 1 THEN 0 ELSE sum[k - 1] + idx[k - 1]
  IN  [k \in Dims(shape) |->
         IF k > 1 /\ flags[k] /\ sum[k] % 2 = 1
         THEN shape[k] - 1 - idx[k] ELSE idx[k]]

\* A flagged dim runs backwards on every other sweep of it.
Serpentine(idx, shape, flags) ==
  LET sweep == SweepsBefore(idx, shape)
  IN  [k \in Dims(shape) |->
         IF k > 1 /\ flags[k] /\ sweep[k] % 2 = 1
         THEN shape[k] - 1 - idx[k] ELSE idx[k]]

VisitIndex(flat, shape, flags) == Serpentine(Unravel(flat, shape), shape, flags)

Grid(shape) ==
  {Unravel(flat, shape) : flat \in 0..(TotalPoints(shape) - 1)}

\* Is a point of measured in [lo, hi) of the visiting order?
AnyIn(measured, lo, hi) == \E flat \in measured : lo <= flat /\ flat < hi

\* Wrong: the rule of a scan without a mask and without a continuation.
SweepStartOnGrid(flat, block, every, measured, first) ==
  flat % block = 0 /\ (flat \div block) % every = 0

\* A routine "at the start of every every-th sweep": before the first measured
\* point of the sweep, and at the first point of a continued measurement.
SweepStartFires(flat, block, every, measured, first) ==
  LET start == (flat \div block) * block
  IN  /\ (flat \div block) % every = 0
      /\ flat = first \/ ~AnyIn(measured, start, flat)

\* "At the end of every every-th sweep": after the last measured point of the
\* sweep, except the scan's last sweep.
SweepEndFires(flat, block, every, measured, total) ==
  LET end == (flat \div block) * block + block
  IN  /\ ~AnyIn(measured, flat + 1, end)
      /\ end < total
      /\ (end \div block) % every = 0

\* Every step-th index of a dim of n points, and always the last one.
CoarseIndices(n, step) == {i \in 0..(n - 1) : i % step = 0 \/ i = n - 1}

=============================================================================
