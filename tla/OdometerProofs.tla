--------------------------- MODULE OdometerProofs ---------------------------
(***************************************************************************)
(* What the odometer does for every shape: each index of the grid is       *)
(* visited once and none is left out, and with every dim on zig-zag two    *)
(* points visited one after the other are neighbours.                      *)
(*                                                                         *)
(* A flat number is read as digits, the innermost dim last: the digit of a *)
(* dim counts within its sweep, and what lies to the left of a digit       *)
(* counts the sweeps before (DigitIs, SweepsCounted).  A dim that turns    *)
(* mirrors its digit, which takes nothing away from the sweeps before, so  *)
(* the digits of a point are found from the outermost dim inwards.         *)
(***************************************************************************)
EXTENDS Odometer, NaturalsLemmas

\* The shapes of a scan: any number of dims, each with at least one value.
Shapes == Seq(Nat \ {0})

-----------------------------------------------------------------------------
(* The recursive functions of the odometer are what they say *)

\* The sweep of a dim has as many points as its values times those of the
\* sweep inside it.
LEMMA BlockStep ==
  ASSUME NEW shape \in Shapes
  PROVE  SweepBlock(shape) =
           [k \in 1..(Len(shape) + 1) |->
              IF k > Len(shape) THEN 1 ELSE shape[k] * SweepBlock(shape)[k + 1]]
<1> DEFINE L == Len(shape)
           D == 1..(L + 1)
           Fits(f, k) == f[k] = IF k > L THEN 1 ELSE shape[k] * f[k + 1]
           S == {n \in 1..(L + 1) : \E f : f = [k \in D |-> f[k]] /\ \A k \in n..(L + 1) : Fits(f, k)}
<1>0. L \in Nat
  BY DEF Shapes
<1>1. L + 1 \in S
  <2> DEFINE f == [k \in D |-> 1]
  <2>1. f = [k \in D |-> f[k]] /\ \A k \in (L + 1)..(L + 1) : Fits(f, k)
    BY <1>0
  <2> QED BY <1>0, <2>1
<1>2. ASSUME NEW n \in 1..L, n + 1 \in S PROVE n \in S
  <2>1. PICK f : f = [k \in D |-> f[k]] /\ \A k \in (n + 1)..(L + 1) : Fits(f, k)
    BY <1>2
  <2> DEFINE g == [k \in D |-> IF k = n THEN shape[n] * f[n + 1] ELSE f[k]]
  <2>2. g = [k \in D |-> g[k]]
    OBVIOUS
  <2>3. ASSUME NEW k \in n..(L + 1) PROVE Fits(g, k)
    <3>1. CASE k = n
      <4>1. k \in D /\ k + 1 \in D /\ k + 1 # n /\ ~(k > L)
        BY <1>0, <3>1
      <4> QED BY <3>1, <4>1
    <3>2. CASE k # n
      <4>1. k \in D /\ k \in (n + 1)..(L + 1) /\ (k > L \/ k + 1 \in D) /\ k + 1 # n
        BY <1>0, <3>2
      <4>2. Fits(f, k)
        BY <2>1, <4>1
      <4> QED BY <3>2, <4>1, <4>2
    <3> QED BY <3>1, <3>2
  <2> HIDE DEF g, Fits
  <2>4. n \in 1..(L + 1)
    BY <1>0
  <2> QED BY <2>2, <2>3, <2>4
<1>3. 1 \in S
  <2> HIDE DEF S
  <2>1. 1 \in 1..(L + 1)
    BY <1>0
  <2> QED BY <1>0, <1>1, <1>2, <2>1, DownInduction
<1>4. PICK f : f = [k \in D |-> f[k]] /\ \A k \in 1..(L + 1) : Fits(f, k)
  BY <1>3
<1>5. f = [k \in D |-> IF k > L THEN 1 ELSE shape[k] * f[k + 1]]
  BY <1>4
<1>6. SweepBlock(shape) =
        CHOOSE h : h = [k \in D |-> IF k > L THEN 1 ELSE shape[k] * h[k + 1]]
  BY DEF SweepBlock
<1> QED BY <1>5, <1>6

\* Its entries, one by one.
LEMMA BlockIs ==
  ASSUME NEW shape \in Shapes
  PROVE  /\ SweepBlock(shape) \in [1..(Len(shape) + 1) -> Nat \ {0}]
         /\ SweepBlock(shape)[Len(shape) + 1] = 1
         /\ \A k \in Dims(shape) : SweepBlock(shape)[k] = shape[k] * SweepBlock(shape)[k + 1]
         /\ TotalPoints(shape) = SweepBlock(shape)[1]
<1> DEFINE L == Len(shape)
           block == SweepBlock(shape)
           S == {k \in 1..(L + 1) : block[k] \in Nat \ {0}}
<1>0. L \in Nat /\ \A k \in 1..L : shape[k] \in Nat \ {0}
  BY DEF Shapes
<1>1. /\ block = [k \in 1..(L + 1) |-> block[k]]
      /\ block[L + 1] = 1
      /\ \A k \in 1..L : block[k] = shape[k] * block[k + 1]
  <2>1. block = [k \in 1..(L + 1) |-> IF k > L THEN 1 ELSE shape[k] * block[k + 1]]
    BY BlockStep
  <2> HIDE DEF block
  <2>2. L + 1 \in 1..(L + 1) /\ L + 1 > L
    BY <1>0
  <2>3. \A k \in 1..L : k \in 1..(L + 1) /\ ~(k > L)
    BY <1>0
  <2> QED BY <2>1, <2>2, <2>3
<1> HIDE DEF block
<1>2. L + 1 \in S
  BY <1>0, <1>1
<1>3. ASSUME NEW k \in 1..L, k + 1 \in S PROVE k \in S
  <2>1. shape[k] \in Nat \ {0} /\ block[k + 1] \in Nat \ {0} /\ k \in 1..(L + 1)
    BY <1>0, <1>3
  <2>2. \A x, y \in Nat \ {0} : x * y \in Nat \ {0}
    OBVIOUS
  <2> QED BY <1>1, <2>1, <2>2
<1>4. \A k \in 1..(L + 1) : k \in S
  <2> HIDE DEF S
  <2> QED BY <1>0, <1>2, <1>3, DownInduction
<1> QED BY <1>1, <1>4 DEF block, Dims, TotalPoints


LEMMA BlockAt ==
  ASSUME NEW shape \in Shapes, NEW k \in Dims(shape)
  PROVE  /\ shape[k] \in Nat \ {0}
         /\ SweepBlock(shape)[k] \in Nat \ {0} /\ SweepBlock(shape)[k + 1] \in Nat \ {0}
         /\ SweepBlock(shape)[k] = shape[k] * SweepBlock(shape)[k + 1]
<1>1. Len(shape) \in Nat /\ k \in 1..Len(shape) /\ shape[k] \in Nat \ {0}
  BY DEF Shapes, Dims
<1>2. k \in 1..(Len(shape) + 1) /\ k + 1 \in 1..(Len(shape) + 1)
  BY <1>1
<1> QED BY <1>1, <1>2, BlockIs

\* How many sweeps lie before a point, one dim after the other.
LEMMA SweepsStep ==
  ASSUME NEW shape \in Shapes, NEW idx
  PROVE  SweepsBefore(idx, shape) =
           [k \in Dims(shape) |->
              IF k = 1 THEN 0
              ELSE SweepsBefore(idx, shape)[k - 1] * shape[k - 1] + idx[k - 1]]
<1> DEFINE L == Len(shape)
           D == Dims(shape)
           Fits(f, k) == f[k] = IF k = 1 THEN 0 ELSE f[k - 1] * shape[k - 1] + idx[k - 1]
           S == {n \in 1..(L + 1) : \E f : /\ f = [k \in D |-> f[k]]
                                          /\ \A k \in D : k < n => Fits(f, k)}
<1>0. L \in Nat /\ D = 1..L
  BY DEF Shapes, Dims
<1>1. 1 \in S
  <2> DEFINE f == [k \in D |-> 0]
  <2>1. f = [k \in D |-> f[k]] /\ \A k \in D : k < 1 => Fits(f, k)
    BY <1>0
  <2> QED BY <1>0, <2>1
<1>2. ASSUME NEW n \in 1..L, n \in S PROVE n + 1 \in S
  <2>1. PICK f : f = [k \in D |-> f[k]] /\ \A k \in D : k < n => Fits(f, k)
    BY <1>2
  <2> DEFINE v == IF n = 1 THEN 0 ELSE f[n - 1] * shape[n - 1] + idx[n - 1]
             g == [k \in D |-> IF k = n THEN v ELSE f[k]]
  <2>2. g = [k \in D |-> g[k]]
    OBVIOUS
  <2>3. ASSUME NEW k \in D, k < n + 1 PROVE Fits(g, k)
    <3>1. CASE k = n
      <4>1. k = 1 \/ (k - 1 \in D /\ k - 1 # n)
        BY <1>0, <3>1
      <4> QED BY <3>1, <4>1
    <3>2. CASE k # n
      <4>1. k < n /\ (k = 1 \/ (k - 1 \in D /\ k - 1 # n))
        BY <1>0, <2>3, <3>2
      <4>2. Fits(f, k)
        BY <2>1, <4>1
      <4> QED BY <3>2, <4>1, <4>2
    <3> QED BY <3>1, <3>2
  <2> HIDE DEF g, Fits
  <2>4. n + 1 \in 1..(L + 1)
    BY <1>0
  <2> QED BY <2>2, <2>3, <2>4
<1>3. L + 1 \in S
  <2> HIDE DEF S
  <2>1. L + 1 \in 1..(L + 1)
    BY <1>0
  <2> QED BY <1>0, <1>1, <1>2, <2>1, UpInduction
<1>4. PICK f : f = [k \in D |-> f[k]] /\ \A k \in D : k < L + 1 => Fits(f, k)
  BY <1>3
<1>5. \A k \in D : Fits(f, k)
  <2>1. \A k \in D : k < L + 1
    BY <1>0
  <2> HIDE DEF Fits
  <2> QED BY <1>4, <2>1
<1>6. f = [k \in D |-> IF k = 1 THEN 0 ELSE f[k - 1] * shape[k - 1] + idx[k - 1]]
  BY <1>4, <1>5
<1>7. SweepsBefore(idx, shape) =
        CHOOSE h : h = [k \in D |-> IF k = 1 THEN 0 ELSE h[k - 1] * shape[k - 1] + idx[k - 1]]
  BY DEF SweepsBefore
<1> QED BY <1>6, <1>7

-----------------------------------------------------------------------------
(* Where the flat numbers lie *)

\* Quotient and remainder.
LEMMA Division ==
  ASSUME NEW a \in Nat, NEW b \in Nat \ {0}
  PROVE  /\ a \div b \in Nat /\ (a % b) \in 0..(b - 1)
         /\ a = b * (a \div b) + (a % b)
  OBVIOUS

LEMMA Divides ==
  ASSUME NEW a \in Nat, NEW b \in Nat \ {0}, a % b = 0
  PROVE  a \div b \in Nat /\ a = b * (a \div b)
  OBVIOUS

LEMMA Products ==
  /\ \A x, y \in Nat : x * y \in Nat
  /\ \A x, y \in Nat \ {0} : x * y \in Nat \ {0}
  OBVIOUS

\* The digit of dim k, and the number of its sweeps that lie before.
Digit(flat, shape, k) == (flat \div SweepBlock(shape)[k + 1]) % shape[k]
Sweep(flat, shape, k) == flat \div SweepBlock(shape)[k]

LEMMA DigitIs ==
  ASSUME NEW shape \in Shapes, NEW flat \in Nat, NEW k \in Dims(shape)
  PROVE  /\ Sweep(flat, shape, k) \in Nat /\ Sweep(flat, shape, k + 1) \in Nat
         /\ Digit(flat, shape, k) \in 0..(shape[k] - 1)
         /\ Sweep(flat, shape, k + 1) = shape[k] * Sweep(flat, shape, k) + Digit(flat, shape, k)
<1> DEFINE b == SweepBlock(shape)[k + 1]
           t == flat \div b
<1>1. /\ b \in Nat \ {0} /\ shape[k] \in Nat \ {0}
      /\ SweepBlock(shape)[k] = shape[k] * b
  BY BlockAt
<1> HIDE DEF b
<1>2. t \in Nat /\ (t % shape[k]) \in 0..(shape[k] - 1) /\ t \div shape[k] \in Nat
  BY <1>1
<1>3. t = shape[k] * (t \div shape[k]) + (t % shape[k])
  <2> HIDE DEF t
  <2> QED BY <1>1, <1>2, Division
<1>4. flat \div (shape[k] * b) = t \div shape[k]
  <2>1. ASSUME NEW x \in Nat \ {0}, NEW y \in Nat \ {0}
        PROVE  flat \div (x * y) = (flat \div y) \div x
    OBVIOUS
  <2> QED BY <1>1, <2>1
<1> QED BY <1>1, <1>2, <1>3, <1>4 DEF Sweep, Digit, b

\* Serpentine's count of the sweeps before a point is the quotient.
LEMMA SweepsCounted ==
  ASSUME NEW shape \in Shapes, NEW flat \in 0..(TotalPoints(shape) - 1)
  PROVE  \A k \in Dims(shape) :
           SweepsBefore(Unravel(flat, shape), shape)[k] = Sweep(flat, shape, k)
<1> DEFINE L == Len(shape)
           idx == Unravel(flat, shape)
           sweep == SweepsBefore(idx, shape)
           S == {k \in 1..(L + 1) : k \in Dims(shape) => sweep[k] = Sweep(flat, shape, k)}
<1>0. /\ L \in Nat /\ flat \in Nat /\ Dims(shape) = 1..L
      /\ TotalPoints(shape) \in Nat \ {0} /\ TotalPoints(shape) = SweepBlock(shape)[1]
  BY SMTT(30), BlockIs DEF Shapes, Dims
<1>1. \A k \in Dims(shape) : idx[k] = Digit(flat, shape, k)
  BY DEF Unravel, Digit
<1>2. sweep = [k \in Dims(shape) |->
                 IF k = 1 THEN 0 ELSE sweep[k - 1] * shape[k - 1] + idx[k - 1]]
  BY SweepsStep
<1> HIDE DEF idx, sweep
<1>3. 1 \in S
  <2>1. Sweep(flat, shape, 1) = 0
    BY <1>0 DEF Sweep
  <2> QED BY <1>0, <1>2, <2>1
<1>4. ASSUME NEW k \in 1..L, k \in S PROVE k + 1 \in S
  <2> SUFFICES ASSUME k + 1 \in 1..L PROVE sweep[k + 1] = Sweep(flat, shape, k + 1)
    BY <1>0
  <2>1. k \in Dims(shape) /\ k + 1 # 1 /\ (k + 1) - 1 = k /\ shape[k] \in Nat
    BY <1>0 DEF Shapes
  <2>2. sweep[k + 1] = sweep[k] * shape[k] + idx[k]
    BY <1>0, <1>2, <2>1
  <2>3. sweep[k] = Sweep(flat, shape, k)
    BY <1>4, <2>1
  <2>4. /\ Sweep(flat, shape, k) \in Nat /\ Digit(flat, shape, k) \in Nat
        /\ Sweep(flat, shape, k + 1) = shape[k] * Sweep(flat, shape, k) + Digit(flat, shape, k)
    <3>1. flat \in Nat /\ k \in Dims(shape)
      BY <1>0, <2>1
    <3>2. Digit(flat, shape, k) \in 0..(shape[k] - 1)
      BY <3>1, DigitIs
    <3>3. Digit(flat, shape, k) \in Nat
      BY <2>1, <3>2
    <3> QED BY <3>1, <3>3, DigitIs
  <2>5. idx[k] = Digit(flat, shape, k)
    BY <1>1, <2>1
  <2>6. \A x, y \in Nat : x * y = y * x
    OBVIOUS
  <2> QED BY <2>1, <2>2, <2>3, <2>4, <2>5, <2>6
<1>5. \A k \in 1..(L + 1) : k \in S
  <2> HIDE DEF S
  <2> QED BY <1>0, <1>3, <1>4, UpInduction
<1> QED BY <1>0, <1>5 DEF sweep, idx

\* The value of dim k at the flat-th point visited.
Turns(flat, shape, flags, k) == k > 1 /\ flags[k] /\ Sweep(flat, shape, k) % 2 = 1
Value(flat, shape, flags, k) ==
  IF Turns(flat, shape, flags, k) THEN (shape[k] - 1) - Digit(flat, shape, k)
  ELSE Digit(flat, shape, k)

LEMMA VisitIs ==
  ASSUME NEW shape \in Shapes, NEW flags, NEW flat \in 0..(TotalPoints(shape) - 1)
  PROVE  VisitIndex(flat, shape, flags) = [k \in Dims(shape) |-> Value(flat, shape, flags, k)]
<1>1. \A k \in Dims(shape) : Unravel(flat, shape)[k] = Digit(flat, shape, k)
  BY DEF Unravel, Digit
<1>2. \A k \in Dims(shape) :
        SweepsBefore(Unravel(flat, shape), shape)[k] = Sweep(flat, shape, k)
  BY SweepsCounted
<1> QED BY <1>1, <1>2 DEF VisitIndex, Serpentine, Value, Turns


LEMMA ValueIn ==
  ASSUME NEW shape \in Shapes, NEW flags, NEW flat \in Nat, NEW k \in Dims(shape)
  PROVE  Value(flat, shape, flags, k) \in 0..(shape[k] - 1)
<1>1. shape[k] \in Nat \ {0} /\ Digit(flat, shape, k) \in 0..(shape[k] - 1)
  BY BlockAt, DigitIs
<1> QED BY <1>1 DEF Value

\* The first dim has one sweep, the points inside the last are single.
LEMMA Outermost ==
  ASSUME NEW shape \in Shapes, NEW flat \in 0..(TotalPoints(shape) - 1)
  PROVE  /\ flat \in Nat /\ TotalPoints(shape) \in Nat \ {0}
         /\ Sweep(flat, shape, 1) = 0
         /\ Sweep(flat, shape, Len(shape) + 1) = flat
<1>1. Len(shape) \in Nat /\ 1 \in 1..(Len(shape) + 1)
  BY DEF Shapes
<1>2. /\ TotalPoints(shape) \in Nat \ {0} /\ TotalPoints(shape) = SweepBlock(shape)[1]
      /\ SweepBlock(shape)[Len(shape) + 1] = 1
  BY <1>1, BlockIs
<1> QED BY <1>2 DEF Sweep

-----------------------------------------------------------------------------
(* Every point of the grid is visited, and none twice *)

\* Two points with the same index are one point: dim by dim, from the outside
\* in, the sweeps before them agree, so the dim turns for both or for neither.
THEOREM VisitedOnce ==
  ASSUME NEW shape \in Shapes, NEW flags,
         NEW m \in 0..(TotalPoints(shape) - 1), NEW n \in 0..(TotalPoints(shape) - 1),
         VisitIndex(m, shape, flags) = VisitIndex(n, shape, flags)
  PROVE  m = n
<1> DEFINE L == Len(shape)
           S == {k \in 1..(L + 1) : Sweep(m, shape, k) = Sweep(n, shape, k)}
<1>0. L \in Nat /\ Dims(shape) = 1..L /\ m \in Nat /\ n \in Nat
  BY Outermost DEF Shapes, Dims
<1>1. 1 \in S
  <2>1. 1 \in 1..(L + 1)
    BY <1>0
  <2> QED BY <2>1, Outermost
<1>2. ASSUME NEW k \in 1..L, k \in S PROVE k + 1 \in S
  <2>1. k \in Dims(shape) /\ k + 1 \in 1..(L + 1)
    BY <1>0
  <2>2. Sweep(m, shape, k) = Sweep(n, shape, k)
    BY <1>2
  <2>3. Value(m, shape, flags, k) = Value(n, shape, flags, k)
    <3>1. /\ VisitIndex(m, shape, flags)[k] = Value(m, shape, flags, k)
          /\ VisitIndex(n, shape, flags)[k] = Value(n, shape, flags, k)
      BY <2>1, VisitIs
    <3> QED BY <3>1
  <2>4. shape[k] \in Nat \ {0}
    BY <2>1, BlockAt
  <2>5. Digit(m, shape, k) \in 0..(shape[k] - 1) /\ Digit(n, shape, k) \in 0..(shape[k] - 1)
    BY <1>0, <2>1, DigitIs
  <2>6. Digit(m, shape, k) = Digit(n, shape, k)
    BY SMTT(30), <2>2, <2>3, <2>4, <2>5 DEF Value, Turns
  <2>7. Sweep(m, shape, k + 1) = Sweep(n, shape, k + 1)
    <3>1. Sweep(m, shape, k + 1) = shape[k] * Sweep(m, shape, k) + Digit(m, shape, k)
      BY <1>0, <2>1, DigitIs
    <3>2. Sweep(n, shape, k + 1) = shape[k] * Sweep(n, shape, k) + Digit(n, shape, k)
      BY <1>0, <2>1, DigitIs
    <3> QED BY <2>2, <2>6, <3>1, <3>2
  <2> QED BY <2>1, <2>7
<1>3. L + 1 \in S
  <2> HIDE DEF S
  <2>1. L + 1 \in 1..(L + 1)
    BY <1>0
  <2> QED BY <1>0, <1>1, <1>2, <2>1, UpInduction
<1> QED BY <1>3, Outermost

\* An index gives each dim one of its values, and a point may give it.
Within(idx, shape) == \A k \in Dims(shape) : idx[k] \in 0..(shape[k] - 1)
Gives(n, shape, flags, idx) == \A k \in Dims(shape) : Value(n, shape, flags, k) = idx[k]

\* Every index that gives each dim one of its values is visited.
LEMMA Reached ==
  ASSUME NEW shape \in Shapes, NEW flags, NEW idx, Within(idx, shape)
  PROVE  \E n \in 0..(TotalPoints(shape) - 1) : Gives(n, shape, flags, idx)
<1> DEFINE L == Len(shape)
           T == TotalPoints(shape)
           block == SweepBlock(shape)
           Good(m, k) == \A j \in Dims(shape) : j < k => Value(m, shape, flags, j) = idx[j]
           S == {k \in 1..(L + 1) : \E t \in Nat :
                   /\ (t + 1) * block[k] <= T
                   /\ \A m \in Nat : Sweep(m, shape, k) = t => Good(m, k)}
<1>0. /\ L \in Nat /\ Dims(shape) = 1..L /\ T \in Nat \ {0} /\ T = block[1]
      /\ block[L + 1] = 1
  <2>1. L \in Nat /\ Dims(shape) = 1..L /\ 1 \in 1..(L + 1)
    BY DEF Shapes, Dims
  <2> QED BY <2>1, BlockIs
<1>1. 1 \in S
  <2>1. 1 \in 1..(L + 1) /\ (0 + 1) * block[1] <= T
    BY <1>0
  <2>2. \A m \in Nat : Good(m, 1)
    BY <1>0
  <2> HIDE DEF Good
  <2> QED BY <2>1, <2>2
<1>2. ASSUME NEW k \in 1..L, k \in S PROVE k + 1 \in S
  <2>1. k \in Dims(shape) /\ k + 1 \in 1..(L + 1)
    BY <1>0
  <2>2. PICK t \in Nat : /\ (t + 1) * block[k] <= T
                         /\ \A m \in Nat : Sweep(m, shape, k) = t => Good(m, k)
    BY <1>2
  <2>3. /\ shape[k] \in Nat \ {0} /\ block[k + 1] \in Nat \ {0}
        /\ block[k] = shape[k] * block[k + 1]
    BY <2>1, BlockAt
  <2> DEFINE turns == k > 1 /\ flags[k] /\ t % 2 = 1
             c == IF turns THEN (shape[k] - 1) - idx[k] ELSE idx[k]
             u == shape[k] * t + c
  <2>4. idx[k] \in 0..(shape[k] - 1) /\ c \in 0..(shape[k] - 1)
    BY <2>1, <2>3 DEF Within
  <2>5. u \in Nat /\ (u + 1) * block[k + 1] <= T
    <3>1. ASSUME NEW s \in Nat \ {0}, NEW b \in Nat \ {0}, NEW d \in 0..(s - 1)
          PROVE  s * t + d \in Nat /\ (s * t + d + 1) * b <= (t + 1) * (s * b)
      <4>1. s * t + d + 1 <= s * t + s /\ s * t \in Nat
        BY <3>1
      <4>2. \A x, y \in Nat : x <= y => x * b <= y * b
        BY <3>1
      <4>3. (s * t + d + 1) * b <= (s * t + s) * b
        BY <4>1, <4>2
      <4>4. (s * t + s) * b = (t + 1) * (s * b)
        OBVIOUS
      <4> QED BY <4>1, <4>3, <4>4
    <3>2. u \in Nat /\ (u + 1) * block[k + 1] <= (t + 1) * block[k]
      <4> HIDE DEF c, block
      <4> QED BY <2>3, <2>4, <3>1
    <3>3. (t + 1) * block[k] \in Nat /\ (u + 1) * block[k + 1] \in Nat
      <4> HIDE DEF u, block
      <4> QED BY SMTT(30), <2>3, <3>2
    <3> HIDE DEF u, block
    <3> QED BY <1>0, <2>2, <3>2, <3>3
  <2>6. ASSUME NEW m \in Nat, Sweep(m, shape, k + 1) = u PROVE Good(m, k + 1)
    <3>1. /\ Sweep(m, shape, k) \in Nat /\ Digit(m, shape, k) \in 0..(shape[k] - 1)
          /\ u = shape[k] * Sweep(m, shape, k) + Digit(m, shape, k)
      BY <2>1, <2>6, DigitIs
    <3>2. Sweep(m, shape, k) = t /\ Digit(m, shape, k) = c
      <4>1. ASSUME NEW s \in Nat \ {0}, NEW p \in Nat, NEW q \in Nat,
                   NEW x \in 0..(s - 1), NEW y \in 0..(s - 1), s * p + x = s * q + y
            PROVE  p = q /\ x = y
        <5>1. /\ (s * p + x) \div s = p /\ (s * p + x) % s = x
              /\ (s * q + y) \div s = q /\ (s * q + y) % s = y
          OBVIOUS
        <5> QED BY <4>1, <5>1
      <4> HIDE DEF c
      <4> QED BY ZenonT(60), <2>3, <2>4, <3>1, <4>1
    <3>3. Value(m, shape, flags, k) = idx[k]
      BY SMTT(30), <2>3, <2>4, <3>2 DEF Value, Turns
    <3>4. Good(m, k)
      BY <2>2, <3>2
    <3>5. \A j \in Dims(shape) : j < k + 1 => j < k \/ j = k
      BY <1>0
    <3> QED BY <3>3, <3>4, <3>5
  <2> HIDE DEF u, Good
  <2> QED BY <2>1, <2>5, <2>6
<1>3. L + 1 \in S
  <2> HIDE DEF S
  <2>1. L + 1 \in 1..(L + 1)
    BY <1>0
  <2> QED BY <1>0, <1>1, <1>2, <2>1, UpInduction
<1>4. PICK t \in Nat : /\ (t + 1) * block[L + 1] <= T
                       /\ \A m \in Nat : Sweep(m, shape, L + 1) = t => Good(m, L + 1)
  BY <1>3
<1>5. t \in 0..(T - 1)
  BY <1>0, <1>4
<1>6. Sweep(t, shape, L + 1) = t
  BY <1>5, Outermost
<1>7. Good(t, L + 1)
  BY <1>4, <1>6
<1>8. \A j \in Dims(shape) : j < L + 1
  BY <1>0
<1>9. Gives(t, shape, flags, idx)
  BY <1>7, <1>8 DEF Gives
<1> QED BY <1>5, <1>9

\* The grid is the set of all the indices, and a scan visits all of it,
\* whichever dims run to and fro.
THEOREM WholeGridVisited ==
  ASSUME NEW shape \in Shapes, NEW flags
  PROVE  /\ Grid(shape) = {idx \in [Dims(shape) -> Nat] :
                             \A k \in Dims(shape) : idx[k] \in 0..(shape[k] - 1)}
         /\ Grid(shape) = {VisitIndex(n, shape, flags) : n \in 0..(TotalPoints(shape) - 1)}
<1> DEFINE G == {idx \in [Dims(shape) -> Nat] :
                   \A k \in Dims(shape) : idx[k] \in 0..(shape[k] - 1)}
           N == 0..(TotalPoints(shape) - 1)
           V == {VisitIndex(n, shape, flags) : n \in N}
           plain == [k \in Dims(shape) |-> FALSE]
<1>0. N \subseteq Nat /\ \A k \in Dims(shape) : shape[k] \in Nat \ {0}
  BY Outermost, BlockAt
<1>1. ASSUME NEW n \in N
      PROVE  Unravel(n, shape) = [k \in Dims(shape) |-> Value(n, shape, plain, k)]
  BY DEF Unravel, Value, Turns, Digit
<1>2. ASSUME NEW n \in N, NEW f
      PROVE  [k \in Dims(shape) |-> Value(n, shape, f, k)] \in G
  <2>1. \A k \in Dims(shape) : Value(n, shape, f, k) \in 0..(shape[k] - 1)
    BY <1>0, ValueIn
  <2>2. \A k \in Dims(shape) : Value(n, shape, f, k) \in Nat
    BY <1>0, <2>1
  <2> QED BY <2>1, <2>2
<1>3. ASSUME NEW idx \in G, NEW f
      PROVE  \E n \in N : idx = [k \in Dims(shape) |-> Value(n, shape, f, k)]
  <2>1. PICK n \in N : Gives(n, shape, f, idx)
    <3>1. Within(idx, shape)
      BY DEF Within
    <3> HIDE DEF G, plain
    <3> QED BY <3>1, Reached
  <2> QED BY <2>1 DEF Gives
<1>4. \A n \in N : VisitIndex(n, shape, flags) = [k \in Dims(shape) |-> Value(n, shape, flags, k)]
  BY VisitIs
<1> HIDE DEF G, N, plain
<1>5. V = G
  <2>1. \A n \in N : VisitIndex(n, shape, flags) \in G
    BY <1>2, <1>4
  <2>2. ASSUME NEW idx \in G PROVE \E n \in N : idx = VisitIndex(n, shape, flags)
    <3>1. PICK n \in N : idx = [k \in Dims(shape) |-> Value(n, shape, flags, k)]
      BY <1>3
    <3> QED BY <1>4, <3>1
  <2> QED BY <2>1, <2>2
<1>6. Grid(shape) = G
  <2>1. Grid(shape) = {Unravel(n, shape) : n \in N}
    BY DEF Grid, N
  <2>2. \A n \in N : Unravel(n, shape) \in G
    BY <1>1, <1>2
  <2>3. ASSUME NEW idx \in G PROVE \E n \in N : idx = Unravel(n, shape)
    <3>1. PICK n \in N : idx = [k \in Dims(shape) |-> Value(n, shape, plain, k)]
      BY <1>3
    <3> QED BY <1>1, <3>1
  <2> QED BY <2>1, <2>2, <2>3
<1> QED BY <1>5, <1>6 DEF G, N


-----------------------------------------------------------------------------
(* Zig-zag *)

\* One point further, the sweeps of a dim that lie before it are one more where
\* a sweep begins and as many elsewhere.
LEMMA SweepBefore ==
  ASSUME NEW shape \in Shapes, NEW n \in Nat \ {0}, NEW k \in 1..(Len(shape) + 1)
  PROVE  /\ n % SweepBlock(shape)[k] = 0 => Sweep(n - 1, shape, k) = Sweep(n, shape, k) - 1
         /\ n % SweepBlock(shape)[k] # 0 => Sweep(n - 1, shape, k) = Sweep(n, shape, k)
<1>1. ASSUME NEW b \in Nat \ {0}
      PROVE  /\ n % b = 0 => (n - 1) \div b = (n \div b) - 1
             /\ n % b # 0 => (n - 1) \div b = n \div b
  <2> DEFINE q == n \div b
             r == n % b
  <2>1. q \in Nat /\ r \in 0..(b - 1) /\ n = b * q + r
    BY Division
  <2>2. ASSUME NEW p \in Nat, NEW x \in 0..(b - 1) PROVE (b * p + x) \div b = p
    OBVIOUS
  <2> HIDE DEF q, r
  <2>3. CASE r = 0
    <3>1. q \in Nat \ {0}
      BY <2>1, <2>3
    <3>2. q - 1 \in Nat /\ b - 1 \in 0..(b - 1) /\ n - 1 = b * (q - 1) + (b - 1)
      BY <2>1, <2>3, <3>1
    <3>3. (n - 1) \div b = q - 1
      BY <2>2, <3>2
    <3> QED BY <2>3, <3>3 DEF q, r
  <2>4. CASE r # 0
    <3>1. r - 1 \in 0..(b - 1) /\ n - 1 = b * q + (r - 1)
      BY <2>1, <2>4
    <3>2. (n - 1) \div b = q
      BY <2>1, <2>2, <3>1
    <3> QED BY <2>4, <3>2 DEF q, r
  <2> QED BY <2>3, <2>4
<1>2. SweepBlock(shape)[k] \in Nat \ {0}
  BY BlockIs
<1> QED BY <1>1, <1>2 DEF Sweep

\* With every dim on zig-zag two points visited one after the other are
\* neighbours.  One dim steps: the outermost one that a step of the odometer
\* falls on.  The dims outside it stand still, and those inside it begin a sweep
\* at the end where the last one ended, as they turn.
THEOREM NeighboursVisited ==
  ASSUME NEW shape \in Shapes, NEW flags, \A k \in Dims(shape) : flags[k],
         NEW n \in 1..(TotalPoints(shape) - 1)
  PROVE  \E k \in Dims(shape) :
           /\ \A j \in Dims(shape) \ {k} :
                VisitIndex(n, shape, flags)[j] = VisitIndex(n - 1, shape, flags)[j]
           /\ \/ VisitIndex(n, shape, flags)[k] = VisitIndex(n - 1, shape, flags)[k] + 1
              \/ VisitIndex(n, shape, flags)[k] + 1 = VisitIndex(n - 1, shape, flags)[k]
<1> DEFINE L == Len(shape)
           T == TotalPoints(shape)
           block == SweepBlock(shape)
           K == {j \in Dims(shape) : n % block[j + 1] = 0}
           V(j) == Value(n, shape, flags, j)
           W(j) == Value(n - 1, shape, flags, j)
<1>0. /\ L \in Nat /\ Dims(shape) = 1..L /\ T \in Nat \ {0} /\ T = block[1]
      /\ block[L + 1] = 1
  <2>1. L \in Nat /\ Dims(shape) = 1..L /\ 1 \in 1..(L + 1)
    BY DEF Shapes, Dims
  <2> QED BY <2>1, BlockIs
<1>1. /\ n \in Nat \ {0} /\ n - 1 \in Nat /\ n < T
      /\ n \in 0..(T - 1) /\ n - 1 \in 0..(T - 1)
  BY <1>0
<1>2. /\ \A j \in Dims(shape) : VisitIndex(n, shape, flags)[j] = V(j)
      /\ \A j \in Dims(shape) : VisitIndex(n - 1, shape, flags)[j] = W(j)
  BY <1>1, VisitIs
<1>3. K # {}
  <2>1. L # 0
    BY <1>0, <1>1
  <2>2. L \in Dims(shape) /\ n % block[L + 1] = 0
    BY <1>0, <1>1, <2>1
  <2> QED BY <2>2
<1>4. PICK k \in K : \A j \in K : k <= j
  <2>1. K \in SUBSET Nat
    BY <1>0
  <2> QED BY <1>3, <2>1, Least
\* Outside k no sweep begins at n.
<1>5. ASSUME NEW j \in Dims(shape), j <= k PROVE n % block[j] # 0
  <2>1. CASE j = 1
    BY <1>0, <1>1, <2>1
  <2>2. CASE j # 1
    <3>1. j - 1 \in Dims(shape) /\ ~(k <= j - 1) /\ (j - 1) + 1 = j
      BY <1>0, <1>5, <2>2
    <3>2. j - 1 \notin K
      BY <1>4, <3>1
    <3> QED BY <3>1, <3>2
  <2> QED BY <2>1, <2>2
\* Inside k one begins in every dim.
<1>6. \A j \in 1..(L + 1) : k < j => n % block[j] = 0
  <2> DEFINE S == {j \in 1..(L + 1) : k < j => n % block[j] = 0}
  <2>1. 1 \in S
    BY <1>0
  <2>2. ASSUME NEW j \in 1..L, j \in S PROVE j + 1 \in S
    <3>1. j \in Dims(shape) /\ j + 1 \in 1..(L + 1)
      BY <1>0
    <3> SUFFICES ASSUME k < j + 1 PROVE n % block[j + 1] = 0
      BY <3>1
    <3>2. CASE k = j
      BY <3>2
    <3>3. CASE k # j
      <4>1. n % block[j] = 0
        BY <1>0, <2>2, <3>3
      <4>2. /\ shape[j] \in Nat \ {0} /\ block[j + 1] \in Nat \ {0}
            /\ block[j] = shape[j] * block[j + 1]
        BY <3>1, BlockAt
      <4>3. ASSUME NEW a \in Nat \ {0}, NEW b \in Nat \ {0}, n % (a * b) = 0
            PROVE  n % b = 0
        <5> DEFINE q == n \div (a * b)
        <5>0. \A x, y \in Nat \ {0} : x * y \in Nat \ {0}
          OBVIOUS
        <5>1. q \in Nat /\ n = (a * b) * q
          BY <1>1, <4>3, <5>0, Divides
        <5> HIDE DEF q
        <5>2. a * q \in Nat /\ n = b * (a * q) + 0
          BY <5>1
        <5>3. ASSUME NEW p \in Nat PROVE (b * p + 0) % b = 0
          OBVIOUS
        <5> QED BY <5>2, <5>3
      <4> HIDE DEF block
      <4> QED BY <4>1, <4>2, <4>3
    <3> QED BY <3>2, <3>3
  <2>3. \A j \in 1..(L + 1) : j \in S
    <3> HIDE DEF S
    <3> QED BY <1>0, <2>1, <2>2, UpInduction
  <2> QED BY <2>3
<1>7. ASSUME NEW j \in Dims(shape)
      PROVE  /\ j \in 1..(L + 1) /\ j + 1 \in 1..(L + 1) /\ shape[j] \in Nat \ {0}
             /\ Sweep(n, shape, j) \in Nat /\ Sweep(n - 1, shape, j) \in Nat
             /\ Digit(n, shape, j) \in 0..(shape[j] - 1)
             /\ Digit(n - 1, shape, j) \in 0..(shape[j] - 1)
             /\ Sweep(n, shape, j + 1) = shape[j] * Sweep(n, shape, j) + Digit(n, shape, j)
             /\ Sweep(n - 1, shape, j + 1) =
                  shape[j] * Sweep(n - 1, shape, j) + Digit(n - 1, shape, j)
  <2>1. j \in 1..(L + 1) /\ j + 1 \in 1..(L + 1)
    BY <1>0
  <2> QED BY <1>1, <2>1, BlockAt, DigitIs
<1>8. ASSUME NEW j \in Dims(shape), j < k PROVE V(j) = W(j)
  <2>1. n % block[j] # 0 /\ n % block[j + 1] # 0
    <3>1. j + 1 \in Dims(shape) /\ j + 1 <= k /\ j <= k
      BY <1>0, <1>8
    <3> QED BY <1>5, <3>1
  <2>2. /\ Sweep(n - 1, shape, j) = Sweep(n, shape, j)
        /\ Sweep(n - 1, shape, j + 1) = Sweep(n, shape, j + 1)
    BY <1>1, <1>7, <2>1, SweepBefore
  <2>3. Digit(n - 1, shape, j) = Digit(n, shape, j)
    <3> DEFINE p == shape[j] * Sweep(n, shape, j)
    <3>1. p \in Nat
      BY <1>7, Products
    <3> HIDE DEF p
    <3>2. /\ Sweep(n, shape, j + 1) = p + Digit(n, shape, j)
          /\ Sweep(n, shape, j + 1) = p + Digit(n - 1, shape, j)
      BY <1>7, <2>2 DEF p
    <3>3. Digit(n, shape, j) \in Int /\ Digit(n - 1, shape, j) \in Int
      BY <1>7
    <3> QED BY <3>1, <3>2, <3>3
  <2> QED BY <2>2, <2>3 DEF Value, Turns
<1>9. V(k) = W(k) + 1 \/ V(k) + 1 = W(k)
  <2>1. n % block[k] # 0 /\ n % block[k + 1] = 0 /\ k \in Dims(shape)
    BY <1>0, <1>5
  <2>2. /\ Sweep(n - 1, shape, k) = Sweep(n, shape, k)
        /\ Sweep(n - 1, shape, k + 1) = Sweep(n, shape, k + 1) - 1
    BY <1>1, <1>7, <2>1, SweepBefore
  <2>3. Digit(n - 1, shape, k) + 1 = Digit(n, shape, k)
    <3> DEFINE p == shape[k] * Sweep(n, shape, k)
    <3>1. p \in Nat
      BY <1>7, <2>1, Products
    <3> HIDE DEF p
    <3>2. /\ Sweep(n, shape, k + 1) = p + Digit(n, shape, k)
          /\ Sweep(n, shape, k + 1) - 1 = p + Digit(n - 1, shape, k)
      BY <1>7, <2>1, <2>2 DEF p
    <3> QED BY SMTT(30), <1>7, <2>1, <3>1, <3>2
  <2>4. /\ Digit(n, shape, k) \in 0..(shape[k] - 1) /\ shape[k] \in Nat
        /\ Digit(n - 1, shape, k) \in 0..(shape[k] - 1)
    BY <1>7, <2>1
  <2> QED BY <2>2, <2>3, <2>4 DEF Value, Turns
<1>10. ASSUME NEW j \in Dims(shape), k < j PROVE V(j) = W(j)
  <2>1. n % block[j] = 0 /\ n % block[j + 1] = 0
    <3>1. /\ k < j /\ k < j + 1 /\ j \in 1..(L + 1) /\ j + 1 \in 1..(L + 1)
      BY <1>0, <1>10
    <3> QED BY <1>6, <3>1
  <2>2. /\ Sweep(n - 1, shape, j) = Sweep(n, shape, j) - 1
        /\ Sweep(n - 1, shape, j + 1) = Sweep(n, shape, j + 1) - 1
    <3>1. n \in Nat \ {0} /\ j \in 1..(Len(shape) + 1) /\ j + 1 \in 1..(Len(shape) + 1)
      BY <1>0, <1>1
    <3>2. n % SweepBlock(shape)[j] = 0 /\ n % SweepBlock(shape)[j + 1] = 0
      BY <2>1
    <3>3. Sweep(n - 1, shape, j) = Sweep(n, shape, j) - 1
      BY <3>1, <3>2, SweepBefore
    <3>4. Sweep(n - 1, shape, j + 1) = Sweep(n, shape, j + 1) - 1
      BY <3>1, <3>2, SweepBefore
    <3> QED BY <3>3, <3>4
  <2>3. Digit(n, shape, j) = 0
    <3>1. /\ block[j + 1] \in Nat \ {0} /\ shape[j] \in Nat \ {0}
          /\ block[j] = shape[j] * block[j + 1]
      BY BlockAt
    <3>2. ASSUME NEW a \in Nat \ {0}, NEW b \in Nat \ {0}, n % (a * b) = 0
          PROVE  (n \div b) % a = 0
      <4> DEFINE q == n \div (a * b)
      <4>0. \A x, y \in Nat \ {0} : x * y \in Nat \ {0}
        OBVIOUS
      <4>1. q \in Nat /\ n = (a * b) * q
        BY <1>1, <3>2, <4>0, Divides
      <4> HIDE DEF q
      <4>2. a * q \in Nat /\ n = b * (a * q) + 0
        BY <4>1
      <4>3. ASSUME NEW p \in Nat, NEW c \in Nat \ {0}
            PROVE  (c * p + 0) \div c = p /\ (c * p + 0) % c = 0
        OBVIOUS
      <4>4. n \div b = a * q /\ a * q = a * q + 0
        BY SMTT(30), <4>2, <4>3
      <4> QED BY <4>1, <4>3, <4>4
    <3> HIDE DEF block
    <3> QED BY <2>1, <3>1, <3>2 DEF Digit, block
  <2>4. Digit(n - 1, shape, j) = shape[j] - 1
    <3> DEFINE s == shape[j]
               p == Sweep(n, shape, j)
               d == Digit(n - 1, shape, j)
    <3>1. /\ s \in Nat \ {0} /\ p \in Nat /\ p - 1 \in Nat /\ d \in 0..(s - 1)
          /\ s * p - 1 = s * (p - 1) + d
      <4>1. s \in Nat \ {0} /\ p \in Nat /\ d \in 0..(s - 1)
        BY <1>7
      <4>2. p - 1 \in Nat
        BY <1>7, <2>2
      <4>3. Sweep(n, shape, j + 1) = s * p
        <5>1. s * p \in Nat
          BY <4>1, Products
        <5> QED BY SMTT(30), <1>7, <2>3, <5>1
      <4>4. Sweep(n - 1, shape, j + 1) = s * (p - 1) + d
        BY <1>7, <2>2
      <4> QED BY <2>2, <4>1, <4>2, <4>3, <4>4
    <3> HIDE DEF s, p, d
    <3>2. s * p = s * (p - 1) + s /\ s * (p - 1) \in Nat
      BY <3>1
    <3>3. d = s - 1
      BY <3>1, <3>2
    <3> QED BY <3>3 DEF d, s
  <2>5. flags[j] /\ j > 1
    BY <1>0, <1>10
  <2>6. Sweep(n, shape, j) % 2 = 1 <=> ~(Sweep(n - 1, shape, j) % 2 = 1)
    <3> DEFINE p == Sweep(n, shape, j)
    <3>1. p \in Nat /\ p - 1 \in Nat
      BY <1>7, <2>2
    <3> HIDE DEF p
    <3>2. p % 2 = 1 <=> ~((p - 1) % 2 = 1)
      BY <3>1
    <3> QED BY <2>2, <3>2 DEF p
  <2>7. shape[j] \in Nat \ {0}
    BY <1>7
  <2> QED BY <2>3, <2>4, <2>5, <2>6, <2>7 DEF Value, Turns
<1>11. \A j \in Dims(shape) \ {k} : j < k \/ k < j
  BY <1>0
<1> HIDE DEF V, W
<1> QED BY <1>2, <1>4, <1>8, <1>9, <1>10, <1>11

=============================================================================
