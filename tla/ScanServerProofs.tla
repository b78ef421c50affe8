-------------------------- MODULE ScanServerProofs --------------------------
(***************************************************************************)
(* Proofs about ScanServer, for every number of scans, of scans in one     *)
(* request and of questions, with and without instruments, and whether or  *)
(* not the joins of a shutdown time out.                                   *)
(***************************************************************************)
EXTENDS ScanServer, SequenceTheorems, TLAPS

-----------------------------------------------------------------------------
(* Lists of scans, element by element *)

\* Splicing scans in at place p: those before p stay, those from p on move up.
LEMMA SplicedScans ==
  ASSUME NEW S, NEW s \in Seq(S), NEW new \in Seq(S), NEW p \in 1 .. Len(s) + 1
  PROVE  /\ Spliced(s, p, new) \in Seq(S)
         /\ Len(Spliced(s, p, new)) = Len(s) + Len(new)
         /\ \A i \in 1 .. Len(s) + Len(new) :
              Spliced(s, p, new)[i] = IF i < p THEN s[i]
                                      ELSE IF i < p + Len(new) THEN new[i - p + 1]
                                      ELSE s[i - Len(new)]
<1> DEFINE a == SubSeq(s, 1, p - 1)
           b == SubSeq(s, p, Len(s))
<1>0. Len(s) \in Nat /\ Len(new) \in Nat /\ p \in Nat
  BY LenProperties
<1>1. /\ a \in Seq(S) /\ Len(a) = p - 1
      /\ \A i \in 1 .. p - 1 : a[i] = s[i]
  <2>1. \A i \in 1 .. p - 1 : s[i] \in S
    BY <1>0, ElementOfSeq
  <2> QED BY <1>0, <2>1, SubSeqProperties
<1>2. /\ b \in Seq(S) /\ Len(b) = Len(s) - p + 1
      /\ \A i \in 1 .. Len(s) - p + 1 : b[i] = s[p + i - 1]
  <2>1. \A i \in p .. Len(s) : s[i] \in S
    BY <1>0, ElementOfSeq
  <2> QED BY <1>0, <2>1, SubSeqProperties
<1> DEFINE c == a \o new
           d == c \o b
<1> HIDE DEF a, b
<1>3. /\ c \in Seq(S) /\ Len(c) = p - 1 + Len(new)
      /\ \A i \in 1 .. p - 1 + Len(new) :
           c[i] = IF i <= p - 1 THEN a[i] ELSE new[i - (p - 1)]
  <2>1. /\ c \in Seq(S)
        /\ Len(c) = Len(a) + Len(new)
        /\ \A i \in 1 .. Len(a) + Len(new) :
             c[i] = IF i <= Len(a) THEN a[i] ELSE new[i - Len(a)]
    BY <1>1, ConcatProperties
  <2> QED BY <1>1, <2>1
<1> HIDE DEF c
<1>4. /\ d \in Seq(S)
      /\ Len(d) = Len(s) + Len(new)
      /\ \A i \in 1 .. Len(s) + Len(new) :
           d[i] = IF i <= p - 1 + Len(new) THEN c[i]
                  ELSE b[i - (p - 1 + Len(new))]
  <2>1. /\ d \in Seq(S)
        /\ Len(d) = Len(c) + Len(b)
        /\ \A i \in 1 .. Len(c) + Len(b) :
             d[i] = IF i <= Len(c) THEN c[i] ELSE b[i - Len(c)]
    BY <1>2, <1>3, ConcatProperties
  <2>2. Len(c) + Len(b) = Len(s) + Len(new)
    BY <1>0, <1>2, <1>3
  <2> QED BY <1>3, <2>1, <2>2
<1>5. Spliced(s, p, new) = d
  BY DEF Spliced, a, b, c
<1> HIDE DEF d
<1>6. ASSUME NEW i \in 1 .. Len(s) + Len(new)
      PROVE  d[i] = IF i < p THEN s[i]
                    ELSE IF i < p + Len(new) THEN new[i - p + 1]
                    ELSE s[i - Len(new)]
  <2>1. CASE i < p
    <3>1. i <= p - 1 + Len(new) /\ i <= p - 1 /\ i \in 1 .. p - 1
          /\ i \in 1 .. p - 1 + Len(new)
      BY <2>1, <1>0
    <3>2. d[i] = c[i] /\ c[i] = a[i] /\ a[i] = s[i]
      BY <3>1, <1>1, <1>3, <1>4
    <3> QED BY <2>1, <3>2
  <2>2. CASE ~(i < p) /\ i < p + Len(new)
    <3>1. i <= p - 1 + Len(new) /\ ~(i <= p - 1)
          /\ i \in 1 .. p - 1 + Len(new) /\ i - (p - 1) = i - p + 1
      BY <2>2, <1>0
    <3>2. d[i] = c[i] /\ c[i] = new[i - (p - 1)]
      BY <3>1, <1>3, <1>4
    <3> QED BY <2>2, <3>1, <3>2
  <2>3. CASE ~(i < p + Len(new))
    <3>1. ~(i <= p - 1 + Len(new)) /\ ~(i < p)
          /\ i - (p - 1 + Len(new)) \in 1 .. Len(s) - p + 1
          /\ p + (i - (p - 1 + Len(new))) - 1 = i - Len(new)
      BY <2>3, <1>0
    <3>2. d[i] = b[i - (p - 1 + Len(new))]
      BY <3>1, <1>4
    <3>3. b[i - (p - 1 + Len(new))] = s[p + (i - (p - 1 + Len(new))) - 1]
      BY <1>2, <3>1
    <3> QED BY <2>3, <3>1, <3>2, <3>3
  <2> QED BY <2>1, <2>2, <2>3
<1> QED BY <1>4, <1>5, <1>6

\* Taking out place k: those behind it move down.
LEMMA RemovedScan ==
  ASSUME NEW S, NEW s \in Seq(S), NEW k \in 1 .. Len(s)
  PROVE  /\ RemoveAt(s, k) \in Seq(S)
         /\ Len(RemoveAt(s, k)) = Len(s) - 1
         /\ \A i \in 1 .. Len(s) - 1 :
              RemoveAt(s, k)[i] = IF i < k THEN s[i] ELSE s[i + 1]
<1> DEFINE a == SubSeq(s, 1, k - 1)
           b == SubSeq(s, k + 1, Len(s))
<1>0. Len(s) \in Nat /\ k \in Nat
  BY LenProperties
<1>1. /\ a \in Seq(S) /\ Len(a) = k - 1
      /\ \A i \in 1 .. k - 1 : a[i] = s[i]
  <2>1. \A i \in 1 .. k - 1 : s[i] \in S
    BY <1>0, ElementOfSeq
  <2> QED BY <1>0, <2>1, SubSeqProperties
<1>2. /\ b \in Seq(S) /\ Len(b) = Len(s) - k
      /\ \A i \in 1 .. Len(s) - k : b[i] = s[k + i]
  <2>1. \A i \in k + 1 .. Len(s) : s[i] \in S
    BY <1>0, ElementOfSeq
  <2>2. /\ b \in Seq(S) /\ Len(b) = IF k + 1 <= Len(s) THEN Len(s) - (k + 1) + 1 ELSE 0
        /\ \A i \in 1 .. Len(s) - (k + 1) + 1 : b[i] = s[k + 1 + i - 1]
    BY <1>0, <2>1, SubSeqProperties
  <2>3. \A i \in 1 .. Len(s) - k : i \in 1 .. Len(s) - (k + 1) + 1 /\ k + 1 + i - 1 = k + i
    BY <1>0
  <2> HIDE DEF b
  <2>4. \A i \in 1 .. Len(s) - k : b[i] = s[k + i]
    <3> TAKE i \in 1 .. Len(s) - k
    <3>1. b[i] = s[k + 1 + i - 1]
      BY <2>2, <2>3
    <3> QED BY <2>3, <3>1
  <2> QED BY <1>0, <2>2, <2>4
<1> DEFINE d == a \o b
<1> HIDE DEF a, b
<1>3. /\ d \in Seq(S) /\ Len(d) = Len(s) - 1
      /\ \A i \in 1 .. Len(s) - 1 :
           d[i] = IF i <= k - 1 THEN a[i] ELSE b[i - (k - 1)]
  <2>1. /\ d \in Seq(S)
        /\ Len(d) = Len(a) + Len(b)
        /\ \A i \in 1 .. Len(a) + Len(b) :
             d[i] = IF i <= Len(a) THEN a[i] ELSE b[i - Len(a)]
    BY <1>1, <1>2, ConcatProperties
  <2>2. Len(a) + Len(b) = Len(s) - 1
    BY <1>0, <1>1, <1>2
  <2> QED BY <1>1, <2>1, <2>2
<1>4. RemoveAt(s, k) = d
  BY DEF RemoveAt, a, b
<1> HIDE DEF d
<1>5. ASSUME NEW i \in 1 .. Len(s) - 1
      PROVE  d[i] = IF i < k THEN s[i] ELSE s[i + 1]
  <2>1. CASE i < k
    <3>1. i <= k - 1 /\ i \in 1 .. k - 1
      BY <2>1, <1>0
    <3>2. d[i] = a[i] /\ a[i] = s[i]
      BY <3>1, <1>1, <1>3
    <3> QED BY <2>1, <3>2
  <2>2. CASE ~(i < k)
    <3>1. ~(i <= k - 1) /\ i - (k - 1) \in 1 .. Len(s) - k
          /\ k + (i - (k - 1)) = i + 1
      BY <2>2, <1>0
    <3>2. d[i] = b[i - (k - 1)]
      BY <3>1, <1>3
    <3> QED BY <2>2, <3>1, <3>2, <1>2
  <2> QED BY <2>1, <2>2
<1> QED BY <1>3, <1>4, <1>5

\* Putting one scan in at a place.
LEMMA InsertedScan ==
  ASSUME NEW S, NEW s \in Seq(S), NEW x \in S, NEW to \in 1 .. Len(s) + 1
  PROVE  /\ InsertAt(s, to, x) \in Seq(S)
         /\ Len(InsertAt(s, to, x)) = Len(s) + 1
         /\ \A i \in 1 .. Len(s) + 1 :
              InsertAt(s, to, x)[i] = IF i < to THEN s[i]
                                      ELSE IF i = to THEN x ELSE s[i - 1]
<1> DEFINE e == <<x>>
           d == Spliced(s, to, e)
<1>0. Len(s) \in Nat /\ to \in Nat
  BY LenProperties
<1>1. e \in Seq(S) /\ Len(e) = 1 /\ e[1] = x
  OBVIOUS
<1>2. InsertAt(s, to, x) = d
  BY DEF InsertAt, Spliced
<1> HIDE DEF e
<1>3. /\ d \in Seq(S)
      /\ Len(d) = Len(s) + Len(e)
      /\ \A i \in 1 .. Len(s) + Len(e) :
           d[i] = IF i < to THEN s[i]
                  ELSE IF i < to + Len(e) THEN e[i - to + 1]
                  ELSE s[i - Len(e)]
  BY <1>1, SplicedScans
<1> HIDE DEF d
<1>4. ASSUME NEW i \in 1 .. Len(s) + 1
      PROVE  d[i] = IF i < to THEN s[i] ELSE IF i = to THEN x ELSE s[i - 1]
  <2>1. CASE i < to
    BY <2>1, <1>0, <1>1, <1>3
  <2>2. CASE i = to
    <3>1. d[i] = e[i - to + 1] /\ i - to + 1 = 1
      BY <2>2, <1>0, <1>1, <1>3
    <3> QED BY <1>0, <1>1, <2>2, <3>1
  <2>3. CASE to < i
    BY <2>3, <1>0, <1>1, <1>3
  <2> QED BY <1>0, <2>1, <2>2, <2>3
<1> QED BY <1>1, <1>2, <1>3, <1>4

\* No scan twice.
Unique(s) == \A i, j \in 1 .. Len(s) : s[i] = s[j] => i = j

\* m differs from s behind place q only, has no scan twice, and the scans it
\* has behind q are those of s behind q, or new ones.
BehindOnly(m, s, new, q) ==
  /\ Unique(m)
  /\ q <= Len(m)
  /\ \A i \in 1 .. q : m[i] = s[i]
  /\ \A i \in 1 .. Len(m) : i > q =>
       \/ \E j \in 1 .. Len(s) : j > q /\ m[i] = s[j]
       \/ \E j \in 1 .. Len(new) : m[i] = new[j]

LEMMA SplicedBehind ==
  ASSUME NEW S, NEW s \in Seq(S), NEW new \in Seq(S), NEW p \in 1 .. Len(s) + 1,
         NEW q \in Nat, q < p, Unique(s), Unique(new),
         \A i \in 1 .. Len(s) : \A j \in 1 .. Len(new) : s[i] # new[j],
         NEW m, m = Spliced(s, p, new)
  PROVE  m \in Seq(S) /\ BehindOnly(m, s, new, q)
<1>0. Len(s) \in Nat /\ Len(new) \in Nat /\ p \in Nat
  BY LenProperties
<1>1. /\ m \in Seq(S) /\ Len(m) = Len(s) + Len(new)
      /\ \A i \in 1 .. Len(s) + Len(new) :
           m[i] = IF i < p THEN s[i]
                  ELSE IF i < p + Len(new) THEN new[i - p + 1]
                  ELSE s[i - Len(new)]
  BY ZenonT(60), SplicedScans
<1>2. ASSUME NEW i \in 1 .. Len(m)
      PROVE  \/ i < p /\ i \in 1 .. Len(s) /\ m[i] = s[i]
             \/ /\ p <= i /\ i < p + Len(new) /\ i - p + 1 \in 1 .. Len(new)
                /\ m[i] = new[i - p + 1]
             \/ /\ p + Len(new) <= i /\ i - Len(new) \in 1 .. Len(s)
                /\ i - Len(new) >= p /\ m[i] = s[i - Len(new)]
  BY <1>0, <1>1
<1>3. \A i \in 1 .. Len(m) : i > q =>
        \/ \E j \in 1 .. Len(s) : j > q /\ m[i] = s[j]
        \/ \E j \in 1 .. Len(new) : m[i] = new[j]
  <2> TAKE i \in 1 .. Len(m)
  <2> HAVE i > q
  <2>1. CASE i < p /\ i \in 1 .. Len(s) /\ m[i] = s[i]
    BY <2>1
  <2>2. CASE i - p + 1 \in 1 .. Len(new) /\ m[i] = new[i - p + 1]
    BY <2>2
  <2>3. CASE /\ i - Len(new) \in 1 .. Len(s) /\ i - Len(new) >= p
             /\ m[i] = s[i - Len(new)]
    BY <1>0, <2>3
  <2> QED BY <1>2, <2>1, <2>2, <2>3
<1>4. ASSUME NEW i \in 1 .. Len(m), NEW j \in 1 .. Len(m), m[i] = m[j] PROVE i = j
  <2>1. CASE p <= i /\ i < p + Len(new) /\ p <= j /\ j < p + Len(new)
    <3>1. i - p + 1 \in 1 .. Len(new) /\ j - p + 1 \in 1 .. Len(new)
          /\ new[i - p + 1] = new[j - p + 1]
      BY SMTT(60), <1>0, <1>2, <1>4, <2>1
    <3>2. i - p + 1 = j - p + 1
      BY <3>1 DEF Unique
    <3> QED BY <1>0, <3>2
  <2>2. CASE ~(p <= i /\ i < p + Len(new)) /\ ~(p <= j /\ j < p + Len(new))
    <3> DEFINE a == IF i < p THEN i ELSE i - Len(new)
               b == IF j < p THEN j ELSE j - Len(new)
    <3>1. a \in 1 .. Len(s) /\ m[i] = s[a]
      <4>1. CASE i < p
        BY <1>0, <1>2, <2>2, <4>1
      <4>2. CASE ~(i < p)
        BY <1>0, <1>2, <2>2, <4>2
      <4> QED BY <4>1, <4>2
    <3>2. b \in 1 .. Len(s) /\ m[j] = s[b]
      <4>1. CASE j < p
        BY <1>0, <1>2, <2>2, <4>1
      <4>2. CASE ~(j < p)
        BY <1>0, <1>2, <2>2, <4>2
      <4> QED BY <4>1, <4>2
    <3>3. a = b => i = j
      BY <1>0, <2>2
    <3> HIDE DEF a, b
    <3> QED BY <1>4, <3>1, <3>2, <3>3 DEF Unique
  <2>3. CASE (p <= i /\ i < p + Len(new)) /\ ~(p <= j /\ j < p + Len(new))
    <3>1. i - p + 1 \in 1 .. Len(new) /\ m[i] = new[i - p + 1]
      BY <1>0, <1>2, <2>3
    <3>2. \E a \in 1 .. Len(s) : m[j] = s[a]
      BY <1>0, <1>2, <2>3
    <3> QED BY <1>4, <3>1, <3>2
  <2>4. CASE ~(p <= i /\ i < p + Len(new)) /\ (p <= j /\ j < p + Len(new))
    <3>1. j - p + 1 \in 1 .. Len(new) /\ m[j] = new[j - p + 1]
      BY <1>0, <1>2, <2>4
    <3>2. \E a \in 1 .. Len(s) : m[i] = s[a]
      BY <1>0, <1>2, <2>4
    <3> QED BY <1>4, <3>1, <3>2
  <2> QED BY <2>1, <2>2, <2>3, <2>4
<1>5. q <= Len(m) /\ \A i \in 1 .. q : m[i] = s[i]
  BY <1>0, <1>1
<1> QED BY <1>1, <1>3, <1>4, <1>5 DEF BehindOnly, Unique

LEMMA RemovedBehind ==
  ASSUME NEW S, NEW s \in Seq(S), NEW k \in 1 .. Len(s), NEW q \in Nat, q < k,
         Unique(s), NEW m, m = RemoveAt(s, k)
  PROVE  m \in Seq(S) /\ BehindOnly(m, s, <<>>, q)
<1>0. Len(s) \in Nat /\ k \in Nat
  BY LenProperties
<1>1. /\ m \in Seq(S) /\ Len(m) = Len(s) - 1
      /\ \A i \in 1 .. Len(s) - 1 : m[i] = IF i < k THEN s[i] ELSE s[i + 1]
  BY RemovedScan
<1> DEFINE from(i) == IF i < k THEN i ELSE i + 1
<1>2. \A i \in 1 .. Len(m) : from(i) \in 1 .. Len(s) /\ m[i] = s[from(i)]
  BY <1>0, <1>1
<1>3. \A i \in 1 .. Len(m) : i > q => from(i) > q
  BY <1>0, <1>1
<1>4. \A i, j \in 1 .. Len(m) : from(i) = from(j) => i = j
  BY <1>0, <1>1
<1>5. q <= Len(m) /\ \A i \in 1 .. q : m[i] = s[i]
  BY <1>0, <1>1
<1> HIDE DEF from
<1>6. Unique(m)
  BY <1>2, <1>4 DEF Unique
<1>7. \A i \in 1 .. Len(m) : i > q => \E j \in 1 .. Len(s) : j > q /\ m[i] = s[j]
  BY <1>2, <1>3
<1> QED BY <1>1, <1>5, <1>6, <1>7 DEF BehindOnly

LEMMA MovedBehind ==
  ASSUME NEW S, NEW s \in Seq(S), NEW k \in 1 .. Len(s), NEW to \in 1 .. Len(s),
         NEW q \in Nat, q < k, q < to, Unique(s),
         NEW m, m = InsertAt(RemoveAt(s, k), to, s[k])
  PROVE  m \in Seq(S) /\ BehindOnly(m, s, <<>>, q)
<1> DEFINE r == RemoveAt(s, k)
           x == s[k]
<1>0. Len(s) \in Nat /\ k \in Nat /\ to \in Nat
  BY LenProperties
<1>1. /\ r \in Seq(S) /\ Len(r) = Len(s) - 1
      /\ \A i \in 1 .. Len(s) - 1 : r[i] = IF i < k THEN s[i] ELSE s[i + 1]
  BY RemovedScan
<1>2. x \in S
  BY ElementOfSeq
<1>3. m = InsertAt(r, to, x)
  OBVIOUS
<1> HIDE DEF r, x
<1>4. /\ m \in Seq(S) /\ Len(m) = Len(s)
      /\ \A i \in 1 .. Len(s) :
           m[i] = IF i < to THEN r[i] ELSE IF i = to THEN x ELSE r[i - 1]
  <2>1. to \in 1 .. Len(r) + 1 /\ Len(r) + 1 = Len(s)
    BY <1>0, <1>1
  <2> DEFINE n == InsertAt(r, to, x)
  <2>2. /\ n \in Seq(S) /\ Len(n) = Len(r) + 1
        /\ \A i \in 1 .. Len(r) + 1 :
             n[i] = IF i < to THEN r[i] ELSE IF i = to THEN x ELSE r[i - 1]
    BY <1>1, <1>2, <2>1, InsertedScan
  <2>3. m = n
    BY <1>3
  <2> HIDE DEF n
  <2> QED BY <2>1, <2>2, <2>3
<1>5. ASSUME NEW i \in 1 .. Len(s)
      PROVE  m[i] = IF i = to THEN x
                    ELSE IF i < to THEN (IF i < k THEN s[i] ELSE s[i + 1])
                    ELSE (IF i - 1 < k THEN s[i - 1] ELSE s[i])
  <2>1. CASE i = to
    BY <2>1, <1>0, <1>4
  <2>2. CASE i < to
    <3>1. i \in 1 .. Len(s) - 1 /\ m[i] = r[i] /\ i # to
      BY <2>2, <1>0, <1>4
    <3> QED BY <2>2, <3>1, <1>1
  <2>3. CASE to < i
    <3>1. i - 1 \in 1 .. Len(s) - 1 /\ m[i] = r[i - 1] /\ i # to /\ ~(i < to)
      BY <2>3, <1>0, <1>4
    <3>2. (i - 1) + 1 = i
      BY <1>0
    <3> QED BY <2>3, <3>1, <3>2, <1>1
  <2> QED BY <1>0, <2>1, <2>2, <2>3
<1>x. x = s[k]
  BY DEF x
<1> DEFINE from(i) == IF i = to THEN k
                      ELSE IF i < to THEN (IF i < k THEN i ELSE i + 1)
                      ELSE (IF i - 1 < k THEN i - 1 ELSE i)
<1>6. \A i \in 1 .. Len(m) : from(i) \in 1 .. Len(s) /\ m[i] = s[from(i)]
  BY <1>0, <1>4, <1>5, <1>x
<1>7. \A i \in 1 .. Len(m) : i > q => from(i) > q
  BY <1>0, <1>4, <1>5
<1>8. \A i, j \in 1 .. Len(m) : from(i) = from(j) => i = j
  BY <1>0, <1>4, <1>5
<1>9. q <= Len(m) /\ \A i \in 1 .. q : m[i] = s[i]
  BY <1>0, <1>4, <1>5
<1> HIDE DEF from
<1>10. Unique(m)
  BY <1>6, <1>8 DEF Unique
<1>11. \A i \in 1 .. Len(m) : i > q => \E j \in 1 .. Len(s) : j > q /\ m[i] = s[j]
  BY <1>6, <1>7
<1> QED BY <1>4, <1>9, <1>10, <1>11 DEF BehindOnly

-----------------------------------------------------------------------------
(* The invariant *)

\* The engine, or what leads to it, has the scan.
Working == InScan \ {"judged"}

\* The runner thread is there exactly while the server is busy.
Attached == srv.busy <=> runner.pc # "none"

\* The position is in the list; a scan that runs has no result yet, one that
\* ended and those before it have one.
InPlace ==
  /\ srv.qi \in 0 .. Len(srv.entries)
  /\ runner.pc \in Working => srv.result[runner.scan] = "none"
  /\ runner.pc = "ended" => srv.result[runner.scan] # "none"
  /\ runner.pc = "pick" =>
       \A k \in 1 .. srv.qi : srv.result[srv.entries[k]] # "none"

\* A number not yet handed out is nobody's; the scans of a request that is
\* being validated are new, and nowhere else.
NewNames ==
  /\ \A e \in Scans : e >= srv.nextId => srv.result[e] = "none" /\ e \notin pressed
  /\ \A k \in 1 .. Len(srv.entries) : srv.entries[k] < srv.nextId
  /\ cmd.verb \in {"submit", "add"} =>
       \A k \in 1 .. Len(cmd.scans) :
         /\ cmd.scans[k] < srv.nextId
         /\ srv.result[cmd.scans[k]] = "none"
         /\ cmd.scans[k] \notin pressed
         /\ \A j \in 1 .. Len(srv.entries) : srv.entries[j] # cmd.scans[k]
         /\ \A j \in 1 .. Len(cmd.scans) : cmd.scans[j] = cmd.scans[k] => j = k

\* The Abort flag is up exactly when the running scan was pressed; no scan of
\* the line was; and an end that says "Abort" saw the flag.
FlagIsForTheScan ==
  /\ runner.pc \in Working => (srv.abort <=> runner.scan \in pressed)
  /\ \A k \in 1 .. Len(srv.entries) : k > srv.qi => srv.entries[k] \notin pressed
  /\ runner.pc \in {"after", "askingAfter", "judge"} =>
       /\ runner.how # "none"
       /\ runner.how \in {"aborted", "cut"} => srv.abort

\* What the runner has found of the flag stands, whatever is pressed after it: a
\* verdict that the result may still wait for, or that it has already.
VerdictStands ==
  runner.pc = "judged" =>
    /\ runner.verdict \in {"done", "aborted", "error"}
    /\ runner.verdict = "done" => runner.scan \notin pressed
    /\ runner.verdict = "aborted" => runner.scan \in pressed \cup srv.stoppedBySelf
    /\ srv.result[runner.scan] \in {"none", runner.verdict}

\* While the queue goes on, nothing before the current scan failed.
Unbroken ==
  /\ runner.pc \in InScan \cup {"ended", "pick"} =>
       \A k \in 1 .. srv.qi - 1 : srv.result[srv.entries[k]] # "error"
  /\ runner.pc = "none" => runner.how = "none"
  /\ runner.pc = "pick" =>
       /\ runner.how # "stoppedAll"
       /\ \A k \in 1 .. srv.qi : srv.result[srv.entries[k]] # "error"

\* A queue that ended by itself is closed, and everything in it was run.
RanDry ==
  runner.pc \in {"none", "ending", "closing"} /\ ~srv.stopping /\ ~srv.lastError =>
    /\ ~srv.open
    /\ \A k \in 1 .. Len(srv.entries) : srv.result[srv.entries[k]] # "none"

IInv ==
  /\ TypeOK /\ Attached /\ InPlace /\ NewNames /\ FlagIsForTheScan
  /\ VerdictStands /\ Unbroken /\ RanDry
  /\ CurrentIsRunning /\ NeitherTwiceNorSkipped /\ AbortHitsItsScan

-----------------------------------------------------------------------------
(* Facts every step uses *)

\* A scan in the runner's hands is a scan of the list, at the position.
LEMMA RunningScan ==
  ASSUME TypeOK, CurrentIsRunning, runner.pc \in InScan \cup {"ended"}
  PROVE  /\ srv.busy
         /\ srv.qi \in 1 .. Len(srv.entries)
         /\ srv.entries[srv.qi] = runner.scan
         /\ runner.scan \in Scans
<1>1. srv.entries \in Seq(Scans)
  BY DEF TypeOK, Servers
<1>2. srv.busy /\ srv.qi \in DOMAIN srv.entries /\ srv.entries[srv.qi] = runner.scan
  BY DEF CurrentIsRunning
<1> QED BY <1>1, <1>2, LenProperties, ElementOfSeq

\* The elements of the list, and their results.
LEMMA ListFacts ==
  ASSUME TypeOK
  PROVE  /\ srv.entries \in Seq(Scans)
         /\ Len(srv.entries) \in Nat
         /\ DOMAIN srv.entries = 1 .. Len(srv.entries)
         /\ \A k \in 1 .. Len(srv.entries) :
              srv.entries[k] \in Scans /\ srv.entries[k] \in Nat
<1>1. srv.entries \in Seq(Scans)
  BY DEF TypeOK, Servers
<1>2. \A k \in 1 .. Len(srv.entries) : srv.entries[k] \in Scans
  BY <1>1, ElementOfSeq
<1> QED BY <1>1, <1>2, LenProperties, BoundsAssumption DEF Scans

-----------------------------------------------------------------------------
(* Steps of the engine inside a scan *)

\* What a step between two stages of a scan may change.
MovesTo(to, how, q, b) ==
  /\ runner' = [runner EXCEPT !.pc = to, !.how = how, !.question = q, !.box = b]
  /\ to \in {"after", "askingAfter", "judge"} =>
       how # "none" /\ (how \in {"aborted", "cut"} => srv.abort)

EngineStep ==
  /\ runner.pc \in Working
  /\ \E to \in Working, how \in Ends, q \in 0 .. MaxQuestions,
        b \in Answers \cup {"none"} : MovesTo(to, how, q, b)
  /\ \E f, a \in BOOLEAN : srv' = [srv EXCEPT !.faults = f, !.ask = a]
  /\ lab' \in [hook : BOOLEAN, tails : Nat]
  /\ UNCHANGED <<cmd, serving, pressed>>

\* Such a step keeps the invariant.
LEMMA EngineStepKeeps == ASSUME IInv, EngineStep PROVE IInv'
<1> USE DEF IInv
<1>1. PICK to \in Working, how \in Ends, q \in 0 .. MaxQuestions,
           b \in Answers \cup {"none"} : MovesTo(to, how, q, b)
  BY DEF EngineStep
<1>2. PICK f \in BOOLEAN, a \in BOOLEAN : srv' = [srv EXCEPT !.faults = f, !.ask = a]
  BY DEF EngineStep
<1>3. runner' \in Runners
  BY <1>1 DEF TypeOK, Runners, MovesTo, Working, InScan
<1>4. srv' \in Servers
  BY <1>2 DEF TypeOK, Servers
<1>5. /\ runner'.pc = to /\ runner'.how = how /\ runner'.scan = runner.scan
  BY <1>1 DEF TypeOK, Runners, MovesTo
<1>6. /\ srv'.entries = srv.entries /\ srv'.qi = srv.qi /\ srv'.busy = srv.busy
      /\ srv'.result = srv.result /\ srv'.abort = srv.abort
      /\ srv'.nextId = srv.nextId /\ srv'.stoppedBySelf = srv.stoppedBySelf
  BY <1>2 DEF TypeOK, Servers
<1>7. UNCHANGED <<cmd, serving, pressed>> /\ runner.pc \in Working /\ runner'.pc \in Working
  BY <1>5 DEF EngineStep, Working, InScan
<1>8. TypeOK'
  BY <1>3, <1>4, <1>7 DEF TypeOK, EngineStep
<1>9. srv.busy /\ srv.qi \in DOMAIN srv.entries /\ srv.entries[srv.qi] = runner.scan
  BY <1>7 DEF CurrentIsRunning, Working
<1>10. Attached' /\ CurrentIsRunning'
  BY <1>5, <1>6, <1>9 DEF Attached, CurrentIsRunning, Working, InScan, Scanning,
                          Asking
<1>11. InPlace'
  BY <1>5, <1>6, <1>7 DEF InPlace, Working, InScan, Scanning, Asking
<1>12. NewNames' /\ NeitherTwiceNorSkipped' /\ AbortHitsItsScan'
  BY <1>6, <1>7 DEF NewNames, NeitherTwiceNorSkipped, AbortHitsItsScan
<1>13. FlagIsForTheScan' /\ VerdictStands'
  BY <1>1, <1>5, <1>6, <1>7 DEF FlagIsForTheScan, VerdictStands, MovesTo, Working
<1>14. Unbroken' /\ RanDry'
  BY <1>5, <1>6, <1>7 DEF Unbroken, RanDry, Working, InScan, Scanning, Asking
<1> QED BY <1>8, <1>10, <1>11, <1>12, <1>13, <1>14

\* Engine(from, to, how) is such a step.
LEMMA EngineMoves ==
  ASSUME TypeOK, NEW from, NEW to \in Working, NEW how \in Ends,
         from \subseteq Working, Engine(from, to, how),
         to \in {"after", "askingAfter", "judge"} =>
           how # "none" /\ (how \in {"aborted", "cut"} => srv.abort),
         \E f, a \in BOOLEAN : srv' = [srv EXCEPT !.faults = f, !.ask = a]
  PROVE  EngineStep
<1>1. MovesTo(to, how, runner.question, "none")
  BY DEF Engine, TypeOK, Runners, MovesTo
<1>2. runner.question \in 0 .. MaxQuestions /\ "none" \in Answers \cup {"none"}
  BY DEF TypeOK, Runners
<1>3. UNCHANGED <<cmd, lab, serving, pressed>> /\ runner.pc \in Working
  BY DEF Engine
<1>4. lab' \in [hook : BOOLEAN, tails : Nat]
  BY <1>3 DEF TypeOK
<1> QED BY <1>1, <1>2, <1>3, <1>4 DEF EngineStep

\* The three ways the server's part of the state goes with it.
LEMMA Banners ==
  ASSUME TypeOK
  PROVE  /\ UNCHANGED srv =>
              \E f, a \in BOOLEAN : srv' = [srv EXCEPT !.faults = f, !.ask = a]
         /\ \A b \in BOOLEAN : srv' = [srv EXCEPT !.faults = b] =>
              \E f, a \in BOOLEAN : srv' = [srv EXCEPT !.faults = f, !.ask = a]
         /\ \A b \in BOOLEAN : srv' = [srv EXCEPT !.ask = b] =>
              \E f, a \in BOOLEAN : srv' = [srv EXCEPT !.faults = f, !.ask = a]
<1>0. srv.faults \in BOOLEAN /\ srv.ask \in BOOLEAN
  BY DEF TypeOK, Servers
<1>1. srv = [srv EXCEPT !.faults = srv.faults, !.ask = srv.ask]
  BY DEF TypeOK, Servers
<1>2. \A b \in BOOLEAN :
        [srv EXCEPT !.faults = b] = [srv EXCEPT !.faults = b, !.ask = srv.ask]
  BY DEF TypeOK, Servers
<1>3. \A b \in BOOLEAN :
        [srv EXCEPT !.ask = b] = [srv EXCEPT !.faults = srv.faults, !.ask = b]
  BY DEF TypeOK, Servers
<1> QED BY <1>0, <1>1, <1>2, <1>3

\* The actions of the engine inside a scan.
Inside ==
  \/ Begin \/ Claimed \/ NotClaimed \/ PointsDone \/ PointsFail
  \/ Hold \/ Resumed \/ Fault \/ FaultClears \/ AskAtPoints \/ AskAfter
  \/ AnsweredContinue \/ AnsweredAbort \/ AnsweredAbortAfter
  \/ StopsBySelf \/ AfterDone \/ AfterFails \/ Noticed

LEMMA InsideIs == ASSUME IInv, Inside PROVE EngineStep
<1>0. TypeOK
  BY DEF IInv
<1>1. /\ runner.how \in Ends
      /\ runner.pc \in {"after", "askingAfter", "judge"} =>
           runner.how # "none" /\ (runner.how \in {"aborted", "cut"} => srv.abort)
  BY DEF IInv, TypeOK, Runners, FlagIsForTheScan
<1>2. CASE Begin
  <2>1. MovesTo("claiming", runner.how, runner.question, runner.box)
    BY <1>0, <1>2 DEF Begin, TypeOK, Runners, MovesTo
  <2>2. /\ runner.question \in 0 .. MaxQuestions
        /\ runner.box \in Answers \cup {"none"}
        /\ "claiming" \in Working /\ runner.pc \in Working
    BY <1>0, <1>2 DEF Begin, TypeOK, Runners, Scanning, Working, InScan
  <2>3. \E f, a \in BOOLEAN : srv' = [srv EXCEPT !.faults = f, !.ask = a]
    BY <1>0, <1>2, Banners DEF Begin
  <2>4. lab' \in [hook : BOOLEAN, tails : Nat]
    BY <1>0, <1>2, BoundsAssumption DEF Begin, TypeOK
  <2>5. UNCHANGED <<cmd, serving, pressed>>
    BY <1>2 DEF Begin
  <2> QED BY <1>1, <2>1, <2>2, <2>3, <2>4, <2>5 DEF EngineStep
<1>3. CASE Claimed \/ Hold \/ Resumed \/ Fault \/ FaultClears
  <2>1. \E f, a \in BOOLEAN : srv' = [srv EXCEPT !.faults = f, !.ask = a]
    BY <1>0, <1>3, Banners DEF Claimed, Hold, Resumed, Fault, FaultClears
  <2>2. \E from \in SUBSET Working, to \in {"points", "held", "fault"} :
          Engine(from, to, "none")
    BY <1>3 DEF Claimed, Hold, Resumed, Fault, FaultClears, Working, InScan, Scanning
  <2>3. /\ {"points", "held", "fault"} \subseteq Working /\ "none" \in Ends
        /\ \A to \in {"points", "held", "fault"} : to \notin {"after", "askingAfter", "judge"}
    BY DEF Ends, Working, InScan, Scanning
  <2> QED BY <1>0, <2>1, <2>2, <2>3, EngineMoves
<1>4. CASE NotClaimed \/ PointsDone \/ PointsFail \/ StopsBySelf
  <2>1. \E f, a \in BOOLEAN : srv' = [srv EXCEPT !.faults = f, !.ask = a]
    BY <1>0, <1>4, Banners DEF NotClaimed, PointsDone, PointsFail, StopsBySelf
  <2>2. \E from \in SUBSET Working, to \in {"judge", "after"},
           how \in {"failed", "finished", "stopped", "stoppedAll"} :
          Engine(from, to, how)
    BY <1>4 DEF NotClaimed, PointsDone, PointsFail, StopsBySelf, Working, InScan, Scanning
  <2>3. /\ {"judge", "after"} \subseteq Working
        /\ \A how \in {"failed", "finished", "stopped", "stoppedAll"} :
             how \in Ends /\ how # "none" /\ how \notin {"aborted", "cut"}
    BY DEF Ends, Working, InScan, Scanning
  <2>4. PICK from \in SUBSET Working, to \in {"judge", "after"},
             how \in {"failed", "finished", "stopped", "stoppedAll"} :
          Engine(from, to, how)
    BY <2>2
  <2>5. /\ to \in Working /\ how \in Ends /\ how # "none"
        /\ how \in {"aborted", "cut"} => srv.abort
    BY <2>3
  <2> QED BY <1>0, <2>1, <2>4, <2>5, EngineMoves
<1>5. CASE SeesAbort \/ CutShort \/ AskingCut
  <2>1. \E f, a \in BOOLEAN : srv' = [srv EXCEPT !.faults = f, !.ask = a]
    BY <1>0, <1>5, Banners DEF SeesAbort, CutShort, AskingCut, Asked
  <2>2. srv.abort /\ \E from \in SUBSET Working, how \in {"aborted", "cut"} :
                       Engine(from, "after", how)
    BY <1>5 DEF SeesAbort, CutShort, AskingCut, Working, InScan, Scanning, Asking
  <2>3. PICK from \in SUBSET Working, how \in {"aborted", "cut"} :
          Engine(from, "after", how)
    BY <2>2
  <2>4. "after" \in Working /\ how \in Ends /\ how # "none"
    BY DEF Ends, Working, InScan, Scanning
  <2> QED BY <1>0, <2>1, <2>2, <2>3, <2>4, EngineMoves
<1>6. CASE AfterDone \/ AfterFails \/ AfterCut
  <2>1. \E f, a \in BOOLEAN : srv' = [srv EXCEPT !.faults = f, !.ask = a]
    BY <1>0, <1>6, Banners DEF AfterDone, AfterFails, AfterCut, Asked
  <2>2. \E from \in SUBSET {"after", "askingAfter"}, to \in {"judge", "after"},
           how \in {"failed", "cutAfter", runner.how} :
          Engine(from, to, how)
    BY <1>6 DEF AfterDone, AfterFails, AfterCut
  <2>3. runner.pc \in {"after", "askingAfter"}
    BY <2>2 DEF Engine
  <2>4. {"after", "askingAfter"} \subseteq Working
    BY DEF Working, InScan, Scanning, Asking
  <2>5. "judge" \in Working /\ "after" \in Working
    BY DEF Working, InScan, Scanning
  <2>6. PICK from \in SUBSET {"after", "askingAfter"}, to \in {"judge", "after"},
             how \in {"failed", "cutAfter", runner.how} :
          Engine(from, to, how)
    BY <2>2
  <2>7. /\ how \in Ends /\ how # "none"
        /\ how \in {"aborted", "cut"} => srv.abort
    BY <1>1, <2>3 DEF Ends
  <2>8. from \subseteq Working /\ to \in Working
    BY <2>4, <2>5
  <2> QED BY <1>0, <2>1, <2>6, <2>7, <2>8, EngineMoves
<1>7. CASE AskAtPoints \/ AskAfter
  <2>1. PICK from \in {"points", "after"}, to \in Asking :
          /\ Ask(from, to)
          /\ to = "askingAfter" => from = "after"
    BY <1>7 DEF AskAtPoints, AskAfter, Asking
  <2>2. runner' = [runner EXCEPT !.pc = to, !.how = runner.how,
                     !.question = runner.question + 1, !.box = runner.box]
    <3> DEFINE q == runner.question + 1
    <3>1. runner' = [runner EXCEPT !.pc = to, !.question = q]
      BY <2>1 DEF Ask
    <3> HIDE DEF q
    <3>2. runner' = [runner EXCEPT !.pc = to, !.how = runner.how,
                       !.question = q, !.box = runner.box]
      BY <1>0, <3>1 DEF TypeOK, Runners
    <3> QED BY <3>2 DEF q
  <2>3. /\ runner.question + 1 \in 0 .. MaxQuestions
        /\ runner.box \in Answers \cup {"none"}
        /\ to \in Working /\ runner.pc \in Working
    <3>1. runner.pc = from /\ runner.question < MaxQuestions
      BY <2>1 DEF Ask
    <3>2. runner.question \in 0 .. MaxQuestions /\ runner.box \in Answers \cup {"none"}
      BY <1>0 DEF TypeOK, Runners
    <3>3. {"points", "after"} \cup Asking \subseteq Working
      BY DEF Working, InScan, Scanning, Asking
    <3> QED BY <3>1, <3>2, <3>3, BoundsAssumption
  <2>4. \E f, a \in BOOLEAN : srv' = [srv EXCEPT !.faults = f, !.ask = a]
    BY <1>0, <2>1, Banners DEF Ask
  <2>5. to \in {"after", "askingAfter", "judge"} =>
          runner.how # "none" /\ (runner.how \in {"aborted", "cut"} => srv.abort)
    BY <1>1, <2>1 DEF Ask, Asking
  <2>6. lab' \in [hook : BOOLEAN, tails : Nat] /\ UNCHANGED <<cmd, serving, pressed>>
    BY <1>0, <2>1 DEF Ask, TypeOK
  <2>7. MovesTo(to, runner.how, runner.question + 1, runner.box)
    BY <2>2, <2>5 DEF MovesTo
  <2> QED BY <1>1, <2>3, <2>4, <2>6, <2>7 DEF EngineStep
<1>8. CASE AnsweredContinue \/ AnsweredAbortAfter
  <2>1. \E f, a \in BOOLEAN : srv' = [srv EXCEPT !.faults = f, !.ask = a]
    BY <1>0, <1>8, Banners DEF AnsweredContinue, AnsweredAbortAfter, Asked
  <2>2. \/ Engine({"asking"}, "points", "none")
        \/ \E to \in {"judge", "after"}, how \in {"cutAfter", runner.how} :
             Engine({"askingAfter"}, to, how)
    BY <1>8 DEF AnsweredContinue, AnsweredAbortAfter
  <2>3. {"asking"} \subseteq Working /\ {"askingAfter"} \subseteq Working
    BY DEF Working, InScan, Scanning, Asking
  <2>4. CASE Engine({"asking"}, "points", "none")
    <3>1. /\ "none" \in Ends /\ "points" \in Working
          /\ "points" \notin {"after", "askingAfter", "judge"}
      BY DEF Ends, Working, InScan, Scanning
    <3> QED BY ZenonT(60), <1>0, <2>1, <2>3, <2>4, <3>1, EngineMoves
  <2>5. CASE \E to \in {"judge", "after"}, how \in {"cutAfter", runner.how} :
               Engine({"askingAfter"}, to, how)
    <3>1. runner.pc = "askingAfter"
      BY <2>5 DEF Engine
    <3>2. "judge" \in Working /\ "after" \in Working
      BY DEF Working, InScan, Scanning
    <3>3. PICK from \in SUBSET Working, to \in {"judge", "after"},
               how \in {"cutAfter", runner.how} : Engine(from, to, how)
      BY <2>3, <2>5
    <3>4. /\ how \in Ends /\ how # "none"
          /\ how \in {"aborted", "cut"} => srv.abort
      BY <1>1, <3>1 DEF Ends
    <3> QED BY <1>0, <2>1, <3>2, <3>3, <3>4, EngineMoves
  <2> QED BY SMTT(60), <2>2, <2>4, <2>5
<1>9. CASE AnsweredAbort
  <2>1. \E f, a \in BOOLEAN : srv' = [srv EXCEPT !.faults = f, !.ask = a]
    BY <1>0, <1>9, Banners DEF AnsweredAbort, Asked
  <2>2. \E how \in {"stopped", "stoppedAll"} : Engine({"asking"}, "after", how)
    BY <1>9 DEF AnsweredAbort
  <2>3. {"asking"} \subseteq Working
    BY DEF Working, InScan, Scanning, Asking
  <2>4. PICK from \in SUBSET Working, how \in {"stopped", "stoppedAll"} :
          Engine(from, "after", how)
    BY <2>2, <2>3
  <2>5. /\ how \in Ends /\ how # "none" /\ how \notin {"aborted", "cut"}
        /\ "after" \in Working
    BY DEF Ends, Working, InScan, Scanning
  <2> QED BY <1>0, <2>1, <2>4, <2>5, EngineMoves
<1> QED BY <1>2, <1>3, <1>4, <1>5, <1>6, <1>7, <1>8, <1>9 DEF Inside, Noticed

LEMMA InsideKeeps == ASSUME IInv, Inside PROVE IInv'
  BY InsideIs, EngineStepKeeps

-----------------------------------------------------------------------------
(* Steps of the commander and of the process *)

\* A step that touches neither the line of scans nor the state of the scan.
LEMMA QuietKeeps ==
  ASSUME IInv, TypeOK',
         srv'.busy = srv.busy, srv'.open = srv.open, srv'.qi = srv.qi,
         srv'.entries = srv.entries, srv'.result = srv.result,
         srv'.abort = srv.abort, srv'.stopping = srv.stopping,
         srv'.lastError = srv.lastError, srv'.nextId = srv.nextId,
         srv'.stoppedBySelf = srv.stoppedBySelf,
         runner'.pc = runner.pc, runner'.scan = runner.scan,
         runner'.how = runner.how, runner'.verdict = runner.verdict,
         pressed' = pressed,
         cmd' = cmd \/ cmd'.verb \notin {"submit", "add"}
  PROVE  IInv'
<1> USE DEF IInv
<1>1. Attached' /\ InPlace' /\ Unbroken' /\ RanDry'
  BY DEF Attached, InPlace, Unbroken, RanDry
<1>2. NewNames'
  BY DEF NewNames
<1>3. FlagIsForTheScan' /\ VerdictStands' /\ CurrentIsRunning'
  BY DEF FlagIsForTheScan, VerdictStands, CurrentIsRunning
<1>4. NeitherTwiceNorSkipped' /\ AbortHitsItsScan'
  BY DEF NeitherTwiceNorSkipped, AbortHitsItsScan
<1> QED BY <1>1, <1>2, <1>3, <1>4

\* The requests and the stages of the exit that are such steps.
Quiet ==
  \/ Refuse \/ AnswerGive \/ ClearHook \/ ShutdownIdle \/ WaiterStops
  \/ StopAnswering \/ Exit \/ (\E on \in BOOLEAN : Pause(on))
  \/ \E a \in Answers : AnswerTake(a)

\* The request that is no request.
LEMMA NoRequest == NoCmd \in Requests /\ NoCmd.verb = "none"
<1>1. <<>> \in Seq(Scans)
  BY EmptySeq
<1> QED BY <1>1, BoundsAssumption DEF NoCmd, Requests

LEMMA QuietStepKeeps == ASSUME IInv, Quiet PROVE IInv'
<1>0. TypeOK
  BY DEF IInv
<1>1. CASE Refuse \/ ClearHook \/ ShutdownIdle \/ WaiterStops \/ StopAnswering \/ Exit
  <2>1. UNCHANGED <<srv, runner, pressed>> /\ cmd' \in {cmd, NoCmd}
    BY <1>1 DEF Refuse, ClearHook, ShutdownIdle, WaiterStops, StopAnswering, Exit
  <2>2. serving' \in Stages
    BY <1>0, <1>1 DEF Refuse, ClearHook, ShutdownIdle, WaiterStops, StopAnswering,
                      Exit, TypeOK, Stages
  <2>3. lab' \in [hook : BOOLEAN, tails : Nat]
    <3>1. CASE ClearHook
      <4>1. lab.tails - 1 \in Nat
        BY <1>0, <3>1 DEF ClearHook, TypeOK
      <4> QED BY <3>1, <4>1 DEF ClearHook
    <3>2. CASE ~ClearHook
      BY <1>0, <1>1, <3>2 DEF Refuse, ShutdownIdle, WaiterStops, StopAnswering,
                              Exit, TypeOK
    <3> QED BY <3>1, <3>2
  <2>4. TypeOK'
    BY <1>0, <2>1, <2>2, <2>3, NoRequest DEF TypeOK
  <2> QED BY <2>1, <2>4, NoRequest, QuietKeeps
<1>2. CASE AnswerGive
  <2>1. UNCHANGED <<srv, lab, serving, pressed>> /\ cmd' = NoCmd
    BY <1>2 DEF AnswerGive
  <2>2. /\ runner' \in Runners /\ runner'.pc = runner.pc
        /\ runner'.scan = runner.scan /\ runner'.how = runner.how
        /\ runner'.verdict = runner.verdict
    BY <1>0, <1>2 DEF AnswerGive, TypeOK, Runners, Requests
  <2>3. TypeOK'
    BY <1>0, <2>1, <2>2, NoRequest DEF TypeOK
  <2> QED BY <2>1, <2>2, <2>3, NoRequest, QuietKeeps
<1>3. CASE \E on \in BOOLEAN : Pause(on)
  <2>1. PICK on \in BOOLEAN : srv' = [srv EXCEPT !.userPause = on]
    BY <1>3 DEF Pause
  <2>2. UNCHANGED <<runner, cmd, lab, serving, pressed>>
    BY <1>3 DEF Pause
  <2>3. /\ srv' \in Servers
        /\ srv'.busy = srv.busy /\ srv'.open = srv.open /\ srv'.qi = srv.qi
        /\ srv'.entries = srv.entries /\ srv'.result = srv.result
        /\ srv'.abort = srv.abort /\ srv'.stopping = srv.stopping
        /\ srv'.lastError = srv.lastError /\ srv'.nextId = srv.nextId
        /\ srv'.stoppedBySelf = srv.stoppedBySelf
    BY <1>0, <2>1 DEF TypeOK, Servers
  <2>4. TypeOK'
    BY <1>0, <2>2, <2>3 DEF TypeOK
  <2> QED BY <2>2, <2>3, <2>4, QuietKeeps
<1>4. CASE \E a \in Answers : AnswerTake(a)
  <2>1. PICK a \in Answers :
          cmd' = [NoCmd EXCEPT !.verb = "answer", !.question = runner.question,
                               !.answer = a]
    BY <1>4 DEF AnswerTake
  <2>2. srv' = [srv EXCEPT !.ask = FALSE] /\ UNCHANGED <<runner, lab, serving, pressed>>
    BY <1>4 DEF AnswerTake
  <2>3. /\ srv' \in Servers
        /\ srv'.busy = srv.busy /\ srv'.open = srv.open /\ srv'.qi = srv.qi
        /\ srv'.entries = srv.entries /\ srv'.result = srv.result
        /\ srv'.abort = srv.abort /\ srv'.stopping = srv.stopping
        /\ srv'.lastError = srv.lastError /\ srv'.nextId = srv.nextId
        /\ srv'.stoppedBySelf = srv.stoppedBySelf
    BY <1>0, <2>2 DEF TypeOK, Servers
  <2>4. runner.question \in 0 .. MaxQuestions
    BY <1>0 DEF TypeOK, Runners
  <2>5. cmd' \in Requests /\ cmd'.verb = "answer"
    BY <2>1, <2>4, NoRequest DEF Requests
  <2>6. TypeOK'
    BY <1>0, <2>2, <2>3, <2>5 DEF TypeOK
  <2> QED BY <2>2, <2>3, <2>5, <2>6, QuietKeeps
<1> QED BY <1>1, <1>2, <1>3, <1>4 DEF Quiet

\* Abort, Stop queue and the stops of the process: the flag goes up, for the
\* scan that is running.
Presses ==
  /\ srv.busy
  /\ \E x \in {srv.stopping, TRUE} : srv' = [srv EXCEPT !.stopping = x, !.abort = TRUE]
  /\ pressed' = Pressed
  /\ serving' \in Stages
  /\ UNCHANGED <<runner, cmd, lab>>

LEMMA PressesKeep == ASSUME IInv, Presses PROVE IInv'
<1> USE DEF IInv
<1>1. PICK x \in {srv.stopping, TRUE} :
        srv' = [srv EXCEPT !.stopping = x, !.abort = TRUE]
  BY DEF Presses
<1>2. /\ srv' \in Servers
      /\ srv'.busy = srv.busy /\ srv'.open = srv.open /\ srv'.qi = srv.qi
      /\ srv'.entries = srv.entries /\ srv'.result = srv.result
      /\ srv'.abort = TRUE /\ srv'.stopping = x
      /\ srv'.lastError = srv.lastError /\ srv'.nextId = srv.nextId
      /\ srv'.stoppedBySelf = srv.stoppedBySelf
  BY <1>1 DEF TypeOK, Servers
<1>3. /\ pressed' = IF runner.pc = "judged" THEN pressed ELSE pressed \cup Current
      /\ UNCHANGED <<runner, cmd, lab>>
  BY DEF Presses, Pressed
<1>4. \A e \in Current : /\ srv.qi \in 1 .. Len(srv.entries)
                         /\ e = srv.entries[srv.qi] /\ e \in Scans
                         /\ srv.result[e] = "none" /\ e < srv.nextId
  <2>1. srv.qi > 0 => srv.qi \in 1 .. Len(srv.entries)
    BY ListFacts DEF InPlace
  <2> QED BY <2>1, ListFacts DEF Current, NewNames
<1>5. TypeOK'
  BY <1>2, <1>3, <1>4 DEF TypeOK, Presses
<1>6. Attached' /\ InPlace' /\ Unbroken' /\ CurrentIsRunning' /\ VerdictStands'
  BY <1>2, <1>3 DEF Attached, InPlace, Unbroken, CurrentIsRunning, VerdictStands
<1>7. NewNames'
  <2>1. \A e \in Scans : e >= srv.nextId => e \notin Current
    BY <1>4, BoundsAssumption DEF TypeOK, Servers, Scans
  <2> QED BY <1>2, <1>3, <1>4, <2>1 DEF NewNames
<1>8. FlagIsForTheScan'
  <2>1. runner.pc \in Working => runner.scan \in Current
    <3> SUFFICES ASSUME runner.pc \in Working PROVE runner.scan \in Current
      OBVIOUS
    <3>1. srv.qi \in 1 .. Len(srv.entries) /\ srv.entries[srv.qi] = runner.scan
      BY RunningScan DEF Working
    <3>2. srv.result[runner.scan] = "none" /\ srv.qi > 0
      BY <3>1, ListFacts DEF InPlace
    <3> QED BY <3>1, <3>2 DEF Current
  <2>2. \A k \in 1 .. Len(srv.entries) : k > srv.qi => srv.entries[k] \notin Current
    BY <1>4, ListFacts DEF NeitherTwiceNorSkipped
  <2>3. runner.pc \in Working => runner.pc # "judged"
    BY DEF Working
  <2> QED BY <1>2, <1>3, <2>1, <2>2, <2>3 DEF FlagIsForTheScan
<1>9. RanDry'
  BY <1>2, <1>3 DEF RanDry
<1>10. NeitherTwiceNorSkipped'
  BY <1>2 DEF NeitherTwiceNorSkipped
<1>11. AbortHitsItsScan'
  BY <1>2, <1>3, <1>4 DEF AbortHitsItsScan
<1> QED BY <1>5, <1>6, <1>7, <1>8, <1>9, <1>10, <1>11

\* Counting out n new scans.
LEMMA FreshScans ==
  ASSUME TypeOK, NEW n \in 1 .. MaxSubmit, srv.nextId + n <= MaxScans + 1
  PROVE  /\ Fresh(n) \in Seq(Scans) /\ Len(Fresh(n)) = n
         /\ \A k \in 1 .. n : Fresh(n)[k] = srv.nextId + k - 1
         /\ srv.nextId + n \in 1 .. MaxScans + 1
<1>1. n \in Nat /\ srv.nextId \in 1 .. MaxScans + 1
  BY BoundsAssumption DEF TypeOK, Servers
<1>2. \A k \in 1 .. n : srv.nextId + k - 1 \in Scans
  BY <1>1, BoundsAssumption DEF Scans
<1>3. Fresh(n) \in [1 .. n -> Scans]
  BY <1>2 DEF Fresh
<1>4. Fresh(n) \in Seq(Scans)
  BY <1>1, <1>3, SeqDef
<1>5. Len(Fresh(n)) = n
  BY <1>1, <1>3, <1>4, LenProperties
<1>6. \A k \in 1 .. n : Fresh(n)[k] = srv.nextId + k - 1
  BY DEF Fresh
<1>7. srv.nextId + n \in 1 .. MaxScans + 1
  BY <1>1, BoundsAssumption
<1> QED BY <1>4, <1>5, <1>6, <1>7

\* The first half of a submit or an add: n new scans are counted out.
Counts ==
  \E n \in 1 .. MaxSubmit, v \in {"submit", "add"} :
    /\ srv.nextId + n <= MaxScans + 1
    /\ cmd' = [NoCmd EXCEPT !.verb = v, !.scans = Fresh(n)]
    /\ srv' = [srv EXCEPT !.nextId = @ + n]
    /\ UNCHANGED <<runner, lab, serving, pressed>>

LEMMA CountsKeep == ASSUME IInv, Counts PROVE IInv'
<1> USE DEF IInv
<1>1. PICK n \in 1 .. MaxSubmit, v \in {"submit", "add"} :
        /\ srv.nextId + n <= MaxScans + 1
        /\ cmd' = [NoCmd EXCEPT !.verb = v, !.scans = Fresh(n)]
        /\ srv' = [srv EXCEPT !.nextId = @ + n]
        /\ UNCHANGED <<runner, lab, serving, pressed>>
  BY DEF Counts
<1> DEFINE next == srv.nextId + n
           new == Fresh(n)
<1>2. /\ new \in Seq(Scans) /\ Len(new) = n
      /\ \A k \in 1 .. n : new[k] = srv.nextId + k - 1
      /\ next \in 1 .. MaxScans + 1
  BY <1>1, FreshScans
<1>3. n \in Nat /\ srv.nextId \in Nat /\ next \in Nat /\ srv.nextId <= next
  BY BoundsAssumption DEF TypeOK, Servers
<1>4. \A k \in 1 .. n : new[k] >= srv.nextId /\ new[k] < next /\ new[k] \in Scans
  BY SMTT(60), <1>2, <1>3, ElementOfSeq
<1>5. srv' = [srv EXCEPT !.nextId = next]
  BY <1>1
<1>6. cmd' = [NoCmd EXCEPT !.verb = v, !.scans = new]
  BY <1>1
<1>injective. \A j, k \in 1 .. n : new[j] = new[k] => j = k
  BY <1>2, <1>3
<1> HIDE DEF next, new
<1>7. /\ srv' \in Servers
      /\ srv'.busy = srv.busy /\ srv'.open = srv.open /\ srv'.qi = srv.qi
      /\ srv'.entries = srv.entries /\ srv'.result = srv.result
      /\ srv'.abort = srv.abort /\ srv'.stopping = srv.stopping
      /\ srv'.lastError = srv.lastError /\ srv'.nextId = next
      /\ srv'.stoppedBySelf = srv.stoppedBySelf
  BY <1>2, <1>5 DEF TypeOK, Servers
<1>8. cmd' \in Requests /\ cmd'.scans = new
  BY <1>2, <1>6, NoRequest DEF Requests
<1>9. UNCHANGED <<runner, lab, serving, pressed>>
  BY <1>1
<1>10. TypeOK'
  BY <1>7, <1>8, <1>9 DEF TypeOK
<1>11. Attached' /\ InPlace' /\ Unbroken' /\ RanDry'
  BY <1>7, <1>9 DEF Attached, InPlace, Unbroken, RanDry
<1>12. FlagIsForTheScan' /\ VerdictStands' /\ CurrentIsRunning'
  BY <1>7, <1>9 DEF FlagIsForTheScan, VerdictStands, CurrentIsRunning
<1>13. NeitherTwiceNorSkipped' /\ AbortHitsItsScan'
  BY <1>7, <1>9 DEF NeitherTwiceNorSkipped, AbortHitsItsScan
<1>14. NewNames'
  <2>1. \A e \in Scans : e >= next => srv.result[e] = "none" /\ e \notin pressed
    BY <1>3, BoundsAssumption DEF NewNames, Scans
  <2>2. \A k \in 1 .. Len(srv.entries) : srv.entries[k] < next
    BY <1>3, ListFacts DEF NewNames
  <2>3. \A k \in 1 .. n :
          /\ new[k] < next /\ srv.result[new[k]] = "none" /\ new[k] \notin pressed
          /\ \A j \in 1 .. Len(srv.entries) : srv.entries[j] # new[k]
    <3> TAKE k \in 1 .. n
    <3>1. new[k] \in Scans /\ new[k] >= srv.nextId /\ new[k] < next
      BY <1>4
    <3>2. \A j \in 1 .. Len(srv.entries) : srv.entries[j] # new[k]
      BY <3>1, <1>3, ListFacts, BoundsAssumption DEF NewNames, Scans
    <3> QED BY <3>1, <3>2 DEF NewNames
  <2>4. \A k \in 1 .. Len(cmd'.scans) : \A j \in 1 .. Len(cmd'.scans) :
          cmd'.scans[j] = cmd'.scans[k] => j = k
    BY <1>2, <1>8, <1>injective
  <2> QED BY <1>2, <1>7, <1>8, <1>9, <2>1, <2>2, <2>3, <2>4 DEF NewNames
<1> QED BY <1>10, <1>11, <1>12, <1>13, <1>14

\* A list that differs behind the position only, by scans nobody has run.
EditTo(m) ==
  /\ Editable
  /\ m \in Seq(Scans)
  /\ srv.qi <= Len(m)
  /\ \A k \in 1 .. srv.qi : m[k] = srv.entries[k]
  /\ \A k \in 1 .. Len(m) : k > srv.qi =>
       /\ m[k] < srv.nextId
       /\ srv.result[m[k]] = "none"
       /\ m[k] \notin pressed
  /\ \A j, k \in 1 .. Len(m) : m[j] = m[k] => j = k

\* An edit that leaves such a list keeps the invariant.
LEMMA EditKeeps ==
  ASSUME IInv, NEW m, EditTo(m), srv' = [srv EXCEPT !.entries = m],
         cmd' = NoCmd, UNCHANGED <<runner, lab, serving, pressed>>
  PROVE  IInv'
<1> USE DEF IInv
<1>1. /\ Editable /\ m \in Seq(Scans) /\ srv.qi <= Len(m)
      /\ \A k \in 1 .. srv.qi : m[k] = srv.entries[k]
      /\ \A k \in 1 .. Len(m) : k > srv.qi =>
           /\ m[k] < srv.nextId
           /\ srv.result[m[k]] = "none"
           /\ m[k] \notin pressed
      /\ \A j, k \in 1 .. Len(m) : m[j] = m[k] => j = k
  BY DEF EditTo
<1>2. /\ srv' \in Servers
      /\ srv'.busy = srv.busy /\ srv'.open = srv.open /\ srv'.qi = srv.qi
      /\ srv'.entries = m /\ srv'.result = srv.result
      /\ srv'.abort = srv.abort /\ srv'.stopping = srv.stopping
      /\ srv'.lastError = srv.lastError /\ srv'.nextId = srv.nextId
      /\ srv'.stoppedBySelf = srv.stoppedBySelf
  BY <1>1 DEF TypeOK, Servers
<1>3. srv.qi \in Nat /\ Len(m) \in Nat /\ DOMAIN m = 1 .. Len(m)
      /\ srv.qi \in 0 .. Len(m) /\ srv.qi \in 0 .. Len(srv.entries)
  BY <1>1, LenProperties DEF TypeOK, Servers, InPlace
<1>4. TypeOK'
  BY <1>2, NoRequest DEF TypeOK
<1>5. Attached' /\ AbortHitsItsScan'
  BY <1>2 DEF Attached, AbortHitsItsScan
<1>6. CurrentIsRunning'
  <2> SUFFICES ASSUME runner.pc \in InScan \cup {"ended"}
               PROVE  srv.busy /\ srv.qi \in DOMAIN m /\ m[srv.qi] = runner.scan
    BY <1>2 DEF CurrentIsRunning
  <2>1. srv.busy /\ srv.qi \in 1 .. Len(srv.entries) /\ srv.entries[srv.qi] = runner.scan
    BY RunningScan
  <2> QED BY <1>1, <1>3, <2>1
<1>7. InPlace'
  BY <1>1, <1>2, <1>3 DEF InPlace
<1>8. NewNames'
  <2>1. \A k \in 1 .. Len(m) : m[k] < srv.nextId
    BY <1>1, <1>3 DEF NewNames
  <2> QED BY <1>2, <2>1, NoRequest DEF NewNames
<1>9. FlagIsForTheScan' /\ VerdictStands'
  BY <1>1, <1>2 DEF FlagIsForTheScan, VerdictStands
<1>10. Unbroken'
  BY SMTT(60), <1>1, <1>2, <1>3 DEF Unbroken
<1>11. RanDry'
  BY <1>1, <1>2 DEF RanDry, Editable, Attached
<1>12. NeitherTwiceNorSkipped'
  <2>1. \A k \in 1 .. Len(m) : k < srv.qi => srv.result[m[k]] # "none"
    BY <1>1, <1>3, ListFacts DEF NeitherTwiceNorSkipped
  <2> QED BY <1>1, <1>2, <1>3, <2>1 DEF NeitherTwiceNorSkipped
<1> QED BY <1>4, <1>5, <1>6, <1>7, <1>8, <1>9, <1>10, <1>11, <1>12

\* The list without a scan twice, as the list lemmas want it.
LEMMA Listed ==
  ASSUME IInv
  PROVE  /\ srv.entries \in Seq(Scans) /\ Unique(srv.entries)
         /\ srv.qi \in Nat /\ srv.qi <= Len(srv.entries)
         /\ Len(srv.entries) \in Nat
  BY ListFacts DEF IInv, NeitherTwiceNorSkipped, InPlace, Unique

\* An edit behind the position, with scans nobody has run, is an EditTo.
LEMMA Edits ==
  ASSUME IInv, Editable, NEW m \in Seq(Scans), NEW new,
         BehindOnly(m, srv.entries, new, srv.qi),
         \A k \in 1 .. Len(new) : /\ new[k] < srv.nextId
                                  /\ srv.result[new[k]] = "none"
                                  /\ new[k] \notin pressed
  PROVE  EditTo(m)
<1> DEFINE Waits(e) == e < srv.nextId /\ srv.result[e] = "none" /\ e \notin pressed
<1>1. \A j \in 1 .. Len(srv.entries) : j > srv.qi => Waits(srv.entries[j])
  BY ListFacts DEF IInv, NewNames, NeitherTwiceNorSkipped, FlagIsForTheScan
<1>2. \A j \in 1 .. Len(new) : Waits(new[j])
  OBVIOUS
<1> HIDE DEF Waits
<1>3. \A i \in 1 .. Len(m) : i > srv.qi => Waits(m[i])
  BY <1>1, <1>2 DEF BehindOnly
<1> QED BY <1>3 DEF EditTo, BehindOnly, Unique, Waits

LEMMA AddKeeps ==
  ASSUME IInv, NEW p \in 1 .. Len(srv.entries) + 1, AddCommit(p) PROVE IInv'
<1> DEFINE m == Spliced(srv.entries, p, cmd.scans)
<1>1. /\ Editable /\ srv.qi < p /\ srv' = [srv EXCEPT !.entries = m]
      /\ cmd' = NoCmd /\ UNCHANGED <<runner, lab, serving, pressed>>
      /\ cmd.verb = "add"
  BY DEF AddCommit, Place
<1>2. \A k \in 1 .. Len(cmd.scans) :
        /\ cmd.scans[k] < srv.nextId /\ srv.result[cmd.scans[k]] = "none"
        /\ cmd.scans[k] \notin pressed
        /\ \A j \in 1 .. Len(srv.entries) : srv.entries[j] # cmd.scans[k]
        /\ \A j \in 1 .. Len(cmd.scans) : cmd.scans[j] = cmd.scans[k] => j = k
  BY <1>1 DEF IInv, NewNames
<1>3. cmd.scans \in Seq(Scans) /\ Unique(cmd.scans)
  BY <1>2 DEF IInv, TypeOK, Requests, Unique
<1>4. m \in Seq(Scans) /\ BehindOnly(m, srv.entries, cmd.scans, srv.qi)
  BY <1>1, <1>2, <1>3, Listed, SplicedBehind
<1> HIDE DEF m
<1>5. EditTo(m)
  BY <1>1, <1>2, <1>4, Edits
<1> QED BY <1>1, <1>5, EditKeeps

LEMMA RemoveKeeps ==
  ASSUME IInv, NEW k \in 1 .. Len(srv.entries), QueueRemove(k) PROVE IInv'
<1> DEFINE m == RemoveAt(srv.entries, k)
<1>1. /\ Editable /\ srv.qi < k /\ srv' = [srv EXCEPT !.entries = m]
      /\ cmd' = NoCmd /\ UNCHANGED <<runner, lab, serving, pressed>>
  BY Listed DEF QueueRemove, NotStarted, Listening
<1>2. m \in Seq(Scans) /\ BehindOnly(m, srv.entries, <<>>, srv.qi)
  BY <1>1, Listed, RemovedBehind
<1> HIDE DEF m
<1>3. EditTo(m)
  BY <1>1, <1>2, Edits, EmptySeq
<1> QED BY <1>1, <1>3, EditKeeps

LEMMA MoveKeeps ==
  ASSUME IInv, NEW k \in 1 .. Len(srv.entries), NEW to \in 1 .. Len(srv.entries),
         QueueMove(k, to)
  PROVE  IInv'
<1> DEFINE m == InsertAt(RemoveAt(srv.entries, k), to, srv.entries[k])
<1>1. /\ Editable /\ srv.qi < k /\ srv.qi < to /\ srv' = [srv EXCEPT !.entries = m]
      /\ cmd' = NoCmd /\ UNCHANGED <<runner, lab, serving, pressed>>
  BY Listed DEF QueueMove, NotStarted, Place, Listening
<1>2. m \in Seq(Scans) /\ BehindOnly(m, srv.entries, <<>>, srv.qi)
  BY <1>1, Listed, MovedBehind
<1> HIDE DEF m
<1>3. EditTo(m)
  BY <1>1, <1>2, Edits, EmptySeq
<1> QED BY <1>1, <1>3, EditKeeps

\* A submit whose scans are accepted.
LEMMA SubmitKeeps == ASSUME IInv, SubmitCommit PROVE IInv'
<1> USE DEF IInv
<1>1. /\ ~srv.busy /\ srv' = Submitted(srv) /\ cmd' = NoCmd
      /\ runner' = [runner EXCEPT !.pc = "pick"] /\ cmd.verb = "submit"
      /\ UNCHANGED <<lab, serving, pressed>>
  BY DEF SubmitCommit
<1>2. cmd.scans \in Seq(Scans) /\ Len(cmd.scans) \in Nat
  BY LenProperties DEF TypeOK, Requests
<1>3. /\ srv' \in Servers
      /\ srv'.busy = TRUE /\ srv'.open = TRUE /\ srv'.qi = 0
      /\ srv'.entries = cmd.scans /\ srv'.result = srv.result
      /\ srv'.stopping = FALSE /\ srv'.nextId = srv.nextId
      /\ srv'.stoppedBySelf = srv.stoppedBySelf
  BY <1>1, <1>2 DEF TypeOK, Servers, Submitted, ScanReset
<1>4. runner' \in Runners /\ runner'.pc = "pick" /\ runner'.how = runner.how
  BY <1>1 DEF TypeOK, Runners
<1>5. \A k \in 1 .. Len(cmd.scans) :
        /\ cmd.scans[k] < srv.nextId
        /\ srv.result[cmd.scans[k]] = "none"
        /\ cmd.scans[k] \notin pressed
        /\ \A j \in 1 .. Len(cmd.scans) : cmd.scans[j] = cmd.scans[k] => j = k
  BY <1>1 DEF NewNames
<1>6. runner.how = "none"
  BY <1>1 DEF Attached, Unbroken
<1>7. TypeOK'
  BY <1>1, <1>3, <1>4, NoRequest DEF TypeOK
<1>8. Attached' /\ CurrentIsRunning' /\ RanDry' /\ AbortHitsItsScan' /\ VerdictStands'
  BY <1>1, <1>3, <1>4 DEF Attached, CurrentIsRunning, RanDry, AbortHitsItsScan,
                          VerdictStands, InScan, Scanning, Asking
<1>9. InPlace' /\ Unbroken'
  BY <1>2, <1>3, <1>4, <1>6 DEF InPlace, Unbroken, Working, InScan, Scanning, Asking
<1>10. NewNames' /\ FlagIsForTheScan'
  BY <1>1, <1>3, <1>4, <1>5, NoRequest DEF NewNames, FlagIsForTheScan, Working,
                                           InScan, Scanning, Asking
<1>11. NeitherTwiceNorSkipped'
  <2>1. DOMAIN cmd.scans = 1 .. Len(cmd.scans)
    BY <1>2, LenProperties
  <2> QED BY <1>2, <1>3, <1>5, <2>1 DEF NeitherTwiceNorSkipped
<1> QED BY <1>7, <1>8, <1>9, <1>10, <1>11

-----------------------------------------------------------------------------
(* Steps of the runner between two scans *)

\* The next scan is taken.
LEMMA TakeKeeps == ASSUME IInv, Take PROVE IInv'
<1> USE DEF IInv
<1> DEFINE q == srv.qi + 1
<1>1. /\ runner.pc = "pick" /\ More /\ srv' = Taken(srv)
      /\ UNCHANGED <<cmd, lab, serving, pressed>>
      /\ runner' = [runner EXCEPT !.pc = "begin", !.how = "none",
                                  !.scan = srv.entries[q]]
  BY DEF Take
<1>2. q \in Nat /\ q \in 1 .. Len(srv.entries) /\ srv.qi \in Nat /\ srv.qi < q
  BY <1>1, ListFacts DEF More, InPlace
<1>3. srv.entries[q] \in Scans /\ srv.entries[q] \in 0 .. MaxScans
  BY <1>2, ListFacts, BoundsAssumption DEF Scans
<1>4. srv' = [ScanReset(srv) EXCEPT !.qi = q, !.abort = FALSE]
  BY <1>1 DEF Taken, ScanReset, TypeOK, Servers
<1>q. \A k \in 1 .. q - 1 : k \in 1 .. srv.qi
  BY <1>2
<1>r. \A k \in 1 .. Len(srv.entries) : k < q => k \in 1 .. srv.qi
  BY <1>2, ListFacts
<1>s. \A k \in 1 .. Len(srv.entries) : k > q => k > srv.qi
  BY <1>2, ListFacts
<1> HIDE DEF q
<1>5. /\ srv' \in Servers
      /\ srv'.busy = srv.busy /\ srv'.open = srv.open /\ srv'.qi = q
      /\ srv'.entries = srv.entries /\ srv'.result = srv.result
      /\ srv'.abort = FALSE /\ srv'.stopping = srv.stopping
      /\ srv'.lastError = srv.lastError /\ srv'.nextId = srv.nextId
      /\ srv'.stoppedBySelf = srv.stoppedBySelf
  BY <1>2, <1>4 DEF TypeOK, Servers, ScanReset
<1>6. /\ runner' \in Runners /\ runner'.pc = "begin" /\ runner'.how = "none"
      /\ runner'.scan = srv.entries[q]
  BY <1>1, <1>3 DEF TypeOK, Runners, Ends
<1>7. srv.result[srv.entries[q]] = "none" /\ srv.entries[q] \notin pressed
  BY <1>2, ListFacts DEF NeitherTwiceNorSkipped, FlagIsForTheScan
<1>8. TypeOK'
  BY <1>1, <1>5, <1>6 DEF TypeOK
<1>9. Attached' /\ CurrentIsRunning'
  BY <1>1, <1>2, <1>5, <1>6, ListFacts DEF Attached, CurrentIsRunning
<1>10. InPlace' /\ VerdictStands'
  BY <1>2, <1>5, <1>6, <1>7, ListFacts DEF InPlace, VerdictStands, InScan, Scanning, Asking
<1>11. NewNames' /\ AbortHitsItsScan'
  BY <1>1, <1>5 DEF NewNames, AbortHitsItsScan
<1>12. FlagIsForTheScan'
  BY <1>1, <1>5, <1>6, <1>7, <1>s DEF FlagIsForTheScan
<1>13. Unbroken' /\ RanDry'
  BY <1>1, <1>5, <1>6, <1>q DEF Unbroken, RanDry
<1>14. NeitherTwiceNorSkipped'
  BY <1>1, <1>5, <1>r, <1>s, ListFacts DEF NeitherTwiceNorSkipped, InPlace
<1> QED BY <1>8, <1>9, <1>10, <1>11, <1>12, <1>13, <1>14

\* The queue runs out, or stops, or breaks, or is left; the position and the
\* results stay.
Leaving ==
  \/ QueueEnds \/ GoesOn \/ StopsItself \/ RunnerBreaks \/ CloseQueue \/ EndQueue

LEMMA LeavingKeeps == ASSUME IInv, Leaving PROVE IInv'
<1> USE DEF IInv
<1>1. /\ srv' \in Servers
      /\ srv'.qi = srv.qi /\ srv'.entries = srv.entries
      /\ srv'.result = srv.result /\ srv'.nextId = srv.nextId
      /\ srv'.stoppedBySelf = srv.stoppedBySelf
      /\ srv.stopping => srv'.stopping
      /\ srv.lastError => srv'.lastError
      /\ srv'.busy = IF EndQueue THEN FALSE ELSE srv.busy
  <2>1. CASE EndQueue
    BY <2>1 DEF EndQueue, Idle, ScanReset, TypeOK, Servers
  <2>2. CASE ~EndQueue
    BY ZenonT(60), <2>2 DEF Leaving, QueueEnds, GoesOn, StopsItself, RunnerBreaks, CloseQueue,
                TypeOK, Servers
  <2> QED BY <2>1, <2>2
<1>2. UNCHANGED <<cmd, pressed>>
  BY DEF Leaving, QueueEnds, GoesOn, StopsItself, RunnerBreaks, CloseQueue, EndQueue
<1>3. serving' \in Stages /\ lab' \in [hook : BOOLEAN, tails : Nat]
  <2>1. CASE EndQueue
    <3>1. lab.tails + 1 \in Nat
      BY DEF TypeOK
    <3> QED BY <2>1, <3>1 DEF EndQueue, Joined, Stages, TypeOK
  <2>2. CASE ~EndQueue
    BY <2>2 DEF Leaving, QueueEnds, GoesOn, StopsItself, RunnerBreaks, CloseQueue,
                TypeOK
  <2> QED BY <2>1, <2>2
<1>4. runner' \in Runners /\ runner'.pc \in {"none", "pick", "ending", "closing"}
  <2>1. CASE EndQueue
    BY <2>1, BoundsAssumption DEF EndQueue, NoRunner, TypeOK, Runners, Ends, Results
  <2>2. CASE ~EndQueue
    BY <2>2 DEF Leaving, QueueEnds, GoesOn, StopsItself, RunnerBreaks, CloseQueue,
                TypeOK, Runners
  <2> QED BY <2>1, <2>2
<1>5. TypeOK'
  BY <1>1, <1>2, <1>3, <1>4 DEF TypeOK
<1>6. Attached'
  <2>1. CASE EndQueue
    BY <1>1, <2>1 DEF EndQueue, NoRunner, Attached
  <2>2. CASE ~EndQueue
    BY <1>1, <2>2 DEF Leaving, QueueEnds, GoesOn, StopsItself, RunnerBreaks,
                      CloseQueue, Attached, TypeOK, Runners
  <2> QED BY <2>1, <2>2
<1>7. CurrentIsRunning' /\ VerdictStands'
  BY <1>4 DEF CurrentIsRunning, VerdictStands, InScan, Scanning, Asking
<1>8. NewNames' /\ AbortHitsItsScan' /\ NeitherTwiceNorSkipped'
  BY <1>1, <1>2 DEF NewNames, AbortHitsItsScan, NeitherTwiceNorSkipped
<1>9. FlagIsForTheScan'
  BY <1>1, <1>2, <1>4 DEF FlagIsForTheScan, Working, InScan, Scanning, Asking
<1>10. runner'.pc = "pick" =>
         /\ runner.pc = "ended" /\ ~StopsAfter /\ runner'.how = runner.how
  BY DEF Leaving, QueueEnds, GoesOn, StopsItself, RunnerBreaks, CloseQueue,
         EndQueue, NoRunner, TypeOK, Runners
<1>11. ASSUME runner.pc = "ended"
       PROVE  \A k \in 1 .. srv.qi :
                \/ k \in 1 .. srv.qi - 1
                \/ srv.entries[k] = runner.scan
  BY <1>11, RunningScan, ListFacts
<1>12. InPlace'
  <2> SUFFICES ASSUME runner'.pc = "pick"
               PROVE  \A k \in 1 .. srv.qi : srv.result[srv.entries[k]] # "none"
    BY <1>1, <1>4 DEF InPlace, Working, InScan, Scanning, Asking
  <2>1. \A k \in 1 .. srv.qi - 1 : srv.result[srv.entries[k]] # "none"
    BY <1>10, ListFacts DEF NeitherTwiceNorSkipped, InPlace
  <2>2. srv.result[runner.scan] # "none"
    BY <1>10 DEF InPlace
  <2> QED BY <1>10, <1>11, <2>1, <2>2
<1>13. Unbroken'
  <2> SUFFICES ASSUME runner'.pc = "pick"
               PROVE  /\ runner'.how # "stoppedAll"
                      /\ \A k \in 1 .. srv.qi : srv.result[srv.entries[k]] # "error"
    <3>1. runner'.pc = "none" => runner'.how = "none"
      BY <1>4 DEF Leaving, QueueEnds, GoesOn, StopsItself, RunnerBreaks, CloseQueue,
                  EndQueue, NoRunner, TypeOK, Runners
    <3>2. \A k \in 1 .. srv.qi - 1 : k \in 1 .. srv.qi
      BY ListFacts DEF TypeOK, Servers
    <3> QED BY <1>1, <1>4, <3>1, <3>2 DEF Unbroken, InScan, Scanning, Asking
  <2>1. runner.pc = "ended" /\ runner'.how = runner.how
    BY <1>10
  <2>2. runner.how # "stoppedAll" /\ srv.result[runner.scan] # "error"
    BY <1>10 DEF StopsAfter
  <2>3. \A k \in 1 .. srv.qi - 1 : srv.result[srv.entries[k]] # "error"
    BY <2>1 DEF Unbroken
  <2> QED BY <1>11, <2>1, <2>2, <2>3
<1>14. RanDry'
  <2> SUFFICES ASSUME ~srv'.stopping, ~srv'.lastError, runner'.pc # "pick"
               PROVE  /\ ~srv'.open
                      /\ \A k \in 1 .. Len(srv.entries) :
                           srv.result[srv.entries[k]] # "none"
    BY <1>1 DEF RanDry
  <2>1. ~srv.stopping /\ ~srv.lastError
    BY <1>1 DEF TypeOK, Servers
  <2>2. CASE QueueEnds
    <3>1. srv.qi = Len(srv.entries) /\ runner.pc = "pick" /\ ~srv'.open
      BY <2>1, <2>2, ListFacts DEF QueueEnds, More, InPlace, TypeOK, Servers
    <3> QED BY <3>1 DEF InPlace
  <2>3. CASE CloseQueue \/ EndQueue
    <3>1. runner.pc \in {"ending", "closing"}
      BY <2>3 DEF CloseQueue, EndQueue
    <3>2. ~srv.open => ~srv'.open
      BY <2>3 DEF CloseQueue, EndQueue, Idle, ScanReset, TypeOK, Servers
    <3> QED BY <2>1, <3>1, <3>2 DEF RanDry
  <2>4. CASE GoesOn
    BY <2>4 DEF GoesOn, TypeOK, Runners
  <2>5. CASE StopsItself \/ RunnerBreaks
    BY <2>5 DEF StopsItself, RunnerBreaks, TypeOK, Servers
  <2> QED BY <2>2, <2>3, <2>4, <2>5 DEF Leaving
<1> QED BY <1>5, <1>6, <1>7, <1>8, <1>9, <1>12, <1>13, <1>14

\* The runner has looked at the flag for the last time: what it says is what
\* an Abort of the scan asks for.
LEMMA JudgeKeeps == ASSUME IInv, Judge PROVE IInv'
<1> USE DEF IInv
<1> DEFINE e == runner.scan
           out == Outcome
           own == IF runner.how \in StoppedBySelf
                  THEN srv.stoppedBySelf \cup {e} ELSE srv.stoppedBySelf
<1>1. /\ runner.pc = "judge"
      /\ runner' = [runner EXCEPT !.pc = "judged", !.verdict = out]
      /\ UNCHANGED <<cmd, lab, serving, pressed>>
      /\ srv' = IF runner.how \notin Raised THEN srv
                ELSE [srv EXCEPT !.result[e] = "aborted", !.stoppedBySelf = own]
  BY DEF Judge
<1>2. /\ srv.busy /\ srv.qi \in 1 .. Len(srv.entries)
      /\ srv.entries[srv.qi] = e /\ e \in Scans /\ srv.result[e] = "none"
  BY <1>1, RunningScan DEF InPlace, Working, InScan, Scanning
<1>3. out \in {"done", "aborted", "error"} /\ own \in SUBSET Scans
  BY <1>2 DEF Outcome, TypeOK, Servers
<1>4. /\ out = "done" => e \notin pressed
      /\ out = "aborted" => e \in pressed \cup own
      /\ runner.how \in Raised => out = "aborted"
      /\ out = "aborted" /\ runner.how \notin Raised => e \in pressed
  <2>1. runner.pc \in Working
    BY <1>1 DEF Working, InScan, Scanning
  <2>2. srv.abort <=> e \in pressed
    BY <2>1 DEF FlagIsForTheScan
  <2>3. runner.how # "none" /\ (runner.how \in {"aborted", "cut"} => srv.abort)
    BY <1>1 DEF FlagIsForTheScan
  <2>4. runner.how \in Ends
    BY DEF TypeOK, Runners
  <2> QED BY <2>2, <2>3, <2>4 DEF Outcome, Ends, Raised, StoppedBySelf
<1>5. srv.stoppedBySelf \subseteq own
  OBVIOUS
<1> HIDE DEF out, own, e
<1>6. /\ srv' \in Servers
      /\ srv'.busy = srv.busy /\ srv'.open = srv.open /\ srv'.qi = srv.qi
      /\ srv'.entries = srv.entries /\ srv'.abort = srv.abort
      /\ srv'.stopping = srv.stopping /\ srv'.nextId = srv.nextId
      /\ srv'.lastError = srv.lastError
      /\ IF runner.how \in Raised
         THEN /\ srv'.stoppedBySelf = own
              /\ srv'.result = [srv.result EXCEPT ![e] = "aborted"]
         ELSE srv'.stoppedBySelf = srv.stoppedBySelf /\ srv'.result = srv.result
  <2>1. CASE runner.how \in Raised
    BY ZenonT(60), <1>1, <1>2, <1>3, <2>1 DEF TypeOK, Servers, Results
  <2>2. CASE runner.how \notin Raised
    BY <1>1, <2>2 DEF TypeOK
  <2> QED BY <2>1, <2>2
<1>7. \A d \in Scans : srv'.result[d] = IF d = e /\ runner.how \in Raised
                                        THEN "aborted" ELSE srv.result[d]
  BY <1>6, <1>2 DEF TypeOK, Servers
<1>8. /\ runner' \in Runners /\ runner'.pc = "judged" /\ runner'.scan = e
      /\ runner'.verdict = out
  BY <1>1, <1>3 DEF TypeOK, Runners, Results, Scanning, e
<1>9. TypeOK'
  BY <1>1, <1>6, <1>8 DEF TypeOK
<1>10. Attached' /\ CurrentIsRunning'
  BY <1>2, <1>6, <1>8, ListFacts DEF Attached, CurrentIsRunning
<1>11. InPlace'
  BY <1>2, <1>6, <1>8 DEF InPlace, Working
<1>12. NewNames'
  <2>1. \A k \in 1 .. Len(srv.entries) : srv.entries[k] < srv.nextId
    BY DEF NewNames
  <2>2. e < srv.nextId
    BY <1>2, <2>1
  <2>3. ~(e >= srv.nextId)
    BY <2>2, <1>2, BoundsAssumption DEF TypeOK, Servers, Scans
  <2>4. cmd.verb \in {"submit", "add"} =>
          \A k \in 1 .. Len(cmd.scans) : cmd.scans[k] \in Scans /\ cmd.scans[k] # e
    BY <1>2, ElementOfSeq DEF NewNames, TypeOK, Requests
  <2> QED BY <1>1, <1>6, <1>7, <2>1, <2>3, <2>4 DEF NewNames
<1>13. FlagIsForTheScan' /\ VerdictStands'
  <2>1. FlagIsForTheScan'
    BY <1>1, <1>6, <1>8 DEF FlagIsForTheScan, Working
  <2>2. srv'.result[e] \in {"none", out}
    BY <1>2, <1>4, <1>7
  <2>3. out = "aborted" => e \in pressed \cup srv'.stoppedBySelf
    BY <1>4, <1>6
  <2> QED BY <1>1, <1>3, <1>4, <1>8, <2>1, <2>2, <2>3 DEF VerdictStands
<1>14. \A k \in 1 .. Len(srv.entries) : k # srv.qi => srv.entries[k] # e
  BY <1>2, ListFacts DEF NeitherTwiceNorSkipped
<1>15. Unbroken'
  <2>1. \A k \in 1 .. srv.qi - 1 : k \in 1 .. Len(srv.entries) /\ k # srv.qi
    BY <1>2, ListFacts
  <2>2. \A k \in 1 .. srv.qi - 1 : srv.result[srv.entries[k]] # "error"
    BY <1>1 DEF Unbroken, InScan, Scanning
  <2> QED BY <1>6, <1>7, <1>8, <1>14, <2>1, <2>2, ListFacts DEF Unbroken
<1>16. RanDry'
  BY <1>8 DEF RanDry
<1>17. NeitherTwiceNorSkipped'
  BY <1>6, <1>7, <1>14, ListFacts, <1>2 DEF NeitherTwiceNorSkipped
<1>18. AbortHitsItsScan'
  BY <1>1, <1>4, <1>5, <1>6, <1>7 DEF AbortHitsItsScan
<1> QED BY <1>9, <1>10, <1>11, <1>12, <1>13, <1>15, <1>16, <1>17, <1>18

\* The scan gets its result, and it is the one the runner has found.
LEMMA ConcludeKeeps == ASSUME IInv, Conclude PROVE IInv'
<1> USE DEF IInv
<1> DEFINE e == runner.scan
           out == runner.verdict
           err == srv.lastError \/ out = "error"
<1>1. /\ runner.pc = "judged"
      /\ runner' = [runner EXCEPT !.pc = "ended", !.verdict = "none"]
      /\ UNCHANGED <<cmd, lab, serving, pressed>>
      /\ srv' = [srv EXCEPT !.result[e] = out, !.lastError = err,
                            !.ask = FALSE, !.faults = FALSE]
  BY DEF Conclude
<1>2. /\ srv.busy /\ srv.qi \in 1 .. Len(srv.entries)
      /\ srv.entries[srv.qi] = e /\ e \in Scans
  BY <1>1, RunningScan DEF InScan, Scanning
<1>3. /\ out \in {"done", "aborted", "error"} /\ err \in BOOLEAN
      /\ out = "done" => e \notin pressed
      /\ out = "aborted" => e \in pressed \cup srv.stoppedBySelf
  BY <1>1 DEF VerdictStands, TypeOK, Servers
<1> HIDE DEF out, err, e
<1>6. /\ srv' \in Servers
      /\ srv'.busy = srv.busy /\ srv'.open = srv.open /\ srv'.qi = srv.qi
      /\ srv'.entries = srv.entries /\ srv'.abort = srv.abort
      /\ srv'.stopping = srv.stopping /\ srv'.nextId = srv.nextId
      /\ srv'.stoppedBySelf = srv.stoppedBySelf
      /\ srv'.result = [srv.result EXCEPT ![e] = out]
  BY ZenonT(60), <1>1, <1>2, <1>3 DEF TypeOK, Servers, Results
<1>7. \A d \in Scans : srv'.result[d] = IF d = e THEN out ELSE srv.result[d]
  BY <1>6, <1>2 DEF TypeOK, Servers
<1>8. /\ runner' \in Runners /\ runner'.pc = "ended" /\ runner'.scan = e
  BY <1>1 DEF TypeOK, Runners, Results, e
<1>9. TypeOK'
  BY <1>1, <1>6, <1>8 DEF TypeOK
<1>10. Attached' /\ CurrentIsRunning' /\ VerdictStands'
  BY <1>2, <1>6, <1>8, ListFacts DEF Attached, CurrentIsRunning, VerdictStands
<1>11. InPlace'
  BY <1>2, <1>3, <1>6, <1>7, <1>8 DEF InPlace, Working, InScan, Scanning, Asking
<1>12. NewNames'
  <2>1. \A k \in 1 .. Len(srv.entries) : srv.entries[k] < srv.nextId
    BY DEF NewNames
  <2>2. e < srv.nextId
    BY <1>2, <2>1
  <2>3. ~(e >= srv.nextId)
    BY <2>2, <1>2, BoundsAssumption DEF TypeOK, Servers, Scans
  <2>4. cmd.verb \in {"submit", "add"} =>
          \A k \in 1 .. Len(cmd.scans) : cmd.scans[k] \in Scans /\ cmd.scans[k] # e
    BY <1>2, ElementOfSeq DEF NewNames, TypeOK, Requests
  <2> QED BY <1>1, <1>6, <1>7, <2>1, <2>3, <2>4 DEF NewNames
<1>13. FlagIsForTheScan'
  BY <1>1, <1>6, <1>8 DEF FlagIsForTheScan, Working, InScan, Scanning, Asking
<1>14. \A k \in 1 .. Len(srv.entries) : k # srv.qi => srv.entries[k] # e
  BY <1>2, ListFacts DEF NeitherTwiceNorSkipped
<1>15. Unbroken'
  <2>1. \A k \in 1 .. srv.qi - 1 : k \in 1 .. Len(srv.entries) /\ k # srv.qi
    BY <1>2, ListFacts
  <2>2. \A k \in 1 .. srv.qi - 1 : srv.result[srv.entries[k]] # "error"
    BY <1>1 DEF Unbroken, InScan, Scanning
  <2> QED BY <1>6, <1>7, <1>8, <1>14, <2>1, <2>2, ListFacts DEF Unbroken
<1>16. RanDry'
  BY <1>8 DEF RanDry
<1>17. NeitherTwiceNorSkipped'
  BY <1>3, <1>6, <1>7, <1>14, ListFacts, <1>2 DEF NeitherTwiceNorSkipped
<1>18. AbortHitsItsScan'
  BY <1>1, <1>3, <1>6, <1>7 DEF AbortHitsItsScan
<1> QED BY <1>9, <1>10, <1>11, <1>12, <1>13, <1>15, <1>16, <1>17, <1>18

\* What a stop() that begins finds is a scan.
LEMMA WhatIsFound ==
  ASSUME TypeOK, CurrentIsRunning
  PROVE  (IF runner.pc \in InScan THEN {runner.scan} ELSE {}) \in SUBSET Scans
  BY RunningScan

\* The stops: a press while a scan runs, nothing of the queue otherwise.
LEMMA StopsKeep ==
  ASSUME IInv, Abort \/ StopQueue \/ ShutdownBusy \/ Stops PROVE IInv'
<1>0. TypeOK /\ CurrentIsRunning
  BY DEF IInv
<1>3. serving' \in Stages
  <2>1. CASE Stops
    <3>1. PICK next \in {"joined", "join"} : StopAll(next)
      BY <2>1 DEF Stops
    <3> QED BY <1>0, <3>1, WhatIsFound DEF StopAll, Stages, TypeOK
  <2>2. CASE Abort \/ StopQueue \/ ShutdownBusy
    BY <1>0, <2>2 DEF Abort, StopQueue, ShutdownBusy, Stages, TypeOK
  <2> QED BY <2>1, <2>2
<1>1. CASE srv.busy
  <2>1. srv' = [srv EXCEPT !.abort = TRUE] \/ srv' = AllAborted(srv)
    BY <1>1 DEF Abort, StopQueue, ShutdownBusy, Stops, StopAll
  <2>2. \E x \in {srv.stopping, TRUE} :
          srv' = [srv EXCEPT !.stopping = x, !.abort = TRUE]
    BY <1>0, <2>1 DEF AllAborted, TypeOK, Servers
  <2>3. pressed' = Pressed /\ UNCHANGED <<runner, cmd, lab>>
    BY <1>1 DEF Abort, StopQueue, ShutdownBusy, Stops, StopAll
  <2> QED BY <1>1, <1>3, <2>2, <2>3, PressesKeep DEF Presses
<1>2. CASE ~srv.busy
  <2>1. UNCHANGED <<srv, runner, cmd, lab, pressed>>
    BY <1>2 DEF Abort, StopQueue, ShutdownBusy, Stops, StopAll
  <2>2. TypeOK'
    BY <1>0, <1>3, <2>1 DEF TypeOK
  <2> QED BY <2>1, <2>2, QuietKeeps
<1> QED BY <1>1, <1>2

-----------------------------------------------------------------------------
(* The theorems *)

\* A new server satisfies the invariant.
LEMMA InitHolds == Init => IInv
<1> SUFFICES ASSUME Init PROVE IInv
  OBVIOUS
<1> USE DEF Init
<1>0. <<>> \in Seq(Scans) /\ Len(<<>>) = 0 /\ DOMAIN <<>> = {}
  BY EmptySeq
<1>1. srv \in Servers
  BY <1>0, BoundsAssumption DEF NewServer, Servers, Results
<1>2. runner \in Runners
  BY BoundsAssumption DEF NoRunner, Runners, Ends, Results
<1>3. TypeOK
  BY <1>1, <1>2, NoRequest DEF TypeOK, Stages, Up
<1>4. /\ srv.busy = FALSE /\ srv.open = FALSE /\ srv.qi = 0 /\ srv.entries = <<>>
      /\ srv.result = [e \in Scans |-> "none"] /\ runner.pc = "none"
      /\ runner.how = "none" /\ srv.nextId = 1
  BY DEF NewServer, NoRunner
<1>5. Attached /\ InPlace /\ CurrentIsRunning /\ VerdictStands
  BY <1>0, <1>4 DEF Attached, InPlace, CurrentIsRunning, VerdictStands, Working,
                    InScan, Scanning, Asking
<1>6. NewNames /\ AbortHitsItsScan /\ FlagIsForTheScan
  BY <1>0, <1>4, NoRequest DEF NewNames, AbortHitsItsScan, FlagIsForTheScan,
                               Working, InScan, Scanning, Asking
<1>7. Unbroken /\ RanDry /\ NeitherTwiceNorSkipped
  BY <1>0, <1>4 DEF Unbroken, RanDry, NeitherTwiceNorSkipped, InScan, Scanning,
                    Asking
<1> QED BY <1>3, <1>5, <1>6, <1>7 DEF IInv

\* Every step keeps it.
LEMMA StepKeeps == IInv /\ [Next]_vars => IInv'
<1> SUFFICES ASSUME IInv, [Next]_vars PROVE IInv'
  OBVIOUS
<1>1. CASE UNCHANGED vars
  <2>1. TypeOK'
    BY <1>1 DEF IInv, TypeOK, vars
  <2> QED BY <1>1, <2>1, QuietKeeps DEF vars
<1>2. CASE Commander
  <2>1. CASE \E n \in 1 .. MaxSubmit : SubmitBegin(n) \/ AddBegin(n)
    <3>1. Counts
      BY <2>1 DEF SubmitBegin, AddBegin, Counts
    <3> QED BY SMTT(60), <3>1, CountsKeep
  <2>2. CASE SubmitCommit
    BY <2>2, SubmitKeeps
  <2>3. CASE \E p \in 1 .. Len(srv.entries) + 1 : AddCommit(p)
    BY <2>3, AddKeeps
  <2>4. CASE \E k \in 1 .. Len(srv.entries) : QueueRemove(k)
    BY <2>4, RemoveKeeps
  <2>5. CASE \E k, to \in 1 .. Len(srv.entries) : QueueMove(k, to)
    BY <2>5, MoveKeeps
  <2>6. CASE Abort \/ StopQueue \/ ShutdownBusy
    BY <2>6, StopsKeep
  <2>7. CASE Refuse \/ AnswerGive \/ ShutdownIdle
             \/ (\E on \in BOOLEAN : Pause(on)) \/ \E a \in Answers : AnswerTake(a)
    BY <2>7, QuietStepKeeps DEF Quiet
  <2> QED BY <1>2, <2>1, <2>2, <2>3, <2>4, <2>5, <2>6, <2>7 DEF Commander
<1>3. CASE Runner
  <2>1. CASE Inside
    BY <2>1, InsideKeeps
  <2>2. CASE Leaving
    BY <2>2, LeavingKeeps
  <2>3. CASE Take
    BY <2>3, TakeKeeps
  <2>4. CASE Judge
    BY <2>4, JudgeKeeps
  <2>5. CASE ClearHook
    BY <2>5, QuietStepKeeps DEF Quiet
  <2>6. CASE Conclude
    BY <2>6, ConcludeKeeps
  <2> QED BY <1>3, <2>1, <2>2, <2>3, <2>4, <2>5, <2>6
          DEF Runner, Onward, Inside, Leaving
<1>4. CASE Process
  BY <1>4, StopsKeep, QuietStepKeeps DEF Process, Quiet, Stop, Interrupt
<1> QED BY <1>1, <1>2, <1>3, <1>4 DEF Next

\* The invariant of the server, from which the theorems follow.
THEOREM Invariant == Spec => []IInv
<1>1. Init => IInv
  BY InitHolds
<1>2. IInv /\ [Next]_vars => IInv'
  BY StepKeeps
<1> QED BY <1>1, <1>2, PTL DEF Spec

\* Every field of the server, the runner and the request keeps its kind.
THEOREM ServerTypeCorrect == Spec => []TypeOK
<1>1. IInv => TypeOK
  BY DEF IInv
<1> QED BY <1>1, Invariant, PTL

\* However many edits come in between the runner's steps, no scan is in the
\* queue twice, none before the position lacks its result, none behind has one.
THEOREM NoneTwiceNoneSkipped == Spec => []NeitherTwiceNorSkipped
<1>1. IInv => NeitherTwiceNorSkipped
  BY DEF IInv
<1> QED BY <1>1, Invariant, PTL

\* "The running scan" of every verb is the scan the runner thread is in.
THEOREM TheRunningScanIsMeant == Spec => []CurrentIsRunning
<1>1. IInv => CurrentIsRunning
  BY DEF IInv
<1> QED BY <1>1, Invariant, PTL

\* An Abort ends the scan that was running when it was acknowledged, and no
\* other, for every queue and every number of Aborts.
THEOREM AbortsHitTheirScan == Spec => []AbortHitsItsScan
<1>1. IInv => AbortHitsItsScan
  BY DEF IInv
<1> QED BY <1>1, Invariant, PTL

\* A queue that ended by itself has run every scan it accepted: the lock and
\* the second look at the queue leave no gap for an add.
THEOREM EveryAcceptedScanRuns == Spec => []AcceptedScansRun
<1>1. IInv => AcceptedScansRun
  BY ListFacts DEF IInv, AcceptedScansRun, RanDry, Attached
<1> QED BY <1>1, Invariant, PTL

\* No scan starts after a stop of the queue, a failed scan or an "abort all".
THEOREM AStopIsFinal == Spec => StopsAreFinal
<1>1. ASSUME IInv, [Next]_vars PROVE [NothingStartsAfterStop]_vars
  <2> SUFFICES ASSUME Starts, Next PROVE NothingStartsAfterStop
    BY <1>1 DEF NothingStartsAfterStop, vars
  <2>1. runner.pc = "pick" /\ runner'.pc = "begin"
    BY DEF Starts
  <2>2. Take
    <3>1. runner'.pc # runner.pc
      BY SMTT(60), <2>1
    <3>2. ~Commander /\ ~Process
      BY <2>1, <1>1 DEF Commander, Process, SubmitBegin, AddBegin, SubmitCommit, Refuse,
         AddCommit, QueueRemove, QueueMove, Abort, StopQueue, Pause, AnswerTake,
         AnswerGive, ShutdownIdle, ShutdownBusy, WaiterStops, Interrupt, Stop, Stops,
         StopAll, StopAnswering, Exit, IInv, TypeOK, Runners
    <3>3. ~Inside /\ ~Judge /\ ~Conclude
      BY <2>1 DEF Inside, Noticed, Begin, Claimed, NotClaimed, PointsDone, PointsFail,
         Hold, Resumed, Fault, FaultClears, AskAtPoints, AskAfter, Ask,
         AnsweredContinue, AnsweredAbort, AnsweredAbortAfter, StopsBySelf, AfterDone,
         AfterFails, SeesAbort, CutShort, AskingCut, AfterCut, Judge, Conclude, Engine
    <3>4. ~Leaving /\ ~ClearHook
      BY <2>1, <1>1 DEF Leaving, QueueEnds, GoesOn, StopsItself, RunnerBreaks, CloseQueue,
         EndQueue, ClearHook, IInv, TypeOK, Runners
    <3> QED BY <3>2, <3>3, <3>4 DEF Next, Runner, Onward, Inside, Leaving
  <2> QED BY <1>1, <2>1, <2>2 DEF NothingStartsAfterStop, Take, More, IInv, Unbroken
<1> QED BY <1>1, Invariant, PTL DEF Spec, StopsAreFinal

-----------------------------------------------------------------------------
(* Questions *)

\* The answer on its way says something.
Answerable ==
  /\ QuestionCanBeAnswered
  /\ cmd.verb = "answer" => cmd.answer \in Answers

\* The runner is asked only by a pause step, and leaves with the question.
LEMMA WhileAsking ==
  ASSUME TypeOK, Next, runner'.pc \in Asking
  PROVE  \/ (AskAtPoints \/ AskAfter) /\ srv'.ask /\ cmd' = cmd
         \/ (AnswerGive \/ \E a \in Answers : AnswerTake(a))
         \/ runner' = runner /\ srv'.ask = srv.ask
            /\ (cmd' = cmd \/ cmd.verb # "answer")
<1> USE DEF Asking
<1>0. srv \in Servers /\ runner \in Runners /\ cmd \in Requests
  BY DEF TypeOK
<1>1. CASE Commander
  <2>1. CASE \E n \in 1 .. MaxSubmit : SubmitBegin(n) \/ AddBegin(n)
    BY <1>0, <2>1 DEF SubmitBegin, AddBegin, Listening, NoCmd, Servers
  <2>2. CASE SubmitCommit \/ Refuse
    BY <1>0, <2>2 DEF SubmitCommit, Refuse, Runners
  <2>3. CASE \E p \in 1 .. Len(srv.entries) + 1 : AddCommit(p)
    BY <1>0, <2>3 DEF AddCommit, Servers
  <2>4. CASE \E k \in 1 .. Len(srv.entries) :
               QueueRemove(k) \/ \E to \in 1 .. Len(srv.entries) : QueueMove(k, to)
    BY <1>0, <2>4 DEF QueueRemove, QueueMove, Servers
  <2>5. CASE Abort \/ StopQueue \/ (\E on \in BOOLEAN : Pause(on)) \/ ShutdownIdle \/ ShutdownBusy
    BY <1>0, <2>5 DEF Abort, StopQueue, Pause, ShutdownIdle, ShutdownBusy, AllAborted, Servers
  <2> QED BY <1>1, <2>1, <2>2, <2>3, <2>4, <2>5 DEF Commander
<1>2. CASE Process
  BY <1>0, <1>2 DEF Process, WaiterStops, Interrupt, Stop, Stops, StopAll, StopAnswering, Exit,
                    AllAborted, Servers
<1>3. CASE Runner
  <2>1. ~Take /\ ~QueueEnds /\ ~GoesOn /\ ~StopsItself /\ ~CloseQueue /\ ~EndQueue /\ ~Begin
        /\ ~RunnerBreaks /\ ~Judge /\ ~Conclude
    BY <1>0 DEF Take, QueueEnds, GoesOn, StopsItself, CloseQueue, EndQueue, Begin, RunnerBreaks,
                Judge, Conclude, Runners, NoRunner
  <2>2. \A from, to, how : Engine(from, to, how) => to \in Asking
    BY <1>0 DEF Engine, Runners
  <2>3. ~Claimed /\ ~NotClaimed /\ ~AfterDone /\ ~Resumed /\ ~PointsDone /\ ~PointsFail
        /\ ~StopsBySelf /\ ~AfterFails /\ ~Hold /\ ~Fault /\ ~FaultClears
    BY <2>2 DEF Claimed, NotClaimed, AfterDone, Resumed, PointsDone, PointsFail,
                StopsBySelf, AfterFails, Hold, Fault, FaultClears
  <2>4. ~AnsweredContinue /\ ~AnsweredAbort /\ ~AnsweredAbortAfter /\ ~Noticed
    BY <2>2 DEF AnsweredContinue, AnsweredAbort, AnsweredAbortAfter, Noticed, SeesAbort, CutShort,
                AskingCut, AfterCut
  <2>5. CASE AskAtPoints \/ AskAfter
    BY <1>0, <2>5 DEF AskAtPoints, AskAfter, Ask, Servers
  <2>6. CASE ClearHook
    BY <2>6 DEF ClearHook
  <2> QED BY <1>3, <2>1, <2>3, <2>4, <2>5, <2>6 DEF Runner, Onward
<1> QED BY <1>1, <1>2, <1>3 DEF Next

\* An answer is never lost on its way to the engine.
LEMMA AnswerableStep ==
  ASSUME TypeOK, Answerable, [Next]_vars
  PROVE  Answerable'
<1>0. srv \in Servers /\ runner \in Runners /\ cmd \in Requests
  BY DEF TypeOK
<1>1. cmd'.verb = "answer" => cmd'.answer \in Answers
  <2>1. cmd' = cmd \/ cmd'.verb # "answer" \/ \E a \in Answers : AnswerTake(a)
    <3>1. CASE UNCHANGED vars
      BY <3>1 DEF vars
    <3>2. CASE Process \/ Runner
      BY <3>2 DEF Process, WaiterStops, Interrupt, Stop, Stops, StopAll, StopAnswering, Exit,
        Runner, Onward, Noticed, Take, QueueEnds, GoesOn, StopsItself, CloseQueue, EndQueue, Begin,
        Claimed, NotClaimed, AfterDone, Judge, Conclude, Resumed, AnsweredContinue, AnsweredAbort, AnsweredAbortAfter, SeesAbort, CutShort,
        AskingCut, AfterCut, ClearHook, RunnerBreaks, PointsDone, PointsFail, StopsBySelf,
        AfterFails, Hold, Fault, FaultClears, AskAtPoints, AskAfter, Ask, Engine
    <3>3. CASE Commander
      <4>1. ASSUME NEW n \in 1 .. MaxSubmit, SubmitBegin(n) \/ AddBegin(n)
            PROVE  cmd'.verb # "answer"
        BY <4>1 DEF SubmitBegin, AddBegin, NoCmd
      <4>2. ASSUME NEW k \in 1 .. Len(srv.entries),
                   QueueRemove(k) \/ \E to \in 1 .. Len(srv.entries) : QueueMove(k, to)
            PROVE  cmd' = cmd
        BY <4>2 DEF QueueRemove, QueueMove
      <4>3. (\E p \in 1 .. Len(srv.entries) + 1 : AddCommit(p)) \/ SubmitCommit \/ Refuse
            \/ AnswerGive => cmd' = NoCmd
        BY DEF AddCommit, SubmitCommit, Refuse, AnswerGive
      <4>4. Abort \/ StopQueue \/ (\E on \in BOOLEAN : Pause(on)) \/ ShutdownIdle \/ ShutdownBusy
              => cmd' = cmd
        BY DEF Abort, StopQueue, Pause, ShutdownIdle, ShutdownBusy
      <4> QED BY <3>3, <4>1, <4>2, <4>3, <4>4, NoRequest DEF Commander
    <3> QED BY <3>1, <3>2, <3>3 DEF Next
  <2>2. ASSUME NEW a \in Answers, AnswerTake(a) PROVE cmd'.answer \in Answers
    BY <2>2 DEF AnswerTake, NoCmd
  <2> QED BY <2>1, <2>2 DEF Answerable
<1>2. ASSUME runner'.pc \in Asking
      PROVE  \/ srv'.ask
             \/ runner'.box # "none"
             \/ cmd'.verb = "answer" /\ cmd'.question = runner'.question
  <2>1. CASE UNCHANGED vars
    BY <1>2, <2>1 DEF vars, Answerable, QuestionCanBeAnswered
  <2>2. CASE Next
    <3>1. CASE \E a \in Answers : AnswerTake(a)
      BY <1>0, <3>1 DEF AnswerTake, NoCmd
    <3>2. CASE AnswerGive
      <4>1. runner.pc \in Asking /\ srv' = srv
        BY <1>0, <1>2, <3>2 DEF AnswerGive, Runners
      <4>2. cmd.answer # "none"
        BY <3>2 DEF AnswerGive, Answerable, Answers
      <4> QED BY <1>0, <3>2, <4>1, <4>2 DEF AnswerGive, Answerable, QuestionCanBeAnswered, Runners
    <3> QED BY <1>2, <2>2, <3>1, <3>2, WhileAsking DEF Answerable, QuestionCanBeAnswered
  <2> QED BY <2>1, <2>2
<1> QED BY <1>1, <1>2 DEF Answerable, QuestionCanBeAnswered

\* The scan never waits for an answer that cannot be given: its question is on
\* show, or its answer is on the way.
THEOREM QuestionsStayAnswerable == Spec => []QuestionCanBeAnswered
<1>1. Init => Answerable
  BY DEF Init, NoCmd, NoRunner, Answerable, QuestionCanBeAnswered, Asking
<1>2. IInv /\ Answerable /\ [Next]_vars => Answerable'
  BY AnswerableStep DEF IInv
<1>3. Answerable => QuestionCanBeAnswered
  BY DEF Answerable
<1> QED BY <1>1, <1>2, <1>3, Invariant, PTL DEF Spec

-----------------------------------------------------------------------------
(* The line of scans: the part of the list behind a place *)

Rest(s, q) == SubSeq(s, q + 1, Len(s))

LEMMA RestOf ==
  ASSUME NEW S, NEW s \in Seq(S), NEW q \in 0 .. Len(s)
  PROVE  /\ Rest(s, q) \in Seq(S)
         /\ Len(Rest(s, q)) = Len(s) - q
         /\ \A i \in 1 .. Len(s) - q : Rest(s, q)[i] = s[q + i]
<1>0. Len(s) \in Nat /\ q \in Nat
  BY LenProperties
<1>1. \A i \in q + 1 .. Len(s) : s[i] \in S
  BY <1>0, ElementOfSeq
<1> DEFINE b == SubSeq(s, q + 1, Len(s))
<1>2. /\ b \in Seq(S) /\ Len(b) = IF q + 1 <= Len(s) THEN Len(s) - (q + 1) + 1 ELSE 0
      /\ \A i \in 1 .. Len(s) - (q + 1) + 1 : b[i] = s[q + 1 + i - 1]
  BY <1>0, <1>1, SubSeqProperties
<1>3. \A i \in 1 .. Len(s) - q : i \in 1 .. Len(s) - (q + 1) + 1 /\ q + 1 + i - 1 = q + i
  BY <1>0
<1>4. Rest(s, q) = b
  BY DEF Rest
<1> HIDE DEF b
<1>5. \A i \in 1 .. Len(s) - q : b[i] = s[q + i]
  <2> TAKE i \in 1 .. Len(s) - q
  <2>1. b[i] = s[q + 1 + i - 1]
    BY <1>2, <1>3
  <2> QED BY <1>3, <2>1
<1> QED BY <1>0, <1>2, <1>4, <1>5

\* Splicing behind q splices the rest, and the new part can be read off it.
LEMMA RestOfSpliced ==
  ASSUME NEW S, NEW s \in Seq(S), NEW new \in Seq(S), NEW p \in 1 .. Len(s) + 1,
         NEW q \in 0 .. Len(s), q < p
  PROVE  /\ p - q \in 1 .. Len(Rest(s, q)) + 1
         /\ Rest(Spliced(s, p, new), q) = Spliced(Rest(s, q), p - q, new)
         /\ SubSeq(Spliced(Rest(s, q), p - q, new), p - q, p - q + Len(new) - 1) = new
<1> DEFINE r == Rest(s, q)
           m == Spliced(s, p, new)
           n == Spliced(r, p - q, new)
           t == Rest(m, q)
           c == SubSeq(n, p - q, p - q + Len(new) - 1)
<1>0. Len(s) \in Nat /\ Len(new) \in Nat /\ p \in Nat /\ q \in Nat
  BY LenProperties
<1>1. /\ r \in Seq(S) /\ Len(r) = Len(s) - q
      /\ \A i \in 1 .. Len(s) - q : r[i] = s[q + i]
  BY RestOf
<1>2. p - q \in 1 .. Len(r) + 1
  BY <1>0, <1>1
<1>3. /\ m \in Seq(S) /\ Len(m) = Len(s) + Len(new)
      /\ \A i \in 1 .. Len(s) + Len(new) :
           m[i] = IF i < p THEN s[i]
                  ELSE IF i < p + Len(new) THEN new[i - p + 1]
                  ELSE s[i - Len(new)]
  BY ZenonT(60), SplicedScans
<1> HIDE DEF r, m
<1>4. /\ n \in Seq(S) /\ Len(n) = Len(r) + Len(new)
      /\ \A i \in 1 .. Len(r) + Len(new) :
           n[i] = IF i < p - q THEN r[i]
                  ELSE IF i < p - q + Len(new) THEN new[i - (p - q) + 1]
                  ELSE r[i - Len(new)]
  BY <1>1, <1>2, ZenonT(60), SplicedScans
<1> HIDE DEF n
<1>5. /\ t \in Seq(S) /\ Len(t) = Len(m) - q
      /\ \A i \in 1 .. Len(m) - q : t[i] = m[q + i]
  <2>1. q \in 0 .. Len(m)
    BY <1>0, <1>3
  <2> QED BY ZenonT(60), <1>3, <2>1, RestOf
<1> HIDE DEF t
<1>6. Len(t) = Len(n)
  BY <1>0, <1>1, <1>3, <1>4, <1>5
<1>7. ASSUME NEW i \in 1 .. Len(t) PROVE t[i] = n[i]
  <2> DEFINE j == q + i
             k == i - Len(new)
  <2>x. i \in 1 .. Len(s) - q + Len(new)
    <3>1. Len(t) = Len(s) - q + Len(new)
      BY <1>0, <1>1, <1>4, <1>6
    <3> QED BY <3>1
  <2>0. /\ i \in Nat /\ j \in Nat /\ j \in 1 .. Len(s) + Len(new)
        /\ i \in 1 .. Len(r) + Len(new) /\ i \in 1 .. Len(m) - q /\ j = q + i /\ k \in Int
    <3>1. Len(r) + Len(new) = Len(s) - q + Len(new) /\ Len(m) - q = Len(s) - q + Len(new)
      BY <1>0, <1>1, <1>3
    <3>2. i \in Nat /\ j \in Nat /\ j \in 1 .. Len(s) + Len(new) /\ k \in Int
      BY <1>0, <2>x
    <3> QED BY <2>x, <3>1, <3>2
  <2>1. t[i] = m[j]
    BY <1>5, <2>0
  <2>2. /\ j < p <=> i < p - q
        /\ j < p + Len(new) <=> i < p - q + Len(new)
        /\ j < p => i \in 1 .. Len(s) - q
        /\ ~(j < p + Len(new)) => k \in 1 .. Len(s) - q /\ q + k = j - Len(new)
        /\ i - (p - q) + 1 = j - p + 1
    <3>1. /\ j < p <=> i < p - q
          /\ j < p + Len(new) <=> i < p - q + Len(new)
      <4>1. ASSUME NEW u \in Nat, NEW v \in Nat, NEW w \in Nat, NEW x \in Nat
            PROVE  /\ u + v < w <=> v < w - u
                   /\ u + v < w + x <=> v < w - u + x
        OBVIOUS
      <4> QED BY <1>0, <2>x, <4>1
    <3>2. j < p => i \in 1 .. Len(s) - q
      BY <1>0, <2>x
    <3>3. ~(j < p + Len(new)) => k \in 1 .. Len(s) - q
      BY <1>0, <2>x
    <3>4. q + k = j - Len(new) /\ i - (p - q) + 1 = j - p + 1
      BY <1>0, <2>x
    <3> QED BY <3>1, <3>2, <3>3, <3>4
  <2>3. m[j] = IF j < p THEN s[j] ELSE IF j < p + Len(new) THEN new[j - p + 1]
               ELSE s[j - Len(new)]
    BY <1>3, <2>0
  <2>4. n[i] = IF i < p - q THEN r[i]
               ELSE IF i < p - q + Len(new) THEN new[i - (p - q) + 1] ELSE r[k]
    BY <1>4, <2>0
  <2> HIDE DEF j, k
  <2>5. j < p => r[i] = s[j]
    BY <1>1, <2>0, <2>2
  <2>6. ~(j < p + Len(new)) => r[k] = s[j - Len(new)]
    BY <1>1, <2>2
  <2> QED BY <2>1, <2>2, <2>3, <2>4, <2>5, <2>6
<1>8. t = n
  BY <1>4, <1>5, <1>6, <1>7, SeqEqual
<1>9. c = new
  <2>0. /\ p - q \in 1 .. Len(n) + 1 /\ p - q + Len(new) - 1 \in p - q - 1 .. Len(n)
        /\ p - q + Len(new) - 1 - (p - q) + 1 = Len(new)
    BY <1>0, <1>1, <1>2, <1>4
  <2>1. \A i \in p - q .. p - q + Len(new) - 1 : n[i] \in S
    <3>1. \A i \in p - q .. p - q + Len(new) - 1 : i \in 1 .. Len(n)
      BY <1>0, <2>0
    <3> QED BY <1>4, <3>1, ElementOfSeq
  <2>2. /\ c \in Seq(S)
        /\ Len(c) = IF p - q <= p - q + Len(new) - 1
                    THEN p - q + Len(new) - 1 - (p - q) + 1 ELSE 0
        /\ \A i \in 1 .. p - q + Len(new) - 1 - (p - q) + 1 : c[i] = n[p - q + i - 1]
    BY SMTT(30), <1>0, <1>2, <2>0, <2>1, SubSeqProperties
  <2> HIDE DEF c
  <2>3. Len(c) = Len(new)
    BY <1>0, <2>2
  <2>4. ASSUME NEW i \in 1 .. Len(c) PROVE c[i] = new[i]
    <3>1. c[i] = n[p - q + i - 1]
      BY <2>0, <2>2, <2>3
    <3>2. /\ p - q + i - 1 \in 1 .. Len(r) + Len(new) /\ ~(p - q + i - 1 < p - q)
          /\ p - q + i - 1 < p - q + Len(new) /\ p - q + i - 1 - (p - q) + 1 = i
      BY <1>0, <1>1, <1>2, <2>3
    <3>3. n[p - q + i - 1] = new[p - q + i - 1 - (p - q) + 1]
      BY <1>4, <3>2
    <3> QED BY <3>1, <3>2, <3>3
  <2> QED BY <2>2, <2>3, <2>4, SeqEqual
<1> QED BY <1>2, <1>8, <1>9 DEF r, m, n, t, c

\* So do taking a scan out, putting one in and moving one.
LEMMA RestOfRemoved ==
  ASSUME NEW S, NEW s \in Seq(S), NEW k \in 1 .. Len(s), NEW q \in 0 .. Len(s), q < k
  PROVE  /\ k - q \in 1 .. Len(Rest(s, q))
         /\ Rest(s, q)[k - q] = s[k]
         /\ Rest(RemoveAt(s, k), q) = RemoveAt(Rest(s, q), k - q)
<1> DEFINE r == Rest(s, q)
           m == RemoveAt(s, k)
           n == RemoveAt(r, k - q)
           t == Rest(m, q)
<1>0. Len(s) \in Nat /\ k \in Nat /\ q \in Nat
  BY LenProperties
<1>1. /\ r \in Seq(S) /\ Len(r) = Len(s) - q
      /\ \A i \in 1 .. Len(s) - q : r[i] = s[q + i]
  BY RestOf
<1>2. /\ m \in Seq(S) /\ Len(m) = Len(s) - 1
      /\ \A i \in 1 .. Len(s) - 1 : m[i] = IF i < k THEN s[i] ELSE s[i + 1]
  BY RemovedScan
<1> HIDE DEF r, m
<1>3. k - q \in 1 .. Len(r) /\ q + (k - q) = k /\ k - q \in 1 .. Len(s) - q
  BY <1>0, <1>1
<1>4. /\ n \in Seq(S) /\ Len(n) = Len(r) - 1
      /\ \A i \in 1 .. Len(r) - 1 : n[i] = IF i < k - q THEN r[i] ELSE r[i + 1]
  BY <1>1, <1>3, RemovedScan
<1> HIDE DEF n
<1>5. /\ t \in Seq(S) /\ Len(t) = Len(m) - q
      /\ \A i \in 1 .. Len(m) - q : t[i] = m[q + i]
  <2>1. q \in 0 .. Len(m)
    BY <1>0, <1>2
  <2>2. m \in Seq(S)
    BY <1>2
  <2> QED BY <2>1, <2>2, RestOf
<1> HIDE DEF t
<1>6. Len(t) = Len(s) - 1 - q /\ Len(n) = Len(s) - 1 - q
  BY <1>0, <1>1, <1>2, <1>4, <1>5
<1>7. ASSUME NEW i \in 1 .. Len(s) - 1 - q PROVE t[i] = n[i]
  <2> DEFINE j == q + i
  <2>0. j \in 1 .. Len(s) - 1 /\ i \in 1 .. Len(r) - 1 /\ i \in 1 .. Len(m) - q /\ j = q + i
    BY <1>0, <1>1, <1>2
  <2>1. /\ i \in 1 .. Len(s) - q /\ i + 1 \in 1 .. Len(s) - q
        /\ q + (i + 1) = j + 1
    BY <1>0
  <2>2. j < k <=> i < k - q
    BY <1>0
  <2>3. t[i] = m[j]
    BY <1>5, <2>0
  <2> HIDE DEF j
  <2>4. r[i] = s[j] /\ r[i + 1] = s[j + 1]
    BY <1>1, <2>0, <2>1
  <2>5. m[j] = IF j < k THEN s[j] ELSE s[j + 1]
    BY <1>2, <2>0
  <2>6. n[i] = IF i < k - q THEN r[i] ELSE r[i + 1]
    BY <1>4, <2>0
  <2> QED BY <2>2, <2>3, <2>4, <2>5, <2>6
<1>8. t = n
  BY <1>4, <1>5, <1>6, <1>7, SeqEqual
<1>9. r[k - q] = s[k]
  BY <1>1, <1>3
<1> QED BY <1>3, <1>8, <1>9 DEF r, m, n, t

LEMMA RestOfInserted ==
  ASSUME NEW S, NEW s \in Seq(S), NEW x \in S, NEW p \in 1 .. Len(s) + 1,
         NEW q \in 0 .. Len(s), q < p
  PROVE  Rest(InsertAt(s, p, x), q) = InsertAt(Rest(s, q), p - q, x)
<1> DEFINE e == <<x>>
<1>1. e \in Seq(S)
  OBVIOUS
<1>2. \A l, i : InsertAt(l, i, x) = Spliced(l, i, e)
  BY DEF InsertAt, Spliced
<1> HIDE DEF e
<1>3. Rest(Spliced(s, p, e), q) = Spliced(Rest(s, q), p - q, e)
  BY <1>1, RestOfSpliced
<1> QED BY <1>2, <1>3

LEMMA RestOfMoved ==
  ASSUME NEW S, NEW s \in Seq(S), NEW k \in 1 .. Len(s), NEW to \in 1 .. Len(s),
         NEW q \in 0 .. Len(s), q < k, q < to
  PROVE  /\ k - q \in 1 .. Len(Rest(s, q)) /\ to - q \in 1 .. Len(Rest(s, q))
         /\ Rest(InsertAt(RemoveAt(s, k), to, s[k]), q) =
              InsertAt(RemoveAt(Rest(s, q), k - q), to - q, Rest(s, q)[k - q])
<1> DEFINE x == s[k]
           m == RemoveAt(s, k)
<1>0. Len(s) \in Nat /\ k \in Nat /\ q \in Nat /\ to \in Nat
  BY LenProperties
<1>1. Len(Rest(s, q)) = Len(s) - q
  BY RestOf
<1>2. to - q \in 1 .. Len(Rest(s, q))
  BY <1>0, <1>1
<1>3. /\ k - q \in 1 .. Len(Rest(s, q)) /\ Rest(s, q)[k - q] = x
      /\ Rest(m, q) = RemoveAt(Rest(s, q), k - q)
  BY RestOfRemoved
<1>4. m \in Seq(S) /\ Len(m) = Len(s) - 1 /\ x \in S
  BY RemovedScan, ElementOfSeq
<1> HIDE DEF x, m
<1>5. to \in 1 .. Len(m) + 1 /\ q \in 0 .. Len(m)
  BY <1>0, <1>4
<1>6. Rest(InsertAt(m, to, x), q) = InsertAt(Rest(m, q), to - q, x)
  BY <1>4, <1>5, RestOfInserted
<1> QED BY <1>2, <1>3, <1>6 DEF x, m

-----------------------------------------------------------------------------
(* The server keeps the line: ScanServer implements ScanQueue *)

\* What the clients see of the server, beside Waiting.
AtWork == IF runner.pc \in InScan THEN runner.scan ELSE 0
Known == (1 .. srv.nextId - 1) \ ToSet(cmd.scans)
Halted == srv.stopping \/ srv.lastError

\* Nothing runs after a failure; only a scan that failed may still be looked
\* at.  And a request has something to ask for.
Healthy ==
  /\ runner.pc \in InScan \cup {"pick"} => ~srv.lastError
  /\ runner.pc = "ended" /\ srv.lastError => srv.result[runner.scan] = "error"
  /\ cmd.verb \in {"submit", "add"} => Len(cmd.scans) > 0

\* Such a step leaves the list and the running scan alone.
Untouched ==
  /\ srv'.busy = srv.busy /\ srv'.entries = srv.entries /\ srv'.qi = srv.qi
  /\ srv'.lastError = srv.lastError /\ srv'.result = srv.result
  /\ runner'.pc = runner.pc /\ runner'.scan = runner.scan

LEMMA UntouchedSeen ==
  ASSUME Untouched
  PROVE  Waiting' = Waiting /\ AtWork' = AtWork
  BY DEF Untouched, Waiting, AtWork

\* A step the clients do not see, or the end of a refused request.
LEMMA Aside ==
  ASSUME Waiting' = Waiting, AtWork' = AtWork, Halted' = Halted, Known \subseteq Known'
  PROVE  Line!Refused
  BY DEF Line!Refused, AtWork, Known, Halted, InScan, Line!ToSet, ToSet

\* A stop.
LEMMA Halts ==
  ASSUME Waiting' = Waiting, AtWork' = AtWork, Halted', Known' = Known
  PROVE  Line!StopLine
  BY DEF Line!StopLine, AtWork, Known, Halted, InScan, Line!ToSet, ToSet

\* The end of a scan.
LEMMA Finishes ==
  ASSUME Waiting' = Waiting, AtWork # 0, AtWork' = 0, Halted => Halted', Known' = Known
  PROVE  Line!Finish
<1>1. Halted' \in {Halted, TRUE}
  BY DEF Halted
<1> QED BY <1>1 DEF Line!Finish, AtWork, Known, Halted, InScan, Line!ToSet, ToSet

\* No request waits: every scan that was handed out is known.
LEMMA AllKnown ==
  ASSUME TypeOK
  PROVE  /\ cmd = NoCmd => Known = 1 .. srv.nextId - 1
         /\ cmd' = NoCmd => Known' = 1 .. srv'.nextId - 1
  BY DEF Known, NoCmd, ToSet

\* The steps beside the line, at the start of a request, and within a scan.
LEMMA BesideTheLine ==
  ASSUME IInv,
         Quiet \/ Abort \/ Inside \/ (\E n \in 1 .. MaxSubmit : SubmitBegin(n) \/ AddBegin(n))
  PROVE  /\ srv'.busy = srv.busy /\ srv'.entries = srv.entries /\ srv'.qi = srv.qi
         /\ srv'.lastError = srv.lastError /\ srv'.result = srv.result
         /\ srv'.stopping = srv.stopping /\ runner'.scan = runner.scan
         /\ runner'.pc = runner.pc \/ (runner.pc \in InScan /\ runner'.pc \in InScan)
         /\ Known \subseteq Known'
         /\ cmd' = cmd \/ cmd'.verb \notin {"submit", "add"} \/ Len(cmd'.scans) > 0
<1>0. TypeOK /\ srv \in Servers /\ runner \in Runners /\ srv.nextId \in Nat
  BY BoundsAssumption DEF IInv, TypeOK, Servers
<1>1. ASSUME UNCHANGED runner, srv' = srv \/ (\E b \in BOOLEAN : srv' = [srv EXCEPT !.userPause = b])
                               \/ srv' = [srv EXCEPT !.ask = FALSE] \/ srv' = [srv EXCEPT !.abort = TRUE],
             cmd' = cmd \/ (cmd'.scans = <<>> /\ cmd'.verb \notin {"submit", "add"})
      PROVE  /\ srv'.busy = srv.busy /\ srv'.entries = srv.entries /\ srv'.qi = srv.qi
             /\ srv'.lastError = srv.lastError /\ srv'.result = srv.result
             /\ srv'.stopping = srv.stopping /\ UNCHANGED runner
             /\ Known \subseteq Known'
             /\ cmd' = cmd \/ cmd'.verb \notin {"submit", "add"}
  <2>1. /\ srv'.busy = srv.busy /\ srv'.entries = srv.entries /\ srv'.qi = srv.qi
        /\ srv'.lastError = srv.lastError /\ srv'.result = srv.result
        /\ srv'.stopping = srv.stopping /\ srv'.nextId = srv.nextId
    BY <1>0, <1>1 DEF Servers
  <2>2. ToSet(<<>>) = {}
    BY DEF ToSet
  <2>3. Known \subseteq Known'
    BY <1>1, <2>1, <2>2 DEF Known
  <2> QED BY <1>1, <2>1, <2>3
<1>2. CASE Refuse \/ ClearHook \/ ShutdownIdle \/ WaiterStops \/ StopAnswering \/ Exit \/ Abort
  <2>1. NoCmd.scans = <<>> /\ NoCmd.verb = "none"
    BY DEF NoCmd
  <2>2. UNCHANGED runner /\ (srv' = srv \/ srv' = [srv EXCEPT !.abort = TRUE]) /\ cmd' \in {cmd, NoCmd}
    BY <1>2 DEF Refuse, ClearHook, ShutdownIdle, WaiterStops, StopAnswering, Exit, Abort
  <2> QED BY <1>1, <2>1, <2>2
<1>3. ASSUME NEW on \in BOOLEAN, Pause(on)
      PROVE  UNCHANGED <<runner, cmd>> /\ srv' = [srv EXCEPT !.userPause = on]
  BY <1>3 DEF Pause
<1>4. ASSUME NEW a \in Answers, AnswerTake(a)
      PROVE  /\ UNCHANGED runner /\ srv' = [srv EXCEPT !.ask = FALSE]
             /\ cmd'.scans = <<>> /\ cmd'.verb = "answer"
  BY <1>4 DEF AnswerTake, NoCmd
<1>5. CASE AnswerGive
  <2>1. srv' = srv /\ cmd' = NoCmd
    BY <1>5 DEF AnswerGive
  <2>2. runner'.pc = runner.pc /\ runner'.scan = runner.scan
    BY <1>0, <1>5 DEF AnswerGive, Runners
  <2>3. ToSet(<<>>) = {} /\ NoCmd.scans = <<>> /\ NoCmd.verb = "none"
    BY DEF ToSet, NoCmd
  <2>4. Known \subseteq Known'
    BY <2>1, <2>3 DEF Known
  <2> QED BY <2>1, <2>2, <2>3, <2>4
<1>6. CASE Inside
  <2>1. EngineStep
    BY <1>6, InsideIs
  <2>2. PICK to \in Working, how \in Ends, q \in 0 .. MaxQuestions,
             b \in Answers \cup {"none"} : MovesTo(to, how, q, b)
    BY <2>1 DEF EngineStep
  <2>3. runner'.pc \in InScan /\ runner'.scan = runner.scan
    BY <1>0, <2>2 DEF MovesTo, Runners, Working
  <2>4. PICK f \in BOOLEAN, a \in BOOLEAN : srv' = [srv EXCEPT !.faults = f, !.ask = a]
    BY <2>1 DEF EngineStep
  <2>5. /\ srv'.busy = srv.busy /\ srv'.entries = srv.entries /\ srv'.qi = srv.qi
        /\ srv'.lastError = srv.lastError /\ srv'.result = srv.result
        /\ srv'.stopping = srv.stopping /\ srv'.nextId = srv.nextId
    BY <1>0, <2>4 DEF Servers
  <2>6. runner.pc \in InScan /\ cmd' = cmd
    BY <2>1 DEF EngineStep, Working
  <2>7. Known \subseteq Known'
    BY <2>5, <2>6 DEF Known
  <2> QED BY <2>3, <2>5, <2>6, <2>7
<1>7. ASSUME NEW n \in 1 .. MaxSubmit, SubmitBegin(n) \/ AddBegin(n)
      PROVE  /\ srv'.busy = srv.busy /\ srv'.entries = srv.entries /\ srv'.qi = srv.qi
             /\ srv'.lastError = srv.lastError /\ srv'.result = srv.result
             /\ srv'.stopping = srv.stopping /\ UNCHANGED runner
             /\ Known \subseteq Known'
             /\ Len(cmd'.scans) > 0
  <2> DEFINE next == srv.nextId + n
             new == Fresh(n)
  <2>1. /\ srv.nextId + n <= MaxScans + 1 /\ srv' = [srv EXCEPT !.nextId = next]
        /\ cmd'.scans = new /\ UNCHANGED runner
    BY <1>7 DEF SubmitBegin, AddBegin, NoCmd
  <2>2. /\ new \in Seq(Scans) /\ Len(new) = n
        /\ \A k \in 1 .. n : new[k] = srv.nextId + k - 1
    BY <1>0, <2>1, FreshScans
  <2>3. n \in Nat /\ n > 0 /\ DOMAIN new = 1 .. n /\ next \in Nat /\ srv.nextId <= next
    BY <1>0, <2>2, LenProperties, BoundsAssumption
  <2>4. ASSUME NEW e \in 1 .. srv.nextId - 1 PROVE e \in 1 .. next - 1 /\ e \notin ToSet(new)
    <3>1. \A k \in 1 .. n : new[k] >= srv.nextId
      BY <1>0, <2>2, <2>3
    <3>2. e \notin ToSet(new)
      BY <1>0, <2>3, <3>1 DEF ToSet
    <3> QED BY <1>0, <2>3, <3>2
  <2> HIDE DEF next, new
  <2>5. /\ srv'.busy = srv.busy /\ srv'.entries = srv.entries /\ srv'.qi = srv.qi
        /\ srv'.lastError = srv.lastError /\ srv'.result = srv.result
        /\ srv'.stopping = srv.stopping /\ srv'.nextId = next
    BY <1>0, <2>1 DEF Servers
  <2>6. Known \subseteq Known'
    BY <2>1, <2>4, <2>5 DEF Known
  <2> QED BY SMTT(30), <2>1, <2>2, <2>3, <2>5, <2>6
<1>8. CASE \E on \in BOOLEAN : Pause(on)
  BY <1>1, <1>3, <1>8
<1>9. CASE \E a \in Answers : AnswerTake(a)
  BY <1>1, <1>4, <1>9
<1>10. CASE \E n \in 1 .. MaxSubmit : SubmitBegin(n) \/ AddBegin(n)
  BY <1>7, <1>10
<1> QED BY <1>1, <1>2, <1>5, <1>6, <1>8, <1>9, <1>10 DEF Quiet

\* A stop of the queue, while there is one.
LEMMA PressesStopTheLine ==
  ASSUME IInv, StopQueue \/ ShutdownBusy \/ (Stops /\ srv.busy)
  PROVE  Untouched /\ cmd' = cmd /\ Line!StopLine
<1>0. srv \in Servers
  BY DEF IInv, TypeOK
<1>1. srv' = AllAborted(srv) /\ UNCHANGED <<runner, cmd>>
  BY DEF StopQueue, ShutdownBusy, Stops, StopAll
<1>2. Untouched /\ Halted' /\ srv'.nextId = srv.nextId
  BY <1>0, <1>1 DEF AllAborted, Servers, Untouched, Halted
<1>3. Known' = Known
  BY <1>1, <1>2 DEF Known
<1> QED BY <1>1, <1>2, <1>3, UntouchedSeen, Halts

\* The steps of the runner between two scans.
LEMMA RunnerLeavesTheLine ==
  ASSUME IInv, Healthy, QueueEnds \/ GoesOn \/ StopsItself \/ CloseQueue
  PROVE  Line!Refused \/ Line!StopLine
<1>0. srv \in Servers /\ runner \in Runners
  BY DEF IInv, TypeOK
<1>1. UNCHANGED cmd /\ runner'.pc \notin InScan /\ runner.pc \notin InScan
  BY <1>0 DEF QueueEnds, GoesOn, StopsItself, CloseQueue, Runners, InScan, Scanning, Asking
<1>2. /\ srv'.busy = srv.busy /\ srv'.entries = srv.entries /\ srv'.qi = srv.qi
      /\ srv'.lastError = srv.lastError /\ srv'.nextId = srv.nextId
      /\ IF StopsItself THEN srv'.stopping ELSE srv'.stopping = srv.stopping
  <2>1. srv' = srv \/ srv' = [srv EXCEPT !.open = FALSE] \/ StopsItself
    BY DEF QueueEnds, GoesOn, CloseQueue
  <2>2. StopsItself => srv' = [srv EXCEPT !.stopping = TRUE]
    BY DEF StopsItself
  <2>3. StopsItself => runner'.pc = "ending" /\ runner.pc = "ended"
    BY <1>0 DEF StopsItself, Runners
  <2> QED BY <1>0, <2>1, <2>2, <2>3 DEF Servers, QueueEnds, GoesOn, CloseQueue
<1>3. Waiting' = Waiting /\ AtWork' = AtWork /\ Known' = Known
  BY <1>1, <1>2 DEF Waiting, AtWork, Known
<1>4. Halted' = Halted \/ Halted'
  BY <1>2 DEF Halted
<1> QED BY <1>3, <1>4, Aside, Halts

\* The rest of a stopped queue is given up; a queue that ran dry has none.
LEMMA EndsTheLine ==
  ASSUME IInv, EndQueue
  PROVE  Line!Refused \/ Line!GiveUp
<1>0. srv \in Servers /\ runner \in Runners
  BY DEF IInv, TypeOK
<1>1. /\ srv' = Idle(srv) /\ UNCHANGED cmd /\ runner.pc = "closing" /\ runner'.pc = "none"
  BY DEF EndQueue, NoRunner
<1>2. /\ ~srv'.busy /\ srv'.lastError = srv.lastError /\ srv'.nextId = srv.nextId
      /\ srv'.stopping = srv.stopping
  BY <1>0, <1>1 DEF Idle, ScanReset, Servers
<1>3. Waiting' = <<>> /\ AtWork' = 0 /\ AtWork = 0 /\ Known' = Known /\ Halted' = Halted
  BY <1>1, <1>2 DEF Waiting, AtWork, Known, Halted, InScan, Scanning, Asking
<1>4. CASE Halted
  BY <1>3, <1>4 DEF Line!GiveUp, AtWork, Known, Halted, InScan, Line!ToSet, ToSet
<1>5. CASE ~Halted
  <2>1. \A k \in 1 .. Len(srv.entries) : ~(k > srv.qi)
    BY <1>1, <1>5, ListFacts DEF IInv, RanDry, Halted, NeitherTwiceNorSkipped
  <2>2. Len(srv.entries) \in Nat /\ srv.qi \in Nat /\ srv.qi <= Len(srv.entries)
    BY Listed
  <2>3. srv.qi = Len(srv.entries)
    <3>1. Len(srv.entries) = 0 \/ Len(srv.entries) \in 1 .. Len(srv.entries)
      BY <2>2
    <3> QED BY <2>1, <2>2, <3>1
  <2>4. Waiting = <<>>
    BY <2>2, <2>3, SubSeqEmpty DEF Waiting
  <2> QED BY <1>3, <2>4, Aside
<1> QED BY <1>4, <1>5

\* A scan ends, or the runner breaks over it.
LEMMA EndsTheScan ==
  ASSUME IInv, Conclude \/ RunnerBreaks
  PROVE  Line!Finish
<1>0. srv \in Servers /\ runner \in Runners
  BY DEF IInv, TypeOK
<1>1. /\ runner.pc \in InScan /\ runner'.pc \notin InScan /\ UNCHANGED cmd
  BY <1>0 DEF Conclude, RunnerBreaks, Runners, InScan, Scanning, Asking
<1>2. /\ srv'.busy = srv.busy /\ srv'.entries = srv.entries /\ srv'.qi = srv.qi
      /\ srv'.nextId = srv.nextId /\ srv'.stopping = srv.stopping
      /\ srv.lastError => srv'.lastError
  <2>1. CASE RunnerBreaks
    BY <1>0, <2>1 DEF RunnerBreaks, Servers
  <2>2. CASE Conclude
    <3>1. \E f, h : srv' = [srv EXCEPT !.result = f, !.lastError = srv.lastError \/ h,
                              !.ask = FALSE, !.faults = FALSE]
      BY <2>2 DEF Conclude
    <3> QED BY <1>0, <3>1 DEF Servers
  <2> QED BY <2>1, <2>2
<1>3. runner.scan # 0
  BY <1>1, RunningScan DEF IInv, Scans
<1>4. /\ Waiting' = Waiting /\ AtWork # 0 /\ AtWork' = 0 /\ Known' = Known
      /\ Halted => Halted'
  BY <1>1, <1>2, <1>3 DEF Waiting, AtWork, Known, Halted
<1> QED BY <1>4, Finishes

\* While the runner judges its scan, the clients see nothing of it.
LEMMA JudgesTheScan ==
  ASSUME IInv, Judge
  PROVE  /\ Line!Refused
         /\ runner.pc \in InScan /\ runner'.pc \in InScan
         /\ srv'.lastError = srv.lastError /\ cmd' = cmd
<1>0. srv \in Servers /\ runner \in Runners
  BY DEF IInv, TypeOK
<1>1. /\ runner.pc \in InScan /\ runner'.pc \in InScan /\ runner'.scan = runner.scan
      /\ UNCHANGED cmd
  BY <1>0 DEF Judge, Runners, InScan, Scanning
<1>2. \E f, g : srv' = srv \/ srv' = [srv EXCEPT !.result = f, !.stoppedBySelf = g]
  BY DEF Judge
<1>3. /\ srv'.busy = srv.busy /\ srv'.entries = srv.entries /\ srv'.qi = srv.qi
      /\ srv'.nextId = srv.nextId /\ srv'.stopping = srv.stopping
      /\ srv'.lastError = srv.lastError
  BY <1>0, <1>2 DEF Servers
<1>4. Waiting' = Waiting /\ AtWork' = AtWork /\ Halted' = Halted /\ Known' = Known
  BY <1>1, <1>3 DEF Waiting, AtWork, Halted, Known
<1> QED BY <1>1, <1>3, <1>4, Aside

\* The next scan of the line is the one that starts.
LEMMA StartsTheHead ==
  ASSUME IInv, Healthy, Take
  PROVE  Line!Start
<1>0. srv \in Servers /\ runner \in Runners
  BY DEF IInv, TypeOK
<1> DEFINE q == srv.qi + 1
           x == srv.entries[q]
<1>1. /\ runner.pc = "pick" /\ ~srv.stopping /\ srv.qi < Len(srv.entries)
      /\ srv' = Taken(srv) /\ runner'.pc = "begin" /\ runner'.scan = x /\ UNCHANGED cmd
  BY <1>0 DEF Take, More, Runners
<1>2. /\ srv'.busy = srv.busy /\ srv'.entries = srv.entries /\ srv'.qi = q
      /\ srv'.lastError = srv.lastError /\ srv'.nextId = srv.nextId
      /\ srv'.stopping = srv.stopping
  BY <1>0, <1>1 DEF Taken, ScanReset, Servers
<1>3. /\ srv.busy /\ ~srv.lastError
  BY <1>1 DEF IInv, Attached, Healthy
<1>4. /\ srv.entries \in Seq(Scans) /\ Len(srv.entries) \in Nat /\ srv.qi \in Nat
      /\ q \in 1 .. Len(srv.entries) /\ Len(srv.entries) \in q .. Len(srv.entries)
  BY <1>1, Listed
<1> HIDE DEF q
<1>5. Waiting = SubSeq(srv.entries, q, Len(srv.entries))
  BY <1>3 DEF Waiting, q
<1>6. Waiting' = SubSeq(srv.entries, q + 1, Len(srv.entries))
  BY <1>2, <1>3 DEF Waiting
<1>7. Head(Waiting) = x /\ Tail(Waiting) = Waiting'
  BY <1>4, <1>5, <1>6, HeadTailOfSubSeq
<1>8. Waiting # <<>>
  <2>1. Len(Rest(srv.entries, srv.qi)) = Len(srv.entries) - srv.qi
    <3>1. srv.qi \in 0 .. Len(srv.entries)
      BY <1>4, Listed
    <3> QED BY <1>4, <3>1, RestOf
  <2>2. Waiting = Rest(srv.entries, srv.qi)
    BY <1>3 DEF Waiting, Rest
  <2> QED BY <1>1, <1>4, <2>1, <2>2, EmptySeq
<1>9. AtWork = 0 /\ AtWork' = x /\ Known' = Known /\ ~Halted /\ ~Halted'
  BY <1>1, <1>2, <1>3 DEF AtWork, Known, Halted, InScan, Scanning, Asking
<1> QED BY <1>7, <1>8, <1>9
        DEF Line!Start, AtWork, Known, Halted, InScan, Line!ToSet, ToSet

\* What a request brings is new to the line.
LEMMA NewToTheLine ==
  ASSUME IInv, Healthy, cmd.verb \in {"submit", "add"}, cmd' = NoCmd,
         srv'.nextId = srv.nextId
  PROVE  /\ cmd.scans \in Seq(Scans) /\ Len(cmd.scans) \in Nat /\ Len(cmd.scans) > 0
         /\ DOMAIN cmd.scans = 1 .. Len(cmd.scans)
         /\ ToSet(cmd.scans) \cap Known = {}
         /\ Known' = Known \cup ToSet(cmd.scans)
<1>0. cmd \in Requests /\ srv \in Servers
  BY DEF IInv, TypeOK
<1>1. /\ cmd.scans \in Seq(Scans) /\ Len(cmd.scans) \in Nat /\ Len(cmd.scans) > 0
      /\ DOMAIN cmd.scans = 1 .. Len(cmd.scans)
  BY <1>0, LenProperties DEF Requests, Healthy
<1>2. \A k \in 1 .. Len(cmd.scans) : cmd.scans[k] \in 1 .. srv.nextId - 1
  <2> TAKE k \in 1 .. Len(cmd.scans)
  <2>1. cmd.scans[k] \in Scans /\ cmd.scans[k] < srv.nextId
    BY <1>1, ElementOfSeq DEF IInv, NewNames
  <2> QED BY <1>0, <2>1, BoundsAssumption DEF Scans, Servers
<1>3. ToSet(cmd.scans) \subseteq 1 .. srv.nextId - 1
  BY <1>1, <1>2 DEF ToSet
<1>4. Known' = 1 .. srv.nextId - 1
  BY DEF Known, NoCmd, ToSet
<1> QED BY <1>1, <1>3, <1>4 DEF Known

LEMMA SubmitsTheLine ==
  ASSUME IInv, Healthy, SubmitCommit
  PROVE  Line!Submit
<1>0. srv \in Servers /\ runner \in Runners
  BY DEF IInv, TypeOK
<1> DEFINE new == cmd.scans
<1>1. /\ ~srv.busy /\ srv' = Submitted(srv) /\ cmd' = NoCmd /\ cmd.verb = "submit"
      /\ runner'.pc = "pick"
  BY <1>0 DEF SubmitCommit, Runners
<1>2. /\ srv'.busy = TRUE /\ srv'.entries = new /\ srv'.qi = 0 /\ srv'.stopping = FALSE
      /\ srv'.lastError = FALSE /\ srv'.nextId = srv.nextId
  BY <1>0, <1>1 DEF Submitted, ScanReset, Servers
<1>3. /\ new \in Seq(Scans) /\ Len(new) \in Nat /\ Len(new) > 0
      /\ DOMAIN new = 1 .. Len(new)
      /\ ToSet(new) \cap Known = {} /\ Known' = Known \cup ToSet(new)
  BY <1>1, <1>2, NewToTheLine
<1>4. \A j, k \in 1 .. Len(new) : new[j] = new[k] => j = k
  BY <1>1 DEF IInv, NewNames
<1> HIDE DEF new
<1>5. Waiting = <<>> /\ Waiting' = new
  BY <1>1, <1>2, <1>3, SubSeqFull DEF Waiting
<1>6. AtWork = 0 /\ AtWork' = 0 /\ ~Halted'
  BY <1>1, <1>2 DEF AtWork, Halted, InScan, Scanning, Asking, IInv, Attached
<1>7. SubSeq(new, 1, 1 + Len(new) - 1) = new
  <2>1. 1 + Len(new) - 1 = Len(new)
    BY <1>3
  <2> QED BY <1>3, <2>1, SubSeqFull
<1>8. SubSeq(<<>>, 1, 1 - 1) \o new \o SubSeq(<<>>, 1, Len(<<>>)) = new
  <2>1. SubSeq(<<>>, 1, 1 - 1) = <<>> /\ SubSeq(<<>>, 1, Len(<<>>)) = <<>>
    BY EmptySeq, SubSeqEmpty
  <2> QED BY <1>3, <2>1, ConcatEmptySeq
<1>9. Line!Joins(new, 1, Len(new))
  <2>1. Line!IsInjective(new)
    BY <1>3, <1>4 DEF Line!IsInjective
  <2>2. Line!ToSet(SubSeq(new, 1, 1 + Len(new) - 1)) \cap Known = {}
    BY <1>3, <1>7 DEF Line!ToSet, ToSet
  <2> QED BY <1>5, <1>7, <1>8, <2>1, <2>2 DEF Line!Joins, Known, Line!ToSet, ToSet
<1> QED BY <1>3, <1>5, <1>6, <1>9
        DEF Line!Submit, AtWork, Known, Halted, InScan, Line!ToSet, ToSet

\* New scans spliced in behind a place join the rest there; nothing of the
\* rest is lost, nothing is in it twice.
LEMMA JoinsTheRest ==
  ASSUME NEW S, NEW s \in Seq(S), NEW new \in Seq(S), NEW p \in 1 .. Len(s) + 1,
         NEW q \in 0 .. Len(s), q < p, Unique(Spliced(s, p, new))
  PROVE  LET m == Spliced(s, p, new)
             r == Rest(s, q)
             t == Rest(m, q)
             k == p - q
         IN  /\ t \in Seq(S) /\ Len(r) \in Nat /\ Len(t) = Len(r) + Len(new)
             /\ k \in 1 .. Len(r) + 1
             /\ t = SubSeq(r, 1, k - 1) \o new \o SubSeq(r, k, Len(r))
             /\ SubSeq(t, k, k + Len(new) - 1) = new
             /\ Unique(t)
             /\ ToSet(new) \subseteq ToSet(t) /\ ToSet(t) \subseteq ToSet(m)
<1> DEFINE m == Spliced(s, p, new)
           r == Rest(s, q)
           t == Rest(m, q)
           k == p - q
<1>0. Len(s) \in Nat /\ Len(new) \in Nat /\ p \in Nat /\ q \in Nat
  BY LenProperties
<1>1. r \in Seq(S) /\ Len(r) = Len(s) - q /\ Len(r) \in Nat
  BY <1>0, RestOf
<1>2. k \in 1 .. Len(r) + 1
  BY <1>0, <1>1
<1>3. t = Spliced(r, k, new) /\ SubSeq(t, k, k + Len(new) - 1) = new
  BY RestOfSpliced
<1>6. m \in Seq(S) /\ Len(m) = Len(s) + Len(new) /\ Len(m) \in Nat
  <2>1. m \in Seq(S) /\ Len(m) = Len(s) + Len(new)
    BY ZenonT(60), SplicedScans
  <2> QED BY <2>1, LenProperties
<1>u. Unique(m)
  OBVIOUS
<1>t. t = Rest(m, q)
  OBVIOUS
<1>k. k = p - q
  OBVIOUS
<1> HIDE DEF r, k, m, t
<1>4. /\ Spliced(r, k, new) \in Seq(S)
      /\ Len(Spliced(r, k, new)) = Len(r) + Len(new)
      /\ \A i \in 1 .. Len(r) + Len(new) :
           Spliced(r, k, new)[i] = IF i < k THEN r[i]
                                   ELSE IF i < k + Len(new) THEN new[i - k + 1]
                                   ELSE r[i - Len(new)]
  <2>1. r \in Seq(S)
    BY <1>1
  <2> QED BY <1>2, <2>1, ZenonT(60), SplicedScans
<1>5. /\ t \in Seq(S) /\ Len(t) = Len(r) + Len(new)
      /\ \A i \in 1 .. Len(new) : t[k + i - 1] = new[i]
  <2>1. t \in Seq(S) /\ Len(t) = Len(r) + Len(new)
    BY <1>3, <1>4
  <2>2. ASSUME NEW i \in 1 .. Len(new) PROVE t[k + i - 1] = new[i]
    <3> DEFINE j == k + i - 1
    <3>1. j \in 1 .. Len(r) + Len(new) /\ ~(j < k) /\ j < k + Len(new) /\ j - k + 1 = i
      BY <1>0, <1>1, <1>2
    <3> HIDE DEF j
    <3>2. t[j] = new[j - k + 1]
      BY <1>3, <1>4, <3>1
    <3> QED BY <3>1, <3>2 DEF j
  <2> QED BY <2>1, <2>2
<1>7. Len(t) = Len(m) - q /\ \A i \in 1 .. Len(m) - q : t[i] = m[q + i]
  <2>1. q \in 0 .. Len(m)
    BY <1>0, <1>6
  <2>2. m \in Seq(S)
    BY <1>6
  <2> QED BY <1>t, <2>1, <2>2, RestOf
<1>8. \A i \in 1 .. Len(t) : q + i \in 1 .. Len(m) /\ t[i] = m[q + i]
  BY <1>0, <1>6, <1>7
<1>9. Unique(t)
  <2>1. SUFFICES ASSUME NEW i \in 1 .. Len(t), NEW j \in 1 .. Len(t), t[i] = t[j]
                 PROVE  i = j
    BY DEF Unique
  <2>2. q + i = q + j
    BY <1>8, <1>u, <2>1 DEF Unique
  <2> QED BY <1>0, <1>6, <1>7, <2>2
<1>10. DOMAIN t = 1 .. Len(t) /\ DOMAIN m = 1 .. Len(m) /\ DOMAIN new = 1 .. Len(new)
  BY <1>5, <1>6, LenProperties
<1>11. ToSet(t) \subseteq ToSet(m)
  BY <1>8, <1>10 DEF ToSet
<1>12. ToSet(new) \subseteq ToSet(t)
  <2>1. \A i \in 1 .. Len(new) : k + i - 1 \in 1 .. Len(t)
    BY <1>0, <1>1, <1>2, <1>5
  <2> QED BY <1>5, <1>10, <2>1 DEF ToSet
<1>13. t = SubSeq(r, 1, k - 1) \o new \o SubSeq(r, k, Len(r))
  BY <1>3 DEF Spliced
<1> QED BY <1>1, <1>2, <1>3, <1>5, <1>9, <1>11, <1>12, <1>13 DEF m, r, t, k

\* An edit of the list behind the position is an edit of the line.
LEMMA EditsSeen ==
  ASSUME IInv, NEW m, Editable, srv' = [srv EXCEPT !.entries = m],
         cmd' = NoCmd, UNCHANGED runner
  PROVE  /\ Waiting = Rest(srv.entries, srv.qi) /\ Waiting' = Rest(m, srv.qi)
         /\ srv.qi \in 0 .. Len(srv.entries) /\ srv'.entries = m
         /\ srv'.nextId = srv.nextId /\ srv'.lastError = srv.lastError /\ srv'.result = srv.result
         /\ AtWork' = AtWork /\ Halted' = Halted
<1>1. /\ srv'.busy = srv.busy /\ srv'.entries = m /\ srv'.qi = srv.qi
      /\ srv'.nextId = srv.nextId /\ srv'.lastError = srv.lastError
      /\ srv'.stopping = srv.stopping /\ srv'.result = srv.result
  BY DEF IInv, TypeOK, Servers
<1>2. Waiting = Rest(srv.entries, srv.qi) /\ Waiting' = Rest(m, srv.qi)
  BY <1>1 DEF Editable, Waiting, Rest
<1>3. AtWork' = AtWork /\ Halted' = Halted
  BY <1>1 DEF AtWork, Halted
<1> QED BY <1>1, <1>2, <1>3, Listed

LEMMA AddsToTheLine ==
  ASSUME IInv, IInv', Healthy, NEW p \in 1 .. Len(srv.entries) + 1, AddCommit(p)
  PROVE  Line!Add
<1> DEFINE s == srv.entries
           q == srv.qi
           new == cmd.scans
           m == Spliced(s, p, new)
           k == p - q
<1>1. /\ Editable /\ q < p /\ srv' = [srv EXCEPT !.entries = m] /\ cmd' = NoCmd
      /\ cmd.verb = "add" /\ UNCHANGED runner
  BY DEF AddCommit, Place
<1>2. /\ Waiting = Rest(s, q) /\ Waiting' = Rest(m, q) /\ q \in 0 .. Len(s)
      /\ srv'.entries = m /\ srv'.nextId = srv.nextId
      /\ AtWork' = AtWork /\ Halted' = Halted
  BY <1>1, EditsSeen
<1>3. /\ new \in Seq(Scans) /\ Len(new) \in Nat /\ Len(new) > 0
      /\ DOMAIN new = 1 .. Len(new)
      /\ ToSet(new) \cap Known = {} /\ Known' = Known \cup ToSet(new)
  BY <1>1, <1>2, NewToTheLine
<1>4. s \in Seq(Scans)
  BY Listed
<1>5. m \in Seq(Scans) /\ Unique(m) /\ ToSet(m) \subseteq Known'
  <2>1. /\ srv'.entries \in Seq(Scans) /\ Len(srv'.entries) \in Nat
        /\ DOMAIN srv'.entries = 1 .. Len(srv'.entries) /\ srv'.nextId \in Nat
    BY LenProperties, BoundsAssumption DEF IInv, TypeOK, Servers
  <2>2. Unique(srv'.entries)
    BY <2>1 DEF IInv, NeitherTwiceNorSkipped, Unique
  <2>3. \A i \in 1 .. Len(srv'.entries) : srv'.entries[i] \in 1 .. srv'.nextId - 1
    <3> TAKE i \in 1 .. Len(srv'.entries)
    <3>1. srv'.entries[i] \in Scans /\ srv'.entries[i] < srv'.nextId
      BY <2>1, ElementOfSeq DEF IInv, NewNames
    <3> QED BY <2>1, <3>1, BoundsAssumption DEF Scans
  <2>4. Known' = 1 .. srv'.nextId - 1
    BY <1>1, AllKnown DEF IInv
  <2> QED BY <1>2, <2>1, <2>2, <2>3, <2>4 DEF ToSet
<1>6. m = Spliced(s, p, new)
  OBVIOUS
<1> HIDE DEF s, q, new, m, k
<1>7. /\ Waiting' \in Seq(Scans) /\ Len(Waiting) \in Nat
      /\ Len(Waiting') = Len(Waiting) + Len(new)
      /\ k \in 1 .. Len(Waiting) + 1
      /\ Waiting' = SubSeq(Waiting, 1, k - 1) \o new \o SubSeq(Waiting, k, Len(Waiting))
      /\ SubSeq(Waiting', k, k + Len(new) - 1) = new
      /\ Unique(Waiting')
      /\ ToSet(new) \subseteq ToSet(Waiting') /\ ToSet(Waiting') \subseteq ToSet(m)
  <2> DEFINE r == Rest(s, q)
             t == Rest(m, q)
  <2>1. p \in 1 .. Len(s) + 1
    BY DEF s
  <2>3. /\ t \in Seq(Scans) /\ Len(r) \in Nat /\ Len(t) = Len(r) + Len(new)
        /\ k \in 1 .. Len(r) + 1
        /\ t = SubSeq(r, 1, k - 1) \o new \o SubSeq(r, k, Len(r))
        /\ SubSeq(t, k, k + Len(new) - 1) = new
        /\ Unique(t)
        /\ ToSet(new) \subseteq ToSet(t) /\ ToSet(t) \subseteq ToSet(m)
    <3>1. /\ s \in Seq(Scans) /\ new \in Seq(Scans) /\ q \in 0 .. Len(s) /\ q < p
          /\ m \in Seq(Scans) /\ Unique(m)
      BY <1>1, <1>2, <1>3, <1>4, <1>5
    <3>2. Unique(Spliced(s, p, new))
      BY <1>5, <1>6
    <3>3. Rest(Spliced(s, p, new), q) = t
      BY <1>6
    <3> HIDE DEF t
    <3>4. /\ t \in Seq(Scans) /\ Len(r) \in Nat /\ Len(t) = Len(r) + Len(new)
          /\ p - q \in 1 .. Len(r) + 1
          /\ t = SubSeq(r, 1, p - q - 1) \o new \o SubSeq(r, p - q, Len(r))
          /\ SubSeq(t, p - q, p - q + Len(new) - 1) = new
          /\ Unique(t)
          /\ ToSet(new) \subseteq ToSet(t) /\ ToSet(t) \subseteq ToSet(Spliced(s, p, new))
      <4> DEFINE u == Rest(Spliced(s, p, new), q)
      <4>1. /\ u \in Seq(Scans) /\ Len(r) \in Nat /\ Len(u) = Len(r) + Len(new)
            /\ p - q \in 1 .. Len(r) + 1
            /\ u = SubSeq(r, 1, p - q - 1) \o new \o SubSeq(r, p - q, Len(r))
            /\ SubSeq(u, p - q, p - q + Len(new) - 1) = new
            /\ Unique(u)
            /\ ToSet(new) \subseteq ToSet(u) /\ ToSet(u) \subseteq ToSet(Spliced(s, p, new))
        BY <3>1, <3>2, <2>1, JoinsTheRest
      <4>2. u = t
        BY <3>3
      <4> HIDE DEF u
      <4> QED BY <4>1, <4>2
    <3> QED BY <3>4, <1>6 DEF k
  <2>4. Waiting = r /\ Waiting' = t
    BY <1>2
  <2> QED BY <2>3, <2>4
<1>8. Len(Waiting') - Len(Waiting) = Len(new) /\ Len(Waiting') > Len(Waiting)
  BY <1>3, <1>7
<1>9. Line!IsInjective(Waiting')
  BY <1>7, LenProperties DEF Line!IsInjective, Unique
<1>10. Line!ToSet(SubSeq(Waiting', k, k + Len(new) - 1)) \cap Known = {}
  BY <1>3, <1>7 DEF Line!ToSet, ToSet
<1>11. Line!Joins(Waiting', k, Len(new))
  BY <1>7, <1>9, <1>10 DEF Line!Joins, Known, Line!ToSet, ToSet
<1>12. Known' = Known \cup ToSet(Waiting')
  BY <1>3, <1>5, <1>7
<1>13. \E i \in 1 .. Len(Waiting) + 1 : Line!Joins(Waiting', i, Len(Waiting') - Len(Waiting))
  BY <1>7, <1>8, <1>11
<1> HIDE DEF Line!Joins
<1> QED BY <1>2, <1>8, <1>12, <1>13
        DEF Line!Add, AtWork, Known, Halted, InScan, Line!ToSet, ToSet

LEMMA TakesOutOfTheLine ==
  ASSUME IInv, NEW k \in 1 .. Len(srv.entries), QueueRemove(k)
  PROVE  Line!TakeOut
<1> DEFINE s == srv.entries
           q == srv.qi
           m == RemoveAt(s, k)
<1>1. /\ Editable /\ q < k /\ srv' = [srv EXCEPT !.entries = m] /\ cmd' = NoCmd
      /\ UNCHANGED <<runner, cmd>>
  BY Listed DEF QueueRemove, NotStarted, Listening
<1>2. /\ Waiting = Rest(s, q) /\ Waiting' = Rest(m, q) /\ q \in 0 .. Len(s)
      /\ srv'.nextId = srv.nextId /\ AtWork' = AtWork /\ Halted' = Halted
  BY <1>1, EditsSeen
<1>3. s \in Seq(Scans)
  BY Listed
<1>4. k - q \in 1 .. Len(Rest(s, q)) /\ Rest(m, q) = RemoveAt(Rest(s, q), k - q)
  BY <1>1, <1>2, <1>3, RestOfRemoved
<1>5. Known' = Known
  BY <1>1, <1>2 DEF Known
<1> HIDE DEF s, q, m
<1>6. \E i \in 1 .. Len(Waiting) : Waiting' = RemoveAt(Waiting, i)
  BY SMTT(30), <1>2, <1>4
<1> QED BY <1>2, <1>5, <1>6
        DEF Line!TakeOut, Line!RemoveAt, RemoveAt, AtWork, Known, Halted, InScan, Line!ToSet, ToSet

LEMMA ReordersTheLine ==
  ASSUME IInv, NEW k \in 1 .. Len(srv.entries), NEW to \in 1 .. Len(srv.entries),
         QueueMove(k, to)
  PROVE  Line!Reorder
<1> DEFINE s == srv.entries
           q == srv.qi
           m == InsertAt(RemoveAt(s, k), to, s[k])
           w == Rest(s, q)
<1>1. /\ Editable /\ q < k /\ q < to /\ srv' = [srv EXCEPT !.entries = m] /\ cmd' = NoCmd
      /\ UNCHANGED <<runner, cmd>>
  BY Listed DEF QueueMove, NotStarted, Place, Listening
<1>2. /\ Waiting = w /\ Waiting' = Rest(m, q) /\ q \in 0 .. Len(s)
      /\ srv'.nextId = srv.nextId /\ AtWork' = AtWork /\ Halted' = Halted
  BY <1>1, EditsSeen
<1>3. s \in Seq(Scans)
  BY Listed
<1>4. /\ k - q \in 1 .. Len(w) /\ to - q \in 1 .. Len(w)
      /\ Rest(m, q) = InsertAt(RemoveAt(w, k - q), to - q, w[k - q])
  BY <1>1, <1>2, <1>3, RestOfMoved
<1>5. Known' = Known
  BY <1>1, <1>2 DEF Known
<1> HIDE DEF s, q, m, w
<1>6. \E i, j \in 1 .. Len(Waiting) :
        Waiting' = InsertAt(RemoveAt(Waiting, i), j, Waiting[i])
  BY <1>2, <1>4
<1> QED BY <1>2, <1>5, <1>6
        DEF Line!Reorder, Line!RemoveAt, RemoveAt, Line!InsertAt, InsertAt,
            AtWork, Known, Halted, InScan, Line!ToSet, ToSet

\* The steps that leave all the line depends on as it is.
LEMMA NothingMoves ==
  ASSUME TypeOK, UNCHANGED vars \/ (Stops /\ ~srv.busy)
  PROVE  UNCHANGED <<srv, runner, cmd>>
  BY DEF vars, Stops, StopAll

\* Every step of the server is a step of the line; one that its clients do not
\* see is a refusal that brings nothing.
LEMMA LineStep ==
  ASSUME IInv, IInv', Healthy, [Next]_vars
  PROVE  Line!QueueNext
<1>0. TypeOK
  BY DEF IInv
<1>1. CASE \/ Quiet \/ Abort \/ Inside
           \/ \E n \in 1 .. MaxSubmit : SubmitBegin(n) \/ AddBegin(n)
  <2>1. /\ srv'.busy = srv.busy /\ srv'.entries = srv.entries /\ srv'.qi = srv.qi
        /\ srv'.lastError = srv.lastError /\ srv'.stopping = srv.stopping
        /\ runner'.scan = runner.scan
        /\ runner'.pc = runner.pc \/ (runner.pc \in InScan /\ runner'.pc \in InScan)
        /\ Known \subseteq Known'
    BY <1>1, BesideTheLine
  <2>2. Waiting' = Waiting /\ AtWork' = AtWork /\ Halted' = Halted
    BY <2>1 DEF Waiting, AtWork, Halted
  <2> QED BY <2>1, <2>2, Aside DEF Line!QueueNext
<1>2. CASE StopQueue \/ ShutdownBusy \/ (Stops /\ srv.busy)
  BY <1>2, PressesStopTheLine DEF Line!QueueNext
<1>3. CASE UNCHANGED vars \/ (Stops /\ ~srv.busy)
  <2>1. UNCHANGED <<srv, runner, cmd>>
    BY <1>0, <1>3, NothingMoves
  <2>2. Waiting' = Waiting /\ AtWork' = AtWork /\ Halted' = Halted /\ Known' = Known
    BY <2>1 DEF Waiting, AtWork, Halted, Known
  <2> QED BY <2>2, Aside DEF Line!QueueNext
<1>4. CASE SubmitCommit
  BY <1>4, SubmitsTheLine DEF Line!QueueNext
<1>5. CASE \E p \in 1 .. Len(srv.entries) + 1 : AddCommit(p)
  BY <1>5, AddsToTheLine DEF Line!QueueNext
<1>6. CASE \E k \in 1 .. Len(srv.entries) : QueueRemove(k)
  BY <1>6, TakesOutOfTheLine DEF Line!QueueNext
<1>7. CASE \E k, to \in 1 .. Len(srv.entries) : QueueMove(k, to)
  BY <1>7, ReordersTheLine DEF Line!QueueNext
<1>8. CASE QueueEnds \/ GoesOn \/ StopsItself \/ CloseQueue
  BY <1>8, RunnerLeavesTheLine DEF Line!QueueNext
<1>9. CASE EndQueue
  BY <1>9, EndsTheLine DEF Line!QueueNext
<1>10. CASE Take
  BY <1>10, StartsTheHead DEF Line!QueueNext
<1>11. CASE Conclude \/ RunnerBreaks
  BY <1>11, EndsTheScan DEF Line!QueueNext
<1>15. CASE Judge
  BY <1>15, JudgesTheScan DEF Line!QueueNext
<1>12. CASE Commander
  BY <1>1, <1>2, <1>4, <1>5, <1>6, <1>7, <1>12 DEF Commander, Quiet
<1>13. CASE Runner
  BY <1>1, <1>8, <1>9, <1>10, <1>11, <1>13, <1>15 DEF Runner, Onward, Inside, Quiet
<1>14. CASE Process
  BY <1>1, <1>2, <1>3, <1>14 DEF Process, Quiet, Stop, Interrupt
<1> QED BY <1>3, <1>12, <1>13, <1>14 DEF Next

\* The runner stays healthy.
LEMMA HealthyStep ==
  ASSUME IInv, Healthy, [Next]_vars
  PROVE  Healthy'
<1>0. TypeOK /\ srv \in Servers /\ runner \in Runners
  BY DEF IInv, TypeOK
<1>1. ASSUME srv'.lastError = srv.lastError, srv'.result = srv.result, runner'.scan = runner.scan,
             runner'.pc = runner.pc \/ (runner.pc \in InScan /\ runner'.pc \in InScan),
             cmd' = cmd \/ cmd'.verb \notin {"submit", "add"} \/ Len(cmd'.scans) > 0
      PROVE  Healthy'
  BY <1>1 DEF Healthy, InScan, Scanning, Asking
<1>2. CASE \/ Quiet \/ Abort \/ Inside
           \/ \E n \in 1 .. MaxSubmit : SubmitBegin(n) \/ AddBegin(n)
  BY <1>1, <1>2, BesideTheLine
<1>3. CASE StopQueue \/ ShutdownBusy \/ (Stops /\ srv.busy)
  BY <1>1, <1>3, PressesStopTheLine DEF Untouched
<1>4. CASE UNCHANGED vars \/ (Stops /\ ~srv.busy)
  BY <1>0, <1>1, <1>4, NothingMoves
<1>5. CASE SubmitCommit
  <2>1. srv'.lastError = FALSE /\ runner'.pc = "pick" /\ cmd' = NoCmd
    BY <1>0, <1>5 DEF SubmitCommit, Submitted, ScanReset, Servers, Runners
  <2> QED BY <2>1, NoRequest DEF Healthy
<1>6. CASE \/ \E p \in 1 .. Len(srv.entries) + 1 : AddCommit(p)
           \/ \E k \in 1 .. Len(srv.entries) :
                QueueRemove(k) \/ \E to \in 1 .. Len(srv.entries) : QueueMove(k, to)
  <2>1. /\ UNCHANGED runner /\ cmd' = NoCmd
        /\ \E m : srv' = [srv EXCEPT !.entries = m]
    BY <1>6 DEF AddCommit, QueueRemove, QueueMove, Listening
  <2>2. srv'.lastError = srv.lastError /\ srv'.result = srv.result
    BY <1>0, <2>1 DEF Servers
  <2> QED BY <1>1, <2>1, <2>2, NoRequest
<1>7. CASE Take
  <2>1. runner.pc = "pick" /\ runner'.pc = "begin" /\ srv'.lastError = srv.lastError /\ cmd' = cmd
    BY <1>0, <1>7 DEF Take, Taken, ScanReset, Servers, Runners
  <2> QED BY <2>1 DEF Healthy
<1>8. CASE QueueEnds \/ StopsItself \/ CloseQueue \/ EndQueue \/ RunnerBreaks
  <2>1. runner'.pc \in {"ending", "closing", "none"} /\ cmd' = cmd
    BY <1>0, <1>8 DEF QueueEnds, StopsItself, CloseQueue, EndQueue, RunnerBreaks, NoRunner, Runners
  <2> QED BY <2>1 DEF Healthy, InScan, Scanning, Asking
<1>9. CASE GoesOn
  <2>1. /\ runner.pc = "ended" /\ runner'.pc = "pick" /\ UNCHANGED <<srv, cmd>>
        /\ srv.result[runner.scan] # "error"
    BY <1>0, <1>9 DEF GoesOn, StopsAfter, Runners
  <2> QED BY <2>1 DEF Healthy
<1>11. CASE Judge
  BY <1>11, JudgesTheScan DEF Healthy, InScan, Scanning, Asking
<1>10. CASE Conclude
  <2> DEFINE e == runner.scan
             out == runner.verdict
  <2>1. /\ runner.pc = "judged" /\ runner'.pc = "ended" /\ runner'.scan = e /\ cmd' = cmd
    BY <1>0, <1>10 DEF Conclude, Runners
  <2>2. ~srv.lastError /\ e \in Scans
    BY <2>1, RunningScan DEF Healthy, InScan, Scanning, IInv
  <2>3. srv' = [srv EXCEPT !.result[e] = out, !.lastError = srv.lastError \/ out = "error",
                           !.ask = FALSE, !.faults = FALSE]
    BY <1>10 DEF Conclude
  <2> HIDE DEF e, out
  <2>4. /\ srv'.lastError = (srv.lastError \/ out = "error")
        /\ srv'.result = [srv.result EXCEPT ![e] = out]
    BY <1>0, <2>3 DEF Servers
  <2>5. srv'.result[e] = out
    BY <1>0, <2>2, <2>4 DEF Servers
  <2> QED BY <2>1, <2>2, <2>4, <2>5 DEF Healthy, InScan, Scanning, Asking
<1>12. CASE Commander
  BY <1>2, <1>3, <1>5, <1>6, <1>12 DEF Commander, Quiet
<1>13. CASE Runner
  BY <1>2, <1>7, <1>8, <1>9, <1>10, <1>11, <1>13 DEF Runner, Onward, Inside, Quiet
<1>14. CASE Process
  BY <1>2, <1>3, <1>4, <1>14 DEF Process, Quiet, Stop, Interrupt
<1> QED BY <1>4, <1>12, <1>13, <1>14 DEF Next

\* The server implements the line its clients see, for every number of scans:
\* the head starts, every scan once, edits behind the running scan only, and
\* nothing is given up but after a stop or a failure.
THEOREM TheLineIsKept == Spec => KeepsTheLine
<1>1. Init => Line!QueueInit /\ Healthy
  <2> SUFFICES ASSUME Init PROVE Line!QueueInit /\ Healthy
    OBVIOUS
  <2>1. /\ srv.busy = FALSE /\ srv.stopping = FALSE /\ srv.lastError = FALSE /\ srv.nextId = 1
        /\ runner.pc = "none" /\ cmd.scans = <<>> /\ cmd.verb = "none"
    BY DEF Init, NewServer, NoRunner, NoCmd
  <2> QED BY <2>1 DEF Line!QueueInit, Waiting, Healthy, InScan, Scanning, Asking, Line!ToSet
<1>2. IInv /\ Healthy /\ [Next]_vars => Healthy'
  BY HealthyStep
<1>3. IInv /\ IInv' /\ Healthy /\ [Next]_vars => [Line!QueueNext]_Line!queueVars
  BY LineStep
<1> QED BY <1>1, <1>2, <1>3, Invariant, PTL DEF Spec, KeepsTheLine, Line!QueueSpec

-----------------------------------------------------------------------------
(* The exit *)

\* A queue that ended has left no scan without a result, unless it broke.
LastIsJudged ==
  runner.pc \in {"ending", "closing", "none"} /\ srv.qi > 0 =>
    srv.result[srv.entries[srv.qi]] # "none" \/ srv.lastError

\* The scans that may still be taken: those behind the position, those of a
\* request, and those whose number nobody has.
Ahead ==
  {srv.entries[k] : k \in {i \in 1 .. Len(srv.entries) : i > srv.qi}}
  \cup (IF cmd.verb \in {"submit", "add"}
        THEN {cmd.scans[k] : k \in 1 .. Len(cmd.scans)} ELSE {})
  \cup {e \in Scans : e >= srv.nextId}

\* The scan that stop() found is not taken again, and once stop() has seen the
\* runner end, it is not running.
NoneIsCutOff ==
  /\ serving.main = "loop" => serving.found = {}
  /\ serving.found \cap Ahead = {}
  /\ serving.main \in {"joined", "closed", "exited"} =>
       ~(runner.pc \in InScan /\ runner.scan \in serving.found)

\* Which steps end a queue, start a scan or end the process.
LEMMA WhatTheRunnerDoes ==
  ASSUME TypeOK, Next
  PROVE  /\ runner'.pc = runner.pc \/ Take \/ QueueEnds \/ StopsItself \/ CloseQueue \/ EndQueue
              \/ RunnerBreaks \/ runner'.pc = "pick"
              \/ (runner.pc \in InScan /\ runner'.pc \in InScan \cup {"ended"})
         /\ runner'.scan = runner.scan \/ Take \/ EndQueue
         /\ \/ serving'.main = serving.main /\ serving'.found = serving.found
            \/ Stops \/ StopAnswering \/ Exit \/ EndQueue
<1>0. srv \in Servers /\ runner \in Runners /\ serving \in Stages
  BY DEF TypeOK
<1>1. CASE Commander
  <2>1. CASE \E n \in 1 .. MaxSubmit : SubmitBegin(n) \/ AddBegin(n)
    BY <2>1 DEF SubmitBegin, AddBegin
  <2>2. CASE SubmitCommit
    BY <1>0, <2>2 DEF SubmitCommit, Runners
  <2>3. CASE \E p \in 1 .. Len(srv.entries) + 1 : AddCommit(p)
    BY <2>3 DEF AddCommit
  <2>4. CASE \E k \in 1 .. Len(srv.entries) :
               QueueRemove(k) \/ \E to \in 1 .. Len(srv.entries) : QueueMove(k, to)
    BY <2>4 DEF QueueRemove, QueueMove
  <2>5. CASE Abort \/ StopQueue \/ ShutdownBusy \/ ShutdownIdle
    BY <1>0, <2>5 DEF Abort, StopQueue, ShutdownIdle, ShutdownBusy, Stages
  <2>6. CASE Refuse \/ (\E on \in BOOLEAN : Pause(on)) \/ (\E a \in Answers : AnswerTake(a))
    <3>1. UNCHANGED <<runner, serving>>
      <4>1. ASSUME NEW a \in Answers, AnswerTake(a) PROVE UNCHANGED <<runner, serving>>
        BY <4>1 DEF AnswerTake
      <4>2. ASSUME NEW on \in BOOLEAN, Pause(on) PROVE UNCHANGED <<runner, serving>>
        BY <4>2 DEF Pause
      <4>3. Refuse => UNCHANGED <<runner, serving>>
        BY DEF Refuse
      <4> QED BY <2>6, <4>1, <4>2, <4>3
    <3> QED BY <3>1
  <2>7. CASE AnswerGive
    <3>1. runner'.pc = runner.pc /\ runner'.scan = runner.scan
      BY <1>0, <2>7 DEF AnswerGive, Runners
    <3> QED BY <2>7, <3>1 DEF AnswerGive
  <2> QED BY <1>1, <2>1, <2>2, <2>3, <2>4, <2>5, <2>6, <2>7 DEF Commander
<1>2. CASE Process
  <2>1. CASE WaiterStops
    BY <1>0, <2>1 DEF WaiterStops, Stages
  <2>2. CASE Stops
    BY <2>2 DEF Stops, StopAll
  <2>3. CASE StopAnswering \/ Exit
    BY <2>3 DEF StopAnswering, Exit
  <2> QED BY <1>2, <2>1, <2>2, <2>3 DEF Process, Interrupt, Stop
<1>3. CASE Runner
  <2>1. CASE Take \/ EndQueue
    BY <2>1 DEF Take, EndQueue
  <2>2. CASE QueueEnds \/ GoesOn \/ StopsItself \/ CloseQueue \/ RunnerBreaks \/ ClearHook
    BY <1>0, <2>2 DEF QueueEnds, GoesOn, StopsItself, CloseQueue, RunnerBreaks, ClearHook, Runners
  <2>3. CASE Begin \/ AskAtPoints \/ AskAfter
    BY <1>0, <2>3 DEF Begin, AskAtPoints, AskAfter, Ask, Runners, InScan, Scanning, Asking
  <2>8. CASE Judge \/ Conclude
    BY <1>0, <2>8 DEF Judge, Conclude, Runners, InScan, Scanning
  <2>4. ASSUME NEW from \in SUBSET InScan, NEW to \in InScan \cup {"ended"}, NEW how, Engine(from, to, how)
        PROVE  /\ runner.pc \in InScan /\ runner'.pc \in InScan \cup {"ended"}
               /\ runner'.scan = runner.scan /\ serving' = serving
    BY <1>0, <2>4 DEF Engine, Runners
  <2>5. /\ \A from \in {{"claiming"}, {"points"}, {"points", "held"}, {"points", "fault"}, {"held"},
                        {"fault"}, {"asking"}, {"askingAfter"}, {"after"},
                        {"after", "askingAfter"}, {"judge"}} : from \in SUBSET InScan
        /\ {"points", "judge", "after", "held", "fault"} \subseteq InScan
    BY DEF InScan, Scanning, Asking
  <2>6. CASE Claimed \/ NotClaimed \/ PointsDone \/ PointsFail \/ Hold \/ Resumed \/ Fault \/ FaultClears
             \/ StopsBySelf \/ AfterDone \/ AfterFails
    BY <2>4, <2>5, <2>6 DEF Claimed, NotClaimed, PointsDone, PointsFail, Hold, Resumed, Fault,
                            FaultClears, StopsBySelf, AfterDone, AfterFails
  <2>7. CASE Noticed \/ AnsweredContinue \/ AnsweredAbort \/ AnsweredAbortAfter
    BY <2>4, <2>5, <2>7 DEF Noticed, SeesAbort, CutShort, AskingCut, AfterCut, AnsweredContinue,
                            AnsweredAbort, AnsweredAbortAfter
  <2> QED BY <1>3, <2>1, <2>2, <2>3, <2>6, <2>7, <2>8 DEF Runner, Onward
<1> QED BY <1>1, <1>2, <1>3 DEF Next

\* What a queue has left behind is not touched while the server is idle.
LEMMA LastIsJudgedStep ==
  ASSUME IInv, IInv', LastIsJudged, [Next]_vars
  PROVE  LastIsJudged'
<1>0. TypeOK /\ srv \in Servers /\ runner \in Runners /\ srv.qi \in Nat
  BY DEF IInv, TypeOK, Servers
<1>1. SUFFICES ASSUME runner'.pc \in {"ending", "closing", "none"}, srv'.qi > 0, Next
               PROVE  srv'.result[srv'.entries[srv'.qi]] # "none" \/ srv'.lastError
  BY DEF LastIsJudged, vars
<1>2. CASE QueueEnds
  BY <1>0, <1>1, <1>2 DEF QueueEnds, Servers, IInv, InPlace
<1>3. CASE StopsItself
  <2>1. runner.pc = "ended" /\ srv' = [srv EXCEPT !.stopping = TRUE]
    BY <1>3 DEF StopsItself
  <2>2. srv.entries[srv.qi] = runner.scan /\ srv.result[runner.scan] # "none"
    BY <2>1, RunningScan DEF IInv, InPlace
  <2> QED BY <1>0, <2>1, <2>2 DEF Servers
<1>4. CASE CloseQueue \/ EndQueue
  <2>1. runner.pc \in {"ending", "closing"}
    BY <1>4 DEF CloseQueue, EndQueue
  <2>2. srv'.qi = srv.qi /\ srv'.result = srv.result /\ srv'.entries = srv.entries
        /\ srv'.lastError = srv.lastError
    BY <1>0, <1>4 DEF CloseQueue, EndQueue, Idle, ScanReset, Servers
  <2> QED BY <1>1, <2>1, <2>2 DEF LastIsJudged
<1>5. CASE RunnerBreaks
  BY <1>0, <1>5 DEF RunnerBreaks, Servers
<1>6. CASE runner'.pc = runner.pc
  <2>1. srv.lastError \/ ~Editable
    BY <1>1, <1>6 DEF IInv, RanDry, Attached, Editable
  <2>2. CASE Commander
    <3>1. CASE Abort \/ StopQueue \/ (\E on \in BOOLEAN : Pause(on)) \/ ShutdownIdle \/ ShutdownBusy
               \/ (\E a \in Answers : AnswerTake(a)) \/ AnswerGive \/ Refuse
      <4>1. srv' = srv \/ srv' = AllAborted(srv) \/ srv' = [srv EXCEPT !.abort = TRUE]
            \/ srv' = [srv EXCEPT !.ask = FALSE]
            \/ \E on \in BOOLEAN : srv' = [srv EXCEPT !.userPause = on]
        <5>1. ASSUME NEW a \in Answers, AnswerTake(a) PROVE srv' = [srv EXCEPT !.ask = FALSE]
          BY <5>1 DEF AnswerTake
        <5>2. ASSUME NEW on \in BOOLEAN, Pause(on) PROVE srv' = [srv EXCEPT !.userPause = on]
          BY <5>2 DEF Pause
        <5>3. CASE Abort \/ StopQueue \/ ShutdownIdle \/ ShutdownBusy \/ AnswerGive \/ Refuse
          BY <5>3 DEF Abort, StopQueue, ShutdownIdle, ShutdownBusy, AnswerGive, Refuse
        <5> QED BY <3>1, <5>1, <5>2, <5>3
      <4>2. srv'.qi = srv.qi /\ srv'.result = srv.result /\ srv'.entries = srv.entries
            /\ srv'.lastError = srv.lastError
        BY <1>0, <4>1 DEF AllAborted, Servers
      <4> QED BY <1>1, <1>6, <4>2 DEF LastIsJudged
    <3>2. CASE \E n \in 1 .. MaxSubmit : SubmitBegin(n) \/ AddBegin(n)
      <4>1. srv'.qi = srv.qi /\ srv'.result = srv.result /\ srv'.entries = srv.entries
            /\ srv'.lastError = srv.lastError
        BY <1>0, <3>2 DEF SubmitBegin, AddBegin, Servers
      <4> QED BY <1>1, <1>6, <4>1 DEF LastIsJudged
    <3>3. ~SubmitCommit
      BY <1>0, <1>1 DEF SubmitCommit, Runners
    <3>4. CASE \/ \E p \in 1 .. Len(srv.entries) + 1 : AddCommit(p)
               \/ \E k \in 1 .. Len(srv.entries) :
                    QueueRemove(k) \/ \E to \in 1 .. Len(srv.entries) : QueueMove(k, to)
      <4>1. Editable /\ srv'.lastError = srv.lastError
        BY <1>0, <3>4 DEF AddCommit, QueueRemove, QueueMove, Servers
      <4> QED BY <2>1, <4>1
    <3> QED BY <2>2, <3>1, <3>2, <3>3, <3>4 DEF Commander
  <2>3. CASE Process
    <3>1. srv'.qi = srv.qi /\ srv'.result = srv.result /\ srv'.entries = srv.entries
          /\ srv'.lastError = srv.lastError
      BY <1>0, <2>3 DEF Process, WaiterStops, Interrupt, Stop, Stops, StopAll, StopAnswering, Exit,
                        AllAborted, Servers
    <3> QED BY <1>1, <1>6, <3>1 DEF LastIsJudged
  <2>4. CASE Runner /\ ~CloseQueue /\ ~EndQueue /\ ~RunnerBreaks /\ ~QueueEnds /\ ~StopsItself
    <3>1. ClearHook
      <4>1. runner.pc \in {"ending", "closing", "none"}
        BY <1>1, <1>6
      <4>2. ~Take /\ ~GoesOn /\ ~Begin /\ ~AskAtPoints /\ ~AskAfter /\ ~Judge /\ ~Conclude
        BY <4>1 DEF Take, GoesOn, Begin, AskAtPoints, AskAfter, Ask, Judge, Conclude
      <4>3. \A from \in SUBSET InScan : \A to, how : ~Engine(from, to, how)
        BY <4>1 DEF Engine, InScan, Scanning, Asking
      <4>4. \A from \in {{"claiming"}, {"points"}, {"points", "held"}, {"points", "fault"}, {"held"},
                         {"fault"}, {"asking"}, {"askingAfter"}, {"after"},
                         {"after", "askingAfter"}, {"judge"}} : from \in SUBSET InScan
        BY DEF InScan, Scanning, Asking
      <4>5. ~Claimed /\ ~NotClaimed /\ ~PointsDone /\ ~PointsFail /\ ~Hold /\ ~Resumed /\ ~Fault
            /\ ~FaultClears /\ ~StopsBySelf /\ ~AfterDone /\ ~AfterFails
        BY <4>3, <4>4 DEF Claimed, NotClaimed, PointsDone, PointsFail, Hold, Resumed, Fault,
                          FaultClears, StopsBySelf, AfterDone, AfterFails
      <4>6. ~Noticed /\ ~AnsweredContinue /\ ~AnsweredAbort /\ ~AnsweredAbortAfter
        BY <4>3, <4>4 DEF Noticed, SeesAbort, CutShort, AskingCut, AfterCut, AnsweredContinue,
                          AnsweredAbort, AnsweredAbortAfter
      <4> QED BY <2>4, <4>2, <4>5, <4>6 DEF Runner, Onward
    <3> QED BY <1>1, <1>6, <3>1 DEF ClearHook, LastIsJudged
  <2> QED BY <1>1, <1>2, <1>3, <1>4, <1>5, <2>2, <2>3, <2>4 DEF Next
<1>7. ~Take
  BY <1>0, <1>1 DEF Take, Runners
<1> QED BY <1>0, <1>1, <1>2, <1>3, <1>4, <1>5, <1>6, <1>7, WhatTheRunnerDoes
        DEF InScan, Scanning, Asking

\* A scan that has been taken is never ahead again.
LEMMA AheadShrinks ==
  ASSUME IInv, [Next]_vars
  PROVE  Ahead' \subseteq Ahead
<1>0. /\ TypeOK /\ srv \in Servers /\ runner \in Runners /\ srv.nextId \in Nat
      /\ srv.entries \in Seq(Scans) /\ srv.qi \in Nat /\ Len(srv.entries) \in Nat
  BY Listed, BoundsAssumption DEF IInv, TypeOK, Servers
<1> DEFINE Behind(m, q) == {m[k] : k \in {i \in 1 .. Len(m) : i > q}}
           Brought == IF cmd.verb \in {"submit", "add"}
                      THEN {cmd.scans[k] : k \in 1 .. Len(cmd.scans)} ELSE {}
           Unborn(n) == {e \in Scans : e >= n}
<1>1. Ahead = Behind(srv.entries, srv.qi) \cup Brought \cup Unborn(srv.nextId)
  BY DEF Ahead
<1>2. Ahead' = Behind(srv'.entries, srv'.qi) \cup Brought' \cup Unborn(srv'.nextId)
  BY DEF Ahead
<1>3. ASSUME srv'.entries = srv.entries, srv'.qi = srv.qi, srv'.nextId = srv.nextId,
             cmd' = cmd \/ cmd'.verb \notin {"submit", "add"}
      PROVE  Ahead' \subseteq Ahead
  BY <1>1, <1>2, <1>3
<1>4. ASSUME NEW m, NEW new, BehindOnly(m, srv.entries, new, srv.qi),
             \A j \in 1 .. Len(new) : new[j] \in Brought,
             srv' = [srv EXCEPT !.entries = m], cmd' = NoCmd
      PROVE  Ahead' \subseteq Ahead
  <2>1. srv'.entries = m /\ srv'.qi = srv.qi /\ srv'.nextId = srv.nextId
    BY <1>0, <1>4 DEF Servers
  <2>2. Behind(m, srv.qi) \subseteq Behind(srv.entries, srv.qi) \cup Brought
    <3> HIDE DEF Brought
    <3> SUFFICES ASSUME NEW i \in 1 .. Len(m), i > srv.qi
                 PROVE  m[i] \in Behind(srv.entries, srv.qi) \cup Brought
      OBVIOUS
    <3>1. \/ \E j \in 1 .. Len(srv.entries) : j > srv.qi /\ m[i] = srv.entries[j]
          \/ \E j \in 1 .. Len(new) : m[i] = new[j]
      BY <1>4 DEF BehindOnly
    <3> QED BY <1>4, <3>1
  <2>3. Brought' = {}
    BY <1>4, NoRequest
  <2> QED BY <1>1, <1>2, <2>1, <2>2, <2>3
<1>5. CASE UNCHANGED vars
  BY <1>3, <1>5 DEF vars
<1>6. CASE \/ Quiet \/ Abort \/ Inside
           \/ \E n \in 1 .. MaxSubmit : SubmitBegin(n) \/ AddBegin(n)
  <2>1. CASE \E n \in 1 .. MaxSubmit : SubmitBegin(n) \/ AddBegin(n)
    <3>1. PICK n \in 1 .. MaxSubmit : SubmitBegin(n) \/ AddBegin(n)
      BY <2>1
    <3>2. srv.nextId + n <= MaxScans + 1 /\ srv' = [srv EXCEPT !.nextId = @ + n]
          /\ cmd'.scans = Fresh(n)
      BY <3>1 DEF SubmitBegin, AddBegin, NoCmd
    <3>3. /\ Fresh(n) \in Seq(Scans) /\ Len(Fresh(n)) = n
          /\ \A k \in 1 .. n : Fresh(n)[k] = srv.nextId + k - 1
      BY <1>0, <3>2, FreshScans
    <3>4. n \in Nat
      BY BoundsAssumption
    <3>5. \A k \in 1 .. n : Fresh(n)[k] \in Unborn(srv.nextId)
      <4> TAKE k \in 1 .. n
      <4>1. Fresh(n)[k] \in Scans
        BY <3>3, <3>4, ElementOfSeq
      <4> QED BY <1>0, <3>3, <3>4, <4>1
    <3>6. /\ srv'.entries = srv.entries /\ srv'.qi = srv.qi
          /\ srv'.nextId = srv.nextId + n
      BY <1>0, <3>2 DEF Servers
    <3>7. Unborn(srv'.nextId) \subseteq Unborn(srv.nextId)
      BY <1>0, <3>4, <3>6, BoundsAssumption DEF Scans
    <3>8. Brought' \subseteq Unborn(srv.nextId)
      BY <3>2, <3>3, <3>5
    <3> QED BY <1>1, <1>2, <3>6, <3>7, <3>8
  <2>2. CASE Quiet \/ Abort \/ Inside
    <3>1. srv'.entries = srv.entries /\ srv'.qi = srv.qi
      BY <2>2, BesideTheLine
    <3>2. /\ srv'.nextId = srv.nextId
          /\ cmd' = cmd \/ cmd'.verb \notin {"submit", "add"}
      <4>1. CASE Inside
        <5>1. /\ cmd' = cmd
              /\ \E f, a \in BOOLEAN : srv' = [srv EXCEPT !.faults = f, !.ask = a]
          BY <4>1, InsideIs DEF EngineStep
        <5> QED BY <1>0, <5>1 DEF Servers
      <4>2. CASE \E on \in BOOLEAN : Pause(on)
        BY <1>0, <4>2 DEF Pause, Servers
      <4>3. CASE \E a \in Answers : AnswerTake(a)
        BY <1>0, <4>3 DEF AnswerTake, NoCmd, Servers
      <4>4. CASE Refuse \/ AnswerGive \/ ClearHook \/ ShutdownIdle \/ WaiterStops
                 \/ StopAnswering \/ Exit \/ Abort
        BY <1>0, <4>4, NoRequest
           DEF Refuse, AnswerGive, ClearHook, ShutdownIdle, WaiterStops, StopAnswering, Exit,
               Abort, Servers
      <4> QED BY <2>2, <4>1, <4>2, <4>3, <4>4 DEF Quiet
    <3> QED BY <1>3, <3>1, <3>2
  <2> QED BY <1>6, <2>1, <2>2
<1>7. CASE StopQueue \/ ShutdownBusy \/ Stops
  <2>1. (srv' = AllAborted(srv) \/ srv' = srv) /\ cmd' = cmd
    BY <1>7 DEF StopQueue, ShutdownBusy, Stops, StopAll
  <2> QED BY <1>0, <1>3, <2>1 DEF AllAborted, Servers
<1>8. CASE SubmitCommit
  <2>1. cmd' = NoCmd /\ srv' = Submitted(srv) /\ cmd.verb = "submit"
    BY <1>8 DEF SubmitCommit
  <2>2. srv'.entries = cmd.scans /\ srv'.qi = 0 /\ srv'.nextId = srv.nextId
    BY <1>0, <2>1 DEF Submitted, ScanReset, Servers
  <2>3. Behind(cmd.scans, 0) \subseteq Brought /\ Brought' = {}
    BY <2>1, NoRequest
  <2>4. Ahead' = Behind(cmd.scans, 0) \cup Brought' \cup Unborn(srv.nextId)
    BY <1>2, <2>2
  <2> HIDE DEF Behind, Brought, Unborn
  <2> QED BY <1>1, <2>3, <2>4
<1>9. CASE \E p \in 1 .. Len(srv.entries) + 1 : AddCommit(p)
  <2>1. PICK p \in 1 .. Len(srv.entries) + 1 : AddCommit(p)
    BY <1>9
  <2>2. /\ srv.qi < p /\ srv' = [srv EXCEPT !.entries = Spliced(srv.entries, p, cmd.scans)]
        /\ cmd' = NoCmd /\ cmd.verb = "add"
    BY <2>1 DEF AddCommit, Place
  <2>3. /\ cmd.scans \in Seq(Scans) /\ Unique(cmd.scans)
        /\ \A i \in 1 .. Len(srv.entries) : \A j \in 1 .. Len(cmd.scans) :
             srv.entries[i] # cmd.scans[j]
    BY <2>2 DEF IInv, NewNames, TypeOK, Requests, Unique
  <2>4. BehindOnly(Spliced(srv.entries, p, cmd.scans), srv.entries, cmd.scans, srv.qi)
    BY <2>2, <2>3, Listed, SplicedBehind
  <2>5. \A j \in 1 .. Len(cmd.scans) : cmd.scans[j] \in Brought
    BY <2>2
  <2> HIDE DEF Brought
  <2> QED BY <1>4, <2>2, <2>4, <2>5
<1>10. ASSUME NEW k \in 1 .. Len(srv.entries), QueueRemove(k)
       PROVE  Ahead' \subseteq Ahead
  <2>1. /\ srv.qi < k /\ srv' = [srv EXCEPT !.entries = RemoveAt(srv.entries, k)]
        /\ cmd' = NoCmd
    BY <1>10, Listed DEF QueueRemove, NotStarted, Listening
  <2>2. BehindOnly(RemoveAt(srv.entries, k), srv.entries, <<>>, srv.qi)
    BY <2>1, Listed, RemovedBehind
  <2>3. \A j \in 1 .. Len(<<>>) : <<>>[j] \in Brought
    BY EmptySeq
  <2> HIDE DEF Brought
  <2> QED BY <1>4, <2>1, <2>2, <2>3
<1>11. ASSUME NEW k \in 1 .. Len(srv.entries), NEW to \in 1 .. Len(srv.entries),
              QueueMove(k, to)
       PROVE  Ahead' \subseteq Ahead
  <2> DEFINE m == InsertAt(RemoveAt(srv.entries, k), to, srv.entries[k])
  <2>1. /\ srv.qi < k /\ srv.qi < to /\ srv' = [srv EXCEPT !.entries = m]
        /\ cmd' = NoCmd
    BY <1>11, Listed DEF QueueMove, NotStarted, Place, Listening
  <2>2. BehindOnly(m, srv.entries, <<>>, srv.qi)
    BY <2>1, Listed, MovedBehind
  <2>3. \A j \in 1 .. Len(<<>>) : <<>>[j] \in Brought
    BY EmptySeq
  <2> HIDE DEF Brought, m
  <2> QED BY <1>4, <2>1, <2>2, <2>3
<1>12. CASE Take
  <2>1. srv' = Taken(srv) /\ cmd' = cmd
    BY <1>12 DEF Take
  <2>2. srv'.entries = srv.entries /\ srv'.qi = srv.qi + 1 /\ srv'.nextId = srv.nextId
    BY <1>0, <2>1 DEF Taken, ScanReset, Servers
  <2>3. Behind(srv.entries, srv.qi + 1) \subseteq Behind(srv.entries, srv.qi)
    BY <1>0
  <2>4. Ahead' = Behind(srv.entries, srv.qi + 1) \cup Brought \cup Unborn(srv.nextId)
    BY <1>2, <2>1, <2>2
  <2> HIDE DEF Behind, Brought, Unborn
  <2> QED BY <1>1, <2>3, <2>4
<1>13. CASE Leaving
  <2>1. srv' \in {srv, [srv EXCEPT !.open = FALSE], [srv EXCEPT !.stopping = TRUE],
                  [srv EXCEPT !.lastError = TRUE], Idle(srv)}
    BY <1>13 DEF Leaving, QueueEnds, GoesOn, StopsItself, RunnerBreaks, CloseQueue, EndQueue
  <2>2. srv'.entries = srv.entries /\ srv'.qi = srv.qi /\ srv'.nextId = srv.nextId
    BY <1>0, <2>1 DEF Idle, ScanReset, Servers
  <2>3. cmd' = cmd
    BY <1>13 DEF Leaving, QueueEnds, GoesOn, StopsItself, RunnerBreaks, CloseQueue, EndQueue
  <2> QED BY <1>3, <2>2, <2>3
<1>14. CASE Judge \/ Conclude
  <2>1. CASE Judge
    <3>1. \E f, g : srv' = srv \/ srv' = [srv EXCEPT !.result = f, !.stoppedBySelf = g]
      BY <2>1 DEF Judge
    <3>2. srv'.entries = srv.entries /\ srv'.qi = srv.qi /\ srv'.nextId = srv.nextId
      BY <1>0, <3>1 DEF Servers
    <3> QED BY <1>3, <2>1, <3>2 DEF Judge
  <2>2. CASE Conclude
    <3>1. \E f, h : srv' = [srv EXCEPT !.result = f, !.lastError = h, !.ask = FALSE, !.faults = FALSE]
      BY <2>2 DEF Conclude
    <3>2. srv'.entries = srv.entries /\ srv'.qi = srv.qi /\ srv'.nextId = srv.nextId
      BY <1>0, <3>1 DEF Servers
    <3> QED BY <1>3, <2>2, <3>2 DEF Conclude
  <2> QED BY <1>14, <2>1, <2>2
<1>15. CASE Commander
  BY <1>6, <1>7, <1>8, <1>9, <1>10, <1>11, <1>15 DEF Commander, Quiet
<1>16. CASE Runner
  BY <1>6, <1>12, <1>13, <1>14, <1>16 DEF Runner, Onward, Inside, Leaving, Quiet
<1>17. CASE Process
  BY <1>6, <1>7, <1>17 DEF Process, Stop, Interrupt, Quiet
<1> QED BY <1>5, <1>15, <1>16, <1>17 DEF Next

\* The scan in the runner's hands is not ahead; the next one it takes is.
LEMMA TakenFromAhead ==
  ASSUME IInv
  PROVE  /\ runner.pc \in InScan => runner.scan \notin Ahead
         /\ Take => runner'.scan \in Ahead
<1>0. TypeOK /\ runner \in Runners /\ srv.nextId \in Nat
  BY BoundsAssumption DEF IInv, TypeOK, Servers
<1>1. ASSUME runner.pc \in InScan PROVE runner.scan \notin Ahead
  <2>1. /\ srv.qi \in 1 .. Len(srv.entries) /\ srv.entries[srv.qi] = runner.scan
        /\ runner.scan \in Scans
    BY <1>1, RunningScan DEF IInv
  <2>2. \A k \in 1 .. Len(srv.entries) : k > srv.qi => srv.entries[k] # runner.scan
    BY <2>1, ListFacts DEF IInv, NeitherTwiceNorSkipped
  <2>3. runner.scan < srv.nextId
    BY <2>1 DEF IInv, NewNames
  <2>4. ~(runner.scan >= srv.nextId)
    BY <1>0, <2>1, <2>3, BoundsAssumption DEF Scans
  <2>5. cmd.verb \in {"submit", "add"} =>
          \A k \in 1 .. Len(cmd.scans) : cmd.scans[k] # runner.scan
    BY <2>1 DEF IInv, NewNames
  <2> QED BY <2>2, <2>4, <2>5 DEF Ahead
<1>2. ASSUME Take PROVE runner'.scan \in Ahead
  <2>1. runner'.scan = srv.entries[srv.qi + 1] /\ srv.qi < Len(srv.entries)
    BY <1>0, <1>2 DEF Take, More, Runners
  <2>2. srv.qi + 1 \in 1 .. Len(srv.entries) /\ srv.qi + 1 > srv.qi
    BY <2>1, Listed
  <2> QED BY <2>1, <2>2 DEF Ahead
<1> QED BY <1>1, <1>2

\* No scan that stop() found is left running when the runner has been waited for.
LEMMA NoneIsCutOffStep ==
  ASSUME Patient, IInv, NoneIsCutOff, [Next]_vars
  PROVE  NoneIsCutOff'
<1>0. TypeOK /\ srv \in Servers /\ runner \in Runners /\ serving \in Stages
  BY DEF IInv, TypeOK
<1>1. Ahead' \subseteq Ahead
  BY AheadShrinks
<1>2. CASE UNCHANGED vars
  <2>1. serving' = serving /\ runner' = runner
    BY <1>2 DEF vars
  <2> QED BY <1>1, <2>1 DEF NoneIsCutOff
<1>3. CASE Stops
  <2>1. PICK next \in {"joined", "join"} :
          /\ StopAll(next)
          /\ next = "joined" => runner.pc = "none"
    BY <1>3 DEF Stops
  <2>2. /\ serving'.main = next
        /\ serving'.found = IF runner.pc \in InScan THEN {runner.scan} ELSE {}
        /\ runner' = runner
    BY <1>0, <2>1 DEF StopAll, Stages
  <2>3. serving'.found \cap Ahead = {}
    BY <2>2, TakenFromAhead
  <2>4. "none" \notin InScan
    BY DEF InScan, Scanning, Asking
  <2> QED BY <1>1, <2>1, <2>2, <2>3, <2>4 DEF NoneIsCutOff
<1>4. CASE StopAnswering \/ Exit
  <2>1. /\ serving'.found = serving.found /\ serving'.main \in {"closed", "exited"}
        /\ serving.main \in {"joined", "closed"} /\ runner' = runner
    BY <1>0, <1>4 DEF StopAnswering, Exit, Stages
  <2> QED BY <1>1, <2>1 DEF NoneIsCutOff
<1>5. CASE EndQueue
  <2>1. /\ serving'.found = serving.found /\ runner'.pc = "none"
        /\ serving'.main = "loop" => serving.main = "loop"
    BY <1>0, <1>5 DEF EndQueue, Joined, NoRunner, Stages
  <2>2. "none" \notin InScan
    BY DEF InScan, Scanning, Asking
  <2> QED BY <1>1, <2>1, <2>2 DEF NoneIsCutOff
<1>6. CASE Next /\ serving'.main = serving.main /\ serving'.found = serving.found
  <2>1. SUFFICES ASSUME runner'.pc \in InScan, runner'.scan \in serving.found
                 PROVE  runner.pc \in InScan /\ runner.scan \in serving.found
    BY <1>1, <1>6 DEF NoneIsCutOff
  <2>2. ~Take
    BY <2>1, TakenFromAhead DEF NoneIsCutOff
  <2>3. runner'.pc \notin {"none", "pick", "ending", "closing"}
    BY <2>1 DEF InScan, Scanning, Asking
  <2>4. ~EndQueue /\ ~QueueEnds /\ ~StopsItself /\ ~CloseQueue /\ ~RunnerBreaks
    BY <1>0, <2>3 DEF EndQueue, QueueEnds, StopsItself, CloseQueue, RunnerBreaks, NoRunner,
                      Runners
  <2> QED BY <1>0, <1>6, <2>1, <2>2, <2>3, <2>4, WhatTheRunnerDoes
<1> QED BY <1>0, <1>2, <1>3, <1>4, <1>5, <1>6, WhatTheRunnerDoes

\* No scan that stop() found running is cut off by the exit, and it has its result
\* then if it is still listed, if the joins of the shutdown do not time out.
THEOREM NothingLostAtExit ==
  ASSUME Patient
  PROVE  Spec => []DataSavedAtExit
<1>1. Init => LastIsJudged /\ NoneIsCutOff
  BY DEF Init, NewServer, Up, LastIsJudged, NoneIsCutOff
<1>2. IInv /\ IInv' /\ LastIsJudged /\ NoneIsCutOff /\ [Next]_vars => LastIsJudged' /\ NoneIsCutOff'
  BY LastIsJudgedStep, NoneIsCutOffStep
<1>3. IInv /\ LastIsJudged /\ NoneIsCutOff => DataSavedAtExit
  <2> SUFFICES ASSUME IInv, LastIsJudged, NoneIsCutOff, ~Alive,
                      NEW e \in serving.found \cap ToSet(srv.entries)
               PROVE  /\ ~(runner.pc \in InScan /\ runner.scan = e)
                      /\ srv.result[e] # "none" \/ srv.lastError
    BY DEF DataSavedAtExit
  <2>0. ~(runner.pc \in InScan /\ runner.scan = e)
    BY DEF NoneIsCutOff, Alive
  <2>1. PICK k \in 1 .. Len(srv.entries) : srv.entries[k] = e
    BY ListFacts DEF ToSet, IInv
  <2>2. k <= srv.qi /\ srv.qi \in Nat
    <3>1. srv.qi \in Nat /\ k \in Nat
      BY <2>1, Listed
    <3>2. ~(k > srv.qi)
      BY <2>1 DEF NoneIsCutOff, Ahead
    <3> QED BY <3>1, <3>2
  <2>3. CASE k < srv.qi
    BY <2>0, <2>1, <2>3, ListFacts DEF IInv, NeitherTwiceNorSkipped
  <2>4. CASE k = srv.qi
    <3>1. runner.pc \notin InScan
      BY <2>0, <2>1, <2>4, RunningScan DEF IInv
    <3>2. CASE runner.pc = "pick"
      BY <2>0, <2>1, <2>2, <2>4, <3>2 DEF IInv, InPlace
    <3>4. CASE runner.pc = "ended"
      BY <2>0, <2>1, <2>4, <3>4, RunningScan DEF IInv, InPlace
    <3>3. CASE runner.pc \in {"ending", "closing", "none"}
      BY <2>0, <2>1, <2>2, <2>4, <3>3 DEF LastIsJudged
    <3> QED BY <3>1, <3>2, <3>3, <3>4 DEF IInv, TypeOK, Runners, InScan
  <2> QED BY <2>1, <2>2, <2>3, <2>4
<1> QED BY <1>1, <1>2, <1>3, Invariant, PTL DEF Spec

=============================================================================
