--------------------------- MODULE NormalizeProofs ---------------------------
(***************************************************************************)
(* What Normalize does to a document: how an index is carried over a       *)
(* change of its list's length, what an exchange of two entries changes,   *)
(* what stays where it is, and what a list that only shrinks comes to.     *)
(***************************************************************************)
EXTENDS Normalize, ValidateProofs, TreeProofs

-----------------------------------------------------------------------------
(* Removals from a list.  The element at p, if it is not removed, is found *)
(* at p less the removals below it.                                        *)

Removed(R, p) == Cardinality({r \in R : r < p})

LEMMA RemovedIs ==
  ASSUME NEW R \in SUBSET Nat, NEW p \in Nat
  PROVE  /\ IsFiniteSet({r \in R : r < p})
         /\ Removed(R, p) \in 0 .. p
<1>1. {r \in R : r < p} \in SUBSET (0 .. p - 1)
  <2>1. ASSUME NEW s \in {r \in R : r < p}
        PROVE  s \in 0 .. p - 1
    OBVIOUS
  <2> QED
    BY <2>1
<1>2. IsFiniteSet(0 .. p - 1) /\ Cardinality(0 .. p - 1) = p
  BY FS_Interval
<1>3. IsFiniteSet({r \in R : r < p}) /\ Cardinality({r \in R : r < p}) <= p
  BY <1>1, <1>2, FS_Subset
<1> QED
  BY <1>3, FS_CardinalityType DEF Removed

\* A place higher, one removal more or none.
LEMMA RemovedStep ==
  ASSUME NEW R \in SUBSET Nat, NEW p \in Nat
  PROVE  Removed(R, p + 1) = Removed(R, p) + IF p \in R THEN 1 ELSE 0
<1> DEFINE L == {r \in R : r < p}
           M == {r \in R : r < p + 1}
<1>1. /\ p \in R => M = L \cup {p}
      /\ p \notin R => M = L
  <2>1. \A s \in R : s \in Nat
    OBVIOUS
  <2>2. \A s \in R : s < p + 1 <=> s < p \/ s = p
    BY <2>1
  <2>3. \A s : s \in M <=> s \in L \/ (s = p /\ p \in R)
    BY <2>2, p < p + 1
  <2> HIDE DEF L, M
  <2> QED
    BY <2>3
<1>2. p \notin {r \in R : r < p} /\ IsFiniteSet({r \in R : r < p})
  BY RemovedIs
<1>3. CASE p \in R
  <2>1. Cardinality({r \in R : r < p} \cup {p}) = Cardinality({r \in R : r < p}) + 1
    BY <1>2, FS_AddElement
  <2> QED
    BY <1>1, <1>3, <2>1 DEF Removed
<1>4. CASE p \notin R
  BY <1>1, <1>4, RemovedIs DEF Removed
<1> QED
  BY <1>3, <1>4

LEMMA RemovedBetween ==
  ASSUME NEW R \in SUBSET Nat, NEW p \in Nat, NEW q \in Nat, p <= q
  PROVE  /\ Removed(R, p) <= Removed(R, q)
         /\ Removed(R, q) - Removed(R, p) <= q - p
         /\ p \notin R /\ p < q => Removed(R, q) - Removed(R, p) < q - p
<1> DEFINE L == {r \in R : r < p}
           M == {r \in R : p <= r /\ r < q}
<1>1. {r \in R : r < q} = L \cup M /\ L \cap M = {}
  <2> DEFINE N == {r \in R : r < q}
  <2>0. \A s \in R : s \in Nat
    OBVIOUS
  <2>1. \A s : (s \in N <=> s \in L \/ s \in M) /\ ~(s \in L /\ s \in M)
    <3>1. \A s \in R : s < q <=> s < p \/ (p <= s /\ s < q)
      BY <2>0
    <3>2. \A s \in R : ~(s < p /\ p <= s)
      BY <2>0
    <3> QED
      BY <3>1, <3>2
  <2> HIDE DEF L, M, N
  <2>2. N = L \cup M /\ L \cap M = {}
    BY <2>1
  <2> QED
    BY <2>2 DEF N
<1>2. IsFiniteSet(L) /\ Removed(R, p) = Cardinality(L)
  BY RemovedIs DEF Removed
<1>3. M \in SUBSET (p .. q - 1) /\ IsFiniteSet(p .. q - 1) /\ Cardinality(p .. q - 1) = q - p
  <2>1. \A s \in M : s \in p .. q - 1
    OBVIOUS
  <2>2. M \in SUBSET (p .. q - 1)
    BY <2>1
  <2> HIDE DEF M
  <2>3. IsFiniteSet(p .. q - 1) /\ Cardinality(p .. q - 1) = IF p > q - 1 THEN 0 ELSE q - 1 - p + 1
    BY FS_Interval
  <2> QED
    BY <2>2, <2>3
<1>4. IsFiniteSet(M) /\ Cardinality(M) <= q - p /\ Cardinality(M) \in Nat
  BY <1>3, FS_Subset, FS_CardinalityType
<1>5. Removed(R, q) = Cardinality(L) + Cardinality(M)
  <2>1. Cardinality(L \cup M) = Cardinality(L) + Cardinality(M) - Cardinality(L \cap M)
    BY <1>2, <1>4, FS_Union
  <2>2. Cardinality(L \cap M) = 0
    BY <1>1, FS_EmptySet
  <2>3. Removed(R, q) = Cardinality(L \cup M)
    BY <1>1 DEF Removed
  <2>4. Cardinality(L) \in Nat
    BY <1>2, FS_CardinalityType
  <2> HIDE DEF L, M
  <2> QED
    BY <2>1, <2>2, <2>3, <2>4, <1>4
<1>6. ASSUME p \notin R, p < q
      PROVE  Cardinality(M) < q - p
  <2>1. M \in SUBSET (p + 1 .. q - 1)
    <3>1. \A s \in M : s \in p + 1 .. q - 1
      BY <1>6
    <3> HIDE DEF M
    <3> QED
      BY <3>1
  <2>2. IsFiniteSet(p + 1 .. q - 1) /\ Cardinality(p + 1 .. q - 1) = q - p - 1
    BY <1>6, FS_Interval
  <2>3. Cardinality(M) <= q - p - 1
    BY <2>1, <2>2, FS_Subset
  <2> QED
    BY <1>4, <2>3
<1>7. Cardinality(L) \in Nat
  BY <1>2, FS_CardinalityType
<1> QED
  BY <1>2, <1>4, <1>5, <1>6, <1>7

\* Elements keep their order: of two that stay, the one at the higher place is
\* found at the higher index.
LEMMA StayInOrder ==
  ASSUME NEW R \in SUBSET Nat, NEW p \in Nat \ R, NEW q \in Nat, p < q
  PROVE  p - Removed(R, p) < q - Removed(R, q)
<1>1. p \in Nat /\ p \notin R
  OBVIOUS
<1>2. Removed(R, q) - Removed(R, p) < q - p
  BY <1>1, RemovedBetween
<1>3. Removed(R, p) \in 0 .. p /\ Removed(R, q) \in 0 .. q
  BY <1>1, RemovedIs
<1> QED
  BY <1>1, <1>2, <1>3

\* Every index is that of one element: of an element, if not too many are removed.
LEMMA ElementAtIndex ==
  ASSUME NEW R \in SUBSET Nat, IsFiniteSet(R), NEW i \in Nat
  PROVE  \E p \in Nat \ R : p - Removed(R, p) = i
<1> DEFINE T == {p \in Nat : p + 1 - Removed(R, p + 1) > i}
<1>1. Cardinality(R) \in Nat
  BY FS_CardinalityType
<1>2. i + Cardinality(R) \in T
  <2>1. Removed(R, i + Cardinality(R) + 1) <= Cardinality(R)
    BY FS_Subset DEF Removed
  <2>2. Removed(R, i + Cardinality(R) + 1) \in Nat
    <3>1. i + Cardinality(R) + 1 \in Nat
      BY <1>1
    <3>2. Removed(R, i + Cardinality(R) + 1) \in 0 .. i + Cardinality(R) + 1
      BY <3>1, RemovedIs
    <3> QED
      BY <3>2
  <2> QED
    BY <1>1, <2>1, <2>2
<1>3. PICK p \in T : \A j \in T : p <= j
  BY <1>2, LeastNat
<1>4. p \in Nat /\ p + 1 - Removed(R, p + 1) > i
  BY <1>3
<1>5. Removed(R, p) \in 0 .. p
  BY <1>4, RemovedIs
<1>6. p - Removed(R, p) <= i
  <2>1. CASE p = 0
    BY <2>1, <1>5
  <2>2. CASE p # 0
    <3>1. p - 1 \in Nat
      BY <2>2, <1>4
    <3>2. p - 1 \notin T
      BY <1>3, <3>1, <1>4
    <3>3. ~(p - 1 + 1 - Removed(R, p - 1 + 1) > i)
      BY <3>1, <3>2
    <3>4. p - 1 + 1 = p
      BY <1>4
    <3>5. Removed(R, p - 1 + 1) = Removed(R, p)
      BY <3>4
    <3> QED
      BY <3>3, <3>5, <1>4, <1>5
  <2> QED
    BY <2>1, <2>2
<1>7. Removed(R, p + 1) = Removed(R, p) + IF p \in R THEN 1 ELSE 0
  BY <1>4, RemovedStep
<1>8. p \notin R /\ p - Removed(R, p) = i
  BY <1>4, <1>5, <1>6, <1>7
<1> QED
  BY <1>4, <1>8

-----------------------------------------------------------------------------
(* An index carried back over a change of its list's length (shiftBack).   *)

LEMMA OneMoreRemoved ==
  ASSUME NEW R \in SUBSET Nat, NEW k \in Nat \ R, NEW p \in Nat
  PROVE  Removed(R \cup {k}, p) = Removed(R, p) + IF k < p THEN 1 ELSE 0
<1> DEFINE L == {r \in R : r < p}
           M == {r \in R \cup {k} : r < p}
<1>1. /\ k < p => M = L \cup {k}
      /\ ~(k < p) => M = L
  OBVIOUS
<1>2. IsFiniteSet(L) /\ k \notin L /\ Removed(R, p) = Cardinality(L) /\ Removed(R \cup {k}, p) = Cardinality(M)
  BY RemovedIs DEF Removed
<1> HIDE DEF L, M
<1>3. Cardinality(L \cup {k}) = Cardinality(L) + 1
  BY <1>2, FS_AddElement
<1>4. Cardinality(L) \in Nat
  BY <1>2, FS_CardinalityType
<1> QED
  BY <1>1, <1>2, <1>3, <1>4

\* The loop over the removals, as far as the n-th.
IsWayBack(f, idx, i, n) ==
  f = [j \in 0 .. n |-> IF j = 0 THEN i ELSE IF f[j - 1] < idx[j] THEN f[j - 1] ELSE f[j - 1] + 1]

LEMMA WayBackExists ==
  ASSUME NEW idx, NEW i, NEW n \in Nat
  PROVE  \E f : IsWayBack(f, idx, i, n)
<1> DEFINE T == {j \in Nat : ~\E f : IsWayBack(f, idx, i, j)}
<1> SUFFICES ASSUME T # {} PROVE FALSE
  OBVIOUS
<1>1. PICK least \in T : \A j \in T : least <= j
  BY LeastNat
<1>2. least \in Nat /\ ~\E f : IsWayBack(f, idx, i, least)
  BY <1>1
<1>3. CASE least = 0
  <2> DEFINE g == [j \in 0 .. 0 |-> i]
  <2>1. IsWayBack(g, idx, i, 0)
    BY DEF IsWayBack
  <2> QED
    BY <1>2, <1>3, <2>1
<1>4. CASE least # 0
  <2>1. least - 1 \in Nat /\ least - 1 \notin T
    BY <1>1, <1>2, <1>4
  <2>2. PICK f : IsWayBack(f, idx, i, least - 1)
    BY <2>1
  <2> DEFINE next(h, j) == IF j = 0 THEN i ELSE IF h[j - 1] < idx[j] THEN h[j - 1] ELSE h[j - 1] + 1
             g == [j \in 0 .. least |-> IF j = least THEN next(f, least) ELSE f[j]]
  <2>3. \A j \in 0 .. least - 1 : f[j] = next(f, j)
    BY <2>1, <2>2 DEF IsWayBack
  <2>4. ASSUME NEW j \in 0 .. least
        PROVE  g[j] = next(g, j)
    <3>1. CASE j = least
      <4>1. g[j] = next(f, j) /\ g[j - 1] = f[j - 1]
        BY <3>1, <1>2, <1>4
      <4> QED
        BY <4>1, <3>1, <1>4
    <3>2. CASE j # least
      <4>1. g[j] = next(f, j) /\ (j # 0 => g[j - 1] = f[j - 1])
        BY <3>2, <1>2, <1>4, <2>3
      <4> QED
        BY <4>1
    <3> QED
      BY <3>1, <3>2
  <2>5. IsWayBack(g, idx, i, least)
    BY <2>4 DEF IsWayBack
  <2> QED
    BY <1>2, <2>5
<1> QED
  BY <1>3, <1>4

LEMMA BackOverRemoveIs ==
  ASSUME NEW o, NEW i, o.idx \in Seq(Nat)
  PROVE  \E f : IsWayBack(f, o.idx, i, Len(o.idx)) /\ BackOverRemove(o, i) = f[Len(o.idx)]
<1>0. Len(o.idx) \in Nat
  OBVIOUS
<1>1. \E f : IsWayBack(f, o.idx, i, Len(o.idx))
  BY <1>0, WayBackExists
<1> DEFINE F == CHOOSE f : IsWayBack(f, o.idx, i, Len(o.idx))
<1>2. IsWayBack(F, o.idx, i, Len(o.idx))
  BY <1>1
<1>3. BackOverRemove(o, i) = F[Len(o.idx)]
  BY DEF BackOverRemove, IsWayBack
<1> QED
  BY <1>2, <1>3

Ascends(idx) == \A j, k \in DOMAIN idx : j < k => idx[j] < idx[k]

\* The first n removals.
Upto(idx, n) == {idx[j] : j \in 1 .. n}

LEMMA WayBackIs ==
  ASSUME NEW idx \in Seq(Nat), Ascends(idx), NEW i \in Nat,
         NEW f, IsWayBack(f, idx, i, Len(idx)), NEW n \in 0 .. Len(idx)
  PROVE  f[n] \in Nat \ Upto(idx, n) /\ f[n] - Removed(Upto(idx, n), f[n]) = i
<1> DEFINE OK(j) == f[j] \in Nat \ Upto(idx, j) /\ f[j] - Removed(Upto(idx, j), f[j]) = i
           T == {j \in 0 .. Len(idx) : ~OK(j)}
<1>0. Len(idx) \in Nat
  OBVIOUS
<1>1. \A j \in 0 .. Len(idx) :
        f[j] = IF j = 0 THEN i ELSE IF f[j - 1] < idx[j] THEN f[j - 1] ELSE f[j - 1] + 1
  BY DEF IsWayBack
<1>2. OK(0)
  <2>1. Upto(idx, 0) = {} /\ f[0] = i
    BY <1>0, <1>1 DEF Upto
  <2>2. Removed({}, i) = 0
    BY FS_EmptySet DEF Removed
  <2>3. Removed(Upto(idx, 0), f[0]) = 0
    BY <2>1, <2>2
  <2> QED
    BY <2>1, <2>3
<1>3. ASSUME NEW j \in 1 .. Len(idx), OK(j - 1)
      PROVE  OK(j)
  <2> DEFINE R == Upto(idx, j - 1)
             p == f[j - 1]
  <2>1. Upto(idx, j) = R \cup {idx[j]}
    <3>1. 1 .. j = (1 .. j - 1) \cup {j}
      OBVIOUS
    <3> QED
      BY <3>1 DEF Upto
  <2>2. R \in SUBSET Nat /\ idx[j] \in Nat /\ \A r \in R : r < idx[j]
    BY DEF Upto, Ascends
  <2>3. p \in Nat /\ p \notin R /\ p - Removed(R, p) = i
    BY <1>3
  <2>4. f[j] = IF p < idx[j] THEN p ELSE p + 1
    BY <1>1
  <2>5. Removed(R, p) \in 0 .. p
    BY <2>2, <2>3, RemovedIs
  <2>6. idx[j] \in Nat \ R
    BY <2>2
  <2> HIDE DEF R, p
  <2>7. CASE p < idx[j]
    <3>1. Removed(R \cup {idx[j]}, p) = Removed(R, p) + IF idx[j] < p THEN 1 ELSE 0
      BY <2>2, <2>3, <2>6, OneMoreRemoved
    <3>2. f[j] = p /\ ~(idx[j] < p) /\ p # idx[j]
      BY <2>4, <2>7, <2>3, <2>2
    <3>3. Removed(R \cup {idx[j]}, p) = Removed(R, p)
      BY <3>1, <3>2, <2>5
    <3> QED
      BY <3>2, <3>3, <2>1, <2>3
  <2>8. CASE ~(p < idx[j])
    <3>1. f[j] = p + 1 /\ idx[j] < p + 1 /\ p + 1 \in Nat
      BY <2>4, <2>8, <2>3, <2>2
    <3>2. Removed(R \cup {idx[j]}, p + 1) = Removed(R, p + 1) + IF idx[j] < p + 1 THEN 1 ELSE 0
      BY <2>2, <2>6, <3>1, OneMoreRemoved
    <3>3. Removed(R, p + 1) = Removed(R, p) + IF p \in R THEN 1 ELSE 0
      BY <2>2, <2>3, RemovedStep
    <3>4. Removed(R \cup {idx[j]}, p + 1) = Removed(R, p) + 1
      BY <3>1, <3>2, <3>3, <2>3, <2>5
    <3>5. p + 1 \notin R \cup {idx[j]}
      <4>1. \A r \in R : r # p + 1
        BY <2>2, <2>8, <2>3
      <4>2. idx[j] # p + 1
        BY <2>2, <2>8, <2>3
      <4> QED
        BY <4>1, <4>2
    <3>6. p + 1 - (Removed(R, p) + 1) = i
      BY <2>3, <2>5
    <3>7. Removed(Upto(idx, j), f[j]) = Removed(R, p) + 1
      BY <3>1, <3>4, <2>1
    <3>8. f[j] \in Nat \ Upto(idx, j)
      BY <3>1, <3>5, <2>1
    <3>9. f[j] - Removed(Upto(idx, j), f[j]) = i
      BY <3>1, <3>7, <2>3, <2>5
    <3> QED
      BY <3>8, <3>9
  <2> QED
    BY <2>7, <2>8
<1> HIDE DEF OK
<1>4. T = {}
  <2> SUFFICES ASSUME T # {} PROVE FALSE
    OBVIOUS
  <2>1. T \in SUBSET Nat
    BY <1>0
  <2>2. PICK least \in T : \A j \in T : least <= j
    BY <2>1, LeastNat
  <2>3. least \in 0 .. Len(idx) /\ ~OK(least)
    BY <2>2
  <2>4. least # 0
    BY <2>3, <1>2
  <2>5. least \in 1 .. Len(idx) /\ least - 1 \in 0 .. Len(idx)
    BY <2>3, <2>4, <1>0
  <2>6. OK(least - 1)
    BY <2>2, <2>5, <1>0
  <2> QED
    BY <2>3, <2>5, <2>6, <1>3
<1>5. OK(n)
  BY <1>4
<1> QED
  BY <1>5 DEF OK

\* A removal carried back: the index of an element in the list as it is after the
\* removal of the elements at idx becomes the index of that element in the list as
\* it was before (shiftBack, patch/normalize.go).
THEOREM BackOverRemoveFinds ==
  ASSUME NEW o, o.idx \in Seq(Nat), Ascends(o.idx), ~o.insert, NEW i \in Nat
  PROVE  /\ ShiftBack(o, i) \in Nat \ Range(o.idx)
         /\ ShiftBack(o, i) - Removed(Range(o.idx), ShiftBack(o, i)) = i
<1>1. PICK f : IsWayBack(f, o.idx, i, Len(o.idx)) /\ BackOverRemove(o, i) = f[Len(o.idx)]
  BY BackOverRemoveIs
<1>2. Upto(o.idx, Len(o.idx)) = Range(o.idx)
  BY DEF Upto, Range
<1>3. ShiftBack(o, i) = f[Len(o.idx)]
  BY <1>1 DEF ShiftBack
<1>4. Len(o.idx) \in 0 .. Len(o.idx)
  OBVIOUS
<1> QED
  BY <1>1, <1>2, <1>3, <1>4, WayBackIs

LEMMA AtOrBeforeIs ==
  ASSUME NEW o, o.idx \in Seq(Nat), NEW p \in Int
  PROVE  /\ AtOrBefore(o, p) \in 0 .. Len(o.idx)
         /\ p < 0 => AtOrBefore(o, p) = 0
<1> DEFINE S == {j \in DOMAIN o.idx : o.idx[j] <= p}
<1>1. S \in SUBSET (1 .. Len(o.idx))
  OBVIOUS
<1>2. p < 0 => S = {}
  OBVIOUS
<1>3. AtOrBefore(o, p) = Cardinality(S)
  BY DEF AtOrBefore
<1> HIDE DEF S
<1>4. Len(o.idx) \in Nat
  OBVIOUS
<1>5. IsFiniteSet(1 .. Len(o.idx)) /\ Cardinality(1 .. Len(o.idx)) = Len(o.idx)
  <2> DEFINE n == Len(o.idx)
  <2>1. n \in Nat
    BY <1>4
  <2> HIDE DEF n
  <2>2. IsFiniteSet(1 .. n) /\ Cardinality(1 .. n) = n
    BY <2>1, FS_Interval
  <2> QED
    BY <2>2 DEF n
<1>6. IsFiniteSet(S) /\ Cardinality(S) <= Len(o.idx)
  BY <1>1, <1>5, FS_Subset
<1>7. Cardinality(S) \in Nat
  BY <1>6, FS_CardinalityType
<1>8. p < 0 => Cardinality(S) = 0
  BY <1>2, FS_EmptySet
<1> QED
  BY <1>3, <1>4, <1>6, <1>7, <1>8

\* An insertion carried back: the element that was at p before the insertion is at
\* p and the insertions at or before p; an index that no element was at before is
\* one the insertion made, and only of those is it said so (shiftBack).
THEOREM BackOverInsertFinds ==
  ASSUME NEW o, o.idx \in Seq(Nat), o.insert, NEW i \in Nat
  PROVE  IF \E p \in Nat : p + AtOrBefore(o, p) = i
         THEN /\ ShiftBack(o, i) \in Nat
              /\ ShiftBack(o, i) + AtOrBefore(o, ShiftBack(o, i)) = i
         ELSE ShiftBack(o, i) = Created
<1> DEFINE counts == {c \in 0 .. Len(o.idx) : AtOrBefore(o, i - c) = c}
<1>0. Len(o.idx) \in Nat
  OBVIOUS
<1>1. ShiftBack(o, i) = IF counts = {} THEN Created ELSE i - Min(counts)
  BY DEF ShiftBack, BackOverInsert
<1>2. ASSUME NEW c \in counts
      PROVE  i - c \in Nat /\ i - c + AtOrBefore(o, i - c) = i
  <2>1. c \in Nat /\ i - c \in Int /\ AtOrBefore(o, i - c) = c
    BY <1>0
  <2>2. i - c < 0 => c = 0
    BY <2>1, AtOrBeforeIs
  <2> QED
    BY <2>1, <2>2
<1>3. ASSUME NEW p \in Nat, p + AtOrBefore(o, p) = i
      PROVE  AtOrBefore(o, p) \in counts
  <2>1. AtOrBefore(o, p) \in 0 .. Len(o.idx)
    BY AtOrBeforeIs
  <2>2. i - AtOrBefore(o, p) = p
    BY <2>1, <1>0, <1>3
  <2> QED
    BY <2>1, <2>2
<1>4. counts # {} => Min(counts) \in counts
  <2> SUFFICES ASSUME counts # {} PROVE Min(counts) \in counts
    OBVIOUS
  <2>1. counts \in SUBSET Nat
    BY <1>0
  <2>2. \E c \in counts : \A d \in counts : c <= d
    BY <2>1, LeastNat
  <2> HIDE DEF counts
  <2> QED
    BY <2>2 DEF Min
<1> HIDE DEF counts
<1>5. CASE \E p \in Nat : p + AtOrBefore(o, p) = i
  <2>1. counts # {}
    BY <1>3, <1>5
  <2> QED
    BY <1>1, <1>2, <1>4, <1>5, <2>1
<1>6. CASE ~\E p \in Nat : p + AtOrBefore(o, p) = i
  <2>1. counts = {}
    BY <1>2, <1>6
  <2> QED
    BY <1>1, <1>6, <2>1
<1> QED
  BY <1>5, <1>6

-----------------------------------------------------------------------------
(* What an exchange leaves of an entry: all but the indices of a path or   *)
(* of targets, and those of no entry that is fixed.                        *)

IsRecord(e) ==
  /\ e = [path |-> e.path, create |-> e.create, skip |-> e.skip,
          scope |-> e.scope, targets |-> e.targets, op |-> e.op]
  /\ e.op.kind = "nest" => e.op = [kind |-> "nest", delta |-> e.op.delta]

\* e is what has become of the entry f.
ComesFrom(e, f) ==
  /\ IsRecord(e)
  /\ e.create = f.create /\ e.skip = f.skip /\ e.scope = f.scope
  /\ e.op.kind = f.op.kind /\ Outline(e.op) = Outline(f.op)
  /\ Fixed(f) => e.path = f.path /\ e.targets = f.targets

LEMMA GivenEntries ==
  ASSUME given \in Documents
  PROVE  /\ given.delta \in Seq(Range(given.delta))
         /\ given = [message_type |-> given.message_type, revision |-> given.revision,
                     unknown |-> given.unknown, delta |-> given.delta]
         /\ \A h \in 1 .. Len(given.delta) : IsEntry(given.delta[h]) /\ IsRecord(given.delta[h])
<1>1. IsDocument(given)
  BY DocumentsAssumption
<1>2. given.delta \in Seq(Range(given.delta))
  BY <1>1 DEF IsDocument
<1>3. ASSUME NEW h \in 1 .. Len(given.delta)
      PROVE  IsEntry(given.delta[h])
  <2>1. given.delta[h] \in Layers(given.delta)[0]
    BY <1>2, LayersDef DEF Range
  <2>2. given.delta[h] \in EntriesOf(given.delta)
    BY <2>1, LayerInEntries, LimitsAssumption
  <2> QED
    BY <1>1, <2>2 DEF IsDocument
<1>4. ASSUME NEW h \in 1 .. Len(given.delta)
      PROVE  IsRecord(given.delta[h])
  BY <1>3 DEF IsEntry, IsOperation, IsRecord
<1>5. given = [message_type |-> given.message_type, revision |-> given.revision,
               unknown |-> given.unknown, delta |-> given.delta]
  BY <1>1, Zenon DEF IsDocument
<1> QED
  BY <1>2, <1>3, <1>4, <1>5

LEMMA InFrontOfIs ==
  ASSUME NEW a, NEW b, IsRecord(b)
  PROVE  LET r == InFrontOf(b, a)
         IN  /\ IsRecord(r)
             /\ r.create = b.create /\ r.skip = b.skip /\ r.scope = b.scope /\ r.op = b.op
<1> DEFINE inPath == [b.path EXCEPT ![Len(a.path) + 1] = Back(@, a)]
           r == InFrontOf(b, a)
<1>1. b = [path |-> b.path, create |-> b.create, skip |-> b.skip,
           scope |-> b.scope, targets |-> b.targets, op |-> b.op]
  BY DEF IsRecord
<1>2. r = IF InList(b.path, a.path) THEN [b EXCEPT !.path = inPath]
          ELSE IF b.path = a.path THEN [b EXCEPT !.targets = TargetsBack(b, a)] ELSE b
  <2>1. InList(b.path, a.path) => b.path # a.path
    BY DEF InList, IsStrictPrefix
  <2>2. CASE InList(b.path, a.path)
    BY <2>1, <2>2 DEF InFrontOf
  <2>3. CASE ~InList(b.path, a.path) /\ b.path = a.path
    BY <2>3 DEF InFrontOf
  <2>4. CASE ~InList(b.path, a.path) /\ b.path # a.path
    BY <2>4 DEF InFrontOf
  <2> QED
    BY <2>2, <2>3, <2>4
<1> HIDE DEF inPath, r
<1>3. \E p, t : r = [path |-> p, create |-> b.create, skip |-> b.skip,
                     scope |-> b.scope, targets |-> t, op |-> b.op]
  <2>1. CASE InList(b.path, a.path)
    <3>1. r = [path |-> inPath, create |-> b.create, skip |-> b.skip,
               scope |-> b.scope, targets |-> b.targets, op |-> b.op]
      BY <1>1, <1>2, <2>1
    <3> QED
      BY <3>1
  <2>2. CASE ~InList(b.path, a.path) /\ b.path = a.path
    <3>1. r = [path |-> b.path, create |-> b.create, skip |-> b.skip,
               scope |-> b.scope, targets |-> TargetsBack(b, a), op |-> b.op]
      BY <1>1, <1>2, <2>2
    <3> QED
      BY <3>1
  <2>3. CASE ~InList(b.path, a.path) /\ b.path # a.path
    BY <1>1, <1>2, <2>3
  <2> QED
    BY <2>1, <2>2, <2>3
<1>4. IsRecord(r) /\ r.create = b.create /\ r.skip = b.skip /\ r.scope = b.scope /\ r.op = b.op
  BY <1>3 DEF IsRecord
<1> QED
  BY <1>4 DEF r

LEMMA FixedIsBarrier ==
  ASSUME NEW e, NEW f, ComesFrom(e, f), Fixed(f)
  PROVE  Barrier(e)
<1>1. e.op.kind \in {"test", "move", "copy"} \/ e.scope = "container" \/ e.create
  BY DEF ComesFrom, Fixed
<1>2. CASE e.op.kind \in {"test", "move", "copy"}
  BY <1>2 DEF Barrier
<1>3. CASE e.scope = "container"
  BY <1>3 DEF Barrier
<1>4. CASE e.create
  BY <1>4 DEF Barrier
<1> QED
  BY <1>1, <1>2, <1>3, <1>4

-----------------------------------------------------------------------------
(* The entries of a delta, exchanged and rewritten, are the entries of the *)
(* delta given; pi says where each comes from.                             *)

Rearranged(d, g, pi) ==
  /\ d \in Seq(Range(d)) /\ Len(d) = Len(g)
  /\ pi \in [1 .. Len(g) -> 1 .. Len(g)]
  /\ \A j, k \in 1 .. Len(g) : pi[j] = pi[k] => j = k
  /\ \A k \in 1 .. Len(g) : \E j \in 1 .. Len(g) : pi[j] = k
  /\ \A j \in 1 .. Len(g) : ComesFrom(d[j], g[pi[j]])
  /\ \A h \in 1 .. Len(g) : Fixed(g[h]) => pi[h] = h /\ \A j \in 1 .. Len(g) : j < h <=> pi[j] < h

LEMMA GivenRearranged ==
  ASSUME given \in Documents
  PROVE  Rearranged(given.delta, given.delta, [j \in 1 .. Len(given.delta) |-> j])
<1>1. \A j \in 1 .. Len(given.delta) : ComesFrom(given.delta[j], given.delta[j])
  BY GivenEntries DEF ComesFrom
<1>2. given.delta \in Seq(Range(given.delta))
  BY GivenEntries
<1> QED
  BY <1>1, <1>2 DEF Rearranged

LEMMA SwapRearranged ==
  ASSUME NEW d, NEW g, NEW pi, Rearranged(d, g, pi), g \in Seq(Range(g)),
         NEW i \in Nat \ {0}, i < Len(d), MaySwap(d[i], d[i + 1])
  PROVE  Rearranged([d EXCEPT ![i] = InFrontOf(d[i + 1], d[i]), ![i + 1] = d[i]], g,
                    [pi EXCEPT ![i] = pi[i + 1], ![i + 1] = pi[i]])
<1> DEFINE b == InFrontOf(d[i + 1], d[i])
           c == [d EXCEPT ![i] = b, ![i + 1] = d[i]]
           rho == [pi EXCEPT ![i] = pi[i + 1], ![i + 1] = pi[i]]
           N == Len(g)
<1>0. N \in Nat /\ i \in 1 .. N /\ i + 1 \in 1 .. N /\ i # i + 1 /\ DOMAIN d = 1 .. N
  BY DEF Rearranged
<1>1. ComesFrom(b, g[pi[i + 1]])
  <2>1. ComesFrom(d[i + 1], g[pi[i + 1]])
    BY <1>0 DEF Rearranged
  <2>2. IsRecord(d[i + 1])
    BY <2>1 DEF ComesFrom
  <2>3. IsRecord(b) /\ b.create = d[i + 1].create /\ b.skip = d[i + 1].skip
          /\ b.scope = d[i + 1].scope /\ b.op = d[i + 1].op
    BY <2>2, InFrontOfIs
  <2>4. ~Fixed(g[pi[i + 1]])
    BY <2>1, FixedIsBarrier DEF MaySwap
  <2> HIDE DEF b
  <2> QED
    BY <2>1, <2>3, <2>4 DEF ComesFrom
<1>2. ComesFrom(d[i], g[pi[i]]) /\ ~Fixed(g[pi[i]]) /\ ~Fixed(g[pi[i + 1]])
  <2>1. ComesFrom(d[i], g[pi[i]]) /\ ComesFrom(d[i + 1], g[pi[i + 1]])
    BY <1>0 DEF Rearranged
  <2> QED
    BY <2>1, FixedIsBarrier DEF MaySwap
<1> HIDE DEF b
<1>3. /\ c = [j \in 1 .. N |-> IF j = i + 1 THEN d[i] ELSE IF j = i THEN b ELSE d[j]]
      /\ c \in Seq(Range(c)) /\ Len(c) = N
  <2>1. c = [j \in 1 .. N |-> IF j = i + 1 THEN d[i] ELSE IF j = i THEN b ELSE d[j]]
    BY <1>0 DEF Rearranged
  <2> HIDE DEF c
  <2>2. c \in [1 .. N -> Range(c)]
    BY <2>1 DEF Range
  <2>3. c \in Seq(Range(c))
    BY <2>2, <1>0
  <2>4. Len(c) = N
    BY <2>1, <2>3, <1>0
  <2> QED
    BY <2>1, <2>3, <2>4
<1>4. /\ rho = [j \in 1 .. N |-> IF j = i + 1 THEN pi[i] ELSE IF j = i THEN pi[i + 1] ELSE pi[j]]
      /\ pi \in [1 .. N -> 1 .. N]
  BY <1>0 DEF Rearranged
<1> HIDE DEF c, rho
<1>5. rho \in [1 .. N -> 1 .. N]
  BY <1>4, <1>0
<1>6. /\ \A j, k \in 1 .. N : pi[j] = pi[k] => j = k
      /\ \A k \in 1 .. N : \E j \in 1 .. N : pi[j] = k
  BY DEF Rearranged
<1>7. \A j, k \in 1 .. N : rho[j] = rho[k] => j = k
  BY <1>0, <1>4, <1>6
<1>8. ASSUME NEW k \in 1 .. N
      PROVE  \E j \in 1 .. N : rho[j] = k
  <2>1. PICK j \in 1 .. N : pi[j] = k
    BY <1>6
  <2>2. CASE j = i
    <3>1. rho[i + 1] = k
      BY <2>1, <2>2, <1>0, <1>4
    <3> QED
      BY <3>1, <1>0
  <2>3. CASE j = i + 1
    <3>1. rho[i] = k
      BY <2>1, <2>3, <1>0, <1>4
    <3> QED
      BY <3>1, <1>0
  <2>4. CASE j # i /\ j # i + 1
    BY <2>1, <2>4, <1>4
  <2> QED
    BY <2>2, <2>3, <2>4
<1>9. ASSUME NEW j \in 1 .. N
      PROVE  ComesFrom(c[j], g[rho[j]])
  <2>1. ComesFrom(d[j], g[pi[j]])
    BY DEF Rearranged
  <2> QED
    BY <2>1, <1>0, <1>1, <1>2, <1>3, <1>4
<1>10. ASSUME NEW h \in 1 .. N, Fixed(g[h])
       PROVE  rho[h] = h /\ \A j \in 1 .. N : j < h <=> rho[j] < h
  <2>1. pi[h] = h /\ \A j \in 1 .. N : j < h <=> pi[j] < h
    BY <1>10 DEF Rearranged
  <2>2. h # i /\ h # i + 1
    BY <2>1, <1>2, <1>10
  <2>3. i < h <=> i + 1 < h
    BY <2>2, <1>0
  <2>4. rho[h] = h
    BY <2>1, <2>2, <1>4
  <2>5. ASSUME NEW j \in 1 .. N
        PROVE  j < h <=> rho[j] < h
    <3>1. (i < h <=> pi[i] < h) /\ (i + 1 < h <=> pi[i + 1] < h) /\ (j < h <=> pi[j] < h)
      BY <2>1, <1>0
    <3> QED
      BY <3>1, <2>3, <1>0, <1>4
  <2> QED
    BY <2>4, <2>5
<1>11. Rearranged(c, g, rho)
  BY <1>3, <1>5, <1>7, <1>8, <1>9, <1>10 DEF Rearranged
<1> QED
  BY <1>11 DEF b, c, rho

\* A nested delta that is put back leaves its nest where it is.
LEMMA PutBackRearranged ==
  ASSUME NEW d, NEW g, NEW pi, Rearranged(d, g, pi), g \in Seq(Range(g)),
         NEW k \in 1 .. Len(d), d[k].op.kind = "nest", NEW inner
  PROVE  Rearranged([d EXCEPT ![k].op.delta = inner], g, pi)
<1> DEFINE e == [d[k] EXCEPT !.op.delta = inner]
           c == [d EXCEPT ![k].op.delta = inner]
           N == Len(g)
<1>0. N \in Nat /\ k \in 1 .. N /\ DOMAIN d = 1 .. N
  BY DEF Rearranged
<1>1. ComesFrom(d[k], g[pi[k]])
  BY <1>0 DEF Rearranged
<1>2. ComesFrom(e, g[pi[k]])
  <2>1. /\ d[k] = [path |-> d[k].path, create |-> d[k].create, skip |-> d[k].skip,
                   scope |-> d[k].scope, targets |-> d[k].targets, op |-> d[k].op]
        /\ d[k].op = [kind |-> "nest", delta |-> d[k].op.delta]
    BY <1>1 DEF ComesFrom, IsRecord
  <2>2. [d[k].op EXCEPT !.delta = inner] = [kind |-> "nest", delta |-> inner]
    BY <2>1
  <2>3. e = [path |-> d[k].path, create |-> d[k].create, skip |-> d[k].skip,
             scope |-> d[k].scope, targets |-> d[k].targets, op |-> [kind |-> "nest", delta |-> inner]]
    BY <2>1, <2>2
  <2> HIDE DEF e
  <2>4. Outline(e.op) = Outline(d[k].op)
    <3>1. Outline(d[k].op) = [kind |-> "nest", delta |-> <<>>]
      BY <2>1 DEF Outline
    <3>2. Outline(e.op) = [kind |-> "nest", delta |-> <<>>]
      BY <2>3 DEF Outline
    <3> QED
      BY <3>1, <3>2
  <2>5. IsRecord(e)
    BY <2>3 DEF IsRecord
  <2> QED
    BY <1>1, <2>3, <2>4, <2>5 DEF ComesFrom
<1>3. c = [j \in 1 .. N |-> IF j = k THEN e ELSE d[j]]
  BY <1>0 DEF Rearranged
<1> HIDE DEF e, c
<1>4. c \in Seq(Range(c)) /\ Len(c) = N
  <2>1. c \in [1 .. N -> Range(c)]
    BY <1>3 DEF Range
  <2>2. c \in Seq(Range(c))
    BY <2>1, <1>0
  <2> QED
    BY <1>0, <1>3, <2>2
<1>5. ASSUME NEW j \in 1 .. N
      PROVE  ComesFrom(c[j], g[pi[j]])
  <2>1. ComesFrom(d[j], g[pi[j]])
    BY DEF Rearranged
  <2> QED
    BY <2>1, <1>2, <1>3
<1>6. /\ pi \in [1 .. N -> 1 .. N]
      /\ \A j, l \in 1 .. N : pi[j] = pi[l] => j = l
      /\ \A l \in 1 .. N : \E j \in 1 .. N : pi[j] = l
      /\ \A h \in 1 .. N : Fixed(g[h]) => pi[h] = h /\ \A j \in 1 .. N : j < h <=> pi[j] < h
  BY DEF Rearranged
<1>7. Rearranged(c, g, pi)
  BY <1>4, <1>5, <1>6 DEF Rearranged
<1> QED
  BY <1>7 DEF c

-----------------------------------------------------------------------------
(* The deltas being normalized.  The last is the document's own.           *)

LEMMA OwnRange ==
  ASSUME NEW S, NEW v \in Seq(S)
  PROVE  /\ v \in Seq(Range(v))
         /\ Len(v) > 0 => v # <<>>
<1>1. v \in [1 .. Len(v) -> Range(v)] /\ Len(v) \in Nat
  BY DEF Range
<1> QED
  BY <1>1

LEMMA HeadReplaced ==
  ASSUME NEW w, w \in Seq(Range(w)), w # <<>>, NEW fr
  PROVE  LET v == <<fr>> \o Tail(w)
         IN  /\ v \in Seq(Range(v)) /\ v # <<>> /\ Len(v) = Len(w) /\ v[1] = fr
             /\ v[Len(v)] = IF Len(w) = 1 THEN fr ELSE w[Len(w)]
<1> DEFINE S == Range(w) \cup {fr}
           v == <<fr>> \o Tail(w)
<1>1. w \in Seq(S) /\ Tail(w) \in Seq(S) /\ <<fr>> \in Seq(S)
  <2>1. \A j \in 1 .. Len(w) : w[j] \in S
    BY DEF Range
  <2> HIDE DEF S
  <2>2. w \in Seq(S)
    BY <2>1
  <2>3. fr \in S
    BY DEF S
  <2> QED
    BY <2>2, <2>3
<1> HIDE DEF S
<1>2. v \in Seq(S) /\ Len(v) = Len(w) /\ v[1] = fr
  BY <1>1
<1>3. v[Len(v)] = IF Len(w) = 1 THEN fr ELSE w[Len(w)]
  BY <1>1
<1>4. v \in Seq(Range(v)) /\ v # <<>>
  <2>1. Len(v) > 0
    BY <1>1, <1>2
  <2> HIDE DEF v
  <2> QED
    BY <1>2, <2>1, OwnRange
<1> QED
  BY <1>2, <1>3, <1>4

LEMMA NotEmpty ==
  ASSUME NEW w, w \in Seq(Range(w)), w # <<>>
  PROVE  Len(w) \in Nat \ {0} /\ (Len(w) = 1 \/ Len(w) > 1)
<1> DEFINE N == Len(w)
<1>1. N \in Nat /\ N # 0
  OBVIOUS
<1> HIDE DEF N
<1>2. N \in Nat \ {0} /\ (N = 1 \/ N > 1)
  BY <1>1
<1> QED
  BY <1>2 DEF N

LEMMA FramePushed ==
  ASSUME NEW w, w \in Seq(Range(w)), w # <<>>, NEW fr
  PROVE  LET v == <<fr>> \o w
         IN  /\ v \in Seq(Range(v)) /\ v # <<>> /\ Len(v) = Len(w) + 1
             /\ v[Len(v)] = w[Len(w)]
<1> DEFINE S == Range(w) \cup {fr}
           v == <<fr>> \o w
<1>1. w \in Seq(S) /\ <<fr>> \in Seq(S)
  <2>1. \A j \in 1 .. Len(w) : w[j] \in S
    BY DEF Range
  <2> HIDE DEF S
  <2>2. w \in Seq(S)
    BY <2>1
  <2>3. fr \in S
    BY DEF S
  <2> QED
    BY <2>2, <2>3
<1> HIDE DEF S
<1>2. v \in Seq(S) /\ Len(v) = Len(w) + 1 /\ v[Len(v)] = w[Len(w)]
  BY <1>1
<1>3. v \in Seq(Range(v)) /\ v # <<>>
  <2>1. Len(v) > 0
    BY <1>1, <1>2
  <2> HIDE DEF v
  <2> QED
    BY <1>2, <2>1, OwnRange
<1> QED
  BY <1>2, <1>3

LEMMA FramePopped ==
  ASSUME NEW w, w \in Seq(Range(w)), Len(w) > 1, NEW fr
  PROVE  LET v == <<fr>> \o Tail(Tail(w))
         IN  /\ v \in Seq(Range(v)) /\ v # <<>> /\ Len(v) = Len(w) - 1
             /\ v[Len(v)] = IF Len(w) = 2 THEN fr ELSE w[Len(w)]
<1> DEFINE t == Tail(w)
           N == Len(w)
<1>1. N \in Nat /\ N > 1 /\ w # <<>>
  OBVIOUS
<1>2. t \in Seq(Range(w)) /\ Len(t) = N - 1 /\ t[Len(t)] = w[N]
  BY <1>1
<1> HIDE DEF t, N
<1>3. t # <<>>
  BY <1>1, <1>2
<1>4. t \in Seq(Range(t))
  BY <1>1, <1>2, <1>3, OwnRange
<1>5. LET v == <<fr>> \o Tail(t)
      IN  /\ v \in Seq(Range(v)) /\ v # <<>> /\ Len(v) = Len(t) /\ v[1] = fr
          /\ v[Len(v)] = IF Len(t) = 1 THEN fr ELSE t[Len(t)]
  BY <1>3, <1>4, HeadReplaced
<1>6. Len(t) = 1 <=> N = 2
  BY <1>1, <1>2
<1> QED
  BY <1>2, <1>5, <1>6 DEF t, N

outermost == work[Len(work)]

Framed(fr) ==
  /\ fr = [x \in {"entries", "n", "pass", "i", "moved"} |-> fr[x]]
  /\ fr.entries \in Seq(Range(fr.entries))
  /\ fr.n \in Nat /\ fr.i \in Nat \ {0}

LEMMA SortingIs ==
  ASSUME NEW d, d \in Seq(Range(d))
  PROVE  LET fr == Sorting(d)
         IN  /\ Framed(fr) /\ fr.entries = d /\ fr.n = 0 /\ fr.pass = 0 /\ fr.i = 1
             /\ fr.moved = FALSE
<1> DEFINE fr == Sorting(d)
<1>1. /\ fr.entries = d /\ fr.n = 0 /\ fr.pass = 0 /\ fr.i = 1 /\ fr.moved = FALSE
      /\ DOMAIN fr = {"entries", "n", "pass", "i", "moved"}
  BY DEF Sorting
<1>2. fr = [x \in {"entries", "n", "pass", "i", "moved"} |-> fr[x]]
  BY DEF Sorting
<1> QED
  BY <1>1, <1>2 DEF Framed

LEMMA Counted ==
  ASSUME NEW fr, Framed(fr)
  PROVE  LET g == [fr EXCEPT !.n = @ + 1]
         IN  /\ Framed(g) /\ g.entries = fr.entries /\ g.n = fr.n + 1
             /\ g.pass = fr.pass /\ g.i = fr.i /\ g.moved = fr.moved
<1> DEFINE g == [fr EXCEPT !.n = @ + 1]
<1>1. g = [x \in {"entries", "n", "pass", "i", "moved"} |-> g[x]]
  BY DEF Framed
<1>2. /\ g.entries = fr.entries /\ g.n = fr.n + 1
      /\ g.pass = fr.pass /\ g.i = fr.i /\ g.moved = fr.moved
  BY DEF Framed
<1> HIDE DEF g
<1>3. Framed(g)
  BY <1>1, <1>2 DEF Framed
<1> QED
  BY <1>2, <1>3 DEF g

LEMMA Advanced ==
  ASSUME NEW fr, Framed(fr)
  PROVE  LET g == [fr EXCEPT !.i = @ + 1]
         IN  /\ Framed(g) /\ g.entries = fr.entries /\ g.n = fr.n
             /\ g.pass = fr.pass /\ g.i = fr.i + 1 /\ g.moved = fr.moved
<1> DEFINE g == [fr EXCEPT !.i = @ + 1]
<1>1. g = [x \in {"entries", "n", "pass", "i", "moved"} |-> g[x]]
  BY DEF Framed
<1>2. /\ g.entries = fr.entries /\ g.n = fr.n
      /\ g.pass = fr.pass /\ g.i = fr.i + 1 /\ g.moved = fr.moved
  BY DEF Framed
<1> HIDE DEF g
<1>3. Framed(g)
  BY <1>1, <1>2 DEF Framed
<1> QED
  BY <1>2, <1>3 DEF g

LEMMA Restarted ==
  ASSUME NEW fr, Framed(fr)
  PROVE  LET g == [fr EXCEPT !.pass = @ + 1, !.i = 1, !.moved = FALSE]
         IN  /\ Framed(g) /\ g.entries = fr.entries /\ g.n = fr.n
             /\ g.pass = fr.pass + 1 /\ g.i = 1 /\ g.moved = FALSE
<1> DEFINE g == [fr EXCEPT !.pass = @ + 1, !.i = 1, !.moved = FALSE]
<1>1. g = [x \in {"entries", "n", "pass", "i", "moved"} |-> g[x]]
  BY DEF Framed
<1>2. g.entries = fr.entries /\ g.n = fr.n /\ g.pass = fr.pass + 1 /\ g.i = 1
  BY DEF Framed
<1>3. g.moved = FALSE
  BY DEF Framed
<1> HIDE DEF g
<1>4. Framed(g)
  BY <1>1, <1>2 DEF Framed
<1> QED
  BY <1>2, <1>3, <1>4 DEF g

LEMMA Exchanged ==
  ASSUME NEW fr, Framed(fr), NEW X, NEW Y,
         LET c == [fr.entries EXCEPT ![fr.i] = X, ![fr.i + 1] = Y] IN c \in Seq(Range(c))
  PROVE  LET g == [fr EXCEPT !.entries[fr.i] = X, !.entries[fr.i + 1] = Y, !.i = @ + 1, !.moved = TRUE]
         IN  /\ Framed(g) /\ g.entries = [fr.entries EXCEPT ![fr.i] = X, ![fr.i + 1] = Y]
             /\ g.n = fr.n /\ g.pass = fr.pass /\ g.i = fr.i + 1 /\ g.moved
<1> DEFINE g == [fr EXCEPT !.entries[fr.i] = X, !.entries[fr.i + 1] = Y, !.i = @ + 1, !.moved = TRUE]
<1>1. g = [x \in {"entries", "n", "pass", "i", "moved"} |-> g[x]]
  BY DEF Framed
<1>2. g.n = fr.n /\ g.pass = fr.pass /\ g.i = fr.i + 1
  BY DEF Framed
<1>3. g.moved
  BY DEF Framed
<1>4. g.entries = [fr.entries EXCEPT ![fr.i] = X, ![fr.i + 1] = Y]
  BY DEF Framed
<1> HIDE DEF g
<1>5. Framed(g)
  <2>1. g.entries \in Seq(Range(g.entries))
    BY <1>4
  <2>2. g.n \in Nat /\ g.i \in Nat \ {0}
    BY <1>2 DEF Framed
  <2> QED
    BY <1>1, <2>1, <2>2 DEF Framed
<1> QED
  BY <1>2, <1>3, <1>4, <1>5 DEF g

LEMMA PutIn ==
  ASSUME NEW fr, Framed(fr), NEW X,
         LET c == [fr.entries EXCEPT ![fr.n + 1].op.delta = X] IN c \in Seq(Range(c))
  PROVE  LET g == [fr EXCEPT !.entries[fr.n + 1].op.delta = X, !.n = @ + 1]
         IN  /\ Framed(g) /\ g.entries = [fr.entries EXCEPT ![fr.n + 1].op.delta = X]
             /\ g.n = fr.n + 1
<1> DEFINE g == [fr EXCEPT !.entries[fr.n + 1].op.delta = X, !.n = @ + 1]
<1>1. g = [x \in {"entries", "n", "pass", "i", "moved"} |-> g[x]]
  BY DEF Framed
<1>2. g.n = fr.n + 1 /\ g.i = fr.i
  BY DEF Framed
<1>3. g.entries = [fr.entries EXCEPT ![fr.n + 1].op.delta = X]
  BY DEF Framed
<1> HIDE DEF g
<1>4. Framed(g)
  <2>1. g.entries \in Seq(Range(g.entries))
    BY <1>3
  <2>2. g.n \in Nat /\ g.i \in Nat \ {0}
    BY <1>2 DEF Framed
  <2> QED
    BY <1>1, <2>1, <2>2 DEF Framed
<1> QED
  BY <1>2, <1>3, <1>4 DEF g

\* While a nested delta is being normalized, the document's own is at its nest.
AtNest(fr) == fr.n + 1 \in 1 .. Len(fr.entries) /\ fr.entries[fr.n + 1].op.kind = "nest"

\* The inductive invariant: at every moment the document's own delta is a
\* rearrangement of the one given, and so is the delta of the document returned.
Reordering ==
  /\ given \in Documents
  /\ status = "running" =>
       /\ work \in Seq(Range(work)) /\ work # <<>>
       /\ Framed(outermost)
       /\ Len(work) > 1 => AtNest(outermost)
       /\ \E pi : Rearranged(outermost.entries, given.delta, pi)
  /\ status = "ok" => \E pi : Rearranged(out.delta, given.delta, pi)

LEMMA InitReordering == NInit => Reordering
BY DEF NInit, Reordering

LEMMA BeginReordering ==
  ASSUME Reordering, NBegin
  PROVE  Reordering'
<1>1. given' = given /\ given \in Documents /\ status' = "running" /\ work' = <<Sorting(given.delta)>>
  BY DEF Reordering, NBegin
<1>2. /\ outermost' = Sorting(given.delta) /\ Len(work') = 1
      /\ work' \in Seq(Range(work')) /\ work' # <<>>
  <2>1. work' \in Seq({Sorting(given.delta)}) /\ Range(work') = {Sorting(given.delta)}
    BY <1>1 DEF Range
  <2> QED
    BY <1>1, <2>1 DEF outermost
<1>3. Framed(Sorting(given.delta)) /\ Sorting(given.delta).entries = given.delta
  BY <1>1, GivenEntries, SortingIs
<1>4. Rearranged(given.delta, given.delta, [j \in 1 .. Len(given.delta) |-> j])
  BY <1>1, GivenRearranged
<1> QED
  BY <1>1, <1>2, <1>3, <1>4 DEF Reordering

\* A step that replaces the innermost delta.
LEMMA GoReordering ==
  ASSUME Reordering, status = "running", NEW fr, Go(fr),
         Len(work) = 1 => Framed(fr) /\ \E pi : Rearranged(fr.entries, given.delta, pi)
  PROVE  Reordering'
<1>1. /\ given \in Documents /\ work \in Seq(Range(work)) /\ work # <<>> /\ Framed(outermost)
      /\ Len(work) > 1 => AtNest(outermost)
      /\ \E pi : Rearranged(outermost.entries, given.delta, pi)
  BY DEF Reordering
<1>2. work' = <<fr>> \o Tail(work) /\ given' = given /\ status' = "running"
  BY DEF Go
<1>3. /\ work' \in Seq(Range(work')) /\ work' # <<>> /\ Len(work') = Len(work)
      /\ outermost' = IF Len(work) = 1 THEN fr ELSE outermost
  BY <1>1, <1>2, HeadReplaced DEF outermost
<1>5. Len(work) = 1 \/ Len(work) > 1
  BY <1>1, NotEmpty
<1> QED
  BY <1>1, <1>2, <1>3, <1>5 DEF Reordering

\* The innermost delta is the document's own when there is no other.
LEMMA Innermost ==
  ASSUME Reordering, status = "running", Len(work) = 1
  PROVE  /\ now = outermost /\ Framed(now)
         /\ \E pi : Rearranged(now.entries, given.delta, pi)
BY DEF Reordering, now, outermost

LEMMA EnterReordering ==
  ASSUME Reordering, Enter
  PROVE  Reordering'
<1>1. /\ given \in Documents /\ work \in Seq(Range(work)) /\ work # <<>> /\ Framed(outermost)
      /\ Len(work) > 1 => AtNest(outermost)
      /\ \E pi : Rearranged(outermost.entries, given.delta, pi)
      /\ status = "running"
  BY DEF Reordering, Enter, Looking
<1>2. /\ work' = <<Sorting(now.entries[now.n + 1].op.delta)>> \o work
      /\ given' = given /\ status' = "running"
  BY <1>1 DEF Enter
<1>3. work' \in Seq(Range(work')) /\ work' # <<>> /\ outermost' = outermost
  BY <1>1, <1>2, FramePushed DEF outermost
<1>4. AtNest(outermost)
  <2>1. CASE Len(work) = 1
    <3>1. now = outermost
      BY <1>1, <2>1 DEF now, outermost
    <3>2. now.n < Len(now.entries) /\ now.entries[now.n + 1].op.kind = "nest"
      BY DEF Enter, Looking
    <3>3. outermost.n \in Nat /\ Len(outermost.entries) \in Nat
      BY <1>1 DEF Framed
    <3> QED
      BY <3>1, <3>2, <3>3 DEF AtNest
  <2>2. CASE Len(work) # 1
    <3>1. Len(work) \in Nat \ {0}
      BY <1>1, NotEmpty
    <3> DEFINE m == Len(work)
    <3>2. m \in Nat \ {0} /\ m # 1
      BY <2>2, <3>1
    <3> HIDE DEF m
    <3>3. m > 1
      BY <3>2
    <3> QED
      BY <1>1, <3>3 DEF m
  <2> QED
    BY <2>1, <2>2
<1> QED
  BY <1>1, <1>2, <1>3, <1>4 DEF Reordering

LEMMA PassByReordering ==
  ASSUME Reordering, PassBy
  PROVE  Reordering'
<1> DEFINE fr == [now EXCEPT !.n = @ + 1]
<1>1. status = "running" /\ Go(fr)
  BY DEF PassBy, Looking
<1>2. ASSUME Len(work) = 1
      PROVE  Framed(fr) /\ fr.entries = now.entries
  BY <1>2, <1>1, Innermost, Counted
<1> HIDE DEF fr
<1> QED
  BY <1>1, <1>2, Innermost, GoReordering

LEMMA SwapReordering ==
  ASSUME Reordering, Swap
  PROVE  Reordering'
<1> DEFINE d == now.entries
           i == now.i
           c == [d EXCEPT ![i] = InFrontOf(d[i + 1], d[i]), ![i + 1] = d[i]]
           fr == [now EXCEPT !.entries[now.i] = InFrontOf(later, earlier),
                             !.entries[now.i + 1] = earlier, !.i = @ + 1, !.moved = TRUE]
<1>1. status = "running" /\ Go(fr) /\ i < Len(d) /\ MaySwap(d[i], d[i + 1])
  BY DEF Swap, Comparing, earlier, later
<1>2. ASSUME Len(work) = 1
      PROVE  Framed(fr) /\ \E pi : Rearranged(fr.entries, given.delta, pi)
  <2>1. Framed(now)
    BY <1>1, <1>2, Innermost
  <2>2. PICK pi : Rearranged(d, given.delta, pi)
    BY <1>1, <1>2, Innermost
  <2>3. given.delta \in Seq(Range(given.delta))
    BY GivenEntries DEF Reordering
  <2>5. i \in Nat \ {0} /\ now.n \in Nat
    BY <2>1 DEF Framed
  <2> HIDE DEF d, i
  <2>6. Rearranged(c, given.delta, [pi EXCEPT ![i] = pi[i + 1], ![i + 1] = pi[i]])
    BY <1>1, <2>2, <2>3, <2>5, SwapRearranged
  <2>7. c \in Seq(Range(c))
    BY <2>6 DEF Rearranged
  <2> DEFINE X == InFrontOf(d[i + 1], d[i])
             Y == d[i]
  <2>8. LET e == [d EXCEPT ![i] = X, ![i + 1] = Y] IN e \in Seq(Range(e))
    BY <2>7
  <2> HIDE DEF X, Y, c
  <2>9. LET e == [now.entries EXCEPT ![now.i] = X, ![now.i + 1] = Y] IN e \in Seq(Range(e))
    BY <2>8 DEF d, i
  <2>10. LET f == [now EXCEPT !.entries[now.i] = X, !.entries[now.i + 1] = Y, !.i = @ + 1, !.moved = TRUE]
         IN  Framed(f) /\ f.entries = [now.entries EXCEPT ![now.i] = X, ![now.i + 1] = Y]
    <3> DEFINE o == now
    <3>1. Framed(o)
      BY <2>1
    <3>2. LET e == [o.entries EXCEPT ![o.i] = X, ![o.i + 1] = Y] IN e \in Seq(Range(e))
      BY <2>9
    <3> HIDE DEF o
    <3>3. LET g == [o EXCEPT !.entries[o.i] = X, !.entries[o.i + 1] = Y, !.i = @ + 1, !.moved = TRUE]
          IN  /\ Framed(g) /\ g.entries = [o.entries EXCEPT ![o.i] = X, ![o.i + 1] = Y]
              /\ g.n = o.n /\ g.pass = o.pass /\ g.i = o.i + 1 /\ g.moved
      BY <3>1, <3>2, Exchanged
    <3> QED
      BY <3>3 DEF o
  <2>11. Framed(fr) /\ fr.entries = c
    BY <2>10 DEF earlier, later, d, i, X, Y, c
  <2> QED
    BY <2>6, <2>11
<1> HIDE DEF fr
<1> QED
  BY <1>1, <1>2, GoReordering

LEMMA LeaveReordering ==
  ASSUME Reordering, Leave
  PROVE  Reordering'
<1> DEFINE fr == [now EXCEPT !.i = @ + 1]
<1>1. status = "running" /\ Go(fr)
  BY DEF Leave, Comparing
<1>2. ASSUME Len(work) = 1
      PROVE  Framed(fr) /\ fr.entries = now.entries
  BY <1>2, <1>1, Innermost, Advanced
<1> HIDE DEF fr
<1> QED
  BY <1>1, <1>2, Innermost, GoReordering

LEMMA NextPassReordering ==
  ASSUME Reordering, NextPass
  PROVE  Reordering'
<1> DEFINE fr == [now EXCEPT !.pass = @ + 1, !.i = 1, !.moved = FALSE]
<1>1. status = "running" /\ Go(fr)
  BY DEF NextPass, PassEnds
<1>2. ASSUME Len(work) = 1
      PROVE  Framed(fr) /\ fr.entries = now.entries
  <2>1. Framed(now)
    BY <1>1, <1>2, Innermost
  <2> QED
    BY <2>1, Restarted
<1> HIDE DEF fr
<1> QED
  BY <1>1, <1>2, Innermost, GoReordering

LEMMA PutBackReordering ==
  ASSUME Reordering, PutBack
  PROVE  Reordering'
<1> DEFINE outer == work[2]
           fr == [outer EXCEPT !.entries[outer.n + 1].op.delta = now.entries, !.n = @ + 1]
<1>1. /\ given \in Documents /\ work \in Seq(Range(work)) /\ work # <<>> /\ Framed(outermost)
      /\ Len(work) > 1 /\ AtNest(outermost)
      /\ \E pi : Rearranged(outermost.entries, given.delta, pi)
      /\ status = "running"
  BY DEF Reordering, PutBack, PassEnds
<1>2. work' = <<fr>> \o Tail(Tail(work)) /\ given' = given /\ status' = "running"
  BY <1>1 DEF PutBack
<1>3. ASSUME Len(work) = 2
      PROVE  Framed(fr) /\ \E pi : Rearranged(fr.entries, given.delta, pi)
  <2> DEFINE d == outermost.entries
             k == outermost.n + 1
             c == [d EXCEPT ![k].op.delta = now.entries]
  <2>1. outer = outermost
    BY <1>3 DEF outermost
  <2>3. PICK pi : Rearranged(d, given.delta, pi)
    BY <1>1
  <2>4. k \in 1 .. Len(d) /\ d[k].op.kind = "nest" /\ k \in Nat /\ outermost.i \in Nat \ {0}
    BY <1>1 DEF AtNest, Framed
  <2>5. given.delta \in Seq(Range(given.delta))
    BY <1>1, GivenEntries
  <2> HIDE DEF d, k
  <2>6. Rearranged(c, given.delta, pi)
    BY <2>3, <2>4, <2>5, PutBackRearranged
  <2>7. c \in Seq(Range(c))
    BY <2>6 DEF Rearranged
  <2>8. Framed(fr) /\ fr.entries = c
    <3> DEFINE o == outermost
               X == now.entries
    <3>1. Framed(o)
      BY <1>1
    <3>2. LET e == [o.entries EXCEPT ![o.n + 1].op.delta = X] IN e \in Seq(Range(e))
      BY <2>7 DEF d, k
    <3> HIDE DEF o, X
    <3>3. LET g == [o EXCEPT !.entries[o.n + 1].op.delta = X, !.n = @ + 1]
          IN  Framed(g) /\ g.entries = [o.entries EXCEPT ![o.n + 1].op.delta = X]
      BY <3>1, <3>2, PutIn
    <3> QED
      BY <3>3, <2>1 DEF d, k, o, X
  <2> QED
    BY <2>6, <2>8
<1> HIDE DEF fr
<1>4. /\ work' \in Seq(Range(work')) /\ work' # <<>> /\ Len(work') = Len(work) - 1
      /\ outermost' = IF Len(work) = 2 THEN fr ELSE outermost
  BY <1>1, <1>2, FramePopped DEF outermost
<1>5. Len(work) = 2 => ~(Len(work') > 1)
  BY <1>4
<1> QED
  BY <1>1, <1>2, <1>3, <1>4, <1>5 DEF Reordering

LEMMA ReturnReordering ==
  ASSUME Reordering, NReturn
  PROVE  Reordering'
<1>1. status = "running" /\ Len(work) = 1 /\ given' = given /\ status' = "ok"
  BY DEF NReturn, PassEnds
<1>2. out' = [given EXCEPT !.delta = now.entries] /\ given \in Documents
  BY DEF NReturn, Reordering
<1>3. out'.delta = now.entries
  BY <1>2, GivenEntries
<1>4. \E pi : Rearranged(now.entries, given.delta, pi)
  BY <1>1, Innermost
<1> QED
  BY <1>1, <1>2, <1>3, <1>4 DEF Reordering

LEMMA StepReordering == Reordering /\ [Normalizing \/ NFinished]_nvars => Reordering'
<1> SUFFICES ASSUME Reordering, [Normalizing \/ NFinished]_nvars PROVE Reordering'
  OBVIOUS
<1>1. CASE NRefuse
  BY <1>1 DEF NRefuse, Reordering
<1>2. CASE NBegin
  BY <1>2, BeginReordering
<1>3. CASE Enter
  BY <1>3, EnterReordering
<1>4. CASE PassBy
  BY <1>4, PassByReordering
<1>5. CASE Swap
  BY <1>5, SwapReordering
<1>6. CASE Leave
  BY <1>6, LeaveReordering
<1>7. CASE NextPass
  BY <1>7, NextPassReordering
<1>8. CASE PutBack
  BY <1>8, PutBackReordering
<1>9. CASE NReturn
  BY <1>9, ReturnReordering
<1>10. CASE UNCHANGED nvars
  BY <1>10 DEF nvars, Reordering, outermost
<1> QED
  BY <1>1, <1>2, <1>3, <1>4, <1>5, <1>6, <1>7, <1>8, <1>9, <1>10 DEF Normalizing, NFinished

-----------------------------------------------------------------------------
(* Theorem: the entries that are fixed stay.                               *)

LEMMA SameBefore ==
  ASSUME NEW d, NEW g, NEW pi, Rearranged(d, g, pi), g \in Seq(Range(g)), NEW v,
         NEW h \in 1 .. Len(g) + 1, h > Len(g) \/ Fixed(g[h])
  PROVE  Before(d, h, v) = Before(g, h, v)
<1> DEFINE N == Len(g)
           S == {j \in 1 .. h - 1 : Outline(d[j].op) = v}
           T == {j \in 1 .. h - 1 : Outline(g[j].op) = v}
           rho == [j \in S |-> pi[j]]
<1>1. N \in Nat /\ h \in Nat \ {0} /\ h <= N + 1 /\ h - 1 \in Int
  OBVIOUS
<1>2. /\ pi \in [1 .. N -> 1 .. N]
      /\ \A j, k \in 1 .. N : pi[j] = pi[k] => j = k
      /\ \A k \in 1 .. N : \E j \in 1 .. N : pi[j] = k
      /\ \A j \in 1 .. N : Outline(d[j].op) = Outline(g[pi[j]].op)
  BY DEF Rearranged, ComesFrom
<1>3. \A j \in 1 .. N : j < h <=> pi[j] < h
  <2>1. CASE h > N
    BY <1>1, <1>2, <2>1
  <2>2. CASE ~(h > N)
    <3>1. h \in 1 .. N /\ Fixed(g[h])
      BY <1>1, <2>2
    <3> QED
      BY <3>1 DEF Rearranged
  <2> QED
    BY <2>1, <2>2
<1> HIDE DEF N
<1>4. \A j \in 1 .. N : j \in 1 .. h - 1 <=> pi[j] \in 1 .. h - 1
  BY <1>1, <1>2, <1>3
<1>5. \A j \in 1 .. h - 1 : j \in 1 .. N
  BY <1>1
<1>6. S \in SUBSET (1 .. N) /\ T \in SUBSET (1 .. N)
  BY <1>5
<1>7. \A j \in 1 .. N : j \in S <=> pi[j] \in T
  BY <1>2, <1>4
<1> HIDE DEF S, T
<1>8. rho \in [S -> T] /\ \A j \in S : rho[j] = pi[j]
  BY <1>6, <1>7
<1> HIDE DEF rho
<1>9. \A j, k \in S : rho[j] = rho[k] => j = k
  BY <1>2, <1>6, <1>8
<1>10. \A k \in T : \E j \in S : rho[j] = k
  BY <1>2, <1>6, <1>7, <1>8
<1>11. rho \in Bijection(S, T)
  BY <1>8, <1>9, <1>10 DEF Bijection, Injection, Surjection, IsInjective
<1>12. IsFiniteSet(S)
  <2>1. IsFiniteSet(1 .. N)
    BY <1>1, FS_Interval
  <2> QED
    BY <1>6, <2>1, FS_Subset
<1>13. Cardinality(T) = Cardinality(S)
  BY <1>11, <1>12, FS_Bijection DEF ExistsBijection
<1> QED
  BY <1>13 DEF Before, S, T

LEMMA StaysItself ==
  ASSUME NEW e, NEW f, ComesFrom(e, f), IsRecord(f), Fixed(f)
  PROVE  SameButNested(e, f)
<1>1. /\ e = [path |-> e.path, create |-> e.create, skip |-> e.skip,
              scope |-> e.scope, targets |-> e.targets, op |-> e.op]
      /\ f = [path |-> f.path, create |-> f.create, skip |-> f.skip,
              scope |-> f.scope, targets |-> f.targets, op |-> f.op]
      /\ e.create = f.create /\ e.skip = f.skip /\ e.scope = f.scope
      /\ e.path = f.path /\ e.targets = f.targets /\ Outline(e.op) = Outline(f.op)
  BY DEF ComesFrom, IsRecord
<1>2. [e EXCEPT !.op = Outline(@)] =
        [path |-> e.path, create |-> e.create, skip |-> e.skip,
         scope |-> e.scope, targets |-> e.targets, op |-> Outline(e.op)]
  BY <1>1
<1>3. [f EXCEPT !.op = Outline(@)] =
        [path |-> f.path, create |-> f.create, skip |-> f.skip,
         scope |-> f.scope, targets |-> f.targets, op |-> Outline(f.op)]
  BY <1>1
<1> QED
  BY <1>1, <1>2, <1>3 DEF SameButNested

LEMMA ReorderingFixes == Reordering => FixedStay
<1> SUFFICES ASSUME Reordering, status = "ok" PROVE FixedStay
  BY DEF FixedStay
<1> DEFINE d == out.delta
           g == given.delta
<1>1. PICK pi : Rearranged(d, g, pi)
  BY DEF Reordering
<1>2. given \in Documents
  BY DEF Reordering
<1>3. g \in Seq(Range(g)) /\ \A h \in 1 .. Len(g) : IsRecord(g[h])
  BY <1>2, GivenEntries
<1>4. Len(d) = Len(g)
  BY <1>1 DEF Rearranged
<1>5. ASSUME NEW h \in DOMAIN g, Fixed(g[h])
      PROVE  SameButNested(d[h], g[h])
  <2>1. h \in 1 .. Len(g)
    BY <1>3
  <2>2. ComesFrom(d[h], g[h])
    BY <1>1, <1>5, <2>1 DEF Rearranged
  <2> QED
    BY <1>3, <1>5, <2>1, <2>2, StaysItself
<1>6. ASSUME NEW h \in 1 .. Len(g) + 1, h > Len(g) \/ Fixed(g[h]), NEW e \in Range(g)
      PROVE  Before(d, h, Outline(e.op)) = Before(g, h, Outline(e.op))
  BY <1>1, <1>3, <1>6, SameBefore
<1> HIDE DEF d, g
<1>7. /\ Len(d) = Len(g)
      /\ \A h \in DOMAIN g : Fixed(g[h]) => SameButNested(d[h], g[h])
      /\ \A h \in 1 .. Len(g) + 1 :
           h > Len(g) \/ Fixed(g[h]) =>
             \A e \in Range(g) : Before(d, h, Outline(e.op)) = Before(g, h, Outline(e.op))
  BY <1>4, <1>5, <1>6
<1> QED
  BY <1>7 DEF FixedStay, d, g

\* Entries that read, or that write a container as a whole or create one, are in
\* the document Normalize returns where they were in the one it was given, with
\* the same operations in front of them, and no operation is lost or doubled.
THEOREM FixedEntriesStay == NSpec => []FixedStay
<1>1. NInit => Reordering
  BY InitReordering
<1>2. Reordering /\ [Normalizing \/ NFinished]_nvars => Reordering'
  BY StepReordering
<1>3. Reordering => FixedStay
  BY ReorderingFixes
<1> QED
  BY <1>1, <1>2, <1>3, PTL DEF NSpec

-----------------------------------------------------------------------------
(* A list that only shrinks: its entries each remove or assign the element *)
(* at one index.                                                           *)

IndexOf(e) == e.targets[1].key.index

Target(k) == <<[arm |-> "key", key |-> [arm |-> "index", index |-> k]]>>

Plain(e, list) ==
  /\ IsRecord(e)
  /\ e.path = list /\ IsPath(list) /\ \A k \in Range(list) : ~(k.arm = "index" /\ k.index < 0)
  /\ IndexOf(e) \in Nat /\ e.targets = Target(IndexOf(e))
  /\ e.op.kind \in {"remove", "assign"}
  /\ e.scope = "targets" /\ ~e.create /\ (e.op.kind = "remove" => ~e.skip)

LEMMA PlainTargets ==
  ASSUME NEW e, NEW list, Plain(e, list)
  PROVE  LET t == [arm |-> "key", key |-> [arm |-> "index", index |-> IndexOf(e)]]
         IN  /\ e.targets \in Seq({t}) /\ Len(e.targets) = 1 /\ e.targets[1] = t
             /\ Range(e.targets) = {t} /\ Indexed(e) = {t} /\ TargetKeys(e) = {t.key}
<1> DEFINE t == [arm |-> "key", key |-> [arm |-> "index", index |-> IndexOf(e)]]
<1>1. e.targets = <<t>>
  BY DEF Plain, Target
<1>2. t.arm = "key" /\ t.key.arm = "index"
  OBVIOUS
<1> HIDE DEF t
<1>3. Range(e.targets) = {t} /\ e.targets \in Seq({t}) /\ Len(e.targets) = 1 /\ e.targets[1] = t
  BY <1>1 DEF Range
<1>4. Indexed(e) = {t}
  BY <1>2, <1>3 DEF Indexed
<1>5. TargetKeys(e) = {t.key}
  BY <1>2, <1>3 DEF TargetKeys
<1> QED
  BY <1>3, <1>4, <1>5 DEF t

LEMMA PlainIsMoved ==
  ASSUME NEW e, NEW list, Plain(e, list)
  PROVE  /\ ~Barrier(e)
         /\ ChangesLength(e) <=> e.op.kind = "remove"
         /\ Sites(e) = {Append(list, [arm |-> "index", index |-> IndexOf(e)])}
<1> DEFINE t == [arm |-> "key", key |-> [arm |-> "index", index |-> IndexOf(e)]]
<1>1. Range(e.targets) = {t} /\ Indexed(e) = {t} /\ TargetKeys(e) = {t.key}
  BY PlainTargets
<1>2. t.arm = "key" /\ t.key = [arm |-> "index", index |-> IndexOf(e)] /\ t.key.index \in Nat
  BY DEF Plain
<1> HIDE DEF t
<1>3. ChangesLength(e) <=> e.op.kind = "remove"
  BY <1>1 DEF ChangesLength, Plain
<1>4. \A k \in Keys(e) : ~(k.arm = "index" /\ k.index < 0)
  <2>2. Keys(e) = Range(list) \cup {t.key}
    BY <1>1 DEF Keys, Plain
  <2>3. \A k \in Range(list) : ~(k.arm = "index" /\ k.index < 0)
    BY DEF Plain
  <2>4. ~(t.key.index < 0)
    BY <1>2
  <2> QED
    BY <2>2, <2>3, <2>4
<1>5. ~Barrier(e)
  BY <1>1, <1>2, <1>3, <1>4 DEF Barrier, Plain
<1>6. Sites(e) = {Append(list, t.key)}
  BY <1>1 DEF Sites, Plain
<1> QED
  BY <1>2, <1>3, <1>5, <1>6

LEMMA SortedOne ==
  ASSUME NEW k \in Nat
  PROVE  Sorted(<<k>>) = <<k>>
<1> DEFINE s == <<k>>
           P(p) == p \in Bijection(DOMAIN s, DOMAIN s) /\ \A i, j \in DOMAIN s : i < j => s[p[i]] <= s[p[j]]
           order == CHOOSE p \in Bijection(DOMAIN s, DOMAIN s) :
                      \A i, j \in DOMAIN s : i < j => s[p[i]] <= s[p[j]]
           id == [j \in {1} |-> 1]
<1>1. DOMAIN s = {1} /\ s[1] = k
  OBVIOUS
<1>2. id \in Bijection({1}, {1})
  BY DEF Bijection, Injection, Surjection, IsInjective
<1>3. \A i, j \in {1} : ~(i < j)
  OBVIOUS
<1>4. order \in Bijection({1}, {1})
  <2>1. \E p \in Bijection({1}, {1}) : \A i, j \in {1} : i < j => s[p[i]] <= s[p[j]]
    BY <1>2, <1>3
  <2> HIDE DEF s
  <2> QED
    BY <2>1, <1>1
<1>5. order[1] = 1
  <2> HIDE DEF order
  <2> QED
    BY <1>4 DEF Bijection, Injection
<1>6. Sorted(s) = [j \in DOMAIN s |-> s[order[j]]]
  BY DEF Sorted
<1> HIDE DEF order
<1>7. Sorted(s) = [j \in {1} |-> k]
  BY <1>1, <1>5, <1>6
<1>8. [j \in {1} |-> k] = <<k>>
  <2>1. {1} = 1 .. 1
    OBVIOUS
  <2>2. [j \in 1 .. 1 |-> k] \in Seq(Nat) /\ Len([j \in 1 .. 1 |-> k]) = 1
    OBVIOUS
  <2>3. <<k>> \in Seq(Nat) /\ Len(<<k>>) = 1
    OBVIOUS
  <2> QED
    BY <2>1, <2>2, <2>3
<1> QED
  BY <1>7, <1>8

LEMMA PlainChange ==
  ASSUME NEW e, NEW list, Plain(e, list)
  PROVE  ~Change(e).insert /\ Change(e).idx = <<IndexOf(e)>>
<1> DEFINE t == [arm |-> "key", key |-> [arm |-> "index", index |-> IndexOf(e)]]
           keys == [j \in DOMAIN e.targets |-> e.targets[j].key.index]
<1>1. e.targets \in Seq({t}) /\ Len(e.targets) = 1 /\ e.targets[1] = t
  BY PlainTargets
<1>2. t.key.index = IndexOf(e)
  OBVIOUS
<1> HIDE DEF t
<1>3. DOMAIN e.targets = 1 .. 1
  BY <1>1
<1>4. keys = <<IndexOf(e)>>
  <2>1. keys = [j \in 1 .. 1 |-> IndexOf(e)]
    BY <1>1, <1>2, <1>3
  <2>2. IndexOf(e) \in Nat
    BY DEF Plain
  <2> DEFINE x == IndexOf(e)
  <2> HIDE DEF x
  <2>3. [j \in 1 .. 1 |-> x] = <<x>>
    <3>1. [j \in 1 .. 1 |-> x] \in Seq({x}) /\ Len([j \in 1 .. 1 |-> x]) = 1
      OBVIOUS
    <3>2. <<x>> \in Seq({x}) /\ Len(<<x>>) = 1
      OBVIOUS
    <3> QED
      BY <3>1, <3>2
  <2> QED
    BY <2>1, <2>3 DEF x
<1>5. Change(e).idx = Sorted(keys)
  BY DEF Change
<1>6. ~Change(e).insert
  BY DEF Change, Plain
<1>7. IndexOf(e) \in Nat
  BY DEF Plain
<1> HIDE DEF keys
<1> QED
  BY <1>4, <1>5, <1>6, <1>7, SortedOne

\* The index of b before the removal a.
LEMMA PlainShift ==
  ASSUME NEW a, NEW b, NEW list, Plain(a, list), Plain(b, list)
  PROVE  ShiftBack(Change(a), IndexOf(b)) =
           IF IndexOf(b) < IndexOf(a) THEN IndexOf(b) ELSE IndexOf(b) + 1
<1> DEFINE o == Change(a)
           i == IndexOf(b)
           k == IndexOf(a)
<1>1. ~o.insert /\ o.idx = <<k>> /\ k \in Nat /\ i \in Nat
  BY PlainChange DEF Plain
<1> HIDE DEF o, i, k
<1>2. o.idx \in Seq(Nat) /\ Len(o.idx) = 1 /\ o.idx[1] = k
  BY <1>1
<1>3. PICK f : IsWayBack(f, o.idx, i, Len(o.idx)) /\ BackOverRemove(o, i) = f[Len(o.idx)]
  BY <1>2, BackOverRemoveIs
<1>4. f[0] = i /\ f[1] = IF f[0] < o.idx[1] THEN f[0] ELSE f[0] + 1
  BY <1>2, <1>3 DEF IsWayBack
<1>5. ShiftBack(o, i) = f[1]
  BY <1>1, <1>2, <1>3 DEF ShiftBack
<1> QED
  BY <1>2, <1>4, <1>5 DEF o, i, k

LEMMA ListHasItself ==
  ASSUME NEW list, list \in Seq(Range(list)), NEW key, key.arm = "index"
  PROVE  ~InList(list, list) /\ InList(Append(list, key), list)
<1> DEFINE S == Range(list) \cup {key}
           s == Append(list, key)
<1>1. list \in Seq(S) /\ key \in S
  <2>1. \A j \in 1 .. Len(list) : list[j] \in S
    BY DEF Range
  <2> HIDE DEF S
  <2>2. list \in Seq(S)
    BY <2>1
  <2> QED
    BY <2>2 DEF S
<1> HIDE DEF S
<1>2. Len(list) \in Nat /\ s \in Seq(S) /\ Len(s) = Len(list) + 1 /\ s[Len(list) + 1] = key
  BY <1>1
<1>3. SubSeq(s, 1, Len(list)) = SubSeq(list, 1, Len(list))
  BY <1>1
<1>4. IsPrefix(list, s)
  BY <1>2, <1>3 DEF IsPrefix
<1>5. s # list
  <2>1. Len(s) # Len(list)
    BY <1>2
  <2> HIDE DEF s
  <2> QED
    BY <2>1
<1> HIDE DEF s
<1>6. InList(s, list)
  BY <1>2, <1>4, <1>5 DEF InList, IsStrictPrefix
<1>7. ~InList(list, list)
  BY DEF InList, IsStrictPrefix
<1> QED
  BY <1>6, <1>7 DEF s

\* When two neighbours are exchanged: the first removes, and the second assigns, or
\* removes an element behind.
LEMMA PlainSwaps ==
  ASSUME NEW a, NEW b, NEW list, Plain(a, list), Plain(b, list)
  PROVE  MaySwap(a, b) <=>
           a.op.kind = "remove" /\ (b.op.kind = "remove" => IndexOf(a) <= IndexOf(b))
<1> DEFINE k == IndexOf(a)
           j == IndexOf(b)
           t == [arm |-> "key", key |-> [arm |-> "index", index |-> IndexOf(b)]]
           back == ShiftBack(Change(a), IndexOf(b))
           refs == RefsInto(b, a.path)
           site == Append(list, t.key)
<1>1. k \in Nat /\ j \in Nat /\ a.path = list /\ b.path = list /\ list \in Seq(Range(list))
  BY DEF Plain, IsPath
<1>2. back = IF j < k THEN j ELSE j + 1
  BY PlainShift
<1>3. back \in Nat /\ back # Created
  BY <1>1, <1>2 DEF Created
<1>4. /\ ~Barrier(a) /\ ~Barrier(b) /\ (ChangesLength(a) <=> a.op.kind = "remove")
      /\ (ChangesLength(b) <=> b.op.kind = "remove") /\ Sites(b) = {site}
  BY PlainIsMoved
<1>5. ~InList(list, list) /\ InList(site, list)
  <2>1. t.key.arm = "index"
    OBVIOUS
  <2> HIDE DEF t
  <2> QED
    BY <1>1, <2>1, ListHasItself
<1>6. refs = {j}
  <2>1. Indexed(b) = {t}
    BY PlainTargets
  <2>2. t.key.index = j
    OBVIOUS
  <2> HIDE DEF t, j
  <2> QED
    BY <1>1, <1>5, <2>1, <2>2 DEF RefsInto
<1>7. {ShiftBack(Change(a), i) : i \in refs} = {back}
  BY <1>6
<1>8. ~Change(a).insert /\ Change(a).idx = <<k>>
  BY PlainChange
<1> HIDE DEF k, back, refs, site, t
<1>9. Leaves(Change(a), Change(b), {back}) <=> back > k
  <2>1. Min({back}) = back
    <3>1. \A x \in {back} : (\A y \in {back} : x <= y) <=> x = back
      BY <1>3
    <3> QED
      BY <1>3, <3>1 DEF Min
  <2>2. Last(Change(a).idx) = k
    BY <1>8 DEF Last
  <2> QED
    BY <1>8, <2>1, <2>2 DEF Leaves
<1>10. back > k <=> k <= j
  <2> HIDE DEF j
  <2> QED
    BY <1>1, <1>2
<1>11. \A i \in refs : ShiftBack(Change(a), i) # Created
  <2>1. ShiftBack(Change(a), j) = back
    BY DEF back
  <2> HIDE DEF j
  <2> QED
    BY <1>3, <1>6, <2>1
<1>12. refs # {}
  BY <1>6
<1>13. MaySwap(a, b) <=>
         /\ a.op.kind = "remove"
         /\ b.op.kind = "remove" => Leaves(Change(a), Change(b), {back})
  BY <1>1, <1>4, <1>5, <1>7, <1>11, <1>12 DEF MaySwap, refs
<1> QED
  BY <1>9, <1>10, <1>13 DEF k

LEMMA PlainExchanged ==
  ASSUME NEW a, NEW b, NEW list, Plain(a, list), Plain(b, list)
  PROVE  LET r == InFrontOf(b, a)
         IN  /\ Plain(r, list) /\ r.op.kind = b.op.kind
             /\ IndexOf(r) = IF IndexOf(b) < IndexOf(a) THEN IndexOf(b) ELSE IndexOf(b) + 1
<1> DEFINE r == InFrontOf(b, a)
           j == IndexOf(b)
           t == [arm |-> "key", key |-> [arm |-> "index", index |-> j]]
           back == IF j < IndexOf(a) THEN j ELSE j + 1
<1>1. /\ IsRecord(r) /\ r.create = b.create /\ r.skip = b.skip /\ r.scope = b.scope /\ r.op = b.op
      /\ b.path = list /\ a.path = list /\ list \in Seq(Range(list)) /\ j \in Nat /\ IndexOf(a) \in Nat
  BY InFrontOfIs DEF Plain, IsPath
<1>2. ShiftBack(Change(a), j) = back
  BY PlainShift
<1>3. ~InList(list, list)
  <2>1. t.key.arm = "index"
    OBVIOUS
  <2> HIDE DEF t
  <2> QED
    BY <1>1, <2>1, ListHasItself
<1>4. r = [b EXCEPT !.targets = TargetsBack(b, a)]
  BY <1>1, <1>3 DEF InFrontOf
<1>5. /\ b = [path |-> b.path, create |-> b.create, skip |-> b.skip,
              scope |-> b.scope, targets |-> b.targets, op |-> b.op]
  BY <1>1 DEF Plain, IsRecord
<1>6. r.path = list /\ r.targets = TargetsBack(b, a)
  <2> HIDE DEF r
  <2> QED
    BY <1>1, <1>4, <1>5
<1>7. TargetsBack(b, a) = Target(back)
  <2>1. b.targets \in Seq({t}) /\ Len(b.targets) = 1 /\ b.targets[1] = t /\ Indexed(b) = {t}
    BY PlainTargets
  <2>2. [t EXCEPT !.key = Back(@, a)] = [arm |-> "key", key |-> [arm |-> "index", index |-> back]]
    <3>1. Back(t.key, a) = [arm |-> "index", index |-> ShiftBack(Change(a), j)]
      BY DEF Back
    <3> QED
      BY <1>2, <3>1
  <2> DEFINE u == [arm |-> "key", key |-> [arm |-> "index", index |-> back]]
  <2> HIDE DEF t, u, back
  <2>3. TargetsBack(b, a) = [i \in 1 .. 1 |-> u]
    BY <2>1, <2>2 DEF TargetsBack, u
  <2>4. [i \in 1 .. 1 |-> u] = <<u>>
    <3>1. [i \in 1 .. 1 |-> u] \in Seq({u}) /\ Len([i \in 1 .. 1 |-> u]) = 1
      OBVIOUS
    <3>2. <<u>> \in Seq({u}) /\ Len(<<u>>) = 1
      OBVIOUS
    <3> QED
      BY <3>1, <3>2
  <2> QED
    BY <2>3, <2>4 DEF Target, u
<1>8. back \in Nat
  BY <1>1
<1> HIDE DEF r, back
<1>9. IndexOf(r) = back
  BY <1>6, <1>7 DEF IndexOf, Target
<1>10. Plain(r, list)
  BY <1>1, <1>6, <1>7, <1>8, <1>9 DEF Plain
<1> QED
  BY <1>1, <1>9, <1>10 DEF r, back

-----------------------------------------------------------------------------
(* The bubble sort.  Of two entries the later does not belong in front when *)
(* the earlier removes nothing, or both remove and the later at a lower     *)
(* index.                                                                   *)

InForm(e, f) == e.op.kind = "remove" => f.op.kind = "remove" /\ IndexOf(f) < IndexOf(e)

\* What the passes have brought about of a delta d of n entries: what is in its
\* place at the end, the entry that is being carried there, and, while nothing has
\* been exchanged in this pass, everything before it.
Sifted(fr, list) ==
  LET n == Len(fr.entries)
      ok(g, h) == InForm(fr.entries[g], fr.entries[h])
  IN  /\ \A h \in 1 .. n : Plain(fr.entries[h], list)
      /\ fr.pass \in Nat
      /\ \A g, h \in 1 .. n : g < h /\ (h > n - fr.pass \/ (h = n - fr.pass /\ fr.i >= n - fr.pass)) => ok(g, h)
      /\ \A g, h \in 1 .. n : g < h /\ h = fr.i => ok(g, h)
      /\ \A g, h \in 1 .. n : g < h /\ h <= fr.i /\ ~fr.moved => ok(g, h)

InNormalForm(d) == \A g, h \in 1 .. Len(d) : g < h => InForm(d[g], d[h])

LEMMA SwapOrNot ==
  ASSUME NEW a, NEW b, NEW list, Plain(a, list), Plain(b, list)
  PROVE  ~MaySwap(a, b) <=> InForm(a, b)
<1>1. IndexOf(a) \in Nat /\ IndexOf(b) \in Nat /\ b.op.kind \in {"remove", "assign"}
  BY DEF Plain
<1>2. MaySwap(a, b) <=> a.op.kind = "remove" /\ (b.op.kind = "remove" => IndexOf(a) <= IndexOf(b))
  BY PlainSwaps
<1> QED
  BY <1>1, <1>2 DEF InForm

LEMMA StartSifted ==
  ASSUME NEW fr, NEW list, fr.pass = 0, fr.i = 1, Len(fr.entries) \in Nat,
         \A h \in 1 .. Len(fr.entries) : Plain(fr.entries[h], list)
  PROVE  Sifted(fr, list)
<1> DEFINE n == Len(fr.entries)
<1>1. ASSUME NEW g \in 1 .. n, NEW h \in 1 .. n, g < h
      PROVE  ~(h > n - fr.pass) /\ h # fr.i /\ ~(h <= fr.i) /\ ~(h = n - fr.pass /\ fr.i >= n - fr.pass)
  BY <1>1
<1> QED
  BY <1>1 DEF Sifted

LEMMA LookSifted ==
  ASSUME NEW fr, NEW list, Sifted(fr, list), NEW g,
         g.entries = fr.entries, g.pass = fr.pass, g.i = fr.i, g.moved = fr.moved
  PROVE  Sifted(g, list)
BY DEF Sifted

LEMMA LeaveSifted ==
  ASSUME NEW fr, NEW list, Framed(fr), Sifted(fr, list), fr.i < Len(fr.entries),
         ~MaySwap(fr.entries[fr.i], fr.entries[fr.i + 1]), NEW f,
         f.entries = fr.entries, f.pass = fr.pass, f.i = fr.i + 1, f.moved = fr.moved
  PROVE  Sifted(f, list)
<1> DEFINE n == Len(fr.entries)
           d == fr.entries
           i == fr.i
<1>0. n \in Nat /\ i \in 1 .. n /\ i + 1 \in 1 .. n /\ fr.pass \in Nat
  BY DEF Framed, Sifted
<1>1. \A h \in 1 .. n : Plain(d[h], list)
  BY DEF Sifted
<1>2. InForm(d[i], d[i + 1])
  BY <1>0, <1>1, SwapOrNot
<1>3. ASSUME NEW g \in 1 .. n, g < i + 1
      PROVE  InForm(d[g], d[i + 1])
  <2>1. CASE g = i
    BY <1>2, <2>1
  <2>2. CASE g # i
    <3>1. g < i
      BY <1>0, <1>3, <2>2
    <3>2. InForm(d[g], d[i])
      BY <1>0, <3>1 DEF Sifted
    <3>3. IndexOf(d[g]) \in Nat /\ IndexOf(d[i]) \in Nat /\ IndexOf(d[i + 1]) \in Nat
      BY <1>0, <1>1 DEF Plain
    <3> QED
      BY <1>2, <3>2, <3>3 DEF InForm
  <2> QED
    BY <2>1, <2>2
<1>4. ASSUME NEW g \in 1 .. n, NEW h \in 1 .. n, g < h,
             h > n - f.pass \/ (h = n - f.pass /\ f.i >= n - f.pass)
      PROVE  InForm(d[g], d[h])
  <2>1. CASE h = i + 1
    BY <1>3, <1>4, <2>1
  <2>2. CASE h # i + 1
    <3>1. h > n - fr.pass \/ (h = n - fr.pass /\ fr.i >= n - fr.pass)
      BY <1>0, <1>4, <2>2
    <3> QED
      BY <1>4, <3>1 DEF Sifted
  <2> QED
    BY <2>1, <2>2
<1>5. ASSUME NEW g \in 1 .. n, NEW h \in 1 .. n, g < h, h <= f.i, ~f.moved
      PROVE  InForm(d[g], d[h])
  <2>1. CASE h = i + 1
    BY <1>3, <1>5, <2>1
  <2>2. CASE h # i + 1
    <3>1. h <= fr.i /\ ~fr.moved
      BY <1>0, <1>5, <2>2
    <3> QED
      BY <1>5, <3>1 DEF Sifted
  <2> QED
    BY <2>1, <2>2
<1>6. ASSUME NEW g \in 1 .. n, NEW h \in 1 .. n, g < h, h = f.i
      PROVE  InForm(d[g], d[h])
  BY <1>3, <1>6
<1> QED
  BY <1>0, <1>1, <1>4, <1>5, <1>6 DEF Sifted

LEMMA SwapSifted ==
  ASSUME NEW fr, NEW list, Framed(fr), Sifted(fr, list), fr.i < Len(fr.entries),
         MaySwap(fr.entries[fr.i], fr.entries[fr.i + 1]), NEW f,
         f.entries = [fr.entries EXCEPT ![fr.i] = InFrontOf(fr.entries[fr.i + 1], fr.entries[fr.i]),
                                        ![fr.i + 1] = fr.entries[fr.i]],
         Len(f.entries) = Len(fr.entries),
         f.pass = fr.pass, f.i = fr.i + 1, f.moved
  PROVE  Sifted(f, list)
<1> DEFINE n == Len(fr.entries)
           d == fr.entries
           c == f.entries
           i == fr.i
           a == d[i]
           b == d[i + 1]
           r == InFrontOf(b, a)
<1>0. n \in Nat /\ i \in 1 .. n /\ i + 1 \in 1 .. n /\ fr.pass \in Nat /\ DOMAIN d = 1 .. n
  BY DEF Framed, Sifted
<1>1. \A h \in 1 .. n : Plain(d[h], list) /\ IndexOf(d[h]) \in Nat
  BY DEF Sifted, Plain
<1>a. IndexOf(a) \in Nat /\ IndexOf(b) \in Nat
  BY <1>0, <1>1
<1>2. c[i] = r /\ c[i + 1] = a /\ \A h \in 1 .. n : h # i /\ h # i + 1 => c[h] = d[h]
  BY <1>0
<1>3. /\ Plain(r, list) /\ r.op.kind = b.op.kind
      /\ IndexOf(r) = IF IndexOf(b) < IndexOf(a) THEN IndexOf(b) ELSE IndexOf(b) + 1
  <2>1. Plain(a, list) /\ Plain(b, list)
    BY <1>0, <1>1
  <2> HIDE DEF a, b
  <2> QED
    BY <2>1, PlainExchanged
<1>4. a.op.kind = "remove" /\ (b.op.kind = "remove" => IndexOf(a) <= IndexOf(b))
  BY <1>0, <1>1, PlainSwaps
<1>5. ~InForm(a, b)
  BY <1>0, <1>1, SwapOrNot
<1>6. i + 1 <= n - fr.pass /\ ~(i >= n - fr.pass)
  <2>1. ~(i + 1 > n - fr.pass \/ (i + 1 = n - fr.pass /\ i >= n - fr.pass))
    BY <1>0, <1>5 DEF Sifted
  <2> QED
    BY <1>0, <2>1
<1>7. \A h \in 1 .. n : Plain(c[h], list)
  BY <1>1, <1>2, <1>3, <1>0
<1> HIDE DEF r, c
<1>8. ASSUME NEW g \in 1 .. n, g < i + 1
      PROVE  InForm(c[g], c[i + 1])
  <2>1. CASE g = i
    <3>1. r.op.kind = "remove" => IndexOf(a) < IndexOf(r)
      <4> DEFINE k == IndexOf(a)
                 j == IndexOf(b)
      <4>1. k \in Nat /\ j \in Nat /\ IndexOf(r) = IF j < k THEN j ELSE j + 1
        BY <1>3, <1>a
      <4>2. r.op.kind = "remove" => k <= j
        BY <1>3, <1>4
      <4> HIDE DEF k, j
      <4>3. k <= j => k < IndexOf(r)
        BY <4>1
      <4> QED
        BY <4>2, <4>3 DEF k
    <3> QED
      BY <2>1, <3>1, <1>2, <1>4 DEF InForm
  <2>2. CASE g # i
    <3>1. g < i /\ c[g] = d[g]
      BY <1>0, <1>2, <1>8, <2>2
    <3>2. InForm(d[g], a)
      BY <1>0, <3>1 DEF Sifted
    <3> QED
      BY <3>1, <3>2, <1>2
  <2> QED
    BY <2>1, <2>2
<1>9. ASSUME NEW g \in 1 .. n, NEW h \in 1 .. n, g < h, h > i + 1, InForm(d[g], d[h]),
             InForm(d[i], d[h]), InForm(d[i + 1], d[h])
      PROVE  InForm(c[g], c[h])
  <2>1. c[h] = d[h]
    BY <1>0, <1>2, <1>9
  <2>2. CASE g = i
    <3>1. IndexOf(r) >= IndexOf(b)
      <4> HIDE DEF a, b
      <4> QED
        BY <1>3, <1>a
    <3>2. InForm(r, d[h])
      <4>1. IndexOf(r) \in Nat /\ IndexOf(b) \in Nat /\ IndexOf(d[h]) \in Nat
        BY <1>0, <1>1, <1>3 DEF Plain
      <4> QED
        BY <1>3, <1>9, <3>1, <4>1 DEF InForm
    <3> QED
      BY <1>2, <2>1, <2>2, <3>2
  <2>3. CASE g = i + 1
    BY <1>2, <1>9, <2>1, <2>3
  <2>4. CASE g # i /\ g # i + 1
    BY <1>2, <1>9, <2>1, <2>4
  <2> QED
    BY <2>2, <2>3, <2>4
<1>10. ASSUME NEW g \in 1 .. n, NEW h \in 1 .. n, g < h,
              h > n - f.pass \/ (h = n - f.pass /\ f.i >= n - f.pass)
       PROVE  InForm(c[g], c[h])
  <2>1. CASE h = i + 1
    BY <1>8, <1>10, <2>1
  <2>2. CASE h # i + 1
    <3>1. h > n - fr.pass /\ h > i + 1
      BY <1>0, <1>6, <1>10, <2>2
    <3>2. InForm(d[g], d[h]) /\ InForm(d[i], d[h]) /\ InForm(d[i + 1], d[h])
      <4>1. i < h /\ i + 1 < h
        BY <1>0, <3>1
      <4> QED
        BY <1>0, <1>10, <3>1, <4>1 DEF Sifted
    <3> QED
      BY <1>9, <1>10, <3>1, <3>2
  <2> QED
    BY <2>1, <2>2
<1>11. ASSUME NEW g \in 1 .. n, NEW h \in 1 .. n, g < h, h = f.i
       PROVE  InForm(c[g], c[h])
  BY <1>8, <1>11
<1> QED
  BY <1>0, <1>7, <1>10, <1>11 DEF Sifted, c

LEMMA NextPassSifted ==
  ASSUME NEW fr, NEW list, Framed(fr), Sifted(fr, list), fr.i = Len(fr.entries), NEW f,
         f.entries = fr.entries, f.pass = fr.pass + 1, f.i = 1
  PROVE  Sifted(f, list)
<1> DEFINE n == Len(fr.entries)
           d == fr.entries
<1>0. n \in Nat /\ fr.pass \in Nat /\ fr.i = n
  BY DEF Framed, Sifted
<1>1. ASSUME NEW g \in 1 .. n, NEW h \in 1 .. n, g < h,
             h > n - f.pass \/ (h = n - f.pass /\ f.i >= n - f.pass)
      PROVE  InForm(d[g], d[h])
  <2>1. h > n - fr.pass \/ (h = n - fr.pass /\ fr.i >= n - fr.pass)
    BY <1>0, <1>1
  <2> QED
    BY <1>1, <2>1 DEF Sifted
<1>2. ASSUME NEW g \in 1 .. n, NEW h \in 1 .. n, g < h
      PROVE  ~(h = f.i) /\ ~(h <= f.i)
  BY <1>2
<1>3. f.pass \in Nat /\ \A h \in 1 .. n : Plain(d[h], list)
  BY <1>0 DEF Sifted
<1> QED
  BY <1>1, <1>2, <1>3 DEF Sifted

LEMMA SortedAtLast ==
  ASSUME NEW fr, NEW list, Framed(fr), Sifted(fr, list), fr.i = Len(fr.entries), LastPass(fr)
  PROVE  InNormalForm(fr.entries)
<1> DEFINE n == Len(fr.entries)
           d == fr.entries
<1>0. n \in Nat /\ fr.pass \in Nat /\ fr.i = n
  BY DEF Framed, Sifted
<1>1. ASSUME NEW g \in 1 .. n, NEW h \in 1 .. n, g < h
      PROVE  InForm(d[g], d[h])
  <2>1. CASE ~fr.moved
    <3>1. h <= fr.i
      BY <1>0
    <3> QED
      BY <1>1, <2>1, <3>1 DEF Sifted
  <2>2. CASE fr.pass + 1 = n
    <3>1. h > n - fr.pass \/ (h = n - fr.pass /\ fr.i >= n - fr.pass)
      BY <1>0, <1>1, <2>2
    <3> QED
      BY <1>1, <3>1 DEF Sifted
  <2> QED
    BY <2>1, <2>2 DEF LastPass
<1> QED
  BY <1>1 DEF InNormalForm

-----------------------------------------------------------------------------
(* Theorem: a list that only shrinks comes out in the normal form.         *)

LEMMA GivenPlain ==
  ASSUME given \in Documents, OnlyShrinks(given.delta), NEW h \in 1 .. Len(given.delta)
  PROVE  Plain(given.delta[h], given.delta[1].path)
<1> DEFINE e == given.delta[h]
           s == e.targets[1]
<1>1. IsEntry(e) /\ IsRecord(e) /\ e \in Range(given.delta)
  BY GivenEntries DEF Range
<1>2. /\ ~Barrier(e) /\ e.op.kind \in {"remove", "assign"} /\ e.path = given.delta[1].path
      /\ Len(e.targets) = 1 /\ Indexed(e) # {}
  BY <1>1 DEF OnlyShrinks
<1> HIDE DEF e
<1>3. e.targets \in Seq(Range(e.targets)) /\ IsPath(e.path) /\ \A sel \in Range(e.targets) : IsSelector(sel)
  BY <1>1 DEF IsEntry
<1>4. DOMAIN e.targets = 1 .. 1 /\ Range(e.targets) = {s}
  BY <1>2, <1>3 DEF Range
<1>5. s.arm = "key" /\ s.key.arm = "index" /\ Indexed(e) = {s}
  <2> HIDE DEF s
  <2> QED
    BY <1>2, <1>4 DEF Indexed
<1>6. IsSelector(s)
  BY <1>3, <1>4
<1> HIDE DEF s
<1>7. /\ s = [arm |-> "key", key |-> s.key] /\ s.key = [arm |-> "index", index |-> s.key.index]
      /\ s.key.index \in Int
  BY <1>5, <1>6 DEF IsSelector, IsKey
<1>8. s.key \in Keys(e)
  BY <1>4, <1>5 DEF Keys, TargetKeys
<1>9. \A k \in Keys(e) : ~(k.arm = "index" /\ k.index < 0)
  BY <1>2 DEF Barrier
<1>10. s.key.index \in Nat
  <2>1. ~(s.key.index < 0)
    BY <1>5, <1>8, <1>9
  <2> QED
    BY <1>7, <2>1
<1>11. IndexOf(e) = s.key.index
  BY DEF IndexOf, s
<1>12. s = [arm |-> "key", key |-> [arm |-> "index", index |-> IndexOf(e)]]
  BY <1>7, <1>11
<1>13. e.targets = Target(IndexOf(e))
  <2>1. e.targets = <<s>>
    BY <1>2, <1>3 DEF s
  <2> QED
    BY <2>1, <1>12 DEF Target
<1>14. \A k \in Range(e.path) : ~(k.arm = "index" /\ k.index < 0)
  BY <1>9 DEF Keys
<1>15. e.scope = "targets" /\ ~e.create /\ (e.op.kind = "remove" => ~e.skip)
  BY <1>2, <1>5 DEF Barrier, ChangesLength
<1>16. Plain(e, e.path)
  BY <1>1, <1>2, <1>3, <1>10, <1>11, <1>13, <1>14, <1>15 DEF Plain
<1> QED
  BY <1>2, <1>16 DEF e

\* The inductive invariant: there is no nest to enter, and what the passes bring
\* about holds of the one delta there is.
Shrinking ==
  OnlyShrinks(given.delta) =>
    /\ status = "running" => Len(work) = 1 /\ Sifted(now, given.delta[1].path)
    /\ status = "ok" => InNormalForm(out.delta)

LEMMA InitShrinking == NInit => Shrinking
BY DEF NInit, Shrinking

LEMMA BeginShrinking ==
  ASSUME Reordering, NBegin
  PROVE  Shrinking'
<1>1. given' = given /\ given \in Documents /\ status' = "running" /\ work' = <<Sorting(given.delta)>>
  BY DEF Reordering, NBegin
<1> DEFINE fr == Sorting(given.delta)
<1>2. fr.entries = given.delta /\ fr.pass = 0 /\ fr.i = 1 /\ Len(given.delta) \in Nat
  <2>1. given.delta \in Seq(Range(given.delta))
    BY <1>1, GivenEntries
  <2>2. Len(given.delta) \in Nat
    BY <2>1
  <2> QED
    BY <2>1, <2>2, SortingIs
<1> HIDE DEF fr
<1>3. now' = fr /\ Len(work') = 1
  BY <1>1 DEF now, fr
<1>4. OnlyShrinks(given.delta) => Sifted(fr, given.delta[1].path)
  BY <1>1, <1>2, GivenPlain, StartSifted
<1> QED
  BY <1>1, <1>3, <1>4 DEF Shrinking

LEMMA GoShrinking ==
  ASSUME Reordering, Shrinking, status = "running", NEW fr, Go(fr),
         OnlyShrinks(given.delta) => Sifted(fr, given.delta[1].path)
  PROVE  Shrinking'
<1>1. work \in Seq(Range(work)) /\ work # <<>>
  BY DEF Reordering
<1>2. work' = <<fr>> \o Tail(work) /\ given' = given /\ status' = "running"
  BY DEF Go
<1>3. Len(work') = Len(work) /\ work'[1] = fr /\ work' # <<>>
  BY <1>1, <1>2, HeadReplaced
<1>4. now' = fr
  BY <1>3 DEF now
<1> QED
  BY <1>2, <1>3, <1>4 DEF Shrinking

LEMMA OneDelta ==
  ASSUME Reordering, Shrinking, status = "running", OnlyShrinks(given.delta)
  PROVE  Len(work) = 1 /\ Framed(now) /\ Sifted(now, given.delta[1].path)
BY Innermost DEF Shrinking

With(d, i, X, Y) == [d EXCEPT ![i] = X, ![i + 1] = Y]

LEMMA WithIs ==
  ASSUME NEW d, d \in Seq(Range(d)), NEW i \in Nat \ {0}, i < Len(d), NEW X, NEW Y
  PROVE  With(d, i, X, Y) \in Seq(Range(With(d, i, X, Y))) /\ Len(With(d, i, X, Y)) = Len(d)
<1> DEFINE c == [d EXCEPT ![i] = X, ![i + 1] = Y]
           n == Len(d)
<1>1. n \in Nat /\ DOMAIN d = 1 .. n
  OBVIOUS
<1>2. c = [j \in 1 .. n |-> IF j = i + 1 THEN Y ELSE IF j = i THEN X ELSE d[j]]
  BY <1>1
<1> HIDE DEF c, n
<1>3. c \in [1 .. n -> Range(c)]
  BY <1>2 DEF Range
<1>4. c \in Seq(Range(c)) /\ Len(c) = n
  <2>1. c \in Seq(Range(c))
    BY <1>1, <1>3
  <2> QED
    BY <1>1, <1>2, <2>1
<1> QED
  BY <1>4 DEF c, n, With

LEMMA SwapShrinking ==
  ASSUME Reordering, Shrinking, Swap
  PROVE  Shrinking'
<1> DEFINE fr == [now EXCEPT !.entries[now.i] = InFrontOf(later, earlier),
                             !.entries[now.i + 1] = earlier, !.i = @ + 1, !.moved = TRUE]
           list == given.delta[1].path
<1>1. /\ status = "running" /\ Go(fr) /\ now.i < Len(now.entries)
      /\ MaySwap(now.entries[now.i], now.entries[now.i + 1])
  BY DEF Swap, Comparing, earlier, later
<1>2. ASSUME OnlyShrinks(given.delta)
      PROVE  Sifted(fr, list)
  <2> DEFINE o == now
             X == InFrontOf(o.entries[o.i + 1], o.entries[o.i])
             Y == o.entries[o.i]
             g == [o EXCEPT !.entries[o.i] = X, !.entries[o.i + 1] = Y, !.i = @ + 1, !.moved = TRUE]
  <2>1. Framed(o) /\ Sifted(o, list)
    BY <1>1, <1>2, OneDelta
  <2>2. fr = g
    BY DEF earlier, later
  <2>3. o.i < Len(o.entries) /\ MaySwap(o.entries[o.i], o.entries[o.i + 1])
    BY <1>1
  <2> HIDE DEF fr, o, X, Y
  <2>4. LET c == [o.entries EXCEPT ![o.i] = X, ![o.i + 1] = Y] IN c \in Seq(Range(c)) /\ Len(c) = Len(o.entries)
    <3> DEFINE d == o.entries
               i == o.i
    <3>1. d \in Seq(Range(d)) /\ i \in Nat \ {0} /\ i < Len(d)
      BY <2>1, <2>3 DEF Framed
    <3> HIDE DEF d, i
    <3>2. With(d, i, X, Y) \in Seq(Range(With(d, i, X, Y))) /\ Len(With(d, i, X, Y)) = Len(d)
      BY <3>1, WithIs
    <3> QED
      BY <3>2 DEF d, i, With
  <2>5. LET f == [o EXCEPT !.entries[o.i] = X, !.entries[o.i + 1] = Y, !.i = @ + 1, !.moved = TRUE]
        IN  /\ Framed(f) /\ f.entries = [o.entries EXCEPT ![o.i] = X, ![o.i + 1] = Y]
            /\ f.n = o.n /\ f.pass = o.pass /\ f.i = o.i + 1 /\ f.moved
    BY <2>1, <2>4, Exchanged
  <2> HIDE DEF g, list
  <2>6. /\ g.entries = [o.entries EXCEPT ![o.i] = X, ![o.i + 1] = Y]
        /\ g.pass = o.pass /\ g.i = o.i + 1 /\ g.moved
    BY <2>5 DEF g
  <2>7. Len(g.entries) = Len(o.entries)
    BY <2>4, <2>6
  <2>8. Sifted(g, list)
    BY <2>1, <2>3, <2>6, <2>7, SwapSifted DEF X, Y
  <2> QED
    BY <2>2, <2>8
<1> HIDE DEF fr
<1> QED
  BY <1>1, <1>2, GoShrinking

LEMMA StepShrinking == Reordering /\ Shrinking /\ [Normalizing \/ NFinished]_nvars => Shrinking'
<1> SUFFICES ASSUME Reordering, Shrinking, [Normalizing \/ NFinished]_nvars PROVE Shrinking'
  OBVIOUS
<1> DEFINE list == given.delta[1].path
<1>1. CASE NRefuse
  BY <1>1 DEF NRefuse, Shrinking
<1>2. CASE NBegin
  BY <1>2, BeginShrinking
<1>3. CASE Enter
  <2>1. status = "running" /\ now.n < Len(now.entries) /\ now.entries[now.n + 1].op.kind = "nest"
    BY <1>3 DEF Enter, Looking
  <2>2. ~OnlyShrinks(given.delta)
    <3> SUFFICES ASSUME OnlyShrinks(given.delta) PROVE FALSE
      OBVIOUS
    <3>1. Framed(now) /\ Sifted(now, list)
      BY <2>1, OneDelta
    <3>2. now.n + 1 \in 1 .. Len(now.entries)
      BY <2>1, <3>1 DEF Framed
    <3>3. Plain(now.entries[now.n + 1], list)
      BY <3>1, <3>2 DEF Sifted
    <3> QED
      BY <2>1, <3>3 DEF Plain
  <2> QED
    BY <1>3, <2>2 DEF Enter, Shrinking
<1>4. CASE PassBy
  <2> DEFINE fr == [now EXCEPT !.n = @ + 1]
  <2>1. status = "running" /\ Go(fr)
    BY <1>4 DEF PassBy, Looking
  <2>2. ASSUME OnlyShrinks(given.delta)
        PROVE  Sifted(fr, list)
    <3>1. Framed(now) /\ Sifted(now, list)
      BY <2>1, <2>2, OneDelta
    <3>2. fr.entries = now.entries /\ fr.pass = now.pass /\ fr.i = now.i /\ fr.moved = now.moved
      BY <3>1, Counted
    <3> HIDE DEF fr
    <3> QED
      BY <3>1, <3>2, LookSifted
  <2> HIDE DEF fr
  <2> QED
    BY <2>1, <2>2, GoShrinking
<1>5. CASE Swap
  BY <1>5, SwapShrinking
<1>6. CASE Leave
  <2> DEFINE fr == [now EXCEPT !.i = @ + 1]
  <2>1. /\ status = "running" /\ Go(fr) /\ now.i < Len(now.entries)
        /\ ~MaySwap(now.entries[now.i], now.entries[now.i + 1])
    BY <1>6 DEF Leave, Comparing, earlier, later
  <2>2. ASSUME OnlyShrinks(given.delta)
        PROVE  Sifted(fr, list)
    <3>1. Framed(now) /\ Sifted(now, list)
      BY <2>1, <2>2, OneDelta
    <3>2. fr.entries = now.entries /\ fr.pass = now.pass /\ fr.i = now.i + 1 /\ fr.moved = now.moved
      BY <3>1, Advanced
    <3> HIDE DEF fr, list
    <3> QED
      BY <2>1, <3>1, <3>2, LeaveSifted
  <2> HIDE DEF fr
  <2> QED
    BY <2>1, <2>2, GoShrinking
<1>7. CASE NextPass
  <2> DEFINE fr == [now EXCEPT !.pass = @ + 1, !.i = 1, !.moved = FALSE]
  <2>1. status = "running" /\ Go(fr) /\ now.i = Len(now.entries)
    BY <1>7 DEF NextPass, PassEnds
  <2>2. ASSUME OnlyShrinks(given.delta)
        PROVE  Sifted(fr, list)
    <3>1. Framed(now) /\ Sifted(now, list)
      BY <2>1, <2>2, OneDelta
    <3>2. fr.entries = now.entries /\ fr.pass = now.pass + 1 /\ fr.i = 1
      BY <3>1, Restarted
    <3> HIDE DEF fr, list
    <3> QED
      BY <2>1, <3>1, <3>2, NextPassSifted
  <2> HIDE DEF fr
  <2> QED
    BY <2>1, <2>2, GoShrinking
<1>8. CASE PutBack
  <2>1. status = "running" /\ Len(work) > 1 /\ given' = given
    BY <1>8 DEF PutBack, PassEnds
  <2>2. Len(work) # 1
    BY <2>1
  <2> QED
    BY <2>1, <2>2 DEF Shrinking
<1>9. CASE NReturn
  <2>1. /\ status = "running" /\ now.i = Len(now.entries) /\ LastPass(now) /\ given' = given
        /\ status' = "ok" /\ out' = [given EXCEPT !.delta = now.entries] /\ given \in Documents
    BY <1>9 DEF NReturn, PassEnds, Reordering
  <2>2. out'.delta = now.entries
    BY <2>1, GivenEntries
  <2>3. OnlyShrinks(given.delta) => InNormalForm(now.entries)
    BY <2>1, OneDelta, SortedAtLast
  <2> QED
    BY <2>1, <2>2, <2>3 DEF Shrinking
<1>10. CASE UNCHANGED nvars
  BY <1>10 DEF nvars, Shrinking, now
<1> QED
  BY <1>1, <1>2, <1>3, <1>4, <1>5, <1>6, <1>7, <1>8, <1>9, <1>10 DEF Normalizing, NFinished

LEMMA ShrinkingIsNormal == Reordering /\ Shrinking => NormalForm
<1> SUFFICES ASSUME Reordering, Shrinking, status = "ok", OnlyShrinks(given.delta)
             PROVE  \A h \in DOMAIN out.delta : \A j \in 1 .. h - 1 :
                      out.delta[j].op.kind = "remove" =>
                        out.delta[h].targets[1].key.index < out.delta[j].targets[1].key.index
  BY DEF NormalForm
<1>1. InNormalForm(out.delta)
  BY DEF Shrinking
<1>2. out.delta \in Seq(Range(out.delta))
  BY DEF Reordering, Rearranged
<1>3. ASSUME NEW h \in DOMAIN out.delta, NEW j \in 1 .. h - 1
      PROVE  InForm(out.delta[j], out.delta[h])
  <2>1. h \in 1 .. Len(out.delta) /\ Len(out.delta) \in Nat
    BY <1>2
  <2>2. j \in 1 .. Len(out.delta) /\ j < h
    BY <2>1
  <2> QED
    BY <1>1, <2>1, <2>2 DEF InNormalForm
<1> QED
  BY <1>3 DEF InForm, IndexOf

\* A list that entries of one index each only shrink comes out in the normal form:
\* whatever stands behind a removal names a lower index.
THEOREM ShrinkingIsNormalized == NSpec => []NormalForm
<1>1. NInit => Reordering /\ Shrinking
  BY InitReordering, InitShrinking
<1>2. Reordering /\ Shrinking /\ [Normalizing \/ NFinished]_nvars => Reordering' /\ Shrinking'
  BY StepReordering, StepShrinking
<1>3. Reordering /\ Shrinking => NormalForm
  BY ShrinkingIsNormal
<1> QED
  BY <1>1, <1>2, <1>3, PTL DEF NSpec

=============================================================================
