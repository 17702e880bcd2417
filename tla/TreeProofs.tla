----------------------------- MODULE TreeProofs -----------------------------
(***************************************************************************)
(* Lemmas about positions and trees: where a position lies, and what       *)
(* grafting, erasing and overlaying leave in a tree.                       *)
(*                                                                         *)
(* Nothing here asks what a position is made of.  A position is any finite *)
(* sequence, which is what Pos says without naming a set of segments.      *)
(***************************************************************************)
EXTENDS Tree, SequenceTheorems, FiniteSetTheorems, TLAPS

Pos(c) == c \in Seq(Range(c))

-----------------------------------------------------------------------------
(* Positions.                                                              *)

LEMMA PosIs ==
  ASSUME NEW q, Pos(q)
  PROVE  /\ Len(q) \in Nat /\ DOMAIN q = 1 .. Len(q)
         /\ q = [i \in 1 .. Len(q) |-> q[i]]
BY LenProperties DEF Pos

LEMMA PosIntro ==
  ASSUME NEW T, NEW q \in Seq(T)
  PROVE  Pos(q)
BY SeqOfRange DEF Pos

LEMMA PosEqual ==
  ASSUME NEW p, NEW q, Pos(p), Pos(q), Len(p) = Len(q), \A i \in 1 .. Len(p) : p[i] = q[i]
  PROVE  p = q
BY PosIs

\* Two positions are sequences over a common set of segments.
LEMMA PosTogether ==
  ASSUME NEW p, NEW q, Pos(p), Pos(q)
  PROVE  \E T : p \in Seq(T) /\ q \in Seq(T)
<1> WITNESS Range(p) \cup Range(q)
<1> QED
  BY SeqMonotonic DEF Pos

\* The root is a position, and what Append makes of one is a longer one.
LEMMA RootPos == Pos(<<>>) /\ Len(<<>>) = 0
  BY EmptySeq DEF Pos

LEMMA NotRoot ==
  ASSUME NEW q, Pos(q)
  PROVE  q # <<>> <=> Len(q) > 0
BY EmptySeq, PosIs DEF Pos

LEMMA AppendPos ==
  ASSUME NEW c, NEW s, Pos(c)
  PROVE  /\ Pos(Append(c, s)) /\ Append(c, s) # <<>>
         /\ Len(Append(c, s)) = Len(c) + 1
         /\ Len(Append(c, s)) \in Nat \ {0}
         /\ Append(c, s)[Len(c) + 1] = s
         /\ \A i \in 1 .. Len(c) : Append(c, s)[i] = c[i]
<1> DEFINE T == Range(c) \cup {s}
<1>1. c \in Seq(T)
  BY SeqMonotonic DEF Pos
<1>2. /\ Append(c, s) \in Seq(T)
      /\ Len(Append(c, s)) = Len(c) + 1
      /\ Len(c) \in Nat
      /\ Append(c, s)[Len(c) + 1] = s
      /\ \A i \in 1 .. Len(c) : Append(c, s)[i] = c[i]
  BY <1>1, AppendProperties, LenProperties
<1>3. Pos(Append(c, s))
  BY <1>2, PosIntro
<1> HIDE DEF T
<1> QED
  BY <1>2, <1>3, EmptySeq

LEMMA ConcatPos ==
  ASSUME NEW p, NEW r, Pos(p), Pos(r)
  PROVE  /\ Pos(p \o r) /\ Len(p \o r) = Len(p) + Len(r)
         /\ \A i \in 1 .. Len(p) : (p \o r)[i] = p[i]
         /\ \A i \in 1 .. Len(r) : (p \o r)[Len(p) + i] = r[i]
<1>1. PICK T : p \in Seq(T) /\ r \in Seq(T)
  BY PosTogether
<1>2. p \o r \in Seq(T) /\ Len(p) \in Nat /\ Len(r) \in Nat
  BY <1>1, ConcatProperties, LenProperties
<1>3. /\ Len(p \o r) = Len(p) + Len(r)
      /\ \A i \in 1 .. Len(p) + Len(r) :
           (p \o r)[i] = IF i <= Len(p) THEN p[i] ELSE r[i - Len(p)]
  BY <1>1, ConcatProperties
<1>4. ASSUME NEW i \in 1 .. Len(p)
      PROVE  (p \o r)[i] = p[i]
  BY <1>2, <1>3
<1>5. ASSUME NEW i \in 1 .. Len(r)
      PROVE  (p \o r)[Len(p) + i] = r[i]
  <2>1. Len(p) + i \in 1 .. Len(p) + Len(r) /\ ~(Len(p) + i <= Len(p)) /\ (Len(p) + i) - Len(p) = i
    BY <1>2
  <2> QED
    BY <1>3, <2>1
<1>6. Pos(p \o r)
  BY <1>2, PosIntro
<1> QED
  BY <1>3, <1>4, <1>5, <1>6

LEMMA SubPos ==
  ASSUME NEW q, Pos(q), NEW m \in 1 .. Len(q) + 1, NEW n \in m - 1 .. Len(q)
  PROVE  /\ Pos(SubSeq(q, m, n)) /\ Len(SubSeq(q, m, n)) = n - m + 1
         /\ \A i \in 1 .. n - m + 1 : SubSeq(q, m, n)[i] = q[m + i - 1]
<1>1. Len(q) \in Nat /\ q \in Seq(Range(q))
  BY PosIs DEF Pos
<1>2. /\ SubSeq(q, m, n) \in Seq(Range(q))
      /\ Len(SubSeq(q, m, n)) = IF m <= n THEN n - m + 1 ELSE 0
      /\ \A i \in 1 .. n - m + 1 : SubSeq(q, m, n)[i] = q[m + i - 1]
  BY <1>1, SubSeqProperties
<1>3. Pos(SubSeq(q, m, n))
  BY <1>2, PosIntro
<1>4. Len(SubSeq(q, m, n)) = n - m + 1
  BY <1>1, <1>2
<1> QED
  BY <1>2, <1>3, <1>4

-----------------------------------------------------------------------------
(* One position above another.                                             *)

LEMMA PrefixIs ==
  ASSUME NEW p, NEW q, Pos(p), Pos(q)
  PROVE  IsPrefix(p, q) <=> Len(p) <= Len(q) /\ \A i \in 1 .. Len(p) : p[i] = q[i]
<1>1. Len(p) \in Nat /\ Len(q) \in Nat
  BY PosIs
<1>2. CASE Len(p) <= Len(q)
  <2>1. /\ Pos(SubSeq(p, 1, Len(p))) /\ Pos(SubSeq(q, 1, Len(p)))
        /\ Len(SubSeq(p, 1, Len(p))) = Len(p) /\ Len(SubSeq(q, 1, Len(p))) = Len(p)
        /\ \A i \in 1 .. Len(p) : SubSeq(p, 1, Len(p))[i] = p[i] /\ SubSeq(q, 1, Len(p))[i] = q[i]
    BY <1>1, <1>2, SubPos
  <2>2. SubSeq(p, 1, Len(p)) = SubSeq(q, 1, Len(p)) <=> \A i \in 1 .. Len(p) : p[i] = q[i]
    BY <2>1, PosEqual
  <2> QED
    BY <1>2, <2>2 DEF IsPrefix
<1> QED
  BY <1>2 DEF IsPrefix

LEMMA PrefixOrder ==
  ASSUME NEW p, NEW q, NEW r, Pos(p), Pos(q), Pos(r)
  PROVE  /\ IsPrefix(p, p)
         /\ IsPrefix(p, q) => Len(p) <= Len(q)
         /\ IsPrefix(p, q) /\ IsPrefix(q, r) => IsPrefix(p, r)
         /\ IsPrefix(p, q) /\ Len(p) = Len(q) => p = q
         /\ IsPrefix(p, q) /\ IsPrefix(q, p) => p = q
         /\ IsPrefix(p, r) /\ IsPrefix(q, r) => IsPrefix(p, q) \/ IsPrefix(q, p)
<1>1. Len(p) \in Nat /\ Len(q) \in Nat /\ Len(r) \in Nat
  BY PosIs
<1>2. IsPrefix(p, q) /\ Len(p) = Len(q) => p = q
  BY PrefixIs, PosEqual
<1>3. IsPrefix(p, p)
  BY <1>1, PrefixIs
<1>4. IsPrefix(p, q) /\ IsPrefix(q, r) => IsPrefix(p, r)
  BY <1>1, PrefixIs
<1>5. IsPrefix(p, r) /\ IsPrefix(q, r) => IsPrefix(p, q) \/ IsPrefix(q, p)
  BY <1>1, PrefixIs
<1>6. (IsPrefix(p, q) => Len(p) <= Len(q)) /\ (IsPrefix(q, p) => Len(q) <= Len(p))
  BY PrefixIs
<1> QED
  BY <1>1, <1>2, <1>3, <1>4, <1>5, <1>6

LEMMA RootAbove ==
  ASSUME NEW q, Pos(q)
  PROVE  /\ IsPrefix(<<>>, q)
         /\ IsPrefix(q, <<>>) => q = <<>>
BY PrefixIs, RootPos, PosIs, PosEqual

\* What is below p is p with what follows it.
LEMMA RestIs ==
  ASSUME NEW p, NEW q, Pos(p), Pos(q), IsPrefix(p, q)
  PROVE  /\ Pos(Rest(p, q)) /\ p \o Rest(p, q) = q
         /\ Len(Rest(p, q)) = Len(q) - Len(p)
         /\ \A i \in 1 .. Len(q) - Len(p) : Rest(p, q)[i] = q[Len(p) + i]
<1>1. Len(p) \in Nat /\ Len(q) \in Nat /\ Len(p) <= Len(q)
  BY PosIs, PrefixIs
<1>2. /\ Pos(Rest(p, q)) /\ Len(Rest(p, q)) = Len(q) - Len(p)
      /\ \A i \in 1 .. Len(q) - Len(p) : Rest(p, q)[i] = q[Len(p) + i]
  BY <1>1, SubPos DEF Rest
<1>3. Pos(p \o Rest(p, q)) /\ Len(p \o Rest(p, q)) = Len(q)
  BY <1>1, <1>2, ConcatPos
<1>4. ASSUME NEW i \in 1 .. Len(q)
      PROVE  (p \o Rest(p, q))[i] = q[i]
  <2>1. CASE i <= Len(p)
    BY <1>1, <1>2, <2>1, ConcatPos, PrefixIs
  <2>2. CASE ~(i <= Len(p))
    <3>1. i - Len(p) \in 1 .. Len(Rest(p, q)) /\ i = Len(p) + (i - Len(p))
      BY <1>1, <1>2, <2>2
    <3>2. (p \o Rest(p, q))[Len(p) + (i - Len(p))] = Rest(p, q)[i - Len(p)]
      BY <1>2, <3>1, ConcatPos
    <3>3. Rest(p, q)[i - Len(p)] = q[Len(p) + (i - Len(p))]
      BY <1>2, <3>1
    <3> QED
      BY <3>1, <3>2, <3>3
  <2> QED
    BY <2>1, <2>2
<1> QED
  BY <1>2, <1>3, <1>4, PosEqual

LEMMA ConcatBelow ==
  ASSUME NEW p, NEW r, Pos(p), Pos(r)
  PROVE  IsPrefix(p, p \o r) /\ Rest(p, p \o r) = r
<1> DEFINE q == p \o r
<1>1. Len(p) \in Nat /\ Len(r) \in Nat
  BY PosIs
<1>2. /\ Pos(q) /\ Len(q) = Len(p) + Len(r)
      /\ \A i \in 1 .. Len(p) : q[i] = p[i]
      /\ \A i \in 1 .. Len(r) : q[Len(p) + i] = r[i]
  BY ConcatPos
<1> HIDE DEF q
<1>3. IsPrefix(p, q)
  BY <1>1, <1>2, PrefixIs
<1>4. /\ Pos(Rest(p, q)) /\ Len(Rest(p, q)) = Len(q) - Len(p)
      /\ \A i \in 1 .. Len(q) - Len(p) : Rest(p, q)[i] = q[Len(p) + i]
  BY <1>2, <1>3, RestIs
<1>5. Len(q) - Len(p) = Len(r)
  BY <1>1, <1>2
<1>6. Rest(p, q) = r
  BY <1>2, <1>4, <1>5, PosEqual
<1> QED
  BY <1>3, <1>6 DEF q

LEMMA ConcatInjective ==
  ASSUME NEW p, NEW r, NEW x, Pos(p), Pos(r), Pos(x), p \o r = p \o x
  PROVE  r = x
<1>1. Rest(p, p \o r) = r /\ Rest(p, p \o x) = x
  BY ConcatBelow
<1> QED
  BY <1>1

LEMMA ConcatPrefix ==
  ASSUME NEW p, NEW r, NEW x, Pos(p), Pos(r), Pos(x)
  PROVE  IsPrefix(p \o r, p \o x) <=> IsPrefix(r, x)
<1> DEFINE y == p \o r
           z == p \o x
<1>1. Len(p) \in Nat /\ Len(r) \in Nat /\ Len(x) \in Nat
  BY PosIs
<1>2. /\ Pos(y) /\ Len(y) = Len(p) + Len(r)
      /\ \A i \in 1 .. Len(p) : y[i] = p[i]
      /\ \A i \in 1 .. Len(r) : y[Len(p) + i] = r[i]
  BY ConcatPos
<1>3. /\ Pos(z) /\ Len(z) = Len(p) + Len(x)
      /\ \A i \in 1 .. Len(p) : z[i] = p[i]
      /\ \A i \in 1 .. Len(x) : z[Len(p) + i] = x[i]
  BY ConcatPos
<1> HIDE DEF y, z
<1>4. ASSUME Len(r) <= Len(x), \A i \in 1 .. Len(r) : r[i] = x[i], NEW i \in 1 .. Len(y)
      PROVE  y[i] = z[i]
  <2>1. CASE i <= Len(p)
    BY <1>1, <1>2, <1>3, <2>1
  <2>2. CASE ~(i <= Len(p))
    <3>1. i - Len(p) \in 1 .. Len(r) /\ i = Len(p) + (i - Len(p)) /\ i - Len(p) \in 1 .. Len(x)
      BY <1>1, <1>2, <1>4, <2>2
    <3>2. y[Len(p) + (i - Len(p))] = r[i - Len(p)] /\ z[Len(p) + (i - Len(p))] = x[i - Len(p)]
      BY <1>2, <1>3, <3>1
    <3> QED
      BY <1>4, <3>1, <3>2
  <2> QED
    BY <2>1, <2>2
<1>5. ASSUME Len(y) <= Len(z), \A i \in 1 .. Len(y) : y[i] = z[i], NEW i \in 1 .. Len(r)
      PROVE  r[i] = x[i]
  <2>1. Len(p) + i \in 1 .. Len(y) /\ i \in 1 .. Len(x)
    BY <1>1, <1>2, <1>3, <1>5
  <2>2. y[Len(p) + i] = z[Len(p) + i]
    BY <1>5, <2>1
  <2> QED
    BY <1>2, <1>3, <2>1, <2>2
<1>6. Len(y) <= Len(z) <=> Len(r) <= Len(x)
  BY <1>1, <1>2, <1>3
<1>7. IsPrefix(y, z) <=> Len(y) <= Len(z) /\ \A i \in 1 .. Len(y) : y[i] = z[i]
  <2>1. Pos(y) /\ Pos(z)
    BY <1>2, <1>3
  <2> QED
    BY <2>1, PrefixIs
<1>8. IsPrefix(r, x) <=> Len(r) <= Len(x) /\ \A i \in 1 .. Len(r) : r[i] = x[i]
  BY PrefixIs
<1>9. IsPrefix(y, z) <=> IsPrefix(r, x)
  BY <1>4, <1>5, <1>6, <1>7, <1>8
<1> QED
  BY <1>9 DEF y, z
-----------------------------------------------------------------------------
(* A position, its container and its segment.                              *)

LEMMA AppendIs ==
  ASSUME NEW c, NEW s, Pos(c)
  PROVE  Front(Append(c, s)) = c /\ Last(Append(c, s)) = s
<1> DEFINE q == Append(c, s)
<1>1. Pos(q) /\ Len(q) = Len(c) + 1 /\ Len(c) \in Nat /\ q[Len(c) + 1] = s
      /\ \A i \in 1 .. Len(c) : q[i] = c[i]
  BY AppendPos, PosIs
<1> HIDE DEF q
<1>2. Last(q) = s
  BY <1>1 DEF Last
<1>3. Len(q) - 1 = Len(c)
  BY <1>1
<1>4. /\ Pos(Front(q)) /\ Len(Front(q)) = Len(c)
      /\ \A i \in 1 .. Len(c) : Front(q)[i] = q[i]
  BY <1>1, <1>3, SubPos DEF Front
<1>5. Front(q) = c
  BY <1>1, <1>4, PosEqual
<1> QED
  BY <1>2, <1>5 DEF q

LEMMA FrontIs ==
  ASSUME NEW q, Pos(q), q # <<>>
  PROVE  /\ Pos(Front(q)) /\ Append(Front(q), Last(q)) = q
         /\ Len(Front(q)) = Len(q) - 1 /\ Len(Front(q)) \in Nat
         /\ \A i \in 1 .. Len(q) - 1 : Front(q)[i] = q[i]
         /\ IsPrefix(Front(q), q) /\ Front(q) # q
<1>1. Len(q) \in Nat /\ Len(q) > 0
  BY PosIs, NotRoot
<1>2. /\ Pos(Front(q)) /\ Len(Front(q)) = Len(q) - 1
      /\ \A i \in 1 .. Len(q) - 1 : Front(q)[i] = q[i]
  <2> DEFINE n == Len(q) - 1
  <2>1. 1 \in 1 .. Len(q) + 1 /\ n \in 1 - 1 .. Len(q) /\ n \in Nat
    BY <1>1
  <2> HIDE DEF n
  <2>2. /\ Pos(SubSeq(q, 1, n)) /\ Len(SubSeq(q, 1, n)) = n - 1 + 1
        /\ \A i \in 1 .. n - 1 + 1 : SubSeq(q, 1, n)[i] = q[1 + i - 1]
    BY <2>1, SubPos
  <2>3. \A i \in 1 .. n : SubSeq(q, 1, n)[i] = q[i]
    BY <2>1, <2>2
  <2> QED
    BY <2>1, <2>2, <2>3 DEF n, Front
<1> DEFINE c == Front(q)
<1>3. /\ Pos(Append(c, Last(q))) /\ Len(Append(c, Last(q))) = Len(c) + 1
      /\ Append(c, Last(q))[Len(c) + 1] = Last(q)
      /\ \A i \in 1 .. Len(c) : Append(c, Last(q))[i] = c[i]
  BY <1>2, AppendPos
<1> HIDE DEF c
<1>4. Append(c, Last(q)) = q
  <2>1. Len(Append(c, Last(q))) = Len(q)
    BY <1>1, <1>2, <1>3 DEF c
  <2>2. ASSUME NEW i \in 1 .. Len(q)
        PROVE  Append(c, Last(q))[i] = q[i]
    BY <1>1, <1>2, <1>3 DEF Last, c
  <2> QED
    BY <1>3, <2>1, <2>2, PosEqual
<1>5. IsPrefix(c, q)
  BY <1>1, <1>2, PrefixIs DEF c
<1> QED
  BY <1>1, <1>2, <1>4, <1>5 DEF c

LEMMA BelowAppend ==
  ASSUME NEW p, NEW c, NEW s, Pos(p), Pos(c)
  PROVE  IsPrefix(p, Append(c, s)) <=> p = Append(c, s) \/ IsPrefix(p, c)
<1> DEFINE q == Append(c, s)
<1>1. Pos(q) /\ Len(q) = Len(c) + 1 /\ Len(c) \in Nat /\ Len(p) \in Nat
      /\ \A i \in 1 .. Len(c) : q[i] = c[i]
  BY AppendPos, PosIs
<1> HIDE DEF q
<1>2. IsPrefix(p, c) => IsPrefix(p, q)
  BY <1>1, PrefixIs
<1>3. IsPrefix(q, q)
  BY <1>1, PrefixOrder
<1>4. ASSUME IsPrefix(p, q), Len(p) # Len(q)
      PROVE  IsPrefix(p, c)
  BY <1>1, <1>4, PrefixIs
<1>5. IsPrefix(p, q) /\ Len(p) = Len(q) => p = q
  BY <1>1, PrefixOrder
<1> QED
  BY <1>2, <1>3, <1>4, <1>5 DEF q

LEMMA AppendBelow ==
  ASSUME NEW c, NEW s, NEW q, Pos(c), Pos(q)
  PROVE  IsPrefix(Append(c, s), q) <=> IsPrefix(c, q) /\ c # q /\ q[Len(c) + 1] = s
<1> DEFINE p == Append(c, s)
<1>1. Pos(p) /\ Len(p) = Len(c) + 1 /\ Len(c) \in Nat /\ Len(q) \in Nat /\ p[Len(c) + 1] = s
      /\ \A i \in 1 .. Len(c) : p[i] = c[i]
  BY AppendPos, PosIs
<1> HIDE DEF p
<1>2. IsPrefix(c, q) => (c # q <=> Len(c) < Len(q))
  BY <1>1, PrefixOrder
<1>3. IsPrefix(p, q) <=> Len(p) <= Len(q) /\ \A i \in 1 .. Len(p) : p[i] = q[i]
  BY <1>1, PrefixIs
<1>4. IsPrefix(c, q) <=> Len(c) <= Len(q) /\ \A i \in 1 .. Len(c) : c[i] = q[i]
  BY PrefixIs
<1>5. ASSUME IsPrefix(p, q)
      PROVE  IsPrefix(c, q) /\ Len(c) < Len(q) /\ q[Len(c) + 1] = s
  BY <1>1, <1>3, <1>4, <1>5
<1>6. ASSUME IsPrefix(c, q), Len(c) < Len(q), q[Len(c) + 1] = s
      PROVE  IsPrefix(p, q)
  <2>1. ASSUME NEW i \in 1 .. Len(p)
        PROVE  p[i] = q[i]
    BY <1>1, <1>4, <1>6, <2>1
  <2> QED
    BY <1>1, <1>3, <1>6, <2>1
<1> QED
  BY <1>2, <1>5, <1>6 DEF p

\* Two places of one container are apart.
LEMMA PlacesApart ==
  ASSUME NEW c, NEW s, NEW t, Pos(c)
  PROVE  /\ Append(c, s) = Append(c, t) <=> s = t
         /\ IsPrefix(Append(c, s), Append(c, t)) <=> s = t
<1>1. Append(c, s) = Append(c, t) => s = t
  BY AppendIs
<1>2. Pos(Append(c, s)) /\ Pos(Append(c, t)) /\ Len(Append(c, s)) = Len(Append(c, t))
  BY AppendPos
<1>3. IsPrefix(Append(c, s), Append(c, t)) => Append(c, s) = Append(c, t)
  BY <1>2, PrefixOrder
<1>4. IsPrefix(Append(c, s), Append(c, s))
  BY <1>2, PrefixOrder
<1> QED
  BY <1>1, <1>3, <1>4

\* A place is below its container, and not above it.
LEMMA PlaceBelow ==
  ASSUME NEW c, NEW s, Pos(c)
  PROVE  /\ IsPrefix(c, Append(c, s)) /\ ~IsPrefix(Append(c, s), c)
         /\ c # Append(c, s)
<1>1. Pos(Append(c, s)) /\ Len(Append(c, s)) = Len(c) + 1 /\ Len(c) \in Nat
  BY AppendPos, PosIs
<1>2. IsPrefix(c, c) /\ (IsPrefix(Append(c, s), c) => Len(Append(c, s)) <= Len(c))
  BY <1>1, PrefixOrder
<1> QED
  BY <1>1, <1>2, BelowAppend

LEMMA ConcatAppend ==
  ASSUME NEW p, NEW r, NEW s, Pos(p), Pos(r)
  PROVE  p \o Append(r, s) = Append(p \o r, s)
<1> DEFINE y == p \o r
           z == Append(r, s)
           x == p \o z
<1>1. Len(p) \in Nat /\ Len(r) \in Nat
  BY PosIs
<1>2. /\ Pos(z) /\ Len(z) = Len(r) + 1 /\ z[Len(r) + 1] = s
      /\ \A i \in 1 .. Len(r) : z[i] = r[i]
  BY AppendPos
<1>3. /\ Pos(y) /\ Len(y) = Len(p) + Len(r)
      /\ \A i \in 1 .. Len(p) : y[i] = p[i]
      /\ \A i \in 1 .. Len(r) : y[Len(p) + i] = r[i]
  BY ConcatPos
<1>4. /\ Pos(Append(y, s)) /\ Len(Append(y, s)) = Len(y) + 1
      /\ Append(y, s)[Len(y) + 1] = s
      /\ \A i \in 1 .. Len(y) : Append(y, s)[i] = y[i]
  BY <1>3, AppendPos
<1> HIDE DEF z
<1>5. /\ Pos(x) /\ Len(x) = Len(p) + Len(z)
      /\ \A i \in 1 .. Len(p) : x[i] = p[i]
      /\ \A i \in 1 .. Len(z) : x[Len(p) + i] = z[i]
  BY <1>2, ConcatPos
<1> HIDE DEF x, y
<1>6. ASSUME NEW i \in 1 .. Len(x)
      PROVE  x[i] = Append(y, s)[i]
  <2>1. CASE i <= Len(p)
    BY <1>1, <1>3, <1>4, <1>5, <2>1
  <2>2. CASE ~(i <= Len(p))
    <3> DEFINE j == i - Len(p)
    <3>1. j \in 1 .. Len(z) /\ i = Len(p) + j
      BY <1>1, <1>2, <1>5, <2>2
    <3> HIDE DEF j
    <3>2. x[i] = z[j]
      BY <1>5, <3>1
    <3>3. CASE j <= Len(r)
      <4>1. j \in 1 .. Len(r) /\ i \in 1 .. Len(y)
        BY <1>1, <1>2, <1>3, <3>1, <3>3
      <4> QED
        BY <1>2, <1>3, <1>4, <3>1, <3>2, <4>1
    <3>4. CASE ~(j <= Len(r))
      <4>1. j = Len(r) + 1 /\ i = Len(y) + 1
        BY <1>1, <1>2, <1>3, <3>1, <3>4
      <4> QED
        BY <1>2, <1>4, <3>2, <4>1
    <3> QED
      BY <3>3, <3>4
  <2> QED
    BY <2>1, <2>2
<1>7. Len(x) = Len(Append(y, s))
  BY <1>1, <1>2, <1>3, <1>4, <1>5
<1>8. x = Append(y, s)
  BY <1>4, <1>5, <1>6, <1>7, PosEqual
<1> QED
  BY <1>8 DEF x, y, z

LEMMA AppendConcat ==
  ASSUME NEW c, NEW s, NEW r, Pos(c), Pos(r)
  PROVE  /\ Pos(<<s>> \o r) /\ <<s>> \o r # <<>>
         /\ Head(<<s>> \o r) = s /\ Tail(<<s>> \o r) = r
         /\ (<<s>> \o r)[1] = s
<1> DEFINE x == <<s>> \o r
<1>1. Pos(<<s>>) /\ Len(<<s>>) = 1 /\ <<s>>[1] = s
  <2>1. <<s>> \in Seq({s})
    OBVIOUS
  <2> QED
    BY <2>1, PosIntro
<1>2. /\ Pos(x) /\ Len(x) = 1 + Len(r) /\ Len(r) \in Nat
      /\ x[1] = s /\ \A i \in 1 .. Len(r) : x[1 + i] = r[i]
  <2>1. /\ Pos(x) /\ Len(x) = 1 + Len(r)
        /\ \A i \in 1 .. Len(<<s>>) : x[i] = <<s>>[i]
        /\ \A i \in 1 .. Len(r) : x[Len(<<s>>) + i] = r[i]
    BY <1>1, ConcatPos
  <2> QED
    BY <1>1, <2>1, PosIs
<1> HIDE DEF x
<1>3. x # <<>>
  BY <1>2, NotRoot
<1>4. Head(x) = s /\ Tail(x) = r
  <2>1. /\ Tail(x) \in Seq(Range(x)) /\ Len(Tail(x)) = Len(x) - 1
        /\ \A i \in 1 .. Len(Tail(x)) : Tail(x)[i] = x[i + 1]
    BY <1>2, <1>3, HeadTailProperties DEF Pos
  <2>2. Pos(Tail(x)) /\ Len(Tail(x)) = Len(r)
    <3>1. Pos(Tail(x))
      BY <2>1, PosIntro
    <3> QED
      BY <1>2, <2>1, <3>1
  <2>3. \A i \in 1 .. Len(r) : Tail(x)[i] = r[i]
    BY <1>2, <2>1, <2>2
  <2>4. Head(x) = x[1]
    BY <1>2, <1>3 DEF Pos
  <2> QED
    BY <1>2, <2>2, <2>3, <2>4, PosEqual
<1> QED
  BY <1>2, <1>3, <1>4 DEF x

LEMMA AppendShift ==
  ASSUME NEW c, NEW s, NEW r, Pos(c), Pos(r), NEW x, x = <<s>> \o r
  PROVE  c \o x = Append(c, s) \o r
<1> DEFINE T == {s} \cup Range(c) \cup Range(r)
<1>1. c \in Seq(T) /\ r \in Seq(T) /\ <<s>> \in Seq(T)
  BY SeqMonotonic DEF Pos
<1>2. (c \o <<s>>) \o r = c \o (<<s>> \o r)
  BY <1>1, ConcatAssociative
<1> HIDE DEF T
<1>3. c \o <<s>> = Append(c, s)
  BY <1>1, AppendProperties
<1> QED
  BY <1>2, <1>3

LEMMA ConcatRoot ==
  ASSUME NEW p, Pos(p)
  PROVE  p \o <<>> = p
BY ConcatEmptySeq DEF Pos

-----------------------------------------------------------------------------
(* Trees.                                                                  *)

LEMMA TreePos ==
  ASSUME NEW d, IsTree(d), NEW q \in DOMAIN d
  PROVE  Pos(q)
BY DEF IsTree, Pos

LEMMA TreeEqual ==
  ASSUME NEW d, NEW e, IsTree(d), IsTree(e), DOMAIN d = DOMAIN e, \A q \in DOMAIN d : d[q] = e[q]
  PROVE  d = e
BY DEF IsTree

\* The places of one position's fragment are finite in number.
LEMMA ShiftFinite ==
  ASSUME NEW p, NEW R, IsFiniteSet(R)
  PROVE  IsFiniteSet({p \o r : r \in R})
<1> DEFINE S == {p \o r : r \in R}
           f == [r \in R |-> p \o r]
<1>1. f \in Surjection(R, S)
  BY DEF Surjection
<1> HIDE DEF f, S
<1>2. IsFiniteSet(S)
  BY <1>1, FS_Surjection
<1> QED
  BY <1>2 DEF S

LEMMA EraseAllIs ==
  ASSUME NEW d, NEW P, IsTree(d)
  PROVE  /\ IsTree(EraseAll(d, P))
         /\ DOMAIN EraseAll(d, P) = {q \in DOMAIN d : \A p \in P : ~IsPrefix(p, q)}
         /\ \A q \in DOMAIN EraseAll(d, P) : EraseAll(d, P)[q] = d[q]
<1> DEFINE e == EraseAll(d, P)
           D == {q \in DOMAIN d : \A p \in P : ~IsPrefix(p, q)}
<1>1. e = [q \in D |-> d[q]]
  BY DEF EraseAll, RestrictDomain, Restrict
<1>2. DOMAIN e = D /\ \A q \in D : e[q] = d[q]
  BY <1>1
<1>3. IsFiniteSet(D)
  BY FS_Subset DEF IsTree
<1> HIDE DEF e
<1>4. e = [q \in DOMAIN e |-> e[q]]
  BY <1>1, <1>2
<1>5. IsTree(e)
  BY <1>2, <1>3, <1>4 DEF IsTree
<1> QED
  BY <1>2, <1>5 DEF e

LEMMA EraseIs ==
  ASSUME NEW d, NEW p, IsTree(d)
  PROVE  /\ IsTree(Erase(d, p))
         /\ DOMAIN Erase(d, p) = {q \in DOMAIN d : ~IsPrefix(p, q)}
         /\ \A q \in DOMAIN Erase(d, p) : Erase(d, p)[q] = d[q]
<1>1. {q \in DOMAIN d : \A x \in {p} : ~IsPrefix(x, q)} = {q \in DOMAIN d : ~IsPrefix(p, q)}
  OBVIOUS
<1> QED
  BY <1>1, EraseAllIs, Zenon DEF Erase

LEMMA GraftIs ==
  ASSUME NEW d, NEW p, NEW v, IsTree(d), IsTree(v), Pos(p)
  PROVE  /\ IsTree(Graft(d, p, v))
         /\ \A r : Pos(r) => (p \o r \in DOMAIN Graft(d, p, v) <=> r \in DOMAIN v)
         /\ \A r \in DOMAIN v : Graft(d, p, v)[p \o r] = v[r]
         /\ \A q : ~IsPrefix(p, q) => (q \in DOMAIN Graft(d, p, v) <=> q \in DOMAIN d)
         /\ \A q \in DOMAIN Graft(d, p, v) : ~IsPrefix(p, q) => Graft(d, p, v)[q] = d[q]
<1> DEFINE e == Graft(d, p, v)
           R == {p \o r : r \in DOMAIN v}
           D == (DOMAIN d \ Under(d, p)) \cup R
<1>1. e = [q \in D |-> IF IsPrefix(p, q) THEN v[Rest(p, q)] ELSE d[q]]
  BY DEF Graft
<1>2. DOMAIN e = D /\ \A q \in D : e[q] = IF IsPrefix(p, q) THEN v[Rest(p, q)] ELSE d[q]
  BY <1>1
<1>3. \A r \in DOMAIN v : Pos(r) /\ Pos(p \o r) /\ IsPrefix(p, p \o r) /\ Rest(p, p \o r) = r
  BY TreePos, ConcatPos, ConcatBelow
<1> HIDE DEF e
<1>4. IsTree(e)
  <2>0. IsFiniteSet(DOMAIN d) /\ IsFiniteSet(DOMAIN v)
    BY DEF IsTree
  <2>1. IsFiniteSet(R) /\ IsFiniteSet(DOMAIN d \ Under(d, p))
    BY <2>0, ShiftFinite, FS_Subset
  <2>2. IsFiniteSet(D)
    BY <2>1, FS_Union
  <2>3. e = [q \in DOMAIN e |-> e[q]]
    BY <1>1, <1>2
  <2>4. \A q \in D : Pos(q)
    BY <1>3, TreePos
  <2> QED
    BY <1>2, <2>2, <2>3, <2>4 DEF IsTree, Pos
<1>5. \A q \in R : IsPrefix(p, q)
  BY <1>3
<1>6. ASSUME NEW r, Pos(r), p \o r \in DOMAIN e
      PROVE  r \in DOMAIN v
  <2>1. IsPrefix(p, p \o r) /\ Rest(p, p \o r) = r
    BY <1>6, ConcatBelow
  <2>2. p \o r \in R
    BY <1>2, <1>6, <2>1 DEF Under
  <2>3. PICK x \in DOMAIN v : p \o r = p \o x
    BY <2>2
  <2> QED
    BY <1>3, <2>1, <2>3
<1>7. \A r \in DOMAIN v : p \o r \in DOMAIN e /\ e[p \o r] = v[r]
  BY <1>2, <1>3
<1>8. \A q : ~IsPrefix(p, q) => (q \in DOMAIN e <=> q \in DOMAIN d)
  BY <1>2, <1>5 DEF Under
<1>9. \A q \in DOMAIN e : ~IsPrefix(p, q) => e[q] = d[q]
  BY <1>2
<1> QED
  BY <1>4, <1>6, <1>7, <1>8, <1>9 DEF e

LEMMA ValueAtIs ==
  ASSUME NEW d, NEW p, IsTree(d), Pos(p)
  PROVE  /\ IsTree(ValueAt(d, p))
         /\ \A r : Pos(r) => (r \in DOMAIN ValueAt(d, p) <=> p \o r \in DOMAIN d)
         /\ \A r \in DOMAIN ValueAt(d, p) : ValueAt(d, p)[r] = d[p \o r]
<1> DEFINE v == ValueAt(d, p)
           U == Under(d, p)
           R == {Rest(p, q) : q \in U}
<1>1. v = [r \in R |-> d[p \o r]]
  BY DEF ValueAt
<1>2. DOMAIN v = R /\ \A r \in R : v[r] = d[p \o r]
  BY <1>1
<1>3. \A q \in U : Pos(q) /\ Pos(Rest(p, q)) /\ p \o Rest(p, q) = q
  BY TreePos, RestIs DEF Under
<1> HIDE DEF v
<1>4. IsTree(v)
  <2>1. IsFiniteSet(U)
    BY FS_Subset DEF IsTree, Under
  <2> DEFINE f == [q \in U |-> Rest(p, q)]
  <2>2. f \in Surjection(U, R)
    BY DEF Surjection
  <2> HIDE DEF f, U, R
  <2>3. IsFiniteSet(R)
    BY <2>1, <2>2, FS_Surjection
  <2>4. v = [r \in DOMAIN v |-> v[r]]
    BY <1>1, <1>2
  <2>5. \A r \in R : Pos(r)
    BY <1>3 DEF R
  <2> QED
    BY <1>2, <2>3, <2>4, <2>5 DEF IsTree, Pos
<1>5. ASSUME NEW r, Pos(r), p \o r \in DOMAIN d
      PROVE  r \in R
  <2>1. p \o r \in U /\ Rest(p, p \o r) = r
    BY <1>5, ConcatBelow DEF Under
  <2> QED
    BY <2>1
<1>6. \A r \in R : p \o r \in DOMAIN d
  BY <1>3 DEF Under
<1> QED
  BY <1>2, <1>4, <1>5, <1>6 DEF v

LEMMA OverlayIs ==
  ASSUME NEW d, NEW c, NEW v, IsTree(d), IsTree(v), Pos(c)
  PROVE  /\ IsTree(Overlay(d, c, v))
         /\ \A r : Pos(r) => (c \o r \in DOMAIN Overlay(d, c, v) <=> r \in DOMAIN v \/ c \o r \in DOMAIN d)
         /\ \A r \in DOMAIN v : Overlay(d, c, v)[c \o r] = v[r]
         /\ \A q : ~IsPrefix(c, q) => (q \in DOMAIN Overlay(d, c, v) <=> q \in DOMAIN d)
         /\ \A q \in DOMAIN Overlay(d, c, v) :
              ~IsPrefix(c, q) \/ Rest(c, q) \notin DOMAIN v => Overlay(d, c, v)[q] = d[q]
<1> DEFINE e == Overlay(d, c, v)
           R == {c \o r : r \in DOMAIN v}
           D == DOMAIN d \cup R
<1>1. e = [q \in D |-> IF IsPrefix(c, q) /\ Rest(c, q) \in DOMAIN v THEN v[Rest(c, q)] ELSE d[q]]
  BY DEF Overlay
<1>2. DOMAIN e = D
      /\ \A q \in D : e[q] = IF IsPrefix(c, q) /\ Rest(c, q) \in DOMAIN v THEN v[Rest(c, q)] ELSE d[q]
  BY <1>1
<1>3. \A r \in DOMAIN v : Pos(r) /\ Pos(c \o r) /\ IsPrefix(c, c \o r) /\ Rest(c, c \o r) = r
  BY TreePos, ConcatPos, ConcatBelow
<1> HIDE DEF e
<1>4. IsTree(e)
  <2>1. IsFiniteSet(R) /\ IsFiniteSet(DOMAIN d)
    BY ShiftFinite DEF IsTree
  <2>2. IsFiniteSet(D)
    BY <2>1, FS_Union
  <2>3. e = [q \in DOMAIN e |-> e[q]]
    BY <1>1, <1>2
  <2>4. \A q \in D : Pos(q)
    BY <1>3, TreePos
  <2> QED
    BY <1>2, <2>2, <2>3, <2>4 DEF IsTree, Pos
<1>5. ASSUME NEW r, Pos(r), c \o r \in DOMAIN e, c \o r \notin DOMAIN d
      PROVE  r \in DOMAIN v
  <2>1. PICK x \in DOMAIN v : c \o r = c \o x
    BY <1>2, <1>5
  <2> QED
    BY <1>3, <1>5, <2>1, ConcatInjective
<1>6. \A r \in DOMAIN v : c \o r \in DOMAIN e /\ e[c \o r] = v[r]
  BY <1>2, <1>3
<1>7. \A q : ~IsPrefix(c, q) => (q \in DOMAIN e <=> q \in DOMAIN d)
  BY <1>2, <1>3
<1>8. \A q \in DOMAIN e : ~IsPrefix(c, q) \/ Rest(c, q) \notin DOMAIN v => e[q] = d[q]
  BY <1>2
<1>9. \A r : c \o r \in DOMAIN d => c \o r \in DOMAIN e
  BY <1>2
<1> QED
  BY <1>4, <1>5, <1>6, <1>7, <1>8, <1>9 DEF e

\* A collection as one fragment: each element is found under its place.
LEMMA CollectionIs ==
  ASSUME NEW s, IsFiniteSet(DOMAIN s), \A i \in DOMAIN s : IsTree(s[i])
  PROVE  /\ IsTree(Collection(s))
         /\ <<>> \notin DOMAIN Collection(s)
         /\ \A r \in DOMAIN Collection(s) :
              \E i \in DOMAIN s : \E x \in DOMAIN s[i] : r = <<i>> \o x
         /\ \A i, x : Pos(x) => (<<i>> \o x \in DOMAIN Collection(s) <=> i \in DOMAIN s /\ x \in DOMAIN s[i])
         /\ \A i \in DOMAIN s : \A x \in DOMAIN s[i] : Collection(s)[<<i>> \o x] = s[i][x]
<1> DEFINE e == Collection(s)
           B == [i \in DOMAIN s |-> {<<i>> \o x : x \in DOMAIN s[i]}]
           C == {B[i] : i \in DOMAIN s}
           D == UNION C
<1>1. e = [r \in D |-> s[Head(r)][Tail(r)]]
  BY DEF Collection
<1>2. DOMAIN e = D /\ \A r \in D : e[r] = s[Head(r)][Tail(r)]
  BY <1>1
<1>3. \A i \in DOMAIN s : \A x \in DOMAIN s[i] : Pos(x)
  BY TreePos
<1>4. \A i, x : Pos(x) => /\ Pos(<<i>> \o x) /\ <<i>> \o x # <<>>
                         /\ Head(<<i>> \o x) = i /\ Tail(<<i>> \o x) = x
  <2> SUFFICES ASSUME NEW i, NEW x, Pos(x)
               PROVE  /\ Pos(<<i>> \o x) /\ <<i>> \o x # <<>>
                      /\ Head(<<i>> \o x) = i /\ Tail(<<i>> \o x) = x
    OBVIOUS
  <2> QED
    BY RootPos, AppendConcat
<1>5. \A r \in D : \E i \in DOMAIN s : \E x \in DOMAIN s[i] : r = <<i>> \o x
  OBVIOUS
<1>6. \A i \in DOMAIN s : \A x \in DOMAIN s[i] : <<i>> \o x \in D
  OBVIOUS
<1>7. IsFiniteSet(D)
  <2>1. \A i \in DOMAIN s : IsFiniteSet(B[i])
    <3> SUFFICES ASSUME NEW i \in DOMAIN s
                 PROVE  IsFiniteSet(B[i])
      OBVIOUS
    <3>1. IsFiniteSet(DOMAIN s[i])
      BY DEF IsTree
    <3>2. IsFiniteSet({<<i>> \o x : x \in DOMAIN s[i]})
      BY <3>1, ShiftFinite
    <3> QED
      BY <3>2
  <2>2. B \in Surjection(DOMAIN s, C)
    BY DEF Surjection
  <2>3. \A S \in C : IsFiniteSet(S)
    BY <2>1
  <2> HIDE DEF B, C
  <2>4. IsFiniteSet(C)
    BY <2>2, FS_Surjection
  <2> QED
    BY <2>3, <2>4, FS_UNION
<1> HIDE DEF e, D
<1>8. IsTree(e)
  <2>1. e = [r \in DOMAIN e |-> e[r]]
    BY <1>1, <1>2
  <2>2. ASSUME NEW r \in D
        PROVE  Pos(r)
    <3>1. PICK i \in DOMAIN s : \E x \in DOMAIN s[i] : r = <<i>> \o x
      BY <1>5
    <3>2. PICK x \in DOMAIN s[i] : r = <<i>> \o x
      BY <3>1
    <3> QED
      BY <1>3, <1>4, <3>2, Zenon
  <2> QED
    BY <1>2, <1>7, <2>1, <2>2 DEF IsTree, Pos
<1>9. <<>> \notin D
  <2> SUFFICES ASSUME <<>> \in D PROVE FALSE
    OBVIOUS
  <2>1. PICK i \in DOMAIN s : \E x \in DOMAIN s[i] : <<>> = <<i>> \o x
    BY <1>5, Zenon
  <2>2. PICK x \in DOMAIN s[i] : <<>> = <<i>> \o x
    BY <2>1
  <2> QED
    BY <1>3, <1>4, <2>2, Zenon
<1>10. ASSUME NEW i, NEW x, Pos(x), <<i>> \o x \in D
       PROVE  i \in DOMAIN s /\ x \in DOMAIN s[i]
  <2>1. PICK j \in DOMAIN s : \E y \in DOMAIN s[j] : <<i>> \o x = <<j>> \o y
    BY <1>5, <1>10
  <2>2. PICK y \in DOMAIN s[j] : <<i>> \o x = <<j>> \o y
    BY <2>1
  <2>3. Pos(y) /\ Head(<<i>> \o x) = Head(<<j>> \o y) /\ Tail(<<i>> \o x) = Tail(<<j>> \o y)
    BY <1>3, <2>2
  <2>4. Head(<<i>> \o x) = i /\ Tail(<<i>> \o x) = x
    BY <1>4, <1>10, Zenon
  <2>5. Head(<<j>> \o y) = j /\ Tail(<<j>> \o y) = y
    BY <1>4, <2>3, Zenon
  <2>6. i = j /\ x = y
    BY <2>3, <2>4, <2>5, Zenon
  <2> QED
    BY <2>6
<1>11. \A i \in DOMAIN s : \A x \in DOMAIN s[i] : e[<<i>> \o x] = s[i][x]
  BY <1>2, <1>3, <1>4, <1>6
<1> QED
  BY <1>2, <1>5, <1>6, <1>8, <1>9, <1>10, <1>11 DEF e
-----------------------------------------------------------------------------
(* Numbers and finite sets.                                                *)

LEMMA LeastNat ==
  ASSUME NEW T \in SUBSET Nat, T # {}
  PROVE  \E m \in T : \A j \in T : m <= j
<1>1. IsWellFoundedOn(OpToRel(<, Nat), Nat)
  BY NatLessThanWellFounded
<1>2. PICK m \in T : \A j \in T : <<j, m>> \notin OpToRel(<, Nat)
  BY <1>1, WFMin
<1>3. \A j \in T : ~(j < m)
  BY <1>2 DEF OpToRel
<1> QED
  BY <1>3

\* Places without a gap are the first so many numbers.
LEMMA WithoutGap ==
  ASSUME NEW S \in SUBSET (Nat \ {0}), IsFiniteSet(S),
         \A i \in S : \A j \in 1 .. i : j \in S
  PROVE  S = 1 .. Cardinality(S)
<1> DEFINE n == Cardinality(S)
           T == {m \in Nat : m # 0 /\ m \notin S}
<1>1. n \in Nat
  BY FS_CardinalityType
<1>2. T # {}
  <2> SUFFICES ASSUME T = {} PROVE FALSE
    OBVIOUS
  <2>1. 1 .. n + 1 \subseteq S
    BY <1>1
  <2>2. Cardinality(1 .. n + 1) <= n
    BY <2>1, FS_Subset
  <2>3. Cardinality(1 .. n + 1) = n + 1
    BY <1>1, FS_Interval
  <2> QED
    BY <1>1, <2>2, <2>3
<1>3. PICK m \in T : \A j \in T : m <= j
  BY <1>2, LeastNat
<1>4. S = 1 .. m - 1
  <2>1. ASSUME NEW i \in S
        PROVE  i \in 1 .. m - 1
    BY <1>3
  <2>2. ASSUME NEW i \in 1 .. m - 1
        PROVE  i \in S
    BY <1>3
  <2> QED
    BY <2>1, <2>2
<1>5. Cardinality(1 .. m - 1) = m - 1
  BY <1>3, FS_Interval
<1> QED
  BY <1>4, <1>5

=============================================================================
