------------------------ MODULE EntryContractProofs ------------------------
(***************************************************************************)
(* The engine gives an entry the meaning the format gives it.              *)
(*                                                                         *)
(* The first sections relate what the engine does to one position after    *)
(* another with what EntryContract's operators say of all of them at once. *)
(* The invariant then says, for every point of an entry, what the draft    *)
(* is: the meaning of the entry for the targets that are done.             *)
(***************************************************************************)
EXTENDS EntryContract, PatchProtoDraft

-----------------------------------------------------------------------------
(* The way to the container.                                               *)

LEMMA PrefixesOf ==
  ASSUME NEW c, Pos(c), NEW p
  PROVE  p \in Prefixes(c) <=> Pos(p) /\ IsPrefix(p, c)
<1>0. Len(c) \in Nat
  BY PosIs
<1>1. ASSUME NEW l \in 0 .. Len(c), p = SubSeq(c, 1, l)
      PROVE  Pos(p) /\ IsPrefix(p, c)
  <2>1. 1 \in 1 .. Len(c) + 1 /\ l \in 1 - 1 .. Len(c)
    BY <1>0
  <2>2. Pos(SubSeq(c, 1, l)) /\ Len(SubSeq(c, 1, l)) = l - 1 + 1
        /\ \A i \in 1 .. l - 1 + 1 : SubSeq(c, 1, l)[i] = c[1 + i - 1]
    BY <2>1, SubPos
  <2> HIDE DEF Pos
  <2>3. Pos(p) /\ Len(p) = l /\ \A i \in 1 .. l : p[i] = c[i]
    BY <1>0, <1>1, <2>2
  <2> QED
    BY <1>0, <2>3, PrefixIs
<1>2. ASSUME Pos(p), IsPrefix(p, c)
      PROVE  p = SubSeq(c, 1, Len(p)) /\ Len(p) \in 0 .. Len(c)
  <2>1. Len(p) \in Nat /\ Len(p) <= Len(c) /\ \A i \in 1 .. Len(p) : p[i] = c[i]
    BY <1>2, PosIs, PrefixIs
  <2>2. 1 \in 1 .. Len(c) + 1 /\ Len(p) \in 1 - 1 .. Len(c)
    BY <1>0, <2>1
  <2> DEFINE l == Len(p)
             x == SubSeq(c, 1, l)
  <2>3. Pos(x) /\ Len(x) = l - 1 + 1 /\ \A i \in 1 .. l - 1 + 1 : x[i] = c[1 + i - 1]
    BY <2>2, SubPos
  <2>4. Len(x) = l /\ \A i \in 1 .. l : x[i] = p[i]
    <3> HIDE DEF x
    <3> QED
      BY <1>0, <2>1, <2>2, <2>3
  <2> HIDE DEF x
  <2>5. x = p
    BY <1>2, <2>1, <2>3, <2>4, PosEqual
  <2> QED
    BY <1>0, <2>1, <2>5 DEF x
<1>3. p \in Prefixes(c) <=> \E l \in 0 .. Len(c) : p = SubSeq(c, 1, l)
  BY DEF Prefixes
<1> QED
  BY <1>1, <1>2, <1>3

\* What is above the place s of c: c's own prefixes, and the place.
LEMMA AbsentBelow ==
  ASSUME NEW d, NEW c, Pos(c), NEW s, NEW p
  PROVE  p \in Absent(d, Append(c, s))
           <=> p \in Absent(d, c) \/ (p = Append(c, s) /\ IsMessageAt(p) /\ p \notin DOMAIN d)
<1>1. Pos(Append(c, s))
  BY AppendPos
<1>2. p \in Prefixes(Append(c, s)) <=> p \in Prefixes(c) \/ p = Append(c, s)
  BY <1>1, PrefixesOf, BelowAppend
<1> QED
  BY <1>2 DEF Absent

LEMMA AbsentIs ==
  ASSUME NEW d, NEW c, Pos(c), NEW p \in Absent(d, c)
  PROVE  Pos(p) /\ IsPrefix(p, c) /\ IsMessageAt(p) /\ p \notin DOMAIN d
BY PrefixesOf DEF Absent

LEMMA WithPathIs ==
  ASSUME NEW d, NEW c
  PROVE  /\ DOMAIN WithPath(d, c) = DOMAIN d \cup Absent(d, c)
         /\ \A q \in DOMAIN d : WithPath(d, c)[q] = d[q]
         /\ \A q \in Absent(d, c) : WithPath(d, c)[q] = Msg
BY DEF WithPath, Absent

LEMMA WithPathTree ==
  ASSUME NEW d, IsTree(d), NEW c, Pos(c)
  PROVE  IsTree(WithPath(d, c))
<1> DEFINE A == Absent(d, c)
           e == WithPath(d, c)
<1>1. IsFiniteSet(A)
  <2> DEFINE f == [l \in 0 .. Len(c) |-> SubSeq(c, 1, l)]
             P == Prefixes(c)
  <2>1. f \in Surjection(0 .. Len(c), P)
    BY DEF Surjection, Prefixes
  <2>2. IsFiniteSet(0 .. Len(c))
    <3>1. Len(c) \in Int /\ 0 \in Int
      BY PosIs
    <3> QED
      BY <3>1, FS_Interval
  <2> HIDE DEF f, P
  <2>3. IsFiniteSet(P)
    BY <2>1, <2>2, FS_Surjection
  <2>4. A \subseteq P
    BY DEF Absent, P
  <2> QED
    BY <2>3, <2>4, FS_Subset
<1>2. DOMAIN e = DOMAIN d \cup A
  BY WithPathIs
<1>3. e = [q \in DOMAIN e |-> e[q]]
  BY DEF WithPath
<1>4. \A q \in A : Pos(q)
  BY AbsentIs
<1> HIDE DEF A, e
<1>5. IsFiniteSet(DOMAIN e)
  <2>1. IsFiniteSet(DOMAIN d)
    BY DEF IsTree
  <2>2. IsFiniteSet(DOMAIN d \cup A)
    BY <1>1, <2>1, FS_Union
  <2> QED
    BY <1>2, <2>2
<1>6. \A q \in DOMAIN e : Pos(q)
  BY <1>2, <1>4, TreePos
<1> QED
  BY <1>3, <1>5, <1>6 DEF IsTree, Pos, e

\* Nothing that is on the way to c is below a place of c.
LEMMA WithPathAside ==
  ASSUME NEW d, NEW c, Pos(c), NEW s
  PROVE  /\ Has(WithPath(d, c), Append(c, s)) <=> Has(d, Append(c, s))
         /\ Append(c, s) \in DOMAIN WithPath(d, c) <=> Append(c, s) \in DOMAIN d
<1>1. Pos(Append(c, s)) /\ ~IsPrefix(Append(c, s), c)
  BY AppendPos, PlaceBelow
<1>2. ASSUME NEW q \in Absent(d, c)
      PROVE  ~IsPrefix(Append(c, s), q)
  <2>1. Pos(q) /\ IsPrefix(q, c)
    BY <1>2, AbsentIs
  <2> QED
    BY <1>1, <2>1, PrefixOrder
<1>3. IsPrefix(Append(c, s), Append(c, s))
  BY <1>1, PrefixOrder
<1>4. DOMAIN WithPath(d, c) = DOMAIN d \cup Absent(d, c)
  BY WithPathIs
<1> QED
  BY <1>2, <1>3, <1>4 DEF Has, Under

LEMMA EraseNone ==
  ASSUME NEW d, IsTree(d), NEW P, \A p \in P : ~Has(d, p)
  PROVE  EraseAll(d, P) = d
<1> DEFINE e == EraseAll(d, P)
<1>1. IsTree(e) /\ DOMAIN e = {q \in DOMAIN d : \A p \in P : ~IsPrefix(p, q)} /\ \A q \in DOMAIN e : e[q] = d[q]
  BY EraseAllIs
<1>2. DOMAIN e = DOMAIN d
  BY <1>1 DEF Has, Under
<1> HIDE DEF e
<1>3. e = d
  BY <1>1, <1>2, TreeEqual
<1> QED
  BY <1>3 DEF e

\* e is d with an empty message at p.
Opened(d, e, p) ==
  /\ DOMAIN e = DOMAIN d \cup {p} /\ e[p] = Msg
  /\ \A q \in DOMAIN d : e[q] = d[q]

\* An empty message where nothing was.
LEMMA GraftEmpty ==
  ASSUME NEW d, IsTree(d), NEW p, Pos(p), ~Has(d, p)
  PROVE  Opened(d, Graft(d, p, EmptyMessage), p)
<1> DEFINE e == Graft(d, p, EmptyMessage)
<1>1. IsTree(EmptyMessage) /\ DOMAIN EmptyMessage = {<<>>} /\ EmptyMessage[<<>>] = Msg
  BY EmptyMessageFits DEF EmptyMessage, Fit, InOrder
<1>2. p \o <<>> = p /\ Pos(<<>>)
  BY ConcatRoot, RootPos
<1>3. /\ \A r : Pos(r) => (p \o r \in DOMAIN e <=> r \in DOMAIN EmptyMessage)
      /\ \A r \in DOMAIN EmptyMessage : e[p \o r] = EmptyMessage[r]
      /\ \A q : ~IsPrefix(p, q) => (q \in DOMAIN e <=> q \in DOMAIN d)
      /\ \A q \in DOMAIN e : ~IsPrefix(p, q) => e[q] = d[q]
      /\ IsTree(e)
  <2>1. IsTree(EmptyMessage)
    BY <1>1
  <2> QED
    BY <2>1, GraftIs
<1> HIDE DEF e
<1>4. p \in DOMAIN e /\ e[p] = Msg
  BY <1>1, <1>2, <1>3
<1>5. ASSUME NEW q \in DOMAIN e, IsPrefix(p, q)
      PROVE  q = p
  <2>1. Pos(q)
    BY <1>3, TreePos
  <2>2. p \o Rest(p, q) = q /\ Pos(Rest(p, q))
    BY <1>5, <2>1, RestIs
  <2>3. Rest(p, q) = <<>>
    BY <1>1, <1>3, <2>2
  <2> QED
    BY <1>2, <2>2, <2>3
<1>6. \A q \in DOMAIN d : ~IsPrefix(p, q)
  BY DEF Has, Under
<1> QED
  BY <1>3, <1>4, <1>5, <1>6 DEF e, Opened

\* The first segment of a path that makes a message of a oneof where another
\* member was set is what PathClears is about.
LEMMA PathStaysClear ==
  ASSUME NEW d, NEW c, Pos(c), NEW s, ~PathClears(d, Append(c, s))
  PROVE  /\ ~PathClears(d, c)
         /\ s \in Field /\ IsMessageAt(Append(c, s)) /\ Append(c, s) \notin DOMAIN d =>
              \A g \in Siblings(s) : ~Has(d, Append(c, g))
<1>1. \A p \in Absent(d, c) : p \in Absent(d, Append(c, s))
  BY AbsentBelow
<1>2. ~PathClears(d, c)
  BY <1>1 DEF PathClears
<1>3. ASSUME s \in Field, IsMessageAt(Append(c, s)), Append(c, s) \notin DOMAIN d
      PROVE  \A g \in Siblings(s) : ~Has(d, Append(c, g))
  <2> DEFINE p == Append(c, s)
  <2>1. p \in Absent(d, p)
    BY <1>3, AbsentBelow
  <2>2. Last(p) = s /\ Front(p) = c
    BY AppendIs
  <2> HIDE DEF p
  <2>3. p \in {x \in Absent(d, p) : Last(x) \in Field}
    BY <1>3, <2>1, <2>2
  <2>4. ~\E g \in Siblings(Last(p)) : Has(d, Append(Front(p), g))
    BY <2>3 DEF PathClears, p
  <2> QED
    BY <2>2, <2>4
<1> QED
  BY <1>2, <1>3

LEMMA WithPathThere ==
  ASSUME NEW d, IsTree(d), NEW c, Pos(c), NEW s,
         IsMessageAt(Append(c, s)) => Append(c, s) \in DOMAIN d
  PROVE  WithPath(d, Append(c, s)) = WithPath(d, c)
<1>1. \A p : p \in Absent(d, Append(c, s)) <=> p \in Absent(d, c)
  <2> TAKE p
  <2>1. p \in Absent(d, Append(c, s))
          <=> p \in Absent(d, c) \/ (p = Append(c, s) /\ IsMessageAt(p) /\ p \notin DOMAIN d)
    BY AbsentBelow, Zenon
  <2> QED
    BY <2>1
<1>2. Absent(d, Append(c, s)) = Absent(d, c)
  BY <1>1 DEF Absent
<1> QED
  BY <1>2 DEF WithPath

LEMMA WithPathMade ==
  ASSUME NEW d, IsTree(d), NEW c, Pos(c), NEW s,
         IsMessageAt(Append(c, s)), ~Has(d, Append(c, s)), Append(c, s) \notin DOMAIN d
  PROVE  WithPath(d, Append(c, s)) = Graft(WithPath(d, c), Append(c, s), EmptyMessage)
<1> DEFINE p == Append(c, s)
           e == WithPath(d, c)
           f == WithPath(d, p)
           g == Graft(e, p, EmptyMessage)
<1>1. Pos(p)
  BY AppendPos
<1>2. IsTree(e) /\ IsTree(f)
  BY <1>1, WithPathTree
<1>3. ~Has(e, p)
  BY WithPathAside
<1>4. DOMAIN e = DOMAIN d \cup Absent(d, c)
      /\ (\A q \in DOMAIN d : e[q] = d[q]) /\ (\A q \in Absent(d, c) : e[q] = Msg)
  BY WithPathIs
<1>5. DOMAIN f = DOMAIN d \cup Absent(d, p)
      /\ (\A q \in DOMAIN d : f[q] = d[q]) /\ (\A q \in Absent(d, p) : f[q] = Msg)
  BY WithPathIs
<1>6. \A q : q \in Absent(d, p) <=> q \in Absent(d, c) \/ q = p
  <2> TAKE q
  <2>1. q \in Absent(d, p) <=> q \in Absent(d, c) \/ (q = p /\ IsMessageAt(q) /\ q \notin DOMAIN d)
    BY AbsentBelow, Zenon
  <2> QED
    BY <2>1
<1>8. IsTree(EmptyMessage)
  BY EmptyMessageFits DEF Fit, InOrder
<1>9. IsTree(g)
  BY <1>1, <1>2, <1>8, GraftIs
<1>10. DOMAIN g = DOMAIN e \cup {p} /\ g[p] = Msg /\ \A q \in DOMAIN e : g[q] = e[q]
  <2>1. IsTree(e)
    BY <1>2
  <2> HIDE DEF e, p
  <2>2. Opened(e, Graft(e, p, EmptyMessage), p)
    BY <1>1, <1>3, <2>1, GraftEmpty
  <2> QED
    BY <2>2 DEF Opened
<1> HIDE DEF p, e, f, g
<1>11. DOMAIN f = DOMAIN g
  BY <1>4, <1>5, <1>6, <1>10
<1>12. ASSUME NEW q \in DOMAIN f
       PROVE  f[q] = g[q]
  BY <1>4, <1>5, <1>6, <1>10, <1>12
<1> QED
  BY <1>2, <1>9, <1>11, <1>12, TreeEqual DEF p, e, f, g

\* One segment of the path: the message it makes, if it makes one, is all that it
\* adds.
LEMMA PathStep ==
  ASSUME NEW b, Formed(b), NEW c, Pos(c), NEW d, d = WithPath(b, c), Formed(d), Lives(d, c),
         NEW k, IsKey(k), NEW create, DescendFault(d, c, k, create) = "ok",
         ~PathClears(b, Append(c, Slot(d, c, k)))
  PROVE  Entered(d, c, Slot(d, c, k)) = WithPath(b, Append(c, Slot(d, c, k)))
<1> DEFINE s == Slot(d, c, k)
           p == Append(c, s)
<1>1. /\ k.arm = KeyArm(c) /\ KeyFault(k) = "ok" /\ s # NoSlot /\ IsContainer(c, s)
      /\ Exists(d, c, s) \/ (create /\ ~IsListAt(c))
  BY DescendIs
<1>2. Names(c, s) /\ (IsListAt(c) => Has(d, p))
  BY <1>1, SlotIs
<1>3. IsTree(b) /\ IsTree(d) /\ Held(b) /\ Held(d) /\ Pos(p)
  BY InOrderHeld, AppendPos DEF Formed, InOrder
<1>4. (Has(d, p) <=> Has(b, p)) /\ (p \in DOMAIN d <=> p \in DOMAIN b)
  BY WithPathAside
<1>5. IsMessageAt(p) => (Has(b, p) <=> p \in DOMAIN b)
  BY <1>3, HasIs
<1>6. IsMessageAt(p) <=> (s \in Field => Card[s] = "singular")
  BY KindOfPlace
<1>7. s \in Field /\ IsMessageAt(p) /\ p \notin DOMAIN b => \A g \in Siblings(s) : ~Has(b, Append(c, g))
  BY PathStaysClear
<1>8. \A g : Has(d, Append(c, g)) <=> Has(b, Append(c, g))
  BY WithPathAside
<1> HIDE DEF s
<1>9. CASE IsMessageAt(p) /\ p \notin DOMAIN b
  <2>1. ~Has(d, p) /\ ~Has(b, p)
    BY <1>4, <1>5, <1>9
  <2>2. WithPath(b, p) = Graft(d, p, EmptyMessage)
    BY <1>3, <1>9, <2>1, WithPathMade
  <2>3. CASE IsMessageAt(c)
    <3>1. s \in Field /\ Card[s] = "singular"
      BY <1>2, <1>6, <1>9, <2>3 DEF Names
    <3> DEFINE P == {Append(c, g) : g \in Siblings(s)}
    <3>2. \A q \in P : ~Has(d, q)
      BY <1>7, <1>8, <1>9, <3>1
    <3> HIDE DEF P
    <3>3. EraseAll(d, P) = d
      BY <1>3, <3>2, EraseNone
    <3>4. EmptyMessage # ScalarFragment(Default)
      <4>1. EmptyMessage[<<>>] = Msg /\ ScalarFragment(Default)[<<>>] = Default
        BY DEF EmptyMessage, ScalarFragment
      <4> QED
        BY <4>1, SchemaAssumption
    <3>5. SetField(d, c, s, EmptyMessage) = Graft(d, p, EmptyMessage)
      BY <3>3, <3>4 DEF SetField, P, p
    <3>6. Entered(d, c, s) = SetField(d, c, s, EmptyMessage)
      BY <2>1, <2>3, <3>1, KindsOfContainer DEF Entered, Mutable, p
    <3> QED
      BY <2>2, <3>5, <3>6 DEF p, s
  <2>4. CASE IsMapAt(c)
    <3>1. ~IsMessageAt(c)
      BY <2>4, KindsOfContainer
    <3>2. Entered(d, c, s) = Graft(d, p, EmptyMessage)
      BY <2>1, <2>4, <3>1 DEF Entered, p
    <3> QED
      BY <2>2, <3>2 DEF p, s
  <2> QED
    BY <1>2, <2>1, <2>3, <2>4, KindsOfContainer
<1>10. CASE IsMessageAt(p) => p \in DOMAIN b
  <2>1. WithPath(b, p) = d
    BY <1>3, <1>10, WithPathThere
  <2>2. IsMessageAt(p) => Has(d, p)
    BY <1>4, <1>5, <1>10
  <2>3. Entered(d, c, s) = d
    <3>1. CASE IsMessageAt(c)
      <4>1. s \in Field
        BY <1>2, <3>1 DEF Names
      <4> QED
        BY <1>6, <2>2, <3>1, <4>1, KindsOfContainer DEF Entered, Mutable, p
    <3>2. CASE ~IsMessageAt(c)
      <4>1. IsMessageAt(p)
        BY <1>2, <3>2, NamesIs DEF p
      <4> QED
        BY <2>2, <3>2, <4>1 DEF Entered, p
    <3> QED
      BY <3>1, <3>2
  <2> QED
    BY <2>1, <2>3 DEF p, s
<1> QED
  BY <1>9, <1>10

-----------------------------------------------------------------------------
(* The targets of an entry.                                                *)

\* A list is appended to once: what is written at AppendSlot twice would be there
\* twice.
AppendsOnce(locs) ==
  \A i, j \in DOMAIN locs : locs[i] = AppendSlot /\ locs[j] = AppendSlot => i = j

LEMMA JoinIs ==
  ASSUME NEW x, x \in Seq(Range(x)), NEW y, y \in Seq(Range(y))
  PROVE  /\ Range(x \o y) = Range(x) \cup Range(y)
         /\ AppendsOnce(x) /\ AppendsOnce(y) /\ ~(AppendSlot \in Range(x) /\ AppendSlot \in Range(y))
              => AppendsOnce(x \o y)
<1> DEFINE z == x \o y
           m == Len(x)
           n == Len(y)
<1>1. m \in Nat /\ n \in Nat /\ DOMAIN x = 1 .. m /\ DOMAIN y = 1 .. n
  BY PosIs DEF Pos
<1>2. Pos(x) /\ Pos(y)
  BY DEF Pos
<1>3. /\ Len(z) = m + n /\ Pos(z)
      /\ \A i \in 1 .. m : z[i] = x[i]
      /\ \A i \in 1 .. n : z[m + i] = y[i]
  BY <1>2, ConcatPos
<1>4. DOMAIN z = 1 .. m + n
  BY <1>3, PosIs
<1> HIDE DEF z, m, n
<1>5. ASSUME NEW i \in 1 .. m + n
      PROVE  \/ i \in 1 .. m /\ z[i] = x[i]
             \/ i > m /\ i - m \in 1 .. n /\ z[i] = y[i - m]
  <2>1. CASE i <= m
    BY <1>1, <1>3, <2>1
  <2>2. CASE i > m
    <3>1. i - m \in 1 .. n /\ m + (i - m) = i
      BY <1>1, <2>2
    <3>2. z[m + (i - m)] = y[i - m]
      BY <1>3, <3>1
    <3> QED
      BY <2>2, <3>1, <3>2
  <2> QED
    BY <1>1, <2>1, <2>2
<1>6. Range(z) = Range(x) \cup Range(y)
  <2>1. ASSUME NEW i \in 1 .. m
        PROVE  x[i] \in Range(z)
    <3>1. i \in 1 .. m + n /\ z[i] = x[i]
      BY <1>1, <1>3
    <3> QED
      BY <1>4, <3>1 DEF Range
  <2>2. ASSUME NEW i \in 1 .. n
        PROVE  y[i] \in Range(z)
    <3>1. m + i \in 1 .. m + n /\ z[m + i] = y[i]
      BY <1>1, <1>3
    <3> QED
      BY <1>4, <3>1 DEF Range
  <2>3. ASSUME NEW i \in 1 .. m + n
        PROVE  z[i] \in Range(x) \cup Range(y)
    BY <1>1, <1>5 DEF Range
  <2>4. \A w : w \in Range(z) <=> w \in Range(x) \/ w \in Range(y)
    BY <1>1, <1>4, <2>1, <2>2, <2>3 DEF Range
  <2> QED
    BY <2>4 DEF Range
<1>7. ASSUME AppendsOnce(x), AppendsOnce(y), ~(AppendSlot \in Range(x) /\ AppendSlot \in Range(y)),
             NEW i \in 1 .. m + n, NEW j \in 1 .. m + n, z[i] = AppendSlot, z[j] = AppendSlot
      PROVE  i = j
  <2>1. CASE i \in 1 .. m /\ j \in 1 .. m /\ x[i] = AppendSlot /\ x[j] = AppendSlot
    BY <1>1, <1>7, <2>1 DEF AppendsOnce
  <2>2. CASE i - m \in 1 .. n /\ j - m \in 1 .. n /\ y[i - m] = AppendSlot /\ y[j - m] = AppendSlot
    <3>1. i - m = j - m
      BY <1>1, <1>7, <2>2 DEF AppendsOnce
    <3> QED
      BY <1>1, <3>1
  <2>3. ASSUME NEW u \in 1 .. m, x[u] = AppendSlot, NEW w \in 1 .. n, y[w] = AppendSlot
        PROVE  FALSE
    BY <1>1, <1>7, <2>3 DEF Range
  <2>4. \/ i \in 1 .. m /\ x[i] = AppendSlot
        \/ i - m \in 1 .. n /\ y[i - m] = AppendSlot
    BY <1>5, <1>7
  <2>5. \/ j \in 1 .. m /\ x[j] = AppendSlot
        \/ j - m \in 1 .. n /\ y[j - m] = AppendSlot
    BY <1>5, <1>7
  <2> QED
    BY <2>1, <2>2, <2>3, <2>4, <2>5
<1> QED
  BY <1>4, <1>6, <1>7 DEF AppendsOnce, z

LEMMA AppendsOnceTail ==
  ASSUME NEW locs, locs \in Seq(Range(locs)), locs # <<>>, AppendsOnce(locs)
  PROVE  /\ AppendsOnce(Tail(locs))
         /\ Head(locs) = AppendSlot => AppendSlot \notin Range(Tail(locs))
         /\ Range(locs) = {Head(locs)} \cup Range(Tail(locs))
<1> DEFINE n == Len(locs)
           t == Tail(locs)
<1>1. /\ Head(locs) = locs[1] /\ n \in Nat \ {0}
      /\ DOMAIN locs = 1 .. n /\ DOMAIN t = 1 .. n - 1
      /\ \A i \in 1 .. n - 1 : t[i] = locs[i + 1]
  BY TailIs
<1> HIDE DEF n, t
<1>2. ASSUME NEW i \in 1 .. n - 1
      PROVE  i + 1 \in 1 .. n /\ i + 1 # 1
  BY <1>1
<1>3. ASSUME NEW i \in 1 .. n, i # 1
      PROVE  i - 1 \in 1 .. n - 1 /\ t[i - 1] = locs[i]
  <2>1. i - 1 \in 1 .. n - 1 /\ (i - 1) + 1 = i
    BY <1>1, <1>3
  <2> QED
    BY <1>1, <2>1
<1>4. ASSUME NEW i \in 1 .. n - 1, NEW j \in 1 .. n - 1, t[i] = AppendSlot, t[j] = AppendSlot
      PROVE  i = j
  <2>1. i + 1 = j + 1
    BY <1>1, <1>2, <1>4 DEF AppendsOnce
  <2> QED
    BY <1>1, <2>1
<1>5. ASSUME locs[1] = AppendSlot, NEW i \in 1 .. n - 1, t[i] = AppendSlot
      PROVE  FALSE
  <2>1. i + 1 = 1
    BY <1>1, <1>2, <1>5 DEF AppendsOnce
  <2> QED
    BY <1>1, <2>1
<1>6. 1 \in 1 .. n
  BY <1>1
<1>7. \A w : w \in Range(locs) <=> w = Head(locs) \/ w \in Range(t)
  <2> TAKE w
  <2>1. ASSUME NEW i \in 1 .. n, w = locs[i]
        PROVE  w = Head(locs) \/ w \in Range(t)
    BY <1>1, <1>3, <2>1 DEF Range
  <2>2. ASSUME w \in Range(t)
        PROVE  w \in Range(locs)
    <3>1. PICK i \in 1 .. n - 1 : w = t[i]
      BY <1>1, <2>2 DEF Range
    <3> QED
      BY <1>1, <1>2, <3>1 DEF Range
  <2> QED
    BY <1>1, <1>6, <2>1, <2>2 DEF Range
<1> QED
  BY <1>1, <1>4, <1>5, <1>7 DEF AppendsOnce, Range, t

LEMMA FlattenOne ==
  ASSUME NEW x
  PROVE  FlattenSeq(<<x>>) = x
<1> DEFINE ss == <<x>>
<1>1. Len(ss) = 1 /\ ss[1] = x
  OBVIOUS
<1> HIDE DEF ss
<1>2. PICK f : Gathers(f, ss)
  BY <1>1, FlattenSteps
<1>3. f[1] = ss[1] /\ FlattenSeq(ss) = f[1]
  BY <1>1, <1>2 DEF Gathers
<1>4. FlattenSeq(ss) = x
  BY <1>1, <1>3
<1> QED
  BY <1>4 DEF ss

\* Only append appends, and it does once.
LEMMA KeptAppends ==
  ASSUME NEW d, Formed(d), NEW c, Pos(c), NEW sel, IsSelector(sel), SelectorFault(c, sel) = "ok",
         NEW kind, kind # "test", sel.arm = "append" => kind \in GrowsList
  PROVE  AppendsOnce(Kept(d, c, sel, kind))
<1> DEFINE all == Named(d, c, sel, kind)
           T == Range(all) \ {AppendSlot}
           parts == [j \in DOMAIN all |-> IF Missing(d, c, all[j], kind) THEN <<>> ELSE <<all[j]>>]
           some == Kept(d, c, sel, kind)
<1>0. IsTree(d) /\ Held(d)
  BY InOrderHeld DEF Formed, InOrder
<1>1. all \in Seq(Range(all))
  BY NamedIs
<1>2. some = FlattenSeq(parts)
  BY DEF Kept
<1>3. CASE sel.arm = "append"
  <2>1. all = <<AppendSlot>>
    BY <1>3 DEF Named
  <2>2. DOMAIN all = {1} /\ all[1] = AppendSlot
    BY <2>1
  <2> DEFINE x == IF Missing(d, c, AppendSlot, kind) THEN <<>> ELSE <<AppendSlot>>
  <2> HIDE DEF all
  <2>3. parts = <<x>>
    BY <2>2
  <2> HIDE DEF x, parts, some
  <2>4. some = x
    BY <1>2, <2>3, FlattenOne
  <2>5. \A i, j \in DOMAIN x : i = j
    BY DEF x
  <2>6. AppendsOnce(some)
    BY <2>4, <2>5 DEF AppendsOnce
  <2> QED
    BY <2>6 DEF some
<1>4. CASE sel.arm # "append"
  <2>1. \A j \in DOMAIN all : ~Missing(d, c, all[j], kind) => all[j] # AppendSlot
    <3>1. CASE sel.arm = "key"
      <4> DEFINE s == Slot(d, c, sel.key)
      <4>1. all = <<s>> /\ sel.key.arm = KeyArm(c) /\ KeyFault(sel.key) = "ok" /\ IsKey(sel.key)
        BY <3>1 DEF Named, SelectorFault, IsSelector
      <4>2. s # NoSlot => s # AppendSlot
        BY <4>1, SlotIs
      <4> HIDE DEF s
      <4>3. DOMAIN <<s>> = {1} /\ <<s>>[1] = s
        OBVIOUS
      <4> QED
        BY <4>1, <4>2, <4>3, SlotAssumption
    <3>2. CASE sel.arm = "range"
      <4> DEFINE r == NormalizeRange(sel, Length(d, c))
                 n == r.end - r.begin
      <4>1. IsListAt(c)
        BY <3>2 DEF SelectorFault
      <4>2. all = [j \in 1 .. n |-> r.begin + j]
        BY <3>2 DEF Named
      <4>3. Length(d, c) \in Nat
        BY <4>1, ListPlaces
      <4>4. (sel.begin = <<>> \/ sel.begin[1] \in Int) /\ (sel.end = <<>> \/ sel.end[1] \in Int)
        BY <3>2 DEF IsSelector
      <4>5. r.begin \in 0 .. Length(d, c) /\ r.end \in r.begin .. Length(d, c)
        BY <4>3, <4>4, RangeResolves
      <4> HIDE DEF r
      <4>6. n \in Nat /\ r.begin \in Int
        BY <4>3, <4>5
      <4> HIDE DEF n
      <4>7. \A j \in 1 .. n : r.begin + j \in Int
        BY <4>6
      <4> QED
        BY <4>2, <4>7, SlotAssumption
    <3>3. CASE sel.arm = "every_entry"
      <4>1. IsMapAt(c) /\ ~IsMessageAt(c) /\ ~IsListAt(c)
        BY <3>3, KindsOfContainer DEF SelectorFault
      <4>2. all = SetToSeq(Places(d, c))
        BY <3>3 DEF Named
      <4>3. all \in Seq(Places(d, c))
        BY <1>0, <4>2, PlacesFinite, SetToSeqIs
      <4>4. \A s \in Places(d, c) : s # AppendSlot
        <5> TAKE s \in Places(d, c)
        <5>1. Has(d, Append(c, s))
          BY <1>0, PlaceIs
        <5>2. Names(c, s)
          BY <4>1, <5>1, ElementOf
        <5> QED
          BY <4>1, <5>2, SlotAssumption DEF Names
      <4> HIDE DEF all
      <4> QED
        BY <4>3, <4>4
    <3>4. CASE sel.arm = "oneof_member"
      <4> DEFINE S == {f \in Field : OneofOf[f] = sel.name /\ Has(d, Append(c, f))}
      <4>1. all = <<NoSlot>> \/ all = SetToSeq(S) \/ all = <<>>
        BY <3>4 DEF Named, MemberOf
      <4>2. IsFiniteSet(S)
        <5>1. S \subseteq Places(d, c)
          BY <1>0, PlaceIs
        <5> QED
          BY <1>0, <5>1, PlacesFinite, FS_Subset
      <4>3. SetToSeq(S) \in Seq(S)
        BY <4>2, SetToSeqIs
      <4>4. all \in Seq({NoSlot} \cup Field)
        <5>1. SetToSeq(S) \in Seq({NoSlot} \cup Field)
          BY <4>3
        <5>2. <<NoSlot>> \in Seq({NoSlot} \cup Field) /\ <<>> \in Seq({NoSlot} \cup Field)
          OBVIOUS
        <5> HIDE DEF S, all
        <5> QED
          BY <4>1, <5>1, <5>2, Zenon
      <4>5. \A s \in {NoSlot} \cup Field : s # AppendSlot
        BY SlotAssumption
      <4> HIDE DEF all
      <4> QED
        BY <4>4, <4>5
    <3> QED
      BY <1>4, <3>1, <3>2, <3>3, <3>4 DEF IsSelector
  <2> HIDE DEF all, some
  <2>2. Len(all) \in Nat /\ DOMAIN all = 1 .. Len(all)
    BY <1>1
  <2>3. \A j \in DOMAIN all : ~Missing(d, c, all[j], kind) => all[j] \in T
    BY <2>1 DEF Range
  <2> HIDE DEF T
  <2>4. \A j \in DOMAIN all : (IF Missing(d, c, all[j], kind) THEN <<>> ELSE <<all[j]>>) \in Seq(T)
    BY <2>3
  <2>5. parts \in Seq(Seq(T))
    BY <2>2, <2>4
  <2> HIDE DEF parts
  <2>6. some \in Seq(T)
    BY <1>2, <2>5, FlattenIs
  <2>7. \A j \in DOMAIN some : some[j] \in T
    BY <2>6
  <2> QED
    BY <2>7 DEF AppendsOnce, T, some
<1> QED
  BY <1>3, <1>4

\* Putting the places in order takes none away.
LEMMA DescendingAll ==
  ASSUME NEW S \in SUBSET Nat, IsFiniteSet(S)
  PROVE  Range(Descending(S)) = S
<1> DEFINE f == Descending(S)
           n == Cardinality(S)
           D == 1 .. n
           R == Range(f)
<1>1. /\ f \in Seq(S) /\ Len(f) = n
      /\ \A i, j \in DOMAIN f : i < j => f[i] > f[j]
  BY DescendingIs
<1>2. n \in Nat
  BY FS_CardinalityType
<1> HIDE DEF f, n
<1>3. DOMAIN f = D /\ \A i \in D : f[i] \in S
  BY <1>1, <1>2
<1>4. R \subseteq S /\ f \in [D -> R]
  BY <1>1, <1>3 DEF Range
<1>5. ASSUME NEW i \in D, NEW j \in D, f[i] = f[j]
      PROVE  i = j
  <2>1. i \in Nat /\ j \in Nat
    BY <1>2
  <2>2. f[i] \in Nat
    BY <1>3
  <2>3. ~(f[i] > f[j]) /\ ~(f[j] > f[i])
    BY <1>5, <2>2
  <2>4. ~(i < j) /\ ~(j < i)
    BY <1>1, <1>3, <2>3
  <2> QED
    BY <2>1, <2>4
<1>6. f \in Bijection(D, R)
  BY <1>3, <1>4, <1>5 DEF Bijection, Injection, Surjection, IsInjective, Range
<1>7. IsFiniteSet(D) /\ Cardinality(D) = n
  BY <1>2, FS_Interval
<1>8. Cardinality(R) = n
  <2> HIDE DEF D, R
  <2>1. ExistsBijection(D, R)
    BY <1>6 DEF ExistsBijection
  <2> QED
    BY <1>7, <2>1, FS_Bijection
<1>9. R = S
  BY <1>4, <1>8, FS_Subset DEF n
<1> QED
  BY <1>9 DEF f

-----------------------------------------------------------------------------
(* The elements of a list.                                                 *)

LEMMA Counted ==
  ASSUME NEW n \in Nat
  PROVE  IsFiniteSet(1 .. n) /\ Cardinality(1 .. n) = n
BY FS_Interval

\* The n values u are such as a list at c may hold.
Elemental(c, n, u) ==
  n \in Nat /\ \E T : (\A x \in T : Fit(x, Type[Last(c)])) /\ u \in [1 .. n -> T]

LEMMA ElementalIs ==
  ASSUME NEW c, NEW n, NEW u, Elemental(c, n, u)
  PROVE  /\ n \in Nat /\ DOMAIN u = 1 .. n /\ IsFiniteSet(DOMAIN u)
         /\ \A i \in DOMAIN u : IsTree(u[i])
<1>1. PICK T : (\A x \in T : Fit(x, Type[Last(c)])) /\ u \in [1 .. n -> T]
  BY DEF Elemental
<1>2. n \in Nat /\ DOMAIN u = 1 .. n
  BY <1>1 DEF Elemental
<1>3. \A i \in DOMAIN u : IsTree(u[i])
  BY <1>1 DEF Fit, InOrder
<1> QED
  BY <1>2, <1>3, Counted

\* A list that was written as a sequence of values reads as that sequence.
LEMMA PutReads ==
  ASSUME NEW d, Formed(d), NEW c, Pos(c), Lives(d, c), IsListAt(c),
         NEW n, NEW u, Elemental(c, n, u)
  PROVE  LET e == PutElements(d, c, u) IN
         /\ Touches(d, e, c)
         /\ Places(e, c) = 1 .. n /\ Length(e, c) = n
         /\ \A i \in 1 .. n : ValueAt(e, Append(c, i)) = u[i]
<1> DEFINE e == PutElements(d, c, u)
           v == Collection(u)
<1>0. ~IsMessageAt(c) /\ IsTree(d)
  BY KindsOfContainer DEF Formed, InOrder
<1>1. n \in Nat /\ DOMAIN u = 1 .. n
  BY ElementalIs
<1>2. Touches(d, e, c) /\ \A i \in 1 .. n : Has(e, Append(c, i))
  <2>1. PICK T : (\A x \in T : Fit(x, Type[Last(c)])) /\ u \in [1 .. n -> T]
    BY DEF Elemental
  <2>2. u \in Seq(T) /\ Len(u) = n
    BY <1>1, <2>1
  <2> QED
    BY <2>1, <2>2, RebuiltKeeps
<1>3. Formed(e) /\ IsTree(e) /\ Held(e)
  BY <1>2, InOrderHeld DEF Touches, Formed, InOrder
<1>4. IsFiniteSet(DOMAIN u) /\ \A i \in DOMAIN u : IsTree(u[i])
  BY ElementalIs
<1>5. /\ IsTree(v)
      /\ \A i, x : Pos(x) => (<<i>> \o x \in DOMAIN v <=> i \in DOMAIN u /\ x \in DOMAIN u[i])
      /\ \A i \in DOMAIN u : \A x \in DOMAIN u[i] : v[<<i>> \o x] = u[i][x]
  BY <1>4, CollectionIs
<1> HIDE DEF v
<1>6. /\ \A r : Pos(r) => (c \o r \in DOMAIN e <=> r \in DOMAIN v)
      /\ \A r \in DOMAIN v : e[c \o r] = v[r]
  BY <1>0, <1>5, GraftIs DEF PutElements, v
<1> HIDE DEF e
<1>7. ASSUME NEW i, NEW x, Pos(x)
      PROVE  /\ Append(c, i) \o x \in DOMAIN e <=> i \in 1 .. n /\ x \in DOMAIN u[i]
             /\ i \in 1 .. n /\ x \in DOMAIN u[i] => e[Append(c, i) \o x] = u[i][x]
  <2> DEFINE r == <<i>> \o x
  <2>1. Pos(r)
    BY <1>7, AppendConcat
  <2>2. c \o r = Append(c, i) \o x
    <3>1. r = <<i>> \o x
      OBVIOUS
    <3> HIDE DEF r
    <3> QED
      BY <1>7, <3>1, AppendShift
  <2>3. r \in DOMAIN v <=> i \in 1 .. n /\ x \in DOMAIN u[i]
    BY <1>1, <1>5, <1>7
  <2>4. r \in DOMAIN v => v[r] = u[i][x]
    BY <1>1, <1>5, <2>3
  <2> HIDE DEF r
  <2>5. c \o r \in DOMAIN e <=> r \in DOMAIN v
    BY <1>6, <2>1
  <2>6. r \in DOMAIN v => e[c \o r] = v[r]
    BY <1>6
  <2> QED
    BY <2>2, <2>3, <2>4, <2>5, <2>6
<1>8. Places(e, c) = 1 .. n
  <2>1. ASSUME NEW i
        PROVE  i \in Places(e, c) <=> i \in 1 .. n
    <3>1. i \in Places(e, c) <=> Has(e, Append(c, i))
      BY <1>3, PlaceIs
    <3>2. ASSUME Has(e, Append(c, i))
          PROVE  i \in 1 .. n
      <4>1. PICK q \in DOMAIN e : IsPrefix(Append(c, i), q)
        BY <3>2 DEF Has, Under
      <4>2. Pos(q) /\ Pos(Append(c, i))
        BY <1>3, TreePos, AppendPos
      <4>3. Pos(Rest(Append(c, i), q)) /\ Append(c, i) \o Rest(Append(c, i), q) = q
        BY <4>1, <4>2, RestIs
      <4> QED
        BY <1>7, <4>1, <4>3
    <3> QED
      BY <1>2, <3>1, <3>2
  <2> QED
    BY <2>1
<1>9. Length(e, c) = n
  <2>1. Length(e, c) = Cardinality(1 .. n)
    BY <1>8 DEF Length
  <2>3. Cardinality(1 .. n) = n
    BY <1>1, Counted
  <2> HIDE DEF e
  <2> QED
    BY <2>1, <2>3
<1>10. ASSUME NEW i \in 1 .. n
       PROVE  ValueAt(e, Append(c, i)) = u[i]
  <2> DEFINE w == ValueAt(e, Append(c, i))
  <2>1. Pos(Append(c, i))
    BY AppendPos
  <2>2. /\ IsTree(w)
        /\ \A r : Pos(r) => (r \in DOMAIN w <=> Append(c, i) \o r \in DOMAIN e)
        /\ \A r \in DOMAIN w : w[r] = e[Append(c, i) \o r]
    BY <1>3, <2>1, ValueAtIs
  <2>3. IsTree(u[i])
    BY <1>1, <1>4
  <2> HIDE DEF w
  <2>4. \A r : r \in DOMAIN w \/ r \in DOMAIN u[i] => Pos(r)
    BY <2>2, <2>3, TreePos
  <2>5. \A r : r \in DOMAIN w <=> r \in DOMAIN u[i]
    BY <1>7, <2>2, <2>4
  <2>6. \A r \in DOMAIN w : w[r] = u[i][r]
    BY <1>7, <2>2, <2>4, <2>5
  <2>7. w = u[i]
    BY <2>2, <2>3, <2>5, <2>6, TreeEqual
  <2> QED
    BY <2>7 DEF w
<1> QED
  BY <1>2, <1>8, <1>9, <1>10 DEF e

\* Written twice, a list is what was written last.
LEMMA PutOver ==
  ASSUME NEW d, Formed(d), NEW c, Pos(c), Lives(d, c), IsListAt(c),
         NEW n, NEW u, Elemental(c, n, u), NEW m, NEW w, Elemental(c, m, w)
  PROVE  PutElements(PutElements(d, c, u), c, w) = PutElements(d, c, w)
<1> DEFINE e == PutElements(d, c, u)
           x == Collection(u)
           y == Collection(w)
<1>1. IsTree(d)
  BY DEF Formed, InOrder
<1>2. IsTree(x) /\ IsTree(y)
  <2>1. IsTree(x)
    BY ElementalIs, CollectionIs
  <2>2. IsTree(y)
    BY ElementalIs, CollectionIs
  <2> QED
    BY <2>1, <2>2
<1>3. e = Graft(d, c, x) /\ PutElements(e, c, w) = Graft(e, c, y) /\ PutElements(d, c, w) = Graft(d, c, y)
  BY DEF PutElements
<1> HIDE DEF x, y, e
<1>4. Graft(Graft(d, c, x), c, y) = Graft(d, c, y)
  <2> DEFINE f == Graft(d, c, x)
             g == Graft(f, c, y)
             h == Graft(d, c, y)
  <2>1. /\ IsTree(f)
        /\ \A q : ~IsPrefix(c, q) => (q \in DOMAIN f <=> q \in DOMAIN d)
        /\ \A q \in DOMAIN f : ~IsPrefix(c, q) => f[q] = d[q]
    BY <1>1, <1>2, GraftIs
  <2>2. /\ IsTree(h)
        /\ \A r : Pos(r) => (c \o r \in DOMAIN h <=> r \in DOMAIN y)
        /\ \A r \in DOMAIN y : h[c \o r] = y[r]
        /\ \A q : ~IsPrefix(c, q) => (q \in DOMAIN h <=> q \in DOMAIN d)
        /\ \A q \in DOMAIN h : ~IsPrefix(c, q) => h[q] = d[q]
    BY <1>1, <1>2, GraftIs
  <2> HIDE DEF f
  <2>3. /\ IsTree(g)
        /\ \A r : Pos(r) => (c \o r \in DOMAIN g <=> r \in DOMAIN y)
        /\ \A r \in DOMAIN y : g[c \o r] = y[r]
        /\ \A q : ~IsPrefix(c, q) => (q \in DOMAIN g <=> q \in DOMAIN f)
        /\ \A q \in DOMAIN g : ~IsPrefix(c, q) => g[q] = f[q]
    BY <1>2, <2>1, GraftIs
  <2> HIDE DEF g, h
  <2>4. ASSUME NEW q, Pos(q)
        PROVE  Agree(g, h, q)
    <3>1. CASE IsPrefix(c, q)
      <4> DEFINE r == Rest(c, q)
      <4>1. Pos(r) /\ c \o r = q
        BY <2>4, <3>1, RestIs
      <4> HIDE DEF r
      <4>2. (q \in DOMAIN g <=> r \in DOMAIN y) /\ (q \in DOMAIN h <=> r \in DOMAIN y)
        BY <2>2, <2>3, <4>1
      <4>3. r \in DOMAIN y => g[q] = y[r] /\ h[q] = y[r]
        BY <2>2, <2>3, <4>1
      <4> QED
        BY <4>2, <4>3 DEF Agree
    <3>2. CASE ~IsPrefix(c, q)
      BY <2>1, <2>2, <2>3, <3>2 DEF Agree
    <3> QED
      BY <3>1, <3>2
  <2>5. \A q : q \in DOMAIN g \/ q \in DOMAIN h => Pos(q)
    BY <2>2, <2>3, TreePos
  <2>6. \A q : q \in DOMAIN g <=> q \in DOMAIN h
    BY <2>4, <2>5 DEF Agree
  <2>7. \A q \in DOMAIN g : g[q] = h[q]
    BY <2>4, <2>5 DEF Agree
  <2>8. g = h
    BY <2>2, <2>3, <2>6, <2>7, TreeEqual
  <2> QED
    BY <2>8 DEF f, g, h
<1> QED
  BY <1>3, <1>4 DEF e

\* A list read and written back is as it was.
LEMMA PutBack ==
  ASSUME NEW d, Formed(d), NEW c, Pos(c), Lives(d, c), IsListAt(c),
         NEW u, u = [i \in 1 .. Length(d, c) |-> ValueAt(d, Append(c, i))]
  PROVE  /\ PutElements(d, c, u) = d
         /\ \A i \in 1 .. Length(d, c) : Fit(u[i], Type[Last(c)])
<1>0. ~IsMessageAt(c) /\ IsTree(d) /\ Held(d)
  BY KindsOfContainer, InOrderHeld DEF Formed, InOrder
<1>1. Places(d, c) = 1 .. Length(d, c)
  BY ListPlaces
<1>2. \A i \in 1 .. Length(d, c) : Fit(u[i], Type[Last(c)])
  <2> TAKE i \in 1 .. Length(d, c)
  <2>1. Has(d, Append(c, i))
    BY <1>0, <1>1, PlaceIs
  <2> QED
    BY <1>0, <2>1, ElementOf
<1>3. c \notin DOMAIN d
  <2>1. c # <<>> /\ Last(c) \in Field /\ Card[Last(c)] = "list"
    BY KindsOfContainer DEF IsListAt
  <2>2. ASSUME c \in DOMAIN d
        PROVE  FALSE
    <3>1. Seated(d, c)
      BY <2>1, <2>2 DEF Formed, InOrder
    <3>2. Pos(Front(c)) /\ Append(Front(c), Last(c)) = c
      BY <2>1, FrontIs
    <3> QED
      BY <2>1, <3>1, SchemaAssumption DEF Seated
  <2> QED
    BY <2>2
<1>4. ValueAt(d, c) = Collection(u)
  BY <1>0, <1>1, <1>3, CollectionOf
<1>5. PutElements(d, c, u) = Graft(d, c, ValueAt(d, c))
  BY <1>4 DEF PutElements
<1>6. Graft(d, c, ValueAt(d, c)) = d
  <2> DEFINE v == ValueAt(d, c)
             g == Graft(d, c, v)
  <2>1. /\ IsTree(v)
        /\ \A r : Pos(r) => (r \in DOMAIN v <=> c \o r \in DOMAIN d)
        /\ \A r \in DOMAIN v : v[r] = d[c \o r]
    BY <1>0, ValueAtIs
  <2> HIDE DEF v
  <2>2. /\ IsTree(g)
        /\ \A r : Pos(r) => (c \o r \in DOMAIN g <=> r \in DOMAIN v)
        /\ \A r \in DOMAIN v : g[c \o r] = v[r]
        /\ \A q : ~IsPrefix(c, q) => (q \in DOMAIN g <=> q \in DOMAIN d)
        /\ \A q \in DOMAIN g : ~IsPrefix(c, q) => g[q] = d[q]
    BY <1>0, <2>1, GraftIs
  <2> HIDE DEF g
  <2>3. ASSUME NEW q, Pos(q)
        PROVE  Agree(g, d, q)
    <3>1. CASE IsPrefix(c, q)
      <4>1. Pos(Rest(c, q)) /\ c \o Rest(c, q) = q
        BY <2>3, <3>1, RestIs
      <4> QED
        BY <2>1, <2>2, <4>1 DEF Agree
    <3>2. CASE ~IsPrefix(c, q)
      BY <2>2, <3>2 DEF Agree
    <3> QED
      BY <3>1, <3>2
  <2>4. \A q : q \in DOMAIN g \/ q \in DOMAIN d => Pos(q)
    BY <1>0, <2>2, TreePos
  <2>5. \A q : q \in DOMAIN g <=> q \in DOMAIN d
    BY <2>3, <2>4 DEF Agree
  <2>6. \A q \in DOMAIN g : g[q] = d[q]
    BY <2>3, <2>4 DEF Agree
  <2>7. g = d
    BY <1>0, <2>2, <2>5, <2>6, TreeEqual
  <2> QED
    BY <2>7 DEF g, v
<1> QED
  BY <1>2, <1>5, <1>6

-----------------------------------------------------------------------------
(* Places in order.                                                        *)

Rising(s, S) ==
  /\ s \in [1 .. Cardinality(S) -> S]
  /\ \A i, j \in 1 .. Cardinality(S) : i < j => s[i] < s[j]

\* Numbers in order are all of them: as many places as there are numbers.
LEMMA RisingAll ==
  ASSUME NEW S \in SUBSET Nat, IsFiniteSet(S), NEW s, Rising(s, S), NEW x \in S
  PROVE  \E i \in 1 .. Cardinality(S) : s[i] = x
<1> DEFINE n == Cardinality(S)
           D == 1 .. n
           R == Range(s)
<1>2. n \in Nat
  BY FS_CardinalityType
<1> HIDE DEF n
<1>3. s \in [D -> S] /\ DOMAIN s = D
  BY DEF Rising, n
<1>4. R \subseteq S /\ s \in [D -> R]
  BY <1>3 DEF Range
<1>5. ASSUME NEW i \in D, NEW j \in D, s[i] = s[j]
      PROVE  i = j
  <2>1. i \in Nat /\ j \in Nat
    BY <1>2
  <2>2. s[i] \in Nat
    BY <1>3
  <2>3. ~(s[i] < s[j]) /\ ~(s[j] < s[i])
    BY <1>5, <2>2
  <2>4. ~(i < j) /\ ~(j < i)
    BY <2>3 DEF Rising, n
  <2> QED
    BY <2>1, <2>4
<1>6. s \in Bijection(D, R)
  BY <1>3, <1>4, <1>5 DEF Bijection, Injection, Surjection, IsInjective, Range
<1>7. IsFiniteSet(D) /\ Cardinality(D) = n
  BY <1>2, Counted
<1>8. Cardinality(R) = n
  <2> HIDE DEF D, R
  <2>1. ExistsBijection(D, R)
    BY <1>6 DEF ExistsBijection
  <2> QED
    BY <1>7, <2>1, FS_Bijection
<1>9. R = S
  BY <1>4, <1>8, FS_Subset DEF n
<1>10. x \in R
  BY <1>9
<1> QED
  BY <1>3, <1>10 DEF Range, n

\* There is one such order.
LEMMA RisingOnce ==
  ASSUME NEW S \in SUBSET Nat, IsFiniteSet(S), NEW s, Rising(s, S), NEW t, Rising(t, S)
  PROVE  s = t
<1> DEFINE n == Cardinality(S)
           Bad == {i \in 1 .. n : s[i] # t[i]}
<1>1. n \in Nat
  BY FS_CardinalityType
<1>0. s \in [1 .. n -> S] /\ t \in [1 .. n -> S]
  BY DEF Rising
<1>2. /\ \A i \in 1 .. n : s[i] \in S /\ t[i] \in S /\ s[i] \in Nat /\ t[i] \in Nat
      /\ \A i, j \in 1 .. n : i < j => s[i] < s[j] /\ t[i] < t[j]
  BY DEF Rising
<1>3. \A x \in S : (\E i \in 1 .. n : s[i] = x) /\ (\E i \in 1 .. n : t[i] = x)
  BY RisingAll
<1> HIDE DEF n
<1>4. ASSUME Bad # {}
      PROVE  FALSE
  <2>1. Bad \in SUBSET Nat
    BY <1>1
  <2>2. PICK m \in Bad : \A j \in Bad : m <= j
    BY <1>4, <2>1, LeastNat
  <2>3. m \in 1 .. n /\ m \in Nat /\ s[m] # t[m]
    BY <1>1, <2>2
  <2>4. \A j \in 1 .. n : j < m => s[j] = t[j]
    BY <1>1, <2>2
  <2>5. PICK i \in 1 .. n : t[i] = s[m]
    BY <1>2, <1>3, <2>3
  <2>6. PICK k \in 1 .. n : s[k] = t[m]
    BY <1>2, <1>3, <2>3
  <2>7. i \in Nat /\ k \in Nat
    BY <1>1
  <2>8. ~(i < m) /\ ~(k < m)
    <3>1. i < m => s[i] = s[m] /\ s[i] < s[m]
      BY <1>2, <2>3, <2>4, <2>5
    <3>2. k < m => t[k] = t[m] /\ t[k] < t[m]
      BY <1>2, <2>3, <2>4, <2>6
    <3>3. s[m] \in Nat /\ t[m] \in Nat
      BY <1>2, <2>3
    <3> QED
      BY <3>1, <3>2, <3>3
  <2>9. i # m /\ k # m
    BY <2>3, <2>5, <2>6
  <2>10. m < i /\ m < k
    BY <2>3, <2>7, <2>8, <2>9
  <2>11. t[m] < t[i] /\ s[m] < s[k]
    BY <1>2, <2>3, <2>10
  <2>12. t[m] \in Nat /\ s[m] \in Nat
    BY <1>2, <2>3
  <2> QED
    BY <2>5, <2>6, <2>11, <2>12
<1>5. \A i \in 1 .. n : s[i] = t[i]
  BY <1>4
<1>6. DOMAIN s = 1 .. n /\ DOMAIN t = 1 .. n
  BY <1>0
<1>7. s = [i \in 1 .. n |-> s[i]] /\ t = [i \in 1 .. n |-> t[i]]
  BY <1>0
<1>8. [i \in 1 .. n |-> s[i]] = [i \in 1 .. n |-> t[i]]
  BY <1>5, Zenon
<1> QED
  BY <1>7, <1>8

LEMMA AscendingIs ==
  ASSUME NEW S \in SUBSET Nat, IsFiniteSet(S)
  PROVE  Rising(Ascending(S), S)
<1> DEFINE n == Cardinality(S)
           f == Descending(S)
           s == [i \in 1 .. n |-> f[n + 1 - i]]
<1>1. /\ f \in Seq(S) /\ Len(f) = n
      /\ \A i, j \in DOMAIN f : i < j => f[i] > f[j]
  BY DescendingIs
<1>2. n \in Nat
  BY FS_CardinalityType
<1> HIDE DEF f, n
<1>30. DOMAIN f = 1 .. n /\ \A i \in 1 .. n : f[i] \in S
  BY <1>1
<1>3. DOMAIN f = 1 .. n /\ \A i \in 1 .. n : f[i] \in S /\ f[i] \in Nat
  BY <1>30
<1>4. \A i \in 1 .. n : n + 1 - i \in 1 .. n
  BY <1>2
<1>5. s \in [1 .. n -> S]
  BY <1>3, <1>4
<1>6. ASSUME NEW i \in 1 .. n, NEW j \in 1 .. n, i < j
      PROVE  s[i] < s[j]
  <2>1. n + 1 - j < n + 1 - i
    BY <1>2, <1>6
  <2>2. f[n + 1 - j] > f[n + 1 - i]
    BY <1>1, <1>3, <1>4, <2>1
  <2>3. f[n + 1 - j] \in Nat /\ f[n + 1 - i] \in Nat
    BY <1>3, <1>4
  <2> QED
    BY <2>2, <2>3
<1>7. DOMAIN s = 1 .. n
  OBVIOUS
<1> HIDE DEF s
<1>8. s \in [1 .. n -> S] /\ \A i, j \in DOMAIN s : i < j => s[i] < s[j]
  BY <1>5, <1>6, <1>7
<1>9. \E x : x \in [1 .. n -> S] /\ \A i, j \in DOMAIN x : i < j => x[i] < x[j]
  BY <1>8
<1>10. Ascending(S) = CHOOSE x : x \in [1 .. n -> S] /\ \A i, j \in DOMAIN x : i < j => x[i] < x[j]
  BY DEF Ascending, n
<1>11. Ascending(S) \in [1 .. n -> S] /\ \A i, j \in DOMAIN Ascending(S) : i < j => Ascending(S)[i] < Ascending(S)[j]
  BY <1>9, <1>10
<1> HIDE DEF n
<1>12. DOMAIN Ascending(S) = 1 .. n
  BY <1>11
<1> QED
  BY <1>11, <1>12 DEF Rising, n

\* The numbers up to one that is below everything taken out are where they were.
LEMMA AscendingStart ==
  ASSUME NEW S \in SUBSET (Nat \ {0}), IsFiniteSet(S), NEW h \in Nat, \A i \in 1 .. h : i \in S
  PROVE  /\ h <= Cardinality(S)
         /\ \A i \in 1 .. h : Ascending(S)[i] = i
<1> DEFINE n == Cardinality(S)
           s == Ascending(S)
           Bad == {i \in 1 .. h : s[i] # i}
<1>1. n \in Nat /\ S \in SUBSET Nat
  BY FS_CardinalityType
<1>2. h <= n
  <2>1. 1 .. h \subseteq S
    OBVIOUS
  <2>2. Cardinality(1 .. h) <= Cardinality(S)
    BY <2>1, FS_Subset
  <2> QED
    BY <2>2, Counted
<1>3. Rising(s, S)
  BY <1>1, AscendingIs
<1>4. \A x \in S : \E i \in 1 .. n : s[i] = x
  BY <1>1, <1>3, RisingAll
<1> HIDE DEF s
<1>5. /\ \A i \in 1 .. n : s[i] \in Nat \ {0}
      /\ \A i, j \in 1 .. n : i < j => s[i] < s[j]
  BY <1>3 DEF Rising
<1> HIDE DEF n
<1>6. ASSUME Bad # {}
      PROVE  FALSE
  <2>1. Bad \in SUBSET Nat
    OBVIOUS
  <2>2. PICK m \in Bad : \A j \in Bad : m <= j
    BY <1>6, <2>1, LeastNat
  <2>3. m \in 1 .. h /\ m \in 1 .. n /\ m \in Nat /\ s[m] # m
    BY <1>1, <1>2, <2>2
  <2>4. \A j \in 1 .. h : j < m => s[j] = j
    BY <2>2, <2>3
  <2>5. s[m] >= m
    <3>1. CASE m = 1
      BY <1>5, <2>3, <3>1
    <3>2. CASE m # 1
      <4>1. m - 1 \in 1 .. h /\ m - 1 \in 1 .. n /\ m - 1 < m
        BY <1>1, <2>3, <3>2
      <4>2. s[m - 1] = m - 1
        BY <2>4, <4>1
      <4>3. s[m - 1] < s[m] /\ s[m] \in Nat
        BY <1>5, <2>3, <4>1
      <4> QED
        BY <2>3, <4>2, <4>3
    <3> QED
      BY <3>1, <3>2
  <2>6. s[m] > m /\ s[m] \in Nat
    BY <1>5, <2>3, <2>5
  <2>7. PICK i \in 1 .. n : s[i] = m
    BY <1>4, <2>3
  <2>8. i \in Nat
    BY <1>1
  <2>9. CASE i < m
    <3>1. i \in 1 .. h
      BY <1>1, <2>3, <2>8, <2>9
    <3> QED
      BY <2>3, <2>4, <2>7, <2>8, <2>9, <3>1
  <2>10. CASE i = m
    BY <2>3, <2>7, <2>10
  <2>11. CASE m < i
    <3>1. s[m] < s[i]
      BY <1>5, <2>3, <2>11
    <3> QED
      BY <2>3, <2>6, <2>7, <3>1
  <2> QED
    BY <2>3, <2>8, <2>9, <2>10, <2>11
<1>7. \A i \in 1 .. h : s[i] = i
  BY <1>6
<1> QED
  BY <1>2, <1>7 DEF n, s

-----------------------------------------------------------------------------
(* Removals.                                                               *)

Dropped(u, n, h) == [j \in 1 .. n - 1 |-> IF j < h THEN u[j] ELSE u[j + 1]]

LEMMA RemoveAtIs ==
  ASSUME NEW T, NEW n \in Nat, NEW u \in [1 .. n -> T], NEW h \in 1 .. n
  PROVE  RemoveAt(u, h) = Dropped(u, n, h)
<1> DEFINE a == SubSeq(u, 1, h - 1)
           b == SubSeq(u, h + 1, n)
<1>1. u \in Seq(T) /\ Len(u) = n /\ h \in Nat \ {0}
  OBVIOUS
<1>2. /\ a \in Seq(T) /\ Len(a) = h - 1
      /\ \A j \in 1 .. h - 1 : a[j] = u[j]
  BY <1>1
<1>3. /\ b \in Seq(T) /\ Len(b) = n - h
      /\ \A j \in 1 .. n - h : b[j] = u[h + j]
  BY <1>1
<1>4. RemoveAt(u, h) = a \o b
  BY <1>1 DEF RemoveAt
<1> HIDE DEF a, b
<1>50. a \o b \in Seq(T) /\ Len(a \o b) = Len(a) + Len(b)
  <2>1. a \in Seq(T) /\ b \in Seq(T)
    BY <1>2, <1>3
  <2> QED
    BY <2>1
<1>51. Len(a) + Len(b) = n - 1
  BY <1>1, <1>2, <1>3
<1>5. a \o b \in Seq(T) /\ Len(a \o b) = n - 1 /\ DOMAIN (a \o b) = 1 .. n - 1
  BY <1>50, <1>51
<1>6. ASSUME NEW j \in 1 .. n - 1
      PROVE  (a \o b)[j] = IF j < h THEN u[j] ELSE u[j + 1]
  <2>1. CASE j < h
    BY <1>1, <1>2, <1>3, <2>1
  <2>2. CASE ~(j < h)
    <3>1. j - (h - 1) \in 1 .. n - h /\ h + (j - (h - 1)) = j + 1
      BY <1>1, <2>2
    <3>2. (a \o b)[j] = b[j - (h - 1)]
      BY <1>1, <1>2, <1>3, <2>2
    <3> QED
      BY <1>3, <2>2, <3>1, <3>2
  <2> QED
    BY <2>1, <2>2
<1> HIDE DEF RemoveAt
<1> DEFINE w == a \o b
<1>7. w = [j \in 1 .. n - 1 |-> w[j]]
  <2>1. w \in Seq(T) /\ Len(w) = n - 1
    BY <1>5
  <2> HIDE DEF w
  <2> QED
    BY <2>1
<1> QED
  BY <1>4, <1>6, <1>7 DEF Dropped

LEMMA ElementsFitOne ==
  ASSUME NEW d, Formed(d), NEW c, Pos(c), Lives(d, c), IsListAt(c), NEW i \in 1 .. Length(d, c)
  PROVE  Fit(ValueAt(d, Append(c, i)), Type[Last(c)])
<1>1. Fit([j \in 1 .. Length(d, c) |-> ValueAt(d, Append(c, j))][i], Type[Last(c)])
  BY PutBack
<1> QED
  BY <1>1

\* A list without nothing.
LEMMA WithoutNone ==
  ASSUME NEW d, Formed(d), NEW c, Pos(c), Lives(d, c)
  PROVE  Without(d, c, {}) = d
<1>1. CASE ~IsListAt(c)
  <2>1. {Append(c, s) : s \in {}} = {}
    OBVIOUS
  <2>2. Without(d, c, {}) = EraseAll(d, {})
    BY <1>1, <2>1 DEF Without
  <2> QED
    BY <2>2, EraseNone DEF Formed, InOrder
<1>2. CASE IsListAt(c)
  <2> DEFINE n == Length(d, c)
             S == (1 .. n) \ {}
             left == Ascending(S)
  <2>1. n \in Nat
    BY <1>2, ListPlaces
  <2> HIDE DEF n
  <2>2. S \in SUBSET (Nat \ {0}) /\ S \in SUBSET Nat /\ IsFiniteSet(S) /\ Cardinality(S) = n
    <3>1. S = 1 .. n
      OBVIOUS
    <3> QED
      BY <2>1, <3>1, Counted
  <2>3. \A i \in 1 .. n : i \in S
    OBVIOUS
  <2> HIDE DEF S
  <2>4. \A i \in 1 .. n : left[i] = i
    BY <2>1, <2>2, <2>3, AscendingStart
  <2>5. DOMAIN left = 1 .. n
    BY <2>2, AscendingIs DEF Rising
  <2>6. Without(d, c, {}) = PutElements(d, c, [j \in DOMAIN left |-> ValueAt(d, Append(c, left[j]))])
    BY <1>2 DEF Without, n, S
  <2> HIDE DEF left
  <2>7. [j \in DOMAIN left |-> ValueAt(d, Append(c, left[j]))] = [j \in 1 .. n |-> ValueAt(d, Append(c, j))]
    BY <2>4, <2>5
  <2>8. PutElements(d, c, [j \in 1 .. n |-> ValueAt(d, Append(c, j))]) = d
    BY <1>2, PutBack DEF n
  <2> QED
    BY <2>6, <2>7, <2>8
<1> QED
  BY <1>1, <1>2

LeftOf(d, c, R) == (1 .. Length(d, c)) \ R

LeftElements(d, c, R) ==
  [j \in 1 .. Cardinality(LeftOf(d, c, R)) |-> ValueAt(d, Append(c, Ascending(LeftOf(d, c, R))[j]))]

ElementsOf(d, c) == {ValueAt(d, Append(c, i)) : i \in 1 .. Length(d, c)}

\* The elements of a list without some.
LEMMA WithoutReads ==
  ASSUME NEW d, Formed(d), NEW c, Pos(c), Lives(d, c), IsListAt(c), NEW R
  PROVE  LET S == LeftOf(d, c, R) IN
         /\ S \in SUBSET (Nat \ {0}) /\ IsFiniteSet(S) /\ Cardinality(S) \in Nat
         /\ Rising(Ascending(S), S)
         /\ Without(d, c, R) = PutElements(d, c, LeftElements(d, c, R))
         /\ LeftElements(d, c, R) \in [1 .. Cardinality(S) -> ElementsOf(d, c)]
<1> DEFINE S == (1 .. Length(d, c)) \ R
           n == Cardinality(S)
           left == Ascending(S)
           u == [j \in 1 .. n |-> ValueAt(d, Append(c, left[j]))]
<1>1. Length(d, c) \in Nat
  BY ListPlaces
<1>2. S \in SUBSET (Nat \ {0}) /\ S \in SUBSET Nat /\ S \subseteq 1 .. Length(d, c)
  BY <1>1
<1>3. IsFiniteSet(S)
  BY <1>1, <1>2, Counted, FS_Subset
<1>4. n \in Nat
  BY <1>3, FS_CardinalityType
<1>5. Rising(left, S)
  BY <1>2, <1>3, AscendingIs
<1>6. left \in [1 .. n -> S]
  BY <1>5 DEF Rising
<1>7. Without(d, c, R) = PutElements(d, c, [j \in DOMAIN left |-> ValueAt(d, Append(c, left[j]))])
  BY DEF Without
<1> HIDE DEF left, n
<1>8. [j \in DOMAIN left |-> ValueAt(d, Append(c, left[j]))] = u
  BY <1>6
<1>9. \A j \in 1 .. n : left[j] \in 1 .. Length(d, c)
  BY <1>2, <1>6
<1>10. u \in [1 .. n -> {ValueAt(d, Append(c, i)) : i \in 1 .. Length(d, c)}]
  BY <1>9
<1>11. LeftOf(d, c, R) = S
  BY DEF LeftOf
<1>12. LeftElements(d, c, R) = u
  BY DEF LeftElements, LeftOf, n, left
<1>13. ElementsOf(d, c) = {ValueAt(d, Append(c, i)) : i \in 1 .. Length(d, c)}
  BY DEF ElementsOf
<1> HIDE DEF u, S
<1> QED
  BY <1>2, <1>3, <1>4, <1>5, <1>7, <1>8, <1>10, <1>11, <1>12, <1>13 DEF left, n

\* Places taken out one after another, from the far end, are taken out at once.
LEMMA WithoutNext ==
  ASSUME NEW d, Formed(d), NEW c, Pos(c), Lives(d, c), NEW R, NEW h,
         IsListAt(c) => h \in 1 .. Length(d, c) /\ \A i \in 1 .. h : i \notin R
  PROVE  RemovedAt(Without(d, c, R), c, h) = Without(d, c, R \cup {h})
<1>1. CASE ~IsListAt(c)
  <2> DEFINE P == {Append(c, s) : s \in R}
             Q == {Append(c, s) : s \in R \cup {h}}
             H == {Append(c, h)}
             e == EraseAll(d, P)
  <2>1. Without(d, c, R) = e /\ Without(d, c, R \cup {h}) = EraseAll(d, Q)
    BY <1>1 DEF Without
  <2>2. RemovedAt(e, c, h) = EraseAll(e, H)
    BY <1>1 DEF RemovedAt, Erase
  <2>3. Q = P \cup H
    OBVIOUS
  <2>4. IsTree(d)
    BY DEF Formed, InOrder
  <2> HIDE DEF P, Q, H
  <2>5. /\ IsTree(e) /\ DOMAIN e = {q \in DOMAIN d : \A p \in P : ~IsPrefix(p, q)}
        /\ \A q \in DOMAIN e : e[q] = d[q]
    BY <2>4, EraseAllIs
  <2>6. /\ IsTree(EraseAll(d, Q)) /\ DOMAIN EraseAll(d, Q) = {q \in DOMAIN d : \A p \in Q : ~IsPrefix(p, q)}
        /\ \A q \in DOMAIN EraseAll(d, Q) : EraseAll(d, Q)[q] = d[q]
    BY <2>4, EraseAllIs
  <2> HIDE DEF e
  <2> DEFINE f == EraseAll(e, H)
  <2>7. /\ IsTree(f) /\ DOMAIN f = {q \in DOMAIN e : \A p \in H : ~IsPrefix(p, q)}
        /\ \A q \in DOMAIN f : f[q] = e[q]
    BY <2>5, EraseAllIs
  <2> HIDE DEF f
  <2>8. DOMAIN f = DOMAIN EraseAll(d, Q)
    BY <2>3, <2>5, <2>6, <2>7
  <2>9. \A q \in DOMAIN f : f[q] = EraseAll(d, Q)[q]
    BY <2>5, <2>6, <2>7, <2>8
  <2>10. f = EraseAll(d, Q)
    BY <2>6, <2>7, <2>8, <2>9, TreeEqual
  <2> QED
    BY <2>1, <2>2, <2>10 DEF f
<1>2. CASE IsListAt(c)
  <2> DEFINE L == Length(d, c)
             S == LeftOf(d, c, R)
             n == Cardinality(S)
             left == Ascending(S)
             u == LeftElements(d, c, R)
             T == ElementsOf(d, c)
             S2 == LeftOf(d, c, R \cup {h})
             n2 == Cardinality(S2)
             left2 == Ascending(S2)
             u2 == LeftElements(d, c, R \cup {h})
             e == PutElements(d, c, u)
  <2>1. L \in Nat /\ h \in 1 .. L /\ h \in Nat \ {0} /\ \A i \in 1 .. h : i \notin R
    BY <1>2, ListPlaces
  <2>2. /\ S \in SUBSET (Nat \ {0}) /\ IsFiniteSet(S) /\ n \in Nat
        /\ Rising(left, S) /\ Without(d, c, R) = e /\ u \in [1 .. n -> T]
    BY <1>2, WithoutReads
  <2>3. /\ S2 \in SUBSET (Nat \ {0}) /\ IsFiniteSet(S2) /\ n2 \in Nat
        /\ Rising(left2, S2) /\ Without(d, c, R \cup {h}) = PutElements(d, c, u2) /\ u2 \in [1 .. n2 -> T]
    BY <1>2, WithoutReads
  <2>4. \A x \in T : Fit(x, Type[Last(c)])
    BY <1>2, ElementsFitOne DEF ElementsOf
  <2>5. \A i \in 1 .. h : i \in S
    BY <2>1 DEF LeftOf
  <2>6. h \in S /\ S2 = S \ {h}
    BY <2>1, <2>5 DEF LeftOf
  <2> HIDE DEF L, S, S2
  <2>7. n2 = n - 1
    BY <2>2, <2>6, FS_RemoveElement
  <2>8. h <= n /\ left[h] = h /\ h \in 1 .. n
    <3>1. h <= n /\ \A i \in 1 .. h : left[i] = i
      BY <2>1, <2>2, <2>5, AscendingStart
    <3> HIDE DEF n, left
    <3> QED
      BY <2>1, <2>2, <3>1
  <2> HIDE DEF T
  <2>9. left \in [1 .. n -> S] /\ \A i, j \in 1 .. n : i < j => left[i] < left[j]
    BY <2>2 DEF Rising
  <2>10. \A i \in 1 .. n : left[i] \in S /\ left[i] \in Nat
    BY <2>2, <2>9
  <2> HIDE DEF n, n2, left, left2
  <2> DEFINE t == [j \in 1 .. n - 1 |-> IF j < h THEN left[j] ELSE left[j + 1]]
  <2>11. \A j \in 1 .. n - 1 : j \in 1 .. n /\ j + 1 \in 1 .. n /\ j \in Nat
    BY <2>2
  <2>12. ASSUME NEW j \in 1 .. n - 1
         PROVE  t[j] \in S2
    <3>1. t[j] \in S
      BY <2>10, <2>11
    <3>2. t[j] # h
      <4>1. CASE j < h
        <5>1. left[j] < left[h]
          BY <2>8, <2>9, <2>11, <4>1
        <5> QED
          BY <2>8, <2>10, <2>11, <4>1, <5>1
      <4>2. CASE ~(j < h)
        <5>1. h < j + 1
          BY <2>1, <2>11, <4>2
        <5>2. left[h] < left[j + 1]
          BY <2>8, <2>9, <2>11, <5>1
        <5> QED
          BY <2>8, <2>10, <2>11, <4>2, <5>2
      <4> QED
        BY <4>1, <4>2
    <3> QED
      BY <2>6, <3>1, <3>2
  <2>13. ASSUME NEW i \in 1 .. n - 1, NEW j \in 1 .. n - 1, i < j
         PROVE  t[i] < t[j]
    <3>1. i \in Nat /\ j \in Nat /\ i + 1 < j + 1 /\ i < j + 1
      BY <2>11, <2>13
    <3>2. left[i] < left[j] /\ left[i + 1] < left[j + 1] /\ left[i] < left[j + 1]
      BY <2>9, <2>11, <2>13, <3>1
    <3>3. j < h => i < h
      BY <2>1, <2>13, <3>1
    <3> QED
      BY <3>2, <3>3
  <2>14. t = left2
    <3>1. t \in [1 .. n - 1 -> S2]
      BY <2>12
    <3>2. n - 1 = Cardinality(S2)
      BY <2>7 DEF n2
    <3> HIDE DEF t
    <3>3. Rising(t, S2)
      BY <2>13, <3>1, <3>2 DEF Rising
    <3>4. S2 \in SUBSET Nat
      BY <2>3
    <3> QED
      BY <2>3, <3>3, <3>4, RisingOnce
  <2> HIDE DEF u
  <2>15. RemoveAt(u, h) = Dropped(u, n, h)
    <3>1. n \in Nat /\ u \in [1 .. n -> T] /\ h \in 1 .. n
      BY <2>2, <2>8
    <3> QED
      BY <3>1, RemoveAtIs
  <2>16. Dropped(u, n, h) = u2
    <3>1. \A j \in 1 .. n - 1 : (IF j < h THEN u[j] ELSE u[j + 1]) = ValueAt(d, Append(c, t[j]))
      <4>1. \A j \in 1 .. n : u[j] = ValueAt(d, Append(c, left[j]))
        BY DEF u, LeftElements, left, S, n
      <4> QED
        BY <2>11, <4>1
    <3>2. u2 = [j \in 1 .. n - 1 |-> ValueAt(d, Append(c, t[j]))]
      <4>1. u2 = [j \in 1 .. n2 |-> ValueAt(d, Append(c, left2[j]))]
        BY DEF LeftElements, left2, n2, S2
      <4> HIDE DEF u2, t
      <4> QED
        BY <2>7, <2>14, <4>1
    <3> HIDE DEF u2, t, u
    <3> QED
      BY <3>1, <3>2 DEF Dropped
  <2> HIDE DEF u, u2, e
  <2>a. Elemental(c, n, u) /\ Elemental(c, n2, u2)
    BY <2>2, <2>3, <2>4 DEF Elemental
  <2>17. /\ Touches(d, e, c) /\ Length(e, c) = n
         /\ \A i \in 1 .. n : ValueAt(e, Append(c, i)) = u[i]
    <3>1. /\ Touches(d, PutElements(d, c, u), c) /\ Length(PutElements(d, c, u), c) = n
          /\ \A i \in 1 .. n : ValueAt(PutElements(d, c, u), Append(c, i)) = u[i]
      BY <1>2, <2>a, PutReads
    <3> QED
      BY <3>1 DEF e
  <2>18. Elements(e, c) = u
    <3>1. Elements(e, c) = [i \in 1 .. n |-> ValueAt(e, Append(c, i))]
      BY <2>17 DEF Elements
    <3>2. u = [i \in 1 .. n |-> u[i]]
      BY <2>2
    <3>3. [i \in 1 .. n |-> ValueAt(e, Append(c, i))] = [i \in 1 .. n |-> u[i]]
      BY <2>17
    <3> QED
      BY <3>1, <3>2, <3>3
  <2>19. RemovedAt(e, c, h) = PutElements(e, c, u2)
    BY <1>2, <2>15, <2>16, <2>18 DEF RemovedAt
  <2>20. PutElements(e, c, u2) = PutElements(d, c, u2)
    <3>1. PutElements(PutElements(d, c, u), c, u2) = PutElements(d, c, u2)
      BY <1>2, <2>a, PutOver
    <3> QED
      BY <3>1 DEF e
  <2> QED
    BY <2>2, <2>3, <2>19, <2>20
<1> QED
  BY <1>1, <1>2

-----------------------------------------------------------------------------
(* Writes.                                                                 *)

\* e is d with everything at the places G of c gone, and v at the places P.
Filled(e, d, c, G, P, v) ==
  /\ e = [q \in DOMAIN e |-> e[q]]
  /\ \A q \in DOMAIN e : Pos(q)
  /\ Beside(d, e, c, G)
  /\ \A g \in G : \A r : Pos(r) =>
       /\ Append(c, g) \o r \in DOMAIN e <=> g \in P /\ r \in DOMAIN v
       /\ g \in P /\ r \in DOMAIN v => e[Append(c, g) \o r] = v[r]

LEMMA PlaceOf ==
  ASSUME NEW c, Pos(c), NEW g, NEW q, Pos(q), IsPrefix(Append(c, g), q)
  PROVE  /\ Pos(Rest(Append(c, g), q)) /\ Append(c, g) \o Rest(Append(c, g), q) = q
         /\ \A h : IsPrefix(Append(c, h), q) => g = h
<1>1. Pos(Append(c, g))
  BY AppendPos
<1>2. ASSUME NEW h, IsPrefix(Append(c, h), q)
      PROVE  g = h
  <2>1. q[Len(c) + 1] = g
    BY AppendBelow
  <2>2. q[Len(c) + 1] = h
    BY <1>2, AppendBelow
  <2> QED
    BY <2>1, <2>2
<1> QED
  BY <1>1, <1>2, RestIs

LEMMA PlaceAbove ==
  ASSUME NEW c, Pos(c), NEW g, NEW r, Pos(r)
  PROVE  /\ Pos(Append(c, g)) /\ Pos(Append(c, g) \o r)
         /\ IsPrefix(Append(c, g), Append(c, g) \o r) /\ Rest(Append(c, g), Append(c, g) \o r) = r
         /\ \A h : IsPrefix(Append(c, h), Append(c, g) \o r) <=> g = h
<1>1. Pos(Append(c, g))
  BY AppendPos
<1>2. Pos(Append(c, g) \o r)
  BY <1>1, ConcatPos
<1>3. IsPrefix(Append(c, g), Append(c, g) \o r) /\ Rest(Append(c, g), Append(c, g) \o r) = r
  BY <1>1, ConcatBelow
<1>4. ASSUME NEW h, IsPrefix(Append(c, h), Append(c, g) \o r)
      PROVE  g = h
  BY <1>2, <1>3, <1>4, PlaceOf
<1> QED
  BY <1>1, <1>2, <1>3, <1>4

\* This says what e is.
LEMMA FilledOnce ==
  ASSUME NEW d, NEW c, Pos(c), NEW G, NEW P, NEW v,
         NEW e, Filled(e, d, c, G, P, v), NEW f, Filled(f, d, c, G, P, v)
  PROVE  e = f
<1>1. ASSUME NEW q, Pos(q)
      PROVE  Agree(e, f, q)
  <2>1. CASE \A g \in G : ~IsPrefix(Append(c, g), q)
    <3>1. Agree(d, e, q) /\ Agree(d, f, q)
      BY <1>1, <2>1 DEF Filled, Beside
    <3> QED
      BY <3>1 DEF Agree
  <2>2. CASE \E g \in G : IsPrefix(Append(c, g), q)
    <3>1. PICK g \in G : IsPrefix(Append(c, g), q)
      BY <2>2
    <3> DEFINE r == Rest(Append(c, g), q)
    <3>2. Pos(r) /\ Append(c, g) \o r = q
      BY <1>1, <3>1, PlaceOf
    <3> HIDE DEF r
    <3>3. /\ q \in DOMAIN e <=> g \in P /\ r \in DOMAIN v
          /\ g \in P /\ r \in DOMAIN v => e[q] = v[r]
      BY <3>2 DEF Filled
    <3>4. /\ q \in DOMAIN f <=> g \in P /\ r \in DOMAIN v
          /\ g \in P /\ r \in DOMAIN v => f[q] = v[r]
      BY <3>2 DEF Filled
    <3> QED
      BY <3>3, <3>4 DEF Agree
  <2> QED
    BY <2>1, <2>2
<1>2. \A q : q \in DOMAIN e \/ q \in DOMAIN f => Pos(q)
  BY DEF Filled
<1>3. DOMAIN e = DOMAIN f
  BY <1>1, <1>2 DEF Agree
<1>4. \A q \in DOMAIN e : e[q] = f[q]
  BY <1>1, <1>2 DEF Agree
<1>5. e = [q \in DOMAIN e |-> e[q]] /\ f = [q \in DOMAIN f |-> f[q]]
  BY DEF Filled
<1>6. [q \in DOMAIN e |-> e[q]] = [q \in DOMAIN f |-> f[q]]
  BY <1>3, <1>4, Zenon
<1> QED
  BY <1>5, <1>6

LEMMA FilledTwice ==
  ASSUME NEW d, NEW c, Pos(c), NEW v,
         NEW G, NEW P, NEW e, Filled(e, d, c, G, P, v),
         NEW H, NEW Q, NEW f, Filled(f, e, c, H, Q, v), Q \subseteq H
  PROVE  Filled(f, d, c, G \cup H, (P \ H) \cup Q, v)
<1>1. f = [q \in DOMAIN f |-> f[q]] /\ \A q \in DOMAIN f : Pos(q)
  BY DEF Filled
<1>2. Beside(d, f, c, G \cup H)
  BY BesideJoin DEF Filled
<1>3. ASSUME NEW g \in G \cup H, NEW r, Pos(r)
      PROVE  LET q == Append(c, g) \o r IN
             /\ q \in DOMAIN f <=> g \in (P \ H) \cup Q /\ r \in DOMAIN v
             /\ g \in (P \ H) \cup Q /\ r \in DOMAIN v => f[q] = v[r]
  <2> DEFINE q == Append(c, g) \o r
  <2>1. CASE g \in H
    <3>1. /\ q \in DOMAIN f <=> g \in Q /\ r \in DOMAIN v
          /\ g \in Q /\ r \in DOMAIN v => f[q] = v[r]
      BY <1>3, <2>1 DEF Filled
    <3>2. g \in (P \ H) \cup Q <=> g \in Q
      BY <2>1
    <3> QED
      BY <3>1, <3>2
  <2>2. CASE g \notin H
    <3>1. g \in G
      BY <2>2
    <3>2. /\ q \in DOMAIN e <=> g \in P /\ r \in DOMAIN v
          /\ g \in P /\ r \in DOMAIN v => e[q] = v[r]
      BY <1>3, <3>1 DEF Filled
    <3>3. Pos(q) /\ \A h \in H : ~IsPrefix(Append(c, h), q)
      BY <1>3, <2>2, PlaceAbove
    <3>4. Agree(e, f, q)
      BY <3>3 DEF Filled, Beside
    <3>5. g \in (P \ H) \cup Q <=> g \in P
      BY <2>2
    <3> QED
      BY <3>2, <3>4, <3>5 DEF Agree
  <2> QED
    BY <2>1, <2>2
<1> QED
  BY <1>1, <1>2, <1>3 DEF Filled

\* Where a write lands, what goes, and where the value is put.
Landing(d, c, s) == IF s = AppendSlot THEN Length(d, c) + 1 ELSE s

Gone(d, c, S) == {Landing(d, c, s) : s \in S} \cup UNION {Siblings(s) : s \in S \cap Field}

PutAt(d, c, S, v) ==
  {Landing(d, c, s) : s \in IF v = ScalarFragment(Default) THEN S \ Implicit ELSE S}

LEMMA WithFilled ==
  ASSUME NEW d, IsTree(d), NEW c, Pos(c), NEW S, NEW v, IsTree(v)
  PROVE  Filled(With(d, c, S, v), d, c, Gone(d, c, S), PutAt(d, c, S, v), v)
<1> DEFINE G == Gone(d, c, S)
           P == PutAt(d, c, S, v)
           gone == {Append(c, g) : g \in G}
           put == {Append(c, g) : g \in P}
           kept == EraseAll(d, gone)
           more == {p \o r : p \in put, r \in DOMAIN v}
           e == [q \in DOMAIN kept \cup more |->
                   IF q \in DOMAIN kept THEN kept[q]
                   ELSE v[Rest(CHOOSE p \in put : IsPrefix(p, q), q)]]
<1>1. With(d, c, S, v) = e
  <2> DEFINE at(s) == Append(c, IF s = AppendSlot THEN Length(d, c) + 1 ELSE s)
             gone1 == {at(s) : s \in S} \cup {Append(c, t) : t \in UNION {Siblings(s) : s \in S \cap Field}}
             put1 == {at(s) : s \in IF v = ScalarFragment(Default) THEN S \ Implicit ELSE S}
  <2>1. gone1 = gone
    <3>1. \A s : at(s) = Append(c, Landing(d, c, s))
      BY DEF Landing
    <3> DEFINE U == UNION {Siblings(s) : s \in S \cap Field}
    <3>2. G = {Landing(d, c, s) : s \in S} \cup U
      BY DEF Gone
    <3> HIDE DEF at, G, U
    <3>3. {at(s) : s \in S} \cup {Append(c, t) : t \in U} = {Append(c, g) : g \in G}
      BY <3>1, <3>2
    <3> QED
      BY <3>3 DEF at, G, U
  <2>2. put1 = put
    <3>1. \A s : at(s) = Append(c, Landing(d, c, s))
      BY DEF Landing
    <3> DEFINE U == IF v = ScalarFragment(Default) THEN S \ Implicit ELSE S
    <3>2. P = {Landing(d, c, s) : s \in U}
      BY DEF PutAt
    <3> HIDE DEF at, P, U
    <3>3. {at(s) : s \in U} = {Append(c, g) : g \in P}
      BY <3>1, <3>2
    <3> QED
      BY <3>3 DEF at, P, U
  <2>3. With(d, c, S, v) =
          [q \in DOMAIN EraseAll(d, gone1) \cup {p \o r : p \in put1, r \in DOMAIN v} |->
             IF q \in DOMAIN EraseAll(d, gone1) THEN EraseAll(d, gone1)[q]
             ELSE v[Rest(CHOOSE p \in put1 : IsPrefix(p, q), q)]]
    BY DEF With
  <2> HIDE DEF gone1, put1, gone, put
  <2> QED
    BY <2>1, <2>2, <2>3
<1>2. P \subseteq G
  BY DEF PutAt, Gone
<1>3. /\ DOMAIN kept = {q \in DOMAIN d : \A p \in gone : ~IsPrefix(p, q)}
      /\ \A q \in DOMAIN kept : kept[q] = d[q]
  BY EraseAllIs
<1> HIDE DEF G, P, kept
<1>16. \A g : g \in P => Append(c, g) \in put
  OBVIOUS
<1>17. \A p \in put : \E g : g \in P /\ p = Append(c, g)
  OBVIOUS
<1> HIDE DEF put
<1>18. \A p, r : p \in put /\ r \in DOMAIN v => p \o r \in more
  OBVIOUS
<1>19. \A q \in more : \E p, r : p \in put /\ r \in DOMAIN v /\ q = p \o r
  OBVIOUS
<1> HIDE DEF more
<1>4. DOMAIN e = DOMAIN kept \cup more
  OBVIOUS
<1>5. e = [q \in DOMAIN e |-> e[q]]
  BY <1>4
<1>20. \A q \in DOMAIN kept : e[q] = kept[q]
  OBVIOUS
<1>21. \A q \in more : q \notin DOMAIN kept => e[q] = v[Rest(CHOOSE p \in put : IsPrefix(p, q), q)]
  OBVIOUS
<1> HIDE DEF e
<1>6. \A g \in P : \A r \in DOMAIN v : Append(c, g) \o r \in more
  BY <1>16, <1>18
<1>7. ASSUME NEW q \in more
      PROVE  \E g \in P : \E r \in DOMAIN v : q = Append(c, g) \o r
  <2>1. PICK p, r : p \in put /\ r \in DOMAIN v /\ q = p \o r
    BY <1>19
  <2>2. PICK g : g \in P /\ p = Append(c, g)
    BY <1>17, <2>1
  <2> QED
    BY <2>1, <2>2
<1>8. \A r \in DOMAIN v : Pos(r)
  BY TreePos
<1>9. ASSUME NEW g \in G, NEW r, Pos(r)
      PROVE  Append(c, g) \o r \in more <=> g \in P /\ r \in DOMAIN v
  <2>1. ASSUME Append(c, g) \o r \in more
        PROVE  g \in P /\ r \in DOMAIN v
    <3>1. PICK h \in P, x \in DOMAIN v : Append(c, g) \o r = Append(c, h) \o x
      BY <1>7, <2>1
    <3>2. Pos(x)
      BY <1>8
    <3>3. g = h
      <4>1. IsPrefix(Append(c, h), Append(c, g) \o r)
        BY <3>1, <3>2, PlaceAbove
      <4> QED
        BY <1>9, <4>1, PlaceAbove
    <3>4. r = x
      BY <1>9, <3>1, <3>2, <3>3, AppendPos, ConcatInjective
    <3> QED
      BY <3>3, <3>4
  <2> QED
    BY <1>6, <2>1
<1>10. ASSUME NEW g \in G, NEW r, Pos(r)
       PROVE  Append(c, g) \o r \notin DOMAIN kept
  <2>1. IsPrefix(Append(c, g), Append(c, g) \o r)
    BY <1>10, PlaceAbove
  <2> QED
    BY <1>3, <2>1
<1>11. ASSUME NEW g \in P, NEW r \in DOMAIN v
       PROVE  e[Append(c, g) \o r] = v[r]
  <2> DEFINE q == Append(c, g) \o r
             p == CHOOSE p \in put : IsPrefix(p, q)
  <2>1. Pos(r)
    BY <1>8
  <2>2. q \notin DOMAIN kept /\ q \in DOMAIN e
    BY <1>2, <1>4, <1>6, <1>10, <2>1
  <2>3. e[q] = v[Rest(p, q)]
    BY <1>6, <1>21, <2>2
  <2>4. Append(c, g) \in put /\ IsPrefix(Append(c, g), q)
    BY <1>16, <2>1, PlaceAbove
  <2>5. p \in put /\ IsPrefix(p, q)
    BY <2>4
  <2>6. p = Append(c, g)
    <3>1. PICK h : h \in P /\ p = Append(c, h)
      BY <1>17, <2>5
    <3> HIDE DEF p
    <3>2. g = h
      BY <2>1, <2>5, <3>1, PlaceAbove
    <3> QED
      BY <3>1, <3>2
  <2>7. Rest(Append(c, g), q) = r
    BY <2>1, PlaceAbove
  <2> HIDE DEF p, q
  <2> QED
    BY <2>3, <2>6, <2>7 DEF q
<1>12. ASSUME NEW q, Pos(q), \A g \in G : ~IsPrefix(Append(c, g), q)
       PROVE  Agree(d, e, q)
  <2>1. q \notin more
    <3>1. ASSUME NEW g \in P, NEW r \in DOMAIN v, q = Append(c, g) \o r
          PROVE  FALSE
      <4>1. Pos(r)
        BY <1>8
      <4>2. IsPrefix(Append(c, g), q)
        BY <3>1, <4>1, PlaceAbove
      <4> QED
        BY <1>2, <1>12, <4>2
    <3> QED
      BY <1>7, <3>1
  <2>2. q \in DOMAIN kept <=> q \in DOMAIN d
    BY <1>3, <1>12
  <2>3. q \in DOMAIN e <=> q \in DOMAIN d
    BY <1>4, <2>1, <2>2
  <2>4. q \in DOMAIN kept => e[q] = kept[q]
    BY <1>20
  <2> QED
    BY <1>3, <2>2, <2>3, <2>4 DEF Agree
<1>13. \A q \in DOMAIN e : Pos(q)
  <2>1. \A q \in DOMAIN kept : Pos(q)
    BY <1>3, TreePos
  <2>2. ASSUME NEW q \in more
        PROVE  Pos(q)
    <3>1. PICK g \in P, r \in DOMAIN v : q = Append(c, g) \o r
      BY <1>7
    <3> QED
      BY <1>8, <3>1, PlaceAbove
  <2> QED
    BY <1>4, <2>1, <2>2
<1> HIDE DEF gone
<1>14. Beside(d, e, c, G)
  BY <1>12 DEF Beside
<1>15. \A g \in G : \A r : Pos(r) =>
         /\ Append(c, g) \o r \in DOMAIN e <=> g \in P /\ r \in DOMAIN v
         /\ g \in P /\ r \in DOMAIN v => e[Append(c, g) \o r] = v[r]
  BY <1>4, <1>9, <1>10, <1>11
<1> QED
  BY <1>1, <1>5, <1>13, <1>14, <1>15 DEF Filled, G, P

\* One place written: everything at G gone, and v at s.
LEMMA GraftFilled ==
  ASSUME NEW d, IsTree(d), NEW c, Pos(c), NEW G, NEW v, IsTree(v), NEW s
  PROVE  Filled(Graft(EraseAll(d, {Append(c, g) : g \in G}), Append(c, s), v), d, c, {s} \cup G, {s}, v)
<1> DEFINE gone == {Append(c, g) : g \in G}
           k == EraseAll(d, gone)
           p == Append(c, s)
           e == Graft(k, p, v)
<1>1. /\ IsTree(k) /\ DOMAIN k = {q \in DOMAIN d : \A x \in gone : ~IsPrefix(x, q)}
      /\ \A q \in DOMAIN k : k[q] = d[q]
  BY EraseAllIs
<1>2. /\ \A g \in G : Append(c, g) \in gone
      /\ \A x \in gone : \E g \in G : x = Append(c, g)
  OBVIOUS
<1> HIDE DEF k, gone
<1>3. Pos(p)
  BY AppendPos
<1>4. /\ IsTree(e)
      /\ \A r : Pos(r) => (p \o r \in DOMAIN e <=> r \in DOMAIN v)
      /\ \A r \in DOMAIN v : e[p \o r] = v[r]
      /\ \A q : ~IsPrefix(p, q) => (q \in DOMAIN e <=> q \in DOMAIN k)
      /\ \A q \in DOMAIN e : ~IsPrefix(p, q) => e[q] = k[q]
  BY <1>1, <1>3, GraftIs
<1> HIDE DEF e
<1>5. e = [q \in DOMAIN e |-> e[q]] /\ \A q \in DOMAIN e : Pos(q)
  BY <1>4, TreePos DEF IsTree
<1>6. ASSUME NEW q, Pos(q), \A g \in {s} \cup G : ~IsPrefix(Append(c, g), q)
      PROVE  Agree(d, e, q)
  <2>1. ~IsPrefix(p, q) /\ \A x \in gone : ~IsPrefix(x, q)
    BY <1>2, <1>6
  <2> HIDE DEF p
  <2> QED
    BY <1>1, <1>4, <2>1 DEF Agree
<1>7. ASSUME NEW g \in {s} \cup G, NEW r, Pos(r)
      PROVE  /\ Append(c, g) \o r \in DOMAIN e <=> g \in {s} /\ r \in DOMAIN v
             /\ g \in {s} /\ r \in DOMAIN v => e[Append(c, g) \o r] = v[r]
  <2>1. CASE g = s
    BY <1>4, <1>7, <2>1
  <2>2. CASE g # s
    <3> DEFINE q == Append(c, g) \o r
    <3>1. IsPrefix(Append(c, g), q) /\ ~IsPrefix(p, q)
      BY <1>7, <2>2, PlaceAbove
    <3>2. Append(c, g) \in gone
      BY <1>2, <2>2
    <3> HIDE DEF q, p
    <3>3. q \notin DOMAIN e
      BY <1>1, <1>4, <3>1, <3>2
    <3> QED
      BY <2>2, <3>3 DEF q
  <2> QED
    BY <2>1, <2>2
<1>8. Beside(d, e, c, {s} \cup G)
  BY <1>6 DEF Beside
<1>9. Filled(e, d, c, {s} \cup G, {s}, v)
  BY <1>5, <1>7, <1>8 DEF Filled
<1> QED
  BY <1>9 DEF e, p, k, gone

LEMMA EraseFilled ==
  ASSUME NEW d, IsTree(d), NEW c, Pos(c), NEW G, NEW v
  PROVE  Filled(EraseAll(d, {Append(c, g) : g \in G}), d, c, G, {}, v)
<1> DEFINE gone == {Append(c, g) : g \in G}
           e == EraseAll(d, gone)
<1>1. /\ IsTree(e) /\ DOMAIN e = {q \in DOMAIN d : \A x \in gone : ~IsPrefix(x, q)}
      /\ \A q \in DOMAIN e : e[q] = d[q]
  BY EraseAllIs
<1>2. /\ \A g \in G : Append(c, g) \in gone
      /\ \A x \in gone : \E g \in G : x = Append(c, g)
  OBVIOUS
<1> HIDE DEF e, gone
<1>3. e = [q \in DOMAIN e |-> e[q]] /\ \A q \in DOMAIN e : Pos(q)
  BY <1>1, TreePos DEF IsTree
<1>4. ASSUME NEW q, Pos(q), \A g \in G : ~IsPrefix(Append(c, g), q)
      PROVE  Agree(d, e, q)
  BY <1>1, <1>2, <1>4 DEF Agree
<1>5. ASSUME NEW g \in G, NEW r, Pos(r)
      PROVE  Append(c, g) \o r \notin DOMAIN e
  <2>1. IsPrefix(Append(c, g), Append(c, g) \o r)
    BY <1>5, PlaceAbove
  <2> QED
    BY <1>1, <1>2, <2>1
<1>6. Beside(d, e, c, G)
  BY <1>4 DEF Beside
<1>7. Filled(e, d, c, G, {}, v)
  BY <1>3, <1>5, <1>6 DEF Filled
<1> QED
  BY <1>7 DEF e, gone

LEMMA WrittenFilled ==
  ASSUME NEW d, Formed(d), NEW c, Pos(c), NEW s, NEW kind, Slotted(d, c, s, kind), NEW v, IsTree(v)
  PROVE  Filled(Written(d, c, s, v), d, c, Gone(d, c, {s}), PutAt(d, c, {s}, v), v)
<1> DEFINE f == Written(d, c, s, v)
<1>0. IsTree(d) /\ \A x \in Field : x # AppendSlot
  BY SlotAssumption DEF Formed, InOrder
<1>1. CASE IsMessageAt(c)
  <2>1. s \in Field /\ Landing(d, c, s) = s
    BY <1>0, <1>1 DEF Slotted, Landing
  <2> DEFINE G == Siblings(s)
             k == EraseAll(d, {Append(c, g) : g \in G})
  <2>2. Gone(d, c, {s}) = {s} \cup G
    BY <2>1 DEF Gone
  <2>3. f = SetField(d, c, s, v)
    BY <1>0, <1>1, <2>1 DEF Written
  <2>4. CASE s \in Implicit /\ v = ScalarFragment(Default)
    <3>1. PutAt(d, c, {s}, v) = {}
      BY <2>4 DEF PutAt
    <3>2. f = Erase(k, Append(c, s))
      BY <2>3, <2>4 DEF SetField
    <3>3. OneofOf[s] = NoOneof
      BY <2>4, SchemaAssumption
    <3>4. G = {}
      BY <3>3 DEF Siblings
    <3>5. k = d
      <4>1. {Append(c, g) : g \in G} = {}
        BY <3>4
      <4> HIDE DEF G
      <4> QED
        BY <1>0, <4>1, EraseNone
    <3>6. Erase(d, Append(c, s)) = EraseAll(d, {Append(c, g) : g \in {s}})
      <4>1. {Append(c, g) : g \in {s}} = {Append(c, s)}
        OBVIOUS
      <4> QED
        BY <4>1 DEF Erase
    <3>7. f = EraseAll(d, {Append(c, g) : g \in {s}})
      BY <3>2, <3>5, <3>6
    <3>8. Filled(EraseAll(d, {Append(c, g) : g \in {s}}), d, c, {s}, {}, v)
      BY <1>0, EraseFilled
    <3>9. {s} \cup G = {s}
      BY <3>4
    <3> HIDE DEF f, G, k
    <3> QED
      BY <2>2, <3>1, <3>7, <3>8, <3>9 DEF f
  <2>5. CASE ~(s \in Implicit /\ v = ScalarFragment(Default))
    <3>1. PutAt(d, c, {s}, v) = {s}
      BY <2>1, <2>5 DEF PutAt
    <3>2. f = Graft(k, Append(c, s), v)
      BY <2>3, <2>5 DEF SetField
    <3>3. Filled(Graft(k, Append(c, s), v), d, c, {s} \cup G, {s}, v)
      BY <1>0, GraftFilled
    <3> HIDE DEF f, k, G
    <3> QED
      BY <2>2, <3>1, <3>2, <3>3 DEF f
  <2> QED
    BY <2>4, <2>5
<1>2. CASE ~IsMessageAt(c)
  <2> DEFINE l == Landing(d, c, s)
  <2>1. s \notin Field
    BY <1>2, SlottedIs
  <2>2. f = Graft(d, Append(c, l), v)
    BY <1>2 DEF Written, Landing
  <2>3. s \notin Implicit
    BY <2>1, SchemaAssumption
  <2>4. Gone(d, c, {s}) = {l} /\ PutAt(d, c, {s}, v) = {l}
    BY <2>1, <2>3 DEF Gone, PutAt
  <2> DEFINE G == {}
             k == EraseAll(d, {Append(c, g) : g \in G})
  <2>5. k = d
    <3>1. {Append(c, g) : g \in G} = {}
      OBVIOUS
    <3> QED
      BY <1>0, <3>1, EraseNone
  <2>6. Filled(Graft(k, Append(c, l), v), d, c, {l} \cup G, {l}, v)
    BY <1>0, GraftFilled
  <2>7. {l} \cup G = {l}
    OBVIOUS
  <2> HIDE DEF G, k, l, f
  <2> QED
    BY <2>2, <2>4, <2>5, <2>6, <2>7 DEF f
<1> QED
  BY <1>1, <1>2

LEMMA WithNone ==
  ASSUME NEW d, IsTree(d), NEW c, NEW v, NEW S, S = {}
  PROVE  With(d, c, S, v) = d
<1> DEFINE at(s) == Append(c, IF s = AppendSlot THEN Length(d, c) + 1 ELSE s)
           gone == {at(s) : s \in S} \cup {Append(c, t) : t \in UNION {Siblings(s) : s \in S \cap Field}}
           put  == {at(s) : s \in IF v = ScalarFragment(Default) THEN S \ Implicit ELSE S}
           more == {p \o r : p \in put, r \in DOMAIN v}
<1>1. With(d, c, S, v) =
        [q \in DOMAIN EraseAll(d, gone) \cup more |->
           IF q \in DOMAIN EraseAll(d, gone) THEN EraseAll(d, gone)[q]
           ELSE v[Rest(CHOOSE p \in put : IsPrefix(p, q), q)]]
  BY DEF With
<1>2. gone = {} /\ put = {}
  <2> HIDE DEF at
  <2> QED
    OBVIOUS
<1> HIDE DEF put, gone
<1>3. EraseAll(d, gone) = d
  BY <1>2, EraseNone
<1>4. more = {}
  BY <1>2
<1> DEFINE kept == EraseAll(d, gone)
<1> HIDE DEF more, kept
<1>5. [q \in DOMAIN kept \cup more |->
         IF q \in DOMAIN kept THEN kept[q] ELSE v[Rest(CHOOSE p \in put : IsPrefix(p, q), q)]]
       = [q \in DOMAIN d |-> d[q]]
  BY <1>3, <1>4 DEF kept
<1> QED
  BY <1>1, <1>5 DEF kept, IsTree

\* A list keeps its length when its elements are replaced.
LEMMA FilledPlaces ==
  ASSUME NEW d, Formed(d), NEW c, Pos(c), NEW S, \A s \in S : s \in Places(d, c),
         NEW v, <<>> \in DOMAIN v, NEW e, IsTree(e), Filled(e, d, c, S, S, v)
  PROVE  Places(e, c) = Places(d, c)
<1>0. IsTree(d)
  BY DEF Formed, InOrder
<1>1. ASSUME NEW k
      PROVE  k \in Places(e, c) <=> k \in Places(d, c)
  <2>1. k \in Places(e, c) <=> Has(e, Append(c, k))
    BY PlaceIs
  <2>2. k \in Places(d, c) <=> Has(d, Append(c, k))
    BY <1>0, PlaceIs
  <2>3. CASE k \in S
    <3>1. Pos(<<>>) /\ Append(c, k) \o <<>> = Append(c, k) /\ Pos(Append(c, k))
      BY RootPos, AppendPos, ConcatRoot
    <3>2. Append(c, k) \in DOMAIN e
      BY <2>3, <3>1 DEF Filled
    <3>3. Has(e, Append(c, k))
      BY <3>1, <3>2, PrefixOrder DEF Has, Under
    <3> QED
      BY <2>1, <2>3, <3>3
  <2>4. CASE k \notin S
    <3>1. ASSUME NEW q, Pos(q), IsPrefix(Append(c, k), q)
          PROVE  q \in DOMAIN d <=> q \in DOMAIN e
      <4>1. \A g \in S : ~IsPrefix(Append(c, g), q)
        BY <2>4, <3>1, PlaceOf
      <4> QED
        BY <3>1, <4>1 DEF Filled, Beside, Agree
    <3>2. \A q : q \in DOMAIN d \/ q \in DOMAIN e => Pos(q)
      BY <1>0, TreePos
    <3>3. Has(d, Append(c, k)) <=> Has(e, Append(c, k))
      BY <3>1, <3>2 DEF Has, Under
    <3> QED
      BY <2>1, <2>2, <3>3
  <2> QED
    BY <2>3, <2>4
<1> QED
  BY <1>1

\* Writes one after another, of one value at places of which none takes another
\* with it, are one write.
LEMMA WithNext ==
  ASSUME NEW d, Formed(d), NEW c, Pos(c), NEW S, NEW kind, \A s \in S : Slotted(d, c, s, kind),
         NEW v, IsTree(v), ~IsMessageAt(c) => <<>> \in DOMAIN v,
         Formed(With(d, c, S, v)),
         NEW h, Slotted(d, c, h, kind), Slotted(With(d, c, S, v), c, h, kind),
         h \in Field => Siblings(h) \cap S = {},
         h = AppendSlot => AppendSlot \notin S
  PROVE  Written(With(d, c, S, v), c, h, v) = With(d, c, S \cup {h}, v)
<1> DEFINE e == With(d, c, S, v)
           f == Written(e, c, h, v)
           U == S \cup {h}
<1>1. IsTree(d) /\ IsTree(e)
  BY DEF Formed, InOrder
<1>2. Filled(e, d, c, Gone(d, c, S), PutAt(d, c, S, v), v)
  BY <1>1, WithFilled
<1> HIDE DEF e
<1>3. Filled(f, e, c, Gone(e, c, {h}), PutAt(e, c, {h}, v), v)
  BY WrittenFilled DEF e
<1>4. Filled(With(d, c, U, v), d, c, Gone(d, c, U), PutAt(d, c, U, v), v)
  BY <1>1, WithFilled
<1>5. \A s \in Field : s # AppendSlot /\ s \notin Int
  BY SlotAssumption, SchemaAssumption
<1>6. ASSUME NEW s \in U
      PROVE  /\ (s \in Field /\ IsMessageAt(c)) \/ (s \notin Field /\ ~IsMessageAt(c))
             /\ s = AppendSlot => IsListAt(c) /\ Length(d, c) \in Nat
             /\ IsListAt(c) /\ s # AppendSlot => s \in 1 .. Length(d, c) /\ s \in Nat
  <2>1. Slotted(d, c, s, kind)
    BY <1>6
  <2>2. (IsMessageAt(c) => s \in Field) /\ (~IsMessageAt(c) => s \notin Field)
    BY <2>1, SlottedIs DEF Slotted
  <2>3. s = AppendSlot => IsListAt(c)
    <3>1. s = AppendSlot => ~IsMessageAt(c)
      BY <1>5, <2>2
    <3>2. IsMapAt(c) => s \in Key
      BY <2>1 DEF Slotted
    <3> QED
      BY <3>1, <3>2, SlotAssumption, KindsOfContainer
  <2>4. IsListAt(c) => Length(d, c) \in Nat /\ Places(d, c) = 1 .. Length(d, c)
    BY ListPlaces
  <2>5. IsListAt(c) /\ s # AppendSlot => s \in Places(d, c)
    BY <1>1, <2>1, PlaceIs DEF Slotted
  <2>6. IsListAt(c) /\ s # AppendSlot => s \in 1 .. Length(d, c)
    BY <2>4, <2>5
  <2>7. IsListAt(c) /\ s # AppendSlot => s \in Nat
    BY <2>4, <2>6
  <2>8. (s \in Field /\ IsMessageAt(c)) \/ (s \notin Field /\ ~IsMessageAt(c))
    BY <2>2
  <2> QED
    BY <2>3, <2>4, <2>6, <2>7, <2>8
<1>7. Landing(e, c, h) = Landing(d, c, h)
  <2>1. CASE h # AppendSlot
    BY <2>1 DEF Landing
  <2>2. CASE h = AppendSlot
    <3>1. IsListAt(c) /\ AppendSlot \notin S /\ ~IsMessageAt(c)
      BY <1>6, <2>2, KindsOfContainer
    <3>2. \A s \in S : s \notin Field /\ s # AppendSlot /\ s \in 1 .. Length(d, c)
      BY <1>6, <3>1
    <3>3. Gone(d, c, S) = S /\ PutAt(d, c, S, v) = S
      <4>1. \A s \in S : Landing(d, c, s) = s /\ s \notin Implicit
        BY <3>2, SchemaAssumption DEF Landing
      <4>2. S \cap Field = {} /\ S \ Implicit = S
        BY <3>2, <4>1
      <4>3. {Landing(d, c, s) : s \in S} = S
        BY <4>1
      <4> QED
        BY <4>2, <4>3 DEF Gone, PutAt
    <3>4. \A s \in S : s \in Places(d, c)
      BY <3>1, <3>2, ListPlaces
    <3>5. Places(e, c) = Places(d, c)
      BY <1>1, <1>2, <3>1, <3>3, <3>4, FilledPlaces
    <3> QED
      BY <3>5 DEF Landing, Length
  <2> QED
    BY <2>1, <2>2
<1>8. Gone(e, c, {h}) = Gone(d, c, {h}) /\ PutAt(e, c, {h}, v) = PutAt(d, c, {h}, v)
  BY <1>7 DEF Gone, PutAt
<1>9. PutAt(d, c, {h}, v) \subseteq Gone(d, c, {h})
  BY DEF PutAt, Gone
<1>10. Filled(f, d, c, Gone(d, c, S) \cup Gone(d, c, {h}),
              (PutAt(d, c, S, v) \ Gone(d, c, {h})) \cup PutAt(d, c, {h}, v), v)
  <2> HIDE DEF f
  <2> QED
    BY <1>2, <1>3, <1>8, <1>9, FilledTwice
<1>11. Gone(d, c, S) \cup Gone(d, c, {h}) = Gone(d, c, U)
  BY DEF Gone
<1>12. PutAt(d, c, S, v) \cup PutAt(d, c, {h}, v) = PutAt(d, c, U, v)
  BY DEF PutAt
<1>13. ASSUME NEW x \in PutAt(d, c, S, v), x \in Gone(d, c, {h})
       PROVE  x \in PutAt(d, c, {h}, v)
  <2>1. PICK s \in S : x = Landing(d, c, s) /\ (v = ScalarFragment(Default) => s \notin Implicit)
    BY <1>13 DEF PutAt
  <2>2. s \in U /\ h \in U
    BY <2>1
  <2>3. x = Landing(d, c, h) \/ (h \in Field /\ x \in Siblings(h))
    BY <1>13 DEF Gone
  <2>4. CASE h \in Field /\ x \in Siblings(h)
    <3>1. x \in Field
      BY <2>4 DEF Siblings
    <3>2. IsMessageAt(c)
      BY <1>6, <2>2, <2>4
    <3>3. s \in Field
      BY <1>6, <2>2, <3>2
    <3>4. x = s
      BY <1>5, <2>1, <3>3 DEF Landing
    <3> QED
      BY <2>4, <3>4
  <2>5. CASE x = Landing(d, c, h)
    <3>1. s = h
      <4>1. CASE h = AppendSlot
        <5>1. s # AppendSlot
          BY <4>1
        <5>2. x = Length(d, c) + 1 /\ x = s
          BY <2>1, <2>5, <4>1, <5>1 DEF Landing
        <5>3. Length(d, c) \in Nat /\ s \in 1 .. Length(d, c)
          BY <1>6, <2>2, <4>1, <5>1
        <5> QED
          BY <5>2, <5>3
      <4>2. CASE h # AppendSlot
        <5>1. x = h
          BY <2>5, <4>2 DEF Landing
        <5>2. CASE s = AppendSlot
          <6>1. x = Length(d, c) + 1
            BY <2>1, <5>2 DEF Landing
          <6>2. Length(d, c) \in Nat /\ h \in 1 .. Length(d, c)
            BY <1>6, <2>2, <4>2, <5>2
          <6> QED
            BY <5>1, <6>1, <6>2
        <5>3. CASE s # AppendSlot
          BY <2>1, <5>1, <5>3 DEF Landing
        <5> QED
          BY <5>2, <5>3
      <4> QED
        BY <4>1, <4>2
    <3> QED
      BY <2>1, <2>5, <3>1 DEF PutAt
  <2> QED
    BY <2>3, <2>4, <2>5
<1>14. (PutAt(d, c, S, v) \ Gone(d, c, {h})) \cup PutAt(d, c, {h}, v) = PutAt(d, c, U, v)
  BY <1>12, <1>13
<1> HIDE DEF f, U
<1>15. Filled(f, d, c, Gone(d, c, U), PutAt(d, c, U, v), v)
  BY <1>10, <1>11, <1>14
<1>16. f = With(d, c, U, v)
  BY <1>4, <1>15, FilledOnce
<1> QED
  BY <1>16 DEF f, e, U

-----------------------------------------------------------------------------
(* Insertions into a list.                                                 *)

\* How many of the places K are at i or before it.
UpTo(K, i) == Cardinality({s \in K : s <= i})

LEMMA UpToIs ==
  ASSUME NEW n \in Nat, NEW K \in SUBSET (1 .. n)
  PROVE  /\ \A i \in Nat : UpTo(K, i) \in Nat
         /\ \A i, j \in Nat : j <= i => UpTo(K, j) <= UpTo(K, i)
         /\ UpTo(K, 0) = 0 /\ UpTo(K, n) = Cardinality(K) /\ Cardinality(K) \in Nat
         /\ \A i \in Nat : i + 1 \in K => UpTo(K, i + 1) = UpTo(K, i) + 1
         /\ \A i \in Nat : i + 1 \notin K => UpTo(K, i + 1) = UpTo(K, i)
<1> DEFINE L(i) == {s \in K : s <= i}
<1>0. \A s \in K : s \in Nat /\ 1 <= s /\ s <= n
  OBVIOUS
<1>1. IsFiniteSet(K)
  <2>1. IsFiniteSet(1 .. n)
    BY Counted
  <2> QED
    BY <2>1, FS_Subset
<1>2. ASSUME NEW i \in Nat
      PROVE  IsFiniteSet(L(i)) /\ Cardinality(L(i)) \in Nat
  <2>1. L(i) \subseteq K
    OBVIOUS
  <2> HIDE DEF L
  <2> QED
    BY <1>1, <2>1, FS_Subset, FS_CardinalityType
<1>3. ASSUME NEW i \in Nat, NEW j \in Nat, j <= i
      PROVE  Cardinality(L(j)) <= Cardinality(L(i))
  <2>1. ASSUME NEW s \in K, s <= j
        PROVE  s <= i
    BY <1>0, <1>3, <2>1
  <2>2. L(j) \subseteq L(i)
    BY <2>1
  <2> HIDE DEF L
  <2> QED
    BY <1>2, <2>2, FS_Subset
<1>4. L(0) = {} /\ L(n) = K
  <2>1. \A s \in K : ~(s <= 0) /\ s <= n
    BY <1>0
  <2> QED
    BY <2>1
<1>5. ASSUME NEW i \in Nat
      PROVE  /\ i + 1 \in K => Cardinality(L(i + 1)) = Cardinality(L(i)) + 1
             /\ i + 1 \notin K => Cardinality(L(i + 1)) = Cardinality(L(i))
  <2>0. \A s \in K : s <= i + 1 <=> s <= i \/ s = i + 1
    BY <1>0
  <2>1. CASE i + 1 \in K
    <3>1. i + 1 \notin L(i)
      OBVIOUS
    <3>2. i + 1 <= i + 1
      OBVIOUS
    <3>3. L(i + 1) = L(i) \cup {i + 1}
      BY <2>0, <2>1, <3>2
    <3> HIDE DEF L
    <3>4. Cardinality(L(i) \cup {i + 1}) = Cardinality(L(i)) + 1
      BY <1>2, <3>1, FS_AddElement
    <3> QED
      BY <2>1, <3>3, <3>4
  <2>2. CASE i + 1 \notin K
    <3>2. L(i + 1) = L(i)
      BY <2>0, <2>2
    <3> HIDE DEF L
    <3> QED
      BY <1>2, <2>2, <3>2
  <2> QED
    BY <2>1, <2>2
<1>6. \A i : UpTo(K, i) = Cardinality(L(i))
  BY DEF UpTo
<1> HIDE DEF L
<1>7. Cardinality(L(0)) = 0
  BY <1>4, FS_EmptySet
<1> QED
  BY <1>2, <1>3, <1>4, <1>5, <1>6, <1>7

\* x is the first i of old, with v before each of K.
Spread(x, old, v, K, i) ==
  /\ Len(x) = i + UpTo(K, i)
  /\ \A j \in 1 .. i : x[j + UpTo(K, j)] = old[j]
  /\ \A k \in 1 .. i + UpTo(K, i) : (\A j \in 1 .. i : j + UpTo(K, j) # k) => x[k] = v

LEMMA SpreadNext ==
  ASSUME NEW n \in Nat, NEW K \in SUBSET (1 .. n), NEW T, NEW old \in [1 .. n -> T], NEW v \in T,
         NEW i \in 1 .. n, NEW y \in Seq(T), Spread(y, old, v, K, i - 1),
         NEW x, x = IF i \in K THEN <<v, old[i]>> ELSE <<old[i]>>
  PROVE  y \o x \in Seq(T) /\ Spread(y \o x, old, v, K, i)
<1> DEFINE m == i - 1 + UpTo(K, i - 1)
           up(j) == j + UpTo(K, j)
<1>1. i \in Nat /\ i - 1 \in Nat /\ i = (i - 1) + 1
  OBVIOUS
<1>2. /\ i \in K => UpTo(K, i) = UpTo(K, i - 1) + 1
      /\ i \notin K => UpTo(K, i) = UpTo(K, i - 1)
  <2>1. /\ \A j \in Nat : j + 1 \in K => UpTo(K, j + 1) = UpTo(K, j) + 1
        /\ \A j \in Nat : j + 1 \notin K => UpTo(K, j + 1) = UpTo(K, j)
    BY UpToIs
  <2> DEFINE h == i - 1
  <2>2. h \in Nat /\ h + 1 = i
    BY <1>1
  <2> HIDE DEF h
  <2>3. /\ i \in K => UpTo(K, i) = UpTo(K, h) + 1
        /\ i \notin K => UpTo(K, i) = UpTo(K, h)
    <3>1. /\ h + 1 \in K => UpTo(K, h + 1) = UpTo(K, h) + 1
          /\ h + 1 \notin K => UpTo(K, h + 1) = UpTo(K, h)
      BY <2>1, <2>2, Zenon
    <3> QED
      BY <2>2, <3>1, Zenon
  <2> QED
    BY <2>3 DEF h
<1>3. \A j \in Nat : UpTo(K, j) \in Nat
  BY UpToIs
<1>4. \A j \in 1 .. i - 1 : up(j) \in 1 .. m /\ j \in Nat
  <2> TAKE j \in 1 .. i - 1
  <2>1. j \in Nat /\ 1 <= j /\ j <= i - 1
    BY <1>1
  <2>2. UpTo(K, j) \in Nat
    BY <1>3, <2>1
  <2>3. UpTo(K, i - 1) \in Nat
    BY <1>1, <1>3
  <2>4. UpTo(K, j) <= UpTo(K, i - 1)
    <3>1. \A a, b \in Nat : b <= a => UpTo(K, b) <= UpTo(K, a)
      BY UpToIs
    <3> QED
      BY <1>1, <2>1, <3>1
  <2> QED
    BY <1>1, <2>1, <2>2, <2>3, <2>4
<1>5. m \in Nat /\ (i \in K => up(i) = m + 2) /\ (i \notin K => up(i) = m + 1)
  <2> DEFINE p == UpTo(K, i - 1)
             q == UpTo(K, i)
  <2>1. p \in Nat
    BY <1>1, <1>3
  <2>2. (i \in K => q = p + 1) /\ (i \notin K => q = p)
    BY <1>2
  <2>3. m = i - 1 + p /\ up(i) = i + q
    OBVIOUS
  <2> HIDE DEF m, up, p, q
  <2> QED
    BY <1>1, <2>1, <2>2, <2>3
<1>6. /\ Len(y) = m
      /\ \A j \in 1 .. i - 1 : y[up(j)] = old[j]
      /\ \A k \in 1 .. m : (\A j \in 1 .. i - 1 : up(j) # k) => y[k] = v
  BY DEF Spread
<1> HIDE DEF m, up
<1>7. old[i] \in T
  OBVIOUS
<1>8. CASE i \in K
  <2>1. x = <<v, old[i]>> /\ x \in Seq(T) /\ Len(x) = 2 /\ x[1] = v /\ x[2] = old[i]
    BY <1>7, <1>8
  <2> HIDE DEF Spread
  <2>2. y \o x \in Seq(T) /\ Len(y \o x) = m + 2
    BY <1>5, <1>6, <2>1
  <2>3. \A k \in 1 .. m : (y \o x)[k] = y[k]
    BY <1>5, <1>6, <2>1
  <2>4. (y \o x)[m + 1] = v /\ (y \o x)[m + 2] = old[i]
    BY <1>5, <1>6, <2>1
  <2>5. up(i) = m + 2
    BY <1>5, <1>8
  <2> DEFINE z == y \o x
  <2> HIDE DEF z
  <2>6. ASSUME NEW j \in 1 .. i
        PROVE  z[up(j)] = old[j]
    <3>1. CASE j = i
      BY <2>4, <2>5, <3>1 DEF z
    <3>2. CASE j # i
      <4>1. j \in 1 .. i - 1
        BY <1>1, <3>2
      <4> QED
        BY <1>4, <1>6, <2>3, <4>1 DEF z
    <3> QED
      BY <3>1, <3>2
  <2>7. ASSUME NEW k \in 1 .. m + 2, \A j \in 1 .. i : up(j) # k
        PROVE  z[k] = v
    <3>1. k # m + 2
      BY <1>1, <2>5, <2>7
    <3>2. CASE k = m + 1
      BY <2>4, <3>2 DEF z
    <3>3. CASE k # m + 1
      <4>1. k \in 1 .. m
        BY <1>5, <3>1, <3>3
      <4>2. \A j \in 1 .. i - 1 : up(j) # k
        BY <1>1, <2>7
      <4> QED
        BY <1>6, <2>3, <4>1, <4>2 DEF z
    <3> QED
      BY <3>2, <3>3
  <2>8. Len(z) = up(i)
    BY <2>2, <2>5 DEF z
  <2>9. Spread(z, old, v, K, i)
    BY <2>5, <2>6, <2>7, <2>8 DEF Spread, up
  <2> QED
    BY <2>2, <2>9 DEF z
<1>9. CASE i \notin K
  <2>1. x = <<old[i]>> /\ x \in Seq(T) /\ Len(x) = 1 /\ x[1] = old[i]
    BY <1>7, <1>9
  <2>2. y \o x \in Seq(T) /\ Len(y \o x) = m + 1
    BY <1>5, <1>6, <2>1
  <2>3. \A k \in 1 .. m : (y \o x)[k] = y[k]
    BY <1>5, <1>6, <2>1
  <2>4. (y \o x)[m + 1] = old[i]
    <3>1. y \in Seq(T) /\ Len(y) = m /\ m \in Nat
      BY <1>5, <1>6
    <3> QED
      BY <2>1, <3>1
  <2>5. up(i) = m + 1
    BY <1>5, <1>9
  <2> DEFINE z == y \o x
  <2> HIDE DEF z
  <2>6. ASSUME NEW j \in 1 .. i
        PROVE  z[up(j)] = old[j]
    <3>1. CASE j = i
      BY <2>4, <2>5, <3>1 DEF z
    <3>2. CASE j # i
      <4>1. j \in 1 .. i - 1
        BY <1>1, <3>2
      <4> QED
        BY <1>4, <1>6, <2>3, <4>1 DEF z
    <3> QED
      BY <3>1, <3>2
  <2>7. ASSUME NEW k \in 1 .. m + 1, \A j \in 1 .. i : up(j) # k
        PROVE  z[k] = v
    <3>1. k # m + 1
      BY <1>1, <2>5, <2>7
    <3>2. k \in 1 .. m
      BY <1>5, <3>1
    <3>3. \A j \in 1 .. i - 1 : up(j) # k
      BY <1>1, <2>7
    <3> QED
      BY <1>6, <2>3, <3>2, <3>3 DEF z
  <2>8. Len(z) = up(i)
    BY <2>2, <2>5 DEF z
  <2>9. Spread(z, old, v, K, i)
    BY <2>5, <2>6, <2>7, <2>8 DEF Spread, up
  <2> QED
    BY <2>2, <2>9 DEF z
<1> QED
  BY <1>8, <1>9

LEMMA FlatSpread ==
  ASSUME NEW n \in Nat, NEW K \in SUBSET (1 .. n), NEW T, NEW old \in [1 .. n -> T], NEW v \in T,
         NEW ss, ss = [i \in 1 .. n |-> IF i \in K THEN <<v, old[i]>> ELSE <<old[i]>>]
  PROVE  FlattenSeq(ss) \in Seq(T) /\ Spread(FlattenSeq(ss), old, v, K, n)
<1>1. Len(ss) = n /\ ss \in Seq(Seq(T))
  <2>1. \A i \in 1 .. n : ss[i] \in Seq(T)
    OBVIOUS
  <2> QED
    BY <2>1
<1>2. PICK f : /\ \A i \in 1 .. n : f[i] = IF i = 1 THEN ss[i] ELSE f[i - 1] \o ss[i]
               /\ FlattenSeq(ss) = IF n = 0 THEN ss ELSE f[n]
  <2>1. Len(ss) \in Nat
    BY <1>1
  <2>2. PICK f : Gathers(f, ss)
    BY <2>1, FlattenSteps
  <2>3. Len(ss) = n
    BY <1>1
  <2> QED
    BY <2>2, <2>3 DEF Gathers
<1> DEFINE g(i) == IF i = 0 THEN <<>> ELSE f[i]
           Good(i) == g(i) \in Seq(T) /\ Spread(g(i), old, v, K, i)
           Bad == {i \in 0 .. n : ~Good(i)}
<1>3. Good(0)
  <2>1. g(0) = <<>> /\ UpTo(K, 0) = 0
    BY UpToIs
  <2> QED
    BY <2>1 DEF Spread
<1>4. ASSUME NEW i \in 1 .. n, Good(i - 1)
      PROVE  Good(i)
  <2>1. g(i) = g(i - 1) \o ss[i]
    <3>1. ss[i] \in Seq(T)
      BY <1>1
    <3>2. CASE i = 1
      <4>1. <<>> \o ss[i] = ss[i]
        BY <3>1
      <4> QED
        BY <1>2, <3>2, <4>1
    <3>3. CASE i # 1
      <4>1. i # 0 /\ i - 1 # 0
        BY <3>3
      <4>2. g(i) = f[i] /\ g(i - 1) = f[i - 1]
        BY <4>1
      <4>3. f[i] = f[i - 1] \o ss[i]
        BY <1>2, <3>3
      <4> QED
        BY <4>2, <4>3
    <3> QED
      BY <3>2, <3>3
  <2>2. ss[i] = IF i \in K THEN <<v, old[i]>> ELSE <<old[i]>>
    OBVIOUS
  <2> HIDE DEF g
  <2>3. g(i - 1) \o ss[i] \in Seq(T) /\ Spread(g(i - 1) \o ss[i], old, v, K, i)
    BY <1>4, <2>2, SpreadNext
  <2> QED
    BY <2>1, <2>3
<1> HIDE DEF Good
<1>5. Bad = {}
  <2>1. SUFFICES ASSUME Bad # {}
                 PROVE  FALSE
    OBVIOUS
  <2>2. Bad \in SUBSET Nat
    OBVIOUS
  <2>3. PICK m \in Bad : \A j \in Bad : m <= j
    BY <2>1, <2>2, LeastNat
  <2>4. m \in 0 .. n /\ ~Good(m) /\ m # 0
    BY <1>3, <2>3
  <2>5. m \in 1 .. n /\ m - 1 \in 0 .. n /\ ~(m <= m - 1)
    BY <2>4
  <2>6. Good(m - 1)
    BY <2>3, <2>5
  <2> QED
    BY <1>4, <2>4, <2>5, <2>6
<1>6. Good(n)
  BY <1>5
<1>7. FlattenSeq(ss) = g(n)
  <2>1. CASE n = 0
    <3>1. ss = <<>>
      BY <1>1, <2>1
    <3> QED
      BY <1>2, <2>1, <3>1
  <2>2. CASE n # 0
    BY <1>2, <2>2
  <2> QED
    BY <2>1, <2>2
<1> QED
  BY <1>6, <1>7 DEF Good

LEMMA JoinedLast ==
  ASSUME NEW T, NEW a \in Seq(T), NEW b \in Seq(T), Len(b) = 1
  PROVE  (a \o b)[Len(a) + 1] = b[1]
OBVIOUS

\* The list that is built in one pass is the list with the copies in between.
LEMMA SpliceMeets ==
  ASSUME NEW d, Formed(d), NEW c, Pos(c), Lives(d, c), IsListAt(c), NEW v,
         NEW S, \A s \in S : s = AppendSlot \/ s \in 1 .. Length(d, c)
  PROVE  PutElements(d, c, Spliced(Elements(d, c), v, S)) = Interleaved(d, c, S, v)
<1> DEFINE n == Length(d, c)
           K == S \cap (1 .. n)
           old == Elements(d, c)
           T == {v} \cup {ValueAt(d, Append(c, i)) : i \in 1 .. n}
           ss == [i \in 1 .. n |-> IF i \in K THEN <<v, old[i]>> ELSE <<old[i]>>]
           flat == FlattenSeq(ss)
           tail == IF AppendSlot \in S THEN <<v>> ELSE <<>>
           up(i) == i + UpTo(K, i)
           total == n + Cardinality(S)
           olds(j) == {i \in 1 .. n : up(i) = j}
           w == [j \in 1 .. total |->
                   IF olds(j) = {} THEN v ELSE ValueAt(d, Append(c, CHOOSE i \in olds(j) : TRUE))]
<1>1. n \in Nat /\ K \in SUBSET (1 .. n) /\ v \in T
  BY ListPlaces
<1>2. old = [i \in 1 .. n |-> ValueAt(d, Append(c, i))]
  BY DEF Elements
<1>3. old \in [1 .. n -> T] /\ DOMAIN old = 1 .. n
  BY <1>2
<1>4. Spliced(old, v, S) = flat \o tail
  <2>1. ss = [i \in DOMAIN old |-> IF i \in S THEN <<v, old[i]>> ELSE <<old[i]>>]
    <3> HIDE DEF old
    <3>1. \A i \in 1 .. n : i \in K <=> i \in S
      OBVIOUS
    <3> QED
      BY <1>3, <3>1
  <2> HIDE DEF ss, old
  <2> QED
    BY <2>1 DEF Spliced
<1>5. Interleaved(d, c, S, v) = PutElements(d, c, w)
  BY DEF Interleaved, UpTo
<1> HIDE DEF n, K, old, T
<1>6. flat \in Seq(T) /\ Spread(flat, old, v, K, n)
  <2>1. ss = [i \in 1 .. n |-> IF i \in K THEN <<v, old[i]>> ELSE <<old[i]>>]
    OBVIOUS
  <2> HIDE DEF ss
  <2> QED
    BY <1>1, <1>3, <2>1, FlatSpread
<1> HIDE DEF flat
<1>7. /\ UpTo(K, n) = Cardinality(K) /\ Cardinality(K) \in Nat
      /\ \A i \in Nat : UpTo(K, i) \in Nat
      /\ \A i, j \in Nat : j <= i => UpTo(K, j) <= UpTo(K, i)
  BY <1>1, UpToIs
<1>8. IsFiniteSet(K) /\ AppendSlot \notin K
  <2>1. IsFiniteSet(1 .. n)
    BY <1>1, Counted
  <2>2. AppendSlot \notin Int
    BY SlotAssumption
  <2>3. IsFiniteSet(K)
    BY <1>1, <2>1, FS_Subset
  <2>4. \A s \in K : s \in Int
    BY <1>1
  <2> QED
    BY <2>2, <2>3, <2>4
<1>9. /\ AppendSlot \in S => Cardinality(S) = Cardinality(K) + 1
      /\ AppendSlot \notin S => Cardinality(S) = Cardinality(K)
  <2>1. \A s \in S : s = AppendSlot \/ s \in K
    BY DEF K, n
  <2>2. \A s \in K : s \in S
    BY DEF K
  <2>3. CASE AppendSlot \in S
    <3>1. S = K \cup {AppendSlot}
      BY <2>1, <2>2, <2>3
    <3>2. Cardinality(K \cup {AppendSlot}) = Cardinality(K) + 1
      BY <1>8, FS_AddElement
    <3> QED
      BY <2>3, <3>1, <3>2
  <2>4. CASE AppendSlot \notin S
    <3>1. S = K
      BY <2>1, <2>2, <2>4
    <3> QED
      BY <2>4, <3>1
  <2> QED
    BY <2>3, <2>4
<1> DEFINE m == n + Cardinality(K)
<1>10. /\ m \in Nat /\ Len(flat) = m
       /\ \A i \in 1 .. n : flat[up(i)] = old[i]
       /\ \A k \in 1 .. m : (\A i \in 1 .. n : up(i) # k) => flat[k] = v
  <2>1. m \in Nat /\ m = n + UpTo(K, n)
    BY <1>1, <1>7
  <2> HIDE DEF m
  <2>2. /\ Len(flat) = n + UpTo(K, n)
        /\ \A i \in 1 .. n : flat[i + UpTo(K, i)] = old[i]
        /\ \A k \in 1 .. n + UpTo(K, n) : (\A i \in 1 .. n : i + UpTo(K, i) # k) => flat[k] = v
    BY <1>6 DEF Spread
  <2> QED
    BY <2>1, <2>2
<1>11. ASSUME NEW i \in 1 .. n
       PROVE  up(i) \in 1 .. m
  <2>1. i \in Nat /\ 1 <= i /\ i <= n /\ n \in Nat
    BY <1>1
  <2>2. UpTo(K, i) \in Nat /\ UpTo(K, i) <= Cardinality(K) /\ Cardinality(K) \in Nat
    BY <1>7, <2>1
  <2> QED
    BY <2>1, <2>2
<1>12. \A i \in 1 .. n : old[i] = ValueAt(d, Append(c, i))
  BY <1>2
<1>13. /\ total \in Nat
       /\ AppendSlot \in S => total = m + 1
       /\ AppendSlot \notin S => total = m
  BY <1>1, <1>7, <1>9
<1> HIDE DEF m, total, up
<1> DEFINE x == flat \o tail
<1>14. tail \in Seq(T) /\ (AppendSlot \in S => tail = <<v>> /\ Len(tail) = 1) /\ (AppendSlot \notin S => tail = <<>> /\ Len(tail) = 0)
  BY <1>1
<1> HIDE DEF tail
<1>15. x \in Seq(T) /\ Len(x) = total
  <2>1. x \in Seq(T) /\ Len(x) = Len(flat) + Len(tail)
    BY <1>6, <1>14
  <2>2. CASE AppendSlot \in S
    BY <1>10, <1>13, <1>14, <2>1, <2>2
  <2>3. CASE AppendSlot \notin S
    BY <1>10, <1>13, <1>14, <2>1, <2>3
  <2> QED
    BY <2>2, <2>3
<1>16. \A k \in 1 .. m : x[k] = flat[k]
  BY <1>6, <1>10, <1>14
<1>17. AppendSlot \in S => x[m + 1] = v
  <2>1. SUFFICES ASSUME AppendSlot \in S
                 PROVE  x[m + 1] = v
    OBVIOUS
  <2>2. tail \in Seq(T) /\ Len(tail) = 1 /\ tail[1] = v
    BY <1>14, <2>1
  <2>3. x[m + 1] = tail[1]
    <3>1. flat \in Seq(T) /\ Len(flat) = m /\ m \in Nat
      BY <1>6, <1>10
    <3> QED
      BY <2>2, <3>1, JoinedLast
  <2> QED
    BY <2>2, <2>3
<1> HIDE DEF x
<1>18. ASSUME NEW k \in 1 .. total
       PROVE  x[k] = w[k]
  <2> DEFINE O == olds(k)
  <2>1. w[k] = IF O = {} THEN v ELSE ValueAt(d, Append(c, CHOOSE i \in O : TRUE))
    OBVIOUS
  <2>2. CASE O = {}
    <3>1. \A i \in 1 .. n : up(i) # k
      BY <2>2
    <3>2. x[k] = v
      <4>1. CASE k \in 1 .. m
        BY <1>10, <1>16, <3>1, <4>1
      <4>2. CASE k \notin 1 .. m
        <5>1. AppendSlot \in S /\ k = m + 1
          BY <1>10, <1>13, <4>2
        <5> QED
          BY <1>17, <5>1
      <4> QED
        BY <4>1, <4>2
    <3> QED
      BY <2>1, <2>2, <3>2
  <2>3. CASE O # {}
    <3> DEFINE i == CHOOSE i \in O : TRUE
    <3>1. i \in O
      BY <2>3
    <3>2. i \in 1 .. n /\ up(i) = k
      BY <3>1
    <3>3. w[k] = ValueAt(d, Append(c, i))
      BY <2>1, <2>3
    <3> HIDE DEF i, O, w
    <3>4. k \in 1 .. m
      BY <1>11, <3>2
    <3>5. x[k] = old[i]
      BY <1>10, <1>16, <3>2, <3>4
    <3> QED
      BY <1>12, <3>2, <3>3, <3>5
  <2> QED
    BY <2>2, <2>3
<1>19. x = w
  <2>1. x = [k \in 1 .. total |-> x[k]]
    BY <1>15
  <2>2. w = [k \in 1 .. total |-> w[k]]
    OBVIOUS
  <2> HIDE DEF w
  <2>3. [k \in 1 .. total |-> x[k]] = [k \in 1 .. total |-> w[k]]
    BY <1>18, Zenon
  <2> QED
    BY <2>1, <2>2, <2>3
<1> QED
  BY <1>4, <1>5, <1>19 DEF x, old

-----------------------------------------------------------------------------
(* The invariant.  b is the document as the entry found it, and at that    *)
(* document with the messages on the way to the container: what the        *)
(* selectors are resolved against.  Some set R of the targets is done: the *)
(* draft is what the operation makes of at for R alone, and the frame's    *)
(* locs are the rest.                                                      *)

Wanted(at, fr) == Selected(at, fr.c, fr.entries[fr.i])

IsSource(fr, s) == Append(fr.c, s) = Append(fr.src.c, fr.src.s)

Others(fr, R) == {s \in R : ~IsSource(fr, s)}

\* The positions found so far, before the first write.
Sought(at, fr) ==
  LET ent == fr.entries[fr.i] IN
  /\ Range(fr.locs) = UNION {Range(Kept(at, fr.c, ent.targets[j], ent.op.kind)) : j \in 1 .. fr.n - 1}
  /\ fr.n - 1 <= Len(ent.targets)

\* What has become of the document, one kind of operation at a time.
Removing(d, at, fr, R) ==
  /\ d = Without(at, fr.c, R)
  /\ IsListAt(fr.c) => \A x \in R, y \in Range(fr.locs) : y < x

Assigning(d, at, fr, R) ==
  ~SharesOneof(Wanted(at, fr)) => d = With(at, fr.c, R, Content(fr.entries[fr.i].op.value))

Inserting(d, at, fr, R) ==
  LET v == Content(fr.entries[fr.i].op.value) IN
  /\ IsListAt(fr.c) =>
       \/ R = {} /\ d = at
       \/ fr.locs = <<>> /\ d = Interleaved(at, fr.c, Wanted(at, fr), v)
  /\ ~IsListAt(fr.c) => ~SharesOneof(R) /\ d = With(at, fr.c, R, v)

Apart(at, fr) ==
  /\ ~SharesOneof(Wanted(at, fr))
  /\ ~SourceGrows(fr.c, fr.src)
  /\ ~SourceMistaken(fr.c, Wanted(at, fr), fr.src)

Moving(d, at, fr, R) ==
  /\ fr.src.attached <=> ~Displaced(fr.c, Others(fr, R), fr.src)
  /\ fr.src.held = ValueAt(at, Append(fr.src.c, fr.src.s))
  /\ fr.src.same <=> \E s \in R : IsSource(fr, s)
  /\ d = With(at, fr.c, Others(fr, R), fr.src.held)

Done(d, at, fr, R) ==
  /\ R \cup Range(fr.locs) = Wanted(at, fr)
  /\ AppendSlot \in R => AppendSlot \notin Range(fr.locs)
  /\ fr.pc = "remove" => Removing(d, at, fr, R)
  /\ fr.pc = "assign" => Assigning(d, at, fr, R)
  /\ fr.pc = "insert" => Inserting(d, at, fr, R)
  /\ fr.pc = "from" => R = {} /\ d = at
  /\ fr.pc = "relocate" /\ Apart(at, fr) => Moving(d, at, fr, R)

Acts == {"remove", "assign", "insert", "from", "relocate"}

Told(d, b, at, fr) ==
  /\ Formed(b) /\ Formed(at) /\ Lives(at, fr.c)
  /\ fr.entries[fr.i].op.kind = "test" => d = b /\ d = at
  /\ fr.pc \in {"path", "targets"} => d = at
  /\ fr.pc \in {"path", "targets", "from"} => fr.src.attached /\ ~fr.src.same
  /\ fr.entries[fr.i].op.kind # "test" => AppendsOnce(fr.locs)
  /\ fr.pc = "targets" /\ fr.entries[fr.i].op.kind # "test" => Sought(at, fr)
  /\ fr.pc \in Acts =>
       /\ Wanted(at, fr) # {}
       /\ \A s \in Wanted(at, fr) : Slotted(at, fr.c, s, fr.entries[fr.i].op.kind)
       /\ \E R \in SUBSET Wanted(at, fr) : Done(d, at, fr, R)

\* An entry on targets that has not ended, and whose path clears no oneof.
Followed(b, fr) ==
  /\ fr.pc # "done" /\ fr.entries[fr.i].scope = "targets" /\ fr.entries[fr.i].op.kind # "nest"
  /\ ~PathClears(b, fr.c)

Story(d, b, fr) ==
  /\ fr.pc = "container" => fr.entries[fr.i].scope = "container"
  /\ Followed(b, fr) => Told(d, b, WithPath(b, fr.c), fr)

HInv ==
  /\ outcome = "called" => entered = <<>>
  /\ outcome = "running" =>
       /\ Pos(entered) /\ Len(entered) = Len(stack)
       /\ Story(draft, Head(entered), top)

\* The first step of an entry: the document is as it was found.
LEMMA PathThere ==
  ASSUME NEW d, Formed(d), NEW c, Pos(c), Lives(d, c)
  PROVE  WithPath(d, c) = d
<1>0. IsTree(d)
  BY DEF Formed, InOrder
<1>1. Absent(d, c) = {}
  <2> SUFFICES ASSUME NEW p \in Absent(d, c) PROVE FALSE
    OBVIOUS
  <2>1. Pos(p) /\ IsPrefix(p, c) /\ IsMessageAt(p) /\ p \notin DOMAIN d
    BY AbsentIs
  <2> QED
    BY <2>1, LivesAbove
<1>2. DOMAIN WithPath(d, c) = DOMAIN d /\ \A q \in DOMAIN d : WithPath(d, c)[q] = d[q]
  BY <1>1, WithPathIs
<1>3. IsTree(WithPath(d, c))
  BY <1>0, WithPathTree
<1> QED
  BY <1>0, <1>2, <1>3, TreeEqual

LEMMA StoryStarts ==
  ASSUME NEW d, Formed(d), NEW fr, Pos(fr.c), Lives(d, fr.c), fr.pc = "path", fr.locs = <<>>, fr.src = NoSource
  PROVE  Story(d, d, fr)
<1>1. WithPath(d, fr.c) = d
  BY PathThere
<1>2. AppendsOnce(fr.locs)
  BY DEF AppendsOnce
<1>3. fr.src.attached /\ ~fr.src.same
  BY DEF NoSource
<1> QED
  BY <1>1, <1>2, <1>3 DEF Story, Told, Acts

\* A step inside an entry keeps its story, if the new frame does.
LEMMA StoryGoesOn ==
  ASSUME IInv, HInv, outcome = "running", Remember, NEW fr, Continue(fr), UNCHANGED outcome,
         fr.i = top.i, Story(draft', Head(entered), fr)
  PROVE  HInv'
<1>1. stack # <<>> /\ Len(stack) \in Nat \ {0} /\ Len(Tail(stack)) = Len(stack) - 1
      /\ Tail(stack) \in Seq(Range(stack))
  BY StackFacts DEF IInv
<1>2. Head(stack') = fr /\ Len(stack') = Len(stack) /\ stack' # <<>>
  BY <1>1 DEF Continue
<1>3. entered' = entered
  <2>1. Head(stack').i = Head(stack).i
    BY <1>2 DEF top
  <2> QED
    BY <1>1, <1>2, <2>1 DEF Remember
<1>4. Pos(entered) /\ Len(entered) = Len(stack)
  BY DEF HInv
<1>5. top' = fr
  BY <1>2 DEF top
<1>6. Story(draft', Head(entered'), top')
  BY <1>3, <1>5
<1>7. outcome' = "running" /\ Pos(entered') /\ Len(entered') = Len(stack')
  BY <1>2, <1>3, <1>4
<1> QED
  BY <1>6, <1>7 DEF HInv

\* A frame that is at the beginning of an entry, or past its targets.
LEMMA StoryBegins ==
  ASSUME IInv', outcome' = "running", NEW fr, Head(stack') = fr, stack' # <<>>, Len(stack') \in Nat,
         fr.c = fr.base, fr.pc = "path", fr.locs = <<>>, fr.src = NoSource
  PROVE  Story(draft', draft', fr)
<1>1. Formed(draft') /\ FramesOK'
  BY DEF IInv, DraftInv
<1>2. stack' \in Seq(Range(stack')) /\ \A x \in Range(stack') : IsFrame(x)
  BY DEF IInv, Inv, CallInv
<1>3. stack'[1] = fr /\ 1 \in 1 .. Len(stack') /\ fr \in Range(stack')
  BY <1>2, TailIs
<1>4. FrameOK(draft', stack'[1])
  BY <1>1, <1>3 DEF FramesOK
<1>5. Lives(draft', fr.c) /\ Pos(fr.c)
  BY <1>2, <1>3, <1>4 DEF FrameOK, IsFrame
<1> QED
  BY <1>1, <1>5, StoryStarts

LEMMA PushIs ==
  ASSUME NEW x, Pos(x), NEW a, NEW y, y = <<a>> \o x
  PROVE  Pos(y) /\ Len(y) = Len(x) + 1 /\ Head(y) = a /\ y # <<>>
<1> DEFINE G == Range(x) \cup {a}
<1>1. x \in Seq(G) /\ Len(x) \in Nat
  BY SeqMonotonic DEF Pos
<1>2. a \in G
  OBVIOUS
<1> HIDE DEF G
<1>3. y \in Seq(G) /\ Len(y) = Len(x) + 1 /\ y[1] = a
  BY <1>1, <1>2
<1>4. Pos(y)
  BY <1>3, PosIntro
<1> QED
  BY <1>1, <1>3, <1>4

LEMMA StoryOfNew ==
  ASSUME IInv, IInv', HInv, outcome' = "running", Remember,
         NEW fr, fr.c = fr.base, fr.pc = "path", fr.locs = <<>>, fr.src = NoSource,
         NEW x, x \in Seq(Range(x)), stack' = <<fr>> \o x, Len(stack') > Len(stack), Len(stack) \in Nat,
         entered' = <<draft'>> \o entered, Pos(entered), Len(entered) + 1 = Len(stack')
  PROVE  HInv'
<1>1. Head(stack') = fr /\ stack' # <<>> /\ Len(stack') \in Nat
  BY DEF Pos
<1>2. Story(draft', draft', fr)
  BY <1>1, StoryBegins
<1>3. Pos(entered') /\ Len(entered') = Len(entered) + 1 /\ Head(entered') = draft'
  BY PushIs
<1>4. top' = fr
  BY <1>1 DEF top
<1>5. Story(draft', Head(entered'), top')
  BY <1>2, <1>3, <1>4
<1> QED
  BY <1>3, <1>5 DEF HInv

LEMMA BeginTells ==
  ASSUME IInv, IInv', HInv, Begin, Remember
  PROVE  HInv'
<1> DEFINE fr == Frame(<<>>, patch.delta)
<1>1. outcome = "called" /\ outcome' = "running" /\ stack' = <<fr>>
  BY DEF Begin
<1>2. stack = <<>>
  BY <1>1 DEF IInv, Inv, CallInv
<1>3. fr.c = fr.base /\ fr.pc = "path" /\ fr.locs = <<>> /\ fr.src = NoSource
  BY DEF Frame
<1> HIDE DEF fr
<1>4. stack' = <<fr>> \o <<>> /\ <<>> \in Seq(Range(<<>>)) /\ Len(stack') = 1 /\ Len(stack) = 0 /\ stack' # <<>>
  BY <1>1, <1>2, RootPos DEF Pos
<1>5. entered = <<>>
  BY <1>1 DEF HInv
<1>6. entered' = <<draft'>> \o entered
  <2>1. Len(stack') > Len(stack) /\ ~(Len(stack') < Len(stack)) /\ Len(stack') # Len(stack)
    BY <1>4
  <2> QED
    BY <1>4, <2>1 DEF Remember
<1>7. /\ <<>> \in Seq(Range(<<>>)) /\ Pos(entered) /\ Len(entered) + 1 = Len(stack')
      /\ Len(stack') > Len(stack) /\ Len(stack) \in Nat
  BY <1>4, <1>5, RootPos
<1> DEFINE x == <<>>
<1> HIDE DEF x
<1>8. x \in Seq(Range(x)) /\ stack' = <<fr>> \o x
  BY <1>4 DEF x
<1> QED
  BY <1>1, <1>3, <1>6, <1>7, <1>8, StoryOfNew

\* A delta is begun, over the frame gr.
LEMMA PushTells ==
  ASSUME IInv, IInv', HInv, Remember, outcome = "running", UNCHANGED outcome,
         NEW base, NEW gr, stack' = <<Frame(base, op.delta), gr>> \o Tail(stack)
  PROVE  HInv'
<1> DEFINE fr == Frame(base, op.delta)
           x == <<gr>> \o Tail(stack)
<1>1. fr.c = fr.base /\ fr.pc = "path" /\ fr.locs = <<>> /\ fr.src = NoSource
  BY DEF Frame
<1> HIDE DEF fr
<1>2. stack # <<>> /\ Len(stack) \in Nat \ {0} /\ Len(Tail(stack)) = Len(stack) - 1
      /\ Tail(stack) \in Seq(Range(stack))
  BY StackFacts DEF IInv
<1> DEFINE F == Range(stack) \cup {gr, fr}
<1>3. Tail(stack) \in Seq(F) /\ <<gr>> \in Seq(F)
  BY <1>2, SeqMonotonic
<1> HIDE DEF F
<1>4. x \in Seq(F) /\ Len(x) = Len(stack)
  BY <1>2, <1>3
<1>5. fr \in F
  BY DEF F
<1>6. stack' = <<fr>> \o x
  BY <1>3, <1>5 DEF fr
<1> HIDE DEF x
<1>7. x \in Seq(Range(x)) /\ Len(stack') = Len(stack) + 1 /\ stack' # <<>>
  BY <1>4, <1>5, <1>6, PosIntro DEF Pos
<1>8. entered' = <<draft'>> \o entered
  <2> DEFINE m == Len(stack)
  <2>1. m \in Nat /\ Len(stack') = m + 1
    BY <1>2, <1>7
  <2> HIDE DEF m
  <2>2. Len(stack') > m /\ ~(Len(stack') < m) /\ Len(stack') # m
    BY <2>1
  <2> QED
    BY <1>7, <2>2 DEF Remember, m
<1>9. Pos(entered) /\ Len(entered) = Len(stack)
  BY DEF HInv
<1>10. outcome' = "running" /\ Len(stack') > Len(stack) /\ Len(entered) + 1 = Len(stack') /\ Len(stack) \in Nat
  BY <1>2, <1>7, <1>9
<1> QED
  BY <1>1, <1>6, <1>7, <1>8, <1>9, <1>10, StoryOfNew

LEMMA NextEntryTells ==
  ASSUME IInv, IInv', HInv, NextEntry, Remember
  PROVE  HInv'
<1> DEFINE m == top.i + 1
           fr == [Frame(top.base, top.entries) EXCEPT !.i = m]
<1>1. outcome = "running" /\ Continue(fr) /\ outcome' = "running"
  BY DEF NextEntry, At, Reading, Writing
<1>2. fr.c = fr.base /\ fr.pc = "path" /\ fr.locs = <<>> /\ fr.src = NoSource /\ fr.i = m
  BY DEF Frame
<1>3. m # top.i
  <2>1. top.i \in Nat
    BY <1>1, TopAtLayer DEF IInv, AtLayer
  <2> QED
    BY <2>1
<1> HIDE DEF fr, m
<1>4. stack # <<>> /\ Len(stack) \in Nat \ {0} /\ Len(Tail(stack)) = Len(stack) - 1
      /\ Tail(stack) \in Seq(Range(stack))
  BY <1>1, StackFacts DEF IInv
<1>5. Head(stack') = fr /\ Len(stack') = Len(stack) /\ stack' # <<>>
  BY <1>1, <1>4 DEF Continue
<1>6. entered' = <<draft'>> \o Tail(entered)
  <2>1. Head(stack').i # Head(stack).i
    BY <1>2, <1>3, <1>5 DEF top
  <2> QED
    BY <1>4, <1>5, <2>1 DEF Remember
<1>7. Pos(entered) /\ Len(entered) = Len(stack) /\ entered # <<>>
  BY <1>1, <1>4 DEF HInv
<1>8. Story(draft', draft', fr)
  BY <1>1, <1>2, <1>4, <1>5, StoryBegins
<1>9. Pos(entered') /\ Len(entered') = Len(entered) /\ Head(entered') = draft'
  <2>1. Pos(Tail(entered)) /\ Len(Tail(entered)) = Len(entered) - 1
    <3>1. Tail(entered) \in Seq(Range(entered)) /\ Len(Tail(entered)) = Len(entered) - 1
      BY <1>4, <1>7 DEF Pos
    <3> QED
      BY <3>1, PosIntro
  <2>2. Pos(entered') /\ Len(entered') = Len(Tail(entered)) + 1 /\ Head(entered') = draft'
    BY <1>6, <2>1, PushIs
  <2> QED
    BY <1>4, <1>7, <2>1, <2>2
<1>10. top' = fr
  BY <1>5 DEF top
<1>11. Story(draft', Head(entered'), top')
  BY <1>8, <1>9, <1>10
<1> QED
  BY <1>1, <1>5, <1>7, <1>9, <1>11 DEF HInv

\* The delta beneath waits in a nest, or has done with its entry.
LEMMA EndDeltaTells ==
  ASSUME IInv, IInv', HInv, EndDelta, Remember
  PROVE  HInv'
<1>1. outcome = "running" /\ outcome' = "running" /\ stack' = Tail(stack) /\ Len(stack) > 1
  BY DEF EndDelta, At, Reading, Writing
<1>2. Len(stack) \in Nat \ {0} /\ Len(stack') = Len(stack) - 1 /\ stack' \in Seq(Range(stack))
      /\ stack'[1] = stack[2] /\ stack # <<>> /\ 2 \in 1 .. Len(stack)
  BY <1>1, StackFacts DEF IInv
<1>3. stack' # <<>> /\ Head(stack') = stack[2]
  <2> DEFINE m == Len(stack)
             x == stack'
  <2>1. m \in Nat /\ m > 1 /\ Len(x) = m - 1 /\ x \in Seq(Range(stack)) /\ x[1] = stack[2]
    BY <1>1, <1>2
  <2> HIDE DEF m, x
  <2>2. x # <<>> /\ Head(x) = stack[2]
    BY <2>1
  <2> QED
    BY <2>2 DEF x
<1>4. entered' = Tail(entered)
  <2>1. Len(stack') < Len(stack) /\ ~(Len(stack') > Len(stack))
    BY <1>1, <1>2
  <2> QED
    BY <1>3, <2>1 DEF Remember
<1>5. Pos(entered) /\ Len(entered) = Len(stack) /\ Formed(draft)
  BY <1>1 DEF HInv, IInv, DraftInv
<1>6. Pos(entered') /\ Len(entered') = Len(stack')
  <2>1. entered # <<>>
    BY <1>2, <1>5
  <2>2. entered' \in Seq(Range(entered)) /\ Len(entered') = Len(entered) - 1
    BY <1>2, <1>4, <1>5, <2>1 DEF Pos
  <2> QED
    BY <1>2, <1>5, <2>2, PosIntro
<1>7. top' = stack[2]
  BY <1>3 DEF top
<1>8. stack[2].pc \in {"nest", "done"} /\ Doing(stack[2].pc, stack[2].entries[stack[2].i].op.kind)
  <2>1. 2 \in DOMAIN stack /\ FramesOK
    BY <1>1, <1>2, TopOK DEF IInv, Inv, CallInv
  <2> QED
    BY <1>2, <2>1, FrameOf DEF FramesOK
<1>9. stack[2].pc = "done" \/ stack[2].entries[stack[2].i].op.kind = "nest"
  BY <1>8 DEF Doing, OpKind
<1> QED
  BY <1>1, <1>6, <1>7, <1>8, <1>9 DEF HInv, Story, Followed

-----------------------------------------------------------------------------
(* The steps of an entry.                                                  *)

Start == Head(entered)
Base  == WithPath(Start, top.c)

LEMMA DoneTells ==
  ASSUME IInv, HInv, outcome = "running", Remember, UNCHANGED outcome,
         NEW fr, Continue(fr), fr.i = top.i, fr.pc = "done"
  PROVE  HInv'
<1>1. Story(draft', Head(entered), fr)
  BY DEF Story, Followed
<1> QED
  BY <1>1, StoryGoesOn

LEMMA GoToDoneTells ==
  ASSUME IInv, HInv, outcome = "running", Remember, UNCHANGED outcome, GoTo("done")
  PROVE  HInv'
<1> DEFINE fr == [top EXCEPT !.pc = "done"]
<1>1. IsFrame(top)
  BY TopOK
<1>2. fr.i = top.i /\ fr.pc = "done"
  BY <1>1 DEF IsFrame
<1>3. Continue(fr)
  BY DEF GoTo
<1> HIDE DEF fr
<1> QED
  BY <1>2, <1>3, DoneTells

\* A step that stays at the container.
LEMMA ToldGoesOn ==
  ASSUME IInv, HInv, outcome = "running", Remember, UNCHANGED outcome,
         NEW fr, Continue(fr), fr.entries = top.entries, fr.i = top.i, fr.c = top.c,
         top.pc # "done", fr.pc = "container" => E.scope = "container",
         Followed(Start, top) /\ Told(draft, Start, Base, top) => Told(draft', Start, Base, fr)
  PROVE  HInv'
<1>1. Followed(Start, fr) => Followed(Start, top)
  BY DEF Followed
<1>2. Followed(Start, top) => Told(draft, Start, Base, top)
  BY DEF HInv, Story, Start, Base
<1>3. fr.pc = "container" => fr.entries[fr.i].scope = "container"
  BY DEF E
<1>4. Followed(Start, fr) => Told(draft', Start, WithPath(Start, fr.c), fr)
  BY <1>1, <1>2 DEF Base
<1>5. Story(draft', Head(entered), fr)
  BY <1>3, <1>4 DEF Story, Start
<1> QED
  BY <1>5, StoryGoesOn

LEMMA ArriveTells ==
  ASSUME IInv, HInv, Arrive, Remember
  PROVE  HInv'
<1> DEFINE pc == IF E.scope = "container" THEN "container" ELSE "targets"
           fr == [top EXCEPT !.pc = pc, !.n = 1]
<1>1. outcome = "running" /\ top.pc = "path" /\ Continue(fr) /\ UNCHANGED outcome /\ draft' = draft
  BY DEF Arrive, At, Reading, Writing
<1>2. FrameOK(draft, top) /\ IsFrame(top)
  BY <1>1, TopOK
<1>3. top.locs = <<>>
  BY <1>1, <1>2 DEF FrameOK
<1>4. pc \in {"container", "targets"} /\ (pc = "container" => E.scope = "container")
  OBVIOUS
<1> HIDE DEF pc
<1>5. /\ fr.c = top.c /\ fr.n = 1 /\ fr.pc = pc /\ fr.locs = <<>> /\ fr.src = top.src
      /\ fr.entries = top.entries /\ fr.i = top.i
  BY <1>2, <1>3 DEF IsFrame
<1> HIDE DEF fr
<1>6. ASSUME Told(draft, Start, Base, top)
      PROVE  Told(draft', Start, Base, fr)
  <2>1. Sought(Base, fr)
    <3>1. IsEntry(E) /\ (E.scope = "targets" => E.targets \in Seq(Range(E.targets)))
      BY <1>1, TopIsEntry DEF IsEntry
    <3> QED
      BY <1>5, <3>1 DEF Sought, Range, E
  <2>2. /\ Formed(Start) /\ Formed(Base) /\ Lives(Base, top.c) /\ draft = Base
        /\ op.kind = "test" => draft = Start /\ draft = Base
        /\ op.kind # "test" => AppendsOnce(top.locs)
        /\ top.src.attached /\ ~top.src.same
    BY <1>1, <1>6 DEF Told, E, op
  <2> QED
    BY <1>1, <1>3, <1>4, <1>5, <2>1, <2>2 DEF Told, Acts, E, op
<1> QED
  BY <1>1, <1>4, <1>5, <1>6, ToldGoesOn

LEMMA DescendTells ==
  ASSUME IInv, HInv, Descend, Remember
  PROVE  HInv'
<1> DEFINE key == E.path[top.n]
           s == Slot(draft, top.c, key)
           q == Append(top.c, s)
           m == top.n + 1
           fr == [top EXCEPT !.c = q, !.n = m]
<1>1. /\ outcome = "running" /\ top.pc = "path" /\ top.n <= Len(E.path) /\ UNCHANGED outcome
      /\ DescendFault(draft, top.c, key, E.create) = "ok"
      /\ draft' = Entered(draft, top.c, s) /\ Continue(fr)
  BY DEF Descend, At, Writing
<1>2. Formed(draft) /\ FrameOK(draft, top) /\ IsFrame(top) /\ Pos(top.c)
  BY <1>1, TopOK
<1>3. Lives(draft, top.c) /\ top.n \in Nat \ {0} /\ top.locs = <<>>
  BY <1>1, <1>2 DEF FrameOK
<1>4. IsKey(key)
  <2>1. IsPath(E.path)
    BY <1>1, TopIsEntry DEF IsEntry
  <2>2. Len(E.path) \in Nat /\ DOMAIN E.path = 1 .. Len(E.path)
    BY <2>1 DEF IsPath
  <2>3. top.n \in DOMAIN E.path
    BY <1>1, <1>3, <2>2
  <2> QED
    BY <2>1, <2>3 DEF IsPath, Range
<1>5. Formed(draft') /\ Lives(draft', q)
  BY <1>1, <1>2, <1>3, <1>4, EnteredKeeps DEF Touches
<1>6. op.kind = "test" => draft' = draft
  <2>1. op.kind = "test" => ~E.create
    BY <1>1, TopTestIsStrict DEF IInv
  <2> HIDE DEF key
  <2> QED
    BY <1>1, <2>1, EntersWhatIsThere
<1>7. ASSUME ~PathClears(Start, q), ~PathClears(Start, top.c) => Told(draft, Start, Base, top)
      PROVE  Told(draft, Start, Base, top) /\ draft' = WithPath(Start, q)
  <2>1. ~PathClears(Start, top.c)
    BY <1>2, <1>7, PathStaysClear
  <2>2. Told(draft, Start, Base, top)
    BY <1>7, <2>1
  <2>3. Formed(Start) /\ draft = Base
    BY <1>1, <2>2 DEF Told
  <2> HIDE DEF key
  <2> QED
    BY <1>1, <1>2, <1>3, <1>4, <1>7, <2>2, <2>3, PathStep DEF Base
<1> HIDE DEF q, m, s, key
<1>8. /\ fr.c = q /\ fr.n = m /\ fr.pc = "path" /\ fr.locs = <<>> /\ fr.src = top.src
      /\ fr.entries = top.entries /\ fr.i = top.i
  BY <1>1, <1>2, <1>3 DEF IsFrame
<1> HIDE DEF fr
<1>9. ASSUME Followed(Start, fr)
      PROVE  Told(draft', Start, WithPath(Start, fr.c), fr)
  <2>1. /\ ~PathClears(Start, q)
        /\ ~PathClears(Start, top.c) => Followed(Start, top)
    BY <1>1, <1>8, <1>9 DEF Followed
  <2>2. ~PathClears(Start, top.c) => Told(draft, Start, Base, top)
    BY <1>1, <2>1 DEF HInv, Story, Start, Base
  <2>3. Told(draft, Start, Base, top) /\ draft' = WithPath(Start, q)
    BY <1>7, <2>1, <2>2
  <2>4. /\ Formed(Start) /\ draft = Base
        /\ op.kind = "test" => draft = Start
        /\ top.src.attached /\ ~top.src.same
    BY <1>1, <2>3 DEF Told, E, op
  <2>5. AppendsOnce(fr.locs)
    BY <1>8 DEF AppendsOnce
  <2> QED
    BY <1>5, <1>6, <1>8, <2>3, <2>4, <2>5 DEF Told, Acts, E, op
<1>10. Story(draft', Head(entered), fr)
  BY <1>8, <1>9 DEF Story, Start
<1> QED
  BY <1>1, <1>8, <1>10, StoryGoesOn

LEMMA SelectTells ==
  ASSUME IInv, HInv, Select, Remember
  PROVE  HInv'
<1> DEFINE sel == E.targets[top.n]
           more == Locations(sel)
           all == top.locs \o more
           m == top.n + 1
           fr == [top EXCEPT !.locs = all, !.n = m]
<1>1. /\ outcome = "running" /\ top.pc = "targets" /\ top.n <= Len(E.targets) /\ UNCHANGED outcome
      /\ TargetFault(sel) = "ok" /\ Continue(fr) /\ draft' = draft
  BY DEF Select, At, Reading, Writing
<1>2. Formed(draft) /\ FrameOK(draft, top) /\ IsFrame(top) /\ Pos(top.c)
  BY <1>1, TopOK
<1>3. /\ top.n \in Nat \ {0} /\ E.scope # "container"
      /\ op.kind # "test" => Listed(draft, top.c, top.locs, op.kind)
  BY <1>1, <1>2 DEF FrameOK, Working, E, op
<1>4. sel \in Range(E.targets) /\ IsSelector(sel) /\ Len(E.targets) \in Nat
  <2>1. E.targets \in Seq(Range(E.targets)) /\ \A x \in Range(E.targets) : IsSelector(x)
    BY <1>1, TopIsEntry DEF IsEntry
  <2>2. top.n \in DOMAIN E.targets
    BY <1>1, <1>3, <2>1
  <2> QED
    BY <2>1, <2>2 DEF Range
<1>5. /\ SelectorFault(top.c, sel) = "ok"
      /\ \A s \in Range(more), t \in Range(top.locs) : Ident(s) # Ident(t)
  BY <1>1 DEF TargetFault
<1>6. sel.arm = "append" => op.kind \in GrowsList
  BY <1>1, <1>3, <1>4, TopIsEntry, AppendGrows DEF op
<1>7. op.kind # "test" => /\ more \in Seq(Range(more)) /\ AppendsOnce(more)
                          /\ more = Kept(draft, top.c, sel, op.kind)
  BY <1>2, <1>4, <1>5, <1>6, KeptIs, KeptAppends DEF Locations
<1>8. ASSUME op.kind # "test", AppendsOnce(top.locs)
      PROVE  Range(all) = Range(top.locs) \cup Range(more) /\ AppendsOnce(all)
  <2>1. top.locs \in Seq(Range(top.locs))
    BY <1>3, <1>8 DEF Listed
  <2>2. ~(AppendSlot \in Range(top.locs) /\ AppendSlot \in Range(more))
    BY <1>5
  <2> HIDE DEF more
  <2> QED
    BY <1>7, <1>8, <2>1, <2>2, JoinIs
<1>9. m - 1 = top.n /\ top.n - 1 \in Nat /\ top.n \in Nat
      /\ \A j : j \in 1 .. m - 1 <=> j \in 1 .. top.n - 1 \/ j = top.n
  BY <1>3
<1> HIDE DEF all, m, more
<1>10. /\ fr.c = top.c /\ fr.n = m /\ fr.pc = "targets" /\ fr.locs = all /\ fr.src = top.src
       /\ fr.entries = top.entries /\ fr.i = top.i
  BY <1>1, <1>2 DEF IsFrame
<1> HIDE DEF fr
<1>11. ASSUME Told(draft, Start, Base, top)
       PROVE  Told(draft', Start, Base, fr)
  <2>1. /\ Formed(Start) /\ Formed(Base) /\ Lives(Base, top.c) /\ draft = Base
        /\ op.kind = "test" => draft = Start
        /\ op.kind # "test" => AppendsOnce(top.locs) /\ Sought(Base, top)
        /\ top.src.attached /\ ~top.src.same
    BY <1>1, <1>11 DEF Told, E, op
  <2>2. op.kind # "test" => Sought(Base, fr)
    <3>1. SUFFICES ASSUME op.kind # "test" PROVE Sought(Base, fr)
      OBVIOUS
    <3> DEFINE K(j) == Range(Kept(Base, top.c, E.targets[j], op.kind))
    <3>2. Range(top.locs) = UNION {K(j) : j \in 1 .. top.n - 1}
      BY <2>1, <3>1 DEF Sought, E, op
    <3>3. Range(more) = K(top.n)
      BY <1>7, <2>1, <3>1
    <3>4. Range(all) = Range(top.locs) \cup Range(more)
      BY <1>8, <2>1, <3>1
    <3> DEFINE before == 1 .. top.n - 1
               after == 1 .. fr.n - 1
    <3>5. Range(top.locs) = UNION {K(j) : j \in before}
      BY <3>2
    <3>6. \A j : j \in after <=> j \in before \/ j = top.n
      BY <1>9, <1>10
    <3> HIDE DEF K, before, after
    <3> DEFINE later   == UNION {K(j) : j \in after}
               earlier == UNION {K(j) : j \in before}
    <3>7. \A x : x \in later <=> x \in earlier \/ x \in K(top.n)
      <4>1. \A x : x \in later <=> \E j \in after : x \in K(j)
        BY Zenon
      <4>2. \A x : x \in earlier <=> \E j \in before : x \in K(j)
        BY Zenon
      <4> HIDE DEF later, earlier
      <4> QED
        BY <3>6, <4>1, <4>2, Zenon
    <3>8. Range(top.locs) = earlier
      BY <3>5
    <3> HIDE DEF later, earlier
    <3>9. Range(fr.locs) = later
      BY <1>10, <3>3, <3>4, <3>7, <3>8
    <3> QED
      BY <1>1, <1>9, <1>10, <3>9 DEF Sought, K, E, op, after, later
  <2> QED
    BY <1>1, <1>8, <1>10, <2>1, <2>2 DEF Told, Acts, E, op
<1> QED
  BY <1>1, <1>10, <1>11, ToldGoesOn

\* When every selector has been resolved, all the targets have been found.
LEMMA SoughtAll ==
  ASSUME IInv, outcome = "running", top.pc = "targets", top.n > Len(E.targets), Sought(Base, top)
  PROVE  Range(top.locs) = Wanted(Base, top)
<1> DEFINE K(sel) == Range(Kept(Base, top.c, sel, op.kind))
           ts == E.targets
<1>1. ts \in Seq(Range(ts))
  BY TopIsEntry DEF IsEntry
<1>2. top.n \in Nat \ {0} /\ Len(ts) \in Nat
  BY <1>1, TopOK DEF FrameOK
<1>3. top.n - 1 = Len(ts) /\ Range(top.locs) = UNION {K(ts[j]) : j \in 1 .. top.n - 1}
  BY <1>2 DEF Sought, E, op
<1>4. Wanted(Base, top) = UNION {K(sel) : sel \in Range(ts)}
  BY DEF Wanted, Selected, E, op
<1>5. DOMAIN ts = 1 .. top.n - 1
  BY <1>1, <1>3
<1> DEFINE D == 1 .. top.n - 1
           found == UNION {K(ts[j]) : j \in D}
           named == UNION {K(sel) : sel \in Range(ts)}
<1> HIDE DEF K, D, ts
<1>6. \A x : x \in found <=> \E j \in D : x \in K(ts[j])
  BY Zenon
<1>7. \A x : x \in named <=> \E sel \in Range(ts) : x \in K(sel)
  BY Zenon
<1>8. \A sel : sel \in Range(ts) <=> \E j \in D : sel = ts[j]
  BY <1>5 DEF Range, D
<1> HIDE DEF found, named
<1>9. found = named
  BY <1>6, <1>7, <1>8
<1> QED
  BY <1>3, <1>4, <1>9 DEF found, named, D

\* The last of the reading, and the first write to come.
LEMMA NothingWritten ==
  ASSUME Formed(Base), Pos(top.c), Lives(Base, top.c), NEW fr, fr.c = top.c,
         Range(fr.locs) = Wanted(Base, fr), fr.pc # "relocate"
  PROVE  Done(Base, Base, fr, {})
<1>1. IsTree(Base)
  BY DEF Formed, InOrder
<1>2. Without(Base, fr.c, {}) = Base /\ \A v : With(Base, fr.c, {}, v) = Base
  BY <1>1, WithoutNone, WithNone
<1>3. ~SharesOneof({})
  BY DEF SharesOneof
<1>4. Removing(Base, Base, fr, {}) /\ Assigning(Base, Base, fr, {}) /\ Inserting(Base, Base, fr, {})
  BY <1>2, <1>3 DEF Removing, Assigning, Inserting
<1> QED
  BY <1>4 DEF Done

LEMMA DispatchTells ==
  ASSUME IInv, HInv, Dispatch, Remember
  PROVE  HInv'
<1> DEFINE locs == IF op.kind = "remove" /\ IsListAt(top.c)
                   THEN Descending(Range(top.locs)) ELSE top.locs
           org  == Origin
           to   == [top EXCEPT !.pc = "from", !.n = 1, !.src.c = org]
           next == [top EXCEPT !.pc = op.kind, !.locs = locs]
<1>1. /\ outcome = "running" /\ top.pc = "targets" /\ draft' = draft /\ UNCHANGED outcome
      /\ top.n > Len(E.targets) /\ top.locs # <<>>
  BY DEF Dispatch, Expanded, At, Reading, Writing
<1>2. Formed(draft) /\ FrameOK(draft, top) /\ IsFrame(top) /\ Pos(top.c)
  BY <1>1, TopOK
<1>3. op.kind # "test" => Listed(draft, top.c, top.locs, op.kind)
  BY <1>1, <1>2 DEF FrameOK, Working, E, op
<1>4. ASSUME Told(draft, Start, Base, top)
      PROVE  /\ Formed(Start) /\ Formed(Base) /\ Lives(Base, top.c) /\ draft = Base
             /\ op.kind = "test" => draft = Start
             /\ op.kind # "test" => /\ AppendsOnce(top.locs) /\ Range(top.locs) = Wanted(Base, top)
                                    /\ Wanted(Base, top) # {}
                                    /\ \A s \in Wanted(Base, top) : Slotted(Base, top.c, s, op.kind)
             /\ top.src.attached /\ ~top.src.same
  <2>1. /\ Formed(Start) /\ Formed(Base) /\ Lives(Base, top.c) /\ draft = Base
        /\ op.kind = "test" => draft = Start
        /\ op.kind # "test" => AppendsOnce(top.locs) /\ Sought(Base, top)
        /\ top.src.attached /\ ~top.src.same
    BY <1>1, <1>4 DEF Told, E, op
  <2>2. op.kind # "test" => /\ Range(top.locs) = Wanted(Base, top)
                            /\ \A s \in Range(top.locs) : Slotted(Base, top.c, s, op.kind)
                            /\ Head(top.locs) \in Range(top.locs)
    BY <1>1, <1>3, <2>1, SoughtAll, TailIs DEF Listed
  <2> QED
    BY <2>1, <2>2
<1>5. CASE op.kind \in {"move", "copy"}
  <2>1. Continue(to)
    BY <1>5 DEF Dispatch
  <2> HIDE DEF org
  <2>2. /\ to.c = top.c /\ to.pc = "from" /\ to.locs = top.locs
        /\ to.entries = top.entries /\ to.i = top.i
        /\ to.src.attached = top.src.attached /\ to.src.same = top.src.same
    BY <1>2 DEF IsFrame
  <2> HIDE DEF to
  <2>3. ASSUME Told(draft, Start, Base, top)
        PROVE  Told(draft', Start, Base, to)
    <3>1. Wanted(Base, to) = Wanted(Base, top)
      BY <2>2 DEF Wanted
    <3>2. Done(draft', Base, to, {})
      BY <1>1, <1>2, <1>4, <1>5, <2>2, <2>3, <3>1, NothingWritten
    <3> QED
      BY <1>1, <1>4, <1>5, <2>2, <2>3, <3>1, <3>2 DEF Told, Acts, E, op
  <2> QED
    BY <1>1, <2>1, <2>2, <2>3, ToldGoesOn
<1>6. CASE op.kind \notin {"move", "copy"}
  <2>1. Continue(next)
    BY <1>6 DEF Dispatch
  <2>2. op.kind \in {"remove", "test", "insert", "assign", "nest"}
    BY <1>1, <1>6, TopEntry DEF OpKind, IInv
  <2>3. ASSUME op.kind # "test", AppendsOnce(top.locs)
        PROVE  Range(locs) = Range(top.locs) /\ AppendsOnce(locs)
    <3>1. CASE op.kind = "remove" /\ IsListAt(top.c)
      <4>1. Listed(draft, top.c, top.locs, "remove")
        BY <1>3, <3>1
      <4>2. \A s \in Range(top.locs) : s # AppendSlot /\ s \in Nat
        <5> SUFFICES ASSUME NEW s \in Range(top.locs) PROVE s # AppendSlot /\ s \in Nat
          OBVIOUS
        <5>1. Slotted(draft, top.c, s, "remove")
          BY <4>1 DEF Listed
        <5>2. s # AppendSlot /\ Has(draft, Append(top.c, s)) /\ ~IsMessageAt(top.c)
          BY <3>1, <5>1, KindsOfContainer DEF Slotted, GrowsList
        <5> QED
          BY <1>2, <3>1, <5>2, ElementOf DEF Names
      <4>3. IsFiniteSet(Range(top.locs)) /\ Range(top.locs) \in SUBSET Nat
        BY <4>1, <4>2, RangeFinite DEF Listed
      <4>4. locs = Descending(Range(top.locs)) /\ Range(locs) = Range(top.locs)
        BY <3>1, <4>3, DescendingAll
      <4> HIDE DEF locs
      <4> QED
        BY <4>2, <4>4 DEF AppendsOnce, Range
    <3>2. CASE ~(op.kind = "remove" /\ IsListAt(top.c))
      BY <2>3, <3>2
    <3> QED
      BY <3>1, <3>2
  <2> HIDE DEF locs
  <2>4. /\ next.c = top.c /\ next.pc = op.kind /\ next.locs = locs
        /\ next.entries = top.entries /\ next.i = top.i
    BY <1>2 DEF IsFrame
  <2> HIDE DEF next
  <2>5. ASSUME Told(draft, Start, Base, top)
        PROVE  Told(draft', Start, Base, next)
    <3>1. Wanted(Base, next) = Wanted(Base, top)
      BY <2>4 DEF Wanted
    <3>2. op.kind # "test" => Done(draft', Base, next, {})
      BY <1>1, <1>2, <1>4, <2>2, <2>3, <2>4, <2>5, <3>1, NothingWritten
    <3> QED
      BY <1>1, <1>4, <2>2, <2>3, <2>4, <2>5, <3>1, <3>2 DEF Told, Acts, E, op
  <2> QED
    BY <1>1, <2>1, <2>2, <2>4, <2>5, ToldGoesOn
<1> QED
  BY <1>5, <1>6

\* Where an entry that writes has come to.
LEMMA ActingIs ==
  ASSUME IInv, outcome = "running", top.pc \in Acts, Told(draft, Start, Base, top)
  PROVE  /\ Formed(Start) /\ Formed(Base) /\ IsTree(Base) /\ Pos(top.c) /\ Lives(Base, top.c)
         /\ op.kind # "test" /\ AppendsOnce(top.locs) /\ Wanted(Base, top) # {}
         /\ top.locs \in Seq(Range(top.locs))
         /\ \A s \in Wanted(Base, top) : Slotted(Base, top.c, s, op.kind)
         /\ \E R \in SUBSET Wanted(Base, top) : Done(draft, Base, top, R)
<1>1. /\ Pos(top.c) /\ Doing(top.pc, op.kind) /\ FrameOK(draft, top)
  BY TopOK
<1>2. op.kind # "test"
  BY <1>1 DEF Doing, Acts, OpKind
<1>3. top.locs \in Seq(Range(top.locs))
  BY <1>1, <1>2 DEF FrameOK, Working, Acts, Listed, E, op
<1> QED
  BY <1>1, <1>2, <1>3 DEF Told, Formed, InOrder, E, op

LEMMA StillTold ==
  ASSUME IInv, outcome = "running", top.pc \in Acts, Told(draft, Start, Base, top),
         NEW fr, fr.entries = top.entries, fr.i = top.i, fr.c = top.c, fr.pc \in Acts,
         fr.pc # "from", AppendsOnce(fr.locs),
         NEW R \in SUBSET Wanted(Base, top), Done(draft', Base, fr, R)
  PROVE  Told(draft', Start, Base, fr)
<1>1. Wanted(Base, fr) = Wanted(Base, top)
  BY DEF Wanted
<1>2. op.kind # "test"
  BY ActingIs
<1> QED
  BY <1>1, <1>2 DEF Told, Acts, E, op

\* One target more is done.
LEMMA OneMore ==
  ASSUME IInv, outcome = "running", top.pc \in Acts, Told(draft, Start, Base, top), top.locs # <<>>,
         NEW R \in SUBSET Wanted(Base, top), Done(draft, Base, top, R)
  PROVE  /\ here \in Wanted(Base, top) /\ Slotted(Base, top.c, here, op.kind)
         /\ AppendsOnce(Tail(top.locs))
         /\ R \cup {here} \in SUBSET Wanted(Base, top)
         /\ (R \cup {here}) \cup Range(Tail(top.locs)) = Wanted(Base, top)
         /\ AppendSlot \in R \cup {here} => AppendSlot \notin Range(Tail(top.locs))
         /\ here = AppendSlot => AppendSlot \notin R
<1>1. top.locs \in Seq(Range(top.locs)) /\ AppendsOnce(top.locs)
      /\ \A s \in Wanted(Base, top) : Slotted(Base, top.c, s, op.kind)
  BY ActingIs
<1>2. /\ R \cup Range(top.locs) = Wanted(Base, top)
      /\ AppendSlot \in R => AppendSlot \notin Range(top.locs)
  BY DEF Done
<1>3. /\ AppendsOnce(Tail(top.locs))
      /\ here = AppendSlot => AppendSlot \notin Range(Tail(top.locs))
      /\ Range(top.locs) = {here} \cup Range(Tail(top.locs))
  BY <1>1, AppendsOnceTail DEF here
<1> QED
  BY <1>1, <1>2, <1>3

LEMMA RemoveTells ==
  ASSUME IInv, HInv, RemoveTarget, Remember
  PROVE  HInv'
<1> DEFINE rest == Tail(top.locs)
           fr == [top EXCEPT !.locs = rest]
<1>1. /\ outcome = "running" /\ top.pc = "remove" /\ top.locs # <<>> /\ UNCHANGED outcome
      /\ draft' = RemovedAt(draft, top.c, here) /\ Continue(fr)
  BY DEF RemoveTarget, Acting, At, OnToNext, Writing
<1>2. IsFrame(top) /\ Pos(top.c) /\ op.kind = "remove" /\ top.pc \in Acts
      /\ (IsListAt(top.c) => Falling(top.locs))
  BY <1>1, TopOK DEF Doing, OpKind, FrameOK, Acts
<1>3. /\ fr.c = top.c /\ fr.pc = "remove" /\ fr.locs = rest
      /\ fr.entries = top.entries /\ fr.i = top.i
  BY <1>1, <1>2 DEF IsFrame
<1> HIDE DEF fr
<1>4. ASSUME Told(draft, Start, Base, top)
      PROVE  Told(draft', Start, Base, fr)
  <2>1. /\ Formed(Base) /\ Lives(Base, top.c) /\ top.locs \in Seq(Range(top.locs))
        /\ \A s \in Wanted(Base, top) : Slotted(Base, top.c, s, "remove")
    BY <1>1, <1>2, <1>4, ActingIs
  <2>2. PICK R \in SUBSET Wanted(Base, top) : Done(draft, Base, top, R)
    BY <1>1, <1>2, <1>4, ActingIs
  <2> DEFINE Q == R \cup {here}
  <2>3. /\ here \in Wanted(Base, top) /\ AppendsOnce(rest) /\ Q \in SUBSET Wanted(Base, top)
        /\ Q \cup Range(rest) = Wanted(Base, top) /\ R \cup Range(top.locs) = Wanted(Base, top)
        /\ AppendSlot \in Q => AppendSlot \notin Range(rest)
    BY <1>1, <1>2, <1>4, <2>2, OneMore DEF Done
  <2>4. draft = Without(Base, top.c, R) /\ (IsListAt(top.c) => \A x \in R, y \in Range(top.locs) : y < x)
    BY <1>1, <2>2 DEF Done, Removing
  <2>5. ASSUME IsListAt(top.c), NEW s \in Wanted(Base, top)
        PROVE  s \in 1 .. Length(Base, top.c)
    <3>1. Has(Base, Append(top.c, s)) /\ ~IsMessageAt(top.c)
      BY <2>1, <2>5, KindsOfContainer DEF Slotted, GrowsList
    <3> QED
      BY <1>2, <2>1, <2>5, <3>1, ListPlaces, PlaceIs DEF Formed, InOrder
  <2>6. Length(Base, top.c) \in Nat \/ ~IsListAt(top.c)
    BY <1>2, <2>1, ListPlaces
  <2>7. here \in Range(top.locs)
    BY <1>1, <2>1, TailIs DEF here
  <2>8. IsListAt(top.c) => here \in 1 .. Length(Base, top.c) /\ \A i \in 1 .. here : i \notin R
    BY <2>3, <2>4, <2>5, <2>6, <2>7
  <2>9. draft' = Without(Base, top.c, Q)
    BY <1>1, <1>2, <2>1, <2>4, <2>8, WithoutNext
  <2>10. ASSUME IsListAt(top.c), NEW x \in Q, NEW y \in Range(rest)
         PROVE  y < x
    <3>1. Range(rest) \subseteq Range(top.locs)
      BY <1>1, <2>1, TailIs
    <3>2. CASE x \in R
      BY <2>4, <2>10, <3>1, <3>2
    <3>3. CASE x = here
      <4>1. /\ DOMAIN rest = 1 .. Len(top.locs) - 1
            /\ Len(top.locs) \in Nat \ {0} /\ DOMAIN top.locs = 1 .. Len(top.locs)
            /\ \A i \in 1 .. Len(top.locs) - 1 : rest[i] = top.locs[i + 1]
            /\ here = top.locs[1]
        BY <1>1, <2>1, TailIs DEF here
      <4>2. PICK i \in DOMAIN rest : y = rest[i]
        BY DEF Range
      <4>3. y = top.locs[i + 1] /\ 1 \in DOMAIN top.locs /\ i + 1 \in DOMAIN top.locs /\ 1 < i + 1
        BY <4>1, <4>2
      <4>4. here > y
        BY <1>2, <2>10, <4>1, <4>3 DEF Falling
      <4>5. y \in 1 .. Length(Base, top.c) /\ here \in 1 .. Length(Base, top.c)
        BY <2>3, <2>5, <2>10
      <4> QED
        BY <2>6, <2>10, <3>3, <4>4, <4>5
    <3> QED
      BY <2>10, <3>2, <3>3
  <2> HIDE DEF Q, rest
  <2>11. Wanted(Base, fr) = Wanted(Base, top)
    BY <1>3 DEF Wanted
  <2>12. Removing(draft', Base, fr, Q)
    BY <1>3, <2>9, <2>10 DEF Removing
  <2>13. Done(draft', Base, fr, Q)
    BY <1>3, <2>3, <2>11, <2>12 DEF Done
  <2> QED
    BY <1>1, <1>2, <1>3, <1>4, <2>3, <2>13, StillTold
<1> QED
  BY <1>1, <1>3, <1>4, ToldGoesOn

\* One more target is written.
LEMMA OneWritten ==
  ASSUME IInv, outcome = "running", top.pc \in {"assign", "insert", "relocate"},
         Told(draft, Start, Base, top), top.locs # <<>>,
         NEW R \in SUBSET Wanted(Base, top), Done(draft, Base, top, R), NEW S \in SUBSET R,
         NEW v, FitsAt(v, place), draft = With(Base, top.c, S, v),
         here \in Field => Siblings(here) \cap S = {}
  PROVE  Written(draft, top.c, here, v) = With(Base, top.c, S \cup {here}, v)
<1>1. /\ Formed(Base) /\ Pos(top.c) /\ top.locs \in Seq(Range(top.locs)) /\ op.kind # "test"
      /\ \A s \in Wanted(Base, top) : Slotted(Base, top.c, s, op.kind)
  BY ActingIs DEF Acts
<1>2. /\ Slotted(Base, top.c, here, op.kind)
      /\ here = AppendSlot => AppendSlot \notin R
  BY OneMore DEF Acts
<1>3. Formed(draft) /\ FrameOK(draft, top)
  BY TopOK
<1>4. Slotted(draft, top.c, here, op.kind)
  BY <1>1, <1>3, TailIs DEF FrameOK, Working, Listed, E, op, here
<1>5. IsTree(v) /\ (~IsMessageAt(top.c) => <<>> \in DOMAIN v)
  <2>1. ~IsMessageAt(top.c) => IsMessageAt(place)
    BY <1>1, <1>2, SlottedIs DEF place
  <2> QED
    BY <2>1, FitsTree
<1> QED
  BY <1>1, <1>2, <1>3, <1>4, <1>5, WithNext

\* What an entry that writes a literal has in hand.
LEMMA LiteralHere ==
  ASSUME IInv, outcome = "running", top.pc \in {"assign", "insert"}, top.locs # <<>>,
         LiteralFault(op.value, place) = "ok"
  PROVE  FitsAt(Content(op.value), place) /\ op.kind = top.pc
<1>1. op.kind = top.pc /\ Formed(draft) /\ Pos(top.c) /\ Slotted(draft, top.c, here, op.kind)
  BY HereIs DEF Working
<1>2. IsLiteral(op.value)
  BY <1>1, TopIsEntry DEF IsOperation
<1>3. place # <<>> /\ TypeAt(place) \in FieldType
  BY <1>1, SlottedIs DEF place
<1> QED
  BY <1>1, <1>2, <1>3, LiteralFits

LEMMA AssignTells ==
  ASSUME IInv, HInv, AssignTarget, Remember
  PROVE  HInv'
<1> DEFINE rest == Tail(top.locs)
           fr == [top EXCEPT !.locs = rest]
           v == Content(op.value)
<1>1. /\ outcome = "running" /\ top.pc = "assign" /\ top.locs # <<>> /\ UNCHANGED outcome
      /\ LiteralFault(op.value, place) = "ok"
      /\ draft' = Written(draft, top.c, here, v) /\ Continue(fr)
  BY DEF AssignTarget, Acting, At, OnToNext, Writing
<1>2. IsFrame(top) /\ top.pc \in Acts
  BY <1>1, TopOK DEF Acts
<1>3. /\ fr.c = top.c /\ fr.pc = "assign" /\ fr.locs = rest
      /\ fr.entries = top.entries /\ fr.i = top.i
  BY <1>1, <1>2 DEF IsFrame
<1>4. FitsAt(v, place)
  BY <1>1, LiteralHere
<1> HIDE DEF fr, v
<1>5. ASSUME Told(draft, Start, Base, top)
      PROVE  Told(draft', Start, Base, fr)
  <2>1. PICK R \in SUBSET Wanted(Base, top) : Done(draft, Base, top, R)
    BY <1>1, <1>2, <1>5, ActingIs
  <2> DEFINE Q == R \cup {here}
  <2>2. /\ here \in Wanted(Base, top) /\ AppendsOnce(rest) /\ Q \in SUBSET Wanted(Base, top)
        /\ Q \cup Range(rest) = Wanted(Base, top)
        /\ AppendSlot \in Q => AppendSlot \notin Range(rest)
    BY <1>1, <1>2, <1>5, <2>1, OneMore
  <2>3. Wanted(Base, fr) = Wanted(Base, top)
    BY <1>3 DEF Wanted
  <2>4. ASSUME ~SharesOneof(Wanted(Base, top))
        PROVE  draft' = With(Base, top.c, Q, v)
    <3>1. draft = With(Base, top.c, R, v)
      BY <1>1, <2>1, <2>4 DEF Done, Assigning, E, op, v
    <3>2. here \in Field => Siblings(here) \cap R = {}
      BY <2>2, <2>4 DEF SharesOneof
    <3> QED
      BY <1>1, <1>4, <1>5, <2>1, <3>1, <3>2, OneWritten
  <2> HIDE DEF Q, rest
  <2>5. Assigning(draft', Base, fr, Q)
    BY <1>3, <2>3, <2>4 DEF Assigning, E, op, v
  <2>6. Done(draft', Base, fr, Q)
    BY <1>3, <2>2, <2>3, <2>5 DEF Done
  <2> QED
    BY <1>1, <1>2, <1>3, <1>5, <2>2, <2>6, StillTold
<1> QED
  BY <1>1, <1>3, <1>5, ToldGoesOn

\* A member that was written is set, and its oneof is occupied.
LEMMA WrittenIsThere ==
  ASSUME NEW d, IsTree(d), NEW c, Pos(c), NEW R, NEW v, IsTree(v), <<>> \in DOMAIN v,
         NEW g \in R, g \in Field, OneofOf[g] # NoOneof, NEW e, e = With(d, c, R, v)
  PROVE  Present(e, c, g)
<1>1. g \notin Implicit /\ g # AppendSlot /\ g # NoSlot
  BY SchemaAssumption, SlotAssumption
<1>2. g \in Gone(d, c, R) /\ g \in PutAt(d, c, R, v)
  <2>1. Landing(d, c, g) = g
    BY <1>1 DEF Landing
  <2>2. g \in {Landing(d, c, s) : s \in R}
    BY <2>1
  <2>3. g \in IF v = ScalarFragment(Default) THEN R \ Implicit ELSE R
    BY <1>1
  <2> QED
    BY <2>1, <2>2, <2>3 DEF Gone, PutAt
<1>3. Filled(e, d, c, Gone(d, c, R), PutAt(d, c, R, v), v)
  BY WithFilled
<1>4. Append(c, g) \o <<>> \in DOMAIN e
  BY <1>2, <1>3, RootPos DEF Filled
<1>5. Pos(Append(c, g)) /\ Append(c, g) \o <<>> = Append(c, g)
  BY AppendPos, ConcatRoot
<1>6. Has(e, Append(c, g))
  BY <1>4, <1>5, PrefixOrder DEF Has, Under
<1> QED
  BY <1>1, <1>6 DEF Present

LEMMA InsertTells ==
  ASSUME IInv, HInv, InsertTarget, Remember
  PROVE  HInv'
<1> DEFINE rest == Tail(top.locs)
           fr == [top EXCEPT !.locs = rest]
           v == Content(op.value)
<1>1. /\ outcome = "running" /\ top.pc = "insert" /\ top.locs # <<>> /\ UNCHANGED outcome
      /\ ~IsListAt(top.c) /\ LiteralFault(op.value, place) = "ok" /\ ~Occupied(top.c, here)
      /\ draft' = Written(draft, top.c, here, v) /\ Continue(fr)
  BY DEF InsertTarget, InsertFault, Acting, At, OnToNext, Writing, place
<1>2. IsFrame(top) /\ top.pc \in Acts /\ Pos(top.c)
  BY <1>1, TopOK DEF Acts
<1>3. /\ fr.c = top.c /\ fr.pc = "insert" /\ fr.locs = rest
      /\ fr.entries = top.entries /\ fr.i = top.i
  BY <1>1, <1>2 DEF IsFrame
<1>4. FitsAt(v, place)
  BY <1>1, LiteralHere
<1> HIDE DEF fr, v
<1>5. ASSUME Told(draft, Start, Base, top)
      PROVE  Told(draft', Start, Base, fr)
  <2>1. PICK R \in SUBSET Wanted(Base, top) : Done(draft, Base, top, R)
    BY <1>1, <1>2, <1>5, ActingIs
  <2> DEFINE Q == R \cup {here}
  <2>2. /\ here \in Wanted(Base, top) /\ AppendsOnce(rest) /\ Q \in SUBSET Wanted(Base, top)
        /\ Q \cup Range(rest) = Wanted(Base, top)
        /\ AppendSlot \in Q => AppendSlot \notin Range(rest)
    BY <1>1, <1>2, <1>5, <2>1, OneMore
  <2>3. Wanted(Base, fr) = Wanted(Base, top)
    BY <1>3 DEF Wanted
  <2>4. ~SharesOneof(R) /\ draft = With(Base, top.c, R, v) /\ IsTree(Base)
    BY <1>1, <1>2, <1>5, <2>1, ActingIs DEF Done, Inserting, E, op, v
  <2>5. ASSUME here \in Field, NEW g \in Siblings(here), g \in R
        PROVE  FALSE
    <3>1. /\ g \in Field /\ OneofOf[g] # NoOneof /\ Card[here] = "singular"
          /\ OneofOf[here] # NoOneof
      BY <2>5, SchemaAssumption DEF Siblings
    <3>2. IsMessageAt(place)
      BY <1>2, <2>5, <3>1, KindOfPlace DEF place
    <3>3. IsTree(v) /\ <<>> \in DOMAIN v
      BY <1>4, <3>2, FitsTree
    <3>4. Present(draft, top.c, g)
      BY <1>2, <2>4, <2>5, <3>1, <3>3, WrittenIsThere
    <3> QED
      BY <1>1, <2>5, <3>4 DEF Occupied
  <2>6. here \in Field => Siblings(here) \cap R = {}
    BY <2>5
  <2>7. draft' = With(Base, top.c, Q, v)
    BY <1>1, <1>4, <1>5, <2>1, <2>4, <2>6, OneWritten
  <2>8. ~SharesOneof(Q)
    <3>1. \A f, g \in Field : g \in Siblings(f) <=> f \in Siblings(g)
      BY DEF Siblings
    <3>2. \A f \in Field : f \notin Siblings(f) /\ Siblings(f) \subseteq Field
      BY DEF Siblings
    <3> QED
      BY <2>4, <2>6, <3>1, <3>2 DEF SharesOneof
  <2> HIDE DEF Q, rest
  <2>9. Inserting(draft', Base, fr, Q)
    BY <1>1, <1>3, <2>7, <2>8 DEF Inserting, E, op, v
  <2>10. Done(draft', Base, fr, Q)
    BY <1>3, <2>2, <2>3, <2>9 DEF Done
  <2> QED
    BY <1>1, <1>2, <1>3, <1>5, <2>2, <2>10, StillTold
<1> QED
  BY <1>1, <1>3, <1>5, ToldGoesOn

LEMMA TestTells ==
  ASSUME IInv, HInv, TestTarget, Remember
  PROVE  HInv'
<1> DEFINE rest == Tail(top.locs)
           fr == [top EXCEPT !.locs = rest]
<1>1. /\ outcome = "running" /\ top.pc = "test" /\ UNCHANGED outcome
      /\ draft' = draft /\ Continue(fr)
  BY DEF TestTarget, Acting, At, OnToNext, Reading, Writing
<1>2. IsFrame(top) /\ op.kind = "test"
  BY <1>1, TopOK DEF Doing, OpKind
<1>3. /\ fr.c = top.c /\ fr.pc = "test" /\ fr.entries = top.entries /\ fr.i = top.i
  BY <1>1, <1>2 DEF IsFrame
<1> HIDE DEF fr
<1>4. ASSUME Told(draft, Start, Base, top)
      PROVE  Told(draft', Start, Base, fr)
  BY <1>1, <1>2, <1>3, <1>4 DEF Told, Acts, E, op
<1> QED
  BY <1>1, <1>3, <1>4, ToldGoesOn

LEMMA SpliceTells ==
  ASSUME IInv, HInv, Splice, Remember
  PROVE  HInv'
<1> DEFINE fr == [top EXCEPT !.locs = <<>>]
           v == Content(op.value)
<1>1. /\ outcome = "running" /\ top.pc = "insert" /\ top.locs # <<>> /\ UNCHANGED outcome
      /\ IsListAt(top.c) /\ Continue(fr)
      /\ draft' = PutElements(draft, top.c, Spliced(Elements(draft, top.c), v, Range(top.locs)))
  BY DEF Splice, Acting, At, Writing
<1>2. IsFrame(top) /\ Pos(top.c) /\ op.kind = "insert" /\ top.pc \in Acts
  BY <1>1, TopOK DEF Doing, OpKind, Acts
<1>3. /\ fr.c = top.c /\ fr.pc = "insert" /\ fr.locs = <<>>
      /\ fr.entries = top.entries /\ fr.i = top.i
  BY <1>1, <1>2 DEF IsFrame
<1> HIDE DEF fr, v
<1>4. ASSUME Told(draft, Start, Base, top)
      PROVE  Told(draft', Start, Base, fr)
  <2>1. /\ Formed(Base) /\ Lives(Base, top.c)
        /\ \A s \in Wanted(Base, top) : Slotted(Base, top.c, s, "insert")
    BY <1>1, <1>2, <1>4, ActingIs
  <2>2. PICK R \in SUBSET Wanted(Base, top) : Done(draft, Base, top, R)
    BY <1>1, <1>2, <1>4, ActingIs
  <2>3. draft = Base /\ Range(top.locs) = Wanted(Base, top)
    BY <1>1, <2>2 DEF Done, Inserting
  <2>4. ASSUME NEW s \in Wanted(Base, top)
        PROVE  s = AppendSlot \/ s \in 1 .. Length(Base, top.c)
    <3>1. s = AppendSlot \/ (Has(Base, Append(top.c, s)) /\ ~IsMessageAt(top.c))
      BY <1>1, <2>1, <2>4, KindsOfContainer DEF Slotted, GrowsList
    <3> QED
      BY <1>1, <1>2, <2>1, <3>1, ListPlaces, PlaceIs DEF Formed, InOrder
  <2> DEFINE W == Wanted(Base, top)
  <2> HIDE DEF W
  <2>5. draft' = Interleaved(Base, top.c, W, v)
    BY <1>1, <1>2, <2>1, <2>3, <2>4, SpliceMeets DEF W
  <2>6. Wanted(Base, fr) = W
    BY <1>3 DEF Wanted, W
  <2>7. Range(fr.locs) = {}
    BY <1>3 DEF Range
  <2>8. Inserting(draft', Base, fr, W)
    BY <1>1, <1>3, <2>5, <2>6 DEF Inserting, E, op, v
  <2>9. Done(draft', Base, fr, W)
    BY <1>3, <2>6, <2>7, <2>8 DEF Done
  <2>10. AppendsOnce(fr.locs) /\ W \in SUBSET Wanted(Base, top)
    BY <1>3 DEF AppendsOnce, W
  <2> QED
    BY <1>1, <1>2, <1>3, <1>4, <2>9, <2>10, StillTold
<1> QED
  BY <1>1, <1>3, <1>4, ToldGoesOn

LEMMA DescendSourceTells ==
  ASSUME IInv, HInv, DescendSource, Remember
  PROVE  HInv'
<1> DEFINE q == Append(top.src.c, Slot(draft, top.src.c, SourcePath[top.n]))
           m == top.n + 1
           fr == [top EXCEPT !.src.c = q, !.n = m]
<1>1. /\ outcome = "running" /\ top.pc = "from" /\ UNCHANGED outcome
      /\ draft' = draft /\ Continue(fr)
  BY DEF DescendSource, At, Reading, Writing
<1>2. IsFrame(top)
  BY <1>1, TopOK
<1> HIDE DEF q, m
<1>3. /\ fr.c = top.c /\ fr.pc = "from" /\ fr.locs = top.locs /\ fr.entries = top.entries /\ fr.i = top.i
      /\ fr.src.attached = top.src.attached /\ fr.src.same = top.src.same
  BY <1>1, <1>2 DEF IsFrame
<1> HIDE DEF fr
<1>4. ASSUME Told(draft, Start, Base, top)
      PROVE  Told(draft', Start, Base, fr)
  <2>1. Wanted(Base, fr) = Wanted(Base, top)
    BY <1>3 DEF Wanted
  <2>2. \A R : Done(draft, Base, top, R) => Done(draft', Base, fr, R)
    BY <1>1, <1>3, <2>1 DEF Done
  <2> QED
    BY <1>1, <1>3, <1>4, <2>1, <2>2 DEF Told, Acts, E, op
<1> QED
  BY <1>1, <1>3, <1>4, ToldGoesOn

LEMMA ReadSourceTells ==
  ASSUME IInv, HInv, ReadSource, Remember
  PROVE  HInv'
<1> DEFINE s == Slot(draft, top.src.c, op.key)
           held == ValueAt(draft, Append(top.src.c, s))
           fr == [top EXCEPT !.pc = "relocate", !.src.s = s, !.src.held = held]
<1>1. /\ outcome = "running" /\ top.pc = "from" /\ UNCHANGED outcome
      /\ draft' = draft /\ Continue(fr)
  BY DEF ReadSource, At, Reading, Writing
<1>2. IsFrame(top) /\ top.pc \in Acts
  BY <1>1, TopOK DEF Acts
<1>3. held = ValueAt(draft, Append(top.src.c, s))
  OBVIOUS
<1> HIDE DEF s, held
<1>4. /\ fr.c = top.c /\ fr.pc = "relocate" /\ fr.locs = top.locs
      /\ fr.entries = top.entries /\ fr.i = top.i
      /\ fr.src.attached = top.src.attached /\ fr.src.same = top.src.same
      /\ fr.src.c = top.src.c /\ fr.src.s = s /\ fr.src.held = held
  BY <1>2 DEF IsFrame
<1> HIDE DEF fr
<1>5. ASSUME Told(draft, Start, Base, top)
      PROVE  Told(draft', Start, Base, fr)
  <2>1. top.src.attached /\ ~top.src.same /\ IsTree(Base) /\ AppendsOnce(top.locs)
    BY <1>1, <1>2, <1>5, ActingIs DEF Told
  <2>2. PICK R \in SUBSET Wanted(Base, top) : Done(draft, Base, top, R)
    BY <1>1, <1>2, <1>5, ActingIs
  <2>3. R = {} /\ draft = Base /\ Range(top.locs) = Wanted(Base, top)
    BY <1>1, <2>2 DEF Done
  <2>4. Wanted(Base, fr) = Wanted(Base, top)
    BY <1>4 DEF Wanted
  <2>5. Others(fr, R) = {}
    BY <2>3 DEF Others
  <2>6. Moving(draft', Base, fr, R)
    <3>1. With(Base, fr.c, Others(fr, R), fr.src.held) = Base
      BY <2>1, <2>5, WithNone
    <3>2. ~Displaced(fr.c, Others(fr, R), fr.src)
      BY <2>5 DEF Displaced
    <3> QED
      BY <1>1, <1>3, <1>4, <2>1, <2>3, <3>1, <3>2 DEF Moving
  <2>7. Done(draft', Base, fr, R)
    BY <1>4, <2>3, <2>4, <2>6 DEF Done
  <2> QED
    BY <1>1, <1>2, <1>4, <1>5, <2>1, <2>7, StillTold DEF Acts
<1> QED
  BY <1>1, <1>4, <1>5, ToldGoesOn

\* The steps of a move or a copy see the same source, and are apart from it alike.
LEMMA SameSource ==
  ASSUME NEW fr, fr.entries = top.entries, fr.i = top.i, fr.c = top.c,
         fr.src.c = top.src.c, fr.src.s = top.src.s
  PROVE  /\ Wanted(Base, fr) = Wanted(Base, top)
         /\ Apart(Base, fr) = Apart(Base, top)
         /\ \A s : IsSource(fr, s) <=> IsSource(top, s)
         /\ \A R : Others(fr, R) = Others(top, R)
         /\ \A S : Displaced(fr.c, S, fr.src) <=> Displaced(top.c, S, top.src)
<1>1. Wanted(Base, fr) = Wanted(Base, top)
  BY DEF Wanted
<1>2. Apart(Base, fr) = Apart(Base, top)
  BY <1>1 DEF Apart, SourceGrows, SourceMistaken
<1>3. \A s : IsSource(fr, s) <=> IsSource(top, s)
  BY DEF IsSource
<1>4. \A S : Displaced(fr.c, S, fr.src) <=> Displaced(top.c, S, top.src)
  BY DEF Displaced
<1> QED
  BY <1>1, <1>2, <1>3, <1>4 DEF Others

LEMMA SkipTells ==
  ASSUME IInv, HInv, SkipSource, Remember
  PROVE  HInv'
<1> DEFINE rest == Tail(top.locs)
           fr == [top EXCEPT !.locs = rest, !.src.same = TRUE]
<1>1. /\ outcome = "running" /\ top.pc = "relocate" /\ top.locs # <<>> /\ UNCHANGED outcome
      /\ SourceIsTarget /\ draft' = draft /\ Continue(fr)
  BY DEF SkipSource, Relocating, At, Reading, Writing
<1>2. IsFrame(top) /\ top.pc \in Acts
  BY <1>1, TopOK DEF Acts
<1>3. /\ fr.c = top.c /\ fr.pc = "relocate" /\ fr.locs = rest
      /\ fr.entries = top.entries /\ fr.i = top.i
      /\ fr.src.attached = top.src.attached /\ fr.src.same = TRUE
      /\ fr.src.c = top.src.c /\ fr.src.s = top.src.s /\ fr.src.held = top.src.held
  BY <1>1, <1>2 DEF IsFrame
<1> HIDE DEF fr
<1>4. ASSUME Told(draft, Start, Base, top)
      PROVE  Told(draft', Start, Base, fr)
  <2>1. PICK R \in SUBSET Wanted(Base, top) : Done(draft, Base, top, R)
    BY <1>1, <1>2, <1>4, ActingIs
  <2> DEFINE Q == R \cup {here}
  <2>2. /\ here \in Wanted(Base, top) /\ AppendsOnce(rest) /\ Q \in SUBSET Wanted(Base, top)
        /\ Q \cup Range(rest) = Wanted(Base, top)
        /\ AppendSlot \in Q => AppendSlot \notin Range(rest)
    BY <1>1, <1>2, <1>4, <2>1, OneMore
  <2>3. /\ Wanted(Base, fr) = Wanted(Base, top) /\ Apart(Base, fr) = Apart(Base, top)
        /\ \A s : IsSource(fr, s) <=> IsSource(top, s)
        /\ Others(fr, Q) = Others(top, Q)
        /\ \A S : Displaced(fr.c, S, fr.src) <=> Displaced(top.c, S, top.src)
    BY <1>3, SameSource
  <2>4. ASSUME Apart(Base, top)
        PROVE  Moving(draft', Base, fr, Q)
    <3>1. Moving(draft, Base, top, R)
      BY <1>1, <2>1, <2>4 DEF Done
    <3>2. here = top.src.s /\ top.c = top.src.c
      BY <1>1, <2>2, <2>4 DEF Apart, SourceMistaken, SourceIsTarget, SameLoc
    <3>3. IsSource(top, here)
      BY <3>2 DEF IsSource
    <3>4. Others(top, Q) = Others(top, R)
      BY <3>3 DEF Others
    <3> QED
      BY <1>1, <1>3, <2>3, <3>1, <3>3, <3>4 DEF Moving
  <2> HIDE DEF Q, rest
  <2>5. Done(draft', Base, fr, Q)
    BY <1>3, <2>2, <2>3, <2>4 DEF Done
  <2> QED
    BY <1>1, <1>2, <1>3, <1>4, <2>2, <2>5, StillTold
<1> QED
  BY <1>1, <1>3, <1>4, ToldGoesOn

LEMMA WriteTargetTells ==
  ASSUME IInv, HInv, WriteTarget, Remember
  PROVE  HInv'
<1> DEFINE rest == Tail(top.locs)
           still == top.src.attached /\ ~Replaces(top.c, here, top.src.c)
           fr == [top EXCEPT !.locs = rest, !.src.attached = still]
<1>1. /\ outcome = "running" /\ top.pc = "relocate" /\ top.locs # <<>> /\ UNCHANGED outcome
      /\ ~SourceIsTarget /\ SameType /\ Storable
      /\ draft' = Written(draft, top.c, here, HeldNow) /\ Continue(fr)
  BY DEF WriteTarget, Relocating, At, Writing
<1>2. IsFrame(top) /\ top.pc \in Acts
  BY <1>1, TopOK DEF Acts
<1>3. still = (top.src.attached /\ ~Replaces(top.c, here, top.src.c))
  OBVIOUS
<1> HIDE DEF still
<1>4. /\ fr.c = top.c /\ fr.pc = "relocate" /\ fr.locs = rest
      /\ fr.entries = top.entries /\ fr.i = top.i
      /\ fr.src.attached = still /\ fr.src.same = top.src.same
      /\ fr.src.c = top.src.c /\ fr.src.s = top.src.s /\ fr.src.held = top.src.held
  BY <1>1, <1>2 DEF IsFrame
<1> HIDE DEF fr
<1>5. FitsAt(HeldNow, place)
  <2>1. /\ Formed(draft) /\ Pos(top.c) /\ Pos(top.src.c) /\ Slotted(draft, top.c, here, op.kind)
        /\ SourceOK(draft, top.base, top.src)
    BY <1>1, RelocatingIs, TailIs DEF Listed, here
  <2>2. FitsAt(HeldNow, Append(top.src.c, top.src.s))
    BY <1>1, HeldFits
  <2>3. here \notin Field => top.c # <<>>
    BY <2>1, KindsOfContainer DEF Slotted
  <2>4. top.src.s \notin Field => top.src.c # <<>>
    BY <2>1, KindsOfContainer DEF SourceOK, Names
  <2>5. TypeOf(top.c, here) = TypeOf(top.src.c, top.src.s)
    BY <1>1 DEF SameType
  <2>6. Whole(here) \/ Whole(top.src.s) => Whole(here) /\ Whole(top.src.s) /\ Card[here] = "list"
    BY <1>1 DEF Storable
  <2> QED
    BY <2>1, <2>2, <2>3, <2>4, <2>5, <2>6, FitsThere DEF place
<1>6. ASSUME Told(draft, Start, Base, top)
      PROVE  Told(draft', Start, Base, fr)
  <2>1. PICK R \in SUBSET Wanted(Base, top) : Done(draft, Base, top, R)
    BY <1>1, <1>2, <1>6, ActingIs
  <2> DEFINE Q == R \cup {here}
  <2>2. /\ here \in Wanted(Base, top) /\ AppendsOnce(rest) /\ Q \in SUBSET Wanted(Base, top)
        /\ Q \cup Range(rest) = Wanted(Base, top)
        /\ AppendSlot \in Q => AppendSlot \notin Range(rest)
    BY <1>1, <1>2, <1>6, <2>1, OneMore
  <2>3. /\ Wanted(Base, fr) = Wanted(Base, top) /\ Apart(Base, fr) = Apart(Base, top)
        /\ \A s : IsSource(fr, s) <=> IsSource(top, s)
        /\ Others(fr, Q) = Others(top, Q)
        /\ \A S : Displaced(fr.c, S, fr.src) <=> Displaced(top.c, S, top.src)
    BY <1>4, SameSource
  <2>4. ASSUME Apart(Base, top)
        PROVE  Moving(draft', Base, fr, Q)
    <3>1. Moving(draft, Base, top, R)
      BY <1>1, <2>1, <2>4 DEF Done
    <3>2. ~IsPrefix(Append(top.src.c, top.src.s), top.c)
      BY <2>4 DEF Apart, SourceGrows
    <3>3. HeldNow = top.src.held
      BY <3>2 DEF HeldNow
    <3>4. ~IsSource(top, here)
      <4>1. Pos(top.c) /\ Pos(top.src.c)
        BY <1>1, TopOK
      <4>2. /\ Front(Append(top.c, here)) = top.c /\ Last(Append(top.c, here)) = here
            /\ Front(Append(top.src.c, top.src.s)) = top.src.c /\ Last(Append(top.src.c, top.src.s)) = top.src.s
        BY <4>1, AppendIs
      <4>3. IsSource(top, here) => top.c = top.src.c /\ here = top.src.s
        BY <4>2 DEF IsSource
      <4> QED
        BY <1>1, <4>3 DEF SourceIsTarget, SameLoc
    <3> DEFINE S == Others(top, R)
    <3>5. S \in SUBSET R /\ Others(top, Q) = S \cup {here}
      BY <3>4 DEF Others
    <3>6. draft = With(Base, top.c, S, HeldNow)
      BY <3>1, <3>3 DEF Moving
    <3>7. here \in Field => Siblings(here) \cap S = {}
      BY <2>2, <2>4, <3>5 DEF Apart, SharesOneof
    <3> HIDE DEF S
    <3>8. draft' = With(Base, top.c, Others(top, Q), HeldNow)
      BY <1>1, <1>5, <1>6, <2>1, <3>5, <3>6, <3>7, OneWritten
    <3>9. fr.src.same <=> \E s \in Q : IsSource(fr, s)
      BY <1>4, <2>3, <3>1, <3>4 DEF Moving
    <3>10. fr.src.held = ValueAt(Base, Append(fr.src.c, fr.src.s))
      BY <1>4, <3>1 DEF Moving
    <3>11. fr.src.attached <=> ~Displaced(top.c, Others(top, Q), top.src)
      <4>1. top.src.attached <=> ~Displaced(top.c, S, top.src)
        BY <3>1 DEF Moving, S
      <4>2. Displaced(top.c, S \cup {here}, top.src) <=> Displaced(top.c, S, top.src) \/ Replaces(top.c, here, top.src.c)
        BY DEF Displaced, Around, Replaces
      <4> QED
        BY <1>3, <1>4, <3>5, <4>1, <4>2
    <3> HIDE DEF Q
    <3> QED
      BY <1>4, <2>3, <3>3, <3>8, <3>9, <3>10, <3>11 DEF Moving
  <2> HIDE DEF Q, rest
  <2>5. Done(draft', Base, fr, Q)
    BY <1>4, <2>2, <2>3, <2>4 DEF Done
  <2> QED
    BY <1>1, <1>2, <1>4, <1>6, <2>2, <2>5, StillTold
<1> QED
  BY <1>1, <1>4, <1>6, ToldGoesOn

\* The delta beneath a new one waits, and an entry that nests is not followed.
LEMMA NestTells ==
  ASSUME IInv, IInv', HInv, NestTarget \/ NestContainer, Remember
  PROVE  HInv'
<1>1. outcome = "running" /\ UNCHANGED outcome
  BY DEF NestTarget, NestContainer, Acting, OnContainer, At, Reading, Writing
<1>2. CASE NestTarget
  BY <1>1, <1>2, PushTells DEF NestTarget
<1>3. CASE NestContainer
  BY <1>1, <1>3, PushTells DEF NestContainer
<1> QED
  BY <1>2, <1>3

\* Apply has not begun, or has returned.
LEMMA IdleTells ==
  ASSUME outcome' \notin {"called", "running"}
  PROVE  HInv'
BY DEF HInv

\* The steps that end an entry.
Ending == NothingToDo \/ AllDone \/ ClearSource \/ KeepSource
            \/ Empty \/ AssignContainer \/ InsertContainer \/ TestContainer

LEMMA EndingTells ==
  ASSUME IInv, HInv, Ending, Remember
  PROVE  HInv'
<1>1. outcome = "running" /\ UNCHANGED outcome /\ GoTo("done")
  <2>1. CASE NothingToDo
    BY <2>1 DEF NothingToDo, Expanded, At, Reading, Writing
  <2>2. CASE AllDone
    BY <2>2 DEF AllDone, Reading, Writing
  <2>3. CASE ClearSource
    BY <2>3 DEF ClearSource, At, Writing
  <2>4. CASE KeepSource
    BY <2>4 DEF KeepSource, At, Reading, Writing
  <2>5. CASE Empty \/ AssignContainer \/ InsertContainer \/ TestContainer
    BY <2>5 DEF Empty, AssignContainer, InsertContainer, TestContainer, OnContainer, At, Reading, Writing
  <2> QED
    BY <2>1, <2>2, <2>3, <2>4, <2>5 DEF Ending
<1> QED
  BY <1>1, GoToDoneTells

\* The steps that end the call with an error.
Refusing == Refuse \/ RefuseType \/ LosePath \/ RefuseSelector \/ Vacuous \/ LoseSource \/ RefuseTarget
              \/ FailTest \/ RefuseValue \/ NestScalar \/ RefuseContainer

LEMMA RefusingFails ==
  ASSUME Refusing
  PROVE  \E code : Fail(code)
<1>1. CASE Refuse \/ RefuseType
  BY <1>1 DEF Refuse, RefuseType
<1>2. CASE LosePath \/ RefuseSelector \/ Vacuous
  BY <1>2 DEF LosePath, RefuseSelector, Vacuous
<1>3. CASE LoseSource \/ RefuseTarget
  BY <1>3 DEF LoseSource, RefuseTarget
<1>4. CASE FailTest \/ RefuseValue \/ NestScalar
  BY <1>4 DEF FailTest, RefuseValue, NestScalar
<1>5. CASE RefuseContainer
  BY <1>5 DEF RefuseContainer
<1> QED
  BY <1>1, <1>2, <1>3, <1>4, <1>5 DEF Refusing

\* The steps inside an entry that do not end it.
Advancing ==
  \/ Descend \/ Arrive \/ Select \/ Dispatch
  \/ DescendSource \/ ReadSource \/ SkipSource \/ WriteTarget
  \/ RemoveTarget \/ TestTarget \/ AssignTarget \/ InsertTarget \/ Splice

LEMMA AdvancingTells ==
  ASSUME IInv, HInv, Advancing, Remember
  PROVE  HInv'
BY DescendTells, ArriveTells, SelectTells, DispatchTells, DescendSourceTells, ReadSourceTells,
   SkipTells, WriteTargetTells, RemoveTells, TestTells, AssignTells, InsertTells, SpliceTells DEF Advancing

\* Every step of the engine, by what becomes of the entry.
LEMMA StepsAre ==
  ASSUME Next
  PROVE  Refusing \/ Ending \/ Advancing \/ NestTarget \/ NestContainer
           \/ Begin \/ NextEntry \/ EndDelta \/ Return \/ Finished
BY DEF Next, Navigation, Expansion, Relocation, OnTargets, OnWhole, Refusing, Ending, Advancing

LEMMA StepTells ==
  ASSUME IInv, IInv', HInv, [ENext]_evars
  PROVE  HInv'
<1>1. CASE UNCHANGED evars
  <2>1. UNCHANGED <<draft, stack, outcome, entered>>
    BY <1>1 DEF evars
  <2>2. top' = top
    BY <2>1 DEF top
  <2>3. outcome = "running" => Story(draft', Head(entered'), top')
    BY <2>1, <2>2 DEF HInv
  <2> QED
    BY <2>1, <2>3 DEF HInv
<1>2. CASE ENext
  <2>1. Next /\ Remember
    BY <1>2 DEF ENext
  <2>2. CASE Refusing
    <3>1. PICK code : Fail(code)
      BY <2>2, RefusingFails
    <3>2. outcome' \notin {"called", "running"}
      BY <3>1 DEF Fail
    <3> QED
      BY <3>2, IdleTells
  <2>3. CASE Return \/ Finished
    <3>1. outcome' \notin {"called", "running"}
      BY <2>3 DEF Return, Finished, vars
    <3> QED
      BY <3>1, IdleTells
  <2>4. CASE Ending
    BY <2>1, <2>4, EndingTells
  <2>5. CASE Advancing
    BY <2>1, <2>5, AdvancingTells
  <2>6. CASE NestTarget \/ NestContainer
    BY <2>1, <2>6, NestTells
  <2>7. CASE Begin \/ NextEntry \/ EndDelta
    BY <2>1, <2>7, BeginTells, NextEntryTells, EndDeltaTells
  <2> QED
    BY <2>1, <2>2, <2>3, <2>4, <2>5, <2>6, <2>7, StepsAre
<1> QED
  BY <1>1, <1>2

LEMMA InitTells ==
  ASSUME EInit
  PROVE  HInv
BY DEF EInit, Init, HInv

-----------------------------------------------------------------------------
(* The end of an entry.                                                    *)

LEMMA GoesOn ==
  ASSUME IInv, outcome = "running", NEW fr, Continue(fr), fr.pc # "done"
  PROVE  Head(stack').pc # "done"
<1>1. Head(stack') = fr
  BY DEF Continue
<1> QED
  BY <1>1

LEMMA AdvancingGoesOn ==
  ASSUME IInv, Advancing
  PROVE  Head(stack').pc # "done"
<1>1. outcome = "running"
  BY DEF Advancing, Descend, Arrive, Select, Dispatch, Expanded, DescendSource, ReadSource, SkipSource,
         WriteTarget, Relocating, RemoveTarget, TestTarget, AssignTarget, InsertTarget, Splice, Acting, At
<1>2. IsFrame(top) /\ Doing(top.pc, op.kind)
  BY <1>1, TopOK
<1>3. CASE RemoveTarget \/ TestTarget \/ AssignTarget \/ InsertTarget
  <2>1. Continue([top EXCEPT !.locs = Tail(top.locs)]) /\ top.pc # "done"
    BY <1>3 DEF RemoveTarget, TestTarget, AssignTarget, InsertTarget, Acting, At, OnToNext
  <2>2. [top EXCEPT !.locs = Tail(top.locs)].pc # "done"
    BY <1>2, <2>1 DEF IsFrame
  <2> QED
    BY <1>1, <2>1, <2>2, GoesOn
<1>4. CASE Descend
  <2> DEFINE fr == [top EXCEPT !.c = Append(@, Slot(draft, top.c, E.path[top.n])), !.n = top.n + 1]
  <2>1. Continue(fr) /\ top.pc = "path"
    BY <1>4 DEF Descend, At
  <2>2. fr.pc # "done"
    BY <1>2, <2>1 DEF IsFrame
  <2> QED
    BY <1>1, <2>1, <2>2, GoesOn
<1>5. CASE Arrive
  <2> DEFINE pc == IF E.scope = "container" THEN "container" ELSE "targets"
             fr == [top EXCEPT !.pc = pc, !.n = 1]
  <2>1. Continue(fr)
    BY <1>5 DEF Arrive
  <2>2. fr.pc # "done"
    BY <1>2 DEF IsFrame
  <2> HIDE DEF fr
  <2> QED
    BY <1>1, <2>1, <2>2, GoesOn
<1>6. CASE Select
  <2> DEFINE fr == [top EXCEPT !.locs = @ \o Locations(E.targets[top.n]), !.n = top.n + 1]
  <2>1. Continue(fr) /\ top.pc = "targets"
    BY <1>6 DEF Select, At
  <2>2. fr.pc # "done"
    BY <1>2, <2>1 DEF IsFrame
  <2> QED
    BY <1>1, <2>1, <2>2, GoesOn
<1>7. CASE Dispatch
  <2> DEFINE locs == IF op.kind = "remove" /\ IsListAt(top.c)
                     THEN Descending(Range(top.locs)) ELSE top.locs
             to   == [top EXCEPT !.pc = "from", !.n = 1, !.src.c = Origin]
             next == [top EXCEPT !.pc = op.kind, !.locs = locs]
  <2>1. op.kind # "done"
    BY <1>1, TopEntry DEF OpKind, IInv
  <2>2. to.pc # "done" /\ next.pc # "done"
    BY <1>2, <2>1 DEF IsFrame
  <2>3. Continue(to) \/ Continue(next)
    BY <1>7 DEF Dispatch
  <2> HIDE DEF to, next
  <2> QED
    BY <1>1, <2>2, <2>3, GoesOn
<1>8. CASE DescendSource
  <2> DEFINE fr == [top EXCEPT !.src.c = Append(@, Slot(draft, top.src.c, SourcePath[top.n])), !.n = top.n + 1]
  <2>1. Continue(fr) /\ top.pc = "from"
    BY <1>8 DEF DescendSource, At
  <2>2. fr.pc # "done"
    BY <1>2, <2>1 DEF IsFrame
  <2> QED
    BY <1>1, <2>1, <2>2, GoesOn
<1>9. CASE ReadSource
  <2> DEFINE s == Slot(draft, top.src.c, op.key)
             fr == [top EXCEPT !.pc = "relocate", !.src.s = s,
                               !.src.held = ValueAt(draft, Append(top.src.c, s))]
  <2>1. Continue(fr)
    BY <1>9 DEF ReadSource
  <2>2. fr.pc # "done"
    BY <1>2 DEF IsFrame
  <2> QED
    BY <1>1, <2>1, <2>2, GoesOn
<1>10. CASE SkipSource
  <2> DEFINE fr == [top EXCEPT !.locs = Tail(@), !.src.same = TRUE]
  <2>1. Continue(fr) /\ top.pc = "relocate"
    BY <1>10 DEF SkipSource, Relocating, At
  <2>2. fr.pc # "done"
    BY <1>2, <2>1 DEF IsFrame
  <2> QED
    BY <1>1, <2>1, <2>2, GoesOn
<1>11. CASE WriteTarget
  <2> DEFINE fr == [top EXCEPT !.locs = Tail(@), !.src.attached = @ /\ ~Replaces(top.c, here, top.src.c)]
  <2>1. Continue(fr) /\ top.pc = "relocate"
    BY <1>11 DEF WriteTarget, Relocating, At
  <2>2. fr.pc # "done"
    BY <1>2, <2>1 DEF IsFrame
  <2> QED
    BY <1>1, <2>1, <2>2, GoesOn
<1>12. CASE Splice
  <2> DEFINE fr == [top EXCEPT !.locs = <<>>]
  <2>1. Continue(fr) /\ top.pc = "insert"
    BY <1>12 DEF Splice, Acting, At
  <2>2. fr.pc # "done"
    BY <1>2, <2>1 DEF IsFrame
  <2> HIDE DEF fr
  <2> QED
    BY <1>1, <2>1, <2>2, GoesOn
<1> QED
  BY <1>3, <1>4, <1>5, <1>6, <1>7, <1>8, <1>9, <1>10, <1>11, <1>12 DEF Advancing

\* A delta is begun: the stack is longer.
LEMMA NestGrows ==
  ASSUME IInv, NestTarget \/ NestContainer
  PROVE  Len(stack') # Len(stack)
<1>1. outcome = "running"
  BY DEF NestTarget, NestContainer, Acting, OnContainer, At
<1>2. /\ Len(stack) \in Nat \ {0} /\ Len(Tail(stack)) = Len(stack) - 1
      /\ Tail(stack) \in Seq(Range(stack))
  BY <1>1, StackFacts DEF IInv
<1>3. \E f, g : stack' = <<f, g>> \o Tail(stack)
  BY DEF NestTarget, NestContainer
<1> DEFINE n == Len(stack)
           rest == Tail(stack)
           A == Range(stack)
<1>4. n \in Nat \ {0} /\ Len(rest) = n - 1 /\ rest \in Seq(A)
  BY <1>2
<1> HIDE DEF n, rest, A
<1>5. PICK f, g : stack' = <<f, g>> \o rest
  BY <1>3 DEF rest
<1>6. Len(stack') = n + 1
  BY <1>4, <1>5
<1>7. Len(stack') # n
  BY <1>4, <1>6
<1> QED
  BY <1>7 DEF n

\* The steps that end an entry on targets.
LEMMA EndsBy ==
  ASSUME IInv, HInv, Next, Ends
  PROVE  NothingToDo \/ AllDone \/ ClearSource \/ KeepSource
<1>1. outcome = "running" /\ outcome' = "running" /\ top.pc # "done" /\ Len(stack') = Len(stack)
      /\ Head(stack').pc = "done" /\ E.scope = "targets"
  BY DEF Ends, Running
<1>2. ~Refusing
  <2>1. \A code : ~Fail(code)
    BY <1>1 DEF Fail
  <2> QED
    BY <2>1, RefusingFails
<1>3. ~Advancing /\ ~NestTarget /\ ~NestContainer
  BY <1>1, AdvancingGoesOn, NestGrows
<1>4. ~Begin /\ ~NextEntry /\ ~EndDelta /\ ~Return /\ ~Finished
  BY <1>1 DEF Begin, NextEntry, EndDelta, Return, Finished, At
<1>5. ~Empty /\ ~AssignContainer /\ ~InsertContainer /\ ~TestContainer
  <2>1. top.pc # "container"
    BY <1>1 DEF HInv, Story, E
  <2> QED
    BY <2>1 DEF Empty, AssignContainer, InsertContainer, TestContainer, OnContainer, At
<1> QED
  BY <1>2, <1>3, <1>4, <1>5, StepsAre DEF Ending

\* What is known of an entry that is about to end.
LEMMA EndKnows ==
  ASSUME IInv, HInv, Ends, ~Entangled(Start, top)
  PROVE  /\ outcome = "running" /\ op.kind # "nest"
         /\ Told(draft, Start, Base, top)
         /\ op.kind \in {"assign", "move", "copy"} => ~SharesOneof(Wanted(Base, top))
         /\ op.kind \in {"move", "copy"} /\ Wanted(Base, top) # {} => Apart(Base, top)
<1>1. outcome = "running" /\ top.pc # "done" /\ E.scope = "targets" /\ op.kind # "nest"
  BY DEF Ends, Running
<1>2. ~PathClears(Start, top.c)
  BY DEF Entangled
<1>3. Followed(Start, top)
  BY <1>1, <1>2 DEF Followed, E, op
<1>4. Told(draft, Start, Base, top)
  BY <1>1, <1>3 DEF HInv, Story, Start, Base
<1>5. /\ op.kind \in {"assign", "move", "copy"} => ~SharesOneof(Wanted(Base, top))
      /\ op.kind \in {"move", "copy"} /\ Wanted(Base, top) # {} =>
           /\ ~SourceGrows(top.c, top.src)
           /\ ~SourceMistaken(top.c, Wanted(Base, top), top.src)
  BY DEF Entangled, Wanted, Base, E, op
<1> QED
  BY <1>1, <1>4, <1>5 DEF Apart

LEMMA NothingMeans ==
  ASSUME IInv, HInv, NothingToDo, Ends, ~Entangled(Start, top)
  PROVE  draft' = Meaning(Start, top)
<1>1. /\ outcome = "running" /\ top.pc = "targets" /\ top.n > Len(E.targets)
      /\ top.locs = <<>> /\ op.kind # "test" /\ draft' = draft
  BY DEF NothingToDo, Expanded, At, Reading
<1>2. draft = Base /\ Sought(Base, top)
  BY <1>1, EndKnows DEF Told, E, op
<1>3. Wanted(Base, top) = {}
  BY <1>1, <1>2, SoughtAll DEF Range
<1> QED
  BY <1>1, <1>2, <1>3 DEF Meaning, Wanted, Base

LEMMA AllDoneMeans ==
  ASSUME IInv, HInv, AllDone, Ends, ~Entangled(Start, top)
  PROVE  draft' = Meaning(Start, top)
<1>1. /\ outcome = "running" /\ top.pc \in {"remove", "test", "insert", "assign", "nest"}
      /\ top.locs = <<>> /\ draft' = draft
  BY DEF AllDone, Reading
<1>2. /\ op.kind # "nest" /\ Told(draft, Start, Base, top)
      /\ op.kind = "assign" => ~SharesOneof(Wanted(Base, top))
  BY EndKnows
<1>3. op.kind = top.pc
  BY <1>1, TopOK DEF Doing, OpKind
<1> DEFINE W == Wanted(Base, top)
<1>4. CASE op.kind = "test"
  <2>1. draft = Start /\ draft = Base
    BY <1>2, <1>4 DEF Told, E, op
  <2> QED
    BY <1>1, <1>4, <2>1 DEF Meaning, Base, E, op
<1>5. CASE op.kind # "test"
  <2>1. top.pc \in Acts /\ op.kind \in {"remove", "insert", "assign"}
    BY <1>1, <1>2, <1>3, <1>5 DEF Acts
  <2>2. /\ W # {} /\ \E R \in SUBSET W : Done(draft, Base, top, R)
    BY <1>1, <1>2, <2>1, ActingIs
  <2>3. PICK R \in SUBSET W : Done(draft, Base, top, R)
    BY <2>2
  <2>4. R = W
    <3>1. Range(top.locs) = {}
      BY <1>1 DEF Range
    <3> QED
      BY <2>3, <3>1 DEF Done
  <2>5. CASE op.kind = "remove"
    <3>1. draft = Without(Base, top.c, W)
      BY <1>3, <2>3, <2>4, <2>5 DEF Done, Removing
    <3> QED
      BY <1>1, <2>2, <2>5, <3>1 DEF Meaning, Base, Wanted, E, op
  <2>6. CASE op.kind = "assign"
    <3>1. draft = With(Base, top.c, W, Content(op.value))
      BY <1>2, <1>3, <2>3, <2>4, <2>6 DEF Done, Assigning, E, op
    <3> QED
      BY <1>1, <2>2, <2>6, <3>1 DEF Meaning, Base, Wanted, E, op
  <2>7. CASE op.kind = "insert"
    <3>1. Inserting(draft, Base, top, W)
      BY <1>3, <2>3, <2>4, <2>7 DEF Done
    <3>2. /\ IsListAt(top.c) => draft = Interleaved(Base, top.c, W, Content(op.value))
          /\ ~IsListAt(top.c) => draft = With(Base, top.c, W, Content(op.value))
      BY <2>2, <3>1 DEF Inserting, E, op
    <3> QED
      BY <1>1, <2>2, <2>7, <3>2 DEF Meaning, Base, Wanted, E, op
  <2> QED
    BY <2>1, <2>5, <2>6, <2>7
<1> QED
  BY <1>4, <1>5

\* What a move or a copy has written when every target is done.
LEMMA MovedIs ==
  ASSUME IInv, HInv, Ends, ~Entangled(Start, top), top.pc = "relocate", top.locs = <<>>
  PROVE  LET W == Wanted(Base, top) IN
         /\ op.kind \in {"move", "copy"} /\ W # {}
         /\ top.src.attached <=> ~Displaced(top.c, Others(top, W), top.src)
         /\ top.src.same <=> \E s \in W : IsSource(top, s)
         /\ draft = With(Base, top.c, Others(top, W), ValueAt(Base, Append(top.src.c, top.src.s)))
<1>1. outcome = "running" /\ Told(draft, Start, Base, top) /\ top.pc \in Acts
  BY EndKnows DEF Acts
<1>2. op.kind \in {"move", "copy"}
  BY <1>1, RelocatingIs
<1> DEFINE W == Wanted(Base, top)
<1>3. W # {} /\ \E R \in SUBSET W : Done(draft, Base, top, R)
  BY <1>1, ActingIs
<1>4. PICK R \in SUBSET W : Done(draft, Base, top, R)
  BY <1>3
<1>5. R = W
  <2>1. Range(top.locs) = {}
    BY DEF Range
  <2> QED
    BY <1>4, <2>1 DEF Done
<1>6. Apart(Base, top)
  BY <1>2, <1>3, EndKnows
<1>7. Moving(draft, Base, top, W)
  BY <1>4, <1>5, <1>6 DEF Done
<1> QED
  BY <1>2, <1>3, <1>7 DEF Moving

LEMMA KeepMeans ==
  ASSUME IInv, HInv, KeepSource, Ends, ~Entangled(Start, top)
  PROVE  draft' = Meaning(Start, top)
<1>1. top.pc = "relocate" /\ top.locs = <<>> /\ (op.kind = "copy" \/ top.src.same) /\ draft' = draft
  BY DEF KeepSource, At, Reading
<1> DEFINE W == Wanted(Base, top)
<1>2. /\ op.kind \in {"move", "copy"} /\ W # {}
      /\ top.src.same <=> \E s \in W : IsSource(top, s)
      /\ draft = With(Base, top.c, Others(top, W), ValueAt(Base, Append(top.src.c, top.src.s)))
  BY <1>1, MovedIs
<1>3. draft = Relocated(Base, top.c, W, top.src, op.kind)
  BY <1>1, <1>2 DEF Relocated, Others, IsSource
<1> QED
  BY <1>1, <1>2, <1>3 DEF Meaning, Base, Wanted, E, op

LEMMA ClearMeans ==
  ASSUME IInv, HInv, ClearSource, Ends, ~Entangled(Start, top)
  PROVE  draft' = Meaning(Start, top)
<1>1. /\ outcome = "running" /\ top.pc = "relocate" /\ top.locs = <<>> /\ op.kind = "move" /\ ~top.src.same
      /\ draft' = IF top.src.attached THEN RemovedAt(draft, top.src.c, top.src.s) ELSE draft
  BY DEF ClearSource, At
<1> DEFINE W == Wanted(Base, top)
<1>2. /\ W # {}
      /\ top.src.attached <=> ~Displaced(top.c, Others(top, W), top.src)
      /\ top.src.same <=> \E s \in W : IsSource(top, s)
      /\ draft = With(Base, top.c, Others(top, W), ValueAt(Base, Append(top.src.c, top.src.s)))
  BY <1>1, MovedIs
<1>3. ASSUME top.src.attached
      PROVE  draft' = Without(draft, top.src.c, {top.src.s})
  <2>1. /\ Formed(draft) /\ Pos(top.src.c) /\ Lives(draft, top.src.c)
        /\ IsListAt(top.src.c) => Has(draft, Append(top.src.c, top.src.s))
    BY <1>1, <1>3, RelocatingIs DEF SourceOK
  <2>2. IsListAt(top.src.c) => top.src.s \in 1 .. Length(draft, top.src.c)
    BY <2>1, ListPlaces, PlaceIs DEF Formed, InOrder
  <2> DEFINE none == {}
  <2>3. Without(draft, top.src.c, none) = draft
    BY <2>1, WithoutNone
  <2>4. RemovedAt(Without(draft, top.src.c, none), top.src.c, top.src.s)
          = Without(draft, top.src.c, none \cup {top.src.s})
    <3> HIDE DEF none
    <3>1. \A i : i \notin none
      BY DEF none
    <3> QED
      BY <2>1, <2>2, <3>1, WithoutNext
  <2>5. none \cup {top.src.s} = {top.src.s}
    OBVIOUS
  <2> HIDE DEF none
  <2> QED
    BY <1>1, <1>3, <2>3, <2>4, <2>5
<1>4. draft' = Relocated(Base, top.c, W, top.src, op.kind)
  <2> DEFINE others == Others(top, W)
             written == With(Base, top.c, others, ValueAt(Base, Append(top.src.c, top.src.s)))
  <2>1. Relocated(Base, top.c, W, top.src, op.kind)
          = IF Displaced(top.c, others, top.src) THEN written ELSE Without(written, top.src.c, {top.src.s})
    BY <1>1, <1>2 DEF Relocated, Others, IsSource
  <2> HIDE DEF others
  <2> QED
    BY <1>1, <1>2, <1>3, <2>1 DEF others
<1> QED
  BY <1>1, <1>2, <1>4 DEF Meaning, Base, Wanted, E, op

LEMMA EndMeans ==
  ASSUME IInv, HInv, Next, Ends, ~Entangled(Start, top)
  PROVE  draft' = Meaning(Start, top)
BY EndsBy, NothingMeans, AllDoneMeans, ClearMeans, KeepMeans

-----------------------------------------------------------------------------
(* The theorem.                                                            *)

LEMMA HistoryInvariant == ESpec => [](IInv /\ HInv)
<1>1. EInit => IInv /\ HInv
  BY InitDraft, InitTells DEF EInit
<1>2. IInv /\ HInv /\ [ENext]_evars => (IInv /\ HInv)'
  <2> SUFFICES ASSUME IInv, HInv, [ENext]_evars PROVE IInv' /\ HInv'
    OBVIOUS
  <2>1. [Next]_vars
    BY DEF ENext, evars, vars
  <2>2. IInv'
    BY <2>1, StepKeepsDraft, NextControl DEF IInv
  <2> QED
    BY <2>2, StepTells
<1> QED
  BY <1>1, <1>2, PTL DEF ESpec

\* Whatever the document and the target, an entry on targets that ends has done,
\* to the document it found, what the format says it does to all its targets at
\* once, unless it is entangled.
THEOREM EntriesKeepContract == ESpec => EntryKeepsContract
<1>1. IInv /\ HInv /\ [ENext]_evars
        => [Ends /\ ~Entangled(Head(entered), top) => draft' = Meaning(Head(entered), top)]_evars
  <2> SUFFICES ASSUME IInv, HInv, ENext, Ends, ~Entangled(Head(entered), top)
               PROVE  draft' = Meaning(Head(entered), top)
    OBVIOUS
  <2> QED
    BY EndMeans DEF ENext, Start
<1> QED
  BY <1>1, HistoryInvariant, PTL DEF ESpec, EntryKeepsContract

=============================================================================
