--------------------------- MODULE DocumentProofs ---------------------------
(***************************************************************************)
(* Lemmas about documents: what the operations on them leave in place, and *)
(* that each of them makes a message of a message.                         *)
(***************************************************************************)
EXTENDS Document, TreeProofs

\* A document has a root; the zero value of T, for one, does not.
HasRoot(d) == <<>> \in DOMAIN d

\* Only the root is a prefix of the root.
LEMMA NotAboveRoot ==
  ASSUME NEW p, Len(p) \in Nat \ {0}
  PROVE  ~IsPrefix(p, <<>>)
BY DEF IsPrefix

-----------------------------------------------------------------------------
(* What is written below the root leaves the root.                         *)

LEMMA GraftKeepsRoot ==
  ASSUME NEW d, NEW p, NEW v, HasRoot(d), Len(p) \in Nat \ {0}
  PROVE  HasRoot(Graft(d, p, v))
<1>1. ~IsPrefix(p, <<>>)
  BY NotAboveRoot
<1> QED
  BY <1>1 DEF HasRoot, Graft, Under

LEMMA EraseAllKeepsRoot ==
  ASSUME NEW d, NEW P, HasRoot(d), \A p \in P : Len(p) \in Nat \ {0}
  PROVE  HasRoot(EraseAll(d, P))
<1>1. \A p \in P : ~IsPrefix(p, <<>>)
  BY NotAboveRoot
<1> QED
  BY <1>1 DEF HasRoot, EraseAll, RestrictDomain, Restrict

LEMMA EraseKeepsRoot ==
  ASSUME NEW d, NEW p, HasRoot(d), Len(p) \in Nat \ {0}
  PROVE  HasRoot(Erase(d, p))
BY EraseAllKeepsRoot DEF Erase

LEMMA OverlayKeepsRoot ==
  ASSUME NEW d, NEW c, NEW v, HasRoot(d)
  PROVE  HasRoot(Overlay(d, c, v))
BY DEF HasRoot, Overlay

LEMMA SetFieldKeepsRoot ==
  ASSUME NEW d, NEW c, NEW f, NEW v, HasRoot(d), Pos(c)
  PROVE  HasRoot(SetField(d, c, f, v))
<1> DEFINE kept == EraseAll(d, {Append(c, g) : g \in Siblings(f)})
<1>1. \A g : Len(Append(c, g)) \in Nat \ {0}
  BY AppendPos
<1>2. HasRoot(kept)
  BY <1>1, EraseAllKeepsRoot
<1>3. HasRoot(Erase(kept, Append(c, f))) /\ HasRoot(Graft(kept, Append(c, f), v))
  <2> HIDE DEF kept
  <2> QED
    BY <1>1, <1>2, EraseKeepsRoot, GraftKeepsRoot
<1> QED
  BY <1>3 DEF SetField

LEMMA MutableKeepsRoot ==
  ASSUME NEW d, NEW c, NEW f, HasRoot(d), Pos(c)
  PROVE  HasRoot(Mutable(d, c, f))
BY SetFieldKeepsRoot DEF Mutable

\* A list or a map is not the root, so emptying one or putting its elements
\* back leaves the root; emptying a message takes only its fields.
LEMMA CollectionBelowRoot ==
  ASSUME NEW c, Pos(c), ~IsMessageAt(c)
  PROVE  Len(c) \in Nat \ {0}
<1>1. c # <<>>
  BY DEF IsMessageAt
<1> QED
  BY <1>1, EmptySeq DEF Pos

LEMMA PutElementsKeepsRoot ==
  ASSUME NEW d, NEW c, NEW s, HasRoot(d), Pos(c), IsListAt(c)
  PROVE  HasRoot(PutElements(d, c, s))
BY CollectionBelowRoot, GraftKeepsRoot DEF PutElements, IsListAt

LEMMA EmptyContainerKeepsRoot ==
  ASSUME NEW d, NEW c, HasRoot(d), Pos(c)
  PROVE  HasRoot(EmptyContainer(d, c))
<1>1. CASE IsMessageAt(c)
  <2> DEFINE P == {Append(c, f) : f \in Field}
  <2>1. \A p \in P : Len(p) \in Nat \ {0}
    BY AppendPos
  <2>2. HasRoot(EraseAll(d, P))
    BY <2>1, EraseAllKeepsRoot
  <2> QED
    BY <1>1, <2>2 DEF EmptyContainer
<1>2. CASE ~IsMessageAt(c)
  BY <1>2, CollectionBelowRoot, EraseKeepsRoot DEF EmptyContainer
<1> QED
  BY <1>1, <1>2

-----------------------------------------------------------------------------
(* A message, position by position.  IsMessage counts a list's places;     *)
(* what an operation leaves in place is easier to see from a form that     *)
(* only asks which positions are there.                                    *)

\* The container of q is there and has the place q.
Seated(d, q) ==
  /\ Lives(d, Front(q))
  /\ IsMessageAt(Front(q)) => Last(q) = Unknown \/ (Last(q) \in Field /\ Card[Last(q)] = "singular")
  /\ IsListAt(Front(q)) => /\ Last(q) \in Nat \ {0}
                           /\ \A i \in 1 .. Last(q) : Append(Front(q), i) \in DOMAIN d
  /\ IsMapAt(Front(q)) => Last(q) \in Key

IsOf(x, type) == IF type = Msg THEN x = Msg ELSE x \in Scalar /\ Kind[x] = type

Typed(d, q) == IF Last(q) = Unknown THEN d[q] # Msg ELSE IsOf(d[q], TypeAt(q))

\* No member of a oneof is set besides another one of it, in the message c.
Alone(d, c) ==
  \A f \in Field : \A g \in Siblings(f) : ~(Append(c, f) \in DOMAIN d /\ Append(c, g) \in DOMAIN d)

\* A value with everything in it in order, whatever the value itself is.
InOrder(v) ==
  /\ IsTree(v) /\ <<>> \in DOMAIN v
  /\ \A q \in DOMAIN v \ {<<>>} : Seated(v, q) /\ Typed(v, q)
  /\ \A c \in DOMAIN v : Alone(v, c)

Formed(d) == InOrder(d) /\ d[<<>>] = Msg

\* The kind of a container follows from its segment.
LEMMA KindOfPlace ==
  ASSUME NEW c, NEW s, Pos(c)
  PROVE  /\ IsMessageAt(Append(c, s)) <=> (s \in Field => Card[s] = "singular")
         /\ IsListAt(Append(c, s)) <=> s \in Field /\ Card[s] = "list"
         /\ IsMapAt(Append(c, s)) <=> s \in Field /\ Card[s] = "map"
<1>1. Append(c, s) # <<>> /\ Last(Append(c, s)) = s
  BY AppendPos, AppendIs
<1> QED
  BY <1>1 DEF IsMessageAt, IsListAt, IsMapAt

LEMMA KindsOfContainer ==
  ASSUME NEW c
  PROVE  /\ IsMessageAt(<<>>)
         /\ IsListAt(c) \/ IsMapAt(c) => ~IsMessageAt(c) /\ c # <<>> /\ Last(c) \in Field
         /\ IsMessageAt(c) \/ IsListAt(c) \/ IsMapAt(c)
         /\ ~(IsListAt(c) /\ IsMapAt(c))
<1>1. \A f \in Field : Card[f] \in {"singular", "list", "map"}
  BY SchemaAssumption
<1> QED
  BY <1>1 DEF IsMessageAt, IsListAt, IsMapAt

LEMMA TypeOfPlace ==
  ASSUME NEW c, NEW s, Pos(c)
  PROVE  /\ s \in Field => TypeAt(Append(c, s)) = Type[s]
         /\ s \notin Field /\ c # <<>> => TypeAt(Append(c, s)) = Type[Last(c)]
<1> DEFINE q == Append(c, s)
<1>1. /\ Len(q) = Len(c) + 1 /\ Last(q) = s /\ Len(c) \in Nat
      /\ \A i \in 1 .. Len(c) : q[i] = c[i]
  BY AppendPos, AppendIs, PosIs
<1> HIDE DEF q
<1>2. c # <<>> => q[Len(q) - 1] = Last(c)
  <2> SUFFICES ASSUME c # <<>> PROVE q[Len(q) - 1] = Last(c)
    OBVIOUS
  <2>1. Len(c) > 0
    BY NotRoot
  <2>2. Len(q) - 1 = Len(c) /\ Len(c) \in 1 .. Len(c)
    BY <1>1, <2>1
  <2> QED
    BY <1>1, <2>2 DEF Last
<1>3. TypeAt(q) = IF Last(q) \in Field THEN Type[Last(q)] ELSE Type[q[Len(q) - 1]]
  BY DEF TypeAt
<1> QED
  BY <1>1, <1>2, <1>3 DEF q

\* Every position lies in containers that are there, and is a message or a scalar.
Held(d) ==
  /\ IsTree(d) /\ <<>> \in DOMAIN d
  /\ \A q \in DOMAIN d \ {<<>>} : Lives(d, Front(q)) /\ IsMessageAt(q)

LEMMA AncestorsLive ==
  ASSUME NEW d, Held(d), NEW q \in DOMAIN d, NEW r, Pos(r), IsPrefix(r, q), r # q
  PROVE  Lives(d, r)
<1> DEFINE T == {n \in Nat : \E x \in DOMAIN d : Len(x) = n /\ IsPrefix(r, x) /\ r # x /\ ~Lives(d, r)}
<1> SUFFICES ASSUME ~Lives(d, r) PROVE FALSE
  OBVIOUS
<1>1. \A x \in DOMAIN d : Pos(x) /\ Len(x) \in Nat
  BY TreePos, PosIs DEF Held
<1>2. T # {}
  BY <1>1
<1>3. PICK n \in T : \A j \in T : n <= j
  BY <1>2, LeastNat
<1>4. PICK x \in DOMAIN d : Len(x) = n /\ IsPrefix(r, x) /\ r # x
  BY <1>3
<1>5. x # <<>>
  BY <1>1, <1>4, RootAbove
<1> DEFINE y == Front(x)
<1>6. Pos(y) /\ x = Append(y, Last(x)) /\ Lives(d, y) /\ Len(y) < Len(x) /\ Len(y) \in Nat
  BY <1>1, <1>5, FrontIs DEF Held
<1>7. IsPrefix(r, y)
  BY <1>4, <1>6, BelowAppend
<1>8. r # y
  BY <1>6
<1> HIDE DEF y
<1>9. CASE IsMessageAt(y)
  <2>1. y \in DOMAIN d
    BY <1>6, <1>9 DEF Lives
  <2>2. Len(y) \in T
    BY <1>6, <1>7, <1>8, <2>1
  <2> QED
    BY <1>3, <1>4, <1>6, <2>2
<1>10. CASE ~IsMessageAt(y)
  <2> DEFINE z == Front(y)
  <2>1. y # <<>> /\ z \in DOMAIN d /\ d[z] = Msg
    BY <1>6, <1>10, KindsOfContainer DEF Lives
  <2>2. Pos(z) /\ y = Append(z, Last(y)) /\ Len(z) < Len(y) /\ Len(z) \in Nat
    BY <1>6, <2>1, FrontIs
  <2>3. IsPrefix(r, z)
    BY <1>7, <1>8, <2>2, BelowAppend
  <2>4. IsMessageAt(z)
    BY <2>1, KindsOfContainer DEF Held
  <2> HIDE DEF z
  <2>5. r # z
    BY <2>1, <2>4 DEF Lives
  <2>6. Len(z) \in T
    BY <2>1, <2>2, <2>3, <2>5
  <2> QED
    BY <1>3, <1>4, <1>6, <2>2, <2>6
<1> QED
  BY <1>9, <1>10

\* What is found below a place of a message or a scalar is found through it.
LEMMA HasIs ==
  ASSUME NEW d, Held(d), NEW p, Pos(p), IsMessageAt(p)
  PROVE  Has(d, p) <=> p \in DOMAIN d
<1>1. p \in DOMAIN d => Has(d, p)
  BY PrefixOrder DEF Has, Under
<1>2. ASSUME NEW q \in DOMAIN d, IsPrefix(p, q)
      PROVE  p \in DOMAIN d
  <2>1. p # q => Lives(d, p)
    BY <1>2, AncestorsLive
  <2> QED
    BY <1>2, <2>1 DEF Lives
<1> QED
  BY <1>1, <1>2 DEF Has, Under

LEMMA SiblingsAreSingular ==
  ASSUME NEW f \in Field, NEW g \in Siblings(f)
  PROVE  /\ g \in Field /\ f # g /\ f \in Siblings(g)
         /\ Card[f] = "singular" /\ Card[g] = "singular"
BY SchemaAssumption DEF Siblings

\* The places of a container are the ones with something at or below them.
LEMMA PlaceIs ==
  ASSUME NEW d, IsTree(d), NEW c, Pos(c), NEW s
  PROVE  s \in Places(d, c) <=> Has(d, Append(c, s))
<1>1. ASSUME NEW q \in DOMAIN d
      PROVE  IsPrefix(Append(c, s), q) <=> q \in Under(d, c) \ {c} /\ q[Len(c) + 1] = s
  BY TreePos, AppendBelow DEF Under
<1> QED
  BY <1>1 DEF Places, Has, Under

LEMMA PlacesFinite ==
  ASSUME NEW d, IsTree(d), NEW c
  PROVE  IsFiniteSet(Places(d, c))
<1> DEFINE U == Under(d, c) \ {c}
           S == {q[Len(c) + 1] : q \in U}
           f == [q \in U |-> q[Len(c) + 1]]
<1>1. IsFiniteSet(U)
  BY FS_Subset DEF IsTree, Under
<1>2. f \in Surjection(U, S)
  BY DEF Surjection
<1> HIDE DEF f, U
<1>3. IsFiniteSet(S)
  BY <1>1, <1>2, FS_Surjection
<1> QED
  BY <1>3 DEF Places, U

\* An element of a list is a message or a scalar, so its place is its position.
LEMMA ElementIs ==
  ASSUME NEW d, Held(d), NEW c, Pos(c), NEW i, i \notin Field
  PROVE  i \in Places(d, c) <=> Append(c, i) \in DOMAIN d
<1>1. IsMessageAt(Append(c, i)) /\ Pos(Append(c, i))
  BY KindOfPlace, AppendPos
<1> QED
  BY <1>1, PlaceIs, HasIs DEF Held

LEMMA InOrderHeld ==
  ASSUME NEW v, InOrder(v)
  PROVE  Held(v)
<1>1. ASSUME NEW q \in DOMAIN v, q # <<>>
      PROVE  Lives(v, Front(q)) /\ IsMessageAt(q)
  <2> DEFINE c == Front(q)
             s == Last(q)
  <2>1. Pos(c) /\ q = Append(c, s)
    BY <1>1, TreePos, FrontIs DEF InOrder
  <2>2. Seated(v, q)
    BY <1>1 DEF InOrder
  <2>3. s \in Field => Card[s] = "singular"
    BY <2>2, KindsOfContainer, SchemaAssumption DEF Seated
  <2> HIDE DEF c, s
  <2>4. IsMessageAt(q)
    BY <2>1, <2>3, KindOfPlace
  <2> QED
    BY <2>2, <2>4 DEF Seated
<1> QED
  BY <1>1 DEF Held, InOrder

LEMMA MessageHeld ==
  ASSUME NEW d, IsMessage(d)
  PROVE  Held(d)
<1>1. ASSUME NEW q \in DOMAIN d, q # <<>>
      PROVE  Lives(d, Front(q)) /\ IsMessageAt(q)
  <2> DEFINE c == Front(q)
             s == Last(q)
  <2>1. Pos(c) /\ q = Append(c, s)
    BY <1>1, TreePos, FrontIs DEF IsMessage
  <2>2. /\ Lives(d, c)
        /\ CASE IsMessageAt(c) -> s = Unknown \/ (s \in Field /\ Card[s] = "singular")
             [] IsListAt(c)    -> s \in 1 .. Length(d, c)
             [] IsMapAt(c)     -> s \in Key
    BY <1>1 DEF IsMessage, Rooted
  <2>3. IsMessageAt(c) => s = Unknown \/ (s \in Field /\ Card[s] = "singular")
    BY <2>2, KindsOfContainer
  <2>4. IsListAt(c) => s \in Int
    <3>1. Length(d, c) \in Nat
      BY PlacesFinite, FS_CardinalityType DEF Length, IsMessage
    <3>2. IsListAt(c) => s \in 1 .. Length(d, c)
      BY <2>2, KindsOfContainer
    <3> QED
      BY <3>1, <3>2
  <2>5. IsMapAt(c) => s \in Key
    BY <2>2, KindsOfContainer
  <2>6. s \in Field => Card[s] = "singular"
    BY <2>3, <2>4, <2>5, KindsOfContainer, SchemaAssumption
  <2> HIDE DEF c, s
  <2>7. IsMessageAt(q)
    BY <2>1, <2>6, KindOfPlace
  <2> QED
    BY <2>2, <2>7 DEF c
<1> QED
  BY <1>1 DEF Held, IsMessage

\* The places of a list are 1 .. Length, in a message whose lists have no gap.
LEMMA ListPlaces ==
  ASSUME NEW d, Formed(d) \/ IsMessage(d), NEW c, Pos(c), IsListAt(c)
  PROVE  Places(d, c) = 1 .. Length(d, c) /\ Length(d, c) \in Nat
<1>0. Held(d) /\ IsTree(d) /\ \A i \in Int : i \notin Field
  BY InOrderHeld, MessageHeld, SchemaAssumption DEF Formed, Held
<1>1. IsFiniteSet(Places(d, c))
  BY <1>0, PlacesFinite
<1>2. Length(d, c) \in Nat
  BY <1>1, FS_CardinalityType DEF Length
\* What is at a place is at a position of its own.
<1>3. ASSUME NEW s \in Places(d, c)
      PROVE  \/ Append(c, s) \in DOMAIN d
             \/ Lives(d, Append(c, s)) /\ ~IsMessageAt(Append(c, s))
  <2>1. PICK q \in DOMAIN d : IsPrefix(Append(c, s), q)
    BY <1>0, PlaceIs DEF Has, Under
  <2>2. Append(c, s) # q => Lives(d, Append(c, s))
    BY <1>0, <2>1, AppendPos, AncestorsLive
  <2> QED
    BY <2>2 DEF Lives
<1>4. ASSUME NEW s \in Places(d, c)
      PROVE  Append(c, s) \in DOMAIN d
  <2>1. CASE ~IsMessageAt(Append(c, s))
    <3>1. Append(c, s) \in DOMAIN d \/ c \in DOMAIN d
      BY <1>3, <2>1, AppendIs DEF Lives
    <3>2. c \notin DOMAIN d
      BY <1>0, KindsOfContainer DEF Held
    <3> QED
      BY <3>1, <3>2
  <2> QED
    BY <1>3, <2>1
<1>5. CASE IsMessage(d)
  <2>1. ASSUME NEW s \in Places(d, c)
        PROVE  s \in 1 .. Length(d, c)
    <3> DEFINE q == Append(c, s)
    <3>1. q \in DOMAIN d /\ q # <<>> /\ Front(q) = c /\ Last(q) = s
      BY <1>4, AppendPos, AppendIs
    <3> HIDE DEF q
    <3>2. /\ Lives(d, c)
          /\ CASE IsMessageAt(c) -> s = Unknown \/ (s \in Field /\ Card[s] = "singular")
               [] IsListAt(c)    -> s \in 1 .. Length(d, c)
               [] IsMapAt(c)     -> s \in Key
      BY <1>5, <3>1 DEF IsMessage, Rooted
    <3> QED
      BY <3>2, KindsOfContainer
  <2>2. Cardinality(1 .. Length(d, c)) = Length(d, c) /\ IsFiniteSet(1 .. Length(d, c))
    BY <1>2, FS_Interval
  <2>3. Places(d, c) = 1 .. Length(d, c)
    BY <2>1, <2>2, FS_Subset DEF Length
  <2> QED
    BY <1>2, <2>3
<1>6. CASE Formed(d)
  <2>1. ASSUME NEW s \in Places(d, c)
        PROVE  s \in Nat \ {0} /\ \A i \in 1 .. s : i \in Places(d, c)
    <3> DEFINE q == Append(c, s)
    <3>1. q \in DOMAIN d /\ q # <<>> /\ Front(q) = c /\ Last(q) = s
      BY <1>4, AppendPos, AppendIs
    <3> HIDE DEF q
    <3>2. s \in Nat \ {0} /\ \A i \in 1 .. s : Append(c, i) \in DOMAIN d
      BY <1>6, <3>1 DEF Formed, InOrder, Seated
    <3>3. ASSUME NEW i \in 1 .. s
          PROVE  i \in Places(d, c)
      BY <1>0, <3>2, ElementIs
    <3> QED
      BY <3>2, <3>3
  <2>2. Places(d, c) \in SUBSET (Nat \ {0}) /\ \A i \in Places(d, c) : \A j \in 1 .. i : j \in Places(d, c)
    BY <2>1
  <2>3. Places(d, c) = 1 .. Length(d, c)
    BY <1>1, <2>2, WithoutGap DEF Length
  <2> QED
    BY <1>2, <2>3
<1> QED
  BY <1>5, <1>6

LEMMA FormedIsMessage ==
  ASSUME NEW d
  PROVE  Formed(d) <=> IsMessage(d)
<1>1. ASSUME Formed(d) \/ IsMessage(d), NEW c \in DOMAIN d, NEW f \in Field, NEW g \in Siblings(f)
      PROVE  /\ Has(d, Append(c, f)) <=> Append(c, f) \in DOMAIN d
             /\ Has(d, Append(c, g)) <=> Append(c, g) \in DOMAIN d
  <2>1. Held(d)
    BY <1>1, InOrderHeld, MessageHeld DEF Formed
  <2>2. Pos(c) /\ Pos(Append(c, f)) /\ Pos(Append(c, g))
    BY <2>1, TreePos, AppendPos DEF Held
  <2>3. IsMessageAt(Append(c, f)) /\ IsMessageAt(Append(c, g))
    BY <2>2, SiblingsAreSingular, KindOfPlace
  <2> QED
    BY <2>1, <2>2, <2>3, HasIs
<1>2. ASSUME Formed(d)
      PROVE  IsMessage(d)
  <2>1. ASSUME NEW q \in DOMAIN d \ {<<>>}
        PROVE  LET c == Front(q) IN
               /\ Lives(d, c)
               /\ CASE IsMessageAt(c) -> Last(q) = Unknown \/ (Last(q) \in Field /\ Card[Last(q)] = "singular")
                    [] IsListAt(c)    -> Last(q) \in 1 .. Length(d, c)
                    [] IsMapAt(c)     -> Last(q) \in Key
    <3> DEFINE c == Front(q)
    <3>1. Seated(d, q) /\ Pos(c) /\ q = Append(c, Last(q))
      BY <1>2, TreePos, FrontIs DEF Formed, InOrder
    <3>2. IsListAt(c) => Last(q) \in 1 .. Length(d, c)
      <4> SUFFICES ASSUME IsListAt(c) PROVE Last(q) \in 1 .. Length(d, c)
        OBVIOUS
      <4>1. Last(q) \in Nat \ {0}
        BY <3>1 DEF Seated
      <4>2. Last(q) \notin Field
        BY <4>1, SchemaAssumption
      <4>3. Last(q) \in Places(d, c)
        BY <1>2, <3>1, <4>2, InOrderHeld, ElementIs DEF Formed
      <4> QED
        BY <1>2, <3>1, <4>3, ListPlaces
    <3> QED
      BY <3>1, <3>2, KindsOfContainer DEF Seated
  <2>2. Rooted(d)
    BY <2>1 DEF Rooted
  <2>3. WellTyped(d)
    BY <1>2 DEF WellTyped, Formed, InOrder, Typed, IsOf
  <2>4. OneofExclusive(d)
    BY <1>1, <1>2 DEF OneofExclusive, Formed, InOrder, Alone
  <2> QED
    BY <1>2, <2>2, <2>3, <2>4 DEF IsMessage, Formed, InOrder
<1>3. ASSUME IsMessage(d)
      PROVE  Formed(d)
  <2>1. ASSUME NEW q \in DOMAIN d \ {<<>>}
        PROVE  Seated(d, q)
    <3> DEFINE c == Front(q)
    <3>1. /\ Lives(d, c)
          /\ CASE IsMessageAt(c) -> Last(q) = Unknown \/ (Last(q) \in Field /\ Card[Last(q)] = "singular")
               [] IsListAt(c)    -> Last(q) \in 1 .. Length(d, c)
               [] IsMapAt(c)     -> Last(q) \in Key
      BY <1>3 DEF IsMessage, Rooted
    <3>2. Pos(c)
      BY <1>3, TreePos, FrontIs DEF IsMessage
    <3>3. IsListAt(c) => /\ Last(q) \in Nat \ {0}
                         /\ \A i \in 1 .. Last(q) : Append(c, i) \in DOMAIN d
      <4> SUFFICES ASSUME IsListAt(c)
                   PROVE  Last(q) \in Nat \ {0} /\ \A i \in 1 .. Last(q) : Append(c, i) \in DOMAIN d
        OBVIOUS
      <4>1. Last(q) \in 1 .. Length(d, c) /\ Length(d, c) \in Nat /\ Places(d, c) = 1 .. Length(d, c)
        BY <1>3, <3>1, <3>2, KindsOfContainer, ListPlaces
      <4>2. ASSUME NEW i \in 1 .. Last(q)
            PROVE  Append(c, i) \in DOMAIN d
        <5>1. i \in Places(d, c) /\ i \notin Field
          BY <4>1, SchemaAssumption
        <5> QED
          BY <1>3, <3>2, <5>1, MessageHeld, ElementIs
      <4> QED
        BY <4>1, <4>2
    <3> QED
      BY <3>1, <3>3, KindsOfContainer DEF Seated
  <2>2. \A q \in DOMAIN d \ {<<>>} : Typed(d, q)
    BY <1>3 DEF IsMessage, WellTyped, Typed, IsOf
  <2>3. \A c \in DOMAIN d : Alone(d, c)
    BY <1>1, <1>3 DEF IsMessage, OneofExclusive, Alone
  <2> QED
    BY <1>3, <2>1, <2>2, <2>3 DEF Formed, InOrder, IsMessage
<1> QED
  BY <1>2, <1>3

-----------------------------------------------------------------------------
(* What is in order in one place is in order in another.                   *)

LEMMA ConcatLast ==
  ASSUME NEW p, NEW z, Pos(p), Pos(z), z # <<>>
  PROVE  p \o z = Append(p \o Front(z), Last(z)) /\ Pos(p \o Front(z)) /\ Pos(Front(z))
         /\ Front(p \o z) = p \o Front(z) /\ Last(p \o z) = Last(z)
<1>1. Pos(Front(z)) /\ z = Append(Front(z), Last(z))
  BY FrontIs
<1>2. p \o Append(Front(z), Last(z)) = Append(p \o Front(z), Last(z))
  BY <1>1, ConcatAppend
<1>3. Pos(p \o Front(z))
  BY <1>1, ConcatPos
<1>4. p \o z = Append(p \o Front(z), Last(z))
  BY <1>1, <1>2
<1>5. /\ Front(Append(p \o Front(z), Last(z))) = p \o Front(z)
      /\ Last(Append(p \o Front(z), Last(z))) = Last(z)
  BY <1>3, AppendIs
<1> QED
  BY <1>1, <1>3, <1>4, <1>5

LEMMA KindBelow ==
  ASSUME NEW p, NEW w, NEW z, Pos(p), Pos(w), Pos(z), IsMessageAt(p), IsMessageAt(w)
  PROVE  /\ IsMessageAt(p \o z) <=> IsMessageAt(w \o z)
         /\ IsListAt(p \o z) <=> IsListAt(w \o z)
         /\ IsMapAt(p \o z) <=> IsMapAt(w \o z)
         /\ ~IsMessageAt(p \o z) => z # <<>>
<1>1. CASE z = <<>>
  <2>1. p \o z = p /\ w \o z = w
    BY <1>1, ConcatRoot
  <2> QED
    BY <2>1, KindsOfContainer
<1>2. CASE z # <<>>
  <2>1. /\ p \o z = Append(p \o Front(z), Last(z)) /\ Pos(p \o Front(z))
        /\ w \o z = Append(w \o Front(z), Last(z)) /\ Pos(w \o Front(z))
    BY <1>2, ConcatLast
  <2> QED
    BY <1>2, <2>1, KindOfPlace
<1> QED
  BY <1>1, <1>2

\* A document d that holds at p all that e holds at w.
Takes(d, p, e, w) ==
  \A x : Pos(x) /\ w \o x \in DOMAIN e => p \o x \in DOMAIN d /\ d[p \o x] = e[w \o x]

LEMMA LivesBelow ==
  ASSUME NEW d, NEW e, NEW p, NEW w, NEW z, Pos(p), Pos(w), Pos(z), IsMessageAt(p), IsMessageAt(w),
         Takes(d, p, e, w), Lives(e, w \o z)
  PROVE  Lives(d, p \o z)
<1>1. CASE IsMessageAt(w \o z)
  BY <1>1, KindBelow DEF Lives, Takes
<1>2. CASE ~IsMessageAt(w \o z)
  <2>1. z # <<>> /\ ~IsMessageAt(p \o z)
    BY <1>2, KindBelow
  <2>2. Front(p \o z) = p \o Front(z) /\ Front(w \o z) = w \o Front(z) /\ Pos(Front(z))
    BY <2>1, ConcatLast
  <2> QED
    BY <1>2, <2>1, <2>2 DEF Lives, Takes
<1> QED
  BY <1>1, <1>2

LEMMA Transplanted ==
  ASSUME NEW d, NEW e, NEW p, NEW w, Pos(p), Pos(w), IsMessageAt(p), IsMessageAt(w),
         Takes(d, p, e, w), NEW r, Pos(r), r # <<>>, w \o r \in DOMAIN e,
         Seated(e, w \o r), Typed(e, w \o r)
  PROVE  Seated(d, p \o r) /\ Typed(d, p \o r)
<1> DEFINE z == Front(r)
           s == Last(r)
<1>1. /\ Pos(z) /\ Pos(p \o z) /\ Pos(w \o z)
      /\ p \o r = Append(p \o z, s) /\ Front(p \o r) = p \o z /\ Last(p \o r) = s
      /\ w \o r = Append(w \o z, s) /\ Front(w \o r) = w \o z /\ Last(w \o r) = s
  BY ConcatLast
<1> HIDE DEF z, s
<1>2. /\ IsMessageAt(p \o z) <=> IsMessageAt(w \o z)
      /\ IsListAt(p \o z) <=> IsListAt(w \o z)
      /\ IsMapAt(p \o z) <=> IsMapAt(w \o z)
  BY <1>1, KindBelow
<1>3. ASSUME NEW i, Append(w \o z, i) \in DOMAIN e
      PROVE  Append(p \o z, i) \in DOMAIN d
  <2>0. Pos(z)
    BY <1>1
  <2>1. Pos(Append(z, i)) /\ w \o Append(z, i) = Append(w \o z, i) /\ p \o Append(z, i) = Append(p \o z, i)
    BY <2>0, AppendPos, ConcatAppend
  <2> QED
    BY <1>3, <2>1 DEF Takes
<1>4. Lives(d, p \o z)
  BY <1>1, LivesBelow DEF Seated
<1>5. Seated(d, p \o r)
  BY <1>1, <1>2, <1>3, <1>4 DEF Seated
<1>6. d[p \o r] = e[w \o r]
  BY DEF Takes
<1>7. s # Unknown => TypeAt(p \o r) = TypeAt(w \o r)
  <2>1. CASE s \in Field
    BY <1>1, <2>1, TypeOfPlace
  <2>2. CASE s \notin Field /\ z # <<>>
    <3>1. Last(p \o z) = Last(z) /\ Last(w \o z) = Last(z)
      BY <1>1, <2>2, ConcatLast
    <3>2. p \o z # <<>> /\ w \o z # <<>>
      <4>1. /\ p \o z = Append(p \o Front(z), Last(z)) /\ Pos(p \o Front(z))
            /\ w \o z = Append(w \o Front(z), Last(z)) /\ Pos(w \o Front(z))
        BY <1>1, <2>2, ConcatLast
      <4> QED
        BY <4>1, AppendPos
    <3>3. TypeAt(p \o r) = Type[Last(p \o z)] /\ TypeAt(w \o r) = Type[Last(w \o z)]
      <4>1. Pos(p \o z) /\ Pos(w \o z) /\ s \notin Field
        BY <1>1, <2>2
      <4>2. TypeAt(Append(p \o z, s)) = Type[Last(p \o z)]
        BY <3>2, <4>1, TypeOfPlace
      <4>3. TypeAt(Append(w \o z, s)) = Type[Last(w \o z)]
        BY <3>2, <4>1, TypeOfPlace
      <4> QED
        BY <1>1, <4>2, <4>3
    <3> QED
      BY <3>1, <3>3
  <2>3. CASE s \notin Field /\ z = <<>>
    <3>1. w \o z = w
      BY <2>3, ConcatRoot
    <3> QED
      BY <1>1, <2>3, <3>1 DEF Seated
  <2> QED
    BY <2>1, <2>2, <2>3
<1>8. Typed(d, p \o r)
  BY <1>1, <1>6, <1>7 DEF Typed
<1> QED
  BY <1>5, <1>8

\* A document that takes all that another holds keeps what is in order in that.
LEMMA TakenInOrder ==
  ASSUME NEW d, NEW e, \A x \in DOMAIN e : x \in DOMAIN d /\ d[x] = e[x],
         NEW q \in DOMAIN e, Pos(q), q # <<>>, Seated(e, q), Typed(e, q)
  PROVE  Seated(d, q) /\ Typed(d, q)
<1>1. \A x : Pos(x) => <<>> \o x = x
  BY ConcatEmptySeq DEF Pos
<1>2. Takes(d, <<>>, e, <<>>)
  BY <1>1 DEF Takes
<1>3. /\ Seated(e, <<>> \o q) /\ Typed(e, <<>> \o q)
      /\ <<>> \o q \in DOMAIN e /\ <<>> \o q = q
  BY <1>1
<1>4. Pos(<<>>) /\ IsMessageAt(<<>>)
  BY RootPos, KindsOfContainer
<1>5. Seated(d, <<>> \o q) /\ Typed(d, <<>> \o q)
  BY <1>2, <1>3, <1>4, Transplanted
<1> QED
  BY <1>3, <1>5

LEMMA AloneBelow ==
  ASSUME NEW d, NEW e, NEW p, NEW w, NEW z, Pos(p), Pos(w), Pos(z),
         Takes(e, w, d, p), Alone(e, w \o z)
  PROVE  Alone(d, p \o z)
<1>1. ASSUME NEW f, Append(p \o z, f) \in DOMAIN d
      PROVE  Append(w \o z, f) \in DOMAIN e
  <2>1. Pos(Append(z, f)) /\ w \o Append(z, f) = Append(w \o z, f) /\ p \o Append(z, f) = Append(p \o z, f)
    BY AppendPos, ConcatAppend
  <2> QED
    BY <1>1, <2>1 DEF Takes
<1> QED
  BY <1>1 DEF Alone

-----------------------------------------------------------------------------
(* The operations on trees make messages of messages.                      *)

\* A value that a place of a type takes.
Fit(v, type) == InOrder(v) /\ IsOf(v[<<>>], type)

\* What a container is held by lies above it.
LEMMA LivesKept ==
  ASSUME NEW d, NEW e, NEW h, Pos(h), Lives(d, h),
         \A x \in DOMAIN d : IsPrefix(x, h) => x \in DOMAIN e /\ e[x] = d[x]
  PROVE  Lives(e, h)
<1>1. IsPrefix(h, h)
  BY PrefixOrder
<1>2. ~IsMessageAt(h) => IsPrefix(Front(h), h)
  BY FrontIs, KindsOfContainer
<1> QED
  BY <1>1, <1>2 DEF Lives

LEMMA EraseKeepsFormed ==
  ASSUME NEW d, Formed(d), NEW c, Pos(c), ~IsListAt(c), NEW S
  PROVE  Formed(EraseAll(d, {Append(c, s) : s \in S}))
<1> DEFINE P == {Append(c, s) : s \in S}
           e == EraseAll(d, P)
<1>0. IsTree(d) /\ <<>> \in DOMAIN d
  BY DEF Formed, InOrder
<1>1. /\ IsTree(e)
      /\ DOMAIN e = {q \in DOMAIN d : \A p \in P : ~IsPrefix(p, q)}
      /\ \A q \in DOMAIN e : e[q] = d[q]
  BY <1>0, EraseAllIs
<1>2. \A p \in P : Pos(p) /\ Len(p) \in Nat \ {0}
  BY AppendPos
<1> HIDE DEF e
<1>3. ASSUME NEW q \in DOMAIN e, NEW x \in DOMAIN d, IsPrefix(x, q)
      PROVE  x \in DOMAIN e
  <2>1. Pos(x) /\ Pos(q) /\ \A p \in P : ~IsPrefix(p, q)
    BY <1>0, <1>1, TreePos
  <2>2. ASSUME NEW p \in P, IsPrefix(p, x)
        PROVE  FALSE
    BY <1>2, <1>3, <2>1, <2>2, PrefixOrder
  <2> QED
    BY <1>1, <2>2
<1>4. <<>> \in DOMAIN e /\ e[<<>>] = d[<<>>]
  BY <1>0, <1>1, <1>2, NotAboveRoot
<1>5. ASSUME NEW q \in DOMAIN e \ {<<>>}
      PROVE  Seated(e, q) /\ Typed(e, q)
  <2> DEFINE h == Front(q)
  <2>1. q \in DOMAIN d /\ Pos(q) /\ Pos(h) /\ IsPrefix(h, q) /\ e[q] = d[q]
    BY <1>0, <1>1, TreePos, FrontIs
  <2>2. Seated(d, q) /\ Typed(d, q)
    BY <2>1 DEF Formed, InOrder
  <2>3. ASSUME NEW x \in DOMAIN d, IsPrefix(x, h)
        PROVE  x \in DOMAIN e /\ e[x] = d[x]
    <3>1. IsPrefix(x, q)
      BY <1>0, <2>1, <2>3, TreePos, PrefixOrder
    <3> QED
      BY <1>1, <1>3, <3>1
  <2>4. Lives(e, h)
    BY <2>1, <2>2, <2>3, LivesKept DEF Seated
  <2>5. ASSUME IsListAt(h), NEW i, Append(h, i) \in DOMAIN d
        PROVE  Append(h, i) \in DOMAIN e
    <3>1. ASSUME NEW p \in P, IsPrefix(p, Append(h, i))
          PROVE  FALSE
      <4>1. PICK s \in S : p = Append(c, s)
        BY <3>1
      <4>2. p = Append(h, i) \/ IsPrefix(p, h)
        BY <1>2, <2>1, <3>1, BelowAppend
      <4>3. ~IsPrefix(p, h)
        <5>1. ~IsPrefix(p, q)
          BY <1>1, <3>1
        <5> QED
          BY <1>2, <2>1, <3>1, <5>1, PrefixOrder
      <4>4. Front(Append(c, s)) = c /\ Front(Append(h, i)) = h
        BY <2>1, AppendIs
      <4>5. c = h
        BY <4>1, <4>2, <4>3, <4>4
      <4> QED
        BY <2>5, <4>5
    <3> QED
      BY <1>1, <2>5, <3>1
  <2>6. Seated(e, q)
    BY <2>2, <2>4, <2>5 DEF Seated
  <2> QED
    BY <2>1, <2>2, <2>6 DEF Typed
<1>6. ASSUME NEW x \in DOMAIN e
      PROVE  Alone(e, x)
  BY <1>1 DEF Formed, InOrder, Alone
<1>7. Formed(e)
  BY <1>1, <1>4, <1>5, <1>6 DEF Formed, InOrder
<1> QED
  BY <1>7 DEF e

\* Can s be a place of the container c: a field whose oneof has no other member
\* set, an element or the place after the last one, a key?
Seat(d, c, s) ==
  /\ IsMessageAt(c) => s \in Field /\ Card[s] = "singular" /\ \A g \in Siblings(s) : Append(c, g) \notin DOMAIN d
  /\ IsListAt(c) => s \in Nat \ {0} /\ \A i \in 1 .. s - 1 : Append(c, i) \in DOMAIN d
  /\ IsMapAt(c) => s \in Key

LEMMA SeatIsSingular ==
  ASSUME NEW d, NEW c, Pos(c), NEW s, Seat(d, c, s)
  PROVE  IsMessageAt(Append(c, s))
<1>1. s \in Field => Card[s] = "singular"
  BY KindsOfContainer, SchemaAssumption DEF Seat
<1> QED
  BY <1>1, KindOfPlace

LEMMA SeatIsDeclared ==
  ASSUME NEW d, NEW c, NEW s, Seat(d, c, s)
  PROVE  s # Unknown
BY KindsOfContainer, SchemaAssumption DEF Seat

LEMMA GraftKeepsFormed ==
  ASSUME NEW d, Formed(d), NEW c, Pos(c), Lives(d, c), NEW s, Seat(d, c, s),
         NEW v, Fit(v, TypeAt(Append(c, s)))
  PROVE  Formed(Graft(d, Append(c, s), v))
<1> DEFINE p == Append(c, s)
           e == Graft(d, p, v)
<1>0. IsTree(d) /\ <<>> \in DOMAIN d /\ IsTree(v) /\ <<>> \in DOMAIN v /\ InOrder(v)
  BY DEF Formed, InOrder, Fit
<1>1. /\ Pos(p) /\ IsMessageAt(p) /\ p # <<>> /\ Front(p) = c /\ Last(p) = s
      /\ Len(p) \in Nat \ {0}
  BY AppendPos, AppendIs, SeatIsSingular
<1> HIDE DEF p
<1>2. /\ IsTree(e)
      /\ \A r : Pos(r) => (p \o r \in DOMAIN e <=> r \in DOMAIN v)
      /\ \A r \in DOMAIN v : e[p \o r] = v[r]
      /\ \A q : ~IsPrefix(p, q) => (q \in DOMAIN e <=> q \in DOMAIN d)
      /\ \A q \in DOMAIN e : ~IsPrefix(p, q) => e[q] = d[q]
  BY <1>0, <1>1, GraftIs
<1> HIDE DEF e
<1>3. p \in DOMAIN e /\ e[p] = v[<<>>]
  BY <1>0, <1>1, <1>2, RootPos, ConcatRoot
<1>4. <<>> \in DOMAIN e /\ e[<<>>] = Msg
  <2>1. ~IsPrefix(p, <<>>)
    BY <1>1, NotAboveRoot
  <2> QED
    BY <1>0, <1>2, <2>1 DEF Formed
\* What is above p, or beside it, is as it was.
<1>5. ASSUME NEW h, Pos(h), ~IsPrefix(p, h), Lives(d, h)
      PROVE  Lives(e, h)
  <2>1. ASSUME NEW x \in DOMAIN d, IsPrefix(x, h)
        PROVE  x \in DOMAIN e /\ e[x] = d[x]
    <3>1. ~IsPrefix(p, x)
      BY <1>0, <1>1, <1>5, <2>1, TreePos, PrefixOrder
    <3> QED
      BY <1>2, <3>1
  <2> QED
    BY <1>5, <2>1, LivesKept
<1>6. ASSUME NEW h, Pos(h), ~IsPrefix(p, h), NEW i
      PROVE  /\ Append(h, i) \in DOMAIN d => Append(h, i) \in DOMAIN e
             /\ Append(h, i) \in DOMAIN e => Append(h, i) \in DOMAIN d \/ (h = c /\ i = s)
  <2>1. IsPrefix(p, Append(h, i)) => p = Append(h, i)
    BY <1>1, <1>6, BelowAppend
  <2>2. p = Append(h, i) => h = c /\ i = s
    BY <1>1, <1>6, AppendIs
  <2> QED
    BY <1>2, <1>3, <2>1, <2>2
<1>7. ~IsPrefix(p, c)
  BY PlaceBelow DEF p
\* What is below p is what v holds.
<1>8. Takes(e, p, v, <<>>) /\ Takes(v, <<>>, e, p)
  <2>1. \A x : Pos(x) => <<>> \o x = x
    BY ConcatEmptySeq DEF Pos
  <2> QED
    BY <1>2, <2>1 DEF Takes
<1>9. \A q \in DOMAIN e : IsPrefix(p, q) =>
        Pos(q) /\ Pos(Rest(p, q)) /\ q = p \o Rest(p, q) /\ Rest(p, q) \in DOMAIN v
               /\ <<>> \o Rest(p, q) = Rest(p, q)
  <2> SUFFICES ASSUME NEW q \in DOMAIN e, IsPrefix(p, q)
               PROVE  Pos(q) /\ Pos(Rest(p, q)) /\ q = p \o Rest(p, q) /\ Rest(p, q) \in DOMAIN v
                      /\ <<>> \o Rest(p, q) = Rest(p, q)
    OBVIOUS
  <2>1. Pos(q) /\ Pos(Rest(p, q)) /\ q = p \o Rest(p, q)
    BY <1>1, <1>2, TreePos, RestIs
  <2> QED
    BY <1>2, <2>1, ConcatEmptySeq DEF Pos
<1>10. ASSUME NEW q \in DOMAIN e \ {<<>>}
       PROVE  Seated(e, q) /\ Typed(e, q)
  <2>1. CASE ~IsPrefix(p, q)
    <3> DEFINE h == Front(q)
    <3>1. q \in DOMAIN d /\ Pos(q) /\ Pos(h) /\ IsPrefix(h, q) /\ e[q] = d[q]
      BY <1>2, <2>1, TreePos, FrontIs
    <3>2. Seated(d, q) /\ Typed(d, q)
      BY <3>1 DEF Formed, InOrder
    <3>3. ~IsPrefix(p, h)
      BY <1>1, <2>1, <3>1, PrefixOrder
    <3>4. Lives(e, h)
      BY <1>5, <3>1, <3>2, <3>3 DEF Seated
    <3>5. Seated(e, q)
      BY <1>6, <3>1, <3>2, <3>3, <3>4 DEF Seated
    <3> QED
      BY <3>1, <3>2, <3>5 DEF Typed
  <2>2. CASE q = p
    <3>1. Lives(e, c)
      BY <1>5, <1>7
    <3>2. IsListAt(c) => s \in Nat \ {0} /\ \A i \in 1 .. s : Append(c, i) \in DOMAIN e
      <4> SUFFICES ASSUME IsListAt(c), s \in Nat \ {0}, NEW i \in 1 .. s
                   PROVE  Append(c, i) \in DOMAIN e
        BY DEF Seat
      <4>1. CASE i = s
        BY <1>3, <4>1 DEF p
      <4>2. CASE i # s
        <5>1. Append(c, i) \in DOMAIN d
          BY <4>2 DEF Seat
        <5> QED
          BY <1>6, <1>7, <5>1
      <4> QED
        BY <4>1, <4>2
    <3>3. Seated(e, q)
      BY <1>1, <2>2, <3>1, <3>2 DEF Seated, Seat
    <3>4. s # Unknown
      BY SeatIsDeclared
    <3>5. Typed(e, q)
      BY <1>1, <1>3, <2>2, <3>4 DEF Typed, Fit, p
    <3> QED
      BY <3>3, <3>5
  <2>3. CASE IsPrefix(p, q) /\ q # p
    <3> DEFINE r == Rest(p, q)
    <3>1. Pos(r) /\ q = p \o r /\ r \in DOMAIN v /\ <<>> \o r = r
      BY <1>9, <2>3
    <3>2. r # <<>>
      BY <1>1, <2>3, <3>1, ConcatRoot
    <3> HIDE DEF r
    <3>3. Seated(v, <<>> \o r) /\ Typed(v, <<>> \o r)
      BY <1>0, <3>1, <3>2 DEF InOrder
    <3>4. Seated(e, p \o r) /\ Typed(e, p \o r)
      BY <1>1, <1>8, <3>1, <3>2, <3>3, RootPos, KindsOfContainer, Transplanted
    <3> QED
      BY <3>1, <3>4
  <2> QED
    BY <2>1, <2>2, <2>3
<1>11. ASSUME NEW x \in DOMAIN e
       PROVE  Alone(e, x)
  <2>1. CASE ~IsPrefix(p, x)
    <3>1. Pos(x) /\ x \in DOMAIN d /\ Alone(d, x)
      BY <1>2, <2>1, TreePos DEF Formed, InOrder
    <3>2. ASSUME NEW f \in Field, NEW g \in Siblings(f),
                 Append(x, f) \in DOMAIN e, Append(x, g) \in DOMAIN e
          PROVE  FALSE
      <4>1. g \in Field /\ f # g /\ f \in Siblings(g)
        BY SiblingsAreSingular
      <4>2. ~(Append(x, f) \in DOMAIN d /\ Append(x, g) \in DOMAIN d)
        BY <3>1 DEF Alone
      <4>3. x = c /\ (f = s \/ g = s)
        BY <1>6, <2>1, <3>1, <3>2, <4>2
      <4>4. IsMessageAt(c)
        BY <1>0, <3>1, <4>3, InOrderHeld, KindsOfContainer DEF Formed, Held
      <4>5. \A t \in Siblings(s) : Append(c, t) \notin DOMAIN d
        BY <4>4 DEF Seat
      <4>6. Append(x, f) \in DOMAIN d \/ Append(x, g) \in DOMAIN d
        BY <1>6, <2>1, <3>1, <3>2, <4>1
      <4> QED
        BY <4>1, <4>2, <4>3, <4>5, <4>6, <1>6, <2>1, <3>1, <3>2
    <3> QED
      BY <3>2 DEF Alone
  <2>2. CASE IsPrefix(p, x)
    <3> DEFINE z == Rest(p, x)
    <3>1. Pos(z) /\ x = p \o z /\ z \in DOMAIN v /\ <<>> \o z = z
      BY <1>9, <2>2
    <3> HIDE DEF z
    <3>2. Alone(v, <<>> \o z)
      BY <1>0, <3>1 DEF InOrder
    <3>3. Alone(e, p \o z)
      BY <1>1, <1>8, <3>1, <3>2, RootPos, AloneBelow
    <3> QED
      BY <3>1, <3>3
  <2> QED
    BY <2>1, <2>2
<1>12. Formed(e)
  BY <1>2, <1>4, <1>10, <1>11 DEF Formed, InOrder
<1> QED
  BY <1>12 DEF e, p

-----------------------------------------------------------------------------
(* Collections: what a list or a map is made of.                           *)

\* The elements, or the entries, that the list or the map at c can have.
Group(u, c) ==
  /\ IsFiniteSet(DOMAIN u)
  /\ IsListAt(c) => \E n \in Nat : DOMAIN u = 1 .. n
  /\ IsMapAt(c) => DOMAIN u \subseteq Key
  /\ \A k \in DOMAIN u : Fit(u[k], Type[Last(c)])

LEMMA GroupIs ==
  ASSUME NEW c, ~IsMessageAt(c), NEW u, Group(u, c), NEW k \in DOMAIN u
  PROVE  /\ k \notin Field /\ k # Unknown
         /\ IsTree(u[k]) /\ <<>> \in DOMAIN u[k] /\ InOrder(u[k])
         /\ IsOf(u[k][<<>>], Type[Last(c)])
<1>1. k \in Key \/ k \in Int
  BY KindsOfContainer DEF Group
<1> QED
  BY <1>1, SchemaAssumption DEF Group, Fit, InOrder

\* A list, or a map, takes more elements or entries of its type where it has none.
LEMMA CollectionKeepsFormed ==
  ASSUME NEW d, Formed(d), NEW c, Pos(c), Lives(d, c), ~IsMessageAt(c), NEW u, Group(u, c),
         \A k \in DOMAIN u : Append(c, k) \notin DOMAIN d
  PROVE  Formed(Overlay(d, c, Collection(u)))
<1> DEFINE v == Collection(u)
           e == Overlay(d, c, v)
<1>0. IsTree(d) /\ <<>> \in DOMAIN d /\ d[<<>>] = Msg /\ Held(d)
  BY InOrderHeld DEF Formed, InOrder
<1>1. /\ IsTree(v) /\ <<>> \notin DOMAIN v
      /\ \A r \in DOMAIN v : \E k \in DOMAIN u : \E x \in DOMAIN u[k] : r = <<k>> \o x
      /\ \A k, x : Pos(x) => (<<k>> \o x \in DOMAIN v <=> k \in DOMAIN u /\ x \in DOMAIN u[k])
      /\ \A k \in DOMAIN u : \A x \in DOMAIN u[k] : v[<<k>> \o x] = u[k][x]
  BY GroupIs, CollectionIs DEF Group
<1> HIDE DEF v
<1>2. /\ IsTree(e)
      /\ \A r : Pos(r) => (c \o r \in DOMAIN e <=> r \in DOMAIN v \/ c \o r \in DOMAIN d)
      /\ \A r \in DOMAIN v : e[c \o r] = v[r]
      /\ \A q : ~IsPrefix(c, q) => (q \in DOMAIN e <=> q \in DOMAIN d)
      /\ \A q \in DOMAIN e : ~IsPrefix(c, q) \/ Rest(c, q) \notin DOMAIN v => e[q] = d[q]
  BY <1>0, <1>1, OverlayIs
<1> HIDE DEF e
<1>a. ASSUME NEW k, NEW x, Pos(x)
      PROVE  c \o (<<k>> \o x) = Append(c, k) \o x
  <2> DEFINE r == <<k>> \o x
  <2>1. r = <<k>> \o x
    OBVIOUS
  <2> HIDE DEF r
  <2>2. c \o r = Append(c, k) \o x
    BY <1>a, <2>1, AppendShift
  <2> QED
    BY <2>2 DEF r
\* Where u has something, d has nothing.
<1>3. ASSUME NEW k \in DOMAIN u
      PROVE  /\ Pos(Append(c, k)) /\ IsMessageAt(Append(c, k)) /\ Append(c, k) # <<>>
             /\ \A x \in DOMAIN d : ~IsPrefix(Append(c, k), x)
  <2>1. Pos(Append(c, k)) /\ IsMessageAt(Append(c, k)) /\ Append(c, k) # <<>>
    BY GroupIs, KindOfPlace, AppendPos
  <2>2. ~Has(d, Append(c, k))
    BY <1>0, <2>1, HasIs
  <2> QED
    BY <2>1, <2>2 DEF Has, Under
<1>4. ASSUME NEW k \in DOMAIN u, NEW x, Pos(x)
      PROVE  /\ Append(c, k) \o x \in DOMAIN e <=> x \in DOMAIN u[k]
             /\ x \in DOMAIN u[k] => e[Append(c, k) \o x] = u[k][x]
             /\ <<>> \o x = x
  <2>1. c \o (<<k>> \o x) = Append(c, k) \o x /\ Pos(<<k>> \o x) /\ <<>> \o x = x
    BY <1>4, <1>a, AppendConcat, ConcatEmptySeq DEF Pos
  <2>2. Append(c, k) \o x \notin DOMAIN d
    BY <1>3, <1>4, ConcatBelow
  <2>3. <<k>> \o x \in DOMAIN v <=> x \in DOMAIN u[k]
    BY <1>1, <1>4
  <2>4. x \in DOMAIN u[k] => v[<<k>> \o x] = u[k][x]
    BY <1>1
  <2> QED
    BY <1>2, <2>1, <2>2, <2>3, <2>4
<1>5. ASSUME NEW q \in DOMAIN e
      PROVE  \/ q \in DOMAIN d
             \/ \E k \in DOMAIN u : \E x \in DOMAIN u[k] : Pos(x) /\ q = Append(c, k) \o x
  <2>1. CASE ~IsPrefix(c, q)
    BY <1>2, <2>1
  <2>2. CASE IsPrefix(c, q)
    <3> DEFINE r == Rest(c, q)
    <3>1. Pos(r) /\ q = c \o r
      BY <1>2, <2>2, TreePos, RestIs
    <3> HIDE DEF r
    <3>2. CASE r \in DOMAIN v
      <4>1. PICK k, x : k \in DOMAIN u /\ x \in DOMAIN u[k] /\ r = <<k>> \o x
        BY <1>1, <3>2
      <4>2. Pos(x)
        BY <4>1, GroupIs, TreePos
      <4>3. c \o (<<k>> \o x) = Append(c, k) \o x
        BY <1>a, <4>2
      <4> QED
        BY <3>1, <4>1, <4>2, <4>3
    <3> QED
      BY <1>2, <3>1, <3>2
  <2> QED
    BY <2>1, <2>2
<1>6. ASSUME NEW x \in DOMAIN d
      PROVE  x \in DOMAIN e /\ e[x] = d[x]
  <2>1. CASE ~IsPrefix(c, x)
    BY <1>2, <2>1
  <2>2. CASE IsPrefix(c, x)
    <3> DEFINE r == Rest(c, x)
    <3>1. Pos(r) /\ x = c \o r
      BY <1>0, <2>2, TreePos, RestIs
    <3> HIDE DEF r
    <3>2. r \notin DOMAIN v
      <4> SUFFICES ASSUME r \in DOMAIN v PROVE FALSE
        OBVIOUS
      <4>1. PICK k, y : k \in DOMAIN u /\ y \in DOMAIN u[k] /\ r = <<k>> \o y
        BY <1>1
      <4>2. Pos(y)
        BY <4>1, GroupIs, TreePos
      <4>3. c \o (<<k>> \o y) = Append(c, k) \o y
        BY <1>a, <4>2
      <4>4. x = Append(c, k) \o y
        BY <3>1, <4>1, <4>3
      <4> QED
        BY <1>3, <4>1, <4>2, <4>4, ConcatBelow
    <3> QED
      BY <1>2, <3>1, <3>2 DEF r
  <2> QED
    BY <2>1, <2>2
<1>7. Lives(e, c)
  BY <1>6, LivesKept
<1>8. ASSUME NEW q \in DOMAIN e \ {<<>>}
      PROVE  Seated(e, q) /\ Typed(e, q)
  <2>1. CASE q \in DOMAIN d
    <3>1. Pos(q) /\ q # <<>> /\ Seated(d, q) /\ Typed(d, q)
      BY <1>0, <1>8, <2>1, TreePos DEF Formed, InOrder
    <3> QED
      BY <1>6, <2>1, <3>1, TakenInOrder
  <2>2. CASE q \notin DOMAIN d
    <3>1. PICK k, x : k \in DOMAIN u /\ x \in DOMAIN u[k] /\ Pos(x) /\ q = Append(c, k) \o x
      BY <1>5, <2>2
    <3> DEFINE p == Append(c, k)
    <3>2. /\ Pos(p) /\ IsMessageAt(p) /\ p # <<>> /\ Front(p) = c /\ Last(p) = k
          /\ k \notin Field /\ k # Unknown /\ InOrder(u[k]) /\ IsOf(u[k][<<>>], Type[Last(c)])
      BY <1>3, <3>1, GroupIs, AppendIs
    <3>3. CASE x = <<>>
      <4>1. q = p
        BY <3>1, <3>2, <3>3, ConcatRoot
      <4>2. IsListAt(c) => k \in Nat \ {0} /\ \A i \in 1 .. k : Append(c, i) \in DOMAIN e
        <5> SUFFICES ASSUME IsListAt(c)
                     PROVE  k \in Nat \ {0} /\ \A i \in 1 .. k : Append(c, i) \in DOMAIN e
          OBVIOUS
        <5>1. PICK n \in Nat : DOMAIN u = 1 .. n
          BY DEF Group
        <5>2. k \in Nat \ {0} /\ \A i \in 1 .. k : i \in DOMAIN u
          BY <3>1, <5>1
        <5>3. ASSUME NEW i \in 1 .. k
              PROVE  Append(c, i) \in DOMAIN e
          <6>1. i \in DOMAIN u
            BY <5>2
          <6>2. <<>> \in DOMAIN u[i] /\ Pos(<<>>) /\ Append(c, i) \o <<>> = Append(c, i)
            BY <6>1, <1>3, GroupIs, RootPos, ConcatRoot
          <6>3. Append(c, i) \o <<>> \in DOMAIN e
            BY <1>4, <6>1, <6>2, Zenon
          <6> QED
            BY <6>2, <6>3, Zenon
        <5> QED
          BY <5>2, <5>3
      <4>3. IsMapAt(c) => k \in Key
        BY <3>1 DEF Group
      <4>4. Seated(e, q)
        BY <1>7, <3>2, <4>1, <4>2, <4>3 DEF Seated
      <4>5. TypeAt(q) = Type[Last(c)]
        BY <3>2, <4>1, TypeOfPlace, KindsOfContainer
      <4>6. e[q] = u[k][<<>>]
        BY <1>4, <3>1, <3>3
      <4> QED
        BY <3>2, <4>1, <4>4, <4>5, <4>6 DEF Typed
    <3>4. CASE x # <<>>
      <4>1. Takes(e, p, u[k], <<>>)
        BY <1>4, <3>1 DEF Takes
      <4>2. <<>> \o x \in DOMAIN u[k] /\ Seated(u[k], <<>> \o x) /\ Typed(u[k], <<>> \o x)
        BY <1>4, <3>1, <3>2, <3>4 DEF InOrder
      <4> HIDE DEF p
      <4>3. Seated(e, p \o x) /\ Typed(e, p \o x)
        BY <3>1, <3>2, <3>4, <4>1, <4>2, RootPos, KindsOfContainer, Transplanted
      <4> QED
        BY <3>1, <4>3 DEF p
    <3> QED
      BY <3>3, <3>4
  <2> QED
    BY <2>1, <2>2
<1>9. ASSUME NEW x \in DOMAIN e
      PROVE  Alone(e, x)
  <2>1. CASE x \in DOMAIN d
    <3>1. Alone(d, x) /\ Pos(x) /\ x # c
      BY <1>0, <2>1, TreePos, KindsOfContainer DEF Formed, InOrder, Held
    <3>2. ASSUME NEW f, Append(x, f) \in DOMAIN e
          PROVE  Append(x, f) \in DOMAIN d
      <4> SUFFICES ASSUME Append(x, f) \notin DOMAIN d PROVE FALSE
        OBVIOUS
      <4>1. PICK k, z : k \in DOMAIN u /\ z \in DOMAIN u[k] /\ Pos(z) /\ Append(x, f) = Append(c, k) \o z
        BY <1>5, <3>2
      <4>2. IsPrefix(Append(c, k), Append(x, f))
        BY <1>3, <4>1, ConcatBelow
      <4>3. Append(c, k) = Append(x, f) \/ IsPrefix(Append(c, k), x)
        BY <1>3, <3>1, <4>1, <4>2, BelowAppend
      <4> QED
        BY <1>3, <2>1, <3>1, <4>1, <4>3, AppendIs
    <3> QED
      BY <3>1, <3>2 DEF Alone
  <2>2. CASE x \notin DOMAIN d
    <3>1. PICK k, z : k \in DOMAIN u /\ z \in DOMAIN u[k] /\ Pos(z) /\ x = Append(c, k) \o z
      BY <1>5, <2>2
    <3> DEFINE p == Append(c, k)
    <3>2. Pos(p) /\ Takes(u[k], <<>>, e, p) /\ Alone(u[k], <<>> \o z)
      BY <1>3, <1>4, <3>1, GroupIs DEF Takes, InOrder
    <3> HIDE DEF p
    <3>3. Alone(e, p \o z)
      BY <3>1, <3>2, RootPos, AloneBelow
    <3> QED
      BY <3>1, <3>3 DEF p
  <2> QED
    BY <2>1, <2>2
<1>10. <<>> \in DOMAIN e /\ e[<<>>] = Msg
  BY <1>0, <1>6
<1>11. Formed(e)
  BY <1>2, <1>8, <1>9, <1>10 DEF Formed, InOrder
<1> QED
  BY <1>11 DEF e, v

\* A message takes the fields of another where neither they nor a member of their
\* oneof are set.
LEMMA MessageKeepsFormed ==
  ASSUME NEW d, Formed(d), NEW c, Pos(c), Lives(d, c), IsMessageAt(c), NEW v, Formed(v),
         \A f \in Places(v, <<>>) :
           /\ f \in Field /\ ~Has(d, Append(c, f))
           /\ \A g \in Siblings(f) : Append(c, g) \notin DOMAIN d
  PROVE  Formed(Overlay(d, c, v))
<1> DEFINE e == Overlay(d, c, v)
           P == Places(v, <<>>)
<1>0. /\ IsTree(d) /\ <<>> \in DOMAIN d /\ d[<<>>] = Msg /\ c \in DOMAIN d /\ d[c] = Msg
      /\ IsTree(v) /\ <<>> \in DOMAIN v /\ v[<<>>] = Msg
  BY DEF Formed, InOrder, Lives
<1>1. /\ IsTree(e)
      /\ \A r : Pos(r) => (c \o r \in DOMAIN e <=> r \in DOMAIN v \/ c \o r \in DOMAIN d)
      /\ \A r \in DOMAIN v : e[c \o r] = v[r]
      /\ \A q : ~IsPrefix(c, q) => (q \in DOMAIN e <=> q \in DOMAIN d)
      /\ \A q \in DOMAIN e : ~IsPrefix(c, q) \/ Rest(c, q) \notin DOMAIN v => e[q] = d[q]
  BY <1>0, OverlayIs
<1> HIDE DEF e
\* A field is v's or d's.
<1>2. ASSUME NEW r, Pos(r), r # <<>>
      PROVE  /\ r \in DOMAIN v => r[1] \in P
             /\ r[1] \in P => c \o r \notin DOMAIN d
  <2>1. Len(r) > 0 /\ Len(r) \in Nat /\ Len(c) \in Nat /\ Len(<<>>) = 0
    BY <1>2, PosIs, NotRoot
  <2>2. r \in DOMAIN v => r[1] \in P
    <3>1. r \in DOMAIN v => r \in Under(v, <<>>) \ {<<>>}
      BY <1>2, RootAbove DEF Under
    <3> QED
      BY <2>1, <3>1 DEF Places
  <2>3. Pos(c \o r) /\ (c \o r)[Len(c) + 1] = r[1] /\ IsPrefix(c, c \o r) /\ c # c \o r
    <3>1. Pos(c \o r) /\ Len(c \o r) = Len(c) + Len(r) /\ \A i \in 1 .. Len(r) : (c \o r)[Len(c) + i] = r[i]
      BY <1>2, ConcatPos
    <3>2. IsPrefix(c, c \o r)
      BY <1>2, ConcatBelow
    <3> QED
      BY <2>1, <3>1, <3>2
  <2>4. IsPrefix(Append(c, r[1]), c \o r)
    BY <2>3, AppendBelow
  <2> QED
    BY <2>2, <2>4 DEF Has, Under
<1>3. ASSUME NEW x \in DOMAIN d
      PROVE  x \in DOMAIN e /\ e[x] = d[x]
  <2>1. CASE ~IsPrefix(c, x)
    BY <1>1, <2>1
  <2>2. CASE IsPrefix(c, x)
    <3> DEFINE r == Rest(c, x)
    <3>1. Pos(r) /\ x = c \o r
      BY <1>0, <2>2, TreePos, RestIs
    <3>2. CASE r = <<>>
      <4>1. x = c
        BY <3>1, <3>2, ConcatRoot
      <4>2. x \in DOMAIN e /\ e[x] = v[<<>>]
        BY <1>0, <1>1, <3>1, <3>2
      <4> QED
        BY <1>0, <4>1, <4>2
    <3>3. CASE r # <<>>
      <4>1. r \notin DOMAIN v
        BY <1>2, <3>1, <3>3
      <4> QED
        BY <1>1, <3>1, <4>1
    <3> QED
      BY <3>2, <3>3
  <2> QED
    BY <2>1, <2>2
<1>4. Takes(e, c, v, <<>>)
  <2>1. \A x : Pos(x) => <<>> \o x = x
    BY ConcatEmptySeq DEF Pos
  <2> QED
    BY <1>1, <2>1 DEF Takes
<1>5. ASSUME NEW q \in DOMAIN e \ {<<>>}
      PROVE  Seated(e, q) /\ Typed(e, q)
  <2>1. CASE q \in DOMAIN d
    <3>1. Pos(q) /\ q # <<>> /\ Seated(d, q) /\ Typed(d, q)
      BY <1>0, <1>5, <2>1, TreePos DEF Formed, InOrder
    <3> QED
      BY <1>3, <2>1, <3>1, TakenInOrder
  <2>2. CASE q \notin DOMAIN d
    <3> DEFINE r == Rest(c, q)
    <3>1. Pos(r) /\ q = c \o r
      BY <1>1, <2>2, TreePos, RestIs
    <3> HIDE DEF r
    <3>2. r \in DOMAIN v /\ r # <<>>
      BY <1>0, <1>1, <2>2, <3>1, ConcatRoot
    <3>3. <<>> \o r = r
      BY <3>1, ConcatEmptySeq DEF Pos
    <3>4. <<>> \o r \in DOMAIN v /\ Seated(v, <<>> \o r) /\ Typed(v, <<>> \o r)
      BY <3>2, <3>3 DEF Formed, InOrder
    <3>5. Seated(e, c \o r) /\ Typed(e, c \o r)
      BY <1>4, <3>1, <3>2, <3>4, RootPos, KindsOfContainer, Transplanted
    <3> QED
      BY <3>1, <3>5
  <2> QED
    BY <2>1, <2>2
<1>6. ASSUME NEW x \in DOMAIN e, NEW f \in Field, NEW g \in Siblings(f),
             Append(x, f) \in DOMAIN e, Append(x, g) \in DOMAIN e
      PROVE  FALSE
  <2>0. Pos(x) /\ g \in Field /\ f \in Siblings(g)
    BY <1>1, TreePos, SiblingsAreSingular
  <2>1. CASE ~IsPrefix(c, x)
    <3>1. ASSUME NEW h, Append(x, h) \in DOMAIN e
          PROVE  Append(x, h) \in DOMAIN d
      <4>1. IsPrefix(c, Append(x, h)) => c = Append(x, h)
        BY <2>0, <2>1, BelowAppend
      <4> QED
        BY <1>0, <1>1, <3>1, <4>1
    <3>2. Append(x, f) \in DOMAIN d /\ Append(x, g) \in DOMAIN d /\ x \in DOMAIN d
      BY <1>1, <1>6, <2>1, <3>1
    <3> QED
      BY <3>2 DEF Formed, InOrder, Alone
  <2>2. CASE IsPrefix(c, x)
    <3> DEFINE z == Rest(c, x)
    <3>1. Pos(z) /\ x = c \o z
      BY <2>0, <2>2, RestIs
    <3> HIDE DEF z
    <3>2. \A h : Pos(Append(z, h)) /\ Append(z, h) # <<>> /\ c \o Append(z, h) = Append(x, h)
      BY <3>1, AppendPos, ConcatAppend
    <3>3. /\ Append(z, f) \in DOMAIN v \/ Append(x, f) \in DOMAIN d
          /\ Append(z, g) \in DOMAIN v \/ Append(x, g) \in DOMAIN d
          /\ z \in DOMAIN v \/ x \in DOMAIN d
      BY <1>1, <1>6, <3>1, <3>2
    <3>4. ~(Append(z, f) \in DOMAIN v /\ Append(z, g) \in DOMAIN v /\ z \in DOMAIN v)
      BY DEF Formed, InOrder, Alone
    <3>5. ~(Append(x, f) \in DOMAIN d /\ Append(x, g) \in DOMAIN d /\ x \in DOMAIN d)
      BY DEF Formed, InOrder, Alone
    <3>6. CASE z = <<>>
      <4>1. x = c /\ \A h : Append(z, h)[1] = h
        BY <3>1, <3>6, ConcatRoot
      <4>2. /\ Append(z, f) \in DOMAIN v => f \in P /\ Append(x, g) \notin DOMAIN d
            /\ Append(z, g) \in DOMAIN v => g \in P /\ Append(x, f) \notin DOMAIN d
        BY <1>2, <2>0, <3>2, <4>1
      <4> QED
        BY <1>0, <3>3, <3>4, <3>5, <3>6, <4>1, <4>2
    <3>7. CASE z # <<>>
      <4>1. Append(z, f)[1] = z[1] /\ Append(z, g)[1] = z[1]
        <5>1. Len(z) \in Nat /\ Len(z) > 0
          BY <3>1, <3>7, PosIs, NotRoot
        <5>2. 1 \in 1 .. Len(z)
          BY <5>1
        <5> QED
          BY <3>1, <5>2, AppendPos
      <4>2. CASE z[1] \in P
        BY <1>2, <3>1, <3>2, <3>3, <3>4, <3>7, <4>1, <4>2
      <4>3. CASE z[1] \notin P
        BY <1>2, <3>1, <3>2, <3>3, <3>5, <3>7, <4>1, <4>3
      <4> QED
        BY <4>2, <4>3
    <3> QED
      BY <3>6, <3>7
  <2> QED
    BY <2>1, <2>2
<1>7. Formed(e)
  BY <1>0, <1>1, <1>3, <1>5, <1>6 DEF Formed, InOrder, Alone
<1> QED
  BY <1>7 DEF e

-----------------------------------------------------------------------------
(* What an operation leaves as it was.                                     *)

Agree(d, e, q) == (q \in DOMAIN d <=> q \in DOMAIN e) /\ (q \in DOMAIN d => e[q] = d[q])

\* e is d but for what lies below c, and but for what lies at places S of c.
Within(d, e, c) == \A q : Pos(q) /\ (IsPrefix(c, q) => q = c) => Agree(d, e, q)

Beside(d, e, c, S) == \A q : Pos(q) /\ (\A s \in S : ~IsPrefix(Append(c, s), q)) => Agree(d, e, q)

LEMMA AgreeOn ==
  ASSUME NEW d, NEW e, NEW f, NEW q
  PROVE  /\ Agree(d, d, q)
         /\ Agree(d, e, q) /\ Agree(e, f, q) => Agree(d, f, q)
BY DEF Agree

LEMMA WithinOn ==
  ASSUME NEW d, NEW e, NEW f, NEW c, Pos(c), NEW b, Pos(b), IsPrefix(b, c)
  PROVE  /\ Within(d, d, c)
         /\ Within(d, e, c) /\ Within(e, f, c) => Within(d, f, c)
         /\ Within(d, e, c) => Within(d, e, b)
<1>1. ASSUME NEW q, Pos(q), IsPrefix(b, q) => q = b
      PROVE  IsPrefix(c, q) => q = c
  BY <1>1, PrefixOrder
<1> QED
  BY <1>1, AgreeOn DEF Within

LEMMA BesideOn ==
  ASSUME NEW d, NEW e, NEW c, Pos(c), NEW S, Beside(d, e, c, S)
  PROVE  /\ Within(d, e, c)
         /\ \A T : S \subseteq T => Beside(d, e, c, T)
<1>1. ASSUME NEW q, Pos(q), IsPrefix(c, q) => q = c
      PROVE  \A s \in S : ~IsPrefix(Append(c, s), q)
  BY <1>1, AppendBelow
<1> QED
  BY <1>1 DEF Within, Beside

\* A container stays where it is if nothing above it is touched.
LEMMA WithinLives ==
  ASSUME NEW d, IsTree(d), NEW e, NEW c, Pos(c), Within(d, e, c), NEW h, Pos(h), IsPrefix(h, c), Lives(d, h)
  PROVE  Lives(e, h)
<1>1. ASSUME NEW x \in DOMAIN d, IsPrefix(x, h)
      PROVE  x \in DOMAIN e /\ e[x] = d[x]
  <2>1. Pos(x) /\ IsPrefix(x, c)
    BY <1>1, TreePos, PrefixOrder
  <2>2. IsPrefix(c, x) => x = c
    BY <2>1, PrefixOrder
  <2> QED
    BY <1>1, <2>1, <2>2 DEF Within, Agree
<1> QED
  BY <1>1, LivesKept

LEMMA BesideLives ==
  ASSUME NEW d, IsTree(d), NEW e, NEW c, Pos(c), NEW S, Beside(d, e, c, S), NEW h, Pos(h), Lives(d, h),
         \A s \in S : ~IsPrefix(Append(c, s), h)
  PROVE  Lives(e, h)
<1>1. ASSUME NEW x \in DOMAIN d, IsPrefix(x, h)
      PROVE  x \in DOMAIN e /\ e[x] = d[x]
  <2>1. Pos(x)
    BY TreePos
  <2>2. ASSUME NEW s \in S
        PROVE  ~IsPrefix(Append(c, s), x)
    BY <1>1, <2>1, AppendPos, PrefixOrder
  <2> QED
    BY <2>1, <2>2 DEF Beside, Agree
<1> QED
  BY <1>1, LivesKept

LEMMA EraseBeside ==
  ASSUME NEW d, IsTree(d), NEW c, NEW S
  PROVE  Beside(d, EraseAll(d, {Append(c, s) : s \in S}), c, S)
<1> DEFINE P == {Append(c, s) : s \in S}
           e == EraseAll(d, P)
<1>1. /\ DOMAIN e = {q \in DOMAIN d : \A p \in P : ~IsPrefix(p, q)}
      /\ \A q \in DOMAIN e : e[q] = d[q]
  BY EraseAllIs
<1> HIDE DEF e
<1>2. ASSUME NEW q, Pos(q), \A s \in S : ~IsPrefix(Append(c, s), q)
      PROVE  Agree(d, e, q)
  <2>1. \A p \in P : ~IsPrefix(p, q)
    BY <1>2
  <2> HIDE DEF P
  <2> QED
    BY <1>1, <2>1 DEF Agree
<1> QED
  BY <1>2 DEF Beside, e

LEMMA GraftBeside ==
  ASSUME NEW d, IsTree(d), NEW c, Pos(c), NEW s, NEW v, IsTree(v)
  PROVE  Beside(d, Graft(d, Append(c, s), v), c, {s})
BY AppendPos, GraftIs DEF Beside, Agree

-----------------------------------------------------------------------------
(* The operations on lists, maps and messages as a whole.                  *)

LEMMA GraftIsOverlay ==
  ASSUME NEW d, IsTree(d), NEW p, Pos(p), NEW v, IsTree(v)
  PROVE  Graft(d, p, v) = Overlay(Erase(d, p), p, v)
<1> DEFINE e == Erase(d, p)
           R == {p \o r : r \in DOMAIN v}
<1>1. DOMAIN e = DOMAIN d \ Under(d, p) /\ \A q \in DOMAIN e : e[q] = d[q]
  BY EraseIs DEF Under
<1>2. ASSUME NEW q \in R
      PROVE  IsPrefix(p, q) /\ Rest(p, q) \in DOMAIN v
  <2>1. PICK r \in DOMAIN v : q = p \o r
    OBVIOUS
  <2> QED
    BY <2>1, TreePos, ConcatBelow
<1>3. \A q \in DOMAIN e : ~IsPrefix(p, q)
  BY <1>1 DEF Under
<1>4. Overlay(e, p, v) = [q \in DOMAIN e \cup R |->
         IF IsPrefix(p, q) /\ Rest(p, q) \in DOMAIN v THEN v[Rest(p, q)] ELSE e[q]]
  BY DEF Overlay
<1>5. Graft(d, p, v) = [q \in (DOMAIN d \ Under(d, p)) \cup R |->
         IF IsPrefix(p, q) THEN v[Rest(p, q)] ELSE d[q]]
  BY DEF Graft
<1> HIDE DEF e, R
<1> QED
  BY <1>1, <1>2, <1>3, <1>4, <1>5 DEF e

\* An emptied list or map is still there.
LEMMA EraseCollection ==
  ASSUME NEW d, Formed(d), NEW c, Pos(c), Lives(d, c), ~IsMessageAt(c)
  PROVE  /\ Formed(Erase(d, c)) /\ Lives(Erase(d, c), c) /\ Within(d, Erase(d, c), c)
         /\ \A q \in DOMAIN Erase(d, c) : ~IsPrefix(c, q)
<1> DEFINE h == Front(c)
           S == {Last(c)}
           e == Erase(d, c)
<1>0. IsTree(d) /\ Held(d)
  BY InOrderHeld DEF Formed, InOrder
<1>1. Pos(h) /\ c = Append(h, Last(c)) /\ h \in DOMAIN d /\ d[h] = Msg /\ c \notin DOMAIN d
  BY <1>0, KindsOfContainer, FrontIs DEF Lives, Held
<1>2. ~IsListAt(h)
  BY <1>0, <1>1, KindsOfContainer DEF Held
<1>3. e = EraseAll(d, {Append(h, s) : s \in S})
  BY <1>1 DEF Erase
<1>4. /\ DOMAIN e = {q \in DOMAIN d : ~IsPrefix(c, q)}
      /\ \A q \in DOMAIN e : e[q] = d[q]
  BY <1>0, EraseIs
<1> HIDE DEF e, h, S
<1>5. Formed(EraseAll(d, {Append(h, s) : s \in S}))
  BY <1>1, <1>2, EraseKeepsFormed
<1>6. ~IsPrefix(c, h)
  BY <1>1, PlaceBelow
<1>7. Lives(e, c)
  BY <1>1, <1>4, <1>6 DEF Lives, h
<1>8. Within(d, e, c)
  BY <1>1, <1>4 DEF Within, Agree
<1> QED
  BY <1>3, <1>4, <1>5, <1>7, <1>8 DEF e

LEMMA CollectionTree ==
  ASSUME NEW c, ~IsMessageAt(c), NEW u, Group(u, c)
  PROVE  IsTree(Collection(u)) /\ <<>> \notin DOMAIN Collection(u)
BY GroupIs, CollectionIs DEF Group

\* What is put together below a list or a map stays within it.
LEMMA OverlayWithin ==
  ASSUME NEW d, IsTree(d), NEW c, Pos(c), NEW v, IsTree(v),
         <<>> \in DOMAIN v => c \in DOMAIN d /\ d[c] = v[<<>>]
  PROVE  Within(d, Overlay(d, c, v), c)
<1> DEFINE e == Overlay(d, c, v)
<1>1. /\ \A r : Pos(r) => (c \o r \in DOMAIN e <=> r \in DOMAIN v \/ c \o r \in DOMAIN d)
      /\ \A r \in DOMAIN v : e[c \o r] = v[r]
      /\ \A q : ~IsPrefix(c, q) => (q \in DOMAIN e <=> q \in DOMAIN d)
      /\ \A q \in DOMAIN e : ~IsPrefix(c, q) \/ Rest(c, q) \notin DOMAIN v => e[q] = d[q]
  BY OverlayIs
<1> HIDE DEF e
<1>2. c \o <<>> = c /\ Pos(<<>>) /\ Rest(c, c) = <<>>
  BY ConcatRoot, RootPos, ConcatBelow
<1>3. Agree(d, e, c)
  BY <1>1, <1>2 DEF Agree
<1>4. \A q : ~IsPrefix(c, q) => Agree(d, e, q)
  BY <1>1 DEF Agree
<1> QED
  BY <1>3, <1>4 DEF Within, e

\* A list or a map with other elements or entries (PutElements), and one that has
\* been emptied and filled.
LEMMA PutKeepsFormed ==
  ASSUME NEW d, Formed(d), NEW c, Pos(c), Lives(d, c), ~IsMessageAt(c), NEW u, Group(u, c)
  PROVE  LET e == Overlay(Erase(d, c), c, Collection(u)) IN
         Formed(e) /\ Within(d, e, c) /\ Graft(d, c, Collection(u)) = e
<1> DEFINE b == Erase(d, c)
           v == Collection(u)
           e == Overlay(b, c, v)
<1>1. /\ Formed(b) /\ Lives(b, c) /\ Within(d, b, c)
      /\ \A q \in DOMAIN b : ~IsPrefix(c, q)
  BY EraseCollection
<1>2. IsTree(v) /\ <<>> \notin DOMAIN v /\ IsTree(d)
  BY CollectionTree DEF Formed, InOrder
<1>3. Graft(d, c, v) = e
  BY <1>2, GraftIsOverlay
<1> HIDE DEF b
<1>4. \A k \in DOMAIN u : Append(c, k) \notin DOMAIN b
  BY <1>1, PlaceBelow
<1>5. Formed(e)
  BY <1>1, <1>4, CollectionKeepsFormed
<1> HIDE DEF v
<1>6. Within(b, e, c)
  BY <1>1, <1>2, OverlayWithin DEF Formed, InOrder
<1>7. IsPrefix(c, c)
  BY PrefixOrder
<1> HIDE DEF e
<1>8. Within(d, e, c)
  BY <1>1, <1>6, <1>7, WithinOn
<1> QED
  BY <1>3, <1>5, <1>8 DEF e, b, v

LEMMA BesideJoin ==
  ASSUME NEW d, NEW e, NEW f, NEW c, NEW S, NEW T, Beside(d, e, c, S), Beside(e, f, c, T)
  PROVE  Beside(d, f, c, S \cup T)
BY AgreeOn DEF Beside

LEMMA BesideStays ==
  ASSUME NEW d, IsTree(d), NEW e, NEW c, Pos(c), NEW S, Beside(d, e, c, S), NEW h, Pos(h), IsPrefix(h, c), Lives(d, h)
  PROVE  Lives(e, h)
BY BesideOn, WithinLives

-----------------------------------------------------------------------------
(* Places, and the values that fit them.                                   *)

\* s is a place of the container at c.
Names(c, s) ==
  /\ IsMessageAt(c) => s \in Field
  /\ IsListAt(c) => s \in Nat \ {0}
  /\ IsMapAt(c) => s \in Key

\* v can be put at p: a value of the type of p, or the elements or the entries of
\* the list or the map at p.
FitsAt(v, p) ==
  IF IsMessageAt(p) THEN Fit(v, TypeAt(p)) ELSE \E u : v = Collection(u) /\ Group(u, p)

LEMMA NamesIs ==
  ASSUME NEW c, Pos(c), NEW s, Names(c, s)
  PROVE  /\ s # Unknown
         /\ ~IsMessageAt(c) => s \notin Field /\ IsMessageAt(Append(c, s))
         /\ TypeAt(Append(c, s)) \in {Type[f] : f \in Field}
<1>1. IsListAt(c) \/ IsMapAt(c) <=> ~IsMessageAt(c)
  BY KindsOfContainer
<1>2. ~IsMessageAt(c) => Last(c) \in Field /\ c # <<>>
  BY <1>1, KindsOfContainer
<1>3. s # Unknown /\ (~IsMessageAt(c) => s \notin Field)
  BY <1>1, SchemaAssumption DEF Names
<1>4. IsMessageAt(c) => s \in Field
  BY DEF Names
<1> QED
  BY <1>2, <1>3, <1>4, KindOfPlace, TypeOfPlace

LEMMA FitsTree ==
  ASSUME NEW v, NEW p, FitsAt(v, p)
  PROVE  IsTree(v) /\ (IsMessageAt(p) => <<>> \in DOMAIN v)
<1>1. CASE IsMessageAt(p)
  BY <1>1 DEF FitsAt, Fit, InOrder
<1>2. CASE ~IsMessageAt(p)
  BY <1>2, CollectionTree DEF FitsAt
<1> QED
  BY <1>1, <1>2

\* What a position of a document holds is a value of its own.
LEMMA ValueInOrder ==
  ASSUME NEW d, Formed(d), NEW p \in DOMAIN d, p # <<>>, Last(p) # Unknown
  PROVE  Fit(ValueAt(d, p), TypeAt(p))
<1> DEFINE v == ValueAt(d, p)
<1>0. IsTree(d) /\ Held(d)
  BY InOrderHeld DEF Formed, InOrder
<1>1. Pos(p) /\ IsMessageAt(p)
  BY <1>0, TreePos DEF Held
<1>2. /\ IsTree(v)
      /\ \A r : Pos(r) => (r \in DOMAIN v <=> p \o r \in DOMAIN d)
      /\ \A r \in DOMAIN v : v[r] = d[p \o r]
  BY <1>0, <1>1, ValueAtIs
<1> HIDE DEF v
<1>3. Pos(<<>>) /\ IsMessageAt(<<>>) /\ p \o <<>> = p
  BY <1>1, RootPos, KindsOfContainer, ConcatRoot
<1>4. <<>> \in DOMAIN v /\ v[<<>>] = d[p]
  BY <1>2, <1>3
<1>5. IsOf(d[p], TypeAt(p))
  BY <1>1 DEF Formed, InOrder, Typed
<1>6. \A x : Pos(x) => <<>> \o x = x
  BY DEF Pos
<1>7. Takes(v, <<>>, d, p)
  BY <1>2, <1>6 DEF Takes
<1>8. ASSUME NEW r \in DOMAIN v, r # <<>>
      PROVE  Seated(v, r) /\ Typed(v, r)
  <2>1. Pos(r) /\ p \o r \in DOMAIN d
    BY <1>2, TreePos
  <2>2. p \o r # <<>>
    BY <1>1, <2>1, RootAbove, ConcatBelow
  <2>3. Seated(d, p \o r) /\ Typed(d, p \o r)
    BY <2>1, <2>2 DEF Formed, InOrder
  <2>4. Seated(v, <<>> \o r) /\ Typed(v, <<>> \o r)
    BY <1>1, <1>3, <1>7, <1>8, <2>1, <2>3, Transplanted
  <2> QED
    BY <1>6, <2>1, <2>4
<1>9. ASSUME NEW r \in DOMAIN v
      PROVE  Alone(v, r)
  <2>1. Pos(r) /\ p \o r \in DOMAIN d
    BY <1>2, TreePos
  <2>2. Alone(d, p \o r)
    BY <2>1 DEF Formed, InOrder
  <2>3. \A f : p \o Append(r, f) = Append(p \o r, f) /\ Pos(Append(r, f))
    BY <1>1, <2>1, ConcatAppend, AppendPos
  <2>4. \A f : Append(r, f) \in DOMAIN v => Append(p \o r, f) \in DOMAIN d
    BY <1>2, <2>3
  <2> QED
    BY <2>2, <2>4 DEF Alone
<1> QED
  BY <1>2, <1>4, <1>5, <1>8, <1>9 DEF Fit, InOrder, v

LEMMA HeadTail ==
  ASSUME NEW r, Pos(r), r # <<>>
  PROVE  Pos(Tail(r)) /\ r = <<r[1]>> \o Tail(r)
<1>1. r \in Seq(Range(r))
  BY DEF Pos
<1>2. Tail(r) \in Seq(Range(r)) /\ r = <<Head(r)>> \o Tail(r) /\ Head(r) = r[1]
  BY <1>1, HeadTailProperties
<1> QED
  BY <1>2, PosIntro

\* A list or a map is the collection of its elements or entries.
LEMMA CollectionOf ==
  ASSUME NEW d, IsTree(d), NEW p, Pos(p), p \notin DOMAIN d
  PROVE  ValueAt(d, p) = Collection([k \in Places(d, p) |-> ValueAt(d, Append(p, k))])
<1> DEFINE u == [k \in Places(d, p) |-> ValueAt(d, Append(p, k))]
           v == ValueAt(d, p)
           w == Collection(u)
<1>1. /\ IsTree(v)
      /\ \A r : Pos(r) => (r \in DOMAIN v <=> p \o r \in DOMAIN d)
      /\ \A r \in DOMAIN v : v[r] = d[p \o r]
  BY ValueAtIs
<1>2. \A k : Pos(Append(p, k))
  BY AppendPos
<1>3. ASSUME NEW k \in Places(d, p)
      PROVE  /\ IsTree(u[k])
             /\ \A x : Pos(x) => (x \in DOMAIN u[k] <=> Append(p, k) \o x \in DOMAIN d)
             /\ \A x \in DOMAIN u[k] : u[k][x] = d[Append(p, k) \o x]
  BY <1>2, ValueAtIs
<1>4. DOMAIN u = Places(d, p) /\ IsFiniteSet(DOMAIN u)
  BY PlacesFinite
<1> HIDE DEF u, v
<1>5. /\ IsTree(w) /\ <<>> \notin DOMAIN w
      /\ \A i, x : Pos(x) => (<<i>> \o x \in DOMAIN w <=> i \in DOMAIN u /\ x \in DOMAIN u[i])
      /\ \A i \in DOMAIN u : \A x \in DOMAIN u[i] : w[<<i>> \o x] = u[i][x]
  BY <1>3, <1>4, CollectionIs
<1> HIDE DEF w
<1>6. <<>> \notin DOMAIN v
  BY <1>1, RootPos, ConcatRoot
<1>7. ASSUME NEW r, Pos(r), r # <<>>
      PROVE  (r \in DOMAIN v <=> r \in DOMAIN w) /\ (r \in DOMAIN v => v[r] = w[r])
  <2> DEFINE k == r[1]
             x == Tail(r)
  <2>1. Pos(x) /\ r = <<k>> \o x
    BY <1>7, HeadTail
  <2> HIDE DEF k, x
  <2>2. p \o r = Append(p, k) \o x
    BY <2>1, AppendShift
  <2>3. Append(p, k) \o x \in DOMAIN d => k \in Places(d, p)
    <3>1. IsPrefix(Append(p, k), Append(p, k) \o x)
      BY <1>2, <2>1, ConcatBelow
    <3> QED
      BY <3>1, PlaceIs DEF Has, Under
  <2>4. r \in DOMAIN w <=> k \in DOMAIN u /\ x \in DOMAIN u[k]
    BY <1>5, <2>1
  <2>5. r \in DOMAIN v <=> p \o r \in DOMAIN d
    BY <1>1, <1>7
  <2>6. r \in DOMAIN v <=> r \in DOMAIN w
    BY <1>3, <1>4, <2>1, <2>2, <2>3, <2>4, <2>5
  <2>7. ASSUME r \in DOMAIN v
        PROVE  v[r] = w[r]
    <3>1. k \in DOMAIN u /\ x \in DOMAIN u[k]
      BY <2>4, <2>6, <2>7
    <3>2. w[r] = u[k][x]
      BY <1>5, <2>1, <3>1
    <3>3. u[k][x] = d[Append(p, k) \o x]
      BY <1>3, <1>4, <3>1
    <3> QED
      BY <1>1, <2>2, <2>7, <3>2, <3>3
  <2> QED
    BY <2>6, <2>7
<1>8. DOMAIN v = DOMAIN w
  BY <1>1, <1>5, <1>6, <1>7, TreePos
<1>9. \A r \in DOMAIN v : v[r] = w[r]
  BY <1>1, <1>6, <1>7, TreePos
<1>10. v = w
  BY <1>1, <1>5, <1>8, <1>9, TreeEqual
<1> QED
  BY <1>10 DEF u, v, w

\* What a list or a map holds lies at its elements or entries.
LEMMA ElementOf ==
  ASSUME NEW d, Formed(d), NEW c, Pos(c), ~IsMessageAt(c), NEW k, Has(d, Append(c, k))
  PROVE  /\ Names(c, k) /\ Append(c, k) \in DOMAIN d
         /\ IsOf(d[Append(c, k)], Type[Last(c)])
         /\ Fit(ValueAt(d, Append(c, k)), Type[Last(c)])
<1>0. IsTree(d) /\ Held(d)
  BY InOrderHeld DEF Formed, InOrder
<1>1. (IsListAt(c) \/ IsMapAt(c)) /\ c # <<>> /\ Last(c) \in Field
  BY KindsOfContainer
<1>2. PICK q \in DOMAIN d : IsPrefix(Append(c, k), q)
  BY DEF Has, Under
<1>3. Pos(Append(c, k)) /\ Append(c, k) # <<>> /\ Front(Append(c, k)) = c /\ Last(Append(c, k)) = k
  BY AppendPos, AppendIs
<1>4. Append(c, k) \in DOMAIN d
  <2>1. CASE k \notin Field
    BY <1>0, <2>1, PlaceIs, ElementIs
  <2>2. CASE Append(c, k) = q
    BY <1>2, <2>2
  <2>3. CASE k \in Field /\ Append(c, k) # q
    <3>1. Lives(d, Append(c, k))
      BY <1>0, <1>2, <1>3, <2>3, AncestorsLive
    <3>2. Append(c, k) \in DOMAIN d \/ c \in DOMAIN d
      BY <1>3, <3>1 DEF Lives
    <3>3. c \notin DOMAIN d
      BY <1>0, <1>1 DEF Held
    <3> QED
      BY <3>2, <3>3
  <2> QED
    BY <2>1, <2>2, <2>3
<1>5. Seated(d, Append(c, k)) /\ Typed(d, Append(c, k))
  BY <1>3, <1>4 DEF Formed, InOrder
<1>6. Names(c, k)
  BY <1>1, <1>3, <1>5, KindsOfContainer DEF Seated, Names
<1>7. k # Unknown /\ k \notin Field
  BY <1>6, NamesIs
<1>8. TypeAt(Append(c, k)) = Type[Last(c)]
  BY <1>1, <1>7, TypeOfPlace
<1>9. Fit(ValueAt(d, Append(c, k)), TypeAt(Append(c, k)))
  BY <1>3, <1>4, <1>7, ValueInOrder
<1>10. IsOf(d[Append(c, k)], Type[Last(c)])
  BY <1>3, <1>5, <1>7, <1>8 DEF Typed
<1> QED
  BY <1>4, <1>6, <1>8, <1>9, <1>10

LEMMA ElementsFit ==
  ASSUME NEW d, Formed(d), NEW c, Pos(c), ~IsMessageAt(c)
  PROVE  Group([k \in Places(d, c) |-> ValueAt(d, Append(c, k))], c)
<1>1. IsTree(d) /\ IsFiniteSet(Places(d, c))
  BY PlacesFinite DEF Formed, InOrder
<1>2. ASSUME NEW k \in Places(d, c)
      PROVE  Names(c, k) /\ Fit(ValueAt(d, Append(c, k)), Type[Last(c)])
  BY <1>1, <1>2, PlaceIs, ElementOf
<1>3. IsListAt(c) => \E n \in Nat : Places(d, c) = 1 .. n
  BY ListPlaces
<1>4. IsMapAt(c) => Places(d, c) \subseteq Key
  BY <1>2 DEF Names
<1> QED
  BY <1>1, <1>2, <1>3, <1>4 DEF Group

LEMMA ValueFits ==
  ASSUME NEW d, Formed(d), NEW p, Pos(p), p # <<>>, Last(p) # Unknown,
         IsMessageAt(p) => p \in DOMAIN d
  PROVE  FitsAt(ValueAt(d, p), p)
<1>0. IsTree(d) /\ Held(d)
  BY InOrderHeld DEF Formed, InOrder
<1>1. CASE IsMessageAt(p)
  BY <1>1, ValueInOrder DEF FitsAt
<1>2. CASE ~IsMessageAt(p)
  <2>1. p \notin DOMAIN d
    BY <1>0, <1>2 DEF Held
  <2>2. ValueAt(d, p) = Collection([k \in Places(d, p) |-> ValueAt(d, Append(p, k))])
    BY <1>0, <2>1, CollectionOf
  <2>3. Group([k \in Places(d, p) |-> ValueAt(d, Append(p, k))], p)
    BY <1>2, ElementsFit
  <2> QED
    BY <1>2, <2>2, <2>3 DEF FitsAt
<1> QED
  BY <1>1, <1>2

-----------------------------------------------------------------------------
(* The operations on a message.                                            *)

LEMMA EraseFields ==
  ASSUME NEW d, Formed(d), NEW c, Pos(c), Lives(d, c), ~IsListAt(c), NEW S
  PROVE  LET e == EraseAll(d, {Append(c, s) : s \in S}) IN
         /\ Formed(e) /\ Beside(d, e, c, S) /\ Lives(e, c)
         /\ \A s \in S : ~Has(e, Append(c, s)) /\ Append(c, s) \notin DOMAIN e
<1> DEFINE P == {Append(c, s) : s \in S}
           e == EraseAll(d, P)
<1>0. IsTree(d)
  BY DEF Formed, InOrder
<1>1. Formed(e)
  BY EraseKeepsFormed
<1>2. Beside(d, e, c, S)
  BY <1>0, EraseBeside
<1>3. DOMAIN e = {q \in DOMAIN d : \A p \in P : ~IsPrefix(p, q)}
  BY <1>0, EraseAllIs
<1>4. \A s \in S : Append(c, s) \in P
  OBVIOUS
<1> HIDE DEF e, P
<1>5. IsPrefix(c, c)
  BY PrefixOrder
<1>6. Lives(e, c)
  BY <1>0, <1>2, <1>5, BesideStays
<1>7. ASSUME NEW s \in S
      PROVE  ~Has(e, Append(c, s)) /\ Append(c, s) \notin DOMAIN e
  <2>1. Pos(Append(c, s)) /\ IsPrefix(Append(c, s), Append(c, s))
    BY AppendPos, PrefixOrder
  <2> QED
    BY <1>3, <1>4, <2>1 DEF Has, Under
<1> QED
  BY <1>1, <1>2, <1>6, <1>7 DEF e, P

LEMMA SetFieldKeeps ==
  ASSUME NEW d, Formed(d), NEW c, Pos(c), Lives(d, c), IsMessageAt(c), NEW f \in Field,
         NEW v, FitsAt(v, Append(c, f))
  PROVE  /\ Formed(SetField(d, c, f, v))
         /\ Beside(d, SetField(d, c, f, v), c, {f} \cup Siblings(f))
         /\ Lives(SetField(d, c, f, v), c)
<1> DEFINE S == Siblings(f)
           k == EraseAll(d, {Append(c, g) : g \in S})
           p == Append(c, f)
<1>0. IsTree(d) /\ ~IsListAt(c) /\ ~IsMapAt(c)
  BY KindsOfContainer DEF Formed, InOrder
<1> HIDE DEF S
<1>1. /\ Formed(k) /\ Beside(d, k, c, S) /\ Lives(k, c)
      /\ \A g \in S : Append(c, g) \notin DOMAIN k
  BY <1>0, EraseFields
<1> HIDE DEF k
<1>2. Pos(p) /\ IsTree(k)
  BY <1>1, AppendPos DEF Formed, InOrder
<1>3. Erase(k, p) = EraseAll(k, {Append(c, s) : s \in {f}})
  BY DEF Erase
<1>4. IsTree(v)
  BY FitsTree
<1>5. Formed(Erase(k, p)) /\ Beside(k, Erase(k, p), c, {f})
  BY <1>0, <1>1, <1>3, EraseFields
<1>6. Beside(k, Graft(k, p, v), c, {f})
  BY <1>2, <1>4, GraftBeside
<1>7. Formed(Graft(k, p, v))
  <2>1. CASE IsMessageAt(p)
    <3>1. Fit(v, TypeAt(p))
      BY <2>1 DEF FitsAt
    <3>2. Card[f] = "singular"
      BY <2>1, KindOfPlace
    <3>3. Seat(k, c, f)
      BY <1>0, <1>1, <3>2 DEF Seat, S
    <3> QED
      BY <1>1, <3>1, <3>3, GraftKeepsFormed
  <2>2. CASE ~IsMessageAt(p)
    <3>1. PICK u : v = Collection(u) /\ Group(u, p)
      BY <2>2 DEF FitsAt
    <3>2. Front(p) = c
      BY AppendIs
    <3>3. Lives(k, p)
      BY <1>1, <2>2, <3>2 DEF Lives
    <3> QED
      BY <1>1, <1>2, <2>2, <3>1, <3>3, PutKeepsFormed
  <2> QED
    BY <2>1, <2>2
<1>8. SetField(d, c, f, v) = Erase(k, p) \/ SetField(d, c, f, v) = Graft(k, p, v)
  BY DEF SetField, S, k
<1>9. Formed(SetField(d, c, f, v)) /\ Beside(k, SetField(d, c, f, v), c, {f})
  BY <1>5, <1>6, <1>7, <1>8
<1>10. Beside(d, SetField(d, c, f, v), c, S \cup {f})
  BY <1>1, <1>9, BesideJoin
<1>11. IsPrefix(c, c) /\ S \cup {f} = {f} \cup S
  BY PrefixOrder
<1>12. Lives(SetField(d, c, f, v), c)
  BY <1>0, <1>10, <1>11, BesideStays
<1> QED
  BY <1>9, <1>10, <1>11, <1>12 DEF S

LEMMA EmptyMessageFits == Fit(EmptyMessage, Msg)
<1>1. DOMAIN EmptyMessage = {<<>>} /\ EmptyMessage[<<>>] = Msg
  BY DEF EmptyMessage
<1>2. IsFiniteSet({<<>>})
  BY FS_Singleton
<1>3. EmptyMessage = [q \in {<<>>} |-> EmptyMessage[q]]
  BY <1>1 DEF EmptyMessage
<1>4. <<>> \in Seq(Range(<<>>))
  BY RootPos DEF Pos
<1>5. IsTree(EmptyMessage)
  BY <1>1, <1>2, <1>3, <1>4 DEF IsTree
<1>6. \A f : Append(<<>>, f) # <<>>
  BY RootPos, AppendPos
<1>7. Alone(EmptyMessage, <<>>)
  BY <1>1, <1>6 DEF Alone
<1> QED
  BY <1>1, <1>5, <1>7 DEF Fit, InOrder, IsOf

LEMMA ScalarFits ==
  ASSUME NEW s \in Scalar, Kind[s] # Msg
  PROVE  Fit(ScalarFragment(s), Kind[s])
<1> DEFINE v == ScalarFragment(s)
<1>1. DOMAIN v = {<<>>} /\ v[<<>>] = s
  BY DEF ScalarFragment
<1>2. IsFiniteSet({<<>>})
  BY FS_Singleton
<1>3. v = [q \in {<<>>} |-> v[q]]
  BY <1>1 DEF ScalarFragment
<1> HIDE DEF v
<1>4. <<>> \in Seq(Range(<<>>))
  BY RootPos DEF Pos
<1>5. IsTree(v)
  BY <1>1, <1>2, <1>3, <1>4 DEF IsTree
<1>6. \A f : Append(<<>>, f) # <<>>
  BY RootPos, AppendPos
<1>7. Alone(v, <<>>)
  BY <1>1, <1>6 DEF Alone
<1>8. InOrder(v)
  BY <1>1, <1>5, <1>7 DEF InOrder
<1> QED
  BY <1>1, <1>8 DEF Fit, IsOf, v

\* Message.Mutable: what is made, and what it then leads to.
LEMMA MutableKeeps ==
  ASSUME NEW d, Formed(d), NEW c, Pos(c), Lives(d, c), IsMessageAt(c), NEW f \in Field,
         Card[f] # "singular" \/ Type[f] = Msg
  PROVE  LET e == Mutable(d, c, f) IN
         /\ Formed(e) /\ Beside(d, e, c, {f} \cup Siblings(f)) /\ Lives(e, c)
         /\ Lives(e, Append(c, f))
<1> DEFINE e == Mutable(d, c, f)
           p == Append(c, f)
<1>0. IsTree(d) /\ Held(d)
  BY InOrderHeld DEF Formed, InOrder
<1>1. Pos(p) /\ Front(p) = c /\ Last(p) = f /\ p # <<>> /\ p \o <<>> = p
  BY AppendPos, AppendIs, ConcatRoot
<1>2. IsMessageAt(p) <=> Card[f] = "singular"
  BY KindOfPlace
<1>3. TypeAt(p) = Type[f]
  BY TypeOfPlace
<1>4. Beside(d, d, c, {f} \cup Siblings(f))
  BY AgreeOn DEF Beside
<1>5. CASE Card[f] # "singular"
  <2>1. e = d
    BY <1>5 DEF Mutable
  <2>2. Lives(d, p)
    BY <1>1, <1>2, <1>5 DEF Lives
  <2> QED
    BY <1>4, <2>1, <2>2
<1>6. CASE Card[f] = "singular" /\ Has(d, p)
  <2>1. e = d
    BY <1>6 DEF Mutable
  <2>2. p \in DOMAIN d
    BY <1>0, <1>1, <1>2, <1>6, HasIs
  <2>3. Typed(d, p)
    BY <1>1, <2>2 DEF Formed, InOrder
  <2>4. f # Unknown
    BY SchemaAssumption
  <2>5. d[p] = Msg
    BY <1>1, <1>3, <1>6, <2>3, <2>4 DEF Typed, IsOf
  <2>6. Lives(d, p)
    BY <1>2, <1>6, <2>2, <2>5 DEF Lives
  <2> QED
    BY <1>4, <2>1, <2>6
<1>7. CASE Card[f] = "singular" /\ ~Has(d, p)
  <2>1. e = SetField(d, c, f, EmptyMessage)
    BY <1>7 DEF Mutable
  <2>2. Type[f] = Msg
    BY <1>7
  <2>3. FitsAt(EmptyMessage, p)
    BY <1>2, <1>3, <1>7, <2>2, EmptyMessageFits DEF FitsAt
  <2>4. Formed(e) /\ Beside(d, e, c, {f} \cup Siblings(f)) /\ Lives(e, c)
    BY <2>1, <2>3, SetFieldKeeps
  <2>5. f \notin Implicit
    BY <2>2, SchemaAssumption
  <2> DEFINE k == EraseAll(d, {Append(c, g) : g \in Siblings(f)})
  <2>6. SetField(d, c, f, EmptyMessage) = Graft(k, p, EmptyMessage)
    BY <2>5 DEF SetField
  <2>7. IsTree(k)
    BY <1>0, EraseAllIs
  <2> HIDE DEF k
  <2>8. IsTree(EmptyMessage) /\ <<>> \in DOMAIN EmptyMessage /\ EmptyMessage[<<>>] = Msg
    BY EmptyMessageFits DEF Fit, InOrder, EmptyMessage
  <2>9. /\ \A r : Pos(r) => (p \o r \in DOMAIN Graft(k, p, EmptyMessage) <=> r \in DOMAIN EmptyMessage)
        /\ \A r \in DOMAIN EmptyMessage : Graft(k, p, EmptyMessage)[p \o r] = EmptyMessage[r]
    BY <1>1, <2>7, <2>8, GraftIs
  <2>10. p \in DOMAIN e /\ e[p] = Msg
    BY <1>1, <2>1, <2>6, <2>8, <2>9, RootPos
  <2>11. Lives(e, p)
    BY <1>2, <1>7, <2>10 DEF Lives
  <2> QED
    BY <2>4, <2>11
<1> QED
  BY <1>5, <1>6, <1>7

LEMMA EmptyKeeps ==
  ASSUME NEW d, Formed(d), NEW c, Pos(c), Lives(d, c)
  PROVE  LET e == EmptyContainer(d, c) IN
         /\ Formed(e) /\ Within(d, e, c) /\ Lives(e, c)
         /\ IsMessageAt(c) => /\ Beside(d, e, c, Field)
                              /\ \A f \in Field : ~Has(e, Append(c, f)) /\ Append(c, f) \notin DOMAIN e
<1>1. CASE IsMessageAt(c)
  <2>1. ~IsListAt(c)
    BY <1>1, KindsOfContainer
  <2>2. EmptyContainer(d, c) = EraseAll(d, {Append(c, s) : s \in Field})
    BY <1>1 DEF EmptyContainer
  <2> DEFINE e == EraseAll(d, {Append(c, s) : s \in Field})
  <2>3. /\ Formed(e) /\ Beside(d, e, c, Field) /\ Lives(e, c)
        /\ \A s \in Field : ~Has(e, Append(c, s)) /\ Append(c, s) \notin DOMAIN e
    BY <2>1, EraseFields
  <2> HIDE DEF e
  <2>4. Within(d, e, c)
    BY <2>3, BesideOn
  <2> QED
    BY <2>2, <2>3, <2>4 DEF e
<1>2. CASE ~IsMessageAt(c)
  BY <1>2, EraseCollection DEF EmptyContainer
<1> QED
  BY <1>1, <1>2

LEMMA FirstPlace ==
  ASSUME NEW v, IsTree(v), NEW r \in DOMAIN v, r # <<>>
  PROVE  r[1] \in Places(v, <<>>)
<1>1. Pos(r) /\ IsPrefix(<<>>, r) /\ Len(<<>>) = 0
  BY TreePos, RootAbove, RootPos
<1>2. r \in Under(v, <<>>) \ {<<>>}
  BY <1>1 DEF Under
<1>3. Len(<<>>) + 1 = 1
  BY <1>1
<1> QED
  BY <1>2, <1>3 DEF Places

LEMMA OverlayBeside ==
  ASSUME NEW d, IsTree(d), NEW c, Pos(c), NEW v, IsTree(v),
         <<>> \in DOMAIN v => c \in DOMAIN d /\ d[c] = v[<<>>],
         NEW S, Places(v, <<>>) \subseteq S
  PROVE  Beside(d, Overlay(d, c, v), c, S)
<1> DEFINE e == Overlay(d, c, v)
<1>1. /\ IsTree(e)
      /\ \A r : Pos(r) => (c \o r \in DOMAIN e <=> r \in DOMAIN v \/ c \o r \in DOMAIN d)
      /\ \A q : ~IsPrefix(c, q) => (q \in DOMAIN e <=> q \in DOMAIN d)
      /\ \A q \in DOMAIN e : ~IsPrefix(c, q) \/ Rest(c, q) \notin DOMAIN v => e[q] = d[q]
  BY OverlayIs
<1>2. Within(d, e, c)
  BY OverlayWithin
<1> HIDE DEF e
<1>3. ASSUME NEW q, Pos(q), \A s \in S : ~IsPrefix(Append(c, s), q)
      PROVE  Agree(d, e, q)
  <2>1. CASE IsPrefix(c, q) => q = c
    BY <1>2, <1>3, <2>1 DEF Within
  <2>2. CASE IsPrefix(c, q) /\ q # c
    <3> DEFINE r == Rest(c, q)
    <3>1. /\ Pos(r) /\ c \o r = q /\ Len(r) = Len(q) - Len(c)
          /\ \A i \in 1 .. Len(q) - Len(c) : r[i] = q[Len(c) + i]
      BY <1>3, <2>2, RestIs
    <3> HIDE DEF r
    <3>2. r # <<>>
      BY <2>2, <3>1, ConcatRoot
    <3>3. Len(r) \in Nat /\ Len(r) > 0
      BY <3>1, <3>2, NotRoot, PosIs
    <3>4. r[1] = q[Len(c) + 1]
      BY <3>1, <3>3
    <3>5. r \notin DOMAIN v
      <4>1. SUFFICES ASSUME r \in DOMAIN v
                     PROVE  FALSE
        OBVIOUS
      <4>2. r[1] \in S
        BY <3>2, <4>1, FirstPlace
      <4>3. IsPrefix(Append(c, r[1]), q)
        BY <1>3, <2>2, <3>4, AppendBelow
      <4> QED
        BY <1>3, <4>2, <4>3
    <3> QED
      BY <1>1, <3>1, <3>5 DEF Agree, r
  <2> QED
    BY <2>1, <2>2
<1> QED
  BY <1>3 DEF Beside, e

\* A message that takes fields it does not have (insertContainer), and one that was
\* emptied and is filled (assignContainer).
LEMMA FillKeeps ==
  ASSUME NEW d, Formed(d), NEW c, Pos(c), Lives(d, c), IsMessageAt(c),
         NEW v, Formed(v), Places(v, <<>>) \subseteq Field,
         \A f \in Places(v, <<>>) :
           ~Has(d, Append(c, f)) /\ \A g \in Siblings(f) : Append(c, g) \notin DOMAIN d
  PROVE  Formed(Overlay(d, c, v)) /\ Beside(d, Overlay(d, c, v), c, Field)
<1>1. Formed(Overlay(d, c, v))
  BY MessageKeepsFormed
<1>2. IsTree(d) /\ IsTree(v)
  BY DEF Formed, InOrder
<1>3. v[<<>>] = Msg /\ c \in DOMAIN d /\ d[c] = Msg
  BY DEF Formed, Lives
<1> QED
  BY <1>1, <1>2, <1>3, OverlayBeside

-----------------------------------------------------------------------------
(* Unknown fields.                                                         *)

LEMMA UnknownIsLeaf ==
  ASSUME NEW d, Formed(d), NEW c, Pos(c), NEW q \in DOMAIN d, IsPrefix(Append(c, Unknown), q)
  PROVE  q = Append(c, Unknown)
<1> DEFINE p == Append(c, Unknown)
<1>0. IsTree(d) /\ Held(d)
  BY InOrderHeld DEF Formed, InOrder
<1>1. Pos(p) /\ p # <<>> /\ Last(p) = Unknown
  BY AppendPos, AppendIs
<1>2. IsMessageAt(p)
  BY KindOfPlace, SchemaAssumption
<1> HIDE DEF p
<1>3. ASSUME q # p
      PROVE  FALSE
  <2>1. Lives(d, p)
    BY <1>0, <1>1, <1>3, AncestorsLive DEF p
  <2>2. p \in DOMAIN d /\ d[p] = Msg
    BY <1>2, <2>1 DEF Lives
  <2>3. Typed(d, p)
    BY <1>1, <2>2 DEF Formed, InOrder
  <2> QED
    BY <1>1, <2>2, <2>3 DEF Typed
<1> QED
  BY <1>3 DEF p

LEMMA UnknownAgrees ==
  ASSUME NEW d, Formed(d), NEW e, Formed(e), NEW c, Pos(c), Agree(d, e, Append(c, Unknown))
  PROVE  ValueAt(d, Append(c, Unknown)) = ValueAt(e, Append(c, Unknown))
<1> DEFINE p == Append(c, Unknown)
           v == ValueAt(d, p)
           w == ValueAt(e, p)
<1>0. IsTree(d) /\ IsTree(e) /\ Pos(p) /\ p \o <<>> = p
  BY AppendPos, ConcatRoot DEF Formed, InOrder
<1>1. /\ IsTree(v) /\ \A r : Pos(r) => (r \in DOMAIN v <=> p \o r \in DOMAIN d)
      /\ \A r \in DOMAIN v : v[r] = d[p \o r]
  BY <1>0, ValueAtIs
<1>2. /\ IsTree(w) /\ \A r : Pos(r) => (r \in DOMAIN w <=> p \o r \in DOMAIN e)
      /\ \A r \in DOMAIN w : w[r] = e[p \o r]
  BY <1>0, ValueAtIs
<1> HIDE DEF v, w
<1>3. ASSUME NEW r, Pos(r), p \o r \in DOMAIN d \/ p \o r \in DOMAIN e
      PROVE  r = <<>>
  <2>1. IsPrefix(p, p \o r)
    BY <1>0, <1>3, ConcatBelow
  <2>2. p \o r = p
    BY <1>3, <2>1, UnknownIsLeaf
  <2>3. p \o r = p \o <<>>
    BY <1>0, <2>2
  <2> QED
    BY <1>0, <1>3, <2>3, ConcatInjective, RootPos
<1>4. p \in DOMAIN d <=> p \in DOMAIN e
  BY DEF Agree
<1>5. p \in DOMAIN d => d[p] = e[p]
  BY DEF Agree
<1> HIDE DEF p
<1>6. \A r : r \in DOMAIN v <=> r = <<>> /\ p \in DOMAIN d
  BY <1>0, <1>1, <1>3, RootPos, TreePos
<1>7. \A r : r \in DOMAIN w <=> r = <<>> /\ p \in DOMAIN e
  BY <1>0, <1>2, <1>3, RootPos, TreePos
<1>8. DOMAIN v = DOMAIN w
  BY <1>4, <1>6, <1>7
<1>9. \A r \in DOMAIN v : v[r] = w[r]
  BY <1>0, <1>1, <1>2, <1>5, <1>6, <1>8
<1>10. v = w
  BY <1>1, <1>2, <1>8, <1>9, TreeEqual
<1> QED
  BY <1>10 DEF v, w, p

LEMMA NoUnknownIn ==
  ASSUME NEW d, Formed(d), NEW c, Pos(c), ~IsMessageAt(c)
  PROVE  Append(c, Unknown) \notin DOMAIN d
<1> SUFFICES ASSUME Append(c, Unknown) \in DOMAIN d
             PROVE  FALSE
  OBVIOUS
<1>1. Append(c, Unknown) # <<>> /\ Front(Append(c, Unknown)) = c /\ Last(Append(c, Unknown)) = Unknown
  BY AppendPos, AppendIs
<1>2. Seated(d, Append(c, Unknown))
  BY <1>1 DEF Formed, InOrder
<1>3. IsListAt(c) \/ IsMapAt(c)
  BY KindsOfContainer
<1> QED
  BY <1>1, <1>2, <1>3, SchemaAssumption DEF Seated

LEMMA BesideUnknown ==
  ASSUME NEW d, NEW e, NEW c, Pos(c), NEW S, Beside(d, e, c, S), Unknown \notin S
  PROVE  Agree(d, e, Append(c, Unknown))
BY AppendPos, PlacesApart DEF Beside

=============================================================================
