-------------------------- MODULE PatchProtoDraft --------------------------
(***************************************************************************)
(* Theorems about the draft: what the engine works on is a message that    *)
(* protobuf can hold from its first write to its last, the containers and  *)
(* the list positions it holds on to across its writes stay good, and a    *)
(* nested delta keeps to its container; for every schema, every target and *)
(* every document.                                                         *)
(***************************************************************************)
EXTENDS PatchProtoControl

(* Sequences.                                                              *)

LEMMA FirstFaultOk ==
  ASSUME NEW codes, DOMAIN codes \subseteq Nat, FirstFault(codes) = "ok"
  PROVE  \A i \in DOMAIN codes : codes[i] = "ok"
<1> DEFINE bad == {i \in DOMAIN codes : codes[i] # "ok"}
<1>1. CASE bad = {}
  BY <1>1
<1>2. CASE bad # {}
  <2>1. \E m \in bad : \A j \in bad : m <= j
    BY <1>2, LeastNat
  <2>2. Min(bad) \in bad
    BY <2>1 DEF Min
  <2>3. codes[Min(bad)] = "ok"
    BY <1>2 DEF FirstFault
  <2> QED
    BY <2>2, <2>3
<1> QED
  BY <1>1, <1>2

LEMMA SetToSeqIs ==
  ASSUME NEW S, IsFiniteSet(S)
  PROVE  SetToSeq(S) \in Seq(S)
<1>1. Cardinality(S) \in Nat /\ ExistsBijection(1 .. Cardinality(S), S)
  BY FS_CardinalityType
<1>2. \E f \in [1 .. Cardinality(S) -> S] : IsInjective(f)
  BY <1>1 DEF ExistsBijection, Bijection, Injection, IsInjective
<1>3. SetToSeq(S) \in [1 .. Cardinality(S) -> S]
  BY <1>2 DEF SetToSeq
<1> QED
  BY <1>1, <1>3

\* The concatenation of sequences is reached one sequence at a time.
Gathers(f, ss) ==
  /\ \A i \in 1 .. Len(ss) : f[i] = IF i = 1 THEN ss[i] ELSE f[i - 1] \o ss[i]
  /\ FlattenSeq(ss) = IF Len(ss) = 0 THEN ss ELSE f[Len(ss)]

LEMMA FlattenSteps ==
  ASSUME NEW ss, Len(ss) \in Nat
  PROVE  \E f : Gathers(f, ss)
<1> DEFINE N == Len(ss)
           Flat(f, m) == f = [i \in 1 .. m |-> IF i = 1 THEN ss[i] ELSE f[i - 1] \o ss[i]]
           Bad == {m \in 0 .. N : ~\E f : Flat(f, m)}
<1>1. N \in Nat
  OBVIOUS
<1> HIDE DEF N, Flat
<1>2. Bad = {}
  <2>1. SUFFICES ASSUME Bad # {}
                 PROVE  FALSE
    OBVIOUS
  <2>2. Bad \in SUBSET Nat
    BY <1>1
  <2>3. PICK m \in Bad : \A j \in Bad : m <= j
    BY <2>1, <2>2, LeastNat
  <2>4. m # 0
    <3>1. Flat([i \in 1 .. 0 |-> 0], 0)
      BY DEF Flat
    <3> QED
      BY <2>3, <3>1
  <2>5. m \in Nat /\ m - 1 \in 0 .. N /\ m - 1 \notin Bad
    BY <1>1, <2>3, <2>4
  <2>6. PICK f : Flat(f, m - 1)
    BY <2>5
  <2> DEFINE step(h, i) == IF i = 1 THEN ss[i] ELSE h[i - 1] \o ss[i]
             g == [i \in 1 .. m |-> step(f, i)]
  <2>7. f = [i \in 1 .. m - 1 |-> step(f, i)]
    BY <2>6 DEF Flat
  <2> HIDE DEF step
  <2>8. \A i \in 1 .. m - 1 : g[i] = f[i]
    BY <2>5, <2>7
  <2> HIDE DEF g
  <2>9. \A i \in 1 .. m : step(g, i) = step(f, i)
    <3>1. \A i \in 1 .. m : i # 1 => i - 1 \in 1 .. m - 1
      BY <2>5
    <3> QED
      BY <2>8, <3>1 DEF step
  <2>10. g = [i \in 1 .. m |-> step(g, i)]
    BY <2>9 DEF g
  <2>11. Flat(g, m)
    BY <2>10 DEF Flat, step
  <2> QED
    BY <2>3, <2>11
<1>3. \E f : Flat(f, N)
  <2>1. N \in 0 .. N
    BY <1>1
  <2> QED
    BY <1>2, <2>1
<1> DEFINE F == CHOOSE f : Flat(f, N)
<1>4. Flat(F, N)
  BY <1>3
<1>5. FlattenSeq(ss) = IF N = 0 THEN ss ELSE F[N]
  BY DEF FlattenSeq, N, Flat
<1> HIDE DEF F, Bad
<1>6. \A i \in 1 .. N : F[i] = IF i = 1 THEN ss[i] ELSE F[i - 1] \o ss[i]
  BY <1>4 DEF Flat
<1>7. Gathers(F, ss)
  BY <1>5, <1>6 DEF Gathers, N
<1> QED
  BY <1>7

\* The concatenation of sequences over T is a sequence over T.
LEMMA FlattenIs ==
  ASSUME NEW T, NEW ss \in Seq(Seq(T))
  PROVE  FlattenSeq(ss) \in Seq(T)
<1> DEFINE N == Len(ss)
<1>1. N \in Nat /\ \A i \in 1 .. N : ss[i] \in Seq(T)
  OBVIOUS
<1>2. PICK F : /\ \A i \in 1 .. N : F[i] = IF i = 1 THEN ss[i] ELSE F[i - 1] \o ss[i]
               /\ FlattenSeq(ss) = IF N = 0 THEN ss ELSE F[N]
  <2>1. PICK F : Gathers(F, ss)
    BY <1>1, FlattenSteps
  <2> QED
    BY <2>1 DEF Gathers
<1> HIDE DEF N
<1> DEFINE Off == {m \in 1 .. N : F[m] \notin Seq(T)}
<1>3. Off = {}
  <2>1. SUFFICES ASSUME Off # {}
                 PROVE  FALSE
    OBVIOUS
  <2>2. Off \in SUBSET Nat
    BY <1>1
  <2>3. PICK m \in Off : \A j \in Off : m <= j
    BY <2>1, <2>2, LeastNat
  <2>4. F[m] = IF m = 1 THEN ss[m] ELSE F[m - 1] \o ss[m]
    BY <1>2, <2>3
  <2>5. m # 1 => m - 1 \in 1 .. N /\ m - 1 \notin Off
    BY <1>1, <2>3
  <2>6. ss[m] \in Seq(T) /\ (m # 1 => F[m - 1] \in Seq(T))
    BY <1>1, <2>3, <2>5
  <2>7. F[m] \in Seq(T)
    BY <2>4, <2>6
  <2> QED
    BY <2>3, <2>7
<1>4. CASE N = 0
  BY <1>2, <1>4 DEF N
<1>5. CASE N # 0
  BY <1>1, <1>2, <1>3, <1>5
<1> QED
  BY <1>4, <1>5

\* The elements of a finite set of numbers, largest first.
LEMMA DescendingIs ==
  ASSUME NEW S \in SUBSET Nat, IsFiniteSet(S)
  PROVE  /\ Descending(S) \in Seq(S) /\ Len(Descending(S)) = Cardinality(S)
         /\ \A i, j \in DOMAIN Descending(S) : i < j => Descending(S)[i] > Descending(S)[j]
<1> DEFINE Down(s) == \A i, j \in DOMAIN s : i < j => s[i] > s[j]
           Bad == {n \in 0 .. Cardinality(S) : \E T \in SUBSET S :
                     Cardinality(T) = n /\ ~\E s \in [1 .. n -> T] : Down(s)}
<1>1. \A T \in SUBSET S : IsFiniteSet(T) /\ Cardinality(T) \in Nat /\ Cardinality(T) <= Cardinality(S)
  BY FS_Subset, FS_CardinalityType
<1>2. Cardinality(S) \in Nat
  BY FS_CardinalityType
<1>3. Bad = {}
  <2>1. SUFFICES ASSUME Bad # {}
                 PROVE  FALSE
    OBVIOUS
  <2>2. Bad \in SUBSET Nat
    BY <1>2
  <2>3. PICK n \in Bad : \A j \in Bad : n <= j
    BY <2>1, <2>2, LeastNat
  <2>4. PICK T \in SUBSET S : Cardinality(T) = n /\ ~\E s \in [1 .. n -> T] : Down(s)
    BY <2>3
  <2>5. n # 0
    <3>1. [i \in 1 .. 0 |-> 0] \in [1 .. 0 -> T] /\ Down([i \in 1 .. 0 |-> 0])
      OBVIOUS
    <3> QED
      BY <2>4, <3>1
  <2>6. T # {} /\ T \in SUBSET Nat
    BY <2>4, <2>5, FS_EmptySet
  <2>7. PICK m \in T : \A j \in T : m <= j
    BY <2>6, LeastNat
  <2> DEFINE U == T \ {m}
  <2>8. IsFiniteSet(U) /\ Cardinality(U) = n - 1 /\ U \in SUBSET S
    BY <1>1, <2>4, <2>7, FS_RemoveElement
  <2>9. n \in Nat /\ n - 1 \in 0 .. Cardinality(S) /\ n - 1 \notin Bad
    BY <1>2, <2>3, <2>5
  <2>10. PICK s \in [1 .. n - 1 -> U] : Down(s)
    BY <2>8, <2>9
  <2> DEFINE t == [i \in 1 .. n |-> IF i = n THEN m ELSE s[i]]
  <2>11. t \in [1 .. n -> T]
    BY <2>7, <2>9, <2>10
  <2>12. ASSUME NEW i \in 1 .. n - 1
         PROVE  s[i] \in Nat /\ s[i] > m
    <3>1. s[i] \in U
      BY <2>10
    <3>2. s[i] \in T /\ s[i] # m /\ m \in Nat /\ s[i] \in Nat
      BY <2>6, <2>7, <3>1
    <3> QED
      BY <2>7, <3>2
  <2>13. ASSUME NEW i \in 1 .. n, NEW j \in 1 .. n, i < j
         PROVE  t[i] > t[j]
    <3>1. CASE j = n
      BY <2>9, <2>12, <2>13, <3>1
    <3>2. CASE j # n
      <4>1. i \in DOMAIN s /\ j \in DOMAIN s /\ t[i] = s[i] /\ t[j] = s[j]
        BY <2>9, <2>10, <2>13, <3>2
      <4> QED
        BY <2>10, <2>13, <4>1
    <3> QED
      BY <3>1, <3>2
  <2>14. Down(t)
    BY <2>13
  <2> QED
    BY <2>4, <2>11, <2>14
<1>4. \E s \in [1 .. Cardinality(S) -> S] : Down(s)
  BY <1>2, <1>3
<1>5. Descending(S) \in [1 .. Cardinality(S) -> S] /\ Down(Descending(S))
  BY <1>4 DEF Descending
<1> QED
  BY <1>2, <1>5

-----------------------------------------------------------------------------
(* Literals.                                                               *)

FieldType == {Type[f] : f \in Field}

LEMMA NamesOfTypes == \A type \in FieldType \cup {Msg} : type # "l" /\ type # "map"
BY SchemaAssumption DEF FieldType

\* A value that is not at fault is one of its position's type.
LEMMA SingularFits ==
  ASSUME NEW v, IsSingular(v), NEW type \in FieldType, SingularFault(v, type) = "ok"
  PROVE  Fit(SingularContent(v), type)
<1>0. type \notin {"l", "map"}
  BY NamesOfTypes
<1>1. v.arm = type /\ type \notin {"l", "map"}
  BY <1>0 DEF SingularFault
<1>2. CASE type = Msg
  <2>1. v.fault = "ok"
    BY <1>1, <1>2 DEF SingularFault
  <2>2. Formed(v.body)
    BY <1>1, <1>2, <2>1, FormedIsMessage DEF IsSingular
  <2> QED
    BY <1>1, <1>2, <2>2 DEF SingularContent, Fit, IsOf, Formed
<1>3. CASE type # Msg
  <2>1. v.scalar \in Scalar /\ Kind[v.scalar] = type
    BY <1>1, <1>3 DEF IsSingular
  <2>2. Fit(ScalarFragment(v.scalar), Kind[v.scalar])
    BY <1>3, <2>1, ScalarFits
  <2> QED
    BY <1>1, <1>3, <2>1, <2>2 DEF SingularContent
<1> QED
  BY <1>2, <1>3

LEMMA ListFits ==
  ASSUME NEW items, items \in Seq(Range(items)), \A i \in DOMAIN items : IsSingular(items[i]),
         NEW p, IsListAt(p), ListFault(items, TypeAt(p)) = "ok"
  PROVE  Group(ListContent(items), p) /\ Len(items) \in Nat /\ DOMAIN ListContent(items) = 1 .. Len(items)
<1>1. Last(p) \in Field /\ ~IsMapAt(p)
  BY KindsOfContainer
<1>2. TypeAt(p) = Type[Last(p)] /\ TypeAt(p) \in FieldType
  BY <1>1 DEF TypeAt, FieldType
<1>3. Len(items) \in Nat /\ DOMAIN items = 1 .. Len(items)
  OBVIOUS
<1> DEFINE codes == [i \in DOMAIN items |-> SingularFault(items[i], TypeAt(p))]
<1>4. FirstFault(codes) = "ok" /\ DOMAIN codes \subseteq Nat
  BY <1>3 DEF ListFault
<1>5. \A i \in DOMAIN items : codes[i] = "ok"
  BY <1>4, FirstFaultOk
<1>6. \A i \in DOMAIN items : Fit(ListContent(items)[i], Type[Last(p)])
  BY <1>2, <1>5, SingularFits DEF ListContent
<1>7. DOMAIN ListContent(items) = 1 .. Len(items)
  BY <1>3 DEF ListContent
<1>8. IsFiniteSet(1 .. Len(items))
  BY <1>3, FS_Interval
<1> QED
  BY <1>1, <1>3, <1>6, <1>7, <1>8 DEF Group

\* A key is only taken if it is one, and an entry with it if its value fits.
LEMMA EntriesFit ==
  ASSUME NEW entries, entries \in Seq(Range(entries)), NEW p, IsMapAt(p),
         \A i \in DOMAIN entries :
           /\ IsSingular(entries[i].value) /\ entries[i].key \in Key
           /\ SingularFault(entries[i].value, TypeAt(p)) = "ok"
  PROVE  Group(MapContent(entries), p)
<1> DEFINE D == DOMAIN entries
           K == {entries[i].key : i \in D}
           u == MapContent(entries)
           at(k) == CHOOSE i \in D : entries[i].key = k
<1>1. Last(p) \in Field /\ ~IsListAt(p)
  BY KindsOfContainer
<1>2. TypeAt(p) = Type[Last(p)] /\ TypeAt(p) \in FieldType
  BY <1>1 DEF TypeAt, FieldType
<1>3. DOMAIN u = K /\ \A k \in K : u[k] = SingularContent(entries[at(k)].value)
  BY DEF MapContent
<1>4. K \subseteq Key
  OBVIOUS
<1>5. IsFiniteSet(K)
  <2> DEFINE f == [i \in D |-> entries[i].key]
  <2>1. f \in Surjection(D, K)
    BY DEF Surjection
  <2>2. D = 1 .. Len(entries) /\ Len(entries) \in Nat
    OBVIOUS
  <2>3. IsFiniteSet(D)
    BY <2>2, FS_Interval
  <2> HIDE DEF f, D, K
  <2> QED
    BY <2>1, <2>3, FS_Surjection
<1>6. ASSUME NEW k \in K
      PROVE  Fit(u[k], Type[Last(p)])
  <2>1. \E i \in D : entries[i].key = k
    OBVIOUS
  <2>2. at(k) \in D
    BY <2>1
  <2> HIDE DEF at
  <2>3. Fit(SingularContent(entries[at(k)].value), Type[Last(p)])
    BY <1>2, <2>2, SingularFits
  <2> QED
    BY <1>3, <2>3 DEF at
<1> QED
  BY <1>1, <1>3, <1>4, <1>5, <1>6 DEF Group

LEMMA MapFits ==
  ASSUME NEW entries, entries \in Seq(Range(entries)), \A i \in DOMAIN entries : IsSingular(entries[i].value),
         NEW p, IsMapAt(p), MapFault(entries, TypeAt(p)) = "ok"
  PROVE  Group(MapContent(entries), p)
<1> DEFINE code(i) ==
      CASE entries[i].key \notin Key -> "IllegalArm"
        [] Repeated(entries, i)      -> "DuplicateTarget"
        [] OTHER                     -> SingularFault(entries[i].value, TypeAt(p))
           codes == [i \in DOMAIN entries |-> code(i)]
<1>1. FirstFault(codes) = "ok"
  BY DEF MapFault
<1>2. DOMAIN codes \subseteq Nat
  OBVIOUS
<1>3. \A i \in DOMAIN entries : code(i) = "ok"
  BY <1>1, <1>2, FirstFaultOk
<1>4. \A i \in DOMAIN entries :
        entries[i].key \in Key /\ SingularFault(entries[i].value, TypeAt(p)) = "ok"
  BY <1>3
<1> QED
  BY <1>4, EntriesFit

LEMMA LiteralFits ==
  ASSUME NEW v, IsLiteral(v), NEW p, p # <<>>, TypeAt(p) \in FieldType, LiteralFault(v, p) = "ok"
  PROVE  FitsAt(Content(v), p)
<1>0. TypeAt(p) \notin {"l", "map"}
  BY NamesOfTypes
<1>1. v.arm = ArmAt(p) /\ TypeAt(p) \notin {"l", "map"}
  BY <1>0 DEF LiteralFault
<1>2. CASE IsListAt(p)
  <2>1. v.arm = "l" /\ ~IsMessageAt(p)
    BY <1>1, <1>2, KindsOfContainer DEF ArmAt
  <2>2. v.items \in Seq(Range(v.items)) /\ \A i \in DOMAIN v.items : IsSingular(v.items[i])
    BY <2>1 DEF IsLiteral
  <2>3. ListFault(v.items, TypeAt(p)) = "ok"
    BY <1>1, <2>1, NamesOfTypes DEF LiteralFault
  <2>4. Group(ListContent(v.items), p)
    BY <1>2, <2>2, <2>3, ListFits
  <2> QED
    BY <2>1, <2>4 DEF FitsAt, Content
<1>3. CASE IsMapAt(p)
  <2>1. v.arm = "map" /\ ~IsMessageAt(p)
    BY <1>1, <1>3, KindsOfContainer DEF ArmAt
  <2>2. v.entries \in Seq(Range(v.entries)) /\ \A i \in DOMAIN v.entries : IsSingular(v.entries[i].value)
    BY <2>1 DEF IsLiteral
  <2>3. MapFault(v.entries, TypeAt(p)) = "ok"
    BY <1>1, <2>1, NamesOfTypes DEF LiteralFault
  <2>4. Group(MapContent(v.entries), p)
    BY <1>3, <2>2, <2>3, MapFits
  <2> QED
    BY <2>1, <2>4 DEF FitsAt, Content
<1>4. CASE ~IsListAt(p) /\ ~IsMapAt(p)
  <2>1. IsMessageAt(p)
    BY <1>4, KindsOfContainer
  <2>2. v.arm = TypeAt(p)
    BY <1>1, <1>4 DEF ArmAt
  <2>3. IsSingular(v) /\ Content(v) = SingularContent(v)
    BY <1>1, <2>2 DEF IsLiteral, Content
  <2>4. SingularFault(v, TypeAt(p)) = "ok"
    BY <1>1, <2>2 DEF LiteralFault, SingularFault
  <2>5. Fit(SingularContent(v), TypeAt(p))
    BY <2>3, <2>4, SingularFits
  <2> QED
    BY <2>1, <2>3, <2>5 DEF FitsAt
<1> QED
  BY <1>2, <1>3, <1>4

LEMMA FirstIsPrefix ==
  ASSUME NEW q, Pos(q), q # <<>>, NEW c, c = <<>>
  PROVE  IsPrefix(Append(c, q[1]), q)
<1>1. Pos(c) /\ Len(c) = 0 /\ IsPrefix(c, q)
  BY RootPos, RootAbove
<1>2. q[Len(c) + 1] = q[1]
  BY <1>1
<1> QED
  BY <1>1, <1>2, AppendBelow

\* The message a container is given: fields it declares, and nothing unknown.
LEMMA BodyIs ==
  ASSUME NEW v, IsLiteral(v), v.arm = Msg, v.fault = "ok"
  PROVE  /\ Content(v) = v.body /\ Formed(v.body)
         /\ Places(v.body, <<>>) \subseteq Field
<1>1. Msg \notin {"l", "map"}
  BY SchemaAssumption
<1>2. IsSingular(v) /\ Content(v) = v.body
  BY <1>1 DEF IsLiteral, Content, SingularContent
<1>3. Formed(v.body) /\ \A q \in DOMAIN v.body : Unknown \notin Range(q)
  BY <1>2, FormedIsMessage DEF IsSingular
<1>4. IsTree(v.body) /\ Held(v.body)
  BY <1>3, InOrderHeld DEF Formed, InOrder
<1>5. ASSUME NEW f \in Places(v.body, <<>>)
      PROVE  f \in Field
  <2>1. Pos(<<>>) /\ Len(<<>>) = 0 /\ IsMessageAt(<<>>)
    BY RootPos, KindsOfContainer
  <2>2. PICK q \in Under(v.body, <<>>) \ {<<>>} : f = q[Len(<<>>) + 1]
    BY DEF Places
  <2>3. q \in DOMAIN v.body /\ q # <<>> /\ Pos(q)
    BY <1>4, <2>2, TreePos DEF Under
  <2>4. Len(q) \in Nat /\ Len(q) > 0 /\ DOMAIN q = 1 .. Len(q)
    BY <2>3, PosIs, NotRoot
  <2>5. f = q[1] /\ f # Unknown
    <3>1. 1 \in DOMAIN q /\ f = q[1]
      BY <2>1, <2>2, <2>4
    <3> QED
      BY <1>3, <2>3, <3>1 DEF Range
  <2> DEFINE x == Append(<<>>, f)
  <2>6. Pos(x) /\ Front(x) = <<>> /\ Last(x) = f /\ x # <<>>
    BY <2>1, AppendPos, AppendIs
  <2>7. IsPrefix(x, q)
    BY <2>3, <2>5, FirstIsPrefix
  <2> HIDE DEF x
  <2>8. CASE x \in DOMAIN v.body
    <3>1. Seated(v.body, x)
      BY <1>3, <2>6, <2>8 DEF Formed, InOrder
    <3> QED
      BY <2>1, <2>5, <2>6, <3>1 DEF Seated
  <2>9. CASE x \notin DOMAIN v.body
    <3>1. Lives(v.body, x)
      BY <1>4, <2>3, <2>6, <2>7, <2>9, AncestorsLive
    <3>2. ~IsMessageAt(x)
      BY <2>9, <3>1 DEF Lives
    <3> QED
      BY <2>6, <3>2, KindsOfContainer
  <2> QED
    BY <2>8, <2>9
<1> QED
  BY <1>2, <1>3, <1>5

-----------------------------------------------------------------------------
(* What a write leaves as it was.                                          *)

\* e is d with something done inside the container at c.
Touches(d, e, c) ==
  /\ Formed(e) /\ Lives(e, c)
  /\ Within(d, e, c)
  /\ Agree(d, e, Append(c, Unknown))

LEMMA TouchesNothing ==
  ASSUME NEW d, Formed(d), NEW c, Lives(d, c)
  PROVE  Touches(d, d, c)
BY DEF Touches, Within, Agree

LEMMA TouchesFields ==
  ASSUME NEW d, Formed(d), NEW e, Formed(e), NEW c, Pos(c), Lives(d, c),
         NEW S, Unknown \notin S, Beside(d, e, c, S)
  PROVE  Touches(d, e, c)
<1>1. IsTree(d) /\ IsPrefix(c, c)
  BY PrefixOrder DEF Formed, InOrder
<1>2. Lives(e, c)
  BY <1>1, BesideStays
<1> QED
  BY <1>2, BesideOn, BesideUnknown DEF Touches

LEMMA TouchesElements ==
  ASSUME NEW d, Formed(d), NEW e, Formed(e), NEW c, Pos(c), Lives(d, c), ~IsMessageAt(c),
         Within(d, e, c)
  PROVE  Touches(d, e, c)
<1>1. IsTree(d) /\ IsPrefix(c, c)
  BY PrefixOrder DEF Formed, InOrder
<1>2. Lives(e, c)
  BY <1>1, WithinLives
<1>3. Append(c, Unknown) \notin DOMAIN d /\ Append(c, Unknown) \notin DOMAIN e
  BY NoUnknownIn
<1> QED
  BY <1>2, <1>3 DEF Touches, Agree

LEMMA FieldsKnown ==
  /\ Unknown \notin Field
  /\ \A f \in Field : Unknown \notin {f} \cup Siblings(f) /\ {f} \cup Siblings(f) \subseteq Field
BY SchemaAssumption DEF Siblings

-----------------------------------------------------------------------------
(* Containers, and the way to them.                                        *)

LEMMA ElementLives ==
  ASSUME NEW d, Formed(d), NEW c, Pos(c), ~IsMessageAt(c), NEW s, IsContainer(c, s),
         Has(d, Append(c, s))
  PROVE  Lives(d, Append(c, s))
<1>1. Names(c, s) /\ Append(c, s) \in DOMAIN d /\ IsOf(d[Append(c, s)], Type[Last(c)])
  BY ElementOf
<1>2. s \notin Field /\ IsMessageAt(Append(c, s))
  BY <1>1, NamesIs
<1>3. d[Append(c, s)] = Msg
  BY <1>1, <1>2 DEF IsContainer, IsOf
<1> QED
  BY <1>1, <1>2, <1>3 DEF Lives

\* A key that does not fail names a place, if anything.
LEMMA SlotIs ==
  ASSUME NEW d, Formed(d), NEW c, Pos(c), NEW k, IsKey(k), k.arm = KeyArm(c), KeyFault(k) = "ok",
         Slot(d, c, k) # NoSlot
  PROVE  /\ Names(c, Slot(d, c, k)) /\ Slot(d, c, k) # AppendSlot
         /\ IsListAt(c) => Has(d, Append(c, Slot(d, c, k)))
<1> DEFINE s == Slot(d, c, k)
<1>0. IsTree(d)
  BY DEF Formed, InOrder
<1>1. CASE IsMessageAt(c)
  <2>1. k.arm = "field" /\ ~IsListAt(c) /\ ~IsMapAt(c)
    BY <1>1, KindsOfContainer DEF KeyArm
  <2>2. s \in Field
    BY <2>1 DEF Slot
  <2> QED
    BY <1>1, <2>1, <2>2, SlotAssumption DEF Names
<1>2. CASE IsListAt(c)
  <2>1. k.arm = "index" /\ ~IsMessageAt(c) /\ ~IsMapAt(c)
    BY <1>2, KindsOfContainer DEF KeyArm
  <2>2. Length(d, c) \in Nat /\ Places(d, c) = 1 .. Length(d, c)
    BY <1>2, ListPlaces
  <2> DEFINE i == NormalizeIndex(k.index, Length(d, c))
  <2>3. i \in {Vacant} \cup 0 .. Length(d, c) - 1
    BY <2>1, <2>2, IndexResolves DEF IsKey
  <2>4. s = IF i = Vacant THEN NoSlot ELSE i + 1
    BY <2>1 DEF Slot
  <2> HIDE DEF i, s
  <2>5. s \in 1 .. Length(d, c) /\ s \in Nat \ {0}
    BY <2>2, <2>3, <2>4 DEF s
  <2>6. Has(d, Append(c, s))
    BY <1>0, <2>2, <2>5, PlaceIs
  <2>7. s # AppendSlot
    BY <2>5, SlotAssumption
  <2> QED
    BY <1>2, <2>1, <2>5, <2>6, <2>7 DEF Names, s
<1>3. CASE IsMapAt(c)
  <2>1. k.arm = "map_key" /\ ~IsMessageAt(c) /\ ~IsListAt(c)
    BY <1>3, KindsOfContainer DEF KeyArm
  <2>2. k.key \in Key
    BY <2>1 DEF KeyFault
  <2>3. s = k.key
    BY <2>1 DEF Slot
  <2> QED
    BY <1>3, <2>1, <2>2, <2>3, SlotAssumption DEF Names
<1> QED
  BY <1>1, <1>2, <1>3, KindsOfContainer

LEMMA DescendIs ==
  ASSUME NEW d, NEW c, NEW k, NEW create, DescendFault(d, c, k, create) = "ok"
  PROVE  LET s == Slot(d, c, k) IN
         /\ k.arm = KeyArm(c) /\ KeyFault(k) = "ok" /\ s # NoSlot
         /\ IsContainer(c, s)
         /\ Exists(d, c, s) \/ (create /\ ~IsListAt(c))
<1>1. k.arm = KeyArm(c) /\ KeyFault(k) = "ok"
  BY DEF DescendFault
<1>2. Reaches(d, c, k, create)
  BY <1>1 DEF DescendFault
<1> QED
  BY <1>1, <1>2 DEF Reaches

\* A path that goes on ends in a container of what it leaves behind.
LEMMA EnteredKeeps ==
  ASSUME NEW d, Formed(d), NEW c, Pos(c), Lives(d, c), NEW k, IsKey(k),
         NEW create, DescendFault(d, c, k, create) = "ok"
  PROVE  LET s == Slot(d, c, k)
             e == Entered(d, c, s)
         IN  Touches(d, e, c) /\ Lives(e, Append(c, s))
<1> DEFINE s == Slot(d, c, k)
           e == Entered(d, c, s)
<1>0. IsTree(d)
  BY DEF Formed, InOrder
<1>1. /\ k.arm = KeyArm(c) /\ KeyFault(k) = "ok" /\ s # NoSlot
      /\ IsContainer(c, s)
      /\ Exists(d, c, s) \/ (create /\ ~IsListAt(c))
  BY DescendIs
<1>2. Names(c, s) /\ (IsListAt(c) => Has(d, Append(c, s)))
  BY <1>1, SlotIs
<1> HIDE DEF s
<1>3. CASE IsMessageAt(c)
  <2>1. e = Mutable(d, c, s)
    BY <1>3, KindsOfContainer DEF Entered
  <2>2. s \in Field /\ (Card[s] # "singular" \/ Type[s] = Msg)
    BY <1>1, <1>2, <1>3 DEF Names, IsContainer
  <2>3. /\ Formed(e) /\ Beside(d, e, c, {s} \cup Siblings(s))
        /\ Lives(e, Append(c, s))
    BY <1>3, <2>1, <2>2, MutableKeeps
  <2>4. Touches(d, e, c)
    BY <2>2, <2>3, FieldsKnown, TouchesFields
  <2> QED
    BY <2>3, <2>4 DEF s
<1>4. CASE ~IsMessageAt(c) /\ Has(d, Append(c, s))
  <2>1. e = d
    BY <1>4, KindsOfContainer DEF Entered
  <2>2. Lives(d, Append(c, s))
    BY <1>1, <1>4, ElementLives
  <2> QED
    BY <2>1, <2>2, TouchesNothing DEF s
<1>5. CASE ~IsMessageAt(c) /\ ~Has(d, Append(c, s))
  <2>1. IsMapAt(c) /\ ~IsListAt(c)
    BY <1>2, <1>5, KindsOfContainer
  <2>2. e = Graft(d, Append(c, s), EmptyMessage)
    BY <1>5, <2>1 DEF Entered
  <2>3. s \in Key /\ s \notin Field /\ IsMessageAt(Append(c, s))
    BY <1>2, <1>5, <2>1, NamesIs DEF Names
  <2>4. Seat(d, c, s)
    BY <1>5, <2>1, <2>3 DEF Seat
  <2>5. TypeAt(Append(c, s)) = Msg
    BY <1>1, <2>1, <2>3, TypeOfPlace, KindsOfContainer DEF IsContainer
  <2>6. Formed(e)
    BY <2>2, <2>4, <2>5, EmptyMessageFits, GraftKeepsFormed
  <2>7. IsTree(EmptyMessage) /\ <<>> \in DOMAIN EmptyMessage /\ EmptyMessage[<<>>] = Msg
    BY EmptyMessageFits DEF Fit, InOrder, EmptyMessage
  <2>8. Beside(d, e, c, {s})
    BY <1>0, <2>2, <2>7, GraftBeside
  <2>9. Touches(d, e, c)
    BY <1>5, <2>6, <2>8, BesideOn, TouchesElements
  <2>10. Append(c, s) \in DOMAIN e /\ e[Append(c, s)] = Msg
    <3> DEFINE p == Append(c, s)
    <3>1. Pos(p) /\ p \o <<>> = p
      BY AppendPos, ConcatRoot
    <3> HIDE DEF p
    <3>2. /\ \A r : Pos(r) => (p \o r \in DOMAIN Graft(d, p, EmptyMessage) <=> r \in DOMAIN EmptyMessage)
          /\ \A r \in DOMAIN EmptyMessage : Graft(d, p, EmptyMessage)[p \o r] = EmptyMessage[r]
      BY <1>0, <2>7, <3>1, GraftIs
    <3>3. p \in DOMAIN Graft(d, p, EmptyMessage) /\ Graft(d, p, EmptyMessage)[p] = Msg
      BY <2>7, <3>1, <3>2, RootPos
    <3> QED
      BY <2>2, <3>3 DEF p
  <2>11. Lives(e, Append(c, s))
    BY <2>3, <2>10 DEF Lives
  <2> QED
    BY <2>9, <2>11 DEF s
<1> QED
  BY <1>3, <1>4, <1>5 DEF s

-----------------------------------------------------------------------------
(* The positions an operation of a kind is given.                          *)

Slotted(d, c, s, kind) ==
  /\ IsMessageAt(c) => s \in Field
  /\ IsListAt(c) => IF s = AppendSlot THEN kind \in GrowsList ELSE Has(d, Append(c, s))
  /\ IsMapAt(c) => s \in Key /\ (kind = "nest" => Has(d, Append(c, s)))

LEMMA SlottedIs ==
  ASSUME NEW d, Formed(d), NEW c, Pos(c), NEW s, NEW kind, Slotted(d, c, s, kind)
  PROVE  /\ Names(c, s) \/ (IsListAt(c) /\ s = AppendSlot)
         /\ Append(c, s) # <<>> /\ Last(Append(c, s)) = s /\ s # Unknown
         /\ TypeAt(Append(c, s)) \in FieldType
         /\ ~IsMessageAt(c) => s \notin Field /\ IsMessageAt(Append(c, s)) /\ TypeAt(Append(c, s)) = Type[Last(c)]
<1>1. Append(c, s) # <<>> /\ Last(Append(c, s)) = s
  BY AppendPos, AppendIs
<1>2. CASE IsListAt(c) /\ s = AppendSlot
  <2>1. s \notin Field /\ s # Unknown
    BY <1>2, SlotAssumption
  <2>2. ~IsMessageAt(c) /\ c # <<>> /\ Last(c) \in Field
    BY <1>2, KindsOfContainer
  <2> QED
    BY <1>1, <1>2, <2>1, <2>2, KindOfPlace, TypeOfPlace DEF FieldType
<1>3. CASE ~(IsListAt(c) /\ s = AppendSlot)
  <2>1. Names(c, s)
    <3>1. CASE IsMessageAt(c)
      BY <3>1, KindsOfContainer DEF Slotted, Names
    <3>2. CASE IsListAt(c)
      <4>1. Has(d, Append(c, s)) /\ ~IsMessageAt(c)
        BY <1>3, <3>2, KindsOfContainer DEF Slotted
      <4> QED
        BY <4>1, ElementOf
    <3>3. CASE IsMapAt(c)
      BY <3>3, KindsOfContainer DEF Slotted, Names
    <3> QED
      BY <3>1, <3>2, <3>3, KindsOfContainer
  <2>2. ~IsMessageAt(c) => c # <<>> /\ Last(c) \in Field
    BY KindsOfContainer
  <2> QED
    BY <1>1, <2>1, <2>2, NamesIs, TypeOfPlace DEF FieldType
<1> QED
  BY <1>2, <1>3

\* What a selector names, but for what is missing, are positions to act on.
LEMMA NamedIs ==
  ASSUME NEW d, Formed(d), NEW c, Pos(c), NEW sel, IsSelector(sel), SelectorFault(c, sel) = "ok",
         NEW kind, kind # "test", sel.arm = "append" => kind \in GrowsList
  PROVE  LET all == Named(d, c, sel, kind) IN
         /\ all \in Seq(Range(all))
         /\ \A j \in DOMAIN all : ~Missing(d, c, all[j], kind) => Slotted(d, c, all[j], kind)
<1> DEFINE all == Named(d, c, sel, kind)
<1>0. IsTree(d) /\ Held(d)
  BY InOrderHeld DEF Formed, InOrder
<1>1. CASE sel.arm = "key"
  <2> DEFINE s == Slot(d, c, sel.key)
  <2>1. all = <<s>> /\ sel.key.arm = KeyArm(c) /\ KeyFault(sel.key) = "ok" /\ IsKey(sel.key)
    BY <1>1 DEF Named, SelectorFault, IsSelector
  <2>2. ASSUME ~Missing(d, c, s, kind)
        PROVE  Slotted(d, c, s, kind)
    <3>1. s # NoSlot /\ (IsMapAt(c) /\ kind = "nest" => Has(d, Append(c, s)))
      BY <2>2 DEF Missing, Present, NeedsContent
    <3>2. Names(c, s) /\ s # AppendSlot /\ (IsListAt(c) => Has(d, Append(c, s)))
      BY <2>1, <3>1, SlotIs
    <3> QED
      BY <3>1, <3>2 DEF Slotted, Names
  <2> HIDE DEF s
  <2>3. <<s>> \in Seq({s}) /\ DOMAIN <<s>> = {1} /\ <<s>>[1] = s
    OBVIOUS
  <2>4. <<s>> \in Seq(Range(<<s>>))
    BY <2>3, PosIntro DEF Pos
  <2> QED
    BY <2>1, <2>2, <2>3, <2>4 DEF s
<1>2. CASE sel.arm = "range"
  <2> DEFINE r == NormalizeRange(sel, Length(d, c))
             n == r.end - r.begin
  <2>1. IsListAt(c) /\ ~IsMessageAt(c) /\ ~IsMapAt(c)
    BY <1>2, KindsOfContainer DEF SelectorFault
  <2>2. all = [j \in 1 .. n |-> r.begin + j]
    BY <1>2 DEF Named
  <2>3. Length(d, c) \in Nat /\ Places(d, c) = 1 .. Length(d, c)
    BY <2>1, ListPlaces
  <2>4. (sel.begin = <<>> \/ sel.begin[1] \in Int) /\ (sel.end = <<>> \/ sel.end[1] \in Int)
    BY <1>2 DEF IsSelector
  <2>5. r.begin \in 0 .. Length(d, c) /\ r.end \in r.begin .. Length(d, c)
    BY <2>3, <2>4, RangeResolves
  <2> HIDE DEF r
  <2>6. n \in Nat /\ \A j \in 1 .. n : r.begin + j \in 1 .. Length(d, c)
    BY <2>3, <2>5
  <2> HIDE DEF n
  <2>7. DOMAIN all = 1 .. n /\ all \in Seq(1 .. Length(d, c))
    BY <2>2, <2>6
  <2>8. \A j \in DOMAIN all : all[j] \in 1 .. Length(d, c)
    BY <2>2, <2>6, <2>7
  <2>9. ASSUME NEW s \in 1 .. Length(d, c)
        PROVE  Slotted(d, c, s, kind)
    <3>1. Has(d, Append(c, s))
      BY <1>0, <2>3, <2>9, PlaceIs
    <3>2. s # AppendSlot
      BY <2>3, <2>9, SlotAssumption
    <3> QED
      BY <2>1, <3>1, <3>2 DEF Slotted
  <2> HIDE DEF all
  <2>10. all \in Seq(Range(all))
    BY <2>7, PosIntro DEF Pos
  <2> QED
    BY <2>8, <2>9, <2>10 DEF all
<1>3. CASE sel.arm = "append"
  <2>1. IsListAt(c) /\ ~IsMessageAt(c) /\ ~IsMapAt(c)
    BY <1>3, KindsOfContainer DEF SelectorFault
  <2>2. all = <<AppendSlot>>
    BY <1>3 DEF Named
  <2>3. Slotted(d, c, AppendSlot, kind)
    BY <1>3, <2>1 DEF Slotted
  <2>4. <<AppendSlot>> \in Seq({AppendSlot}) /\ DOMAIN <<AppendSlot>> = {1} /\ <<AppendSlot>>[1] = AppendSlot
    OBVIOUS
  <2>5. <<AppendSlot>> \in Seq(Range(<<AppendSlot>>))
    BY <2>4, PosIntro DEF Pos
  <2> QED
    BY <2>2, <2>3, <2>4, <2>5
<1>4. CASE sel.arm = "every_entry"
  <2>1. IsMapAt(c) /\ ~IsMessageAt(c) /\ ~IsListAt(c)
    BY <1>4, KindsOfContainer DEF SelectorFault
  <2>2. all = SetToSeq(Places(d, c))
    BY <1>4 DEF Named
  <2>3. all \in Seq(Places(d, c))
    BY <1>0, <2>2, PlacesFinite, SetToSeqIs
  <2>4. ASSUME NEW s \in Places(d, c)
        PROVE  Slotted(d, c, s, kind)
    <3>1. Has(d, Append(c, s))
      BY <1>0, <2>4, PlaceIs
    <3>2. Names(c, s)
      BY <2>1, <3>1, ElementOf
    <3> QED
      BY <2>1, <3>1, <3>2 DEF Slotted, Names
  <2> HIDE DEF all
  <2>5. all \in Seq(Range(all))
    BY <2>3, PosIntro DEF Pos
  <2> QED
    BY <2>3, <2>4, <2>5 DEF all
<1>5. CASE sel.arm = "oneof_member"
  <2> DEFINE S == {f \in Field : OneofOf[f] = sel.name /\ Has(d, Append(c, f))}
  <2>1. IsMessageAt(c) /\ ~IsMapAt(c) /\ ~IsListAt(c)
    BY <1>5, KindsOfContainer DEF SelectorFault
  <2>2. all = <<NoSlot>> \/ all = SetToSeq(S) \/ all = <<>>
    BY <1>5 DEF Named, MemberOf
  <2>3. IsFiniteSet(S)
    <3>1. S \subseteq Places(d, c)
      BY <1>0, PlaceIs
    <3> QED
      BY <1>0, <3>1, PlacesFinite, FS_Subset
  <2>4. SetToSeq(S) \in Seq(S)
    BY <2>3, SetToSeqIs
  <2>5. all \in Seq({NoSlot} \cup Field)
    <3>1. SetToSeq(S) \in Seq({NoSlot} \cup Field)
      BY <2>4
    <3>2. <<NoSlot>> \in Seq({NoSlot} \cup Field) /\ <<>> \in Seq({NoSlot} \cup Field)
      OBVIOUS
    <3> HIDE DEF S, all
    <3> QED
      BY <2>2, <3>1, <3>2, Zenon
  <2>6. \A j \in DOMAIN all : all[j] \in {NoSlot} \cup Field
    BY <2>5
  <2>7. \A s \in {NoSlot} \cup Field : ~Missing(d, c, s, kind) => Slotted(d, c, s, kind)
    BY <2>1 DEF Missing, Slotted
  <2> HIDE DEF all
  <2>8. all \in Seq(Range(all))
    BY <2>5, PosIntro DEF Pos
  <2> QED
    BY <2>6, <2>7, <2>8 DEF all
<1> QED
  BY <1>1, <1>2, <1>3, <1>4, <1>5 DEF IsSelector

LEMMA KeptIs ==
  ASSUME NEW d, Formed(d), NEW c, Pos(c), NEW sel, IsSelector(sel), SelectorFault(c, sel) = "ok",
         NEW kind, kind # "test", sel.arm = "append" => kind \in GrowsList
  PROVE  LET some == Kept(d, c, sel, kind) IN
         some \in Seq(Range(some)) /\ \A s \in Range(some) : Slotted(d, c, s, kind)
<1> DEFINE all == Named(d, c, sel, kind)
           T == {s \in Range(all) : Slotted(d, c, s, kind)}
           parts == [j \in DOMAIN all |-> IF Missing(d, c, all[j], kind) THEN <<>> ELSE <<all[j]>>]
           some == Kept(d, c, sel, kind)
<1>1. /\ all \in Seq(Range(all))
      /\ \A j \in DOMAIN all : ~Missing(d, c, all[j], kind) => Slotted(d, c, all[j], kind)
  BY NamedIs
<1>2. some = FlattenSeq(parts)
  BY DEF Kept
<1> HIDE DEF all, some
<1>3. Len(all) \in Nat /\ DOMAIN all = 1 .. Len(all)
  BY <1>1
<1>4. \A j \in DOMAIN all : ~Missing(d, c, all[j], kind) => all[j] \in T
  BY <1>1 DEF Range
<1> HIDE DEF T
<1>5. \A j \in DOMAIN all : (IF Missing(d, c, all[j], kind) THEN <<>> ELSE <<all[j]>>) \in Seq(T)
  BY <1>4
<1>6. parts \in Seq(Seq(T))
  BY <1>3, <1>5
<1> HIDE DEF parts
<1>7. some \in Seq(T)
  BY <1>2, <1>6, FlattenIs
<1>8. some \in Seq(Range(some))
  BY <1>7, PosIntro DEF Pos
<1>9. Range(some) \subseteq T
  BY <1>7 DEF Range
<1> QED
  BY <1>8, <1>9 DEF T, some

-----------------------------------------------------------------------------
(* The writes.                                                             *)

\* Where a write at s ends up: an append goes one past the end.
Spot(d, c, s) == IF IsListAt(c) /\ s = AppendSlot THEN Length(d, c) + 1 ELSE s

Cleared(d, c, s) == {Spot(d, c, s)} \cup (IF s \in Field THEN Siblings(s) ELSE {})

LEMMA WrittenIs ==
  ASSUME NEW d, Formed(d), NEW c, Pos(c), Lives(d, c), NEW s, NEW kind, Slotted(d, c, s, kind),
         NEW v, FitsAt(v, Append(c, s))
  PROVE  LET e == Written(d, c, s, v) IN
         /\ Formed(e) /\ Beside(d, e, c, Cleared(d, c, s)) /\ Touches(d, e, c)
         /\ ~IsMessageAt(c) => Append(c, Spot(d, c, s)) \in DOMAIN e
<1> DEFINE e == Written(d, c, s, v)
           w == Spot(d, c, s)
           p == Append(c, w)
<1>0. IsTree(d) /\ IsTree(v)
  BY FitsTree DEF Formed, InOrder
<1>1. CASE IsMessageAt(c)
  <2>1. s \in Field /\ ~IsListAt(c)
    BY <1>1, KindsOfContainer DEF Slotted
  <2>2. e = SetField(d, c, s, v) /\ w = s
    BY <1>1, <2>1, SlotAssumption DEF Written, Spot
  <2>3. Formed(e) /\ Beside(d, e, c, {s} \cup Siblings(s))
    BY <1>1, <2>1, <2>2, SetFieldKeeps
  <2>4. Touches(d, e, c)
    BY <2>1, <2>3, FieldsKnown, TouchesFields
  <2> QED
    BY <1>1, <2>1, <2>2, <2>3, <2>4 DEF Cleared
<1>2. CASE ~IsMessageAt(c)
  <2>1. s \notin Field /\ IsMessageAt(Append(c, s)) /\ TypeAt(Append(c, s)) = Type[Last(c)]
    BY <1>2, SlottedIs
  <2>2. Fit(v, Type[Last(c)]) /\ <<>> \in DOMAIN v
    BY <2>1, FitsTree DEF FitsAt
  <2>3. e = Graft(d, p, v)
    <3>1. CASE IsListAt(c) /\ s = AppendSlot
      BY <1>2, <3>1 DEF Written, Spot
    <3>2. CASE s # AppendSlot
      BY <1>2, <3>2 DEF Written, Spot
    <3>3. IsMapAt(c) => s # AppendSlot
      BY SlotAssumption DEF Slotted
    <3> QED
      BY <1>2, <3>1, <3>2, <3>3, KindsOfContainer
  <2>4. Names(c, w) /\ Seat(d, c, w)
    <3>1. CASE IsListAt(c)
      <4>1. Places(d, c) = 1 .. Length(d, c) /\ Length(d, c) \in Nat
        BY <3>1, ListPlaces
      <4>2. \A i \in 1 .. Length(d, c) : Append(c, i) \in DOMAIN d
        BY <1>0, <1>2, <4>1, PlaceIs, ElementOf
      <4>3. w \in 1 .. Length(d, c) + 1
        <5>1. CASE s = AppendSlot
          BY <3>1, <4>1, <5>1 DEF Spot
        <5>2. CASE s # AppendSlot
          <6>1. s \in Places(d, c) /\ w = s
            BY <1>0, <3>1, <5>2, PlaceIs DEF Slotted, Spot
          <6> QED
            BY <4>1, <6>1
        <5> QED
          BY <5>1, <5>2
      <4>4. w \in Nat \ {0} /\ \A i \in 1 .. w - 1 : Append(c, i) \in DOMAIN d
        BY <4>1, <4>2, <4>3
      <4> QED
        BY <1>2, <3>1, <4>4, KindsOfContainer DEF Names, Seat
    <3>2. CASE IsMapAt(c)
      BY <1>2, <3>2, KindsOfContainer DEF Names, Seat, Slotted, Spot
    <3> QED
      BY <1>2, <3>1, <3>2, KindsOfContainer
  <2> HIDE DEF w
  <2>5. TypeAt(Append(c, w)) = Type[Last(c)]
    BY <1>2, <2>4, NamesIs, TypeOfPlace, KindsOfContainer
  <2>6. Formed(Graft(d, Append(c, w), v))
    BY <2>2, <2>4, <2>5, GraftKeepsFormed
  <2>7. Beside(d, Graft(d, Append(c, w), v), c, {w})
    BY <1>0, GraftBeside
  <2>8. Within(d, Graft(d, Append(c, w), v), c)
    BY <2>7, BesideOn
  <2>9. Touches(d, Graft(d, Append(c, w), v), c)
    BY <1>2, <2>6, <2>8, TouchesElements
  <2>10. p \in DOMAIN Graft(d, p, v)
    <3>1. Pos(p) /\ p \o <<>> = p
      BY AppendPos, ConcatRoot
    <3> HIDE DEF p
    <3>2. \A r : Pos(r) => (p \o r \in DOMAIN Graft(d, p, v) <=> r \in DOMAIN v)
      BY <1>0, <3>1, GraftIs
    <3> QED
      BY <2>2, <3>1, <3>2, RootPos
  <2>11. Cleared(d, c, s) = {w}
    BY <2>1 DEF Cleared, w
  <2> QED
    BY <1>2, <2>3, <2>6, <2>7, <2>9, <2>10, <2>11 DEF w
<1> QED
  BY <1>1, <1>2

\* What is still to be written stays where it is.
LEMMA WrittenLeavesSlots ==
  ASSUME NEW d, Formed(d), NEW c, Pos(c), Lives(d, c), NEW s, NEW kind, Slotted(d, c, s, kind),
         NEW v, FitsAt(v, Append(c, s)), kind # "nest", NEW t, Slotted(d, c, t, kind)
  PROVE  Slotted(Written(d, c, s, v), c, t, kind)
<1> DEFINE e == Written(d, c, s, v)
           w == Spot(d, c, s)
<1>1. /\ Formed(e) /\ Beside(d, e, c, Cleared(d, c, s))
      /\ ~IsMessageAt(c) => Append(c, w) \in DOMAIN e
  BY WrittenIs
<1> HIDE DEF e, w
<1>2. CASE IsListAt(c) /\ t # AppendSlot
  <2>1. ~IsMessageAt(c) /\ ~IsMapAt(c)
    BY <1>2, KindsOfContainer
  <2>2. Append(c, t) \in DOMAIN d /\ Pos(Append(c, t))
    BY <1>2, <2>1, ElementOf, AppendPos DEF Slotted
  <2>3. Append(c, t) \in DOMAIN e
    <3>1. s \notin Field
      BY <2>1, SlottedIs
    <3>2. Cleared(d, c, s) = {w}
      BY <3>1 DEF Cleared, w
    <3>3. CASE t = w
      BY <1>1, <2>1, <3>3
    <3>4. CASE t # w
      <4>1. \A x \in Cleared(d, c, s) : ~IsPrefix(Append(c, x), Append(c, t))
        BY <3>2, <3>4, PlacesApart
      <4> QED
        BY <1>1, <2>2, <4>1 DEF Beside, Agree
    <3> QED
      BY <3>3, <3>4
  <2>4. Has(e, Append(c, t))
    BY <2>2, <2>3, PrefixOrder DEF Has, Under
  <2> QED
    BY <1>2, <2>1, <2>4 DEF Slotted, e
<1>3. CASE ~(IsListAt(c) /\ t # AppendSlot)
  BY <1>3, KindsOfContainer DEF Slotted, e
<1> QED
  BY <1>2, <1>3

\* A list that is rebuilt.
LEMMA RebuiltKeeps ==
  ASSUME NEW d, Formed(d), NEW c, Pos(c), Lives(d, c), IsListAt(c), NEW T, NEW u \in Seq(T),
         \A x \in T : Fit(x, Type[Last(c)])
  PROVE  /\ Touches(d, PutElements(d, c, u), c)
         /\ \A i \in 1 .. Len(u) : Has(PutElements(d, c, u), Append(c, i))
<1> DEFINE e == PutElements(d, c, u)
           v == Collection(u)
<1>0. ~IsMessageAt(c) /\ ~IsMapAt(c) /\ IsTree(d)
  BY KindsOfContainer DEF Formed, InOrder
<1>1. Len(u) \in Nat /\ DOMAIN u = 1 .. Len(u) /\ \A i \in DOMAIN u : u[i] \in T
  OBVIOUS
<1>2. Group(u, c)
  <2>1. IsFiniteSet(1 .. Len(u))
    BY <1>1, FS_Interval
  <2> QED
    BY <1>0, <1>1, <2>1 DEF Group
<1>3. e = Graft(d, c, v)
  BY DEF PutElements
<1>4. Formed(e) /\ Within(d, e, c)
  BY <1>0, <1>2, <1>3, PutKeepsFormed
<1>5. Touches(d, e, c)
  BY <1>0, <1>4, TouchesElements
<1>6. ASSUME NEW i \in DOMAIN u
      PROVE  Has(e, Append(c, i))
  <2>1. \A k \in DOMAIN u : IsTree(u[k]) /\ <<>> \in DOMAIN u[k]
    BY <1>0, <1>2, GroupIs
  <2>2. IsFiniteSet(DOMAIN u)
    BY <1>2 DEF Group
  <2>3. /\ IsTree(v)
        /\ \A k, x : Pos(x) => (<<k>> \o x \in DOMAIN v <=> k \in DOMAIN u /\ x \in DOMAIN u[k])
    BY <2>1, <2>2, CollectionIs
  <2> HIDE DEF v, e
  <2>4. Pos(<<>>)
    BY RootPos
  <2> DEFINE r == <<i>> \o <<>>
  <2>5. r \in DOMAIN v /\ Pos(r)
    BY <2>1, <2>3, <2>4, AppendConcat
  <2>6. c \o r = Append(c, i) \o <<>>
    <3>1. r = <<i>> \o <<>>
      OBVIOUS
    <3> HIDE DEF r
    <3> QED
      BY <2>4, <3>1, AppendShift
  <2> HIDE DEF r
  <2>7. Pos(Append(c, i)) /\ Append(c, i) \o <<>> = Append(c, i)
    BY AppendPos, ConcatRoot
  <2>8. \A x : Pos(x) => (c \o x \in DOMAIN Graft(d, c, v) <=> x \in DOMAIN v)
    BY <1>0, <2>3, GraftIs
  <2>9. c \o r \in DOMAIN e
    BY <1>3, <2>5, <2>8 DEF v
  <2>10. Append(c, i) \in DOMAIN e
    BY <2>6, <2>7, <2>9
  <2> QED
    BY <2>7, <2>10, PrefixOrder DEF Has, Under
<1> QED
  BY <1>1, <1>5, <1>6

LEMMA ElementsIs ==
  ASSUME NEW d, Formed(d), NEW c, Pos(c), IsListAt(c)
  PROVE  \E T : /\ Elements(d, c) \in Seq(T) /\ \A x \in T : Fit(x, Type[Last(c)])
                /\ Len(Elements(d, c)) = Length(d, c) /\ Length(d, c) \in Nat
<1>1. Places(d, c) = 1 .. Length(d, c) /\ Length(d, c) \in Nat /\ IsTree(d) /\ ~IsMessageAt(c)
  BY ListPlaces, KindsOfContainer DEF Formed, InOrder
<1> DEFINE n == Length(d, c)
           T == {ValueAt(d, Append(c, i)) : i \in 1 .. n}
<1>2. \A i \in 1 .. n : Fit(ValueAt(d, Append(c, i)), Type[Last(c)])
  BY <1>1, PlaceIs, ElementOf
<1>3. Elements(d, c) = [i \in 1 .. n |-> ValueAt(d, Append(c, i))]
  BY DEF Elements
<1> HIDE DEF n
<1>4. n \in Nat
  BY <1>1 DEF n
<1>5. Elements(d, c) \in Seq(T) /\ Len(Elements(d, c)) = n
  BY <1>3, <1>4
<1> QED
  BY <1>2, <1>4, <1>5 DEF n

LEMMA RemovedKeeps ==
  ASSUME NEW d, Formed(d), NEW c, Pos(c), Lives(d, c), NEW s, s # Unknown,
         IsListAt(c) => Has(d, Append(c, s))
  PROVE  LET e == RemovedAt(d, c, s) IN
         /\ Touches(d, e, c)
         /\ IsListAt(c) => s \in Nat \ {0} /\ \A t \in Nat \ {0} : t < s => Has(e, Append(c, t))
         /\ ~IsListAt(c) => Beside(d, e, c, {s})
<1> DEFINE e == RemovedAt(d, c, s)
<1>1. CASE ~IsListAt(c)
  <2>1. e = EraseAll(d, {Append(c, x) : x \in {s}})
    BY <1>1 DEF RemovedAt, Erase
  <2>2. Formed(EraseAll(d, {Append(c, x) : x \in {s}})) /\ Beside(d, EraseAll(d, {Append(c, x) : x \in {s}}), c, {s})
    BY <1>1, EraseFields
  <2>3. Formed(e) /\ Beside(d, e, c, {s}) /\ Unknown \notin {s}
    BY <2>1, <2>2
  <2> HIDE DEF e
  <2>4. Touches(d, e, c)
    BY <2>3, TouchesFields
  <2> QED
    BY <1>1, <2>3, <2>4 DEF e
<1>2. CASE IsListAt(c)
  <2>1. e = PutElements(d, c, RemoveAt(Elements(d, c), s))
    BY <1>2 DEF RemovedAt
  <2>2. PICK T : /\ Elements(d, c) \in Seq(T) /\ \A x \in T : Fit(x, Type[Last(c)])
                 /\ Len(Elements(d, c)) = Length(d, c) /\ Length(d, c) \in Nat
    BY <1>2, ElementsIs
  <2>3. s \in 1 .. Length(d, c) /\ Places(d, c) = 1 .. Length(d, c)
    <3>1. IsTree(d) /\ s \in Places(d, c)
      BY <1>2, PlaceIs DEF Formed, InOrder
    <3> QED
      BY <1>2, <3>1, ListPlaces
  <2> DEFINE old == Elements(d, c)
             u == RemoveAt(old, s)
  <2>4. u = SubSeq(old, 1, s - 1) \o SubSeq(old, s + 1, Len(old))
    BY DEF RemoveAt
  <2>5. old \in Seq(T) /\ Len(old) = Length(d, c)
    BY <2>2
  <2> HIDE DEF old, u
  <2>6. SubSeq(old, 1, s - 1) \in Seq(T) /\ Len(SubSeq(old, 1, s - 1)) = s - 1
    BY <2>2, <2>3, <2>5
  <2>7. /\ SubSeq(old, s + 1, Len(old)) \in Seq(T)
        /\ Len(SubSeq(old, s + 1, Len(old))) = Length(d, c) - s
    BY <2>2, <2>3, <2>5
  <2> DEFINE a == SubSeq(old, 1, s - 1)
             b == SubSeq(old, s + 1, Len(old))
  <2> HIDE DEF a, b
  <2>8. u \in Seq(T) /\ Len(u) = Length(d, c) - 1
    <3>1. u = a \o b /\ a \in Seq(T) /\ b \in Seq(T) /\ Len(a) = s - 1 /\ Len(b) = Length(d, c) - s
      BY <2>4, <2>6, <2>7 DEF a, b
    <3>2. u \in Seq(T) /\ Len(u) = Len(a) + Len(b)
      BY <3>1
    <3> QED
      BY <2>2, <2>3, <3>1, <3>2
  <2>9. Touches(d, PutElements(d, c, u), c) /\ \A i \in 1 .. Len(u) : Has(PutElements(d, c, u), Append(c, i))
    BY <1>2, <2>2, <2>8, RebuiltKeeps
  <2>10. \A t \in Nat \ {0} : t < s => t \in 1 .. Len(u)
    BY <2>2, <2>3, <2>8
  <2>11. s \in Nat \ {0}
    BY <2>2, <2>3
  <2> QED
    BY <1>2, <2>1, <2>9, <2>10, <2>11 DEF u, old
<1> QED
  BY <1>1, <1>2

LEMMA SplicedKeeps ==
  ASSUME NEW d, Formed(d), NEW c, Pos(c), Lives(d, c), IsListAt(c), NEW v, Fit(v, Type[Last(c)]), NEW S
  PROVE  Touches(d, PutElements(d, c, Spliced(Elements(d, c), v, S)), c)
<1>1. PICK T : /\ Elements(d, c) \in Seq(T) /\ \A x \in T : Fit(x, Type[Last(c)])
               /\ Len(Elements(d, c)) = Length(d, c) /\ Length(d, c) \in Nat
  BY ElementsIs
<1> DEFINE old == Elements(d, c)
           U == T \cup {v}
           parts == [i \in DOMAIN old |-> IF i \in S THEN <<v, old[i]>> ELSE <<old[i]>>]
           tail == IF AppendSlot \in S THEN <<v>> ELSE <<>>
           u == Spliced(old, v, S)
<1>2. u = FlattenSeq(parts) \o tail
  BY DEF Spliced
<1>3. old \in Seq(T) /\ DOMAIN old = 1 .. Len(old) /\ Len(old) \in Nat
  BY <1>1
<1> HIDE DEF old
<1>4. \A i \in DOMAIN old : old[i] \in U /\ v \in U
  BY <1>3
<1>5. \A x \in U : <<x>> \in Seq(U) /\ <<v, x>> \in Seq(U)
  <2> v \in U
    OBVIOUS
  <2> HIDE DEF U
  <2> QED
    OBVIOUS
<1>6. tail \in Seq(U)
  <2>1. <<v>> \in Seq(U) /\ <<>> \in Seq(U)
    BY <1>5
  <2> QED
    BY <2>1, Zenon
<1>7. \A x \in U : Fit(x, Type[Last(c)])
  BY <1>1
<1> HIDE DEF U, u, tail
<1>8. parts \in Seq(Seq(U))
  BY <1>3, <1>4, <1>5
<1> HIDE DEF parts
<1>9. u \in Seq(U)
  BY <1>2, <1>6, <1>8, FlattenIs
<1>10. Touches(d, PutElements(d, c, u), c)
  BY <1>7, <1>9, RebuiltKeeps
<1> QED
  BY <1>10 DEF u, old

\* The literal a message as a whole takes is a message.
LEMMA MessageArm ==
  ASSUME NEW d, Formed(d), NEW c, Pos(c), Lives(d, c), IsMessageAt(c)
  PROVE  ArmAt(c) = Msg
<1>1. ~IsListAt(c) /\ ~IsMapAt(c)
  BY KindsOfContainer
<1>2. c # <<>> => TypeAt(c) = Msg
  <2>1. c \in DOMAIN d /\ d[c] = Msg
    BY DEF Lives
  <2>2. c # <<>> => Typed(d, c)
    BY <2>1 DEF Formed, InOrder
  <2> QED
    BY <2>1, <2>2, SchemaAssumption DEF Typed, IsOf
<1> QED
  BY <1>1, <1>2 DEF ArmAt

LEMMA CollectionArm ==
  ASSUME NEW c, ~IsMessageAt(c)
  PROVE  /\ IsListAt(c) => ArmAt(c) = "l" /\ ~IsMapAt(c)
         /\ IsMapAt(c) => ArmAt(c) = "map" /\ ~IsListAt(c)
         /\ c # <<>> /\ TypeAt(c) \in FieldType /\ TypeAt(c) = Type[Last(c)]
<1>1. Last(c) \in Field /\ c # <<>> /\ ~(IsListAt(c) /\ IsMapAt(c))
  BY KindsOfContainer
<1> QED
  BY <1>1 DEF ArmAt, TypeAt, FieldType

\* assignContainer.
LEMMA AssignedKeeps ==
  ASSUME NEW d, Formed(d), NEW c, Pos(c), Lives(d, c),
         NEW v, IsLiteral(v), LiteralFault(v, c) = "ok"
  PROVE  Touches(d, Overlay(EmptyContainer(d, c), c, Content(v)), c)
<1> DEFINE b == EmptyContainer(d, c)
           e == Overlay(b, c, Content(v))
<1>1. /\ Formed(b) /\ Within(d, b, c) /\ Lives(b, c)
      /\ IsMessageAt(c) => /\ Beside(d, b, c, Field)
                           /\ \A f \in Field : ~Has(b, Append(c, f)) /\ Append(c, f) \notin DOMAIN b
  BY EmptyKeeps
<1>2. CASE IsMessageAt(c)
  <2>1. v.arm = Msg /\ v.fault = "ok"
    BY <1>2, MessageArm, NamesOfTypes DEF LiteralFault
  <2>2. Content(v) = v.body /\ Formed(v.body) /\ Places(v.body, <<>>) \subseteq Field
    BY <2>1, BodyIs
  <2> HIDE DEF b
  <2>3. \A f \in Places(v.body, <<>>) :
          ~Has(b, Append(c, f)) /\ \A g \in Siblings(f) : Append(c, g) \notin DOMAIN b
    BY <1>1, <1>2, <2>2 DEF Siblings
  <2>4. Formed(Overlay(b, c, v.body)) /\ Beside(b, Overlay(b, c, v.body), c, Field)
    BY <1>1, <1>2, <2>2, <2>3, FillKeeps
  <2>5. Formed(e) /\ Beside(d, e, c, Field \cup Field)
    BY <1>1, <1>2, <2>2, <2>4, BesideJoin
  <2> HIDE DEF e
  <2>6. Field \cup Field = Field
    OBVIOUS
  <2>7. Touches(d, e, c)
    BY <2>5, <2>6, FieldsKnown, TouchesFields
  <2> QED
    BY <2>7 DEF e, b
<1>3. CASE ~IsMessageAt(c)
  <2>1. FitsAt(Content(v), c)
    BY <1>3, CollectionArm, LiteralFits
  <2>2. PICK u : Content(v) = Collection(u) /\ Group(u, c)
    BY <1>3, <2>1 DEF FitsAt
  <2>3. b = Erase(d, c)
    BY <1>3 DEF EmptyContainer
  <2>4. Formed(e) /\ Within(d, e, c)
    BY <1>3, <2>2, <2>3, PutKeepsFormed
  <2> HIDE DEF e
  <2>5. Touches(d, e, c)
    BY <1>3, <2>4, TouchesElements
  <2> QED
    BY <2>5 DEF e
<1> QED
  BY <1>2, <1>3

\* insertContainer.
LEMMA InsertedKeeps ==
  ASSUME Formed(draft), NEW c, Pos(c), Lives(draft, c), IsLiteral(op.value),
         ContainerInsertFaults(c) = {}
  PROVE  Touches(draft, IF IsListAt(c)
                        THEN PutElements(draft, c, Elements(draft, c) \o ListContent(op.value.items))
                        ELSE Overlay(draft, c, Content(op.value)), c)
<1> DEFINE v == op.value
<1>0. v.arm = ArmAt(c) /\ IsTree(draft) /\ Held(draft)
  BY InOrderHeld DEF ContainerInsertFaults, Formed, InOrder
<1>1. CASE IsMessageAt(c)
  <2>1. v.arm = Msg /\ ~IsListAt(c)
    BY <1>0, <1>1, MessageArm, KindsOfContainer
  <2>2. MessageInsertFaults(c, v) = {}
    BY <1>0, <2>1, NamesOfTypes DEF ContainerInsertFaults
  <2>3. v.fault = "ok" /\ \A f \in Places(v.body, <<>>) : ~Occupied(c, f)
    BY <2>2 DEF MessageInsertFaults
  <2>4. Content(v) = v.body /\ Formed(v.body) /\ Places(v.body, <<>>) \subseteq Field
    BY <2>1, <2>3, BodyIs
  <2>5. ASSUME NEW f \in Places(v.body, <<>>)
        PROVE  ~Has(draft, Append(c, f)) /\ \A g \in Siblings(f) : Append(c, g) \notin DOMAIN draft
    <3>1. f \in Field /\ ~Present(draft, c, f) /\ \A g \in Siblings(f) : ~Present(draft, c, g)
      BY <2>3, <2>4, <2>5 DEF Occupied
    <3>2. \A g \in Field : ~Present(draft, c, g) => ~Has(draft, Append(c, g))
      BY SlotAssumption DEF Present
    <3>3. \A g : Append(c, g) \in DOMAIN draft => Has(draft, Append(c, g))
      BY AppendPos, PrefixOrder DEF Has, Under
    <3> QED
      BY <3>1, <3>2, <3>3 DEF Siblings
  <2> DEFINE e == Overlay(draft, c, v.body)
  <2>6. Formed(e) /\ Beside(draft, e, c, Field)
    BY <1>1, <2>4, <2>5, FillKeeps
  <2> HIDE DEF e
  <2>7. Touches(draft, e, c)
    BY <2>6, FieldsKnown, TouchesFields
  <2> QED
    BY <2>1, <2>4, <2>7 DEF e
<1>2. CASE IsListAt(c)
  <2>1. ~IsMessageAt(c) /\ v.arm = "l"
    BY <1>0, <1>2, KindsOfContainer, CollectionArm
  <2>2. ListFault(v.items, TypeAt(c)) = "ok"
    BY <1>0, <2>1 DEF ContainerInsertFaults
  <2>3. v.items \in Seq(Range(v.items)) /\ \A i \in DOMAIN v.items : IsSingular(v.items[i])
    BY <2>1 DEF IsLiteral
  <2>4. /\ Group(ListContent(v.items), c) /\ Len(v.items) \in Nat
        /\ DOMAIN ListContent(v.items) = 1 .. Len(v.items)
    BY <1>2, <2>2, <2>3, ListFits
  <2>5. PICK T : /\ Elements(draft, c) \in Seq(T) /\ \A x \in T : Fit(x, Type[Last(c)])
    BY <1>2, ElementsIs
  <2> DEFINE old == Elements(draft, c)
             new == ListContent(v.items)
             U == T \cup Range(new)
  <2>6. \A x \in Range(new) : Fit(x, Type[Last(c)])
    BY <2>4 DEF Group, Range
  <2>7. new \in Seq(Range(new))
    BY <2>4 DEF ListContent, Range
  <2> HIDE DEF old, new
  <2>8. old \in Seq(U) /\ new \in Seq(U)
    BY <2>5, <2>7 DEF old
  <2>9. \A x \in U : Fit(x, Type[Last(c)])
    BY <2>5, <2>6
  <2> HIDE DEF U
  <2>10. old \o new \in Seq(U)
    BY <2>8
  <2>11. Touches(draft, PutElements(draft, c, old \o new), c)
    BY <1>2, <2>9, <2>10, RebuiltKeeps
  <2> QED
    BY <1>2, <2>11 DEF old, new
<1>3. CASE IsMapAt(c)
  <2>1. ~IsMessageAt(c) /\ v.arm = "map" /\ ~IsListAt(c) /\ TypeAt(c) = Type[Last(c)]
    BY <1>0, <1>3, KindsOfContainer, CollectionArm
  <2>2. MapInsertFault(c, v.entries) = "ok"
    BY <1>0, <2>1 DEF ContainerInsertFaults
  <2>3. v.entries \in Seq(Range(v.entries)) /\ \A i \in DOMAIN v.entries : IsSingular(v.entries[i].value)
    BY <2>1 DEF IsLiteral
  <2> DEFINE entries == v.entries
             code(i) ==
               CASE entries[i].key \notin Key -> "IllegalArm"
                 [] Has(draft, Append(c, entries[i].key)) \/ Repeated(entries, i) -> "Occupied"
                 [] OTHER -> SingularFault(entries[i].value, TypeAt(c))
             codes == [i \in DOMAIN entries |-> code(i)]
  <2>4. FirstFault(codes) = "ok"
    BY <2>2 DEF MapInsertFault
  <2>5. DOMAIN codes \subseteq Nat
    BY <2>3
  <2>6. \A i \in DOMAIN entries : code(i) = "ok"
    BY <2>4, <2>5, FirstFaultOk
  <2>7. \A i \in DOMAIN entries :
          /\ entries[i].key \in Key /\ ~Has(draft, Append(c, entries[i].key))
          /\ SingularFault(entries[i].value, TypeAt(c)) = "ok"
    BY <2>6
  <2> HIDE DEF code, codes, entries
  <2>8. Group(MapContent(v.entries), c)
    BY <1>3, <2>3, <2>7, EntriesFit DEF entries
  <2>9. DOMAIN MapContent(v.entries) = {v.entries[i].key : i \in DOMAIN v.entries}
    BY DEF MapContent
  <2>10. \A g : Append(c, g) \in DOMAIN draft => Has(draft, Append(c, g))
    BY AppendPos, PrefixOrder DEF Has, Under
  <2>11. \A k \in DOMAIN MapContent(v.entries) : Append(c, k) \notin DOMAIN draft
    BY <2>7, <2>9, <2>10 DEF entries
  <2> DEFINE w == Collection(MapContent(v.entries))
             e == Overlay(draft, c, w)
  <2>12. Content(v) = w
    BY <2>1 DEF Content
  <2>13. Formed(e)
    BY <2>1, <2>8, <2>11, CollectionKeepsFormed
  <2>14. IsTree(w) /\ <<>> \notin DOMAIN w
    BY <2>1, <2>8, CollectionTree
  <2> HIDE DEF w
  <2>15. Within(draft, e, c)
    BY <1>0, <2>14, OverlayWithin
  <2> HIDE DEF e
  <2>16. Touches(draft, e, c)
    BY <2>1, <2>13, <2>15, TouchesElements
  <2> QED
    BY <2>1, <2>12, <2>16 DEF e
<1> QED
  BY <1>1, <1>2, <1>3, KindsOfContainer

-----------------------------------------------------------------------------
(* The invariant: the draft, and what each frame holds on to.              *)

Falling(locs) == \A i, j \in DOMAIN locs : i < j => locs[i] > locs[j]

Listed(d, c, locs, kind) ==
  locs \in Seq(Range(locs)) /\ \A s \in Range(locs) : Slotted(d, c, s, kind)

\* Where a frame has its positions, and still needs them.
Working == {"targets", "remove", "insert", "assign", "nest", "from", "relocate"}

\* What a source holds is a value of its type, and it is where it was found as
\* long as it is attached.
SourceOK(d, base, src) ==
  /\ IsPrefix(base, src.c) /\ Names(src.c, src.s)
  /\ FitsAt(src.held, Append(src.c, src.s))
  /\ src.attached => Lives(d, src.c) /\ (IsListAt(src.c) => Has(d, Append(src.c, src.s)))

FrameOK(d, fr) ==
  /\ Lives(d, fr.base) /\ IsPrefix(fr.base, fr.c) /\ fr.n \in Nat \ {0}
  /\ fr.pc # "done" => Lives(d, fr.c)
  /\ fr.pc = "path" => fr.locs = <<>>
  /\ fr.pc = "targets" => fr.entries[fr.i].scope # "container"
  /\ fr.pc \in Working /\ fr.entries[fr.i].op.kind # "test" =>
       Listed(d, fr.c, fr.locs, fr.entries[fr.i].op.kind)
  /\ fr.pc = "remove" /\ IsListAt(fr.c) => Falling(fr.locs)
  /\ fr.pc = "from" => Lives(d, fr.src.c) /\ IsPrefix(fr.base, fr.src.c)
  /\ fr.pc = "relocate" => SourceOK(d, fr.base, fr.src)

\* The frame lo waits for a delta relative to b, which lies in its own base; and
\* strictly inside the container whose targets lo nests in.
Beneath(lo, b) ==
  /\ IsPrefix(lo.base, b)
  /\ lo.pc = "nest" => IsPrefix(lo.c, b) /\ lo.c # b

FramesOK ==
  /\ \A j \in 1 .. Len(stack) : FrameOK(draft, stack[j])
  /\ \A j \in 1 .. Len(stack) : j > 1 => stack[j].pc \in {"nest", "done"}
  /\ \A i, j \in 1 .. Len(stack) : i < j => Beneath(stack[j], stack[i].base)

DraftInv ==
  /\ Formed(target)
  /\ draft # NoDoc => Formed(draft)
  /\ returned # NoDoc => Formed(returned)
  /\ outcome = "running" => Formed(draft) /\ FramesOK

IInv == Inv /\ DraftInv

\* The frames of the next state, each taken by itself.
LEMMA FramesNext ==
  ASSUME \A j \in 1 .. Len(stack') : FrameOK(draft', stack'[j]),
         \A j \in 1 .. Len(stack') : j > 1 => stack'[j].pc \in {"nest", "done"},
         \A i, j \in 1 .. Len(stack') : i < j => Beneath(stack'[j], stack'[i].base)
  PROVE  FramesOK'
BY DEF FramesOK

\* What any one step does to the draft.
Effect ==
  /\ Formed(draft')
  /\ Within(draft, draft', top.base)
  /\ ~Clearing(top.c) => Agree(draft, draft', Append(top.c, Unknown))

LEMMA LivesAbove ==
  ASSUME NEW d, Formed(d), NEW c, Pos(c), Lives(d, c), NEW p, Pos(p), IsPrefix(p, c), IsMessageAt(p)
  PROVE  p \in DOMAIN d
<1>1. Held(d)
  BY InOrderHeld DEF Formed
<1>2. CASE IsMessageAt(c)
  <2>1. c \in DOMAIN d
    BY <1>2 DEF Lives
  <2>2. CASE p = c
    BY <2>1, <2>2
  <2>3. CASE p # c
    <3>1. Lives(d, p)
      BY <1>1, <2>1, <2>3, AncestorsLive
    <3> QED
      BY <3>1 DEF Lives
  <2> QED
    BY <2>2, <2>3
<1>3. CASE ~IsMessageAt(c)
  <2>1. Front(c) \in DOMAIN d /\ c # <<>>
    BY <1>3, KindsOfContainer DEF Lives
  <2>2. Pos(Front(c)) /\ Append(Front(c), Last(c)) = c
    BY <2>1, FrontIs
  <2>3. p # c
    BY <1>3
  <2>4. IsPrefix(p, Front(c))
    BY <2>2, <2>3, BelowAppend
  <2>5. CASE p = Front(c)
    BY <2>1, <2>5
  <2>6. CASE p # Front(c)
    <3>1. Lives(d, p)
      BY <1>1, <2>1, <2>4, <2>6, AncestorsLive
    <3> QED
      BY <3>1 DEF Lives
  <2> QED
    BY <2>5, <2>6
<1> QED
  BY <1>2, <1>3

\* An element is where it was as long as it agrees.
LEMMA ElementStays ==
  ASSUME NEW d, Formed(d), NEW e, Formed(e), NEW c, Pos(c), ~IsMessageAt(c), NEW s,
         Has(d, Append(c, s)), Agree(d, e, Append(c, s))
  PROVE  Has(e, Append(c, s))
<1>1. Append(c, s) \in DOMAIN d /\ Pos(Append(c, s))
  BY ElementOf, AppendPos
<1>2. Append(c, s) \in DOMAIN e
  BY <1>1 DEF Agree
<1> QED
  BY <1>1, <1>2, PrefixOrder DEF Has, Under

\* A frame that waits for a nested delta waits for one that keeps to what it is
\* relative to.
LEMMA LowerKept ==
  ASSUME NEW d, Formed(d), NEW e, Formed(e), NEW lo, IsFrame(lo), FrameOK(d, lo),
         lo.pc \in {"nest", "done"}, Doing(lo.pc, lo.entries[lo.i].op.kind),
         NEW b, Pos(b), Beneath(lo, b), Within(d, e, b)
  PROVE  FrameOK(e, lo)
<1>0. IsTree(d) /\ Pos(lo.base) /\ Pos(lo.c)
  BY DEF Formed, InOrder, IsFrame
<1>1. Lives(e, lo.base)
  <2>1. Lives(d, lo.base) /\ IsPrefix(lo.base, b)
    BY DEF FrameOK, Beneath
  <2> QED
    BY <1>0, <2>1, WithinLives
<1>2. CASE lo.pc = "done"
  BY <1>1, <1>2 DEF FrameOK, Working
<1>3. CASE lo.pc = "nest"
  <2>1. Lives(d, lo.c) /\ IsPrefix(lo.c, b) /\ lo.c # b
    BY <1>3 DEF FrameOK, Beneath
  <2>2. Lives(e, lo.c)
    BY <1>0, <2>1, WithinLives
  <2>3. lo.entries[lo.i].op.kind = "nest"
    BY <1>3 DEF Doing, OpKind
  <2>4. Listed(d, lo.c, lo.locs, "nest")
    BY <1>3, <2>3 DEF FrameOK, Working
  <2>5. ASSUME NEW s, Slotted(d, lo.c, s, "nest")
        PROVE  Slotted(e, lo.c, s, "nest")
    <3>1. ASSUME ~IsMessageAt(lo.c), Has(d, Append(lo.c, s))
          PROVE  Has(e, Append(lo.c, s))
      <4>1. Pos(Append(lo.c, s))
        BY <1>0, AppendPos
      <4>2. IsPrefix(b, Append(lo.c, s)) => Append(lo.c, s) = b
        <5>1. IsPrefix(b, lo.c) => b = lo.c
          BY <1>0, <2>1, PrefixOrder
        <5> QED
          BY <1>0, <2>1, <5>1, BelowAppend
      <4>3. Agree(d, e, Append(lo.c, s))
        BY <4>1, <4>2 DEF Within
      <4> QED
        BY <1>0, <3>1, <4>3, ElementStays
    <3> QED
      BY <2>5, <3>1, KindsOfContainer DEF Slotted
  <2>6. Listed(e, lo.c, lo.locs, "nest")
    BY <2>4, <2>5 DEF Listed
  <2> QED
    BY <1>1, <1>3, <2>2, <2>3, <2>6 DEF FrameOK
<1> QED
  BY <1>2, <1>3

-----------------------------------------------------------------------------
(* The stack.                                                              *)

LEMMA TopOK ==
  ASSUME IInv, outcome = "running"
  PROVE  /\ Formed(draft) /\ FramesOK /\ FrameOK(draft, top)
         /\ IsFrame(top) /\ Pos(top.c) /\ Pos(top.base) /\ Pos(top.src.c)
         /\ Doing(top.pc, op.kind) /\ IsPrefix(top.base, top.c)
<1>1. 1 \in 1 .. Len(stack) /\ top = stack[1]
  BY StackFacts DEF IInv
<1>2. IsFrame(top) /\ Pos(top.c) /\ Pos(top.base) /\ Pos(top.src.c)
  BY RunningFacts DEF IInv, Inv
<1>3. Doing(top.pc, op.kind)
  BY TopAtLayer DEF IInv, AtLayer, op, E
<1>4. Formed(draft) /\ FramesOK
  BY DEF IInv, DraftInv
<1>5. FrameOK(draft, top)
  BY <1>1, <1>4 DEF FramesOK
<1> QED
  BY <1>2, <1>3, <1>4, <1>5 DEF FrameOK

\* The entry the engine is at is one that ValidateWith has passed.
LEMMA TopIsEntry ==
  ASSUME IInv, outcome = "running"
  PROVE  IsEntry(E) /\ EntryFault(E) = "ok" /\ IsOperation(op)
<1> DEFINE n == Len(stack) - 1
<1>1. n \in 0 .. NestDepth /\ E \in Layers(patch.delta)[n]
  BY TopAtLayer, EntryInLayer DEF IInv, AtLayer, E
<1>2. DocumentFaults(patch) = {} /\ patch \in Patches
  BY DEF IInv, Inv, LayerInv
<1>3. E \in EntriesOf(patch.delta) /\ EntryFault(E) = "ok"
  BY <1>1, <1>2, LayerInEntries, ValidDocument
<1>4. IsEntry(E)
  BY <1>2, <1>3, PatchesAssumption DEF IsDocument
<1> QED
  BY <1>3, <1>4 DEF op, IsEntry

\* Frames further down stay good.
LEMMA LowerFrames ==
  ASSUME IInv, outcome = "running", NEW e, Formed(e), Within(draft, e, top.base),
         NEW j \in 1 .. Len(stack), j > 1
  PROVE  FrameOK(e, stack[j]) /\ Beneath(stack[j], top.base)
<1>1. Formed(draft) /\ FramesOK /\ Pos(top.base)
  BY TopOK
<1>2. 1 \in 1 .. Len(stack) /\ top = stack[1]
  BY StackFacts DEF IInv
<1>3. /\ FrameOK(draft, stack[j]) /\ stack[j].pc \in {"nest", "done"}
      /\ Beneath(stack[j], top.base)
  BY <1>1, <1>2 DEF FramesOK
<1>4. IsFrame(stack[j])
  BY StackFacts, LenProperties DEF IInv, Inv, CallInv, Range
<1>5. Doing(stack[j].pc, stack[j].entries[stack[j].i].op.kind)
  BY DEF IInv, Inv, LayerInv, AtLayer
<1>6. FrameOK(e, stack[j])
  BY <1>1, <1>3, <1>4, <1>5, LowerKept
<1> QED
  BY <1>3, <1>6

LEMMA ContinueKeepsDraft ==
  ASSUME IInv, outcome = "running", NEW fr, fr.base = top.base, FrameOK(draft', fr),
         Continue(fr), UNCHANGED <<target, outcome, returned>>,
         Formed(draft'), Within(draft, draft', top.base)
  PROVE  DraftInv'
<1> DEFINE G == {fr} \cup Range(stack)
<1>1. <<fr>> \in Seq(G) /\ Tail(stack) \in Seq(G)
  BY StackFacts, SeqMonotonic DEF IInv
<1> HIDE DEF G
<1>2. /\ Len(stack') = Len(stack)
      /\ \A j \in 1 .. Len(stack) : stack'[j] = IF j = 1 THEN fr ELSE Tail(stack)[j - 1]
  BY <1>1, StackFacts, ConcatProperties DEF Continue, IInv
<1>3. \A j \in 1 .. Len(stack) : stack'[j] = IF j = 1 THEN fr ELSE stack[j]
  BY <1>2, StackFacts DEF IInv
<1>4. Len(stack) \in Nat \ {0} /\ top = stack[1] /\ FramesOK
  BY StackFacts, TopOK DEF IInv
<1>5. \A j \in 1 .. Len(stack) : FrameOK(draft', stack'[j])
  BY <1>3, LowerFrames
<1>6. \A j \in 1 .. Len(stack) : j > 1 => stack'[j].pc \in {"nest", "done"}
  BY <1>3, <1>4 DEF FramesOK
<1>7. ASSUME NEW i \in 1 .. Len(stack), NEW j \in 1 .. Len(stack), i < j
      PROVE  Beneath(stack'[j], stack'[i].base)
  <2>1. j > 1 /\ stack'[j] = stack[j] /\ stack'[i].base = stack[i].base
    BY <1>3, <1>4, <1>7
  <2> QED
    BY <1>4, <1>7, <2>1 DEF FramesOK
<1>8. FramesOK'
  BY <1>2, <1>5, <1>6, <1>7, FramesNext
<1> QED
  BY <1>8 DEF DraftInv, IInv

LEMMA PushKeepsDraft ==
  ASSUME IInv, outcome = "running", NEW fr, NEW gr,
         FrameOK(draft', fr), FrameOK(draft', gr), gr.pc \in {"nest", "done"},
         gr.base = top.base, Beneath(gr, fr.base), Pos(fr.base), IsPrefix(top.base, fr.base),
         stack' = <<fr, gr>> \o Tail(stack), UNCHANGED <<target, outcome, returned>>,
         Formed(draft'), Within(draft, draft', top.base)
  PROVE  DraftInv'
<1> DEFINE G == {fr, gr} \cup Range(stack)
<1>1. <<fr, gr>> \in Seq(G) /\ Tail(stack) \in Seq(G)
  BY StackFacts, SeqMonotonic DEF IInv
<1> HIDE DEF G
<1>2. /\ Len(stack') = Len(stack) + 1
      /\ \A j \in 1 .. Len(stack) + 1 :
           stack'[j] = IF j <= 2 THEN <<fr, gr>>[j] ELSE Tail(stack)[j - 2]
  BY <1>1, StackFacts, ConcatProperties DEF IInv
<1>3. Len(stack) \in Nat \ {0} /\ top = stack[1] /\ FramesOK
  BY StackFacts, TopOK DEF IInv
<1>4. stack'[1] = fr /\ stack'[2] = gr
  BY <1>2, <1>3
<1>5. ASSUME NEW j \in 1 .. Len(stack) + 1, j > 2
      PROVE  j - 1 \in 1 .. Len(stack) /\ j - 1 > 1 /\ stack'[j] = stack[j - 1]
  BY <1>2, <1>3, <1>5, StackFacts DEF IInv
<1>6. ASSUME NEW j \in 1 .. Len(stack) + 1, j > 2
      PROVE  /\ FrameOK(draft', stack'[j]) /\ stack'[j].pc \in {"nest", "done"}
             /\ Beneath(stack'[j], top.base)
  <2>1. j - 1 \in 1 .. Len(stack) /\ j - 1 > 1 /\ stack'[j] = stack[j - 1]
    BY <1>5, <1>6
  <2>2. FrameOK(draft', stack[j - 1]) /\ Beneath(stack[j - 1], top.base)
    BY <2>1, LowerFrames
  <2> QED
    BY <1>3, <2>1, <2>2 DEF FramesOK
<1>7. ASSUME NEW j \in 1 .. Len(stack) + 1
      PROVE  FrameOK(draft', stack'[j]) /\ (j > 1 => stack'[j].pc \in {"nest", "done"})
  <2>1. CASE j > 2
    BY <1>6, <2>1
  <2>2. CASE ~(j > 2)
    <3>1. j = 1 \/ j = 2
      BY <1>3, <2>2
    <3> QED
      BY <1>4, <3>1
  <2> QED
    BY <2>1, <2>2
<1>8. \A j \in 1 .. Len(stack) + 1 : j > 1 => stack'[j].pc \in {"nest", "done"}
  BY <1>7
<1>9. ASSUME NEW i \in 1 .. Len(stack) + 1, NEW j \in 1 .. Len(stack) + 1, i < j
      PROVE  Beneath(stack'[j], stack'[i].base)
  <2>1. CASE j = 2
    BY <1>3, <1>4, <1>9, <2>1
  <2>2. CASE j > 2 /\ i > 2
    <3>1. /\ stack'[j] = stack[j - 1] /\ j - 1 \in 1 .. Len(stack)
          /\ stack'[i] = stack[i - 1] /\ i - 1 \in 1 .. Len(stack) /\ i - 1 < j - 1
      BY <1>5, <1>9, <2>2
    <3> QED
      BY <1>3, <3>1 DEF FramesOK
  <2>3. CASE j > 2 /\ i = 2
    BY <1>4, <1>6, <2>3
  <2>4. CASE j > 2 /\ i = 1
    <3>1. j - 1 \in 1 .. Len(stack) /\ stack'[j] = stack[j - 1]
      BY <1>5, <2>4
    <3>2. IsFrame(stack[j - 1]) /\ Pos(top.base)
      BY <3>1, StackFacts, LenProperties, TopOK DEF IInv, Inv, CallInv, Range
    <3> DEFINE lo == stack'[j]
    <3>3. Pos(lo.base) /\ Pos(lo.c) /\ Beneath(lo, top.base)
      BY <1>6, <2>4, <3>1, <3>2 DEF IsFrame
    <3> HIDE DEF lo
    <3>4. IsPrefix(lo.base, fr.base)
      BY <3>2, <3>3, PrefixOrder DEF Beneath
    <3>5. ASSUME lo.pc = "nest"
          PROVE  IsPrefix(lo.c, fr.base) /\ lo.c # fr.base
      <4>1. IsPrefix(lo.c, top.base) /\ lo.c # top.base
        BY <3>3, <3>5 DEF Beneath
      <4>2. IsPrefix(lo.c, fr.base)
        BY <3>2, <3>3, <4>1, PrefixOrder
      <4>3. lo.c = fr.base => IsPrefix(top.base, lo.c)
        OBVIOUS
      <4>4. IsPrefix(top.base, lo.c) => lo.c = top.base
        BY <3>2, <3>3, <4>1, PrefixOrder
      <4> QED
        BY <4>1, <4>2, <4>3, <4>4
    <3> QED
      BY <1>4, <2>4, <3>4, <3>5 DEF Beneath, lo
  <2> QED
    BY <1>3, <1>9, <2>1, <2>2, <2>3, <2>4
<1>10. FramesOK'
  BY <1>2, <1>7, <1>8, <1>9, FramesNext
<1> QED
  BY <1>10 DEF DraftInv, IInv

LEMMA OverKeepsDraft ==
  ASSUME IInv, outcome' # "running", UNCHANGED <<target, draft>>,
         returned' = returned \/ (returned' = draft)
  PROVE  DraftInv'
BY DEF IInv, DraftInv

LEMMA FailKeepsDraft ==
  ASSUME IInv, NEW code, Fail(code)
  PROVE  DraftInv' /\ outcome' # "running"
BY OverKeepsDraft DEF Fail

LEMMA ReadEffect ==
  ASSUME IInv, outcome = "running", UNCHANGED draft
  PROVE  Effect
<1>1. Formed(draft) /\ Formed(draft')
  BY TopOK
<1> QED
  BY <1>1 DEF Effect, Within, Agree

LEMMA TouchEffect ==
  ASSUME IInv, outcome = "running", Touches(draft, draft', top.c)
  PROVE  Effect
<1>1. Pos(top.c) /\ Pos(top.base) /\ IsPrefix(top.base, top.c)
  BY TopOK
<1>2. Within(draft, draft', top.base)
  BY <1>1, WithinOn DEF Touches
<1> QED
  BY <1>2 DEF Touches, Effect

\* A step that only moves on, and one that writes in the container it is at.
LEMMA ReadStep ==
  ASSUME IInv, outcome = "running", Reading, NEW fr, fr.base = top.base, FrameOK(draft, fr), Continue(fr)
  PROVE  DraftInv' /\ Effect
<1>1. UNCHANGED <<target, outcome, returned, draft>>
  BY DEF Reading, Writing
<1>2. Effect
  BY <1>1, ReadEffect
<1> QED
  BY <1>1, <1>2, ContinueKeepsDraft DEF Effect

LEMMA WriteStep ==
  ASSUME IInv, outcome = "running", Writing, Touches(draft, draft', top.c),
         NEW fr, fr.base = top.base, FrameOK(draft', fr), Continue(fr)
  PROVE  DraftInv' /\ Effect
<1>1. UNCHANGED <<target, outcome, returned>>
  BY DEF Writing
<1>2. Effect
  BY TouchEffect
<1> QED
  BY <1>1, <1>2, ContinueKeepsDraft DEF Effect

-----------------------------------------------------------------------------
(* Frames that go on.                                                      *)

LEMMA TailIs ==
  ASSUME NEW locs, locs \in Seq(Range(locs)), locs # <<>>
  PROVE  /\ Head(locs) \in Range(locs) /\ Head(locs) = locs[1]
         /\ Tail(locs) \in Seq(Range(Tail(locs))) /\ Range(Tail(locs)) \subseteq Range(locs)
         /\ DOMAIN locs = 1 .. Len(locs) /\ Len(locs) \in Nat \ {0}
         /\ DOMAIN Tail(locs) = 1 .. Len(locs) - 1
         /\ \A i \in 1 .. Len(locs) - 1 : Tail(locs)[i] = locs[i + 1]
<1>1. /\ DOMAIN locs = 1 .. Len(locs) /\ Len(locs) \in Nat \ {0}
      /\ Tail(locs) \in Seq(Range(locs)) /\ Len(Tail(locs)) = Len(locs) - 1
      /\ \A i \in 1 .. Len(locs) - 1 : Tail(locs)[i] = locs[i + 1]
      /\ Head(locs) = locs[1]
  BY EmptySeq, HeadTailProperties, LenProperties
<1>2. DOMAIN Tail(locs) = 1 .. Len(locs) - 1
  BY <1>1
<1>3. Head(locs) \in Range(locs)
  BY <1>1 DEF Range
<1>4. Range(Tail(locs)) \subseteq Range(locs)
  BY <1>1, <1>2 DEF Range
<1>5. Tail(locs) \in Seq(Range(Tail(locs)))
  BY <1>1, PosIntro DEF Pos
<1> QED
  BY <1>1, <1>2, <1>3, <1>4, <1>5

LEMMA ListedTail ==
  ASSUME NEW d, NEW e, NEW c, NEW locs, NEW kind, Listed(d, c, locs, kind), locs # <<>>,
         \A s \in Range(Tail(locs)) : Slotted(d, c, s, kind) => Slotted(e, c, s, kind)
  PROVE  Listed(e, c, Tail(locs), kind) /\ Slotted(d, c, Head(locs), kind)
BY TailIs DEF Listed

LEMMA ListedNone ==
  ASSUME NEW d, NEW c, NEW locs, locs = <<>>, NEW kind
  PROVE  Listed(d, c, locs, kind) /\ Falling(locs)
<1>1. DOMAIN locs = {} /\ locs \in Seq(Range(locs))
  BY RootPos DEF Pos
<1> QED
  BY <1>1 DEF Listed, Falling, Range

LEMMA BaseLives ==
  ASSUME IInv, outcome = "running", NEW e, Touches(draft, e, top.c)
  PROVE  Lives(e, top.base)
<1>1. /\ Pos(top.c) /\ Pos(top.base) /\ IsPrefix(top.base, top.c)
      /\ Lives(draft, top.base) /\ IsTree(draft)
  BY TopOK DEF FrameOK, Formed, InOrder
<1> QED
  BY <1>1, WithinLives DEF Touches

LEMMA DoneFrame ==
  ASSUME IInv, outcome = "running", NEW e, Lives(e, top.base), NEW fr, fr = [top EXCEPT !.pc = "done"]
  PROVE  fr.base = top.base /\ fr.pc = "done" /\ FrameOK(e, fr)
<1>1. FrameOK(draft, top) /\ IsFrame(top)
  BY TopOK
<1>2. fr.base = top.base /\ fr.c = top.c /\ fr.n = top.n /\ fr.pc = "done"
  BY <1>1 DEF IsFrame
<1> QED
  BY <1>1, <1>2 DEF FrameOK, Working

LEMMA FinishRead ==
  ASSUME IInv, outcome = "running", GoTo("done"), Reading
  PROVE  DraftInv' /\ Effect
<1> DEFINE fr == [top EXCEPT !.pc = "done"]
<1>1. Lives(draft, top.base)
  BY TopOK DEF FrameOK
<1>2. fr.base = top.base /\ FrameOK(draft, fr)
  BY <1>1, DoneFrame
<1>3. Continue(fr)
  BY DEF GoTo
<1> HIDE DEF fr
<1> QED
  BY <1>2, <1>3, ReadStep

LEMMA FinishWrite ==
  ASSUME IInv, outcome = "running", GoTo("done"), Writing, Touches(draft, draft', top.c)
  PROVE  DraftInv' /\ Effect
<1> DEFINE fr == [top EXCEPT !.pc = "done"]
<1>1. Lives(draft', top.base)
  BY BaseLives
<1>2. fr.base = top.base /\ FrameOK(draft', fr)
  BY <1>1, DoneFrame
<1>3. Continue(fr)
  BY DEF GoTo
<1> HIDE DEF fr
<1> QED
  BY <1>2, <1>3, WriteStep

-----------------------------------------------------------------------------
(* The actions.                                                            *)

LEMMA DescendKeepsDraft ==
  ASSUME IInv, Descend
  PROVE  DraftInv' /\ Effect
<1> DEFINE key == E.path[top.n]
           s == Slot(draft, top.c, key)
           q == Append(top.c, s)
           m == top.n + 1
           fr == [top EXCEPT !.c = q, !.n = m]
<1>1. /\ outcome = "running" /\ top.pc = "path" /\ top.n <= Len(E.path)
      /\ DescendFault(draft, top.c, key, E.create) = "ok"
      /\ draft' = Entered(draft, top.c, s) /\ Continue(fr) /\ Writing
  BY DEF Descend, At
<1>2. /\ Formed(draft) /\ FrameOK(draft, top) /\ IsFrame(top)
      /\ Pos(top.c) /\ Pos(top.base) /\ IsPrefix(top.base, top.c)
  BY <1>1, TopOK
<1>3. Lives(draft, top.c) /\ top.n \in Nat \ {0} /\ top.locs = <<>>
  BY <1>1, <1>2 DEF FrameOK
<1>4. IsKey(key)
  <2>1. IsPath(E.path)
    BY <1>1, TopIsEntry DEF IsEntry
  <2>2. Len(E.path) \in Nat /\ DOMAIN E.path = 1 .. Len(E.path)
    BY <2>1 DEF IsPath
  <2>3. top.n \in DOMAIN E.path
    BY <1>1, <1>3, <2>2
  <2> QED
    BY <2>1, <2>3 DEF IsPath, Range
<1>5. Touches(draft, draft', top.c) /\ Lives(draft', q)
  BY <1>1, <1>2, <1>3, <1>4, EnteredKeeps
<1>6. Lives(draft', top.base)
  BY <1>1, <1>5, BaseLives
<1>7. IsPrefix(top.base, q) /\ m \in Nat \ {0}
  BY <1>2, <1>3, BelowAppend
<1> HIDE DEF q, m, s, key
<1>8. fr.base = top.base /\ fr.c = q /\ fr.n = m /\ fr.pc = "path" /\ fr.locs = <<>>
  BY <1>1, <1>2, <1>3 DEF IsFrame
<1> HIDE DEF fr
<1>9. FrameOK(draft', fr)
  BY <1>5, <1>6, <1>7, <1>8 DEF FrameOK, Working
<1> QED
  BY <1>1, <1>5, <1>8, <1>9, WriteStep

LEMMA ArriveKeepsDraft ==
  ASSUME IInv, Arrive
  PROVE  DraftInv' /\ Effect
<1> DEFINE pc == IF E.scope = "container" THEN "container" ELSE "targets"
           fr == [top EXCEPT !.pc = pc, !.n = 1]
<1>1. outcome = "running" /\ top.pc = "path" /\ Continue(fr) /\ Reading
  BY DEF Arrive, At
<1>2. FrameOK(draft, top) /\ IsFrame(top)
  BY <1>1, TopOK
<1>3. Lives(draft, top.c) /\ Lives(draft, top.base) /\ IsPrefix(top.base, top.c) /\ top.locs = <<>>
  BY <1>1, <1>2 DEF FrameOK
<1>4. pc \in {"container", "targets"} /\ (pc = "targets" => E.scope # "container")
  OBVIOUS
<1> HIDE DEF pc
<1>5. /\ fr.base = top.base /\ fr.c = top.c /\ fr.n = 1 /\ fr.pc = pc /\ fr.locs = <<>>
      /\ fr.entries = top.entries /\ fr.i = top.i
  BY <1>2, <1>3 DEF IsFrame
<1> HIDE DEF fr
<1>6. FrameOK(draft, fr)
  BY <1>3, <1>4, <1>5, ListedNone DEF FrameOK, Working, E
<1> QED
  BY <1>1, <1>5, <1>6, ReadStep

LEMMA ListedJoin ==
  ASSUME NEW d, NEW c, NEW kind, NEW a, Listed(d, c, a, kind), NEW b, Listed(d, c, b, kind)
  PROVE  Listed(d, c, a \o b, kind)
<1> DEFINE G == Range(a) \cup Range(b)
           x == a \o b
<1>1. a \in Seq(G) /\ b \in Seq(G)
  BY SeqMonotonic DEF Listed
<1>2. \A s \in G : Slotted(d, c, s, kind)
  BY DEF Listed
<1> HIDE DEF G
<1>3. x \in Seq(G)
  BY <1>1
<1> HIDE DEF x
<1>4. x \in Seq(Range(x)) /\ Range(x) \subseteq G
  BY <1>3, PosIntro DEF Pos, Range
<1>5. Listed(d, c, x, kind)
  BY <1>2, <1>4 DEF Listed
<1> QED
  BY <1>5 DEF x

LEMMA AppendGrows ==
  ASSUME NEW e, EntryFault(e) = "ok", e.scope # "container", IsEntry(e),
         NEW sel \in Range(e.targets), sel.arm = "append"
  PROVE  e.op.kind \in GrowsList
<1>1. e.scope = "targets"
  BY DEF EntryFault, IsEntry
<1> QED
  BY <1>1 DEF EntryFault

LEMMA SelectKeepsDraft ==
  ASSUME IInv, Select
  PROVE  DraftInv' /\ Effect
<1> DEFINE sel == E.targets[top.n]
           more == Locations(sel)
           all == top.locs \o more
           m == top.n + 1
           fr == [top EXCEPT !.locs = all, !.n = m]
<1>1. /\ outcome = "running" /\ top.pc = "targets" /\ top.n <= Len(E.targets)
      /\ TargetFault(sel) = "ok" /\ Continue(fr) /\ Reading
  BY DEF Select, At
<1>2. Formed(draft) /\ FrameOK(draft, top) /\ IsFrame(top) /\ Pos(top.c)
  BY <1>1, TopOK
<1>3. /\ Lives(draft, top.c) /\ Lives(draft, top.base) /\ IsPrefix(top.base, top.c)
      /\ top.n \in Nat \ {0} /\ E.scope # "container"
      /\ op.kind # "test" => Listed(draft, top.c, top.locs, op.kind)
  BY <1>1, <1>2 DEF FrameOK, Working, E, op
<1>4. sel \in Range(E.targets) /\ IsSelector(sel)
  <2>1. E.targets \in Seq(Range(E.targets)) /\ \A x \in Range(E.targets) : IsSelector(x)
    BY <1>1, TopIsEntry DEF IsEntry
  <2>2. top.n \in DOMAIN E.targets
    BY <1>1, <1>3, <2>1
  <2> QED
    BY <2>1, <2>2 DEF Range
<1>5. SelectorFault(top.c, sel) = "ok"
  BY <1>1 DEF TargetFault
<1>6. op.kind # "test" => Listed(draft, top.c, all, op.kind)
  <2>1. sel.arm = "append" => op.kind \in GrowsList
    BY <1>1, <1>3, <1>4, TopIsEntry, AppendGrows DEF op
  <2>2. op.kind # "test" => Listed(draft, top.c, more, op.kind)
    BY <1>2, <1>4, <1>5, <2>1, KeptIs DEF Listed, Locations
  <2> HIDE DEF more
  <2> QED
    BY <1>3, <2>2, ListedJoin
<1>7. m \in Nat \ {0}
  BY <1>3
<1> HIDE DEF all, m, sel, more
<1>8. /\ fr.base = top.base /\ fr.c = top.c /\ fr.n = m /\ fr.pc = "targets" /\ fr.locs = all
      /\ fr.entries = top.entries /\ fr.i = top.i
  BY <1>1, <1>2 DEF IsFrame
<1> HIDE DEF fr
<1>9. FrameOK(draft, fr)
  BY <1>3, <1>6, <1>7, <1>8 DEF FrameOK, Working, E, op
<1> QED
  BY <1>1, <1>8, <1>9, ReadStep

LEMMA RangeFinite ==
  ASSUME NEW x, x \in Seq(Range(x))
  PROVE  IsFiniteSet(Range(x))
<1>1. DOMAIN x = 1 .. Len(x) /\ Len(x) \in Nat
  OBVIOUS
<1>2. IsFiniteSet(DOMAIN x)
  BY <1>1, FS_Interval
<1>3. x \in Surjection(DOMAIN x, Range(x))
  BY <1>1 DEF Surjection, Range
<1> QED
  BY <1>2, <1>3, FS_Surjection

\* The places of a list that are to be removed are put in order.
LEMMA OrderedForRemoval ==
  ASSUME NEW d, Formed(d), NEW c, Pos(c), IsListAt(c), NEW locs, Listed(d, c, locs, "remove")
  PROVE  LET down == Descending(Range(locs)) IN Listed(d, c, down, "remove") /\ Falling(down)
<1> DEFINE S == Range(locs)
           down == Descending(S)
<1>1. ASSUME NEW s \in S
      PROVE  s \in Nat
  <2>1. Slotted(d, c, s, "remove") /\ ~IsMessageAt(c)
    BY KindsOfContainer DEF Listed
  <2>2. "remove" \notin GrowsList
    BY DEF GrowsList
  <2>3. Has(d, Append(c, s))
    BY <2>1, <2>2 DEF Slotted
  <2>4. Names(c, s)
    BY <2>1, <2>3, ElementOf
  <2> QED
    BY <2>4 DEF Names
<1>2. IsFiniteSet(S) /\ S \in SUBSET Nat
  BY <1>1, RangeFinite DEF Listed
<1>3. \A s \in S : Slotted(d, c, s, "remove")
  BY DEF Listed
<1> HIDE DEF S
<1>4. down \in Seq(S) /\ \A i, j \in DOMAIN down : i < j => down[i] > down[j]
  BY <1>2, DescendingIs
<1> HIDE DEF down
<1>5. down \in Seq(Range(down)) /\ Range(down) \subseteq S
  BY <1>4, PosIntro DEF Pos, Range
<1> QED
  BY <1>3, <1>4, <1>5 DEF Listed, Falling, down, S

LEMMA DispatchKeepsDraft ==
  ASSUME IInv, Dispatch
  PROVE  DraftInv' /\ Effect
<1> DEFINE locs == IF op.kind = "remove" /\ IsListAt(top.c)
                   THEN Descending(Range(top.locs)) ELSE top.locs
           org  == Origin
           to   == [top EXCEPT !.pc = "from", !.n = 1, !.src.c = org]
           next == [top EXCEPT !.pc = op.kind, !.locs = locs]
<1>1. outcome = "running" /\ top.pc = "targets" /\ Reading
  BY DEF Dispatch, Expanded, At
<1>2. Formed(draft) /\ FrameOK(draft, top) /\ IsFrame(top) /\ Pos(top.c) /\ Pos(top.base)
  BY <1>1, TopOK
<1>3. /\ Lives(draft, top.c) /\ Lives(draft, top.base) /\ IsPrefix(top.base, top.c)
      /\ top.n \in Nat \ {0}
      /\ op.kind # "test" => Listed(draft, top.c, top.locs, op.kind)
  BY <1>1, <1>2 DEF FrameOK, Working, E, op
<1>4. CASE op.kind \in {"move", "copy"}
  <2>1. Continue(to)
    BY <1>4 DEF Dispatch
  <2>2. Lives(draft, org) /\ IsPrefix(top.base, org)
    BY <1>2, <1>3, PrefixOrder DEF Origin
  <2> HIDE DEF org
  <2>3. /\ to.base = top.base /\ to.c = top.c /\ to.n = 1 /\ to.pc = "from" /\ to.locs = top.locs
        /\ to.entries = top.entries /\ to.i = top.i /\ to.src.c = org
    BY <1>2 DEF IsFrame
  <2> HIDE DEF to
  <2>4. FrameOK(draft, to)
    BY <1>3, <2>2, <2>3 DEF FrameOK, Working, E, op
  <2> QED
    BY <1>1, <2>1, <2>3, <2>4, ReadStep
<1>5. CASE op.kind \notin {"move", "copy"}
  <2>1. Continue(next)
    BY <1>5 DEF Dispatch
  <2>2. op.kind \in {"remove", "test", "insert", "assign", "nest"}
    BY <1>1, <1>5, TopEntry DEF OpKind, IInv
  <2>3. /\ op.kind # "test" => Listed(draft, top.c, locs, op.kind)
        /\ op.kind = "remove" /\ IsListAt(top.c) => Falling(locs)
    <3>1. CASE op.kind = "remove" /\ IsListAt(top.c)
      BY <1>2, <1>3, <3>1, OrderedForRemoval
    <3>2. CASE ~(op.kind = "remove" /\ IsListAt(top.c))
      BY <1>3, <3>2
    <3> QED
      BY <3>1, <3>2
  <2> HIDE DEF locs
  <2>4. /\ next.base = top.base /\ next.c = top.c /\ next.n = top.n /\ next.pc = op.kind
        /\ next.locs = locs /\ next.entries = top.entries /\ next.i = top.i
    BY <1>2 DEF IsFrame
  <2> HIDE DEF next
  <2>5. FrameOK(draft, next)
    BY <1>3, <2>2, <2>3, <2>4 DEF FrameOK, Working, E, op
  <2> QED
    BY <1>1, <2>1, <2>4, <2>5, ReadStep
<1> QED
  BY <1>4, <1>5

LEMMA NextFrame ==
  ASSUME IInv, outcome = "running", top.pc \in {"remove", "test", "insert", "assign", "nest"},
         NEW e, Lives(e, top.base), Lives(e, top.c), NEW rest,
         op.kind # "test" => Listed(e, top.c, rest, op.kind),
         top.pc = "remove" /\ IsListAt(top.c) => Falling(rest),
         NEW fr, fr = [top EXCEPT !.locs = rest]
  PROVE  fr.base = top.base /\ fr.c = top.c /\ fr.pc = top.pc /\ FrameOK(e, fr)
<1>1. FrameOK(draft, top) /\ IsFrame(top)
  BY TopOK
<1>2. /\ fr.base = top.base /\ fr.c = top.c /\ fr.n = top.n /\ fr.pc = top.pc /\ fr.locs = rest
      /\ fr.entries = top.entries /\ fr.i = top.i
  BY <1>1 DEF IsFrame
<1>3. FrameOK(e, fr)
  BY <1>1, <1>2 DEF FrameOK, Working, E, op
<1> QED
  BY <1>2, <1>3

\* What the engine is about to act on.
LEMMA HereIs ==
  ASSUME IInv, outcome = "running", top.pc \in Working \ {"targets", "from", "relocate"}, top.locs # <<>>
  PROVE  /\ op.kind = top.pc /\ Lives(draft, top.c) /\ Formed(draft) /\ Pos(top.c)
         /\ Listed(draft, top.c, top.locs, op.kind)
         /\ Slotted(draft, top.c, here, op.kind)
         /\ here \in Range(top.locs)
<1>1. Formed(draft) /\ FrameOK(draft, top) /\ Pos(top.c) /\ Doing(top.pc, op.kind)
  BY TopOK
<1>2. op.kind = top.pc
  BY <1>1 DEF Doing, Working, OpKind
<1>3. Lives(draft, top.c) /\ Listed(draft, top.c, top.locs, op.kind)
  BY <1>1, <1>2 DEF FrameOK, Working, E, op
<1>4. here \in Range(top.locs)
  BY <1>3, TailIs DEF Listed, here
<1> QED
  BY <1>1, <1>2, <1>3, <1>4 DEF Listed

LEMMA RemoveKeepsDraft ==
  ASSUME IInv, RemoveTarget
  PROVE  DraftInv' /\ Effect
<1> DEFINE rest == Tail(top.locs)
           fr == [top EXCEPT !.locs = rest]
<1>1. /\ outcome = "running" /\ top.pc = "remove" /\ top.locs # <<>>
      /\ draft' = RemovedAt(draft, top.c, here) /\ Continue(fr) /\ Writing
  BY DEF RemoveTarget, Acting, At, OnToNext
<1>2. /\ op.kind = "remove" /\ Lives(draft, top.c) /\ Formed(draft) /\ Pos(top.c)
      /\ Listed(draft, top.c, top.locs, "remove") /\ Slotted(draft, top.c, here, "remove")
  BY <1>1, HereIs DEF Working
<1>3. ASSUME NEW t, Slotted(draft, top.c, t, "remove")
      PROVE  t # Unknown /\ (IsListAt(top.c) => Has(draft, Append(top.c, t)) /\ t \in Nat \ {0})
  <2>1. t # Unknown
    BY <1>2, <1>3, SlottedIs
  <2>2. ASSUME IsListAt(top.c)
        PROVE  Has(draft, Append(top.c, t)) /\ t \in Nat \ {0}
    <3>1. Has(draft, Append(top.c, t)) /\ ~IsMessageAt(top.c)
      BY <1>3, <2>2, KindsOfContainer DEF Slotted, GrowsList
    <3> QED
      BY <1>2, <2>2, <3>1, ElementOf DEF Names
  <2> QED
    BY <2>1, <2>2
<1>4. /\ Touches(draft, draft', top.c)
      /\ IsListAt(top.c) => here \in Nat \ {0} /\ \A t \in Nat \ {0} : t < here => Has(draft', Append(top.c, t))
  BY <1>1, <1>2, <1>3, RemovedKeeps
<1>5. IsListAt(top.c) => Falling(top.locs)
  BY <1>1, TopOK DEF FrameOK
<1>6. ASSUME NEW t \in Range(rest), Slotted(draft, top.c, t, "remove")
      PROVE  Slotted(draft', top.c, t, "remove")
  <2>1. CASE IsListAt(top.c)
    <3>1. /\ top.locs \in Seq(Range(top.locs)) /\ DOMAIN rest = 1 .. Len(top.locs) - 1
          /\ Len(top.locs) \in Nat \ {0} /\ DOMAIN top.locs = 1 .. Len(top.locs)
          /\ \A i \in 1 .. Len(top.locs) - 1 : rest[i] = top.locs[i + 1]
          /\ here = top.locs[1]
      BY <1>1, <1>2, TailIs DEF Listed, here
    <3>2. PICK i \in DOMAIN rest : t = rest[i]
      BY DEF Range
    <3>3. t = top.locs[i + 1] /\ 1 \in DOMAIN top.locs /\ i + 1 \in DOMAIN top.locs /\ 1 < i + 1
      BY <3>1, <3>2
    <3>4. here > t
      BY <1>5, <2>1, <3>1, <3>3 DEF Falling
    <3>5. t \in Nat \ {0} /\ t # AppendSlot
      BY <1>3, <1>6, <2>1, SlotAssumption
    <3>6. Has(draft', Append(top.c, t))
      BY <1>4, <2>1, <3>4, <3>5
    <3> QED
      BY <2>1, <3>5, <3>6, KindsOfContainer DEF Slotted
  <2>2. CASE ~IsListAt(top.c)
    BY <1>6, <2>2 DEF Slotted
  <2> QED
    BY <2>1, <2>2
<1>7. Listed(draft', top.c, rest, "remove")
  BY <1>1, <1>2, <1>6, ListedTail
<1>8. IsListAt(top.c) => Falling(rest)
  <2>1. /\ DOMAIN rest = 1 .. Len(top.locs) - 1
        /\ Len(top.locs) \in Nat \ {0} /\ DOMAIN top.locs = 1 .. Len(top.locs)
        /\ \A i \in 1 .. Len(top.locs) - 1 : rest[i] = top.locs[i + 1]
    BY <1>1, <1>2, TailIs DEF Listed
  <2> HIDE DEF rest
  <2>2. ASSUME IsListAt(top.c), NEW i \in DOMAIN rest, NEW j \in DOMAIN rest, i < j
        PROVE  rest[i] > rest[j]
    <3>1. /\ i + 1 \in DOMAIN top.locs /\ j + 1 \in DOMAIN top.locs /\ i + 1 < j + 1
          /\ rest[i] = top.locs[i + 1] /\ rest[j] = top.locs[j + 1]
      BY <2>1, <2>2
    <3> QED
      BY <1>5, <2>2, <3>1 DEF Falling
  <2> QED
    BY <2>2 DEF Falling
<1>9. Lives(draft', top.base) /\ Lives(draft', top.c)
  BY <1>1, <1>4, BaseLives DEF Touches
<1> HIDE DEF rest
<1>10. fr.base = top.base /\ FrameOK(draft', fr)
  BY <1>1, <1>2, <1>7, <1>8, <1>9, NextFrame
<1> HIDE DEF fr
<1> QED
  BY <1>1, <1>4, <1>10, WriteStep

LEMMA TestTargetKeepsDraft ==
  ASSUME IInv, TestTarget
  PROVE  DraftInv' /\ Effect
<1> DEFINE rest == Tail(top.locs)
           fr == [top EXCEPT !.locs = rest]
<1>1. outcome = "running" /\ top.pc = "test" /\ Continue(fr) /\ Reading
  BY DEF TestTarget, Acting, At, OnToNext
<1>2. op.kind = "test" /\ Lives(draft, top.c) /\ Lives(draft, top.base)
  BY <1>1, TopOK DEF Doing, OpKind, FrameOK
<1> HIDE DEF rest
<1>3. fr.base = top.base /\ FrameOK(draft, fr)
  BY <1>1, <1>2, NextFrame
<1> HIDE DEF fr
<1> QED
  BY <1>1, <1>3, ReadStep

\* A value written at a target, for the kinds that write a literal.
LEMMA PutKeepsDraft ==
  ASSUME IInv, outcome = "running", top.pc \in {"assign", "insert"}, top.locs # <<>>,
         LiteralFault(op.value, place) = "ok",
         draft' = Written(draft, top.c, here, Content(op.value)), OnToNext, Writing
  PROVE  DraftInv' /\ Effect
<1> DEFINE rest == Tail(top.locs)
           fr == [top EXCEPT !.locs = rest]
           v == Content(op.value)
<1>1. Continue(fr)
  BY DEF OnToNext
<1>2. /\ op.kind = top.pc /\ Lives(draft, top.c) /\ Formed(draft) /\ Pos(top.c)
      /\ Listed(draft, top.c, top.locs, op.kind) /\ Slotted(draft, top.c, here, op.kind)
  BY HereIs DEF Working
<1>3. IsLiteral(op.value)
  BY <1>2, TopIsEntry DEF IsOperation
<1>4. place # <<>> /\ TypeAt(place) \in FieldType
  BY <1>2, SlottedIs DEF place
<1>5. FitsAt(v, place)
  BY <1>3, <1>4, LiteralFits
<1> HIDE DEF v
<1>6. Touches(draft, draft', top.c)
  BY <1>2, <1>5, WrittenIs DEF v, place
<1>7. \A t : Slotted(draft, top.c, t, op.kind) => Slotted(draft', top.c, t, op.kind)
  BY <1>2, <1>5, WrittenLeavesSlots DEF v, place
<1>8. Listed(draft', top.c, rest, op.kind)
  BY <1>2, <1>7, ListedTail
<1>9. Lives(draft', top.base) /\ Lives(draft', top.c)
  BY <1>6, BaseLives DEF Touches
<1> HIDE DEF rest
<1>10. fr.base = top.base /\ FrameOK(draft', fr)
  BY <1>8, <1>9, NextFrame
<1> HIDE DEF fr
<1> QED
  BY <1>1, <1>6, <1>10, WriteStep

LEMMA AssignKeepsDraft ==
  ASSUME IInv, AssignTarget
  PROVE  DraftInv' /\ Effect
BY PutKeepsDraft DEF AssignTarget, Acting, At

LEMMA InsertKeepsDraft ==
  ASSUME IInv, InsertTarget
  PROVE  DraftInv' /\ Effect
<1>1. /\ outcome = "running" /\ top.pc = "insert" /\ top.locs # <<>> /\ InsertFault(top.c, here) = "ok"
      /\ draft' = Written(draft, top.c, here, Content(op.value)) /\ OnToNext /\ Writing
  BY DEF InsertTarget, Acting, At
<1>2. LiteralFault(op.value, place) = "ok"
  BY <1>1 DEF InsertFault, place
<1> QED
  BY <1>1, <1>2, PutKeepsDraft

LEMMA SpliceKeepsDraft ==
  ASSUME IInv, Splice
  PROVE  DraftInv' /\ Effect
<1> DEFINE rest == <<>>
           fr == [top EXCEPT !.locs = rest]
           v == Content(op.value)
<1>1. /\ outcome = "running" /\ top.pc = "insert" /\ top.locs # <<>> /\ IsListAt(top.c)
      /\ InsertFault(top.c, here) = "ok" /\ Continue(fr) /\ Writing
      /\ draft' = PutElements(draft, top.c, Spliced(Elements(draft, top.c), v, Range(top.locs)))
  BY DEF Splice, Acting, At
<1>2. /\ op.kind = "insert" /\ Lives(draft, top.c) /\ Formed(draft) /\ Pos(top.c)
      /\ Slotted(draft, top.c, here, op.kind)
  BY <1>1, HereIs DEF Working
<1>3. IsLiteral(op.value) /\ LiteralFault(op.value, place) = "ok"
  BY <1>1, <1>2, TopIsEntry DEF IsOperation, InsertFault, place
<1>4. /\ place # <<>> /\ TypeAt(place) \in FieldType
      /\ IsMessageAt(place) /\ TypeAt(place) = Type[Last(top.c)]
  BY <1>1, <1>2, SlottedIs, KindsOfContainer DEF place
<1>5. Fit(v, Type[Last(top.c)])
  BY <1>3, <1>4, LiteralFits DEF FitsAt
<1> HIDE DEF v
<1>6. Touches(draft, draft', top.c)
  BY <1>1, <1>2, <1>5, SplicedKeeps
<1>7. Listed(draft', top.c, rest, op.kind)
  BY ListedNone
<1>8. Lives(draft', top.base) /\ Lives(draft', top.c)
  BY <1>1, <1>6, BaseLives DEF Touches
<1> HIDE DEF rest
<1>9. fr.base = top.base /\ FrameOK(draft', fr)
  BY <1>1, <1>7, <1>8, NextFrame
<1> HIDE DEF fr
<1> QED
  BY <1>1, <1>6, <1>9, WriteStep

\* The first frame of a nested delta.
LEMMA InnerFrame ==
  ASSUME NEW d, NEW p, Pos(p), Lives(d, p), NEW entries, NEW fr, fr = Frame(p, entries)
  PROVE  FrameOK(d, fr) /\ fr.base = p
<1>1. fr.base = p /\ fr.c = p /\ fr.n = 1 /\ fr.pc = "path" /\ fr.locs = <<>>
  BY DEF Frame
<1>2. IsPrefix(p, p)
  BY PrefixOrder
<1> QED
  BY <1>1, <1>2 DEF FrameOK, Working

LEMMA NestKeepsDraft ==
  ASSUME IInv, NestTarget
  PROVE  DraftInv' /\ Effect
<1> DEFINE rest == Tail(top.locs)
           fr == Frame(place, op.delta)
           gr == [top EXCEPT !.locs = rest]
<1>1. /\ outcome = "running" /\ top.pc = "nest" /\ top.locs # <<>> /\ IsContainer(top.c, here)
      /\ draft' = IF IsMessageAt(top.c) THEN Mutable(draft, top.c, here) ELSE draft
      /\ stack' = <<fr, gr>> \o Tail(stack) /\ Writing
  BY DEF NestTarget, Acting, At
<1>2. /\ op.kind = "nest" /\ Lives(draft, top.c) /\ Formed(draft) /\ Pos(top.c)
      /\ Listed(draft, top.c, top.locs, "nest") /\ Slotted(draft, top.c, here, "nest")
  BY <1>1, HereIs DEF Working
<1>3. Pos(top.base) /\ IsPrefix(top.base, top.c)
  BY <1>1, TopOK
<1>4. Pos(place) /\ IsPrefix(top.c, place) /\ top.c # place /\ IsPrefix(top.base, place)
  BY <1>2, <1>3, AppendPos, PlaceBelow, BelowAppend DEF place
<1>5. /\ Touches(draft, draft', top.c) /\ Lives(draft', place)
      /\ \A t : Slotted(draft, top.c, t, "nest") => Slotted(draft', top.c, t, "nest")
  <2>1. CASE IsMessageAt(top.c)
    <3>1. here \in Field /\ (Card[here] # "singular" \/ Type[here] = Msg)
      BY <1>1, <1>2, <2>1 DEF Slotted, IsContainer
    <3>2. /\ Formed(draft') /\ Beside(draft, draft', top.c, {here} \cup Siblings(here))
          /\ Lives(draft', place)
      BY <1>1, <1>2, <2>1, <3>1, MutableKeeps DEF place
    <3>3. Touches(draft, draft', top.c)
      BY <1>2, <3>1, <3>2, FieldsKnown, TouchesFields
    <3>4. \A t : Slotted(draft, top.c, t, "nest") => Slotted(draft', top.c, t, "nest")
      BY <2>1, KindsOfContainer DEF Slotted
    <3> QED
      BY <3>2, <3>3, <3>4
  <2>2. CASE ~IsMessageAt(top.c)
    <3>1. draft' = draft
      BY <1>1, <2>2
    <3>2. Has(draft, place)
      BY <1>2, <2>2, KindsOfContainer DEF Slotted, GrowsList, place
    <3>3. Lives(draft, place)
      BY <1>1, <1>2, <2>2, <3>2, ElementLives DEF place
    <3> QED
      BY <1>2, <3>1, <3>3, TouchesNothing
  <2> QED
    BY <2>1, <2>2
<1>6. Listed(draft', top.c, rest, "nest")
  BY <1>1, <1>2, <1>5, ListedTail
<1>7. Lives(draft', top.base) /\ Lives(draft', top.c) /\ Formed(draft')
  BY <1>1, <1>5, BaseLives DEF Touches
<1> HIDE DEF rest
<1>8. gr.base = top.base /\ gr.c = top.c /\ gr.pc = "nest" /\ FrameOK(draft', gr)
  BY <1>1, <1>2, <1>6, <1>7, NextFrame
<1>9. FrameOK(draft', fr) /\ fr.base = place
  BY <1>4, <1>5, InnerFrame
<1> HIDE DEF fr, gr
<1>10. Beneath(gr, fr.base)
  BY <1>4, <1>8, <1>9 DEF Beneath
<1>11. Effect
  BY <1>1, <1>5, TouchEffect
<1>12. Within(draft, draft', top.base) /\ UNCHANGED <<target, outcome, returned>>
  BY <1>1, <1>11 DEF Effect, Writing
<1>13. DraftInv'
  BY <1>1, <1>4, <1>7, <1>8, <1>9, <1>10, <1>12, PushKeepsDraft
<1> QED
  BY <1>11, <1>13

LEMMA OnTargetsKeepsDraft ==
  ASSUME IInv, OnTargets
  PROVE  DraftInv' /\ (outcome' = "running" => Effect)
<1>1. CASE RemoveTarget
  BY <1>1, RemoveKeepsDraft
<1>2. CASE TestTarget
  BY <1>2, TestTargetKeepsDraft
<1>3. CASE AssignTarget \/ InsertTarget \/ Splice
  BY <1>3, AssignKeepsDraft, InsertKeepsDraft, SpliceKeepsDraft
<1>4. CASE NestTarget
  BY <1>4, NestKeepsDraft
<1>5. CASE AllDone
  BY <1>5, FinishRead DEF AllDone
<1>6. CASE FailTest \/ RefuseValue \/ NestScalar
  BY <1>6, FailKeepsDraft DEF FailTest, RefuseValue, NestScalar
<1> QED
  BY <1>1, <1>2, <1>3, <1>4, <1>5, <1>6 DEF OnTargets

LEMMA EmptyTouches ==
  ASSUME NEW d, Formed(d), NEW c, Pos(c), Lives(d, c)
  PROVE  Touches(d, EmptyContainer(d, c), c)
<1> DEFINE e == EmptyContainer(d, c)
<1>1. Formed(e) /\ Within(d, e, c) /\ (IsMessageAt(c) => Beside(d, e, c, Field))
  BY EmptyKeeps
<1> HIDE DEF e
<1>2. Touches(d, e, c)
  BY <1>1, FieldsKnown, TouchesFields, TouchesElements
<1> QED
  BY <1>2 DEF e

LEMMA OnWholeKeepsDraft ==
  ASSUME IInv, OnWhole
  PROVE  DraftInv' /\ (outcome' = "running" => Effect)
<1>1. ASSUME outcome = "running", top.pc = "container"
      PROVE  Formed(draft) /\ Pos(top.c) /\ Lives(draft, top.c)
  BY <1>1, TopOK DEF FrameOK
<1>2. CASE Empty
  <2>1. outcome = "running" /\ GoTo("done") /\ Writing /\ Touches(draft, draft', top.c)
    BY <1>1, <1>2, EmptyTouches DEF Empty, OnContainer, At
  <2> QED
    BY <2>1, FinishWrite
<1>3. CASE AssignContainer
  <2>1. /\ outcome = "running" /\ top.pc = "container" /\ op.kind = "assign"
        /\ GoTo("done") /\ Writing /\ LiteralFault(op.value, top.c) = "ok"
        /\ draft' = Overlay(EmptyContainer(draft, top.c), top.c, Content(op.value))
    BY <1>3 DEF AssignContainer, OnContainer, At
  <2>2. IsLiteral(op.value)
    BY <2>1, TopIsEntry DEF IsOperation
  <2>3. Touches(draft, draft', top.c)
    BY <1>1, <2>1, <2>2, AssignedKeeps
  <2> QED
    BY <2>1, <2>3, FinishWrite
<1>4. CASE InsertContainer
  <2>1. /\ outcome = "running" /\ top.pc = "container" /\ op.kind = "insert"
        /\ GoTo("done") /\ Writing /\ ContainerInsertFaults(top.c) = {}
        /\ draft' = IF IsListAt(top.c)
                    THEN PutElements(draft, top.c, Elements(draft, top.c) \o ListContent(op.value.items))
                    ELSE Overlay(draft, top.c, Content(op.value))
    BY <1>4 DEF InsertContainer, OnContainer, At
  <2>2. IsLiteral(op.value)
    BY <2>1, TopIsEntry DEF IsOperation
  <2>3. Touches(draft, draft', top.c)
    BY <1>1, <2>1, <2>2, InsertedKeeps
  <2> QED
    BY <2>1, <2>3, FinishWrite
<1>5. CASE TestContainer
  BY <1>5, FinishRead DEF TestContainer, OnContainer, At
<1>6. CASE RefuseContainer
  BY <1>6, FailKeepsDraft DEF RefuseContainer
<1>7. CASE NestContainer
  <2> DEFINE fr == Frame(top.c, op.delta)
             gr == [top EXCEPT !.pc = "done"]
  <2>1. /\ outcome = "running" /\ top.pc = "container" /\ Reading
        /\ stack' = <<fr, gr>> \o Tail(stack)
    BY <1>7 DEF NestContainer, OnContainer, At
  <2>2. UNCHANGED <<target, outcome, returned, draft>>
    BY <2>1 DEF Reading, Writing
  <2>3. /\ Formed(draft) /\ Pos(top.c) /\ Lives(draft, top.c) /\ Pos(top.base)
        /\ IsPrefix(top.base, top.c) /\ Lives(draft, top.base)
    BY <1>1, <2>1, TopOK DEF FrameOK
  <2>4. FrameOK(draft, fr) /\ fr.base = top.c
    BY <2>3, InnerFrame
  <2>5. gr.base = top.base /\ gr.pc = "done" /\ FrameOK(draft, gr)
    BY <2>1, <2>3, DoneFrame
  <2> HIDE DEF fr, gr
  <2>6. Beneath(gr, fr.base)
    BY <2>3, <2>4, <2>5 DEF Beneath
  <2>7. Effect
    BY <2>1, <2>2, ReadEffect
  <2>8. DraftInv'
    BY <2>1, <2>2, <2>3, <2>4, <2>5, <2>6, <2>7, PushKeepsDraft DEF Effect
  <2> QED
    BY <2>7, <2>8
<1> QED
  BY <1>2, <1>3, <1>4, <1>5, <1>6, <1>7 DEF OnWhole

-----------------------------------------------------------------------------
(* Moves and copies.                                                       *)

LEMMA DescendSourceKeepsDraft ==
  ASSUME IInv, DescendSource
  PROVE  DraftInv' /\ Effect
<1> DEFINE key == SourcePath[top.n]
           c == top.src.c
           s == Slot(draft, c, key)
           q == Append(c, s)
           m == top.n + 1
           fr == [top EXCEPT !.src.c = q, !.n = m]
<1>1. /\ outcome = "running" /\ top.pc = "from" /\ top.n <= Len(SourcePath)
      /\ DescendFault(draft, c, key, FALSE) = "ok" /\ Continue(fr) /\ Reading
  BY DEF DescendSource, At
<1>2. /\ Formed(draft) /\ FrameOK(draft, top) /\ IsFrame(top) /\ Pos(c) /\ Pos(top.base)
      /\ Doing(top.pc, op.kind)
  BY <1>1, TopOK
<1>3. Lives(draft, c) /\ IsPrefix(top.base, c) /\ top.n \in Nat \ {0}
  BY <1>1, <1>2 DEF FrameOK
<1>4. IsKey(key)
  <2>1. op.kind \in {"move", "copy"} /\ IsOperation(op)
    BY <1>1, <1>2, TopIsEntry DEF Doing
  <2>2. CASE op.origin = "path"
    <3>1. IsPath(op.path) /\ SourcePath = op.path
      BY <2>1, <2>2 DEF IsOperation, SourcePath
    <3>2. Len(op.path) \in Nat /\ DOMAIN op.path = 1 .. Len(op.path)
      BY <3>1 DEF IsPath
    <3>3. top.n \in DOMAIN op.path
      BY <1>1, <1>3, <3>1, <3>2
    <3> QED
      BY <3>1, <3>3 DEF IsPath, Range
  <2>3. CASE op.origin # "path"
    <3>1. Len(SourcePath) = 0
      BY <2>3, RootPos DEF SourcePath
    <3> QED
      BY <1>1, <1>3, <3>1
  <2> QED
    BY <2>2, <2>3
<1>5. Lives(draft, q)
  <2>1. Lives(Entered(draft, c, s), q)
    BY <1>1, <1>2, <1>3, <1>4, EnteredKeeps
  <2>2. Entered(draft, c, s) = draft
    BY <1>1, EntersWhatIsThere
  <2> QED
    BY <2>1, <2>2
<1>6. IsPrefix(top.base, q) /\ m \in Nat \ {0}
  BY <1>2, <1>3, BelowAppend
<1> HIDE DEF q, m, s, key, c
<1>7. /\ fr.base = top.base /\ fr.c = top.c /\ fr.n = m /\ fr.pc = "from" /\ fr.locs = top.locs
      /\ fr.entries = top.entries /\ fr.i = top.i /\ fr.src.c = q
  BY <1>1, <1>2 DEF IsFrame
<1> HIDE DEF fr
<1>8. FrameOK(draft, fr)
  BY <1>1, <1>2, <1>5, <1>6, <1>7 DEF FrameOK, Working, E, op
<1> QED
  BY <1>1, <1>7, <1>8, ReadStep

LEMMA ReadSourceKeepsDraft ==
  ASSUME IInv, ReadSource
  PROVE  DraftInv' /\ Effect
<1> DEFINE k == op.key
           c == top.src.c
           s == Slot(draft, c, k)
           p == Append(c, s)
           v == ValueAt(draft, p)
           fr == [top EXCEPT !.pc = "relocate", !.src.s = s, !.src.held = v]
<1>1. /\ outcome = "running" /\ top.pc = "from" /\ SourceFault(c, k) = "ok" /\ Continue(fr) /\ Reading
  BY DEF ReadSource, At
<1>2. Formed(draft) /\ FrameOK(draft, top) /\ IsFrame(top) /\ Pos(c)
  BY <1>1, TopOK
<1>3. Lives(draft, c) /\ IsPrefix(top.base, c)
  BY <1>1, <1>2 DEF FrameOK
<1>4. k.arm = KeyArm(c) /\ Present(draft, c, s)
  BY <1>1 DEF SourceFault
<1>5. s \notin {NoSlot, AppendSlot} /\ Has(draft, p)
  BY <1>4 DEF Present
<1>6. Names(c, s)
  <2>1. CASE IsMessageAt(c)
    <3>1. k.arm = "field" /\ ~IsListAt(c) /\ ~IsMapAt(c)
      BY <1>4, <2>1, KindsOfContainer DEF KeyArm
    <3>2. s \in Field
      BY <1>5, <3>1 DEF Slot
    <3> QED
      BY <3>1, <3>2 DEF Names
  <2>2. CASE ~IsMessageAt(c)
    BY <1>2, <1>5, <2>2, ElementOf
  <2> QED
    BY <2>1, <2>2
<1>7. Pos(p) /\ p # <<>> /\ Last(p) = s /\ s # Unknown
  BY <1>2, <1>6, AppendPos, AppendIs, NamesIs
<1>8. IsMessageAt(p) => p \in DOMAIN draft
  <2>1. Held(draft)
    BY <1>2, InOrderHeld DEF Formed
  <2> HIDE DEF p
  <2> QED
    BY <1>5, <1>7, <2>1, HasIs
<1>9. FitsAt(v, p)
  BY <1>2, <1>7, <1>8, ValueFits
<1> HIDE DEF v, p, s, c, k
<1>10. /\ fr.base = top.base /\ fr.c = top.c /\ fr.n = top.n /\ fr.pc = "relocate" /\ fr.locs = top.locs
       /\ fr.entries = top.entries /\ fr.i = top.i
  BY <1>2 DEF IsFrame
<1>11. fr.src.c = c /\ fr.src.s = s /\ fr.src.held = v
  BY <1>2 DEF IsFrame, c
<1> HIDE DEF fr
<1>12. SourceOK(draft, fr.base, fr.src)
  BY <1>3, <1>5, <1>6, <1>9, <1>10, <1>11 DEF SourceOK, p
<1>13. FrameOK(draft, fr)
  BY <1>1, <1>2, <1>10, <1>12 DEF FrameOK, Working, E, op
<1> QED
  BY <1>1, <1>10, <1>13, ReadStep

\* What a relocation has in hand.
LEMMA RelocatingIs ==
  ASSUME IInv, outcome = "running", top.pc = "relocate"
  PROVE  /\ op.kind \in {"move", "copy"} /\ Formed(draft) /\ Pos(top.c) /\ Pos(top.src.c)
         /\ Lives(draft, top.c) /\ Listed(draft, top.c, top.locs, op.kind)
         /\ SourceOK(draft, top.base, top.src)
<1>1. /\ Formed(draft) /\ FrameOK(draft, top) /\ Pos(top.c) /\ Pos(top.src.c)
      /\ Doing(top.pc, op.kind)
  BY TopOK
<1>2. op.kind \in {"move", "copy"}
  BY <1>1 DEF Doing
<1> QED
  BY <1>1, <1>2 DEF FrameOK, Working, E, op

LEMMA HeldFits ==
  ASSUME IInv, outcome = "running", top.pc = "relocate"
  PROVE  FitsAt(HeldNow, Append(top.src.c, top.src.s))
<1> DEFINE p == Append(top.src.c, top.src.s)
<1>1. /\ Formed(draft) /\ Pos(top.c) /\ Pos(top.src.c) /\ Lives(draft, top.c)
      /\ Names(top.src.c, top.src.s) /\ FitsAt(top.src.held, p)
  BY RelocatingIs DEF SourceOK
<1>2. Pos(p) /\ p # <<>> /\ Last(p) = top.src.s /\ top.src.s # Unknown
  BY <1>1, AppendPos, AppendIs, NamesIs
<1> HIDE DEF p
<1>3. CASE IsPrefix(p, top.c)
  <2>1. IsMessageAt(p) => p \in DOMAIN draft
    BY <1>1, <1>2, <1>3, LivesAbove
  <2>2. FitsAt(ValueAt(draft, p), p)
    BY <1>1, <1>2, <2>1, ValueFits
  <2> QED
    BY <1>3, <2>2 DEF HeldNow, p
<1>4. CASE ~IsPrefix(p, top.c)
  BY <1>1, <1>4 DEF HeldNow, p
<1> QED
  BY <1>3, <1>4

\* A value of one position fits another of the same type.
LEMMA FitsThere ==
  ASSUME NEW c, Pos(c), NEW s, NEW d, Pos(d), NEW t, NEW v, FitsAt(v, Append(c, s)),
         s \notin Field => c # <<>>, t \notin Field => d # <<>>,
         TypeOf(d, t) = TypeOf(c, s),
         Whole(t) \/ Whole(s) => Whole(t) /\ Whole(s) /\ Card[t] = "list"
  PROVE  FitsAt(v, Append(d, t))
<1> DEFINE p == Append(c, s)
           q == Append(d, t)
<1>1. Last(p) = s /\ Last(q) = t
  BY AppendIs
<1>2. CASE Whole(t) \/ Whole(s)
  <2>1. s \in Field /\ t \in Field /\ Card[t] = "list" /\ Card[s] \in {"list", "map"}
    BY <1>2, SchemaAssumption DEF Whole
  <2>2. TypeOf(d, t) = <<"kind", Type[t]>>
    BY <2>1 DEF TypeOf
  <2>3. Card[s] = "list"
    BY <2>1, <2>2 DEF TypeOf
  <2>4. Type[s] = Type[t]
    BY <2>1, <2>2, <2>3 DEF TypeOf
  <2>5. /\ IsListAt(p) /\ ~IsMessageAt(p) /\ ~IsMapAt(p)
        /\ IsListAt(q) /\ ~IsMessageAt(q) /\ ~IsMapAt(q)
    BY <2>1, <2>3, KindOfPlace
  <2> HIDE DEF p, q
  <2>6. PICK u : v = Collection(u) /\ Group(u, p)
    BY <2>5 DEF FitsAt, p
  <2>7. Group(u, q)
    BY <1>1, <2>4, <2>5, <2>6 DEF Group
  <2>8. FitsAt(v, q)
    BY <2>5, <2>6, <2>7 DEF FitsAt
  <2> QED
    BY <2>8 DEF q
<1>3. CASE ~Whole(t) /\ ~Whole(s)
  <2>1. IsMessageAt(p) /\ IsMessageAt(q)
    BY <1>3, KindOfPlace DEF Whole
  <2>2. TypeOf(c, s) = <<"kind", TypeAt(p)>>
    BY <1>3, TypeOfPlace DEF TypeOf, Whole
  <2>3. TypeOf(d, t) = <<"kind", TypeAt(q)>>
    BY <1>3, TypeOfPlace DEF TypeOf, Whole
  <2> HIDE DEF p, q
  <2>4. TypeAt(p) = TypeAt(q)
    BY <2>2, <2>3
  <2> QED
    BY <2>1, <2>4 DEF FitsAt, p, q
<1> QED
  BY <1>2, <1>3

\* A write that does not replace what holds the source leaves the source there.
LEMMA SourceKept ==
  ASSUME NEW d, Formed(d), NEW c, Pos(c), Lives(d, c), NEW s, NEW kind, Slotted(d, c, s, kind),
         NEW v, FitsAt(v, Append(c, s)),
         NEW b, Pos(b), Lives(d, b), ~Replaces(c, s, b)
  PROVE  LET e == Written(d, c, s, v) IN
         /\ Lives(e, b)
         /\ \A t : IsListAt(b) /\ Has(d, Append(b, t)) => Has(e, Append(b, t))
<1> DEFINE e == Written(d, c, s, v)
           w == Spot(d, c, s)
           S == Cleared(d, c, s)
<1>0. IsTree(d) /\ Held(d)
  BY InOrderHeld DEF Formed, InOrder
<1>1. /\ Formed(e) /\ Beside(d, e, c, S)
      /\ ~IsMessageAt(c) => Append(c, w) \in DOMAIN e
  BY WrittenIs
<1>2. \A x \in S : ~IsPrefix(Append(c, x), b)
  <2>1. CASE IsListAt(c) /\ s = AppendSlot
    <3>1. S = {Length(d, c) + 1}
      BY <2>1, SlotAssumption DEF Cleared, Spot
    <3>2. Places(d, c) = 1 .. Length(d, c) /\ Length(d, c) \in Nat
      BY <2>1, ListPlaces
    <3> DEFINE x == Length(d, c) + 1
               p == Append(c, x)
    <3>3. x \notin Places(d, c) /\ x \notin Field
      BY <3>2, SchemaAssumption
    <3>4. Pos(p) /\ IsMessageAt(p)
      BY <3>3, AppendPos, KindOfPlace
    <3>5. p \notin DOMAIN d
      BY <1>0, <3>3, ElementIs
    <3> HIDE DEF p, x
    <3>6. ~IsPrefix(p, b)
      BY <3>4, <3>5, LivesAbove
    <3> QED
      BY <3>1, <3>6 DEF p, x
  <2>2. CASE ~(IsListAt(c) /\ s = AppendSlot)
    BY <2>2 DEF Cleared, Spot, Replaces
  <2> QED
    BY <2>1, <2>2
<1> HIDE DEF e, S, w
<1>3. Lives(e, b)
  BY <1>0, <1>1, <1>2, BesideLives
<1>4. ASSUME NEW t, IsListAt(b), Has(d, Append(b, t))
      PROVE  Has(e, Append(b, t))
  <2> DEFINE p == Append(b, t)
  <2>1. ~IsMessageAt(b) /\ Pos(p)
    BY <1>4, KindsOfContainer, AppendPos
  <2>2. CASE \A x \in S : ~IsPrefix(Append(c, x), p)
    <3>1. Agree(d, e, p)
      BY <1>1, <2>1, <2>2 DEF Beside
    <3> QED
      BY <1>1, <1>4, <2>1, <3>1, ElementStays
  <2>3. CASE \E x \in S : IsPrefix(Append(c, x), p)
    <3>1. PICK x \in S : IsPrefix(Append(c, x), p)
      BY <2>3
    <3>2. Append(c, x) = p
      <4>1. Pos(Append(c, x)) /\ ~IsPrefix(Append(c, x), b)
        BY <1>2, AppendPos
      <4> QED
        BY <3>1, <4>1, BelowAppend
    <3>3. c = b /\ x = t
      BY <3>2, AppendIs
    <3>4. s \notin Field
      BY <2>1, <3>3, SlottedIs
    <3>5. x = w
      BY <3>4 DEF S, w, Cleared
    <3>6. p \in DOMAIN e
      BY <1>1, <2>1, <3>3, <3>5
    <3> QED
      BY <2>1, <3>6, PrefixOrder DEF Has, Under
  <2> QED
    BY <2>2, <2>3
<1> QED
  BY <1>3, <1>4 DEF e

LEMMA RelocatingFrame ==
  ASSUME IInv, outcome = "running", top.pc = "relocate",
         NEW e, Lives(e, top.base), Lives(e, top.c), NEW rest, Listed(e, top.c, rest, op.kind),
         NEW src, SourceOK(e, top.base, src),
         NEW fr, fr.base = top.base, fr.c = top.c, fr.n = top.n, fr.pc = "relocate", fr.locs = rest,
         fr.entries = top.entries, fr.i = top.i, fr.src = src
  PROVE  FrameOK(e, fr)
<1>1. FrameOK(draft, top)
  BY TopOK
<1> QED
  BY <1>1 DEF FrameOK, Working, E, op

LEMMA SkipKeepsDraft ==
  ASSUME IInv, SkipSource
  PROVE  DraftInv' /\ Effect
<1> DEFINE rest == Tail(top.locs)
           fr == [top EXCEPT !.locs = rest, !.src.same = TRUE]
           src == fr.src
<1>1. outcome = "running" /\ top.pc = "relocate" /\ top.locs # <<>> /\ Continue(fr) /\ Reading
  BY DEF SkipSource, Relocating, At
<1>2. IsFrame(top) /\ Lives(draft, top.base)
  BY <1>1, TopOK DEF FrameOK
<1>3. /\ Lives(draft, top.c) /\ Listed(draft, top.c, top.locs, op.kind)
      /\ SourceOK(draft, top.base, top.src)
  BY <1>1, RelocatingIs
<1>4. Listed(draft, top.c, rest, op.kind)
  BY <1>1, <1>3, ListedTail
<1> HIDE DEF rest
<1>5. /\ fr.base = top.base /\ fr.c = top.c /\ fr.n = top.n /\ fr.pc = "relocate" /\ fr.locs = rest
      /\ fr.entries = top.entries /\ fr.i = top.i
  BY <1>1, <1>2 DEF IsFrame
<1>6. /\ src.c = top.src.c /\ src.s = top.src.s /\ src.held = top.src.held
      /\ src.attached = top.src.attached
  BY <1>2 DEF IsFrame
<1> HIDE DEF src, fr
<1>7. SourceOK(draft, top.base, src)
  BY <1>3, <1>6 DEF SourceOK
<1>8. FrameOK(draft, fr)
  BY <1>1, <1>2, <1>3, <1>4, <1>5, <1>7, RelocatingFrame DEF src
<1> QED
  BY <1>1, <1>5, <1>8, ReadStep

LEMMA WriteTargetKeepsDraft ==
  ASSUME IInv, WriteTarget
  PROVE  DraftInv' /\ Effect
<1> DEFINE rest == Tail(top.locs)
           still == top.src.attached /\ ~Replaces(top.c, here, top.src.c)
           fr == [top EXCEPT !.locs = rest, !.src.attached = still]
           src == fr.src
           v == HeldNow
<1>1. /\ outcome = "running" /\ top.pc = "relocate" /\ top.locs # <<>> /\ Continue(fr) /\ Writing
      /\ SameType /\ Storable /\ draft' = Written(draft, top.c, here, v)
  BY DEF WriteTarget, Relocating, At
<1>2. IsFrame(top) /\ Lives(draft, top.base)
  BY <1>1, TopOK DEF FrameOK
<1>3. /\ op.kind \in {"move", "copy"} /\ Formed(draft) /\ Pos(top.c) /\ Pos(top.src.c)
      /\ Lives(draft, top.c) /\ Listed(draft, top.c, top.locs, op.kind)
      /\ SourceOK(draft, top.base, top.src)
  BY <1>1, RelocatingIs
<1>4. Slotted(draft, top.c, here, op.kind)
  BY <1>1, <1>3, TailIs DEF Listed, here
<1>5. FitsAt(v, Append(top.c, here))
  <2>1. FitsAt(v, Append(top.src.c, top.src.s))
    BY <1>1, HeldFits
  <2>2. here \notin Field => top.c # <<>>
    BY <1>4, KindsOfContainer DEF Slotted
  <2>3. top.src.s \notin Field => top.src.c # <<>>
    BY <1>3, KindsOfContainer DEF SourceOK, Names
  <2>4. TypeOf(top.c, here) = TypeOf(top.src.c, top.src.s)
    BY <1>1 DEF SameType
  <2>5. Whole(here) \/ Whole(top.src.s) => Whole(here) /\ Whole(top.src.s) /\ Card[here] = "list"
    BY <1>1 DEF Storable
  <2> QED
    BY <1>3, <2>1, <2>2, <2>3, <2>4, <2>5, FitsThere
<1> HIDE DEF v
<1>6. Touches(draft, draft', top.c)
  BY <1>1, <1>3, <1>4, <1>5, WrittenIs
<1>7. \A t : Slotted(draft, top.c, t, op.kind) => Slotted(draft', top.c, t, op.kind)
  BY <1>1, <1>3, <1>4, <1>5, WrittenLeavesSlots
<1>8. Listed(draft', top.c, rest, op.kind)
  BY <1>1, <1>3, <1>7, ListedTail
<1>9. Lives(draft', top.base) /\ Lives(draft', top.c)
  BY <1>1, <1>6, BaseLives DEF Touches
<1>10. still => /\ Lives(draft', top.src.c)
                /\ IsListAt(top.src.c) => Has(draft', Append(top.src.c, top.src.s))
  <2>1. SUFFICES ASSUME still
                 PROVE  /\ Lives(draft', top.src.c)
                        /\ IsListAt(top.src.c) => Has(draft', Append(top.src.c, top.src.s))
    OBVIOUS
  <2>2. /\ ~Replaces(top.c, here, top.src.c) /\ Lives(draft, top.src.c)
        /\ IsListAt(top.src.c) => Has(draft, Append(top.src.c, top.src.s))
    BY <1>3, <2>1 DEF SourceOK
  <2> QED
    BY <1>1, <1>3, <1>4, <1>5, <2>2, SourceKept
<1> HIDE DEF rest, still
<1>11. /\ fr.base = top.base /\ fr.c = top.c /\ fr.n = top.n /\ fr.pc = "relocate" /\ fr.locs = rest
       /\ fr.entries = top.entries /\ fr.i = top.i
  BY <1>1, <1>2 DEF IsFrame
<1>12. src.c = top.src.c /\ src.s = top.src.s /\ src.held = top.src.held /\ src.attached = still
  BY <1>2 DEF IsFrame
<1> HIDE DEF src, fr
<1>13. SourceOK(draft', top.base, src)
  BY <1>3, <1>10, <1>12 DEF SourceOK
<1>14. FrameOK(draft', fr)
  BY <1>1, <1>8, <1>9, <1>11, <1>13, RelocatingFrame DEF src
<1> QED
  BY <1>1, <1>6, <1>11, <1>14, WriteStep

LEMMA ClearKeepsDraft ==
  ASSUME IInv, ClearSource
  PROVE  DraftInv' /\ Effect
<1> DEFINE c == top.src.c
           s == top.src.s
           x == Append(top.c, Unknown)
           fr == [top EXCEPT !.pc = "done"]
<1>1. /\ outcome = "running" /\ top.pc = "relocate" /\ top.locs = <<>> /\ GoTo("done") /\ Writing
      /\ draft' = IF top.src.attached THEN RemovedAt(draft, c, s) ELSE draft
  BY DEF ClearSource, At
<1>2. /\ Formed(draft) /\ Pos(top.c) /\ Pos(c) /\ Lives(draft, top.c)
      /\ SourceOK(draft, top.base, top.src)
  BY <1>1, RelocatingIs
<1>3. CASE ~top.src.attached
  BY <1>1, <1>3, FinishRead DEF Reading
<1>4. CASE top.src.attached
  <2>1. /\ IsPrefix(top.base, c) /\ Names(c, s) /\ Lives(draft, c)
        /\ IsListAt(c) => Has(draft, Append(c, s))
    BY <1>2, <1>4 DEF SourceOK
  <2>2. s # Unknown
    BY <1>2, <2>1, NamesIs
  <2>3. draft' = RemovedAt(draft, c, s)
    BY <1>1, <1>4
  <2> HIDE DEF c, s
  <2>4. Touches(draft, draft', c) /\ (~IsListAt(c) => Beside(draft, draft', c, {s}))
    BY <1>2, <2>1, <2>2, <2>3, RemovedKeeps
  <2>5. Pos(top.base) /\ IsTree(draft) /\ Lives(draft, top.base)
    BY <1>1, <1>2, TopOK DEF FrameOK, Formed, InOrder
  <2>6. Formed(draft') /\ Within(draft, draft', top.base) /\ Lives(draft', top.base)
    BY <1>2, <2>1, <2>4, <2>5, WithinOn, WithinLives DEF Touches
  <2>7. ASSUME ~Clearing(top.c)
        PROVE  Agree(draft, draft', x)
    <3>1. ~IsPrefix(IF IsListAt(c) THEN c ELSE Append(c, s), top.c)
      BY <1>1, <2>7 DEF Clearing, At, c, s
    <3>2. Pos(x)
      BY <1>2, AppendPos
    <3>3. CASE IsListAt(c)
      <4>1. IsPrefix(c, x) => x = c
        BY <1>2, <3>1, <3>3, BelowAppend
      <4> HIDE DEF x
      <4> QED
        BY <2>4, <3>2, <4>1 DEF Touches, Within
    <3>4. CASE ~IsListAt(c)
      <4>1. Pos(Append(c, s)) /\ ~IsPrefix(Append(c, s), top.c)
        BY <1>2, <3>1, <3>4, AppendPos
      <4>2. Append(c, s) # x
        BY <1>2, <2>2, AppendIs
      <4>3. ~IsPrefix(Append(c, s), x)
        BY <1>2, <4>1, <4>2, BelowAppend
      <4> HIDE DEF x
      <4> QED
        BY <2>4, <3>2, <3>4, <4>3 DEF Beside
    <3> QED
      BY <3>3, <3>4
  <2>8. Effect
    BY <2>6, <2>7 DEF Effect
  <2>9. fr.base = top.base /\ FrameOK(draft', fr)
    BY <1>1, <2>6, DoneFrame
  <2>10. Continue(fr) /\ UNCHANGED <<target, outcome, returned>>
    BY <1>1 DEF GoTo, Writing
  <2> HIDE DEF fr
  <2>11. DraftInv'
    BY <1>1, <2>6, <2>9, <2>10, ContinueKeepsDraft
  <2> QED
    BY <2>8, <2>11
<1> QED
  BY <1>3, <1>4

LEMMA RelocationKeepsDraft ==
  ASSUME IInv, Relocation
  PROVE  DraftInv' /\ (outcome' = "running" => Effect)
<1>1. CASE DescendSource \/ ReadSource
  BY <1>1, DescendSourceKeepsDraft, ReadSourceKeepsDraft
<1>2. CASE LoseSource \/ RefuseTarget
  BY <1>2, FailKeepsDraft DEF LoseSource, RefuseTarget
<1>3. CASE SkipSource \/ WriteTarget \/ ClearSource
  BY <1>3, SkipKeepsDraft, WriteTargetKeepsDraft, ClearKeepsDraft
<1>4. CASE KeepSource
  BY <1>4, FinishRead DEF KeepSource, At
<1> QED
  BY <1>1, <1>2, <1>3, <1>4 DEF Relocation

-----------------------------------------------------------------------------
(* The theorems.                                                           *)

LEMMA NextEntryKeepsDraft ==
  ASSUME IInv, NextEntry
  PROVE  DraftInv' /\ Effect
<1> DEFINE m == top.i + 1
           fr == [Frame(top.base, top.entries) EXCEPT !.i = m]
<1>1. outcome = "running" /\ Continue(fr) /\ Reading
  BY DEF NextEntry, At
<1>2. Lives(draft, top.base) /\ Pos(top.base)
  BY <1>1, TopOK DEF FrameOK
<1>3. fr.base = top.base /\ fr.c = top.base /\ fr.n = 1 /\ fr.pc = "path" /\ fr.locs = <<>>
  BY DEF Frame
<1>4. IsPrefix(top.base, top.base)
  BY <1>2, PrefixOrder
<1> HIDE DEF fr
<1>5. FrameOK(draft, fr)
  BY <1>2, <1>3, <1>4 DEF FrameOK, Working
<1> QED
  BY <1>1, <1>3, <1>5, ReadStep

LEMMA EndDeltaKeepsDraft ==
  ASSUME IInv, EndDelta
  PROVE  DraftInv' /\ Effect
<1>1. outcome = "running" /\ stack' = Tail(stack) /\ UNCHANGED <<target, outcome, draft, returned>>
  BY DEF EndDelta, At, Reading, Writing
<1>2. /\ Len(stack) \in Nat \ {0} /\ Len(stack') = Len(stack) - 1
      /\ \A j \in 1 .. Len(stack) - 1 : stack'[j] = stack[j + 1]
  BY <1>1, StackFacts DEF IInv
<1>3. FramesOK
  BY <1>1, TopOK
<1>4. \A j \in 1 .. Len(stack) - 1 : j + 1 \in 1 .. Len(stack) /\ j + 1 > 1
  BY <1>2
<1>5. \A j \in 1 .. Len(stack') : FrameOK(draft', stack'[j]) /\ stack'[j].pc \in {"nest", "done"}
  BY <1>1, <1>2, <1>3, <1>4 DEF FramesOK
<1>6. ASSUME NEW i \in 1 .. Len(stack'), NEW j \in 1 .. Len(stack'), i < j
      PROVE  Beneath(stack'[j], stack'[i].base)
  <2>1. /\ i + 1 \in 1 .. Len(stack) /\ j + 1 \in 1 .. Len(stack) /\ i + 1 < j + 1
        /\ stack'[i] = stack[i + 1] /\ stack'[j] = stack[j + 1]
    BY <1>2, <1>4, <1>6
  <2> QED
    BY <1>3, <2>1 DEF FramesOK
<1>7. FramesOK'
  BY <1>5, <1>6, FramesNext
<1>8. DraftInv'
  BY <1>1, <1>7 DEF DraftInv, IInv
<1> QED
  BY <1>1, <1>8, ReadEffect

LEMMA BeginKeepsDraft ==
  ASSUME IInv, Begin
  PROVE  DraftInv'
<1> DEFINE fr == Frame(<<>>, patch.delta)
<1>1. draft' = target /\ stack' = <<fr>> /\ UNCHANGED <<target, returned>> /\ Formed(target)
  BY DEF Begin, IInv, DraftInv
<1>2. Lives(target, <<>>)
  BY <1>1, KindsOfContainer DEF Formed, InOrder, Lives
<1>3. FrameOK(target, fr)
  BY <1>2, RootPos, InnerFrame
<1> HIDE DEF fr
<1>4. Len(stack') = 1 /\ stack'[1] = fr
  BY <1>1
<1>5. FramesOK'
  <2>1. \A j \in 1 .. Len(stack') : j = 1 /\ ~(j > 1)
    BY <1>4
  <2>2. \A j \in 1 .. Len(stack') : FrameOK(draft', stack'[j])
    <3>1. FrameOK(draft', stack'[1])
      BY <1>1, <1>3, <1>4
    <3> QED
      BY <2>1, <3>1
  <2>3. \A i, j \in 1 .. Len(stack') : ~(i < j)
    BY <1>4
  <2> QED
    BY <2>1, <2>2, <2>3, FramesNext
<1> QED
  BY <1>1, <1>5 DEF DraftInv, IInv

LEMMA InitDraft == Init => IInv
<1> SUFFICES ASSUME Init PROVE DraftInv
  BY InitControl DEF IInv
<1>1. Formed(target)
  BY TargetsAssumption, FormedIsMessage DEF Init
<1> QED
  BY <1>1 DEF Init, DraftInv

LEMMA StepKeepsDraft ==
  ASSUME IInv, [Next]_vars
  PROVE  DraftInv' /\ (outcome = "running" /\ outcome' = "running" => Effect)
<1>1. CASE Refuse \/ RefuseType
  BY <1>1, FailKeepsDraft DEF Refuse, RefuseType
<1>2. CASE Begin
  BY <1>2, BeginKeepsDraft DEF Begin
<1>3. CASE Descend \/ Arrive
  BY <1>3, DescendKeepsDraft, ArriveKeepsDraft
<1>4. CASE LosePath
  BY <1>4, FailKeepsDraft DEF LosePath
<1>5. CASE Select \/ Dispatch
  BY <1>5, SelectKeepsDraft, DispatchKeepsDraft
<1>6. CASE RefuseSelector \/ Vacuous
  BY <1>6, FailKeepsDraft DEF RefuseSelector, Vacuous
<1>7. CASE NothingToDo
  BY <1>7, FinishRead DEF NothingToDo, Expanded, At
<1>8. CASE Relocation
  BY <1>8, RelocationKeepsDraft
<1>9. CASE OnTargets
  BY <1>9, OnTargetsKeepsDraft
<1>10. CASE OnWhole
  BY <1>10, OnWholeKeepsDraft
<1>11. CASE NextEntry \/ EndDelta
  BY <1>11, NextEntryKeepsDraft, EndDeltaKeepsDraft
<1>12. CASE Return
  BY <1>12, OverKeepsDraft DEF Return
<1>13. CASE UNCHANGED vars
  <2>1. UNCHANGED <<target, patch, draft, stack, outcome, err, returned>>
    BY <1>13 DEF vars
  <2>2. DraftInv'
    <3>1. ASSUME outcome = "running"
          PROVE  FramesOK'
      <4>1. FramesOK
        BY <3>1 DEF IInv, DraftInv
      <4> QED
        BY <2>1, <4>1, FramesNext DEF FramesOK
    <3> QED
      BY <2>1, <3>1 DEF IInv, DraftInv
  <2> QED
    BY <2>1, <2>2, ReadEffect
<1>14. CASE Finished
  BY <1>13, <1>14 DEF Finished
<1> QED
  BY <1>1, <1>2, <1>3, <1>4, <1>5, <1>6, <1>7, <1>8, <1>9, <1>10, <1>11, <1>12, <1>13, <1>14
     DEF Next, Navigation, Expansion

LEMMA DraftInvariant == Spec => []IInv
<1>1. IInv /\ [Next]_vars => IInv'
  BY StepKeepsDraft, NextControl DEF IInv
<1> QED
  BY <1>1, InitDraft, PTL DEF Spec

\* The engine is always at an entry of the deltas it applies, and the draft is at
\* every step a document that protobuf can hold, whatever the document does: every
\* container a position lies in is there, a list has no gap, and every value is
\* of its position's type (the handlers of patchproto/apply.go).
THEOREM DraftIsSound == Spec => []TypeOK
<1>1. IInv => DraftOK
  <2> SUFFICES ASSUME IInv PROVE DraftOK
    OBVIOUS
  <2>1. (draft # NoDoc => IsMessage(draft)) /\ (returned # NoDoc => IsMessage(returned))
    BY FormedIsMessage DEF IInv, DraftInv
  <2> QED
    BY <2>1 DEF DraftOK, IsMessage
<1>2. IInv /\ ControlOK => TypeOK
  BY <1>1 DEF TypeOK
<1> QED
  BY <1>2, DraftInvariant, ControlIsSound, PTL

LEMMA FrameOf ==
  ASSUME IInv, NEW j \in DOMAIN stack
  PROVE  /\ FrameOK(draft, stack[j]) /\ IsFrame(stack[j]) /\ Formed(draft)
         /\ Doing(stack[j].pc, stack[j].entries[stack[j].i].op.kind)
<1>1. j \in 1 .. Len(stack) /\ stack[j] \in Range(stack) /\ Len(stack) \in Nat
  BY LenProperties DEF IInv, Inv, CallInv, Range
<1>2. outcome = "running"
  <2>1. stack # <<>>
    BY <1>1, EmptySeq
  <2> QED
    BY <2>1 DEF IInv, Inv, CallInv
<1>3. Formed(draft) /\ FrameOK(draft, stack[j])
  BY <1>1, <1>2 DEF IInv, DraftInv, FramesOK
<1>4. IsFrame(stack[j])
  BY <1>1 DEF IInv, Inv, CallInv
<1>5. AtLayer(stack[j], Len(stack) - j)
  BY <1>1 DEF IInv, Inv, LayerInv
<1> QED
  BY <1>3, <1>4, <1>5 DEF AtLayer

\* Every list position the engine still has to act on is inside the list: the
\* list calls of removeAt, assignAt, nestAt and writeRaw never index out of range
\* (patchproto/apply.go).
THEOREM PositionsStayInRange == Spec => []PositionsInRange
<1>1. IInv => PositionsInRange
  <2> SUFFICES ASSUME IInv, NEW j \in DOMAIN stack,
                      stack[j].pc \in {"remove", "assign", "insert", "nest", "relocate"},
                      IsListAt(stack[j].c), NEW s \in Range(stack[j].locs)
               PROVE  s = AppendSlot \/ s \in 1 .. Length(draft, stack[j].c)
    BY DEF PositionsInRange
  <2> DEFINE fr == stack[j]
             kind == fr.entries[fr.i].op.kind
  <2>1. FrameOK(draft, fr) /\ IsFrame(fr) /\ Formed(draft) /\ Doing(fr.pc, kind) /\ Pos(fr.c)
    BY FrameOf DEF IsFrame
  <2> HIDE DEF fr
  <2>2. kind # "test" /\ fr.pc \in Working
    BY <2>1 DEF Doing, Working, OpKind, fr
  <2>3. Slotted(draft, fr.c, s, kind)
    BY <2>1, <2>2 DEF FrameOK, Listed, fr
  <2>4. CASE s # AppendSlot
    <3>1. Has(draft, Append(fr.c, s)) /\ IsTree(draft)
      BY <2>1, <2>3, <2>4 DEF Slotted, Formed, InOrder, fr
    <3>2. s \in Places(draft, fr.c)
      BY <2>1, <3>1, PlaceIs
    <3> QED
      BY <2>1, <3>2, ListPlaces DEF fr
  <2> QED
    BY <2>4
<1> QED
  BY <1>1, DraftInvariant, PTL

\* A nested delta changes nothing outside the container it is relative to, at any
\* depth and whatever it moves, clears or replaces (nestAt and nestContainer,
\* patchproto/apply.go).
THEOREM NestsStayConfined == Spec => NestConfined
<1> DEFINE Same(q) == q \in DOMAIN draft /\ q \in DOMAIN draft' /\ draft'[q] = draft[q]
<1>1. ASSUME IInv, [Next]_vars, Running,
             NEW q \in Outside(draft, top.base) \cup Outside(draft', top.base)
      PROVE  Same(q)
  <2>1. Effect /\ outcome = "running"
    BY <1>1, StepKeepsDraft DEF Running
  <2>2. Formed(draft) /\ Formed(draft') /\ Within(draft, draft', top.base)
    BY <1>1, <2>1, TopOK DEF Effect
  <2>3. (q \in DOMAIN draft \/ q \in DOMAIN draft') /\ ~IsPrefix(top.base, q)
    BY <1>1 DEF Outside
  <2>4. Pos(q)
    BY <2>2, <2>3, TreePos DEF Formed, InOrder
  <2>5. Agree(draft, draft', q)
    BY <2>2, <2>3, <2>4 DEF Within
  <2> QED
    BY <2>3, <2>5 DEF Agree
<1>2. IInv /\ [Next]_vars =>
        [Running => \A q \in Outside(draft, top.base) \cup Outside(draft', top.base) :
           q \in DOMAIN draft /\ q \in DOMAIN draft' /\ draft'[q] = draft[q]]_vars
  BY <1>1
<1> QED
  BY <1>2, DraftInvariant, PTL DEF Spec, NestConfined

\* No entry discards an unknown field of the container it acts on, neither where
\* it replaces the container's contents nor where it fills them (clearMessage and
\* assignMessage, patchproto/apply.go); only a move that clears what the
\* container lies in takes them along.
THEOREM UnknownFieldsStay == Spec => UnknownKept
<1>1. ASSUME IInv, [Next]_vars, Running, ~Clearing(top.c)
      PROVE  UnknownAt(draft', top.c) = UnknownAt(draft, top.c)
  <2>1. Effect /\ outcome = "running"
    BY <1>1, StepKeepsDraft DEF Running
  <2>2. /\ Formed(draft) /\ Formed(draft') /\ Pos(top.c)
        /\ Agree(draft, draft', Append(top.c, Unknown))
    BY <1>1, <2>1, TopOK DEF Effect
  <2> QED
    BY <2>2, UnknownAgrees DEF UnknownAt
<1>2. IInv /\ [Next]_vars =>
        [Running /\ ~Clearing(top.c) => UnknownAt(draft', top.c) = UnknownAt(draft, top.c)]_vars
  BY <1>1
<1> QED
  BY <1>2, DraftInvariant, PTL DEF Spec, UnknownKept

=============================================================================
