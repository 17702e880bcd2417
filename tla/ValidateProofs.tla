--------------------------- MODULE ValidateProofs ---------------------------
(***************************************************************************)
(* What a document that is not refused is known to be, at every depth of   *)
(* nesting and under every limit.                                          *)
(***************************************************************************)
EXTENDS Validate, WellFoundedInduction, TLAPS

-----------------------------------------------------------------------------
(* Layers is defined by recursion on the depth.  That the recursion has a  *)
(* solution at every depth is shown from the least depth at which it would *)
(* have none.                                                              *)

IsLayering(f, delta, n) ==
  f = [j \in 0 .. n |-> IF j = 0 THEN Range(delta) ELSE Nested(f[j - 1])]

LEMMA LayeringExists ==
  ASSUME NEW delta, NEW n \in Nat
  PROVE  \E f : IsLayering(f, delta, n)
<1> DEFINE T == {j \in Nat : ~\E f : IsLayering(f, delta, j)}
<1> SUFFICES ASSUME T # {} PROVE FALSE
  OBVIOUS
<1>1. PICK least \in T : \A j \in T : ~(j < least)
  <2>1. IsWellFoundedOn(OpToRel(<, Nat), Nat)
    BY NatLessThanWellFounded
  <2>2. PICK least \in T : \A j \in T : <<j, least>> \notin OpToRel(<, Nat)
    BY <2>1, WFMin
  <2> QED
    BY <2>2 DEF OpToRel
<1>2. least \in Nat /\ ~\E f : IsLayering(f, delta, least)
  BY <1>1
<1>3. CASE least = 0
  <2> DEFINE g == [j \in 0 .. 0 |-> Range(delta)]
  <2>1. IsLayering(g, delta, 0)
    BY DEF IsLayering
  <2> QED
    BY <1>2, <1>3, <2>1
<1>4. CASE least # 0
  <2>1. least - 1 \in Nat /\ least - 1 \notin T
    BY <1>1, <1>2, <1>4
  <2>2. PICK f : IsLayering(f, delta, least - 1)
    BY <2>1
  <2> DEFINE g == [j \in 0 .. least |-> IF j = least THEN Nested(f[least - 1]) ELSE f[j]]
  <2>3. \A j \in 0 .. least - 1 : f[j] = IF j = 0 THEN Range(delta) ELSE Nested(f[j - 1])
    BY <2>1, <2>2 DEF IsLayering
  <2>4. ASSUME NEW j \in 0 .. least
        PROVE  g[j] = IF j = 0 THEN Range(delta) ELSE Nested(g[j - 1])
    <3>1. CASE j = least
      BY <3>1, <1>2, <1>4
    <3>2. CASE j # least
      BY <3>2, <1>2, <1>4, <2>3
    <3> QED
      BY <3>1, <3>2
  <2>5. IsLayering(g, delta, least)
    BY <2>4 DEF IsLayering
  <2> QED
    BY <1>2, <2>5
<1> QED
  BY <1>3, <1>4

\* The equations of Layers.
LEMMA LayersDef ==
  ASSUME NEW delta
  PROVE  /\ DOMAIN Layers(delta) = 0 .. NestDepth
         /\ Layers(delta)[0] = Range(delta)
         /\ \A n \in 1 .. NestDepth : Layers(delta)[n] = Nested(Layers(delta)[n - 1])
<1>1. \E f : IsLayering(f, delta, NestDepth)
  BY LayeringExists, LimitsAssumption
<1>2. IsLayering(Layers(delta), delta, NestDepth)
  BY <1>1 DEF Layers, IsLayering
<1> QED
  BY <1>2, LimitsAssumption DEF IsLayering

LEMMA LayerInEntries ==
  ASSUME NEW delta, NEW n \in 0 .. NestDepth
  PROVE  Layers(delta)[n] \subseteq EntriesOf(delta)
BY LayersDef DEF EntriesOf, Range

-----------------------------------------------------------------------------
(* A document without a fault.                                             *)

LEMMA ValidDocument ==
  ASSUME NEW p, DocumentFaults(p) = {}
  PROVE  /\ ~TooDeep(p.delta)
         /\ p.delta # <<>>
         /\ \A e \in EntriesOf(p.delta) : EntryFault(e) = "ok"
<1>1. ~TooDeep(p.delta)
  BY Zenon DEF DocumentFaults
<1>2. p.delta # <<>>
  BY Zenon DEF DocumentFaults
<1>3. {EntryFault(e) : e \in EntriesOf(p.delta)} \ {"ok"} = {}
  BY <1>1, <1>2, Zenon DEF DocumentFaults
<1> QED
  BY <1>1, <1>2, <1>3

LEMMA ValidEntry ==
  ASSUME NEW e, EntryFault(e) = "ok"
  PROVE  /\ e.op.kind # "unset"
         /\ e.op.kind = "nest" => e.op.delta # <<>>
BY Zenon DEF EntryFault

\* A nest in a document that is not refused lies less than NestDepth deep, and
\* its entries one layer further down.
THEOREM NestIsShallow ==
  ASSUME NEW p, DocumentFaults(p) = {},
         NEW n \in 0 .. NestDepth, NEW e \in Layers(p.delta)[n], e.op.kind = "nest"
  PROVE  /\ n < NestDepth
         /\ e.op.delta # <<>>
         /\ Range(e.op.delta) \subseteq Layers(p.delta)[n + 1]
<1>1. ~TooDeep(p.delta) /\ \A f \in EntriesOf(p.delta) : EntryFault(f) = "ok"
  BY ValidDocument
<1>2. n # NestDepth
  BY <1>1 DEF TooDeep
<1>3. n < NestDepth /\ n + 1 \in 1 .. NestDepth
  BY <1>2, LimitsAssumption
<1>4. Layers(p.delta)[n + 1] = Nested(Layers(p.delta)[n])
  BY <1>3, LayersDef
<1>5. Range(e.op.delta) \subseteq Nested(Layers(p.delta)[n])
  BY DEF Nested
<1>6. e.op.delta # <<>>
  BY <1>1, LayerInEntries, ValidEntry
<1> QED
  BY <1>3, <1>4, <1>5, <1>6

=============================================================================
