----------------------------- MODULE MCNormalize -----------------------------
(***************************************************************************)
(* Instances of Normalize for TLC: the documents each run rewrites.        *)
(***************************************************************************)
EXTENDS Normalize, TLC

CONSTANTS
  x, y, z, m, a, b, e, l, n, k, q, o, k1, k2, zero, one, two, three, text,
  int, str, msg, none, unknown, undeclared,
  noSlot, appendSlot, conflicting, synthetic

S == INSTANCE MCSchema

MCField   == S!Fields
MCCard    == S!Cards
MCType    == S!Types
MCOneofOf == S!Oneofs
MCKind    == [s \in Scalar |-> IF s = text THEN str ELSE int]

Named(f)    == [arm |-> "field", field |-> f, by |-> {"name"}]
Numbered(f) == [arm |-> "field", field |-> f, by |-> {"number"}]
FL == Named(l)
FN == Named(n)
FB == Named(b)

Fld(f) == S!Sel(Named(f))
Idx(i) == S!Sel(S!I(i))
Num(v) == [arm |-> int, scalar |-> v]
Set(v) == S!Assign(Num(v))
Put(v) == S!Insert(Num(v))

Rem(p, i)    == S!On(p, <<Idx(i)>>, S!Remove)
Ins(p, i, v) == S!On(p, <<Idx(i)>>, Put(v))
Asg(p, i, v) == S!On(p, <<Idx(i)>>, Set(v))

-----------------------------------------------------------------------------
(* One list, by single indices and by several.                             *)

Ones == {Rem(<<FL>>, i) : i \in 0 .. 2} \cup {Asg(<<FL>>, i, zero) : i \in 0 .. 1}
          \cup {Ins(<<FL>>, i, three) : i \in 0 .. 1}

Several ==
  {S!On(<<FL>>, <<Idx(2), Idx(0)>>, S!Remove), S!On(<<FL>>, <<Idx(0), Idx(2)>>, Put(zero)),
   S!On(<<FL>>, <<Idx(1), Idx(2)>>, S!Remove), S!On(<<FL>>, <<Idx(0), Idx(1)>>, Set(zero)),
   S!On(<<FL>>, <<Idx(0), Idx(1)>>, Put(two)), Rem(<<FL>>, 3), Asg(<<FL>>, 3, zero)}

-----------------------------------------------------------------------------
(* What is left alone, and what is beside, above and below a list.         *)

LeftAlone ==
  {S!Skipping(Rem(<<FL>>, 0)), Rem(<<FL>>, -1), S!On(<<FL>>, <<S!AtEnd>>, Put(zero)),
   S!On(<<FL>>, <<S!Span(<<>>, <<1>>)>>, S!Remove),
   S!On(<<FL>>, <<Idx(0)>>, S!TestValue(Num(two))), S!On(<<>>, <<Fld(x)>>, S!TestExists(TRUE)),
   S!Whole(<<FL>>, S!Remove), S!On(<<FL>>, <<Idx(0), Fld(x)>>, S!Remove),
   S!On(<<FL>>, <<Idx(0)>>, S!Copy(<<>>, Named(x))), S!Creating(Asg(<<FL>>, 0, zero))}

Around ==
  {S!On(<<>>, <<Fld(x)>>, Set(zero)), Asg(<<Numbered(l)>>, 0, zero),
   S!On(<<>>, <<Fld(l)>>, S!Remove), S!On(<<>>, <<Fld(l)>>, S!Assign(S!L(<<Num(two)>>))),
   S!On(<<>>, <<Fld(l)>>, S!Nest(<<Rem(<<>>, 0), Asg(<<>>, 0, zero)>>)),
   Rem(<<FB, FL>>, 0), Asg(<<FB, FL>>, 0, zero), S!On(<<>>, <<Fld(b)>>, S!Remove),
   S!On(<<>>, <<Fld(b)>>, S!Nest(<<Rem(<<FL>>, 0)>>)),
   S!On(<<Named(k)>>, <<S!Sel(S!K(k1))>>, Set(two)), S!On(<<Named(k)>>, <<S!Sel(S!K(k2))>>, Put(two)),
   Rem(<<FN>>, 0), Rem(<<FN>>, 1), S!On(<<FN, S!I(0)>>, <<Fld(x)>>, Set(zero)),
   S!On(<<FN, S!I(1)>>, <<Fld(x)>>, S!Remove), Rem(<<FN, S!I(0), FL>>, 0), Asg(<<FN, S!I(0), FL>>, 1, zero),
   S!On(<<FN>>, <<Idx(0), Idx(1)>>, S!Nest(<<S!On(<<>>, <<Fld(x)>>, S!Remove), Rem(<<FL>>, 0)>>)),
   S!On(<<FN>>, <<Idx(0)>>, S!Insert(S!M(<<>> :> msg))),
   Rem(<<Named(q), S!K(k1), FL>>, 0), S!On(<<Named(q)>>, <<S!Sel(S!K(k2))>>, S!Assign(S!M(<<>> :> msg))),
   S!On(<<Named(q)>>, <<S!Sel(S!K(k1))>>, S!Remove),
   S!Whole(<<FB>>, S!Nest(<<Rem(<<FL>>, 0), Asg(<<FL>>, 0, zero)>>))}

Crossing == {S!On(<<>>, <<Fld(a)>>, Set(one)), S!On(<<>>, <<Fld(a)>>, S!Remove), S!On(<<FB>>, <<Fld(a)>>, Set(one))}

Various == Ones \cup Several \cup LeftAlone \cup Around \cup Crossing

InM(d) == S!On(<<>>, <<Fld(m)>>, S!Nest(d))

Pairs   == {S!Doc(<<v, w>>) : v \in Various, w \in Various}
Triples == {S!Doc(<<v, w, u>>) : v \in Ones, w \in Ones \cup LeftAlone \cup Around, u \in Ones \cup Several}
Quads   == {S!Doc(<<v, w, u, t>>) : v \in Ones, w \in Ones, u \in Ones, t \in Ones}

Rewrites ==
  Pairs \cup Triples \cup Quads
    \cup {S!Doc(<<InM(<<v, w>>), u>>) : v \in Ones, w \in Ones, u \in Ones}
    \cup {S!Doc(<<InM(<<InM(<<v, w, u>>)>>)>>) : v \in Ones, w \in Ones, u \in Ones}
    \cup {S!Doc(<<>>), [S!Doc(<<Rem(<<FL>>, 0)>>) EXCEPT !.unknown = TRUE]}

\* The set by its name, which TLC evaluates once.
MCRewritten == Rewrites

MCCrossing == {S!Doc(<<Rem(<<FB, FL>>, 0), v>>) : v \in Around \cup Crossing}

=============================================================================
