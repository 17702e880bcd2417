---------------------------- MODULE MCPatchProto ----------------------------
(***************************************************************************)
(* Instances of PatchProto for TLC: its constants, and the documents each  *)
(* run applies.                                                            *)
(***************************************************************************)
EXTENDS PatchProto, TLC

CONSTANTS
  x, y, z, m, a, b, e, l, n, k, q, o, k1, k2, zero, one, text,
  int, str, msg, none, unknown, undeclared,
  noSlot, appendSlot, conflicting, synthetic

S == INSTANCE MCSchema

MCField   == S!Fields
MCCard    == S!Cards
MCType    == S!Types
MCOneofOf == S!Oneofs
MCKind    == S!Kinds
Everyone  == {S!Bare, S!Full, S!Deep}
Wide      == {S!Full, S!Deep}

V0 == S!Lit(zero)
V1 == S!Lit(one)
Vs == S!Lit(text)
Mx == S!M((<<>> :> msg) @@ (<<x>> :> one))
Ma == S!M((<<>> :> msg) @@ (<<a>> :> one) @@ (<<l, 1>> :> zero))

Fld(f) == S!Sel(S!F(f))
Idx(i) == S!Sel(S!I(i))
Ent(v) == S!Sel(S!K(v))


Stores(vs)  == {S!Assign(v) : v \in vs} \cup {S!Insert(v) : v \in vs}
Asserts(vs) == {S!TestValue(v) : v \in vs} \cup {S!TestExists(TRUE), S!TestExists(FALSE)}
Basics(vs)  == {S!Remove} \cup Stores(vs) \cup Asserts(vs)
Both(es)    == es \cup {S!Skipping(v) : v \in es}

One(es) == {S!Doc(<<v>>) : v \in es}

-----------------------------------------------------------------------------
(* One entry on a container as a whole, and the ways a path can go.        *)

Wholes ==
  {S!Whole(p, v) :
     p \in {<<>>, <<S!F(m)>>, <<S!F(b)>>, <<S!F(q), S!K(k2)>>, <<S!F(n), S!I(-1)>>},
     v \in Basics({S!M(<<>> :> msg), Mx, Ma, S!BadM("VacantTarget"), S!BadM("DuplicateTarget"), S!L(<<>>)})}
  \cup {S!Whole(<<S!F(f)>>, v) :
     f \in {l, n},
     v \in Basics({S!L(<<>>), S!L(<<V1, V0>>), S!L(<<V1>>), S!L(<<Mx>>), S!L(<<V0, Vs>>), Mx})}
  \cup {S!Whole(<<S!F(f)>>, v) :
     f \in {k, q},
     v \in Basics({S!Map(<<>>), S!Map(<<S!Pair(k1, V1)>>), S!Map(<<S!Pair(k2, Mx)>>), S!Map(<<S!Pair(zero, V1)>>),
                   S!Map(<<S!Pair(k2, V1), S!Pair(k2, V1)>>), S!Map(<<S!Pair(k1, V1), S!Pair(k2, V0)>>), V1})}

Strays ==
  {S!On(p, <<Fld(x)>>, S!Assign(V0)) :
     p \in {<<S!F(x)>>, <<S!I(0)>>, <<S!F(n), S!I(4)>>, <<S!F(n), S!F(x)>>, <<S!F(l), S!I(0)>>,
            <<S!F(q), S!K(k2)>>, <<S!F(q), S!K(zero)>>, <<S!F(k), S!K(k1)>>, <<S!F(q), S!I(0)>>,
            <<S!F(conflicting)>>, <<S!F(undeclared)>>, <<S!F(m), S!F(m), S!F(b)>>}}

ContainerPatches == One(Wholes \cup Strays \cup {S!Creating(v) : v \in Wholes \cup Strays})

-----------------------------------------------------------------------------
(* Documents of several entries, and nests.                                *)

Parts ==
  {S!On(<<>>, <<Fld(a)>>, S!Assign(V0)),
   S!On(<<S!F(l)>>, <<Idx(0)>>, S!Remove),
   S!On(<<S!F(l)>>, <<S!AtEnd, Idx(0)>>, S!Insert(V1)),
   S!On(<<S!F(m)>>, <<Fld(m)>>, S!Move(<<>>, S!F(m))),
   S!On(<<>>, <<Fld(m)>>, S!Move(<<S!F(m)>>, S!F(m))),
   S!On(<<S!F(n)>>, <<S!AtEnd>>, S!Copy(<<>>, S!F(m))),
   S!On(<<>>, <<Fld(e)>>, S!Move(<<S!F(b), S!F(l)>>, S!I(0))),
   S!On(<<S!F(n), S!I(1)>>, <<Fld(m)>>, S!Move(<<S!F(n)>>, S!I(0))),
   S!Skipping(S!On(<<S!F(q)>>, <<Ent(k1), Ent(k2)>>, S!Remove)),
   S!Creating(S!On(<<S!F(b)>>, <<Fld(x)>>, S!Assign(V1))),
   S!On(<<S!F(m)>>, <<Fld(y)>>, S!Insert(Vs)),
   S!On(<<S!F(l)>>, <<S!Span(<<1>>, <<>>)>>, S!TestExists(TRUE)),
   S!On(<<>>, <<Fld(x), Fld(z)>>, S!Copy(<<>>, S!F(x))),
   S!On(<<>>, <<Fld(x)>>, S!TestExists(TRUE)),
   S!On(<<S!F(l)>>, <<Idx(0)>>, S!TestValue(V0)),
   S!Whole(<<>>, S!Assign(Ma)),
   S!Whole(<<S!F(l)>>, S!Remove)}

Nests(d) ==
  {S!On(<<>>, <<Fld(m), Fld(b)>>, S!Nest(d)),
   S!Skipping(S!On(<<S!F(n)>>, <<Idx(0), Idx(1)>>, S!Nest(d))),
   S!On(<<S!F(q)>>, <<S!Every>>, S!Nest(d)),
   S!Whole(<<S!F(m)>>, S!Nest(d))}

NestMore ==
  {S!On(<<>>, <<Fld(y)>>, S!CopyHere(S!F(x))), S!On(<<>>, <<Fld(x)>>, S!Nest(<<S!On(<<>>, <<Fld(x)>>, S!Remove)>>)),
   S!On(<<>>, <<Fld(m)>>, S!Nest(<<S!On(<<>>, <<Fld(x), Fld(y)>>, S!Assign(V0))>>)),
   S!On(<<>>, <<Fld(l)>>, S!Nest(<<S!On(<<>>, <<Idx(0)>>, S!Remove), S!On(<<>>, <<S!AtEnd>>, S!Insert(V0))>>)),
   S!On(<<S!F(l)>>, <<Idx(0)>>, S!Nest(<<S!On(<<>>, <<Fld(x)>>, S!Remove)>>))}

Pairs == {<<v, w>> : v \in Parts, w \in Parts}
Inner == Nests(<<S!On(<<>>, <<Fld(m)>>, S!Nest(<<S!On(<<>>, <<Fld(x)>>, S!Remove)>>))>>)

SequencePatches ==
  {S!Doc(d) : d \in Pairs} \cup One(UNION {Nests(d) : d \in Pairs} \cup NestMore)
    \cup One(Inner) \cup One(UNION {Nests(<<v>>) : v \in Inner})

-----------------------------------------------------------------------------
(* Documents that are refused before the target is looked at, and, beside  *)
(* each, one that is not.                                                  *)

Plain == S!On(<<>>, <<Fld(x)>>, S!Assign(V0))
Bad(v) == [Plain EXCEPT !.op = v]
DeepL == S!L(<<S!M((<<>> :> msg) @@ (<<m>> :> msg) @@ (<<m, l, 1>> :> one))>>)

OddEntries ==
  {Plain, Bad([kind |-> "unset"]), [Plain EXCEPT !.scope = "unset"], [Plain EXCEPT !.targets = <<>>],
   [Plain EXCEPT !.targets = <<S!AtEnd>>], S!Whole(<<>>, S!MoveHere(S!F(x))),
   S!Skipping(Bad(S!TestExists(FALSE))), S!Creating(S!On(<<S!F(b)>>, <<Fld(x)>>, S!TestExists(FALSE))),
   Bad([kind |-> "test", want |-> "unset"]), Bad(S!Nest(<<>>)), Bad(S!Assign(DeepL))}

Chain(v) == S!Whole(<<>>, S!Nest(<<v>>))

RefusedPatches ==
  One(OddEntries \cup {Chain(v) : v \in OddEntries} \cup {Chain(Chain(v)) : v \in OddEntries}
      \cup {Chain(Chain(Chain(Plain)))})
  \cup {S!Doc(<<>>), S!Doc(<<Plain, Chain(Bad(S!Nest(<<>>)))>>)}
  \cup {[S!Doc(<<v>>) EXCEPT !.unknown = TRUE] : v \in OddEntries}
  \cup {[S!Doc(<<v>>) EXCEPT !.revision = 1] : v \in OddEntries}
  \cup {[S!Doc(<<v>>) EXCEPT !.message_type = <<msg>>] : v \in OddEntries}
  \cup {[S!Doc(<<v>>) EXCEPT !.message_type = <<str>>] : v \in OddEntries}

-----------------------------------------------------------------------------

MCDocuments == ContainerPatches \cup SequencePatches \cup RefusedPatches

=============================================================================
