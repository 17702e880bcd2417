-------------------------- MODULE MCEntryContract --------------------------
(***************************************************************************)
(* Instances of EntryContract for TLC: documents of one entry on targets.  *)
(***************************************************************************)
EXTENDS MCPatchProto, EntryContract

-----------------------------------------------------------------------------
(* One entry that writes or tests positions of a container.                *)

InMessages ==
  {S!On(p, ts, v) :
     p \in {<<>>, <<S!F(q), S!K(k1)>>},
     ts \in {<<Fld(x)>>, <<Fld(z)>>, <<Fld(m)>>, <<Fld(l)>>, <<Fld(k)>>, <<Fld(z), Fld(x), Fld(undeclared)>>,
             <<S!Member(o)>>, <<S!Member(o), Fld(b)>>, <<Fld(a), Fld(e)>>, <<Fld(conflicting)>>,
             <<S!Member(synthetic)>>, <<S!Member(undeclared)>>, <<Idx(0)>>},
     v \in Basics({V0, Vs, Mx, S!BadM("VacantTarget"), S!L(<<V0, V1>>), S!L(<<V1, Vs>>),
                   S!Map(<<S!Pair(k1, V0), S!Pair(k2, V1)>>), S!Map(<<S!Pair(k1, V0), S!Pair(k1, V0)>>)})}

InLists ==
  {S!On(<<S!F(f)>>, ts, v) :
     f \in {l, n},
     ts \in {<<Idx(0)>>, <<Idx(0), Idx(-1)>>, <<Idx(-1), Idx(-2)>>, <<Idx(5), Idx(0)>>, <<S!Every>>, <<Fld(x)>>,
             <<S!Span(<<>>, <<>>)>>, <<Idx(1), S!Span(<<>>, <<-1>>)>>, <<S!Span(<<0>>, <<0>>)>>},
     v \in Basics({V0, Vs, Mx})}
  \cup {S!On(<<S!F(f)>>, ts, S!Insert(v)) :
     f \in {l, n}, ts \in {<<Idx(1), S!AtEnd, Idx(0)>>, <<S!AtEnd>>}, v \in {V0, Mx}}

InMaps ==
  {S!On(<<S!F(f)>>, ts, v) :
     f \in {k, q},
     ts \in {<<Ent(k1)>>, <<Ent(k2), Ent(k1)>>, <<S!Every>>, <<S!Every, Ent(k1)>>, <<Ent(zero)>>, <<S!Span(<<>>, <<>>)>>},
     v \in Basics({V0, Mx, S!BadM("FieldConflict")})}

TargetPatches == One(Both(InMessages \cup InLists \cup InMaps))

-----------------------------------------------------------------------------
(* One entry that moves or copies.                                         *)

Froms(ks, ls) ==
  {S!MoveHere(s) : s \in ks} \cup {S!CopyHere(s) : s \in ks}
    \cup {S!Move(s[1], s[2]) : s \in ls} \cup {S!Copy(s[1], s[2]) : s \in ls}

Far ==
  {<<<<>>, S!F(x)>>, <<<<>>, S!F(m)>>, <<<<>>, S!F(b)>>, <<<<>>, S!F(l)>>, <<<<S!F(m)>>, S!F(m)>>,
   <<<<S!F(n)>>, S!I(0)>>, <<<<S!F(l)>>, S!I(0)>>, <<<<S!F(q)>>, S!K(k1)>>, <<<<S!F(b), S!F(l)>>, S!I(0)>>,
   <<<<S!F(e)>>, S!F(x)>>}

Relocations ==
  {S!On(p, ts, v) :
     p \in {<<>>, <<S!F(m)>>, <<S!F(n), S!I(0)>>},
     ts \in {<<Fld(x), Fld(z)>>, <<Fld(m)>>, <<Fld(m), Fld(b)>>, <<Fld(a), Fld(e)>>, <<Fld(y)>>, <<S!Member(o)>>},
     v \in Froms({S!F(x), S!F(y), S!F(a), S!F(m), S!F(undeclared), S!F(conflicting), S!I(0)}, Far)}
  \cup {S!On(p, ts, v) :
     p \in {<<S!F(l)>>, <<S!F(n)>>, <<S!F(b), S!F(l)>>},
     ts \in {<<Idx(0)>>, <<Idx(1), S!AtEnd>>, <<S!AtEnd>>, <<S!Span(<<>>, <<>>)>>},
     v \in Froms({S!I(0), S!I(-1), S!I(7)}, Far)}
  \cup {S!On(<<S!F(f)>>, ts, v) :
     f \in {k, q}, ts \in {<<Ent(k1)>>, <<Ent(k2)>>, <<Ent(k2), Ent(k1)>>},
     v \in Froms({S!K(k1), S!K(k2)}, Far)}
  \cup {S!Creating(S!On(<<S!F(b)>>, <<Fld(m)>>, v)) : v \in Froms({S!F(x)}, Far)}

RelocationPatches == One(Relocations)

-----------------------------------------------------------------------------

MCEntries == TargetPatches \cup RelocationPatches

MCPatches == MCEntries \cup MCDocuments

\* A message taken out of another that takes its place finds one of its own name in it.
MCTargets == {S!Bare, S!Full, S!Deep @@ (<<m, m, m>> :> msg)}

=============================================================================
