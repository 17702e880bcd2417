------------------------------ MODULE MCWrites ------------------------------
(***************************************************************************)
(* Instances of ReadOnly for TLC: documents that write through every shape *)
(* of field, and policies on every field path of up to three fields.       *)
(***************************************************************************)
EXTENDS MCPatchProto, ReadOnly

Literals == {V0, Vs, Mx, Ma, S!L(<<V1>>), S!Map(<<S!Pair(k2, V1)>>)}

Places2 == {<<>>, <<S!F(m)>>, <<S!F(b)>>, <<S!F(n), S!I(0)>>, <<S!F(q), S!K(k1)>>, <<S!F(m), S!F(b)>>}

\* One entry on a field, an element or an entry, with and without CREATE.
OnFields ==
  {S!On(p, <<t>>, v) :
     p \in Places2,
     t \in {Fld(f) : f \in {x, z, m, a, b, l, q, undeclared, conflicting}} \cup {S!Member(o), S!Member(synthetic), S!Member(none)},
     v \in {S!Remove, S!CopyHere(S!F(m)), S!MoveHere(S!F(x)), S!Move(<<S!F(b)>>, S!F(m)),
            S!Move(<<>>, S!F(b)), S!Nest(<<S!On(<<>>, <<Fld(x)>>, S!Assign(V0))>>),
            S!Nest(<<S!On(<<>>, <<Fld(l)>>, S!TestExists(FALSE))>>)}
           \cup {S!Assign(u) : u \in Literals}}

OnElements ==
  {S!On(<<S!F(f)>>, <<t>>, v) :
     f \in {l, n, k, q, x},
     t \in {Idx(0), S!AtEnd, S!Span(<<1>>, <<>>), Ent(k1), S!Every, Fld(x)},
     v \in {S!Remove, S!Assign(V0), S!Insert(Mx), S!Move(<<>>, S!F(m)), S!CopyHere(S!I(-1)), S!MoveHere(S!K(k1)),
            S!Move(<<S!F(m), S!F(x)>>, S!F(a)), S!Move(<<S!F(b), S!F(l)>>, S!I(0)),
            S!Nest(<<S!On(<<>>, <<Fld(x)>>, S!Move(<<>>, S!F(z)))>>),
            S!Nest(<<S!Creating(S!On(<<S!F(m), S!F(b)>>, <<Fld(a)>>, S!Assign(V0)))>>)}}

Entries == OnFields \cup OnElements

WritesPatches ==
  One(Entries \cup {S!Creating(v) : v \in Entries} \cup {S!Skipping(v) : v \in OnElements} \cup Wholes)
    \cup {S!Doc(d) : d \in Pairs} \cup One(UNION {Nests(<<v>>) : v \in Parts \cup OnElements})
    \cup {[S!Doc(<<Plain>>) EXCEPT !.message_type = v] : v \in {<<msg>>, <<str>>}}

\* What a nest does to the member of the oneof that is set, which is the message b.
OneofPatches ==
  One({S!On(<<>>, <<S!Member(o)>>, S!Nest(<<v>>)) : v \in {S!On(<<>>, <<Fld(x)>>, S!Assign(V0))} \cup Parts})

MemberSet == {S!Deep}

MCPolicies == UNION {[1 .. i -> S!Fields] : i \in 0 .. 2}
                \cup {<<f, g, h>> : f \in {m, b, n, q}, g \in {m, b}, h \in S!Fields}

=============================================================================
