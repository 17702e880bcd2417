------------------------------- MODULE MCJson -------------------------------
(***************************************************************************)
(* Instances of PatchJson for TLC: a few JSON values, and the documents    *)
(* that are applied to them.                                               *)
(***************************************************************************)
EXTENDS JsonContract

CONSTANTS
  foo, bar, baz,            (* member names                                *)
  six, sixPoint, text, null, nan, (* 6, 6.0, a string, null, NaN           *)
  object, array, pointer    (* marks                                       *)

S == INSTANCE MCForms

Int6   == [arm |-> "i32", scalar |-> six]
Float6 == [arm |-> "f64", scalar |-> six]
NaN    == [arm |-> "f64", scalar |-> nan]
Text   == [arm |-> "s", scalar |-> text]

MCJsonOf == (Int6 :> six) @@ (Float6 :> six) @@ (Text :> text)
MCAlike  == [v \in {six, sixPoint, text, null} |-> IF v = sixPoint THEN six ELSE v]

F(v)  == [arm |-> "field", name |-> <<v>>, json_name |-> <<>>, number |-> FALSE]
JF(v) == [F(v) EXCEPT !.name = <<>>, !.json_name = <<v>>]
BadF  == {[F(foo) EXCEPT !.json_name = <<bar>>], [F(foo) EXCEPT !.number = TRUE], S!K(six)}

Fld(v) == S!Sel(F(v))
Key(v) == S!Sel(S!K(v))
Idx(i) == S!Sel(S!I(i))

\* { foo: [ 6.0, "text", null ], bar: { baz: 6, foo: [ ] }, baz: "text" }
Members3 ==
  (<<>> :> object) @@ (<<foo>> :> array) @@ (<<foo, 1>> :> sixPoint) @@ (<<foo, 2>> :> text)
  @@ (<<foo, 3>> :> null) @@ (<<bar>> :> object) @@ (<<bar, baz>> :> six) @@ (<<bar, foo>> :> array)
  @@ (<<baz>> :> text)

\* [ 6, [ "text", 6 ], { foo: 6, bar: { } } ]
Elements3 ==
  (<<>> :> array) @@ (<<1>> :> six) @@ (<<2>> :> array) @@ (<<2, 1>> :> text) @@ (<<2, 2>> :> six)
  @@ (<<3>> :> object) @@ (<<3, foo>> :> six) @@ (<<3, bar>> :> object)

MCExpected == <<foo>>

MCTargets == {Members3, Elements3, <<>> :> six}
Arrays    == {Elements3}

ObjectLit(v, u) == [arm |-> "m", fields |-> <<S!Pair(F(v), u)>>]
MapLit(v, u)    == S!Map(<<S!Pair(S!K(v), u)>>)
List(s)         == S!L(s)

Lits == {Int6, NaN, Text, List(<<Float6, Text>>), ObjectLit(foo, List(<<Int6>>)), MapLit(baz, Text),
         [arm |-> "m", fields |-> <<S!Pair(F(foo), Int6), S!Pair(JF(foo), Int6)>>],
         List(<<ObjectLit(bar, NaN)>>)}

Doc(d) == [message_type |-> <<>>, faults |-> {}, delta |-> d]
One(es) == {Doc(<<v>>) : v \in es}

Both(es) == es \cup {S!Skipping(v) : v \in es}
WithPath(es) == es \cup {S!Creating(v) : v \in es}

-----------------------------------------------------------------------------
(* One entry.                                                              *)

Paths == {<<>>, <<F(foo)>>, <<F(bar)>>, <<S!K(bar), JF(foo)>>, <<S!I(1)>>, <<S!I(-1)>>}

Basics == {S!Remove, S!Insert(Int6), S!Assign(List(<<Int6>>)), S!TestExists(TRUE), S!TestExists(FALSE),
           S!TestValue(Float6), S!Nest(<<S!Whole(<<>>, S!Remove)>>)}

Selected ==
  {<<Fld(bar)>>, <<Fld(baz)>>, <<Key(foo), Fld(bar)>>, <<S!Every>>, <<S!Every, Fld(foo)>>, <<Idx(0)>>, <<Idx(-1), Idx(0)>>,
   <<Idx(7)>>, <<S!Span(<<>>, <<2>>)>>, <<S!Span(<<1>>, <<1>>)>>, <<S!Member(foo)>>}
  \cup {<<S!Sel(v)>> : v \in BadF}

Targeted ==
  {S!On(p, ts, v) : p \in Paths, ts \in Selected, v \in Basics}
  \cup {S!On(<<>>, <<Fld(foo)>>, S!Assign(v)) : v \in Lits}
  \cup {S!On(<<>>, <<Fld(foo)>>, S!TestValue(v)) : v \in Lits \cup {List(<<Int6, Text, Text>>)}}
  \cup {S!On(p, <<Idx(-1), S!AtEnd, Idx(0)>>, S!Insert(v)) : p \in Paths, v \in Lits}

Origins == {<<>>, <<F(foo)>>, <<F(bar)>>, <<S!I(1)>>, <<S!I(2)>>}

Relocations ==
  UNION {
    {S!On(p, ts, S!MoveHere(v)), S!On(p, ts, S!CopyHere(v)), S!On(p, ts, S!Move(f, v)), S!On(p, ts, S!Copy(f, v))} :
      p \in Paths, f \in Origins, v \in {F(bar), F(foo), S!I(0), S!I(1)},
      ts \in {<<Fld(foo)>>, <<Fld(bar), Fld(baz)>>, <<Idx(0), Idx(1)>>, <<S!AtEnd, Idx(0)>>, <<Idx(2), S!AtEnd>>}}

Wholes ==
  {S!Whole(p, v) : p \in Paths \cup {<<F(baz), F(foo)>>, <<F(bar), F(bar)>>},
     v \in {S!Remove, S!TestExists(TRUE), S!TestExists(FALSE), S!Nest(<<S!Whole(<<>>, S!Remove)>>)}
           \cup {S!Assign(u) : u \in Lits} \cup {S!Insert(u) : u \in Lits}
           \cup {S!TestValue(u) : u \in Lits \cup {List(<<Text, Int6>>)}}}

SingleEntries == One(Both(Targeted) \cup Relocations \cup WithPath(Wholes))

-----------------------------------------------------------------------------
(* Entries in sequence, and nests.                                         *)

Parts(p) ==
  {S!On(p, <<Idx(0)>>, S!Remove),
   S!On(p, <<S!AtEnd>>, S!Insert(ObjectLit(foo, List(<<>>)))),
   S!On(p, <<S!AtEnd>>, S!CopyHere(S!I(-1))),
   S!On(p, <<Idx(0)>>, S!MoveHere(S!I(-1))),
   S!On(p, <<Idx(0)>>, S!Assign(List(<<Int6>>))),
   S!Whole(p, S!Remove),
   S!Whole(p, S!Insert(List(<<Text, List(<<Int6>>)>>)))}

Sequences ==
  {<<v, w>> : v, w \in Parts(<<F(foo)>>) \cup Parts(<<F(bar), F(foo)>>)}
  \cup {<<v, w>> : v, w \in Parts(<<>>) \cup Parts(<<S!I(1)>>)}

Nests ==
  {S!On(<<>>, ts, S!Nest(d)) : ts \in {<<Fld(foo)>>, <<Idx(1)>>, <<Idx(1), Idx(2)>>},
     d \in {<<v, w>> : v, w \in Parts(<<>>) \cup {S!On(<<>>, <<Fld(baz)>>, S!Copy(<<>>, F(bar)))}}}

Refused ==
  {[Doc(<<S!Whole(<<>>, S!Remove)>>) EXCEPT !.message_type = v] : v \in {<<foo>>, <<bar>>}}
  \cup {[Doc(<<>>) EXCEPT !.faults = {"MissingOneof"}]}

MCPatches == SingleEntries \cup {Doc(d) : d \in Sequences} \cup One(Nests) \cup Refused

\* An array, and entries that make it longer or shorter.
ArraySequences == {Doc(<<v, w>>) : v, w \in Parts(<<>>)}

=============================================================================
