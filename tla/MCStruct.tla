------------------------------ MODULE MCStruct ------------------------------
(***************************************************************************)
(* Instances of PatchStruct for TLC: a struct type that holds what a       *)
(* configuration may, a few values of it, and the documents that are       *)
(* applied to them.                                                        *)
(*                                                                         *)
(*   type Conf struct {                                                    *)
(*     A string           `json:"label"`                                   *)
(*     B *int8                                                             *)
(*     C []Conf                                                            *)
(*     D map[string][]string                                               *)
(*     M map[int8]Conf                                                     *)
(*     N *Conf                                                             *)
(*     u string                                                            *)
(*   }                                                                     *)
(***************************************************************************)
EXTENDS StructContract

CONSTANTS
  A, B, C, D, M, N, u, label, (* names of fields                          *)
  text, other, six, big, zero, nan, (* scalars                            *)
  object, array, pointer    (* marks                                      *)

S == INSTANCE MCForms

MCKind ==
  [Conf |-> "struct", PConf |-> "ptr", Confs |-> "slice", ConfMap |-> "map",
   Lists |-> "map", List |-> "slice", PInt8 |-> "ptr", Int8 |-> "int8", String |-> "string"]

MCElem == [PConf |-> "Conf", Confs |-> "Conf", ConfMap |-> "Conf", Lists |-> "List", List |-> "String", PInt8 |-> "Int8"]

MCKeyKind == [Lists |-> "string", ConfMap |-> "int8"]

Fd(v, t) == [name |-> v, tag |-> <<>>, type |-> t, exported |-> TRUE]

MCFields ==
  [Conf |-> <<[Fd(A, "String") EXCEPT !.tag = <<label>>], Fd(B, "PInt8"), Fd(C, "Confs"), Fd(D, "Lists"),
              Fd(M, "ConfMap"), Fd(N, "PConf"), [Fd(u, "String") EXCEPT !.exported = FALSE]>>]

MCRoom  == [int8 |-> {zero, six}]
MCAlike == [v \in {text, other, six, big, zero, nan} |-> v]

-----------------------------------------------------------------------------
(* Values, as trees: a zero Conf, with the trees of a few fields in it.    *)

At0(v, t)  == [p \in {<<v>> \o q : q \in DOMAIN t} |-> t[Tail(p)]]
Conf(more) == more @@ ZeroOf("Conf")
Ptr(t)     == At0(Pointee, t) @@ (<<>> :> pointer)
Seq0(s)    == Collection(s) @@ (<<>> :> array)
Texts(s)   == Seq0([i \in DOMAIN s |-> Leaf(s[i])])

Leafy(v)   == Conf(<<A>> :> v)

Full ==
  Ptr(Conf((<<A>> :> text) @@ (<<u>> :> other)
    @@ At0(B, Ptr(Leaf(six)))
    @@ At0(C, Seq0(<<Conf((<<A>> :> text) @@ At0(C, Seq0(<<Leafy(other), Leafy(text)>>))), Leafy(other)>>))
    @@ At0(D, Collection((text :> Texts(<<text, other>>)) @@ (other :> Leaf(Nil))) @@ (<<>> :> object))
    @@ At0(M, Collection(six :> Conf(At0(C, Seq0(<<Leafy(text)>>)) @@ At0(N, Ptr(Leafy(text))))) @@ (<<>> :> object))
    @@ At0(N, Ptr(Leafy(other)))))

Typed(t, tree) == [type |-> t, tree |-> tree]

MCTargets ==
  {Typed("PConf", Full), Typed("PConf", Ptr(ZeroOf("Conf"))), Typed("PConf", Leaf(Nil)),
   Typed("String", Leaf(text)), Typed("Lists", Leaf(Nil)),
   Typed("Confs", Seq0(<<Conf(At0(C, Seq0(<<Leafy(text)>>))), Leafy(other)>>))}
Full1 == {Typed("PConf", Full)}

MCExpected == <<A>>

-----------------------------------------------------------------------------
(* Literals.                                                               *)

Lit(arm, v) == [arm |-> arm, scalar |-> v]
Fi(v)  == [arm |-> "field", name |-> <<v>>, json_name |-> <<>>, number |-> FALSE]
JF(v)  == [Fi(v) EXCEPT !.name = <<>>, !.json_name = <<v>>]
Both0(v, w) == [Fi(v) EXCEPT !.json_name = <<w>>]
SKey(v) == S!K(Lit("s", v))
IKey(v) == S!K(Lit("i", v))

Str      == Lit("s", other)
Six      == Lit("i32", six)
Msg(s)   == [arm |-> "m", fields |-> s]
ConfLit  == Msg(<<S!Pair(Fi(A), Str)>>)
Twice    == Msg(<<S!Pair(Fi(A), Lit("s", text)), S!Pair(JF(label), Str)>>)
Strs     == S!L(<<Str>>)
ListsLit == S!Map(<<S!Pair(SKey(text), Strs)>>)

Lits ==
  {Str, Six, Lit("i32", big), Lit("i64", six), Lit("e", six), ConfLit, Twice, Strs, S!L(<<>>), ListsLit,
   S!L(<<ConfLit, Twice>>), Msg(<<S!Pair(Fi(u), Str)>>), Msg(<<S!Pair(Fi(B), Str)>>),
   Msg(<<S!Pair(Fi(N), ConfLit), S!Pair(Fi(D), ListsLit)>>),
   S!Map(<<S!Pair(SKey(text), Strs), S!Pair(SKey(text), Strs)>>),
   S!Map(<<S!Pair(IKey(six), ConfLit)>>), S!Map(<<S!Pair(IKey(big), ConfLit)>>)}

Doc(d) == [message_type |-> <<>>, faults |-> {}, delta |-> d]
One(es) == {Doc(<<v>>) : v \in es}
Creates(es) == es \cup {S!Creating(v) : v \in es}

-----------------------------------------------------------------------------
(* One entry.                                                              *)

Fld(v) == S!Sel(Fi(v))
Idx(i) == S!Sel(S!I(i))

Paths == {<<>>, <<Fi(C)>>, <<Fi(D)>>, <<Fi(N)>>, <<Fi(C), S!I(0)>>, <<Fi(C), S!I(0), Fi(C)>>,
          <<Fi(D), SKey(text)>>, <<Fi(D), SKey(other)>>, <<Fi(M), IKey(six)>>, <<Fi(M), IKey(six), Fi(C)>>,
          <<Fi(M), IKey(six), Fi(N)>>}

OddPaths == {<<Fi(D), SKey(big)>>, <<Fi(M), IKey(zero), Fi(N), Fi(C)>>, <<Fi(M), IKey(big)>>, <<Fi(A)>>, <<Fi(B)>>,
             <<Fi(C), S!I(5)>>, <<S!I(0)>>, <<Fi(u)>>, <<Both0(A, B)>>, <<SKey(text)>>}

Basics == {S!Remove, S!Insert(Str), S!Assign(ConfLit), S!TestExists(TRUE), S!TestExists(FALSE), S!TestValue(Str)}

Selectors ==
  {<<Fld(A), Fld(B)>>, <<Fld(u)>>, <<Fld(u), Fld(A)>>, <<S!Sel(JF(label)), Fld(N)>>, <<S!Sel([Fi(A) EXCEPT !.number = TRUE])>>,
   <<S!Every>>, <<S!Sel(SKey(text))>>, <<S!Sel(SKey(big))>>, <<S!Sel(IKey(six)), S!Sel(IKey(zero))>>,
   <<Idx(0)>>, <<Idx(-1), Idx(0)>>, <<Idx(7)>>, <<S!Span(<<>>, <<2>>)>>, <<S!Member(A)>>}

Targeted ==
  {S!On(p, ts, v) : p \in Paths, ts \in Selectors, v \in Basics}
  \cup {S!Skipping(S!On(p, ts, v)) : p \in Paths, ts \in {<<Fld(u), Fld(A)>>, <<S!Sel(SKey(big))>>, <<Idx(7)>>}, v \in {S!Remove, S!Insert(Str)}}
  \cup {S!On(<<>>, <<Fld(v)>>, w) : v \in {A, B, C, D, M, N}, w \in UNION {{S!Assign(l), S!TestValue(l)} : l \in Lits}}
  \cup {S!On(p, <<Idx(-1), S!AtEnd, Idx(0)>>, S!Insert(v)) : p \in Paths, v \in {ConfLit, Str}}

Sources ==
  {S!MoveHere(k) : k \in {Fi(A), Fi(N), S!I(0), SKey(text)}} \cup {S!CopyHere(k) : k \in {Fi(C), S!I(0), SKey(text)}}
  \cup UNION {{S!Move(v[1], v[2]), S!Copy(v[1], v[2])} :
         v \in {<<<<>>, Fi(A)>>, <<<<>>, Fi(C)>>, <<<<>>, Fi(N)>>, <<<<Fi(C)>>, S!I(0)>>, <<<<Fi(C), S!I(0), Fi(C)>>, S!I(0)>>,
                <<<<Fi(C), S!I(0)>>, Fi(C)>>, <<<<Fi(D)>>, SKey(text)>>, <<<<Fi(M), IKey(six)>>, Fi(C)>>,
                <<<<Fi(M), IKey(six), Fi(C)>>, S!I(0)>>, <<<<Fi(N)>>, Fi(A)>>}}

Relocations ==
  {S!On(p, ts, v) : v \in Sources,
     p \in {<<>>, <<Fi(C)>>, <<Fi(C), S!I(0), Fi(C)>>, <<Fi(D)>>, <<Fi(M), IKey(six)>>, <<Fi(N)>>},
     ts \in {<<Fld(A), Fld(N)>>, <<Fld(C)>>, <<Idx(0)>>, <<Idx(1), S!AtEnd>>, <<S!Sel(SKey(big)), S!Sel(SKey(zero))>>}}

Wholes ==
  {S!Whole(p, v) : p \in Paths,
     v \in {S!Remove, S!TestExists(TRUE), S!TestExists(FALSE), S!Nest(<<S!Whole(<<>>, S!Remove)>>)}
           \cup UNION {{S!Assign(l), S!Insert(l), S!TestValue(l)} :
                         l \in {ConfLit, Strs, ListsLit, S!L(<<ConfLit, Twice>>), S!L(<<>>)}}}
  \cup {S!Whole(p, S!TestExists(FALSE)) : p \in OddPaths}

SingleEntries == One(Targeted \cup Relocations \cup Creates(Wholes))

-----------------------------------------------------------------------------
(* Entries in sequence, and nests.                                         *)

Parts(p) ==
  {S!On(p, <<Idx(0)>>, S!Remove),
   S!On(p, <<S!AtEnd>>, S!Insert(ConfLit)),
   S!On(p, <<S!AtEnd>>, S!CopyHere(S!I(-1))),
   S!On(p, <<Idx(0)>>, S!MoveHere(S!I(-1))),
   S!Whole(p, S!Insert(S!L(<<ConfLit, ConfLit>>)))}

Steps ==
  Parts(<<Fi(C)>>) \cup Parts(<<Fi(C), S!I(0), Fi(C)>>)
  \cup {S!On(<<>>, <<Fld(C)>>, S!Copy(<<Fi(C), S!I(0)>>, Fi(C))), S!On(<<>>, <<Fld(N)>>, S!Remove),
        S!Creating(S!On(<<Fi(N)>>, <<Fld(A)>>, S!Assign(Str))), S!On(<<Fi(D)>>, <<S!Sel(SKey(big))>>, S!CopyHere(SKey(text)))}

Sequences == {<<v, w>> : v, w \in Steps}

InMap == Parts(<<Fi(C)>>) \cup {S!On(<<>>, <<Fld(A)>>, S!Assign(Str)), S!Whole(<<>>, S!Remove)}
InList == {S!On(<<>>, <<Idx(0)>>, S!Remove), S!On(<<>>, <<S!AtEnd>>, S!CopyHere(S!I(0))), S!Whole(<<>>, S!Remove)}

Nests ==
  {S!On(<<Fi(M)>>, <<S!Every>>, S!Nest(<<v, w>>)) : v, w \in InMap}
  \cup {S!On(<<Fi(D)>>, <<S!Sel(SKey(text)), S!Sel(SKey(other))>>, S!Nest(<<v, w>>)) : v, w \in InList}
  \cup {S!On(<<>>, <<Fld(v)>>, S!Nest(<<w>>)) : v \in {A, D, N},
          w \in {S!On(<<>>, <<S!Sel(SKey(text))>>, S!Assign(Strs)), S!Whole(<<>>, S!Insert(ListsLit)), S!Whole(<<>>, S!Remove)}}
  \cup {S!On(<<Fi(M)>>, <<S!Every>>, S!Nest(<<S!On(<<>>, <<Fld(v)>>, S!Nest(<<S!Whole(<<>>, S!Remove)>>))>>)) : v \in {C, N}}

Refused ==
  {[Doc(<<S!Whole(<<>>, S!Remove)>>) EXCEPT !.message_type = v] : v \in {<<A>>, <<B>>}}
  \cup {[Doc(<<>>) EXCEPT !.faults = {"MissingOneof"}]}

MCPatches == SingleEntries \cup {Doc(d) : d \in Sequences} \cup One(Nests) \cup Refused

\* A path through a map: an element taken out of a slice that is the entry of one, and
\* a field of a struct that is.
ThroughMaps ==
  One({S!On(<<Fi(D), SKey(text)>>, <<Idx(0)>>, S!Remove),
       S!On(<<Fi(M), IKey(six)>>, <<Fld(A)>>, S!Assign(Str))})

=============================================================================
