------------------------------ MODULE Literal ------------------------------
(***************************************************************************)
(* The Value literals of a document, and what it takes to put one at a     *)
(* position (patch/value.go, patchproto/value.go).                         *)
(*                                                                         *)
(* A literal is one of                                                     *)
(*   [arm |-> t, scalar |-> s]              a scalar of type t             *)
(*   [arm |-> Msg, body |-> v, fault |-> c] a message; filling one writes  *)
(*                                          the fragment v, unless one of  *)
(*                                          its fields is at fault         *)
(*   [arm |-> "l", items |-> s]             a list                         *)
(*   [arm |-> "map", entries |-> s]         a map, entry by entry          *)
(* A fault is the name of the error code the code reports, "ok" for none.  *)
(***************************************************************************)
EXTENDS Document

\* What the forms above say: a scalar is one of its arm's type, and what the fill
\* of a message writes, if no field is at fault, is a message of declared fields.
IsSingular(v) ==
  /\ v.arm = Msg /\ v.fault = "ok" =>
       IsMessage(v.body) /\ \A q \in DOMAIN v.body : Unknown \notin Range(q)
  /\ v.arm \notin {Msg, "l", "map"} => v.scalar \in Scalar /\ Kind[v.scalar] = v.arm

IsLiteral(v) ==
  CASE v.arm = "l"   -> v.items \in Seq(Range(v.items)) /\ \A i \in DOMAIN v.items : IsSingular(v.items[i])
    [] v.arm = "map" -> /\ v.entries \in Seq(Range(v.entries))
                        /\ \A i \in DOMAIN v.entries : IsSingular(v.entries[i].value)
    [] OTHER         -> IsSingular(v)

FirstFault(codes) ==
  LET bad == {i \in DOMAIN codes : codes[i] # "ok"}
  IN  IF bad = {} THEN "ok" ELSE codes[Min(bad)]

\* The arm a position takes: a whole list takes l and a whole map takes map.
ArmAt(p) ==
  CASE p = <<>>    -> Msg
    [] IsListAt(p) -> "l"
    [] IsMapAt(p)  -> "map"
    [] OTHER       -> TypeAt(p)

\* One value for one position: a singular field, an element or a map value.
SingularFault(v, type) ==
  IF v.arm # type THEN "IllegalArm" ELSE IF v.arm = Msg THEN v.fault ELSE "ok"

SingularContent(v) == IF v.arm = Msg THEN v.body ELSE ScalarFragment(v.scalar)

Repeated(entries, i) == \E j \in 1 .. i - 1 : entries[j].key = entries[i].key

ListFault(items, type) == FirstFault([i \in DOMAIN items |-> SingularFault(items[i], type)])
ListContent(items) == [i \in DOMAIN items |-> SingularContent(items[i])]

\* fillMap: a key of the wrong arm, then a key named twice, then the value.
MapFault(entries, type) ==
  FirstFault([i \in DOMAIN entries |->
    CASE entries[i].key \notin Key -> "IllegalArm"
      [] Repeated(entries, i)      -> "DuplicateTarget"
      [] OTHER                     -> SingularFault(entries[i].value, type)])

MapContent(entries) ==
  [k \in {entries[i].key : i \in DOMAIN entries} |->
     SingularContent(entries[CHOOSE i \in DOMAIN entries : entries[i].key = k].value)]

\* Can v be put at p?
LiteralFault(v, p) ==
  IF v.arm # ArmAt(p) THEN "IllegalArm"
  ELSE CASE v.arm = "l"   -> ListFault(v.items, TypeAt(p))
         [] v.arm = "map" -> MapFault(v.entries, TypeAt(p))
         [] v.arm = Msg   -> v.fault
         [] OTHER         -> "ok"

\* The fragment it puts there.
Content(v) ==
  CASE v.arm = "l"   -> Collection(ListContent(v.items))
    [] v.arm = "map" -> Collection(MapContent(v.entries))
    [] OTHER         -> SingularContent(v)

\* Does the value at p of d equal v?  Unknown fields take no part.  A list of
\* another length is unequal whatever its elements are; otherwise the literal
\* is converted and compared one element, or one entry, at a time.
SingularTest(d, p, v) ==
  CASE SingularFault(v, TypeAt(p)) # "ok"           -> SingularFault(v, TypeAt(p))
    [] Known(ValueAt(d, p)) # SingularContent(v)    -> "TestFailed"
    [] OTHER                                        -> "ok"

ListTest(d, p, items) ==
  IF Length(d, p) # Len(items) THEN "TestFailed"
  ELSE FirstFault([i \in DOMAIN items |-> SingularTest(d, Append(p, i), items[i])])

MapTest(d, p, entries) ==
  FirstFault([i \in DOMAIN entries |->
    CASE entries[i].key \notin Key             -> "IllegalArm"
      [] Repeated(entries, i)                  -> "DuplicateTarget"
      [] ~Has(d, Append(p, entries[i].key))    -> "TestFailed"
      [] OTHER -> SingularTest(d, Append(p, entries[i].key), entries[i].value)]
  \o IF Length(d, p) = Len(entries) THEN <<>> ELSE <<"TestFailed">>)

EqualityFault(d, p, v) ==
  IF v.arm # ArmAt(p) THEN "IllegalArm"
  ELSE CASE v.arm = "l"   -> ListTest(d, p, v.items)
         [] v.arm = "map" -> MapTest(d, p, v.entries)
         [] p = <<>>      -> IF v.fault # "ok" THEN v.fault
                             ELSE IF Known(d) # v.body THEN "TestFailed" ELSE "ok"
         [] OTHER         -> SingularTest(d, p, v)

\* How deep a literal nests, counted as checkValueDepth counts it.
Depth(v) ==
  LET deep(u) == 1 + (IF u.arm = Msg THEN Max({Len(r) : r \in DOMAIN u.body}) ELSE 0)
  IN  CASE v.arm = "l"   -> 1 + Max({0} \cup {deep(v.items[i]) : i \in DOMAIN v.items})
        [] v.arm = "map" -> 1 + Max({0} \cup {deep(v.entries[i].value) : i \in DOMAIN v.entries})
        [] OTHER         -> deep(v)

=============================================================================
