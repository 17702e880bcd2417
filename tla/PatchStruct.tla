---------------------------- MODULE PatchStruct ----------------------------
(***************************************************************************)
(* patchstruct.Apply: a document applied to a Go value, one entry after    *)
(* another, in a step each for its path, its selectors and its operation   *)
(* (patchstruct/apply.go, cont.go, container.go, value.go).                *)
(*                                                                         *)
(* The value lives in a memory (module Memory).  A reflect.Value that can  *)
(* be set is a variable,                                                   *)
(*   at     the <<block, position>> it is in                               *)
(*   type   its Go type                                                    *)
(*   pos    the position in the document it was reached by (not in the     *)
(*          code: the properties speak of it)                              *)
(* and a container is a variable that holds a struct, a map or a slice.  A *)
(* location in it is the name of a field, a map key, a 1-based place,      *)
(* AppendSlot, or NoSlot.                                                  *)
(*                                                                         *)
(* Types are given by the constants below.  A struct has a field; fields   *)
(* that are not exported hold scalars.  A scalar literal is [arm, scalar], *)
(* the others are [arm |-> "l", items], [arm |-> "m", fields] and          *)
(* [arm |-> "map", entries].                                               *)
(***************************************************************************)
EXTENDS Memory, Resolve

CONSTANTS
  Kind,       (* Type -> its kind: "struct", "map", "slice", "ptr",        *)
              (* "bytes" for []byte, the name of a basic type, or "other". *)
  Elem,       (* Type of a map, slice or pointer -> that of what it holds. *)
  KeyKind,    (* Type of a map -> the kind of its keys.                    *)
  Fields,     (* Type of a struct -> sequence of [name, tag, type,         *)
              (* exported]; tag is <<>> if none names the field.           *)
  Room,       (* Kind of an integer -> the Scalars it has room for.        *)
  Zero,       (* The Scalar a scalar variable starts with.                 *)
  Targets,    (* What Apply is called with: records of a type and a tree.  *)
  Patches,    (* The documents.                                            *)
  Expected    (* <<name>> if the caller passed ExpectType, <<>> otherwise. *)

VARIABLES
  mem,       (* Everything in memory.                                      *)
  target,    (* The caller's value: its type and what the variable holds.  *)
  patch,     (* The document; faults is what ValidateWith, which module    *)
             (* Validate models, finds in it.                              *)
  stack,     (* The deltas being applied, innermost first.                 *)
  outcome, err, returned

vars == <<mem, target, patch, stack, outcome, err, returned>>

NoValue == [p \in {} |-> Nil]

\* The variable draft.
Holder == <<2, <<>>>>
Draft  == [at |-> <<Holder, <<>>>>, type |-> target.type, pos |-> <<>>]

KindOf(v) == Kind[v.type]

\* What a variable holds; a map, a slice or a pointer holds a reference.
Value(h, v) == ValueAt(h[v.at[1]], v.at[2])
Ref(h, v)   == h[v.at[1]][v.at[2]]

Set(h, v, value) == Put(h, v.at[1], v.at[2], value)
SetTree(h, v, t) == Store(h, v.at[1], v.at[2], t)

SetHeader(r, c) == Set(r.mem, c, Leaf(r.ref))

-----------------------------------------------------------------------------
(* Types.                                                                  *)

FieldsOf(t)  == Range(Fields[t])
Exported(t)  == {f \in FieldsOf(t) : f.exported}
FieldNamed(t, name) == CHOOSE f \in FieldsOf(t) : f.name = name
TypeAt(c, l) == IF KindOf(c) = "struct" THEN FieldNamed(c.type, l).type ELSE Elem[c.type]

RECURSIVE ZeroOf(_)

\* reflect.Zero.
ZeroOf(t) ==
  CASE Kind[t] = "struct" -> Collection([n \in {f.name : f \in FieldsOf(t)} |-> ZeroOf(FieldNamed(t, n).type)])
    [] Kind[t] \in {"map", "slice", "ptr"} -> Leaf(Nil)
    [] OTHER -> Leaf(Zero)

\* reflect.New, for a pointer type.
NewOf(t) == Leaf(PtrMark) @@ Graft(NoValue, <<Pointee>>, ZeroOf(Elem[t]))

Present(t, value) == value # ZeroOf(t)

JsonName(f) == IF f.tag = <<>> THEN f.name ELSE f.tag[1]

\* lookupField, which is called with a name, a json name or both.
Named(t, k) ==
  SelectSeq(Fields[t], LAMBDA f :
    f.exported /\ IF k.name # <<>> THEN f.name = k.name[1] ELSE JsonName(f) = k.json_name[1])

FieldFault(t, k) ==
  CASE k.number -> "IllegalArm"
    [] Named(t, k) # <<>> /\ k.json_name \notin {<<>>, <<JsonName(Named(t, k)[1])>>} -> "FieldConflict"
    [] OTHER -> "ok"

\* mapKey.
Signed   == {"int8", "int16", "int32", "int", "int64"}
Unsigned == {"uint8", "uint16", "uint32", "uint", "uint64"}

KeyArm(kind) ==
  CASE kind = "string"     -> "s"
    [] kind = "bool"       -> "b"
    [] kind \in Signed     -> "i"
    [] kind \in Unsigned   -> "u"
    [] OTHER               -> "none"

MapKeyFault(kind, key) ==
  CASE key.arm # KeyArm(kind) -> "IllegalArm"
    [] kind \in Signed \cup Unsigned /\ key.scalar \notin Room[kind] -> "MapKeyOutOfRange"
    [] OTHER -> "ok"

-----------------------------------------------------------------------------
(* Keys and paths.                                                         *)

KeyFault(c, k) ==
  CASE KindOf(c) = "struct" -> IF k.arm = "field" THEN FieldFault(c.type, k) ELSE "IllegalArm"
    [] KindOf(c) = "slice"  -> IF k.arm = "index" THEN "ok" ELSE "IllegalArm"
    [] KindOf(c) = "map"    -> IF k.arm = "map_key" THEN MapKeyFault(KeyKind[c.type], k.key)
                               ELSE "IllegalArm"

LenAt(h, c)  == LenOf(Ref(h, c))
KeysAt(h, c) == IF IsRef(Ref(h, c)) THEN {p[1] : p \in DOMAIN h[Ref(h, c).to]} ELSE {}

Loc(h, c, k) ==
  CASE KindOf(c) = "struct" -> IF Named(c.type, k) = <<>> THEN NoSlot ELSE Named(c.type, k)[1].name
    [] KindOf(c) = "slice"  -> LET i == NormalizeIndex(k.index, LenAt(h, c))
                               IN  IF i = Vacant THEN NoSlot ELSE i + 1
    [] KindOf(c) = "map"    -> k.key.scalar

\* emptySlot: a map key with no entry.
EmptySlot(h, c, l) == KindOf(c) = "map" /\ l \notin KeysAt(h, c)

\* Where a location is.  An entry of a map is no variable, and is read by copying it
\* into one.
Slot(h, c, l) ==
  [at   |-> IF KindOf(c) = "struct" THEN <<c.at[1], Append(c.at[2], l)>> ELSE <<Ref(h, c).to, <<l>>>>,
   type |-> TypeAt(c, l),
   pos  |-> Append(c.pos, l)]

CopyOut(r) ==
  LET b == <<Fresh(r.mem), <<>>>>
  IN  [r EXCEPT !.mem = (b :> Value(r.mem, r.c)) @@ @, !.c.at = <<b, <<>>>>]

Pointed(h, v) == [at |-> <<Ref(h, v).to, <<>>>>, type |-> Elem[v.type], pos |-> Append(v.pos, Pointee)]

\* The steps of descend, from the container r.c: to the location, in a map that is
\* nil only by a panic; through a pointer; into a map or a slice, which is made if
\* it is nil.
Lost(r, code) == {[r EXCEPT !.fault = code]}

Variable(r, l) ==
  LET there == [r EXCEPT !.c = Slot(r.mem, r.c, l)] IN
  IF KindOf(r.c) = "map" THEN CopyOut(there) ELSE there

AtKey(r, k, create) ==
  LET l == Loc(r.mem, r.c, k)
      t == TypeAt(r.c, l)
  IN  CASE KeyFault(r.c, k) # "ok" -> Lost(r, KeyFault(r.c, k))
        [] l = NoSlot \/ (EmptySlot(r.mem, r.c, l) /\ ~create) -> Lost(r, "PathNotReached")
        [] EmptySlot(r.mem, r.c, l) /\ ~IsRef(Ref(r.mem, r.c)) -> Lost(r, "panic")
        [] EmptySlot(r.mem, r.c, l) ->
             {Variable([r EXCEPT !.mem = h], l) :
                h \in SetTree(r.mem, Slot(r.mem, r.c, l), IF Kind[t] = "ptr" THEN NewOf(t) ELSE ZeroOf(t))}
        [] OTHER -> {Variable(r, l)}

Dereferenced(r, create) ==
  CASE r.fault # "ok" \/ KindOf(r.c) # "ptr" -> {r}
    [] IsRef(Ref(r.mem, r.c)) -> {[r EXCEPT !.c = Pointed(r.mem, r.c)]}
    [] ~create -> Lost(r, "PathNotReached")
    [] OTHER -> {[r EXCEPT !.mem = h, !.c = Pointed(h, r.c)] : h \in SetTree(r.mem, r.c, NewOf(r.c.type))}

\* Mutant: a nil one is entered as it is.
EnteredAsIs(r) ==
  IF r.fault # "ok" \/ KindOf(r.c) \in {"struct", "map", "slice"} THEN {r} ELSE Lost(r, "PathNotReached")

Entered(r) ==
  CASE r.fault # "ok" \/ KindOf(r.c) = "struct" -> {r}
    [] KindOf(r.c) \notin {"map", "slice"} -> Lost(r, "PathNotReached")
    [] IsRef(Ref(r.mem, r.c)) -> {r}
    [] OTHER -> {[r EXCEPT !.mem = h] :
                   h \in SetTree(r.mem, r.c, Leaf(IF KindOf(r.c) = "map" THEN MapMark ELSE SliceMark))}

Descend(r, k, create) ==
  UNION {Entered(q) : q \in UNION {Dereferenced(s, create) : s \in AtKey(r, k, create)}}

Navigate(h, base, path, create) ==
  FoldLeft(LAMBDA R, k : UNION {IF r.fault = "ok" THEN Descend(r, k, create) ELSE {r} : r \in R},
           {[mem |-> h, c |-> base, fault |-> "ok"]}, path)

-----------------------------------------------------------------------------
(* Selectors.                                                              *)

SelectorFault(c, sel) ==
  CASE sel.arm = "key"                 -> KeyFault(c, sel.key)
    [] sel.arm \in {"range", "append"} -> IF KindOf(c) = "slice" THEN "ok" ELSE "IllegalArm"
    [] sel.arm = "every_entry"         -> IF KindOf(c) = "map" THEN "ok" ELSE "IllegalArm"
    [] sel.arm = "oneof_member"        -> "IllegalArm"

Selected(h, c, sel) ==
  CASE sel.arm = "key"         -> <<Loc(h, c, sel.key)>>
    [] sel.arm = "range"       -> LET r == NormalizeRange(sel, LenAt(h, c))
                                  IN  [j \in 1 .. r.end - r.begin |-> r.begin + j]
    [] sel.arm = "append"      -> <<AppendSlot>>
    [] sel.arm = "every_entry" -> SetToSeq(KeysAt(h, c))

Missing(h, c, l, kind) ==
  /\ kind # "test"
  /\ l = NoSlot \/ (kind \in {"remove", "nest"} /\ EmptySlot(h, c, l))

\* identIn: an index outside the slice, which only a test gets to keep, counts as
\* the first one.
Ident(c, l) == IF l = NoSlot /\ KindOf(c) = "slice" THEN 1 ELSE l

\* expand: every selector is resolved before the entry writes.
ExpandOne(h, c, e, r, sel) ==
  LET all  == Selected(h, c, sel)
      kept == SelectSeq(all, LAMBDA l : ~Missing(h, c, l, e.op.kind))
  IN  CASE r.fault # "ok"                  -> r
        [] SelectorFault(c, sel) # "ok"    -> [r EXCEPT !.fault = SelectorFault(c, sel)]
        [] ~e.skip /\ Len(kept) < Len(all) -> [r EXCEPT !.fault = "VacantTarget"]
        [] \E l \in Range(kept), t \in Range(r.locs) : Ident(c, l) = Ident(c, t)
             -> [r EXCEPT !.fault = "DuplicateTarget"]
        [] OTHER -> [r EXCEPT !.locs = @ \o kept]

Expand(h, c, e) ==
  FoldLeft(LAMBDA R, sel : {ExpandOne(h, c, e, r, sel) : r \in R},
           {[locs |-> <<>>, fault |-> "ok"]}, e.targets)

-----------------------------------------------------------------------------
(* Literals.                                                               *)

Base(t) == IF Kind[t] = "ptr" THEN Elem[t] ELSE t

\* The arms and the kinds they land in; an integer has to fit.
Takes(kind, v) ==
  CASE v.arm = "b"   -> kind = "bool"
    [] v.arm = "s"   -> kind = "string"
    [] v.arm = "x"   -> kind = "bytes"
    [] v.arm = "i32" -> kind \in {"int8", "int16", "int32"} /\ v.scalar \in Room[kind]
    [] v.arm = "i64" -> kind \in {"int", "int64"} /\ v.scalar \in Room[kind]
    [] v.arm = "u32" -> kind \in {"uint8", "uint16", "uint32"} /\ v.scalar \in Room[kind]
    [] v.arm = "u64" -> kind \in {"uint", "uint64"} /\ v.scalar \in Room[kind]
    [] v.arm = "f32" -> kind = "float32"
    [] v.arm = "f64" -> kind = "float64"
    [] v.arm = "m"   -> kind = "struct"
    [] v.arm = "l"   -> kind = "slice"
    [] v.arm = "map" -> kind = "map"
    [] v.arm = "e"   -> FALSE

RECURSIVE ConvertFault(_, _), Converted(_, _)

FillFault(fs, t) ==
  FirstFault([i \in DOMAIN fs |->
    CASE FieldFault(t, fs[i].key) # "ok"  -> FieldFault(t, fs[i].key)
      [] Named(t, fs[i].key) = <<>>       -> "VacantTarget"
      [] OTHER -> ConvertFault(fs[i].value, Named(t, fs[i].key)[1].type)])

EntriesFault(ms, t) ==
  FirstFault([i \in DOMAIN ms |->
    CASE MapKeyFault(KeyKind[t], ms[i].key.key) # "ok" -> MapKeyFault(KeyKind[t], ms[i].key.key)
      [] \E j \in 1 .. i - 1 : ms[j].key.key.scalar = ms[i].key.key.scalar -> "DuplicateTarget"
      [] OTHER -> ConvertFault(ms[i].value, Elem[t])])

\* convert: what is wrong with the literal v for the type t, and the tree it makes.
ConvertFault(v, t) ==
  CASE Kind[Base(t)] = "ptr" \/ ~Takes(Kind[Base(t)], v) -> "IllegalArm"
    [] v.arm = "m"   -> FillFault(v.fields, Base(t))
    [] v.arm = "l"   -> FirstFault([i \in DOMAIN v.items |-> ConvertFault(v.items[i], Elem[Base(t)])])
    [] v.arm = "map" -> EntriesFault(v.entries, Base(t))
    [] OTHER         -> "ok"

\* fillStruct: a field that is named twice has what was given last.
Filled(fs, t) ==
  FoldLeft(LAMBDA d, f : LET sf == Named(t, f.key)[1] IN Graft(d, <<sf.name>>, Converted(f.value, sf.type)),
           ZeroOf(t), fs)

EntriesOf(ms, t) ==
  Collection([k \in {ms[i].key.key.scalar : i \in DOMAIN ms} |->
    Converted(ms[CHOOSE i \in DOMAIN ms : ms[i].key.key.scalar = k].value, Elem[t])])

ConvertedBase(v, t) ==
  CASE v.arm = "m"   -> Filled(v.fields, t)
    [] v.arm = "l"   -> Leaf(SliceMark) @@ Collection([i \in DOMAIN v.items |-> Converted(v.items[i], Elem[t])])
    [] v.arm = "map" -> Leaf(MapMark) @@ EntriesOf(v.entries, t)
    [] OTHER         -> Leaf(v.scalar)

Converted(v, t) ==
  IF Kind[t] = "ptr" THEN Leaf(PtrMark) @@ Graft(NoValue, <<Pointee>>, ConvertedBase(v, Elem[t]))
                     ELSE ConvertedBase(v, t)

\* equalDeep, with the literal v.
EqualFault(h, c, v) ==
  CASE ConvertFault(v, c.type) # "ok" -> ConvertFault(v, c.type)
    [] ~SameTree(Read(h, Value(h, c)), Converted(v, c.type)) -> "TestFailed"
    [] OTHER -> "ok"

-----------------------------------------------------------------------------
(* Operations on targets.  A result has the memory and a fault, which is   *)
(* "panic" where reflect panics.                                           *)

Result(h) == [mem |-> h, fault |-> "ok"]

\* removeAt.  The elements of a slice go in place, the last one first.
RemovedFrom(h, c, locs) ==
  CASE KindOf(c) = "struct" ->
         {Result(FoldLeft(LAMBDA m, l : Set(m, Slot(m, c, l), ZeroOf(TypeAt(c, l))), h, locs))}
    [] KindOf(c) = "map" ->
         {Result([h EXCEPT ![Ref(h, c).to] = EraseAll(@, {<<l>> : l \in Range(locs)})])}
    [] \E l \in Range(locs) : l > LenAt(h, c) -> {[mem |-> h, fault |-> "panic"]}
    [] OTHER ->
         {Result(SetHeader(r, c)) :
            r \in FoldLeft(LAMBDA R, i : {Closed(r.mem, r.ref, i) : r \in R}, {[mem |-> h, ref |-> Ref(h, c)]},
                           SetToSortSeq(Range(locs), LAMBDA a, b : a > b))}

\* writeEach: every target gets a value of its own.
WriteFault(h, c, l, op) ==
  CASE op.kind = "insert" /\ KindOf(c) = "struct" /\ Present(TypeAt(c, l), Value(h, Slot(h, c, l))) -> "Occupied"
    [] op.kind = "insert" /\ KindOf(c) = "map" /\ ~EmptySlot(h, c, l) -> "Occupied"
    [] ConvertFault(op.value, TypeAt(c, l)) # "ok" -> ConvertFault(op.value, TypeAt(c, l))
    [] KindOf(c) = "map" /\ ~IsRef(Ref(h, c)) -> "panic"
    [] OTHER -> "ok"

WrittenAt(h, c, locs, v) ==
  FoldLeft(LAMBDA R, l : UNION {SetTree(m, Slot(m, c, l), Converted(v, TypeAt(c, l))) : m \in R}, {h}, locs)

\* spliceInto: a new slice, with the value before each element that was named.
SplicedInto(h, c, locs, t) ==
  LET S        == Range(locs) \ {AppendSlot}
      old      == Held(h, Ref(h, c))
      out(new) == FlattenSeq([i \in DOMAIN old |->
                    IF i \in S THEN <<new[Cardinality({j \in S : j <= i})], old[i]>>
                               ELSE <<old[i]>>])
                  \o (IF AppendSlot \in Range(locs) THEN <<Last(new)>> ELSE <<>>)
  IN  {SetHeader(NewArray(all.mem, out(all.vals)), c) : all \in LoadedAll(h, [i \in DOMAIN locs |-> t])}

\* append: the fragments vs at the end of the slice c.
Appended(h, c, vs) == SetHeader(Grown(h, Ref(h, c), vs, ZeroOf(Elem[c.type])), c)

\* testAt.  A field is there if it is not zero.
IsThere(h, c, l) ==
  /\ l \notin {NoSlot, AppendSlot} /\ ~EmptySlot(h, c, l)
  /\ KindOf(c) = "struct" => Present(TypeAt(c, l), Value(h, Slot(h, c, l)))

TestFault(h, c, l, op) ==
  CASE op.want = "exists"  -> IF IsThere(h, c, l) = op.exists THEN "ok" ELSE "TestFailed"
    [] ~IsThere(h, c, l)   -> "TestFailed"
    [] OTHER               -> EqualFault(h, Slot(h, c, l), op.value)

\* relocate.  A source path starts at the delta's container and adds no entry, but
\* it does make maps and slices of nil ones.
SourceFault(h, c, k) ==
  CASE KeyFault(c, k) # "ok" -> KeyFault(c, k)
    [] Loc(h, c, k) = NoSlot -> "SourceUnresolved"
    [] ~IsThere(h, c, Loc(h, c, k)) -> "SourceUnresolved"
    [] OTHER -> "ok"

Source(h, base, c, op) ==
  LET from == IF op.origin = "path" THEN Navigate(h, base, op.path, FALSE)
              ELSE {[mem |-> h, c |-> c, fault |-> "ok"]}
  IN  {[r EXCEPT !.fault = IF @ # "ok" THEN @ ELSE SourceFault(r.mem, r.c, op.key)] : r \in from}

\* sameLoc compares the addresses of the containers.
SameLoc(c, s, l, k) == c.type = s.type /\ c.at = s.at /\ l = k

\* The copy that is held while the targets are written, which all of them get.
\* Mutant: what the source holds, as it is.
HeldAsIs(h, v) == {[mem |-> h, val |-> Value(h, v)]}

HeldCopy(h, v) == Loaded(h, Read(h, Value(h, v)))

RelocateFault(h, c, s, k, l) ==
  CASE SameLoc(c, s, l, k) -> "ok"
    [] TypeAt(s, k) # TypeAt(c, l) -> "TypeMismatch"
    [] KindOf(c) = "map" /\ ~IsRef(Ref(h, c)) -> "panic"
    [] OTHER -> "ok"

PutAt(h, c, l, held) == IF l = AppendSlot THEN Appended(h, c, <<held>>) ELSE Set(h, Slot(h, c, l), held)

Relocated(h, s, c, locs, op) ==
  LET k     == Loc(h, s, op.key)
      fault == FirstFault([i \in DOMAIN locs |-> RelocateFault(h, c, s, k, locs[i])])
      elsewhere == SelectSeq(locs, LAMBDA l : ~SameLoc(c, s, l, k))
      put   == {FoldLeft(LAMBDA m, l : PutAt(m, c, l, held.val), held.mem, elsewhere) : held \in HeldCopy(h, Slot(h, s, k))}
  IN  CASE fault # "ok" -> {[mem |-> h, fault |-> fault]}
        [] op.kind = "move" /\ Len(elsewhere) = Len(locs) -> UNION {RemovedFrom(m, s, <<k>>) : m \in put}
        [] OTHER -> {Result(m) : m \in put}

-----------------------------------------------------------------------------
(* Operations on the container itself.                                     *)

ContainerValueFault(c, v) ==
  IF v.arm = (CASE KindOf(c) = "struct" -> "m" [] KindOf(c) = "map" -> "map" [] KindOf(c) = "slice" -> "l")
  THEN ConvertFault(v, c.type) ELSE "IllegalArm"

\* The locations L of c get what t has there.
Each(h, c, t, L) ==
  FoldLeft(LAMBDA R, l : UNION {SetTree(m, Slot(m, c, l), ValueAt(t, <<l>>)) : m \in R}, {h}, SetToSeq(L))

\* The exported fields of a struct get those of t; a map or a slice is set to t.
SetWhole(h, c, t) ==
  IF KindOf(c) = "struct" THEN Each(h, c, t, {f.name : f \in Exported(c.type)}) ELSE SetTree(h, c, t)

EmptyTree(c) ==
  CASE KindOf(c) = "struct" -> ZeroOf(c.type) [] KindOf(c) = "map" -> Leaf(MapMark) [] KindOf(c) = "slice" -> Leaf(SliceMark)

Emptied(h, c) == SetWhole(h, c, EmptyTree(c))

SetFields(t, value) == {f \in Exported(t) : Present(f.type, ValueAt(value, <<f.name>>))}

IsEmpty(h, c) ==
  CASE KindOf(c) = "struct" -> SetFields(c.type, Value(h, c)) = {}
    [] KindOf(c) = "map"    -> KeysAt(h, c) = {}
    [] KindOf(c) = "slice"  -> LenAt(h, c) = 0

\* insertContainer: the fields, the entries and the elements of t.
InsertWholeFault(h, c, v) ==
  LET t == Converted(v, c.type) IN
  CASE ContainerValueFault(c, v) # "ok" -> ContainerValueFault(c, v)
    [] KindOf(c) = "struct" -> IF SetFields(c.type, t) \cap SetFields(c.type, Value(h, c)) # {} THEN "Occupied" ELSE "ok"
    [] KindOf(c) = "map" /\ Places(t, <<>>) \cap KeysAt(h, c) # {} -> "Occupied"
    [] KindOf(c) = "map" /\ Places(t, <<>>) # {} /\ ~IsRef(Ref(h, c)) -> "panic"
    [] OTHER -> "ok"

InsertedWhole(h, c, t) ==
  CASE KindOf(c) = "struct" -> Each(h, c, t, {f.name : f \in SetFields(c.type, t)})
    [] KindOf(c) = "map"    -> Each(h, c, t, Places(t, <<>>))
    [] KindOf(c) = "slice"  -> {Appended(all.mem, c, all.vals) : all \in LoadedAll(h, Elements(t, <<>>))}

TestWholeFault(h, c, op) ==
  CASE op.want = "exists"                      -> IF IsEmpty(h, c) = op.exists THEN "TestFailed" ELSE "ok"
    [] ContainerValueFault(c, op.value) # "ok" -> ContainerValueFault(c, op.value)
    [] OTHER                                   -> EqualFault(h, c, op.value)

-----------------------------------------------------------------------------
(* Apply up to the first entry.                                            *)

\* back is <<>>, or the map entry a nest works on a copy of, and the copy.
Frame(base, entries) ==
  [base |-> base, entries |-> entries, i |-> 1, pc |-> "path", c |-> base, locs |-> <<>>, back |-> <<>>]

top == Head(stack)
E   == top.entries[top.i]
op  == E.op

Fail(code) ==
  /\ outcome' = IF code = "panic" THEN "panicked" ELSE "failed"
  /\ err' = code
  /\ stack' = <<>>
  /\ UNCHANGED <<mem, target, patch, returned>>

Init ==
  /\ \E t \in Targets :
       LET in == Load(t.tree, 0) IN
       target = [type |-> t.type, val |-> in.val] /\ mem = (Holder :> NoValue) @@ in.blocks
  /\ patch \in Patches
  /\ stack = <<>>
  /\ outcome = "called"
  /\ err = "ok"
  /\ returned = NoValue

Refuse ==
  /\ outcome = "called"
  /\ \E code \in patch.faults : Fail(code)

Accepted == patch.faults = {} /\ (Expected = <<>> \/ patch.message_type \in {<<>>, Expected})

RefuseType ==
  /\ outcome = "called"
  /\ patch.faults = {} /\ ~Accepted
  /\ Fail("MessageTypeMismatch")

\* deepCopy, the draft and rootCont.
\* Mutant: what a pointer leads to is the caller's.
ShallowCopy(h, v) == {[mem |-> h, val |-> v]}

Copy(h, v) == {[mem |-> in.blocks @@ h, val |-> in.val] : in \in {Load(t, 1) : t \in {Read(h, v)}}}

NilTarget   == KindOf(target) = "ptr" /\ ~IsRef(target.val[<<>>])
RootCont(h) == IF KindOf(target) = "ptr" THEN Pointed(h, Draft) ELSE Draft
Rootable    == Kind[Base(target.type)] \in {"struct", "map", "slice"}

Begin ==
  /\ outcome = "called"
  /\ Accepted /\ ~NilTarget /\ Rootable
  /\ \E draft \in Copy(mem, target.val) : \E h \in {Put(draft.mem, Holder, <<>>, draft.val)} :
       /\ mem' = h
       /\ stack' = <<Frame(RootCont(h), patch.delta)>>
  /\ outcome' = "running"
  /\ UNCHANGED <<target, patch, err, returned>>

RefuseRoot ==
  /\ outcome = "called"
  /\ Accepted
  /\ \/ NilTarget /\ Fail("MissingField")
     \/ ~NilTarget /\ ~Rootable /\ Fail("NotAContainer")

-----------------------------------------------------------------------------
(* applyEntry: the path, and the selectors.                                *)

Doing(pc) == outcome = "running" /\ top.i <= Len(top.entries) /\ top.pc = pc

\* The step leaves the memory as h, and the innermost delta as fr.
Continue(h, fr) ==
  /\ mem' = h
  /\ stack' = <<fr>> \o Tail(stack)
  /\ UNCHANGED <<target, patch, outcome, err, returned>>

\* The entry is done, and the delta goes on to the next.
Following(fr) == [Frame(fr.base, fr.entries) EXCEPT !.i = fr.i + 1, !.back = fr.back]
Done(h) == Continue(h, Following(top))

\* The step ends the entry with one of the results, or fails with its fault.
Ends(results)  == \E r \in results : r.fault = "ok" /\ Done(r.mem)
Fails(results) == \E r \in results : r.fault # "ok" /\ Fail(r.fault)

reached == Navigate(mem, top.base, E.path, E.create)

Arrive ==
  /\ Doing("path")
  /\ \E r \in reached : r.fault = "ok" /\ Continue(r.mem, [top EXCEPT !.c = r.c, !.pc = E.scope])

LosePath == Doing("path") /\ Fails(reached)

chosen == Expand(mem, top.c, E)

Select ==
  /\ Doing("targets")
  /\ \E r \in chosen : r.fault = "ok" /\ Continue(mem, [top EXCEPT !.locs = r.locs, !.pc = "act"])

RefuseTargets == Doing("targets") /\ Fails(chosen)

-----------------------------------------------------------------------------
(* applyToTargets.                                                         *)

Vacuous == Doing("act") /\ top.locs = <<>> /\ op.kind = "test" /\ Fail("TestVacuous")

\* No target, or no further one to nest.
NothingToDo == Doing("act") /\ top.locs = <<>> /\ op.kind # "test" /\ Done(mem)

On(kind) == Doing("act") /\ top.locs # <<>> /\ op.kind = kind

RemoveTargets == On("remove") /\ Ends(RemovedFrom(mem, top.c, top.locs))

TestTargetsFault ==
  FirstFault([i \in DOMAIN top.locs |-> TestFault(mem, top.c, top.locs[i], op)])

TestTargets == On("test") /\ TestTargetsFault = "ok" /\ Done(mem)

FailTest == On("test") /\ TestTargetsFault # "ok" /\ Fail(TestTargetsFault)

Writing == On("assign") \/ On("insert")

WritesFault ==
  FirstFault([i \in DOMAIN top.locs |-> WriteFault(mem, top.c, top.locs[i], op)])

Splices == op.kind = "insert" /\ KindOf(top.c) = "slice"

WriteTargets ==
  /\ Writing /\ ~Splices
  /\ WritesFault = "ok"
  /\ \E h \in WrittenAt(mem, top.c, top.locs, op.value) : Done(h)

Splice ==
  /\ Writing /\ Splices
  /\ WritesFault = "ok"
  /\ \E h \in SplicedInto(mem, top.c, top.locs, Converted(op.value, Elem[top.c.type])) : Done(h)

RefuseWrite == Writing /\ WritesFault # "ok" /\ Fail(WritesFault)

Relocating == On("move") \/ On("copy")

sources == Source(mem, top.base, top.c, op)
moved   == UNION {Relocated(s.mem, s.c, top.c, top.locs, op) : s \in sources}

LoseSource == Relocating /\ Fails(sources)

Relocate == Relocating /\ (\E s \in sources : s.fault = "ok") /\ Ends(moved)

RefuseRelocate == Relocating /\ (\E s \in sources : s.fault = "ok") /\ Fails(moved)

\* nestAt: the inner delta, applied to one target after another.  An entry of a map
\* is copied, and stored back when the inner delta is done.  Nothing is created on
\* the way: a nil map or slice stays one.
Inner ==
  LET slot == Slot(mem, top.c, Head(top.locs))
      var  == IF KindOf(top.c) = "map" THEN CopyOut([mem |-> mem, c |-> slot]) ELSE [mem |-> mem, c |-> slot]
      back == IF KindOf(top.c) = "map" THEN <<slot, var.c>> ELSE <<>>
  IN  [var EXCEPT !.c = IF KindOf(@) = "ptr" /\ IsRef(Ref(var.mem, @)) THEN Pointed(var.mem, @) ELSE @] @@ [back |-> back]

IsContainer(v) == KindOf(v) \in {"struct", "map", "slice"}

NestTarget ==
  /\ On("nest")
  /\ \E in \in {Inner} :
       /\ IsContainer(in.c)
       /\ mem' = in.mem
       /\ stack' = <<[Frame(in.c, op.delta) EXCEPT !.back = in.back], [top EXCEPT !.locs = Tail(@)]>> \o Tail(stack)
  /\ UNCHANGED <<target, patch, outcome, err, returned>>

NestScalar == On("nest") /\ ~IsContainer(Inner.c) /\ Fail("NotAContainer")

-----------------------------------------------------------------------------
(* applyToContainer.                                                       *)

OnWhole(kind) == Doing("container") /\ op.kind = kind

Empty == OnWhole("remove") /\ \E h \in Emptied(mem, top.c) : Done(h)

WholeFault ==
  CASE op.kind = "assign" -> ContainerValueFault(top.c, op.value)
    [] op.kind = "insert" -> InsertWholeFault(mem, top.c, op.value)
    [] op.kind = "test"   -> TestWholeFault(mem, top.c, op)
    [] OTHER              -> "ok"

AssignContainer ==
  /\ OnWhole("assign")
  /\ WholeFault = "ok"
  /\ \E h \in SetWhole(mem, top.c, Converted(op.value, top.c.type)) : Done(h)

InsertContainer ==
  /\ OnWhole("insert")
  /\ WholeFault = "ok"
  /\ \E h \in InsertedWhole(mem, top.c, Converted(op.value, top.c.type)) : Done(h)

TestContainer == OnWhole("test") /\ WholeFault = "ok" /\ Done(mem)

RefuseContainer == Doing("container") /\ WholeFault # "ok" /\ Fail(WholeFault)

NestContainer ==
  /\ OnWhole("nest")
  /\ stack' = <<Frame(top.c, op.delta), Following(top)>> \o Tail(stack)
  /\ UNCHANGED <<mem, target, patch, outcome, err, returned>>

-----------------------------------------------------------------------------
(* The end of a delta, and of the document.                                *)

AtEnd == outcome = "running" /\ top.i > Len(top.entries)

\* The copy of a map entry goes back into the map.
\* Mutant: it does not.
KeptAway(h, fr) == h

StoredBack(h, fr) == IF fr.back = <<>> THEN h ELSE Set(h, fr.back[1], Value(h, fr.back[2]))

EndDelta ==
  /\ AtEnd /\ Len(stack) > 1
  /\ mem' = StoredBack(mem, top)
  /\ stack' = Tail(stack)
  /\ UNCHANGED <<target, patch, outcome, err, returned>>

Return ==
  /\ AtEnd /\ Len(stack) = 1
  /\ returned' = mem[Holder]
  /\ outcome' = "ok"
  /\ stack' = <<>>
  /\ UNCHANGED <<mem, target, patch, err>>

Finished == outcome \in {"ok", "failed", "panicked"} /\ UNCHANGED vars

OnTargets ==
  \/ Select \/ RefuseTargets \/ Vacuous \/ NothingToDo
  \/ RemoveTargets \/ TestTargets \/ FailTest \/ WriteTargets \/ Splice \/ RefuseWrite
  \/ Relocate \/ LoseSource \/ RefuseRelocate \/ NestTarget \/ NestScalar
OnContainer ==
  Empty \/ AssignContainer \/ InsertContainer \/ TestContainer \/ RefuseContainer \/ NestContainer

Next ==
  \/ Refuse \/ RefuseType \/ RefuseRoot \/ Begin
  \/ Arrive \/ LosePath \/ OnTargets \/ OnContainer
  \/ EndDelta \/ Return \/ Finished

Spec == Init /\ [][Next]_vars

\* Apply runs to its end: it waits for nothing, so a step that can be taken is.
FairSpec == Spec /\ WF_vars(Next)

=============================================================================
