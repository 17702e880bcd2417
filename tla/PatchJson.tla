----------------------------- MODULE PatchJson -----------------------------
(***************************************************************************)
(* patchjson.ApplyValue: a document applied to a decoded JSON value, one   *)
(* entry after another, in a step each for its path, its selectors and its *)
(* operation (patchjson/apply.go, cont.go, container.go, value.go).        *)
(*                                                                         *)
(* The value lives in a memory (module Memory): an object is a map block,  *)
(* an array a slice.  A container the engine has reached is                *)
(*   ref    the object, or the slice header the engine holds               *)
(*   home   the <<block, position>> setArr stores another header at        *)
(*   pos    the position in the document it was reached by (not in the     *)
(*          code: the properties speak of it)                              *)
(* A location in it is a member's name, a 1-based place, AppendSlot, or    *)
(* NoSlot.                                                                 *)
(*                                                                         *)
(* A scalar literal is [arm, scalar], and JsonOf says what it renders as;  *)
(* the others are [arm |-> "l", items], [arm |-> "m", fields] and          *)
(* [arm |-> "map", entries], fields and entries being sequences of         *)
(* [key, value].                                                           *)
(***************************************************************************)
EXTENDS Memory, Resolve

CONSTANTS
  Name,       (* Member names.                                             *)
  JsonOf,     (* Scalar literals -> Scalar, for those JSON can carry.      *)
  Targets,    (* The values ApplyValue is called with, as trees.           *)
  Patches,    (* The documents it is called with.                          *)
  Expected    (* <<name>> if the caller passed ExpectType, <<>> otherwise. *)

VARIABLES
  mem,       (* Everything in memory.                                      *)
  target,    (* The caller's value.                                        *)
  patch,     (* The document; faults is what ValidateWith, which module    *)
             (* Validate models, finds in it.                              *)
  stack,     (* The deltas being applied, innermost first.                 *)
  outcome, err, returned

vars == <<mem, target, patch, stack, outcome, err, returned>>

NoValue == [p \in {} |-> Nil]

\* The variable root of ApplyValue, which holder points to.
Holder == <<2, <<>>>>

IsArr(c) == c.ref.kind = "slice"

Cont(v, home, pos) == [ref |-> v, home |-> home, pos |-> pos]

Content(h, c) == h[c.ref.to]
Members(h, c) == {p[1] : p \in DOMAIN Content(h, c)}

\* setArr: the container at hand, and where it came from, get the new header.
\* Mutant: only the container at hand.
SetLocal(r, c) == [mem |-> r.mem, c |-> [c EXCEPT !.ref = r.ref]]

SetArr(r, c) ==
  [mem |-> Put(r.mem, c.home[1], c.home[2], Leaf(r.ref)), c |-> [c EXCEPT !.ref = r.ref]]

-----------------------------------------------------------------------------
(* Keys and paths.                                                         *)

\* MemberName and MemberKey.  A name, or a json_name, is <<>> when not set.
NameFault(k) ==
  CASE k.number -> "IllegalArm"
    [] k.name # <<>> /\ k.json_name # <<>> /\ k.name # k.json_name -> "FieldConflict"
    [] OTHER -> "ok"

MemberFault(k) ==
  CASE k.arm = "index"   -> "IllegalArm"
    [] k.arm = "map_key" -> IF k.key \in Name THEN "ok" ELSE "IllegalArm"
    [] OTHER             -> NameFault(k)

Member(k) == IF k.arm = "map_key" THEN k.key ELSE (k.json_name \o k.name)[1]

KeyFault(c, k) ==
  IF ~IsArr(c) THEN MemberFault(k) ELSE IF k.arm = "index" THEN "ok" ELSE "IllegalArm"

Loc(c, k) ==
  IF IsArr(c)
  THEN LET i == NormalizeIndex(k.index, c.ref.len) IN IF i = Vacant THEN NoSlot ELSE i + 1
  ELSE Member(k)

\* emptySlot: a member that is not there yet.
EmptySlot(h, c, l) == ~IsArr(c) /\ l \notin Members(h, c)

At(h, c, l) == Content(h, c)[<<l>>]

\* The container in c at l: its home is the block it was found in.
Child(h, c, l) == Cont(At(h, c, l), <<c.ref.to, <<l>>>>, Append(c.pos, l))

\* descend.  Only a missing member is created, as an object.
Descend(r, k, create) ==
  LET h == r.mem
      l == Loc(r.c, k)
  IN  CASE KeyFault(r.c, k) # "ok" -> {[r EXCEPT !.fault = KeyFault(r.c, k)]}
        [] l = NoSlot \/ (EmptySlot(h, r.c, l) /\ ~create) -> {[r EXCEPT !.fault = "PathNotReached"]}
        [] EmptySlot(h, r.c, l) -> {[r EXCEPT !.mem = made, !.c = Child(made, r.c, l)] :
                                      made \in Store(h, r.c.ref.to, <<l>>, Leaf(MapMark))}
        [] ~IsRef(At(h, r.c, l)) -> {[r EXCEPT !.fault = "PathNotReached"]}
        [] OTHER -> {[r EXCEPT !.c = Child(h, r.c, l)]}

Navigate(h, base, path, create) ==
  FoldLeft(LAMBDA R, k : UNION {IF r.fault = "ok" THEN Descend(r, k, create) ELSE {r} : r \in R},
           {[mem |-> h, c |-> base, fault |-> "ok"]}, path)

-----------------------------------------------------------------------------
(* Selectors.                                                              *)

SelectorFault(c, sel) ==
  CASE sel.arm = "key"                 -> KeyFault(c, sel.key)
    [] sel.arm \in {"range", "append"} -> IF IsArr(c) THEN "ok" ELSE "IllegalArm"
    [] sel.arm = "every_entry"         -> IF IsArr(c) THEN "IllegalArm" ELSE "ok"
    [] sel.arm = "oneof_member"        -> "IllegalArm"

Named(h, c, sel) ==
  CASE sel.arm = "key"         -> <<Loc(c, sel.key)>>
    [] sel.arm = "range"       -> LET r == NormalizeRange(sel, c.ref.len)
                                  IN  [j \in 1 .. r.end - r.begin |-> r.begin + j]
    [] sel.arm = "append"      -> <<AppendSlot>>
    [] sel.arm = "every_entry" -> SetToSeq(Members(h, c))

Missing(h, c, l, kind) ==
  /\ kind # "test"
  /\ l = NoSlot \/ (kind \in {"remove", "nest"} /\ EmptySlot(h, c, l))

\* identIn: what two locations share that are the same target.  An index outside
\* the array, which only a test gets to keep, counts as the first one.
Ident(l) == IF l = NoSlot THEN 1 ELSE l

\* expand: every selector is resolved before the entry writes.
ExpandOne(h, c, e, r, sel) ==
  LET all  == Named(h, c, sel)
      kept == SelectSeq(all, LAMBDA l : ~Missing(h, c, l, e.op.kind))
  IN  CASE r.fault # "ok"                  -> r
        [] SelectorFault(c, sel) # "ok"    -> [r EXCEPT !.fault = SelectorFault(c, sel)]
        [] ~e.skip /\ Len(kept) < Len(all) -> [r EXCEPT !.fault = "VacantTarget"]
        [] \E l \in Range(kept), t \in Range(r.locs) : Ident(l) = Ident(t)
             -> [r EXCEPT !.fault = "DuplicateTarget"]
        [] OTHER -> [r EXCEPT !.locs = @ \o kept]

Expand(h, c, e) ==
  FoldLeft(LAMBDA R, sel : {ExpandOne(h, c, e, r, sel) : r \in R},
           {[locs |-> <<>>, fault |-> "ok"]}, e.targets)

-----------------------------------------------------------------------------
(* Literals.                                                               *)

RECURSIVE RenderFault(_), Rendered(_)

\* A literal's members, with the one at fault: a key that names no member, a
\* member that is named twice, or a value.
MembersFault(ms) ==
  FirstFault([i \in DOMAIN ms |->
    CASE MemberFault(ms[i].key) # "ok" -> MemberFault(ms[i].key)
      [] \E j \in 1 .. i - 1 : Member(ms[j].key) = Member(ms[i].key) -> "DuplicateTarget"
      [] OTHER -> RenderFault(ms[i].value)])

RenderFault(v) ==
  CASE v.arm = "l"   -> FirstFault([i \in DOMAIN v.items |-> RenderFault(v.items[i])])
    [] v.arm = "m"   -> MembersFault(v.fields)
    [] v.arm = "map" -> MembersFault(v.entries)
    [] OTHER         -> IF v \in DOMAIN JsonOf THEN "ok" ELSE "IllegalArm"

ObjectOf(ms) ==
  (<<>> :> MapMark) @@
  Collection([l \in {Member(ms[i].key) : i \in DOMAIN ms} |->
    Rendered(ms[CHOOSE i \in DOMAIN ms : Member(ms[i].key) = l].value)])

\* render: the JSON value, as a tree.
Rendered(v) ==
  CASE v.arm = "l"   -> (<<>> :> SliceMark) @@
                        Collection([i \in DOMAIN v.items |-> Rendered(v.items[i])])
    [] v.arm = "m"   -> ObjectOf(v.fields)
    [] v.arm = "map" -> ObjectOf(v.entries)
    [] OTHER         -> Leaf(JsonOf[v])

\* equal: sameJSON takes numbers for the same if they are the same number.
EqualFault(t, v) ==
  CASE RenderFault(v) # "ok"      -> RenderFault(v)
    [] ~SameTree(t, Rendered(v))  -> "TestFailed"
    [] OTHER                      -> "ok"

-----------------------------------------------------------------------------
(* Operations on targets.                                                  *)

\* removeAt.  The elements of an array go in place, the last one first.
\* Mutant: the first one first.
Ascending(S) == SetToSortSeq(S, LAMBDA a, b : a < b)

Descending(S) == SetToSortSeq(S, LAMBDA a, b : a > b)

RemovedFrom(h, c, locs) ==
  IF IsArr(c)
  THEN {SetArr(r, c) : r \in FoldLeft(LAMBDA R, i : {Closed(r.mem, r.ref, i) : r \in R},
                                      {[mem |-> h, ref |-> c.ref]}, Descending(Range(locs)))}
  ELSE {[mem |-> [h EXCEPT ![c.ref.to] = EraseAll(@, {<<l>> : l \in Range(locs)})], c |-> c]}

\* assignAt, and insertAt for an object: every target gets a rendering of its own.
WrittenAt(h, c, locs, t) ==
  FoldLeft(LAMBDA R, l : UNION {Store(m, c.ref.to, <<l>>, t) : m \in R}, {h}, locs)

\* spliceInto: a new array, a rendering before each element that was named.
SplicedInto(h, c, locs, t) ==
  LET S        == Range(locs) \ {AppendSlot}
      old      == Held(h, c.ref)
      out(new) == FlattenSeq([i \in DOMAIN old |->
                    IF i \in S THEN <<new[Cardinality({j \in S : j <= i})], old[i]>>
                               ELSE <<old[i]>>])
                  \o (IF AppendSlot \in Range(locs) THEN <<Last(new)>> ELSE <<>>)
  IN  {SetArr(NewArray(all.mem, out(all.vals)), c) : all \in LoadedAll(h, [i \in DOMAIN locs |-> t])}

\* append: the trees ts at the end of the array of c.
Appended(h, c, ts) ==
  {SetArr(Grown(all.mem, c.ref, all.vals, Leaf(Nil)), c) : all \in LoadedAll(h, ts)}

\* testAt.
TestFault(h, c, l, op) ==
  LET present == l # NoSlot /\ ~EmptySlot(h, c, l) IN
  CASE op.want = "exists" -> IF present = op.exists THEN "ok" ELSE "TestFailed"
    [] ~present           -> "TestFailed"
    [] OTHER              -> EqualFault(Read(h, Leaf(At(h, c, l))), op.value)

\* relocate.  A source path starts at the delta's container, as the engine holds
\* it, and creates nothing.
SourceFault(h, c, k) ==
  CASE KeyFault(c, k) # "ok" -> KeyFault(c, k)
    [] Loc(c, k) = NoSlot \/ EmptySlot(h, c, Loc(c, k)) -> "SourceUnresolved"
    [] OTHER -> "ok"

Source(h, base, c, op) ==
  LET from == IF op.origin = "path" THEN Navigate(h, base, op.path, FALSE)
              ELSE {[mem |-> h, c |-> c, fault |-> "ok"]}
  IN  {[r EXCEPT !.fault = IF @ # "ok" THEN @ ELSE SourceFault(h, r.c, op.key)] : r \in from}

SameLoc(a, b, x, y) ==
  /\ IsArr(a) = IsArr(b)
  /\ x # AppendSlot /\ x = y
  /\ a.ref.to = b.ref.to
  /\ IsArr(a) => a.ref.len = b.ref.len

\* One target: a copy of what the source holds by now is written, at the place
\* the target was resolved to.
\* Mutant: the source itself.
SharedAt(h, c, l, got) ==
  {IF l = AppendSlot THEN SetArr(Grown(h, c.ref, <<Leaf(got)>>, Leaf(Nil)), c)
                     ELSE [mem |-> Put(h, c.ref.to, <<l>>, Leaf(got)), c |-> c]}

CopiedAt(h, c, l, got) ==
  LET t == Read(h, Leaf(got)) IN
  IF l = AppendSlot THEN Appended(h, c, <<t>>)
                    ELSE {[mem |-> m, c |-> c] : m \in Store(h, c.ref.to, <<l>>, t)}

\* One target of r, the state of the loop: s is the source's container, k its place
\* there.  Without a path it is the container at hand, and sees that grow; with
\* one it is a copy of the header of its container.
In(r, s, op) == IF op.origin = "path" THEN s ELSE r.c

RelocatedTo(r, s, k, got, op, l) ==
  IF SameLoc(r.c, In(r, s, op), l, k) THEN {[r EXCEPT !.same = TRUE]}
  ELSE {[r EXCEPT !.mem = w.mem, !.c = w.c] : w \in CopiedAt(r.mem, r.c, l, got)}

Relocated(h, s, c, locs, op) ==
  LET k   == Loc(s, op.key)
      end == FoldLeft(LAMBDA R, l : UNION {RelocatedTo(r, s, k, At(h, s, k), op, l) : r \in R},
                      {[mem |-> h, c |-> c, same |-> FALSE]}, locs)
  IN  UNION {IF op.kind = "move" /\ ~r.same THEN RemovedFrom(r.mem, In(r, s, op), <<k>>) ELSE {r} : r \in end}

-----------------------------------------------------------------------------
(* Operations on the container itself.                                     *)

ContainerValueFault(c, v) ==
  IF v.arm \in (IF IsArr(c) THEN {"l"} ELSE {"m", "map"}) THEN RenderFault(v) ELSE "IllegalArm"

\* An object takes over the members of the object t.
MembersOf(t) == {p[1] : p \in {q \in DOMAIN t : Len(q) = 1}}
Filled(h, c, t) ==
  FoldLeft(LAMBDA R, l : UNION {Store(m, c.ref.to, <<l>>, ValueAt(t, <<l>>)) : m \in R},
           {h}, SetToSeq(MembersOf(t)))

Emptied(h, c) ==
  IF IsArr(c) THEN SetArr(NewArray(h, <<>>), c).mem ELSE [h EXCEPT ![c.ref.to] = NoValue]

Items(t) == [i \in 1 .. Length(t, <<>>) |-> ValueAt(t, <<i>>)]

AssignedWhole(h, c, t) ==
  IF IsArr(c) THEN {SetArr(NewArray(all.mem, all.vals), c).mem : all \in LoadedAll(h, Items(t))}
              ELSE Filled(Emptied(h, c), c, t)

InsertedWhole(h, c, t) ==
  IF IsArr(c) THEN {r.mem : r \in Appended(h, c, Items(t))} ELSE Filled(h, c, t)

InsertWholeFault(h, c, v) ==
  CASE ContainerValueFault(c, v) # "ok" -> ContainerValueFault(c, v)
    [] ~IsArr(c) /\ Members(h, c) \cap MembersOf(Rendered(v)) # {} -> "Occupied"
    [] OTHER -> "ok"

IsEmpty(h, c) == IF IsArr(c) THEN c.ref.len = 0 ELSE Members(h, c) = {}

TestWholeFault(h, c, op) ==
  CASE op.want = "exists"                      -> IF IsEmpty(h, c) = op.exists THEN "TestFailed" ELSE "ok"
    [] ContainerValueFault(c, op.value) # "ok" -> ContainerValueFault(c, op.value)
    [] OTHER                                   -> EqualFault(Read(h, Leaf(c.ref)), op.value)

-----------------------------------------------------------------------------
(* ApplyValue up to the first entry.                                       *)

Frame(base, entries) ==
  [base |-> base, entries |-> entries, i |-> 1, pc |-> "path", c |-> base, locs |-> <<>>]

top == Head(stack)
E   == top.entries[top.i]
op  == E.op

Fail(code) ==
  /\ outcome' = "failed"
  /\ err' = code
  /\ stack' = <<>>
  /\ UNCHANGED <<mem, target, patch, returned>>

Init ==
  /\ \E t \in Targets :
       LET in == Load(t, 0) IN target = in.val /\ mem = (Holder :> NoValue) @@ in.blocks
  /\ patch \in Patches
  /\ stack = <<>>
  /\ outcome = "called"
  /\ err = "ok"
  /\ returned = NoValue

Refuse ==
  /\ outcome = "called"
  /\ \E code \in patch.faults : Fail(code)

TypeMatches == Expected = <<>> \/ patch.message_type \in {<<>>, Expected}

RefuseType ==
  /\ outcome = "called"
  /\ patch.faults = {} /\ ~TypeMatches
  /\ Fail("MessageTypeMismatch")

\* The copy the engine works on.
\* Mutant: of the outermost container only.
ShallowCopy(h, v) ==
  {[mem |-> (<<1, <<>>>> :> h[v[<<>>].to]) @@ h, val |-> Leaf([v[<<>>] EXCEPT !.to = <<1, <<>>>>])]}

Copy(h, v) == {[mem |-> in.blocks @@ h, val |-> in.val] : in \in {Load(t, 1) : t \in {Read(h, v)}}}

Begin ==
  /\ outcome = "called"
  /\ patch.faults = {} /\ TypeMatches
  /\ IsRef(target[<<>>])
  /\ \E root \in Copy(mem, target) :
       /\ mem' = Put(root.mem, Holder, <<>>, root.val)
       /\ stack' = <<Frame(Cont(root.val[<<>>], <<Holder, <<>>>>, <<>>), patch.delta)>>
  /\ outcome' = "running"
  /\ UNCHANGED <<target, patch, err, returned>>

\* rootCont.
RefuseRoot ==
  /\ outcome = "called"
  /\ patch.faults = {} /\ TypeMatches
  /\ ~IsRef(target[<<>>])
  /\ Fail("NotAContainer")

-----------------------------------------------------------------------------
(* applyEntry: the path, and the selectors.                                *)

Doing(pc) == outcome = "running" /\ top.i <= Len(top.entries) /\ top.pc = pc

\* The step leaves the memory as h, and the innermost delta as fr.
Continue(h, fr) ==
  /\ mem' = h
  /\ stack' = <<fr>> \o Tail(stack)
  /\ UNCHANGED <<target, patch, outcome, err, returned>>

\* The entry is done, and the delta goes on to the next.
Following(fr) == [Frame(fr.base, fr.entries) EXCEPT !.i = fr.i + 1]
Done(h) == Continue(h, Following(top))

reached == Navigate(mem, top.base, E.path, E.create)

Arrive ==
  /\ Doing("path")
  /\ \E r \in reached : r.fault = "ok" /\ Continue(r.mem, [top EXCEPT !.c = r.c, !.pc = E.scope])

LosePath == Doing("path") /\ \E r \in reached : r.fault # "ok" /\ Fail(r.fault)

chosen == Expand(mem, top.c, E)

Select ==
  /\ Doing("targets")
  /\ \E r \in chosen : r.fault = "ok" /\ Continue(mem, [top EXCEPT !.locs = r.locs, !.pc = "act"])

RefuseTargets == Doing("targets") /\ \E r \in chosen : r.fault # "ok" /\ Fail(r.fault)

-----------------------------------------------------------------------------
(* applyToTargets.                                                         *)

Vacuous == Doing("act") /\ top.locs = <<>> /\ op.kind = "test" /\ Fail("TestVacuous")

\* No target, or no further one to nest.
NothingToDo == Doing("act") /\ top.locs = <<>> /\ op.kind # "test" /\ Done(mem)

On(kind) == Doing("act") /\ top.locs # <<>> /\ op.kind = kind

RemoveTargets == On("remove") /\ \E r \in RemovedFrom(mem, top.c, top.locs) : Done(r.mem)

TestTargetsFault ==
  FirstFault([i \in DOMAIN top.locs |-> TestFault(mem, top.c, top.locs[i], op)])

TestTargets == On("test") /\ TestTargetsFault = "ok" /\ Done(mem)

FailTest == On("test") /\ TestTargetsFault # "ok" /\ Fail(TestTargetsFault)

AssignTargets ==
  /\ On("assign")
  /\ RenderFault(op.value) = "ok"
  /\ \E h \in WrittenAt(mem, top.c, top.locs, Rendered(op.value)) : Done(h)

RefuseAssign == On("assign") /\ RenderFault(op.value) # "ok" /\ Fail(RenderFault(op.value))

\* An object's members are filled one by one, and the first that is there is in
\* the way.
InsertFault ==
  FirstFault([i \in DOMAIN top.locs |->
    IF ~IsArr(top.c) /\ top.locs[i] \in Members(mem, top.c)
    THEN "Occupied" ELSE RenderFault(op.value)])

InsertMembers ==
  /\ On("insert") /\ ~IsArr(top.c)
  /\ InsertFault = "ok"
  /\ \E h \in WrittenAt(mem, top.c, top.locs, Rendered(op.value)) : Done(h)

Splice ==
  /\ On("insert") /\ IsArr(top.c)
  /\ InsertFault = "ok"
  /\ \E r \in SplicedInto(mem, top.c, top.locs, Rendered(op.value)) : Done(r.mem)

RefuseInsert == On("insert") /\ InsertFault # "ok" /\ Fail(InsertFault)

Relocating == On("move") \/ On("copy")

sources == Source(mem, top.base, top.c, op)

Relocate ==
  /\ Relocating
  /\ \E s \in sources :
       s.fault = "ok" /\ \E r \in Relocated(mem, s.c, top.c, top.locs, op) : Done(r.mem)

LoseSource == Relocating /\ \E s \in sources : s.fault # "ok" /\ Fail(s.fault)

\* nestAt: the inner delta, applied to one target after another.
inner == Child(mem, top.c, Head(top.locs))

NestTarget ==
  /\ On("nest")
  /\ IsRef(inner.ref)
  /\ stack' = <<Frame(inner, op.delta), [top EXCEPT !.locs = Tail(@)]>> \o Tail(stack)
  /\ UNCHANGED <<mem, target, patch, outcome, err, returned>>

NestScalar == On("nest") /\ ~IsRef(inner.ref) /\ Fail("NotAContainer")

-----------------------------------------------------------------------------
(* applyToContainer.                                                       *)

OnWhole(kind) == Doing("container") /\ op.kind = kind

Empty == OnWhole("remove") /\ Done(Emptied(mem, top.c))

WholeFault ==
  CASE op.kind = "assign" -> ContainerValueFault(top.c, op.value)
    [] op.kind = "insert" -> InsertWholeFault(mem, top.c, op.value)
    [] op.kind = "test"   -> TestWholeFault(mem, top.c, op)
    [] OTHER              -> "ok"

AssignContainer ==
  /\ OnWhole("assign")
  /\ WholeFault = "ok"
  /\ \E h \in AssignedWhole(mem, top.c, Rendered(op.value)) : Done(h)

InsertContainer ==
  /\ OnWhole("insert")
  /\ WholeFault = "ok"
  /\ \E h \in InsertedWhole(mem, top.c, Rendered(op.value)) : Done(h)

TestContainer == OnWhole("test") /\ WholeFault = "ok" /\ Done(mem)

RefuseContainer == Doing("container") /\ WholeFault # "ok" /\ Fail(WholeFault)

NestContainer ==
  /\ OnWhole("nest")
  /\ stack' = <<Frame(top.c, op.delta), Following(top)>> \o Tail(stack)
  /\ UNCHANGED <<mem, target, patch, outcome, err, returned>>

-----------------------------------------------------------------------------
(* The end of a delta, and of the document.                                *)

AtEnd == outcome = "running" /\ top.i > Len(top.entries)

EndDelta ==
  /\ AtEnd /\ Len(stack) > 1
  /\ stack' = Tail(stack)
  /\ UNCHANGED <<mem, target, patch, outcome, err, returned>>

Return ==
  /\ AtEnd /\ Len(stack) = 1
  /\ returned' = mem[Holder]
  /\ outcome' = "ok"
  /\ stack' = <<>>
  /\ UNCHANGED <<mem, target, patch, err>>

Finished == outcome \in {"ok", "failed"} /\ UNCHANGED vars

OnTargets ==
  \/ Select \/ RefuseTargets \/ Vacuous \/ NothingToDo
  \/ RemoveTargets \/ TestTargets \/ FailTest \/ AssignTargets \/ RefuseAssign
  \/ InsertMembers \/ Splice \/ RefuseInsert \/ Relocate \/ LoseSource \/ NestTarget \/ NestScalar
OnContainer ==
  Empty \/ AssignContainer \/ InsertContainer \/ TestContainer \/ RefuseContainer \/ NestContainer

Next ==
  \/ Refuse \/ RefuseType \/ RefuseRoot \/ Begin
  \/ Arrive \/ LosePath \/ OnTargets \/ OnContainer
  \/ EndDelta \/ Return \/ Finished

Spec == Init /\ [][Next]_vars

=============================================================================
