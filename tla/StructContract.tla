--------------------------- MODULE StructContract ---------------------------
(***************************************************************************)
(* What an entry means for a Go value, and what the engine's memory has to *)
(* do with it.  The engine sets variables; a document is a tree, and an    *)
(* entry changes it in one place, at once.                                 *)
(***************************************************************************)
EXTENDS PatchStruct, Edits

\* The memory h with what the nests of the stack s have still to store back, and the
\* document it is then.
Settled(h, s) == FoldLeft(StoredBack, h, s)

DocIn(h, s) == CHOOSE d \in {Read(m, Value(m, Draft)) : m \in {Settled(h, s)}} : TRUE

\* Where the document has the entry of a map: in the copy a nest works on, if any.
Instead(s, at) ==
  LET away == {fr \in Range(s) : fr.back # <<>> /\ fr.back[1].at = at}
  IN  IF away = {} THEN at ELSE (CHOOSE fr \in away : TRUE).back[2].at

\* The place of the position pos of the document; <<>> if it ends before.
PlaceOf(h, s, pos) ==
  FoldLeft(LAMBDA at, seg :
             IF at = <<>> THEN <<>>
             ELSE LET v == ValueAt(h[at[1]], at[2]) IN
               CASE <<>> \notin DOMAIN v -> <<at[1], Append(at[2], seg)>>
                 [] ~IsRef(v[<<>>]) -> <<>>
                 [] v[<<>>].kind = "ptr" -> <<v[<<>>].to, <<>>>>
                 [] v[<<>>].kind = "map" -> Instead(s, <<v[<<>>].to, <<seg>>>>)
                 [] OTHER -> IF seg > v[<<>>].len THEN <<>> ELSE <<v[<<>>].to, <<seg>>>>,
           Draft.at, pos)

\* Is the variable of c the one that is part of the document?
Kept(c) == PlaceOf(mem, stack, c.pos) = c.at

-----------------------------------------------------------------------------
(* The meaning of an entry, at the container and the locations the engine  *)
(* has resolved: d is the document with the path opened, c the container.  *)

Cleared(d, c, L) ==
  IF KindOf(c) = "struct"
  THEN FoldLeft(LAMBDA x, l : With(x, c.pos, l, ZeroOf(TypeAt(c, l))), d, SetToSeq(L))
  ELSE Without(d, c.pos, L)

WrittenMeant(d, c, locs, v) ==
  FoldLeft(LAMBDA x, l : With(x, c.pos, l, Converted(v, TypeAt(c, l))), d, locs)

\* The source is read before anything is written and is gone afterwards, unless
\* it is a target.
MeantRelocation(d, c, locs, s) ==
  LET k   == Loc(mem, s, op.key)
      src == Append(s.pos, k)
      put == Everywhere(d, c.pos, locs, ValueAt(d, src))
  IN  IF op.kind = "move" /\ \A l \in Range(locs) : Append(c.pos, l) # src
      THEN Cleared(put, s, {k}) ELSE put

OnTargetsMeant(d, c, locs) ==
  CASE op.kind \in {"test", "nest"} \/ locs = <<>> \/ top.pc = "targets" -> d
    [] op.kind = "remove" -> Cleared(d, c, Range(locs))
    [] Splices -> Before(d, c.pos, Range(locs), Converted(op.value, Elem[c.type]))
    [] OTHER -> WrittenMeant(d, c, locs, op.value)

FieldsMeant(d, c, t, fs) == FoldLeft(LAMBDA x, f : With(x, c.pos, f.name, ValueAt(t, <<f.name>>)), d, SetToSeq(fs))

OnStructMeant(d, c, t) ==
  CASE op.kind = "remove" -> FieldsMeant(d, c, ZeroOf(c.type), Exported(c.type))
    [] op.kind = "assign" -> FieldsMeant(d, c, t, Exported(c.type))
    [] op.kind = "insert" -> FieldsMeant(d, c, t, SetFields(c.type, t))

OnContainerMeant(d, c) ==
  LET t == Converted(op.value, c.type) IN
  CASE op.kind \in {"test", "nest"} -> d
    [] KindOf(c) = "struct" -> OnStructMeant(d, c, t)
    [] op.kind = "remove" -> Graft(d, c.pos, EmptyTree(c))
    [] op.kind = "assign" -> Graft(d, c.pos, t)
    [] KindOf(c) = "map"  -> Overlay(d, c.pos, t)
    [] t = Leaf(SliceMark) -> d
    [] OTHER -> Graft(d, c.pos, Array(Elements(d, c.pos) \o Elements(t, <<>>)))

Meant(d) ==
  CASE top.pc = "container" -> {OnContainerMeant(d, top.c)}
    [] Relocating           -> {MeantRelocation(d, top.c, top.locs, s.c) : s \in sources}
    [] OTHER                -> {OnTargetsMeant(d, top.c, top.locs)}

\* The path makes what is missing on it and nothing else: an entry, a pointee, a
\* map or a slice where there was none, holding nothing; and only the last two
\* unless the entry asks for it.
Opens(d, e, c) ==
  LET way   == {SubSeq(c, 1, j) : j \in 0 .. Len(c)}
      vague == {p \in way : ~Has(d, p) \/ (p \in DOMAIN d /\ d[p] = Nil)}
  IN  /\ \A p \in DOMAIN d : p \in DOMAIN e /\ (e[p] = d[p] \/ p \in vague)
      /\ \A q \in DOMAIN e :
           \/ q \in DOMAIN d /\ e[q] = d[q]
           \/ /\ \E p \in vague : IsPrefix(p, q)
              /\ e[q] \in {Zero, Nil, MapMark, SliceMark, PtrMark}
              /\ ~E.create => q \in DOMAIN d /\ e[q] \in {MapMark, SliceMark}

Acting == outcome = "running" /\ top.i <= Len(top.entries)

\* Relocations the engine gives a meaning of its own: a target around the source,
\* or a move out of something in a slice that the entry makes longer.
Entangled ==
  Relocating /\ \E s \in sources :
    /\ s.fault = "ok"
    /\ \/ \E l \in Range(top.locs) : IsPrefix(Append(top.c.pos, l), s.c.pos)
       \/ op.kind = "move" /\ AppendSlot \in Range(top.locs) /\ IsStrictPrefix(top.c.pos, s.c.pos)

\* The entry works on the document itself.
Direct ==
  /\ (Acting /\ top.pc # "path") => Kept(top.c)
  /\ Relocating => \A s \in sources : s.fault = "ok" => Kept(s.c)
  /\ ~Entangled

\* Every map, slice and pointee of the document is in it once, and none of them is
\* the caller's: a write to one of them is a write in one place.
NothingShared(h, s) ==
  \A m \in {Settled(h, s)} : \A own \in {Reached(m, Value(m, Draft))} :
    IsInjective(own) /\ Range(own) \cap Range(Reached(h, target.val)) = {}

\* An entry that works on the document itself, where it shares nothing, changes it as
\* its operation says and nowhere else; and neither a nest nor its end changes it.
EntryMeans ==
  [][outcome = "running" /\ outcome' = "running" /\ Direct /\ NothingShared(mem, stack) =>
       \E d \in {DocIn(mem, stack)}, e \in {DocIn(mem', stack')} :
         IF Doing("path") THEN Opens(d, e, top'.c.pos)
         ELSE IF AtEnd THEN d = e
         ELSE e \in Meant(d)]_vars

\* The same wherever the path has led: what an entry writes is part of the answer (the
\* comment on cont: it is always addressable, so a slice can change length in place).
WritesAreKept ==
  [][/\ outcome = "running" /\ outcome' = "running"
     /\ Doing("act") \/ Doing("container")
     /\ ~Entangled /\ NothingShared(mem, stack)
     => DocIn(mem', stack') \in Meant(DocIn(mem, stack))]_vars

\* A move or a copy to several targets gives all of them what it holds.
HeldByMany ==
  Relocating /\ Len(top.locs) > 1 /\ \E s \in sources :
    s.fault = "ok" /\ \E l \in {Slot(s.mem, s.c, Loc(s.mem, s.c, op.key))} :
      \E p \in DOMAIN Value(s.mem, l) : IsRef(Value(s.mem, l)[p])

\* Nothing else gets shared: not by the copy of the caller's value, a literal, a
\* single target, or a nest.
NothingGetsShared ==
  [][NothingShared(mem, stack) /\ Direct /\ ~HeldByMany => NothingShared(mem', stack')]_vars

\* An entry panics only if its delta works on a nil map, or if it moves an element out
\* of what it writes: a path that leads into a nil map or slice makes one.
PanicsOnlyAtNilBase ==
  [][outcome = "running" /\ outcome' = "panicked" =>
       (KindOf(top.base) = "map" /\ Ref(mem, top.base) = Nil) \/ Entangled]_vars

-----------------------------------------------------------------------------
(* The call, as its caller sees it: values are trees.                      *)

TreeOf(v) == IF v = NoValue THEN NoValue ELSE Read(mem, v)

\* A call that panics does not return.
Atomic == INSTANCE AtomicApply WITH
  NoDoc <- NoValue, target <- Read(mem, target.val), returned <- TreeOf(returned),
  outcome <- IF outcome \in {"running", "panicked"} THEN "called" ELSE outcome,
  err <- IF outcome = "panicked" THEN "ok" ELSE err

\* Apply answers with a value or reports an error, in one step, and the caller's
\* value is the same throughout: no write of the engine reaches it.
AtomicSpec == Atomic!Spec

=============================================================================
