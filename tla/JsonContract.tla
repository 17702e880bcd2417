---------------------------- MODULE JsonContract ----------------------------
(***************************************************************************)
(* What an entry means for a JSON document, and what the engine's memory   *)
(* has to do with it.  The engine works on maps and slices that share      *)
(* memory (module PatchJson); a document is a tree, and an entry changes   *)
(* it in one place, at once.                                               *)
(***************************************************************************)
EXTENDS PatchJson, Edits

DocIn(h) == Read(h, h[Holder])

\* The reference the document holds at pos; Nil if it ends before.
RefAtPos(h, pos) ==
  FoldLeft(LAMBDA v, s : CASE ~IsRef(v) \/ <<s>> \notin DOMAIN h[v.to] -> Nil
                           [] v.kind = "slice" /\ s > v.len           -> Nil
                           [] OTHER                                   -> h[v.to][<<s>>],
           h[Holder][<<>>], pos)

\* Is the container the delta is relative to the one the document has there?
Current(fr) == RefAtPos(mem, fr.base.pos) = fr.base.ref

\* The format says entries apply in order, and each observes the effects of those
\* before it: the engine starts every entry of a delta at the container as the
\* document has it by then.
EntriesSeeEffects == Doing("path") => Current(top)

-----------------------------------------------------------------------------
(* The meaning of an entry, at the container and the locations the engine  *)
(* has resolved: d is the document with the path created, c the container. *)

\* The source is read before anything is written and is gone afterwards, unless
\* it is a target.
MeantRelocation(d, c, locs, s) ==
  LET k   == Loc(s, op.key)
      src == Append(s.pos, k)
      put == Everywhere(d, c, locs, ValueAt(d, src))
  IN  IF op.kind = "move" /\ \A l \in Range(locs) : Append(c, l) # src
      THEN Without(put, s.pos, {k}) ELSE put

OnTargetsMeant(d, c, locs) ==
  CASE op.kind \in {"test", "nest"} \/ locs = <<>> \/ top.pc = "targets" -> d
    [] op.kind = "remove" -> Without(d, c, Range(locs))
    [] op.kind = "insert" /\ d[c] = SliceMark -> Before(d, c, Range(locs), Rendered(op.value))
    [] op.kind \in {"insert", "assign"} -> Everywhere(d, c, locs, Rendered(op.value))

OnContainerMeant(d, c) ==
  CASE op.kind = "remove" -> Graft(d, c, Leaf(d[c]))
    [] op.kind \in {"test", "nest"} -> d
    [] op.kind = "assign" -> Graft(d, c, Rendered(op.value) @@ Leaf(d[c]))
    [] op.kind = "insert" /\ d[c] = SliceMark
         -> Graft(d, c, Array(Elements(d, c) \o Elements(Rendered(op.value), <<>>)))
    [] op.kind = "insert" -> Overlay(d, c, Rendered(op.value))

\* A path that may create adds the objects it is missing, and no path does more.
PathMeant(d, c) ==
  LET way == {SubSeq(c, 1, j) : j \in 0 .. Len(c)}
  IN  [p \in DOMAIN d \cup way |-> IF p \in DOMAIN d THEN d[p] ELSE MapMark]

Meant(d) ==
  CASE top.pc = "path"      -> {PathMeant(d, r.c.pos) : r \in reached}
    [] top.pc = "container" -> {OnContainerMeant(d, top.c.pos)}
    [] Relocating           -> {MeantRelocation(d, top.c.pos, top.locs, s.c) : s \in sources}
    [] OTHER                -> {OnTargetsMeant(d, top.c.pos, top.locs)}

Acting == outcome = "running" /\ top.i <= Len(top.entries)

\* Relocations the engine gives a meaning of its own: more than one target inside
\* the source, a target around the source, or a move by path out of an array that
\* lies within, or is, one that the entry makes longer: its new header goes to the
\* array as it was before it grew.
Entangled ==
  Relocating /\ \E s \in sources :
    LET c   == top.c.pos
        src == Append(s.c.pos, Loc(s.c, op.key))
    IN  /\ s.fault = "ok"
        /\ \/ IsPrefix(src, c) /\ Len(top.locs) > 1
           \/ \E l \in Range(top.locs) : IsPrefix(Append(c, l), s.c.pos)
           \/ /\ op.kind = "move" /\ op.origin = "path" /\ IsArr(s.c)
              /\ IsPrefix(c, s.c.pos) /\ AppendSlot \in Range(top.locs)

\* An entry that starts at the container the document has there changes the
\* document as its operation says, in that container and nowhere else: no write
\* goes to an array that is no longer part of it, and none shows in another place.
EntryMeans ==
  [][Acting /\ Current(top) /\ ~Entangled /\ outcome' = "running" => DocIn(mem') \in Meant(DocIn(mem))]_vars

\* Every object and every array of the document is in it once, and none of them
\* is the caller's: an entry that writes one of them writes one place.
NothingShared(h) ==
  LET own == Reached(h, h[Holder]) IN
  /\ IsInjective(own)
  /\ Range(own) \cap Range(Reached(h, target)) = {}

\* It stays so: the copy Begin takes, every literal and every target of a move or a
\* copy is in memory of its own.
NothingGetsShared ==
  [][NothingShared(mem) /\ (Acting => Current(top) /\ ~Entangled) => NothingShared(mem')]_vars

-----------------------------------------------------------------------------
(* The call, as its caller sees it: values are trees.                      *)

TreeOf(v) == IF v = NoValue THEN NoValue ELSE Read(mem, v)

Atomic == INSTANCE AtomicApply WITH
  NoDoc <- NoValue, target <- Read(mem, target), returned <- TreeOf(returned),
  outcome <- IF outcome = "running" THEN "called" ELSE outcome

\* ApplyValue answers with a value or reports an error, in one step, and the
\* caller's value is the same tree throughout: no write of the engine reaches it.
AtomicSpec == Atomic!Spec

=============================================================================
