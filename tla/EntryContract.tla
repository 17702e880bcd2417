---------------------------- MODULE EntryContract ----------------------------
(***************************************************************************)
(* What the format says an entry on targets does, against what the engine  *)
(* has done by the end of one (proto/patch/patch.proto, TARGET RESOLUTION  *)
(* and OPERATION SEMANTICS).                                               *)
(*                                                                         *)
(* The format gives an entry a meaning as a whole: its selectors name a    *)
(* set of positions of the document as it was before the entry began, and  *)
(* the operation happens to all of them at once.  The engine resolves the  *)
(* selectors one after another and writes the positions one after another. *)
(* The history variable entered holds, for each delta on the stack, the    *)
(* document as it was when the entry it is at began.                       *)
(***************************************************************************)
EXTENDS PatchProto

VARIABLE entered

evars == <<target, patch, draft, stack, outcome, err, returned, entered>>

EInit == Init /\ entered = <<>>

Remember ==
  entered' =
    IF stack' = <<>> THEN <<>>
    ELSE CASE Len(stack') > Len(stack) -> <<draft'>> \o entered
           [] Len(stack') < Len(stack) -> Tail(entered)
           [] Len(stack') = Len(stack) -> IF Head(stack').i = Head(stack).i THEN entered
                                          ELSE <<draft'>> \o Tail(entered)

ENext == Next /\ Remember

ESpec == EInit /\ [][ENext]_evars

\* Apply waits for nothing: a step that can be taken is taken.
FairESpec == ESpec /\ WF_evars(ENext)

-----------------------------------------------------------------------------
(* The meaning of an entry: d is the document before it, c the container   *)
(* its path leads to.                                                      *)

\* The messages on the way to c that are not there, and d with them.
Absent(d, c) ==
  {p \in Prefixes(c) : IsMessageAt(p) /\ p \notin DOMAIN d}

WithPath(d, c) == [q \in DOMAIN d \cup Absent(d, c) |-> IF q \in DOMAIN d THEN d[q] ELSE Msg]

\* The positions the entry is for.
Selected(d, c, ent) ==
  UNION {Range(Kept(d, c, sel, ent.op.kind)) : sel \in Range(ent.targets)}

\* A list without the places S, or anything else without what is at S.
Without(d, c, S) ==
  IF IsListAt(c)
  THEN LET left == Ascending((1 .. Length(d, c)) \ S)
       IN  PutElements(d, c, [j \in DOMAIN left |-> ValueAt(d, Append(c, left[j]))])
  ELSE EraseAll(d, {Append(c, s) : s \in S})

\* The same value at every place of S.  Setting a member of a oneof clears the
\* others, and a field without presence set to its default reads as absent.
With(d, c, S, v) ==
  LET at(s)  == Append(c, IF s = AppendSlot THEN Length(d, c) + 1 ELSE s)
      gone   == {at(s) : s \in S} \cup {Append(c, t) : t \in UNION {Siblings(s) : s \in S \cap Field}}
      put    == {at(s) : s \in IF v = ScalarFragment(Default) THEN S \ Implicit ELSE S}
      kept   == EraseAll(d, gone)
  IN  [q \in DOMAIN kept \cup {p \o r : p \in put, r \in DOMAIN v} |->
         IF q \in DOMAIN kept THEN kept[q]
         ELSE v[Rest(CHOOSE p \in put : IsPrefix(p, q), q)]]

\* A copy of v before each place of S: an old element moves up by the number of
\* copies that come before it.
Interleaved(d, c, S, v) ==
  LET olds     == 1 .. Length(d, c)
      at(i)    == i + Cardinality({s \in S \cap olds : s <= i})
      total    == Length(d, c) + Cardinality(S)
      old(j)   == {i \in olds : at(i) = j}
  IN  PutElements(d, c, [j \in 1 .. total |->
        IF old(j) = {} THEN v ELSE ValueAt(d, Append(c, CHOOSE i \in old(j) : TRUE))])

\* The places a value at s takes: its own, and what of its oneof it clears.
Around(s) == {s} \cup (IF s \in Field THEN Siblings(s) ELSE {})

\* A place of S is around the source: what is written there takes the place of the
\* message the source was in, and the source is gone with that message.
Displaced(c, S, src) == \E s \in S : \E t \in Around(s) : IsPrefix(Append(c, t), src.c)

\* Every target but the source gets what the source held; then, for a move, the
\* source is cleared where it was before the entry began, unless it was a target.
Relocated(d, c, S, src, kind) ==
  LET from    == Append(src.c, src.s)
      isFrom(s) == Append(c, s) = from
      others  == {s \in S : ~isFrom(s)}
      written == With(d, c, others, ValueAt(d, from))
  IN  IF kind = "copy" \/ (\E s \in S : isFrom(s)) \/ Displaced(c, others, src) THEN written
      ELSE Without(written, src.c, {src.s})

Meaning(d, fr) ==
  LET ent == fr.entries[fr.i]
      at  == WithPath(d, fr.c)
      S   == Selected(at, fr.c, ent)
  IN  IF S = {} THEN at
      ELSE CASE ent.op.kind = "test"   -> d
             [] ent.op.kind = "remove" -> Without(at, fr.c, S)
             [] ent.op.kind = "assign" -> With(at, fr.c, S, Content(ent.op.value))
             [] ent.op.kind = "insert" -> IF IsListAt(fr.c)
                                          THEN Interleaved(at, fr.c, S, Content(ent.op.value))
                                          ELSE With(at, fr.c, S, Content(ent.op.value))
             [] OTHER                  -> Relocated(at, fr.c, S, fr.src, ent.op.kind)

-----------------------------------------------------------------------------
(* The entries the engine gives another meaning to.                        *)

\* Two targets are members of one oneof: the one written last is set.
SharesOneof(S) == \E s \in S \cap Field : Siblings(s) \cap S # {}

\* The source is around the targets, and grows with what they get.
SourceGrows(c, src) == IsPrefix(Append(src.c, src.s), c)

\* A target at the place of the source, in the list or map of another message,
\* is taken for the source.
SourceMistaken(c, S, src) == c # src.c /\ \E s \in S : SameLoc(c, s, src.c, src.s)

\* A message made on the way clears a member of its oneof.
PathClears(d, c) ==
  \E p \in {p \in Absent(d, c) : Last(p) \in Field} : \E g \in Siblings(Last(p)) : Has(d, Append(Front(p), g))

Entangled(d, fr) ==
  LET ent == fr.entries[fr.i]
      S   == Selected(WithPath(d, fr.c), fr.c, ent)
  IN  \/ PathClears(d, fr.c)
      \/ ent.op.kind \in {"assign", "move", "copy"} /\ SharesOneof(S)
      \/ /\ ent.op.kind \in {"move", "copy"}
         /\ S # {}
         /\ SourceGrows(fr.c, fr.src) \/ SourceMistaken(fr.c, S, fr.src)

-----------------------------------------------------------------------------
(* Properties.                                                             *)

\* A step that brings an entry on targets to its end.
Ends ==
  /\ Running
  /\ top.pc # "done"
  /\ Len(stack') = Len(stack)
  /\ Head(stack').pc = "done"
  /\ E.scope = "targets" /\ op.kind # "nest"

\* Whatever the order of the selectors and of the writes, an entry that ends has
\* done to its targets, as they were named before it began, what the format says
\* it does to all of them at once, and nothing else, unless it is entangled.
EntryKeepsContract ==
  [][Ends /\ ~Entangled(Head(entered), top) => draft' = Meaning(Head(entered), top)]_evars

=============================================================================
