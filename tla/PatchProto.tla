----------------------------- MODULE PatchProto -----------------------------
(***************************************************************************)
(* patchproto.Apply: a document applied to a protobuf message, one step of *)
(* the engine at a time.                                                   *)
(*                                                                         *)
(* The engine is recursive: a nest applies an inner delta to each of its   *)
(* targets.  Its call stack is the variable stack, innermost delta first.  *)
(* A frame is one delta being applied, and the entry it has come to:       *)
(*   base     the container the delta is relative to                       *)
(*   entries  the delta, and i the entry's place in it                     *)
(*   pc       what the entry is doing                                      *)
(*   c, n     the container reached, and the next segment or selector      *)
(*   locs     the positions in c that are still to be acted on             *)
(*   src      the source of a move or a copy                               *)
(***************************************************************************)
EXTENDS Validate, Address

CONSTANTS
  Targets,     (* The messages Apply is called with.                       *)
  Patches,     (* The documents it is called with.                         *)
  MessageType  (* The full name of the target's message type.              *)

\* Apply is called with messages, which are what protobuf can hold.
ASSUME TargetsAssumption == \A t \in Targets : IsMessage(t)

\* The documents are Patch messages.
ASSUME PatchesAssumption == \A p \in Patches : IsDocument(p)

VARIABLES
  target,      (* The message Apply was called with: the caller's.         *)
  patch,       (* The document Apply was called with.                      *)
  draft,       (* The private copy the engine works on.                    *)
  stack,       (* The deltas being applied, innermost first.               *)
  outcome,     (* "called", "running", "ok" or "failed".                   *)
  err,         (* The code of the error, or "panic"; "ok" for none.        *)
  returned     (* What Apply has returned: a message, or NoDoc.            *)

vars == <<target, patch, draft, stack, outcome, err, returned>>

\* The zero value of T: no message at all, not even an empty one.
NoDoc == EmptyFragment

-----------------------------------------------------------------------------
(* Frames.                                                                 *)

NoSource ==
  [c |-> <<>>, s |-> NoSlot, held |-> EmptyFragment, attached |-> TRUE, same |-> FALSE]

Frame(base, entries) ==
  [base |-> base, entries |-> entries, i |-> 1,
   pc |-> "path", c |-> base, n |-> 1, locs |-> <<>>, src |-> NoSource]

top == Head(stack)
E   == top.entries[top.i]
op  == E.op

At(pc) == outcome = "running" /\ top.pc = pc

\* The innermost delta goes on as fr.
Continue(fr) == stack' = <<fr>> \o Tail(stack)

GoTo(pc) == Continue([top EXCEPT !.pc = pc])

\* Mutant: a failed call that hands out what it had done so far.
FailInPlace(code) ==
  /\ outcome' = "failed"
  /\ err' = code
  /\ stack' = <<>>
  /\ returned' = draft
  /\ UNCHANGED <<target, patch, draft>>

Fail(code) ==
  /\ outcome' = "failed"
  /\ err' = code
  /\ stack' = <<>>
  /\ UNCHANGED <<target, patch, draft, returned>>

\* A step that only writes the draft, and one that only moves on.
Writing == UNCHANGED <<target, patch, outcome, err, returned>>
Reading == Writing /\ UNCHANGED draft

-----------------------------------------------------------------------------
(* Apply up to the first entry.                                            *)

Init ==
  /\ target \in Targets
  /\ patch \in Patches
  /\ draft = NoDoc
  /\ stack = <<>>
  /\ outcome = "called"
  /\ err = "ok"
  /\ returned = NoDoc

\* ValidateWith refuses the document.
Refuse ==
  /\ outcome = "called"
  /\ \E code \in DocumentFaults(patch) : Fail(code)

TypeMatches == patch.message_type \in {<<>>, <<MessageType>>}

RefuseType ==
  /\ outcome = "called"
  /\ DocumentFaults(patch) = {}
  /\ ~TypeMatches
  /\ Fail("MessageTypeMismatch")

\* The work is done on a clone of the target.
Begin ==
  /\ outcome = "called"
  /\ DocumentFaults(patch) = {}
  /\ TypeMatches
  /\ draft' = target
  /\ stack' = <<Frame(<<>>, patch.delta)>>
  /\ outcome' = "running"
  /\ UNCHANGED <<target, patch, err, returned>>

-----------------------------------------------------------------------------
(* navigate: the entry's path, one segment a step.                         *)

Descend ==
  /\ At("path")
  /\ top.n <= Len(E.path)
  /\ LET key == E.path[top.n]
         s   == Slot(draft, top.c, key)
     IN  /\ DescendFault(draft, top.c, key, E.create) = "ok"
         /\ draft' = Entered(draft, top.c, s)
         /\ Continue([top EXCEPT !.c = Append(top.c, s), !.n = top.n + 1])
  /\ Writing

LosePath ==
  /\ At("path")
  /\ top.n <= Len(E.path)
  /\ LET code == DescendFault(draft, top.c, E.path[top.n], E.create)
     IN  code # "ok" /\ Fail(code)

Arrive ==
  /\ At("path")
  /\ top.n > Len(E.path)
  /\ Continue([top EXCEPT !.pc = IF E.scope = "container" THEN "container" ELSE "targets", !.n = 1])
  /\ Reading

-----------------------------------------------------------------------------
(* expand: the entry's selectors, one a step.  None of them writes, so all *)
(* are resolved against the container as it was before the entry wrote.    *)

Candidates(sel) == Named(draft, top.c, sel, op.kind)
Locations(sel) == Kept(draft, top.c, sel, op.kind)

TargetFault(sel) ==
  CASE SelectorFault(top.c, sel) # "ok" -> SelectorFault(top.c, sel)
    [] ~E.skip /\ \E s \in Range(Candidates(sel)) : Missing(draft, top.c, s, op.kind) -> "VacantTarget"
    [] \E s \in Range(Locations(sel)), t \in Range(top.locs) : Ident(s) = Ident(t) -> "DuplicateTarget"
    [] OTHER -> "ok"

Select ==
  /\ At("targets")
  /\ top.n <= Len(E.targets)
  /\ LET sel == E.targets[top.n]
     IN  /\ TargetFault(sel) = "ok"
         /\ Continue([top EXCEPT !.locs = top.locs \o Locations(sel), !.n = top.n + 1])
  /\ Reading

RefuseSelector ==
  /\ At("targets")
  /\ top.n <= Len(E.targets)
  /\ LET code == TargetFault(E.targets[top.n])
     IN  code # "ok" /\ Fail(code)

Expanded == At("targets") /\ top.n > Len(E.targets)

Vacuous ==
  /\ Expanded
  /\ top.locs = <<>> /\ op.kind = "test"
  /\ Fail("TestVacuous")

NothingToDo ==
  /\ Expanded
  /\ top.locs = <<>> /\ op.kind # "test"
  /\ GoTo("done")
  /\ Reading

\* applyToTargets.  List elements are removed from the far end, so that each
\* removal leaves the places still to come where they were.
\* Mutant: elements removed from the near end.  (EntryContract counts the places of
\* a list in this order.)
Ascending(S) ==
  CHOOSE s \in [1 .. Cardinality(S) -> S] : \A i, j \in DOMAIN s : i < j => s[i] < s[j]

Descending(S) ==
  CHOOSE s \in [1 .. Cardinality(S) -> S] : \A i, j \in DOMAIN s : i < j => s[i] > s[j]

\* Where a source path starts: the delta's own container, or the target's.
\* Mutant: at the document's root.
OriginAtRoot == IF op.origin = "path" THEN <<>> ELSE top.c

Origin == IF op.origin = "path" THEN top.base ELSE top.c

Dispatch ==
  /\ Expanded
  /\ top.locs # <<>>
  /\ IF op.kind \in {"move", "copy"}
     THEN Continue([top EXCEPT !.pc = "from", !.n = 1, !.src.c = Origin])
     ELSE Continue([top EXCEPT !.pc = op.kind,
                               !.locs = IF op.kind = "remove" /\ IsListAt(top.c)
                                        THEN Descending(Range(@)) ELSE @])
  /\ Reading

-----------------------------------------------------------------------------
(* The operations on targets, one target a step.                           *)

Acting(kind) == At(kind) /\ top.locs # <<>>

here  == Head(top.locs)
place == Append(top.c, here)

\* Mutant: a loop over the targets that does not move on.
OnToTheSame == Continue(top)

OnToNext == Continue([top EXCEPT !.locs = Tail(top.locs)])

AllDone ==
  /\ outcome = "running"
  /\ top.pc \in {"remove", "test", "insert", "assign", "nest"}
  /\ top.locs = <<>>
  /\ GoTo("done")
  /\ Reading

\* removeAt: a field is cleared, an entry deleted, and a list closes up.
\* Mutant: an element taken out of a list that does not close up.
RemovedWithGap(d, c, s) == Erase(d, Append(c, s))

RemovedAt(d, c, s) ==
  IF IsListAt(c) THEN PutElements(d, c, RemoveAt(Elements(d, c), s))
                 ELSE Erase(d, Append(c, s))

RemoveTarget ==
  /\ Acting("remove")
  /\ draft' = RemovedAt(draft, top.c, here)
  /\ OnToNext
  /\ Writing

\* holdsAt: an unset position equals nothing, whatever the literal.
TestFault(c, s) ==
  CASE op.want = "exists"      -> IF Present(draft, c, s) = op.exists THEN "ok" ELSE "TestFailed"
    [] ~Present(draft, c, s)   -> "TestFailed"
    [] OTHER                   -> EqualityFault(draft, Append(c, s), op.value)

TestTarget ==
  /\ Acting("test")
  /\ TestFault(top.c, here) = "ok"
  /\ OnToNext
  /\ Reading

FailTest ==
  /\ Acting("test")
  /\ TestFault(top.c, here) # "ok"
  /\ Fail(TestFault(top.c, here))

\* One value written at one position: setField, List.Set or Append, Map.Set.
Written(d, c, s, v) ==
  CASE IsMessageAt(c)  -> SetField(d, c, s, v)
    [] s = AppendSlot  -> Graft(d, Append(c, Length(d, c) + 1), v)
    [] OTHER           -> Graft(d, Append(c, s), v)

AssignTarget ==
  /\ Acting("assign")
  /\ LiteralFault(op.value, place) = "ok"
  /\ draft' = Written(draft, top.c, here, Content(op.value))
  /\ OnToNext
  /\ Writing

\* occupied: a field that is set, or whose oneof has another member set.
Occupied(c, s) ==
  \/ Present(draft, c, s)
  \/ s \in Field /\ \E g \in Siblings(s) : Present(draft, c, g)

InsertFault(c, s) ==
  IF ~IsListAt(c) /\ Occupied(c, s) THEN "Occupied" ELSE LiteralFault(op.value, Append(c, s))

InsertTarget ==
  /\ Acting("insert")
  /\ ~IsListAt(top.c)
  /\ InsertFault(top.c, here) = "ok"
  /\ draft' = Written(draft, top.c, here, Content(op.value))
  /\ OnToNext
  /\ Writing

\* spliceInto rebuilds the list in one pass: the value goes before each element
\* that was named, and once at the end for append.
\* Mutant: the value after the element that was named.
SplicedAfter(old, v, S) ==
  FlattenSeq([i \in DOMAIN old |-> IF i \in S THEN <<old[i], v>> ELSE <<old[i]>>])
    \o (IF AppendSlot \in S THEN <<v>> ELSE <<>>)

Spliced(old, v, S) ==
  FlattenSeq([i \in DOMAIN old |-> IF i \in S THEN <<v, old[i]>> ELSE <<old[i]>>])
    \o (IF AppendSlot \in S THEN <<v>> ELSE <<>>)

Splice ==
  /\ Acting("insert")
  /\ IsListAt(top.c)
  /\ InsertFault(top.c, here) = "ok"
  /\ draft' = PutElements(draft, top.c,
                Spliced(Elements(draft, top.c), Content(op.value), Range(top.locs)))
  /\ Continue([top EXCEPT !.locs = <<>>])
  /\ Writing

RefuseValue ==
  \/ /\ Acting("assign")
     /\ LET code == LiteralFault(op.value, place) IN code # "ok" /\ Fail(code)
  \/ /\ Acting("insert")
     /\ LET code == InsertFault(top.c, here) IN code # "ok" /\ Fail(code)

-----------------------------------------------------------------------------
(* relocate: move and copy.                                                *)

\* resolveSource navigates from the delta's own container and creates nothing.
SourcePath == IF op.origin = "path" THEN op.path ELSE <<>>

DescendSource ==
  /\ At("from")
  /\ top.n <= Len(SourcePath)
  /\ LET key == SourcePath[top.n]
     IN  /\ DescendFault(draft, top.src.c, key, FALSE) = "ok"
         /\ Continue([top EXCEPT !.src.c = Append(@, Slot(draft, top.src.c, key)), !.n = top.n + 1])
  /\ Reading

SourceFault(c, k) ==
  CASE k.arm # KeyArm(c)                     -> "IllegalArm"
    [] KeyFault(k) # "ok"                    -> KeyFault(k)
    [] ~Present(draft, c, Slot(draft, c, k)) -> "SourceUnresolved"
    [] OTHER                                 -> "ok"

\* The source is read here, before any target is written.
ReadSource ==
  /\ At("from")
  /\ top.n > Len(SourcePath)
  /\ SourceFault(top.src.c, op.key) = "ok"
  /\ LET s == Slot(draft, top.src.c, op.key)
     IN  Continue([top EXCEPT !.pc = "relocate", !.src.s = s,
                              !.src.held = ValueAt(draft, Append(top.src.c, s))])
  /\ Reading

LoseSource ==
  /\ At("from")
  /\ LET code == IF top.n <= Len(SourcePath)
                 THEN DescendFault(draft, top.src.c, SourcePath[top.n], FALSE)
                 ELSE SourceFault(top.src.c, op.key)
     IN  code # "ok" /\ Fail(code)

\* sameLoc.  Two messages are compared as messages; two lists, or two maps, are
\* compared by the field they came from and not by which message holds them.
SameLoc(c, s, d, t) ==
  /\ s = t
  /\ IF IsMessageAt(c) THEN c = d ELSE ~IsMessageAt(d) /\ Last(c) = Last(d)

\* typeOf: the kind of a map field is its entry type, which is its own; the
\* kind of a list field is that of its elements.
Whole(s) == s \in Field /\ Card[s] # "singular"
TypeOf(c, s) ==
  CASE s \in Field /\ Card[s] = "map" -> <<"entry", s>>
    [] s \in Field /\ Card[s] # "map" -> <<"kind", Type[s]>>
    [] OTHER                          -> <<"kind", Type[Last(c)]>>

SameType == TypeOf(top.c, here) = TypeOf(top.src.c, top.src.s)

\* cloneValue and Set take a list for a message, or a list for an element, and
\* panic.  Only a list of scalars can be put in place of another.
Storable ==
  Whole(here) \/ Whole(top.src.s) =>
    /\ Whole(here) /\ Whole(top.src.s)
    /\ Card[here] = "list" /\ Type[here] # Msg

\* The source is held by reference: a target inside it changes what the next
\* target gets, and a target that replaces a message around it leaves the
\* engine holding a container that is no longer part of the draft.
HeldNow ==
  IF IsPrefix(Append(top.src.c, top.src.s), top.c)
  THEN ValueAt(draft, Append(top.src.c, top.src.s))
  ELSE top.src.held

Replaces(c, s, d) ==
  \E t \in {s} \cup (IF s \in Field THEN Siblings(s) ELSE {}) : IsPrefix(Append(c, t), d)

Relocating == At("relocate") /\ top.locs # <<>>

SourceIsTarget == SameLoc(top.c, here, top.src.c, top.src.s)

SkipSource ==
  /\ Relocating
  /\ SourceIsTarget
  /\ Continue([top EXCEPT !.locs = Tail(@), !.src.same = TRUE])
  /\ Reading

WriteTarget ==
  /\ Relocating
  /\ ~SourceIsTarget
  /\ SameType /\ Storable
  /\ draft' = Written(draft, top.c, here, HeldNow)
  /\ Continue([top EXCEPT !.locs = Tail(@),
                          !.src.attached = @ /\ ~Replaces(top.c, here, top.src.c)])
  /\ Writing

RefuseTarget ==
  /\ Relocating
  /\ ~SourceIsTarget
  /\ ~(SameType /\ Storable)
  /\ Fail(IF SameType THEN "panic" ELSE "TypeMismatch")

\* Mutant: a move that clears its source even if a target was the source.
ClearSourceAlways ==
  /\ At("relocate")
  /\ top.locs = <<>>
  /\ op.kind = "move"
  /\ draft' = IF top.src.attached THEN RemovedAt(draft, top.src.c, top.src.s) ELSE draft
  /\ GoTo("done")
  /\ Writing

\* Mutant: a move that finds its source once more before it clears it.
ClearSourceAgain ==
  /\ At("relocate")
  /\ top.locs = <<>>
  /\ op.kind = "move" /\ ~top.src.same
  /\ draft' = RemovedAt(draft, top.src.c, top.src.s)
  /\ GoTo("done")
  /\ Writing

\* A move clears its source, unless a target was the source.  It does so in the
\* container it resolved before it wrote: one that is no longer part of the draft is
\* changed and not the message that has taken its place.
ClearSource ==
  /\ At("relocate")
  /\ top.locs = <<>>
  /\ op.kind = "move" /\ ~top.src.same
  /\ draft' = IF top.src.attached THEN RemovedAt(draft, top.src.c, top.src.s) ELSE draft
  /\ GoTo("done")
  /\ Writing

KeepSource ==
  /\ At("relocate")
  /\ top.locs = <<>>
  /\ op.kind = "copy" \/ top.src.same
  /\ GoTo("done")
  /\ Reading

-----------------------------------------------------------------------------
(* nest: the inner delta, applied to one target after another.             *)

NestTarget ==
  /\ Acting("nest")
  /\ IsContainer(top.c, here)
  /\ draft' = IF IsMessageAt(top.c) THEN Mutable(draft, top.c, here) ELSE draft
  /\ stack' = <<Frame(place, op.delta), [top EXCEPT !.locs = Tail(@)]>> \o Tail(stack)
  /\ Writing

NestScalar ==
  /\ Acting("nest")
  /\ ~IsContainer(top.c, here)
  /\ Fail("NotAContainer")

-----------------------------------------------------------------------------
(* applyToContainer: the operations on the container itself.               *)

OnContainer(kind) == At("container") /\ op.kind = kind

Empty ==
  /\ OnContainer("remove")
  /\ draft' = EmptyContainer(draft, top.c)
  /\ GoTo("done")
  /\ Writing

IsEmpty(c) == Places(draft, c) \ {Unknown} = {}

ContainerTestFault(c) ==
  IF op.want = "exists"
  THEN IF IsEmpty(c) = op.exists THEN "TestFailed" ELSE "ok"
  ELSE EqualityFault(draft, c, op.value)

TestContainer ==
  /\ OnContainer("test")
  /\ ContainerTestFault(top.c) = "ok"
  /\ GoTo("done")
  /\ Reading

\* assignContainer stages a message, then clears and sets; a list or a map is
\* cleared and filled.
AssignContainer ==
  /\ OnContainer("assign")
  /\ LiteralFault(op.value, top.c) = "ok"
  /\ draft' = Overlay(EmptyContainer(draft, top.c), top.c, Content(op.value))
  /\ GoTo("done")
  /\ Writing

\* insertContainer: a map takes the keys it does not have, and a key given
\* twice is there the second time.
MapInsertFault(c, entries) ==
  FirstFault([i \in DOMAIN entries |->
    CASE entries[i].key \notin Key -> "IllegalArm"
      [] Has(draft, Append(c, entries[i].key)) \/ Repeated(entries, i) -> "Occupied"
      [] OTHER -> SingularFault(entries[i].value, TypeAt(c))])

\* A message takes the fields it does not have, and a second member of a oneof
\* finds the first.  Which fault comes first depends on the order of the fields.
MessageInsertFaults(c, v) ==
  ({v.fault} \ {"ok", "DuplicateTarget"})
    \cup (IF v.fault = "DuplicateTarget" \/ \E f \in Places(v.body, <<>>) : Occupied(c, f)
          THEN {"Occupied"} ELSE {})

ContainerInsertFaults(c) ==
  LET v == op.value IN
  IF v.arm # ArmAt(c) THEN {"IllegalArm"}
  ELSE CASE v.arm = "l"   -> {ListFault(v.items, TypeAt(c))} \ {"ok"}
         [] v.arm = "map" -> {MapInsertFault(c, v.entries)} \ {"ok"}
         [] OTHER         -> MessageInsertFaults(c, v)

InsertContainer ==
  /\ OnContainer("insert")
  /\ ContainerInsertFaults(top.c) = {}
  /\ draft' = IF IsListAt(top.c)
              THEN PutElements(draft, top.c, Elements(draft, top.c) \o ListContent(op.value.items))
              ELSE Overlay(draft, top.c, Content(op.value))
  /\ GoTo("done")
  /\ Writing

RefuseContainer ==
  \/ OnContainer("test") /\ ContainerTestFault(top.c) # "ok" /\ Fail(ContainerTestFault(top.c))
  \/ OnContainer("assign") /\ LiteralFault(op.value, top.c) # "ok" /\ Fail(LiteralFault(op.value, top.c))
  \/ OnContainer("insert") /\ \E code \in ContainerInsertFaults(top.c) : Fail(code)

NestContainer ==
  /\ OnContainer("nest")
  /\ stack' = <<Frame(top.c, op.delta), [top EXCEPT !.pc = "done"]>> \o Tail(stack)
  /\ Reading

-----------------------------------------------------------------------------
(* The end of an entry, of a delta, and of the document.                   *)

NextEntry ==
  /\ At("done")
  /\ top.i < Len(top.entries)
  /\ Continue([Frame(top.base, top.entries) EXCEPT !.i = top.i + 1])
  /\ Reading

EndDelta ==
  /\ At("done")
  /\ top.i = Len(top.entries)
  /\ Len(stack) > 1
  /\ stack' = Tail(stack)
  /\ Reading

\* Only now is the draft handed out.
Return ==
  /\ At("done")
  /\ top.i = Len(top.entries)
  /\ Len(stack) = 1
  /\ returned' = draft
  /\ outcome' = "ok"
  /\ stack' = <<>>
  /\ UNCHANGED <<target, patch, draft, err>>

-----------------------------------------------------------------------------
Navigation == Descend \/ LosePath \/ Arrive
Expansion  == Select \/ RefuseSelector \/ Vacuous \/ NothingToDo \/ Dispatch
Relocation ==
  \/ DescendSource \/ ReadSource \/ LoseSource
  \/ SkipSource \/ WriteTarget \/ RefuseTarget \/ ClearSource \/ KeepSource
OnTargets ==
  \/ RemoveTarget \/ TestTarget \/ FailTest \/ AssignTarget \/ InsertTarget
  \/ Splice \/ RefuseValue \/ NestTarget \/ NestScalar \/ AllDone
OnWhole ==
  Empty \/ AssignContainer \/ InsertContainer \/ TestContainer \/ RefuseContainer \/ NestContainer

\* Apply has returned, with a message or with an error.
Finished == outcome \in {"ok", "failed"} /\ UNCHANGED vars

Next ==
  \/ Refuse \/ RefuseType \/ Begin
  \/ Navigation \/ Expansion \/ Relocation \/ OnTargets \/ OnWhole
  \/ NextEntry \/ EndDelta \/ Return \/ Finished

Spec == Init /\ [][Next]_vars

\* Apply runs to its end: it waits for nothing, so a step that can be taken is.
FairSpec == Spec /\ WF_vars(Next)

-----------------------------------------------------------------------------
(* Properties.                                                             *)

Counters == {"path", "targets", "container", "remove", "test", "insert", "assign",
             "nest", "from", "relocate", "done"}

\* Types.  The engine runs exactly while it has a delta to apply, and each frame
\* is at an entry of its delta; the draft is a document protobuf can hold, with
\* every value of its position's type.
ControlOK ==
  /\ outcome = "running" <=> stack # <<>>
  /\ \A j \in DOMAIN stack :
       /\ stack[j].pc \in Counters
       /\ stack[j].i \in DOMAIN stack[j].entries

DraftOK ==
  /\ draft # NoDoc => Rooted(draft) /\ WellTyped(draft)
  /\ returned # NoDoc => Rooted(returned) /\ WellTyped(returned)

TypeOK == ControlOK /\ DraftOK

\* The engine's own recursion is bounded by the limit checkDepth enforces, with
\* one frame for the document's own delta, whatever the document nests.
StackBounded == Len(stack) <= NestDepth + 1

\* Every list position that is still to be acted on is inside the list: none of
\* the writes made so far has moved it out (removeAt, assignAt, nestAt, writeRaw
\* index the list without a check of their own, and would panic).
PositionsInRange ==
  \A j \in DOMAIN stack :
    LET fr == stack[j] IN
    fr.pc \in {"remove", "assign", "insert", "nest", "relocate"} /\ IsListAt(fr.c) =>
      \A s \in Range(fr.locs) : s = AppendSlot \/ s \in 1 .. Length(draft, fr.c)

Running == outcome = "running" /\ outcome' = "running"

\* An entry that tests changes nothing, neither by what it asserts nor by the way
\* to it.
TestNeverMutates == [][Running /\ op.kind = "test" => draft' = draft]_vars

\* What a path creates leaves everything that is there as it is ("Anything already
\* there is left exactly as it is", OnAbsentPath in patch.proto; the comment on
\* Mutable in descendMessage).
PathDisturbsNothing ==
  [][Running /\ top.pc = "path" =>
       \A q \in DOMAIN draft : q \in DOMAIN draft' /\ draft'[q] = draft[q]]_vars

\* A nested delta changes nothing outside the container it is relative to, and
\* in particular a move in it takes nothing from there.
Outside(d, c) == {q \in DOMAIN d : ~IsPrefix(c, q)}

NestConfined ==
  [][Running => \A q \in Outside(draft, top.base) \cup Outside(draft', top.base) :
       q \in DOMAIN draft /\ q \in DOMAIN draft' /\ draft'[q] = draft[q]]_vars

\* No entry discards an unknown field of the container it acts on.  Only a move
\* that clears a message the container lies in takes them along, and one that
\* clears a list element before that message leaves them at another place.
UnknownAt(d, c) == ValueAt(d, Append(c, Unknown))

Clearing(c) ==
  /\ At("relocate") /\ top.locs = <<>>
  /\ IsPrefix(IF IsListAt(top.src.c) THEN top.src.c ELSE Append(top.src.c, top.src.s), c)

UnknownKept ==
  [][Running /\ ~Clearing(top.c) => UnknownAt(draft', top.c) = UnknownAt(draft, top.c)]_vars

\* What the caller sees is the atomic call of AtomicApply: as long as the engine
\* runs nothing has happened, and then the answer or the error is there at once.
Atomic == INSTANCE AtomicApply WITH
  outcome <- IF outcome = "running" THEN "called" ELSE outcome

AtomicSpec == Atomic!Spec

\* Apply returns: no entry, nest or selector of a document keeps it going.
Terminates == <>(outcome \in {"ok", "failed"})

=============================================================================
