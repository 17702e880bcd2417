-------------------------- MODULE PatchProtoControl --------------------------
(***************************************************************************)
(* Theorems about the control of the engine: how deep it recurses and      *)
(* where in its deltas it is, for every schema and limit, every target and *)
(* every document.                                                         *)
(*                                                                         *)
(* ValidateWith has looked at the whole document before the engine starts, *)
(* and the engine looks again at nothing.  What ties the two together is   *)
(* that the delta n frames above the document's own is made of entries of  *)
(* layer n, which is how checkDepth counts them.                           *)
(***************************************************************************)
EXTENDS PatchProtoProofs, ValidateProofs

\* What the engine is doing is what its entry's operation is.
Doing(pc, kind) ==
  /\ pc \in OpKind => kind = pc
  /\ pc \in {"from", "relocate"} => kind \in {"move", "copy"}

\* The frame fr applies a delta of layer n, and is at one of its entries.
AtLayer(fr, n) ==
  /\ n \in 0 .. NestDepth
  /\ fr.entries \in Seq(Layers(patch.delta)[n])
  /\ fr.i \in 1 .. Len(fr.entries)
  /\ fr.pc \in Counters
  /\ Doing(fr.pc, fr.entries[fr.i].op.kind)

LayerInv ==
  /\ patch \in Patches
  /\ outcome = "running" => DocumentFaults(patch) = {}
  /\ \A j \in 1 .. Len(stack) : AtLayer(stack[j], Len(stack) - j)

Inv == CallInv /\ LayerInv

-----------------------------------------------------------------------------
(* The stack.                                                              *)

LEMMA StackFacts ==
  ASSUME Inv, outcome = "running"
  PROVE  /\ stack \in Seq(Range(stack)) /\ stack # <<>>
         /\ Len(stack) \in Nat \ {0}
         /\ Tail(stack) \in Seq(Range(stack))
         /\ Len(Tail(stack)) = Len(stack) - 1
         /\ \A j \in 1 .. Len(stack) - 1 : Tail(stack)[j] = stack[j + 1]
         /\ top = stack[1]
<1>1. stack \in Seq(Range(stack)) /\ stack # <<>>
  BY DEF Inv, CallInv
<1> QED
  BY <1>1, EmptySeq, HeadTailProperties DEF top

LEMMA TopAtLayer ==
  ASSUME Inv, outcome = "running"
  PROVE  AtLayer(top, Len(stack) - 1)
BY StackFacts DEF Inv, LayerInv

\* The entry a frame is at is one of its layer.
LEMMA EntryInLayer ==
  ASSUME NEW fr, NEW n, AtLayer(fr, n)
  PROVE  fr.entries[fr.i] \in Layers(patch.delta)[n]
BY ElementOfSeq DEF AtLayer

LEMMA ContinueAtLayer ==
  ASSUME Inv, outcome = "running", NEW fr, AtLayer(fr, Len(stack) - 1),
         Continue(fr), UNCHANGED <<patch, outcome>>
  PROVE  LayerInv'
<1> DEFINE G == {fr} \cup Range(stack)
<1>1. <<fr>> \in Seq(G) /\ Tail(stack) \in Seq(G)
  BY StackFacts, SeqMonotonic
<1> HIDE DEF G
<1>2. /\ Len(stack') = Len(stack)
      /\ \A j \in 1 .. Len(stack) : stack'[j] = IF j = 1 THEN fr ELSE Tail(stack)[j - 1]
  BY <1>1, StackFacts, ConcatProperties DEF Continue
<1>3. \A j \in 1 .. Len(stack) : stack'[j] = IF j = 1 THEN fr ELSE stack[j]
  BY <1>2, StackFacts
<1>4. \A j \in 1 .. Len(stack') : AtLayer(stack'[j], Len(stack') - j)
  BY <1>2, <1>3 DEF Inv, LayerInv
<1>5. \A j \in 1 .. Len(stack') : AtLayer(stack[j], Len(stack) - j)'
  BY <1>4 DEF AtLayer
<1> QED
  BY <1>5 DEF Inv, LayerInv

LEMMA PushAtLayer ==
  ASSUME Inv, outcome = "running", NEW fr, NEW gr,
         AtLayer(fr, Len(stack)), AtLayer(gr, Len(stack) - 1),
         stack' = <<fr, gr>> \o Tail(stack), UNCHANGED <<patch, outcome>>
  PROVE  LayerInv'
<1> DEFINE G == {fr, gr} \cup Range(stack)
<1>1. <<fr, gr>> \in Seq(G) /\ Tail(stack) \in Seq(G)
  BY StackFacts, SeqMonotonic
<1> HIDE DEF G
<1>2. /\ Len(stack') = Len(stack) + 1
      /\ \A j \in 1 .. Len(stack) + 1 :
           stack'[j] = IF j <= 2 THEN <<fr, gr>>[j] ELSE Tail(stack)[j - 2]
  BY <1>1, StackFacts, ConcatProperties
<1>3. stack'[1] = fr /\ stack'[2] = gr
  BY <1>2, StackFacts
<1>4. ASSUME NEW j \in 1 .. Len(stack')
      PROVE  AtLayer(stack'[j], Len(stack') - j)
  <2>1. CASE j = 1
    BY <2>1, <1>2, <1>3, StackFacts
  <2>2. CASE j = 2
    BY <2>2, <1>2, <1>3, StackFacts
  <2>3. CASE j > 2
    <3>1. j - 1 \in 1 .. Len(stack) /\ stack'[j] = stack[j - 1]
      BY <2>3, <1>2, StackFacts
    <3>2. Len(stack') - j = Len(stack) - (j - 1)
      BY <3>1, <1>2, StackFacts
    <3> QED
      BY <3>1, <3>2 DEF Inv, LayerInv
  <2> QED
    BY <2>1, <2>2, <2>3
<1>5. \A j \in 1 .. Len(stack') : AtLayer(stack[j], Len(stack) - j)'
  BY <1>4 DEF AtLayer
<1> QED
  BY <1>5 DEF Inv, LayerInv

LEMMA OverAtLayer ==
  ASSUME Inv, stack' = <<>>, outcome' # "running", UNCHANGED patch
  PROVE  LayerInv'
<1>1. Len(stack') = 0
  BY EmptySeq
<1> QED
  BY <1>1 DEF Inv, LayerInv

LEMMA FailAtLayer ==
  ASSUME Inv, NEW code, Fail(code)
  PROVE  LayerInv'
BY OverAtLayer DEF Fail

-----------------------------------------------------------------------------
(* The actions.                                                            *)

\* A frame that stays at its entry stays in its layer.
LEMMA SameEntry ==
  ASSUME NEW fr, NEW n, AtLayer(fr, n), NEW gr,
         gr.entries = fr.entries, gr.i = fr.i, gr.pc \in Counters,
         Doing(gr.pc, fr.entries[fr.i].op.kind)
  PROVE  AtLayer(gr, n)
BY DEF AtLayer

LEMMA StayAtLayer ==
  ASSUME Inv, outcome = "running", NEW fr,
         fr.entries = top.entries, fr.i = top.i, fr.pc \in Counters,
         Doing(fr.pc, op.kind),
         Continue(fr), UNCHANGED <<patch, outcome>>
  PROVE  LayerInv'
<1>1. AtLayer(fr, Len(stack) - 1)
  BY TopAtLayer, SameEntry DEF op, E
<1> QED
  BY <1>1, ContinueAtLayer

\* Frames that keep their program counter.
LEMMA WorkAtLayer ==
  ASSUME Inv, outcome = "running", NEW fr,
         fr.entries = top.entries, fr.i = top.i, fr.pc = top.pc,
         Continue(fr), UNCHANGED <<patch, outcome>>
  PROVE  LayerInv'
BY TopAtLayer, StayAtLayer DEF AtLayer, op, E

LEMMA GoToAtLayer ==
  ASSUME Inv, outcome = "running", GoTo("done"), Writing
  PROVE  LayerInv'
<1> DEFINE fr == [top EXCEPT !.pc = "done"]
<1>1. fr.entries = top.entries /\ fr.i = top.i /\ fr.pc = "done"
  BY RunningFacts DEF IsFrame, Inv
<1>2. fr.pc \in Counters /\ Doing(fr.pc, op.kind)
  BY <1>1 DEF Counters, Doing, OpKind
<1> QED
  BY <1>1, <1>2, StayAtLayer DEF GoTo, Writing

LEMMA OnToNextAtLayer ==
  ASSUME Inv, outcome = "running", OnToNext, Writing
  PROVE  LayerInv'
<1> DEFINE fr == [top EXCEPT !.locs = Tail(top.locs)]
<1>1. fr.entries = top.entries /\ fr.i = top.i /\ fr.pc = top.pc
  BY RunningFacts DEF IsFrame, Inv
<1> QED
  BY <1>1, WorkAtLayer DEF OnToNext, Writing

LEMMA NavigationAtLayer ==
  ASSUME Inv, Navigation
  PROVE  LayerInv'
<1>1. CASE Descend
  <2> DEFINE fr == [top EXCEPT !.c = Append(top.c, Slot(draft, top.c, E.path[top.n])), !.n = top.n + 1]
  <2>1. outcome = "running" /\ Continue(fr) /\ Writing
    BY <1>1 DEF Descend, At
  <2>2. fr.entries = top.entries /\ fr.i = top.i /\ fr.pc = top.pc
    BY <2>1, RunningFacts DEF IsFrame, Inv
  <2> QED
    BY <2>1, <2>2, WorkAtLayer DEF Writing
<1>2. CASE LosePath
  BY <1>2, FailAtLayer DEF LosePath
<1>3. CASE Arrive
  <2> DEFINE pc == IF E.scope = "container" THEN "container" ELSE "targets"
             fr == [top EXCEPT !.pc = pc, !.n = 1]
  <2>1. outcome = "running" /\ Continue(fr) /\ Reading
    BY <1>3 DEF Arrive, At
  <2>2. pc \in Counters /\ Doing(pc, op.kind)
    BY DEF Counters, Doing, OpKind
  <2> HIDE DEF pc
  <2>3. fr.entries = top.entries /\ fr.i = top.i /\ fr.pc = pc
    BY <2>1, RunningFacts DEF IsFrame, Inv
  <2> QED
    BY <2>1, <2>2, <2>3, StayAtLayer DEF Reading, Writing
<1> QED
  BY <1>1, <1>2, <1>3 DEF Navigation

\* The entry the engine is at is one the document was checked for.
LEMMA TopEntry ==
  ASSUME Inv, outcome = "running"
  PROVE  /\ op.kind \in OpKind
         /\ op.kind = "nest" =>
              /\ Len(stack) \in 0 .. NestDepth
              /\ op.delta # <<>>
              /\ op.delta \in Seq(Layers(patch.delta)[Len(stack)])
<1> DEFINE n == Len(stack) - 1
<1>1. n \in 0 .. NestDepth /\ E \in Layers(patch.delta)[n]
  BY TopAtLayer, EntryInLayer DEF AtLayer, E
<1>2. DocumentFaults(patch) = {} /\ patch \in Patches
  BY DEF Inv, LayerInv
<1>3. E \in EntriesOf(patch.delta) /\ EntryFault(E) = "ok"
  BY <1>1, <1>2, LayerInEntries, ValidDocument
<1>4. op.kind \in OpKind /\ (op.kind = "nest" => op.delta \in Seq(Range(op.delta)))
  BY <1>2, <1>3, PatchesAssumption, ValidEntry DEF op, IsDocument, IsEntry, IsOperation
<1>5. ASSUME op.kind = "nest"
      PROVE  /\ Len(stack) \in 0 .. NestDepth
             /\ op.delta # <<>>
             /\ op.delta \in Seq(Layers(patch.delta)[Len(stack)])
  <2>1. n < NestDepth /\ op.delta # <<>> /\ Range(op.delta) \subseteq Layers(patch.delta)[n + 1]
    BY <1>1, <1>2, <1>5, NestIsShallow DEF op
  <2>2. n + 1 = Len(stack) /\ Len(stack) \in 0 .. NestDepth
    BY <1>1, <2>1, StackFacts, LimitsAssumption
  <2>3. op.delta \in Seq(Layers(patch.delta)[Len(stack)])
    BY <1>4, <1>5, <2>1, <2>2, SeqMonotonic
  <2> QED
    BY <2>1, <2>2, <2>3
<1> QED
  BY <1>4, <1>5

\* The first frame of a nested delta is one layer further down.
LEMMA InnerAtLayer ==
  ASSUME Inv, outcome = "running", op.kind = "nest", NEW base
  PROVE  AtLayer(Frame(base, op.delta), Len(stack))
<1> DEFINE fr == Frame(base, op.delta)
<1>1. fr.entries = op.delta /\ fr.i = 1 /\ fr.pc = "path"
  BY DEF Frame
<1>2. 1 \in 1 .. Len(op.delta)
  BY TopEntry, EmptySeq
<1> HIDE DEF fr
<1>3. AtLayer(fr, Len(stack))
  BY <1>1, <1>2, TopEntry DEF AtLayer, Counters, Doing, OpKind
<1> QED
  BY <1>3 DEF fr

LEMMA ExpansionAtLayer ==
  ASSUME Inv, Expansion
  PROVE  LayerInv'
<1>1. CASE Select
  <2> DEFINE fr == [top EXCEPT !.locs = top.locs \o Locations(E.targets[top.n]), !.n = top.n + 1]
  <2>1. outcome = "running" /\ Continue(fr) /\ Reading
    BY <1>1 DEF Select, At
  <2>2. fr.entries = top.entries /\ fr.i = top.i /\ fr.pc = top.pc
    BY <2>1, RunningFacts DEF IsFrame, Inv
  <2> QED
    BY <2>1, <2>2, WorkAtLayer DEF Reading, Writing
<1>2. CASE RefuseSelector
  BY <1>2, FailAtLayer DEF RefuseSelector
<1>3. CASE Vacuous
  BY <1>3, FailAtLayer DEF Vacuous
<1>4. CASE NothingToDo
  BY <1>4, GoToAtLayer DEF NothingToDo, Expanded, At, Reading
<1>5. CASE Dispatch
  <2> DEFINE locs == IF op.kind = "remove" /\ IsListAt(top.c)
                     THEN Descending(Range(top.locs)) ELSE top.locs
             to   == [top EXCEPT !.pc = "from", !.n = 1, !.src.c = Origin]
             next == [top EXCEPT !.pc = op.kind, !.locs = locs]
  <2>1. outcome = "running" /\ Reading
    BY <1>5 DEF Dispatch, Expanded, At
  <2>2. CASE op.kind \in {"move", "copy"}
    <3>1. Continue(to)
      BY <1>5, <2>2 DEF Dispatch
    <3>2. to.entries = top.entries /\ to.i = top.i /\ to.pc = "from"
      BY <2>1, RunningFacts DEF IsFrame, Inv
    <3> HIDE DEF to
    <3> QED
      BY <2>1, <2>2, <3>1, <3>2, StayAtLayer DEF Counters, Doing, OpKind, Reading, Writing
  <2>3. CASE op.kind \notin {"move", "copy"}
    <3>1. Continue(next)
      BY <1>5, <2>3 DEF Dispatch
    <3>2. next.entries = top.entries /\ next.i = top.i /\ next.pc = op.kind
      BY <2>1, RunningFacts DEF IsFrame, Inv
    <3>3. op.kind \in Counters /\ Doing(op.kind, op.kind)
      BY <2>1, <2>3, TopEntry DEF OpKind, Counters, Doing
    <3> HIDE DEF next
    <3> QED
      BY <2>1, <3>1, <3>2, <3>3, StayAtLayer DEF Reading, Writing
  <2> QED
    BY <2>2, <2>3
<1> QED
  BY <1>1, <1>2, <1>3, <1>4, <1>5 DEF Expansion

LEMMA RelocationAtLayer ==
  ASSUME Inv, Relocation
  PROVE  LayerInv'
<1>1. CASE DescendSource
  <2> DEFINE c  == Append(top.src.c, Slot(draft, top.src.c, SourcePath[top.n]))
             fr == [top EXCEPT !.src.c = c, !.n = top.n + 1]
  <2>1. outcome = "running" /\ Continue(fr) /\ Reading
    BY <1>1 DEF DescendSource, At
  <2> HIDE DEF c
  <2>2. fr.entries = top.entries /\ fr.i = top.i /\ fr.pc = top.pc
    BY <2>1, RunningFacts DEF IsFrame, Inv
  <2> QED
    BY <2>1, <2>2, WorkAtLayer DEF Reading, Writing
<1>2. CASE ReadSource
  <2> DEFINE s  == Slot(draft, top.src.c, op.key)
             v  == ValueAt(draft, Append(top.src.c, s))
             fr == [top EXCEPT !.pc = "relocate", !.src.s = s, !.src.held = v]
  <2>1. outcome = "running" /\ Continue(fr) /\ Reading /\ top.pc = "from"
    BY <1>2 DEF ReadSource, At
  <2>3. Doing("relocate", op.kind)
    BY <2>1, TopAtLayer DEF AtLayer, Doing, OpKind, op, E
  <2> HIDE DEF s, v
  <2>2. fr.entries = top.entries /\ fr.i = top.i /\ fr.pc = "relocate"
    BY <2>1, RunningFacts DEF IsFrame, Inv
  <2> HIDE DEF fr
  <2> QED
    BY <2>1, <2>2, <2>3, StayAtLayer DEF Counters, Reading, Writing
<1>3. CASE LoseSource
  BY <1>3, FailAtLayer DEF LoseSource
<1>4. CASE SkipSource
  <2> DEFINE fr == [top EXCEPT !.locs = Tail(top.locs), !.src.same = TRUE]
  <2>1. outcome = "running" /\ Continue(fr) /\ Reading
    BY <1>4 DEF SkipSource, Relocating, At
  <2>2. fr.entries = top.entries /\ fr.i = top.i /\ fr.pc = top.pc
    BY <2>1, RunningFacts DEF IsFrame, Inv
  <2> QED
    BY <2>1, <2>2, WorkAtLayer DEF Reading, Writing
<1>5. CASE WriteTarget
  <2> DEFINE still == top.src.attached /\ ~Replaces(top.c, here, top.src.c)
             fr    == [top EXCEPT !.locs = Tail(top.locs), !.src.attached = still]
  <2>1. outcome = "running" /\ Continue(fr) /\ Writing
    BY <1>5 DEF WriteTarget, Relocating, At
  <2> HIDE DEF still
  <2>2. fr.entries = top.entries /\ fr.i = top.i /\ fr.pc = top.pc
    BY <2>1, RunningFacts DEF IsFrame, Inv
  <2> QED
    BY <2>1, <2>2, WorkAtLayer DEF Writing
<1>6. CASE RefuseTarget
  BY <1>6, FailAtLayer DEF RefuseTarget
<1>7. CASE ClearSource
  BY <1>7, GoToAtLayer DEF ClearSource, At
<1>8. CASE KeepSource
  BY <1>8, GoToAtLayer DEF KeepSource, At, Reading
<1> QED
  BY <1>1, <1>2, <1>3, <1>4, <1>5, <1>6, <1>7, <1>8 DEF Relocation

LEMMA OnTargetsAtLayer ==
  ASSUME Inv, OnTargets
  PROVE  LayerInv'
<1>1. CASE RemoveTarget
  BY <1>1, OnToNextAtLayer DEF RemoveTarget, Acting, At
<1>2. CASE TestTarget
  BY <1>2, OnToNextAtLayer DEF TestTarget, Acting, At, Reading
<1>3. CASE FailTest
  BY <1>3, FailAtLayer DEF FailTest
<1>4. CASE AssignTarget
  BY <1>4, OnToNextAtLayer DEF AssignTarget, Acting, At
<1>5. CASE InsertTarget
  BY <1>5, OnToNextAtLayer DEF InsertTarget, Acting, At
<1>6. CASE Splice
  <2> DEFINE fr == [top EXCEPT !.locs = <<>>]
  <2>1. outcome = "running" /\ Continue(fr) /\ Writing
    BY <1>6 DEF Splice, Acting, At
  <2>2. fr.entries = top.entries /\ fr.i = top.i /\ fr.pc = top.pc
    BY <2>1, RunningFacts DEF IsFrame, Inv
  <2> QED
    BY <2>1, <2>2, WorkAtLayer DEF Writing
<1>7. CASE RefuseValue
  BY <1>7, FailAtLayer DEF RefuseValue
<1>8. CASE NestTarget
  <2> DEFINE inner == Frame(place, op.delta)
             outer == [top EXCEPT !.locs = Tail(top.locs)]
  <2>1. outcome = "running" /\ stack' = <<inner, outer>> \o Tail(stack) /\ Writing /\ top.pc = "nest"
    BY <1>8 DEF NestTarget, Acting, At
  <2>2. op.kind = "nest"
    BY <2>1, TopAtLayer DEF AtLayer, Doing, OpKind, op, E
  <2>3. AtLayer(inner, Len(stack))
    BY <2>1, <2>2, InnerAtLayer
  <2>4. outer.entries = top.entries /\ outer.i = top.i /\ outer.pc = top.pc
    BY <2>1, RunningFacts DEF IsFrame, Inv
  <2> HIDE DEF inner, outer
  <2>5. AtLayer(outer, Len(stack) - 1)
    BY <2>1, <2>2, <2>4, TopAtLayer, SameEntry DEF AtLayer, op, E
  <2> QED
    BY <2>1, <2>3, <2>5, PushAtLayer DEF Writing
<1>9. CASE NestScalar
  BY <1>9, FailAtLayer DEF NestScalar
<1>10. CASE AllDone
  BY <1>10, GoToAtLayer DEF AllDone, Reading
<1> QED
  BY <1>1, <1>2, <1>3, <1>4, <1>5, <1>6, <1>7, <1>8, <1>9, <1>10 DEF OnTargets

LEMMA OnWholeAtLayer ==
  ASSUME Inv, OnWhole
  PROVE  LayerInv'
<1>1. CASE Empty
  BY <1>1, GoToAtLayer DEF Empty, OnContainer, At
<1>2. CASE AssignContainer
  BY <1>2, GoToAtLayer DEF AssignContainer, OnContainer, At
<1>3. CASE InsertContainer
  BY <1>3, GoToAtLayer DEF InsertContainer, OnContainer, At
<1>4. CASE TestContainer
  BY <1>4, GoToAtLayer DEF TestContainer, OnContainer, At, Reading
<1>5. CASE RefuseContainer
  BY <1>5, FailAtLayer DEF RefuseContainer
<1>6. CASE NestContainer
  <2> DEFINE inner == Frame(top.c, op.delta)
             outer == [top EXCEPT !.pc = "done"]
  <2>1. /\ outcome = "running" /\ op.kind = "nest"
        /\ stack' = <<inner, outer>> \o Tail(stack) /\ Reading
    BY <1>6 DEF NestContainer, OnContainer, At
  <2>2. AtLayer(inner, Len(stack))
    BY <2>1, InnerAtLayer
  <2>3. outer.entries = top.entries /\ outer.i = top.i /\ outer.pc = "done"
    BY <2>1, RunningFacts DEF IsFrame, Inv
  <2> HIDE DEF inner, outer
  <2>4. AtLayer(outer, Len(stack) - 1)
    BY <2>1, <2>3, TopAtLayer, SameEntry DEF Counters, Doing, OpKind
  <2> QED
    BY <2>1, <2>2, <2>4, PushAtLayer DEF Reading, Writing
<1> QED
  BY <1>1, <1>2, <1>3, <1>4, <1>5, <1>6 DEF OnWhole

LEMMA BeginAtLayer ==
  ASSUME Inv, Begin
  PROVE  LayerInv'
<1> DEFINE fr == Frame(<<>>, patch.delta)
<1>1. stack' = <<fr>> /\ UNCHANGED patch /\ DocumentFaults(patch) = {} /\ patch \in Patches
  BY DEF Begin, Inv, LayerInv
<1>2. patch.delta # <<>> /\ patch.delta \in Seq(Layers(patch.delta)[0])
  BY <1>1, ValidDocument, PatchesAssumption, LayersDef DEF IsDocument
<1>3. fr.entries = patch.delta /\ fr.i = 1 /\ fr.pc = "path"
  BY DEF Frame
<1>4. 1 \in 1 .. Len(patch.delta) /\ 0 \in 0 .. NestDepth
  BY <1>2, EmptySeq, LimitsAssumption
<1> HIDE DEF fr
<1>5. AtLayer(fr, 0)
  BY <1>2, <1>3, <1>4 DEF AtLayer, Counters, Doing, OpKind
<1>6. Len(stack') = 1 /\ stack'[1] = fr
  BY <1>1
<1>7. \A j \in 1 .. Len(stack') : AtLayer(stack[j], Len(stack) - j)'
  BY <1>1, <1>5, <1>6 DEF AtLayer
<1> QED
  BY <1>1, <1>7 DEF LayerInv

LEMMA NextEntryAtLayer ==
  ASSUME Inv, NextEntry
  PROVE  LayerInv'
<1> DEFINE fr == [Frame(top.base, top.entries) EXCEPT !.i = top.i + 1]
<1>1. outcome = "running" /\ Continue(fr) /\ Reading /\ top.i < Len(top.entries)
  BY DEF NextEntry, At
<1>2. fr.entries = top.entries /\ fr.i = top.i + 1 /\ fr.pc = "path"
  BY DEF Frame
<1> HIDE DEF fr
<1>3. AtLayer(top, Len(stack) - 1) /\ Len(top.entries) \in Nat
  BY <1>1, TopAtLayer, LenProperties DEF AtLayer
<1>4. AtLayer(fr, Len(stack) - 1)
  BY <1>1, <1>2, <1>3 DEF AtLayer, Counters, Doing, OpKind
<1> QED
  BY <1>1, <1>4, ContinueAtLayer DEF Reading, Writing

LEMMA EndDeltaAtLayer ==
  ASSUME Inv, EndDelta
  PROVE  LayerInv'
<1>1. outcome = "running" /\ stack' = Tail(stack) /\ UNCHANGED <<patch, outcome>>
  BY DEF EndDelta, At, Reading, Writing
<1>2. /\ Len(stack') = Len(stack) - 1
      /\ \A j \in 1 .. Len(stack) - 1 : stack'[j] = stack[j + 1]
  BY <1>1, StackFacts
<1>3. ASSUME NEW j \in 1 .. Len(stack')
      PROVE  AtLayer(stack'[j], Len(stack') - j)
  <2>1. j + 1 \in 1 .. Len(stack) /\ Len(stack') - j = Len(stack) - (j + 1)
    BY <1>1, <1>2, StackFacts
  <2> QED
    BY <1>2, <2>1 DEF Inv, LayerInv
<1>4. \A j \in 1 .. Len(stack') : AtLayer(stack[j], Len(stack) - j)'
  BY <1>1, <1>3 DEF AtLayer
<1> QED
  BY <1>1, <1>4 DEF Inv, LayerInv

-----------------------------------------------------------------------------
(* The theorems.                                                           *)

LEMMA InitControl == Init => Inv
<1> SUFFICES ASSUME Init PROVE Inv
  OBVIOUS
<1>1. Len(stack) = 0
  BY EmptySeq DEF Init
<1> QED
  BY <1>1, InitInv DEF Init, Inv, LayerInv

LEMMA NextControl == Inv /\ [Next]_vars => Inv'
<1> SUFFICES ASSUME Inv, [Next]_vars PROVE LayerInv'
  BY NextInv DEF Inv
<1>1. CASE Refuse
  BY <1>1, FailAtLayer DEF Refuse
<1>2. CASE RefuseType
  BY <1>2, FailAtLayer DEF RefuseType
<1>3. CASE Begin
  BY <1>3, BeginAtLayer
<1>4. CASE Navigation
  BY <1>4, NavigationAtLayer
<1>5. CASE Expansion
  BY <1>5, ExpansionAtLayer
<1>6. CASE Relocation
  BY <1>6, RelocationAtLayer
<1>7. CASE OnTargets
  BY <1>7, OnTargetsAtLayer
<1>8. CASE OnWhole
  BY <1>8, OnWholeAtLayer
<1>9. CASE NextEntry
  BY <1>9, NextEntryAtLayer
<1>10. CASE EndDelta
  BY <1>10, EndDeltaAtLayer
<1>11. CASE Return
  BY <1>11, OverAtLayer DEF Return
<1>12. CASE UNCHANGED vars
  BY <1>12 DEF vars, Inv, LayerInv, AtLayer
<1>13. CASE Finished
  BY <1>12, <1>13 DEF Finished
<1> QED
  BY <1>1, <1>2, <1>3, <1>4, <1>5, <1>6, <1>7, <1>8, <1>9, <1>10, <1>11, <1>12, <1>13 DEF Next

LEMMA ControlInvariant == Spec => []Inv
BY InitControl, NextControl, PTL DEF Spec

\* The engine's recursion never goes deeper than checkDepth has allowed, with
\* one frame for the document's own delta (checkDeltaDepth, patch/limits.go).
THEOREM RecursionIsBounded == Spec => []StackBounded
<1>1. Inv => StackBounded
  <2> SUFFICES ASSUME Inv PROVE StackBounded
    OBVIOUS
  <2>1. CASE stack = <<>>
    BY <2>1, EmptySeq, LimitsAssumption DEF StackBounded
  <2>2. CASE stack # <<>>
    <3>1. outcome = "running"
      BY <2>2 DEF Inv, CallInv
    <3>2. Len(stack) - 1 \in 0 .. NestDepth /\ Len(stack) \in Nat
      BY <3>1, TopAtLayer, StackFacts DEF AtLayer
    <3> QED
      BY <3>2, LimitsAssumption DEF StackBounded
  <2> QED
    BY <2>1, <2>2
<1> QED
  BY <1>1, ControlInvariant, PTL

\* The engine runs exactly while it has a delta to apply, and is always at an
\* entry of each: it indexes no delta out of range, and runs no operation that
\* the format does not have.
THEOREM ControlIsSound == Spec => []ControlOK
<1>1. Inv => ControlOK
  <2> SUFFICES ASSUME Inv PROVE ControlOK
    OBVIOUS
  <2>1. outcome = "running" <=> stack # <<>>
    BY DEF Inv, CallInv
  <2>2. ASSUME NEW j \in DOMAIN stack
        PROVE  stack[j].pc \in Counters /\ stack[j].i \in DOMAIN stack[j].entries
    <3>1. j \in 1 .. Len(stack)
      BY LenProperties DEF Inv, CallInv
    <3>2. AtLayer(stack[j], Len(stack) - j)
      BY <3>1 DEF Inv, LayerInv
    <3> QED
      BY <3>2, LenProperties DEF AtLayer
  <2> QED
    BY <2>1, <2>2 DEF ControlOK
<1> QED
  BY <1>1, ControlInvariant, PTL

-----------------------------------------------------------------------------
(* A test leaves the draft alone.  What it asserts reads; and the way to   *)
(* it makes nothing, because a document whose test creates was refused.    *)

LEMMA TestIsStrict ==
  ASSUME NEW e, EntryFault(e) = "ok", e.op.kind = "test"
  PROVE  ~e.create
BY Zenon DEF EntryFault

LEMMA TopTestIsStrict ==
  ASSUME Inv, outcome = "running", op.kind = "test"
  PROVE  ~E.create
<1> DEFINE n == Len(stack) - 1
<1>1. n \in 0 .. NestDepth /\ E \in Layers(patch.delta)[n]
  BY TopAtLayer, EntryInLayer DEF AtLayer, E
<1>2. EntryFault(E) = "ok"
  BY <1>1, LayerInEntries, ValidDocument DEF Inv, LayerInv
<1> QED
  BY <1>2, TestIsStrict DEF op

\* A path that creates nothing leaves the document as it is.
LEMMA EntersWhatIsThere ==
  ASSUME NEW d, NEW c, NEW k, NEW create, ~create, DescendFault(d, c, k, create) = "ok"
  PROVE  Entered(d, c, Slot(d, c, k)) = d
<1> DEFINE s == Slot(d, c, k)
<1>1. k.arm = KeyArm(c) /\ KeyFault(k) = "ok" /\ Reaches(d, c, k, create)
  BY Zenon DEF DescendFault
<1>2. Exists(d, c, s)
  BY <1>1 DEF Reaches
<1>3. IsMapAt(c) => s \notin Field
  <2> SUFFICES ASSUME IsMapAt(c) PROVE s \notin Field
    OBVIOUS
  <2>1. ~IsMessageAt(c) /\ ~IsListAt(c)
    BY DEF IsMapAt, IsListAt
  <2>2. k.arm = "map_key"
    BY <1>1, <2>1, Zenon DEF KeyArm
  <2>3. k.key \in Key /\ s = k.key
    BY <1>1, <2>2 DEF KeyFault, Slot
  <2> QED
    BY <2>3, SchemaAssumption
<1> HIDE DEF s
<1>4. IsMessageAt(c) => ~IsMapAt(c)
  BY DEF IsMapAt
<1>5. IsMessageAt(c) => Entered(d, c, s) = d
  BY <1>2, <1>4 DEF Exists, Entered, Mutable
<1>6. ~IsMessageAt(c) => Entered(d, c, s) = d
  BY <1>2, <1>3 DEF Exists, Entered
<1> QED
  BY <1>5, <1>6 DEF s

LEMMA TestStep ==
  ASSUME Inv, [Next]_vars, outcome = "running", outcome' = "running", op.kind = "test"
  PROVE  draft' = draft
<1>1. Doing(top.pc, "test")
  BY TopAtLayer DEF AtLayer, op, E
<1>2. top.pc \notin {"remove", "insert", "assign", "nest", "from", "relocate"}
  BY <1>1 DEF Doing, OpKind
<1>3. CASE Descend
  <2> DEFINE key == E.path[top.n]
  <2>1. DescendFault(draft, top.c, key, E.create) = "ok"
        /\ draft' = Entered(draft, top.c, Slot(draft, top.c, key))
    BY <1>3 DEF Descend
  <2> QED
    BY <2>1, TopTestIsStrict, EntersWhatIsThere
<1>4. CASE LosePath \/ Arrive \/ Expansion
  BY <1>4 DEF LosePath, Arrive, Expansion, Select, RefuseSelector, Vacuous, NothingToDo, Dispatch,
              Fail, Reading
<1>5. CASE Relocation \/ OnTargets
  BY <1>2, <1>5
     DEF Relocation, DescendSource, ReadSource, LoseSource, SkipSource, WriteTarget, RefuseTarget,
         ClearSource, KeepSource, OnTargets, RemoveTarget, TestTarget, FailTest, AssignTarget,
         InsertTarget, Splice, RefuseValue, NestTarget, NestScalar, AllDone, Relocating, Acting, At,
         Fail, Reading
<1>6. CASE OnWhole
  BY <1>6 DEF OnWhole, Empty, AssignContainer, InsertContainer, TestContainer, RefuseContainer,
              NestContainer, OnContainer, Fail, Reading
<1>7. CASE NextEntry \/ EndDelta \/ Return \/ Finished \/ UNCHANGED vars
  BY <1>7 DEF NextEntry, EndDelta, Return, Finished, vars, Reading
<1>8. CASE Refuse \/ RefuseType \/ Begin
  BY <1>8 DEF Refuse, RefuseType, Begin
<1> QED
  BY <1>3, <1>4, <1>5, <1>6, <1>7, <1>8 DEF Next, Navigation

\* An entry that tests writes nothing into the draft, neither where it looks nor
\* on the way there, although the path and the handlers are those of the entries
\* that write (descend, patchproto/cont.go; validateEntry, patch/validate.go).
THEOREM TestsNeverMutate == Spec => TestNeverMutates
<1>1. Inv /\ [Next]_vars => [Running /\ op.kind = "test" => draft' = draft]_vars
  BY TestStep DEF Running
<1> QED
  BY <1>1, ControlInvariant, PTL DEF Spec, TestNeverMutates

=============================================================================
