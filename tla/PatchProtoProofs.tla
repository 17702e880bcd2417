-------------------------- MODULE PatchProtoProofs --------------------------
(***************************************************************************)
(* Theorems about the engine of PatchProto, for every schema, every set of *)
(* targets and every set of documents.                                     *)
(*                                                                         *)
(* That Apply is atomic rests on two facts about a call that is running:   *)
(* there is a delta on the stack, and the draft is a message.  The second  *)
(* is kept because no operation writes at the root, which every position   *)
(* the engine holds is below; so the stack's positions are part of it.     *)
(***************************************************************************)
EXTENDS PatchProto, DocumentProofs

-----------------------------------------------------------------------------
(* What an index and a range resolve to, for every index, every pair of    *)
(* bounds and every length (Resolve).                                      *)

\* An index resolves to a place of the list, or to none, and to none exactly if
\* it is outside [-length, length) (NormalizeIndex, patch/resolve.go).  Every
\* place has the two indices that name it, the one from each end.
THEOREM IndexResolves ==
  ASSUME NEW i \in Int, NEW length \in Nat
  PROVE  /\ NormalizeIndex(i, length) \in {Vacant} \cup 0 .. length - 1
         /\ NormalizeIndex(i, length) = Vacant <=> i \notin -length .. length - 1
         /\ i \in 0 .. length - 1 =>
              /\ NormalizeIndex(i, length) = i
              /\ NormalizeIndex(i - length, length) = i
BY DEF NormalizeIndex, FromEnd, Vacant

LEMMA BoundIsInt ==
  ASSUME NEW b, b = <<>> \/ b[1] \in Int, NEW default \in Int, NEW length \in Nat
  PROVE  Bound(b, default, length) \in Int
BY DEF Bound, FromEnd

\* A range resolves to an interval of places of the list, whichever way round
\* its bounds are and however far outside; and to the places that lie between
\* its bounds, all of them and no other (NormalizeRange, patch/resolve.go).
THEOREM RangeResolves ==
  ASSUME NEW r, r.begin = <<>> \/ r.begin[1] \in Int, r.end = <<>> \/ r.end[1] \in Int,
         NEW length \in Nat
  PROVE  LET span == NormalizeRange(r, length) IN
         /\ span.begin \in 0 .. length
         /\ span.end \in span.begin .. length
         /\ \A i \in 0 .. length - 1 :
              span.begin <= i /\ i < span.end
                <=> Bound(r.begin, 0, length) <= i /\ i < Bound(r.end, length, length)
<1> DEFINE v == Bound(r.begin, 0, length)
           w == Bound(r.end, length, length)
           begin == Clamp(v, length)
           end   == Clamp(w, length)
<1>1. v \in Int /\ w \in Int
  <2>1. 0 \in Int /\ length \in Int
    OBVIOUS
  <2> QED
    BY <2>1, BoundIsInt, Zenon
<1> HIDE DEF v, w
<1>2. /\ begin \in 0 .. length /\ end \in 0 .. length
      /\ \A i \in 0 .. length - 1 : (begin <= i <=> v <= i) /\ (i < end <=> i < w)
  BY <1>1 DEF Clamp
<1>3. NormalizeRange(r, length) = IF begin >= end THEN [begin |-> 0, end |-> 0]
                                                  ELSE [begin |-> begin, end |-> end]
  BY DEF NormalizeRange, v, w
<1> HIDE DEF begin, end
<1> QED
  BY <1>2, <1>3 DEF v, w

-----------------------------------------------------------------------------
(* The call.                                                               *)

\* A frame has the fields an action changes, and holds positions.
IsFrame(fr) ==
  /\ {"base", "entries", "i", "pc", "c", "n", "locs", "src"} \subseteq DOMAIN fr
  /\ {"c", "s", "held", "attached", "same"} \subseteq DOMAIN fr.src
  /\ Pos(fr.base) /\ Pos(fr.c) /\ Pos(fr.src.c)

\* The inductive invariant of a call.
CallInv ==
  /\ outcome = "running" <=> stack # <<>>
  /\ outcome = "running" => HasRoot(draft)
  /\ HasRoot(target)
  /\ stack \in Seq(Range(stack))
  /\ \A fr \in Range(stack) : IsFrame(fr)

-----------------------------------------------------------------------------
(* The stack.                                                              *)

\* A stack of frames is one whatever set the frames are taken from.
LEMMA FramesOf ==
  ASSUME NEW S, NEW F, S \in Seq(F), \A fr \in F : IsFrame(fr)
  PROVE  S \in Seq(Range(S)) /\ \A fr \in Range(S) : IsFrame(fr)
<1>1. \A j \in DOMAIN S : S[j] \in F
  BY ElementOfSeq, LenProperties
<1> QED
  BY <1>1, SeqOfRange DEF Range

LEMMA TopIsFrame ==
  ASSUME CallInv, outcome = "running"
  PROVE  /\ IsFrame(top)
         /\ Tail(stack) \in Seq(Range(stack))
BY HeadTailProperties DEF CallInv, top

LEMMA NewFrame ==
  ASSUME NEW base, NEW entries, Pos(base)
  PROVE  IsFrame(Frame(base, entries))
BY RootPos DEF IsFrame, Frame, NoSource

\* Pushing or replacing frames.
LEMMA StackOn ==
  ASSUME CallInv, outcome = "running", NEW frs, NEW F, frs \in Seq(F), frs # <<>>,
         \A fr \in F : IsFrame(fr)
  PROVE  LET S == frs \o Tail(stack) IN
         /\ S # <<>>
         /\ S \in Seq(Range(S))
         /\ \A fr \in Range(S) : IsFrame(fr)
<1> DEFINE G == F \cup Range(stack)
           S == frs \o Tail(stack)
<1>1. Tail(stack) \in Seq(Range(stack))
  BY TopIsFrame
<1>2. frs \in Seq(G) /\ Tail(stack) \in Seq(G)
  BY <1>1, SeqMonotonic
<1>3. S \in Seq(G) /\ S # <<>>
  BY <1>2, ConcatProperties, ConcatEqualIffEmpty
<1>4. \A fr \in G : IsFrame(fr)
  BY DEF CallInv
<1> HIDE DEF G, S
<1>5. S \in Seq(Range(S)) /\ \A fr \in Range(S) : IsFrame(fr)
  BY <1>3, <1>4, FramesOf
<1> QED
  BY <1>3, <1>5 DEF S

LEMMA OneFrame ==
  ASSUME NEW fr
  PROVE  <<fr>> \in Seq({fr}) /\ <<fr>> # <<>>
OBVIOUS

LEMMA TwoFrames ==
  ASSUME NEW fr, NEW gr
  PROVE  <<fr, gr>> \in Seq({fr, gr}) /\ <<fr, gr>> # <<>>
OBVIOUS

\* A step to another frame on top, with the draft still a message.
LEMMA ContinueKeeps ==
  ASSUME CallInv, outcome = "running", NEW fr, IsFrame(fr), Continue(fr),
         HasRoot(draft'), UNCHANGED <<outcome, target>>
  PROVE  CallInv'
<1>0. <<fr>> \in Seq({fr}) /\ <<fr>> # <<>> /\ \A gr \in {fr} : IsFrame(gr)
  BY OneFrame
<1>1. /\ stack' # <<>>
      /\ stack' \in Seq(Range(stack'))
      /\ \A gr \in Range(stack') : IsFrame(gr)
  BY <1>0, StackOn, Zenon DEF Continue
<1> QED
  BY <1>1 DEF CallInv

\* A step to a new frame above another.
LEMMA PushKeeps ==
  ASSUME CallInv, outcome = "running", NEW fr, NEW gr, IsFrame(fr), IsFrame(gr),
         stack' = <<fr, gr>> \o Tail(stack),
         HasRoot(draft'), UNCHANGED <<outcome, target>>
  PROVE  CallInv'
<1>0. /\ <<fr, gr>> \in Seq({fr, gr}) /\ <<fr, gr>> # <<>>
      /\ \A hr \in {fr, gr} : IsFrame(hr)
  BY TwoFrames
<1>1. /\ stack' # <<>>
      /\ stack' \in Seq(Range(stack'))
      /\ \A hr \in Range(stack') : IsFrame(hr)
  BY <1>0, StackOn, Zenon
<1> QED
  BY <1>1 DEF CallInv

\* A call that is over holds no stack.
LEMMA OverKeeps ==
  ASSUME CallInv, stack' = <<>>, outcome' # "running", UNCHANGED target
  PROVE  CallInv'
<1>1. stack' \in Seq(Range(stack')) /\ Range(stack') = {}
  BY EmptySeq DEF Range
<1> QED
  BY <1>1 DEF CallInv

LEMMA FailKeeps ==
  ASSUME CallInv, NEW code, Fail(code)
  PROVE  CallInv'
BY OverKeeps DEF Fail

\* A frame that goes on is a frame, whatever it goes on to, and so is one whose
\* container has moved to another position.
LEMMA FrameGoesOn ==
  ASSUME NEW fr, IsFrame(fr), NEW v, NEW w
  PROVE  /\ IsFrame([fr EXCEPT !.pc = v])
         /\ IsFrame([fr EXCEPT !.locs = v])
         /\ IsFrame([fr EXCEPT !.pc = v, !.n = w])
         /\ IsFrame([fr EXCEPT !.locs = v, !.n = w])
         /\ IsFrame([fr EXCEPT !.pc = v, !.locs = w])
BY DEF IsFrame

LEMMA FrameDescends ==
  ASSUME NEW fr, IsFrame(fr), NEW c, Pos(c), NEW v, NEW w
  PROVE  /\ IsFrame([fr EXCEPT !.c = c, !.n = v])
         /\ IsFrame([fr EXCEPT !.src.c = c, !.n = v])
         /\ IsFrame([fr EXCEPT !.pc = v, !.n = w, !.src.c = c])
BY DEF IsFrame

LEMMA FrameHoldsSource ==
  ASSUME NEW fr, IsFrame(fr), NEW u, NEW v, NEW w
  PROVE  /\ IsFrame([fr EXCEPT !.pc = u, !.src.s = v, !.src.held = w])
         /\ IsFrame([fr EXCEPT !.locs = u, !.src.same = v])
         /\ IsFrame([fr EXCEPT !.locs = u, !.src.attached = v])
BY DEF IsFrame

-----------------------------------------------------------------------------
(* What the operations write is below the root.                            *)

LEMMA EnteredKeepsRoot ==
  ASSUME NEW d, NEW c, NEW s, HasRoot(d), Pos(c)
  PROVE  HasRoot(Entered(d, c, s))
BY MutableKeepsRoot, AppendPos, GraftKeepsRoot DEF Entered

LEMMA RemovedAtKeepsRoot ==
  ASSUME NEW d, NEW c, NEW s, HasRoot(d), Pos(c)
  PROVE  HasRoot(RemovedAt(d, c, s))
BY PutElementsKeepsRoot, AppendPos, EraseKeepsRoot DEF RemovedAt

LEMMA WrittenKeepsRoot ==
  ASSUME NEW d, NEW c, NEW s, NEW v, HasRoot(d), Pos(c)
  PROVE  HasRoot(Written(d, c, s, v))
BY SetFieldKeepsRoot, AppendPos, GraftKeepsRoot DEF Written

-----------------------------------------------------------------------------
(* The actions.  Each one fails, or leaves a frame on top and the draft a  *)
(* message.                                                                *)

LEMMA RunningFacts ==
  ASSUME CallInv, outcome = "running"
  PROVE  /\ IsFrame(top) /\ HasRoot(draft)
         /\ Pos(top.c) /\ Pos(top.base) /\ Pos(top.src.c)
BY TopIsFrame DEF CallInv, IsFrame

LEMMA GoToKeeps ==
  ASSUME CallInv, outcome = "running", NEW pc, GoTo(pc), HasRoot(draft'), Writing
  PROVE  CallInv'
<1>1. IsFrame([top EXCEPT !.pc = pc])
  BY RunningFacts, FrameGoesOn
<1> QED
  BY <1>1, ContinueKeeps DEF GoTo, Writing

LEMMA OnToNextKeeps ==
  ASSUME CallInv, outcome = "running", OnToNext, HasRoot(draft'), Writing
  PROVE  CallInv'
<1>1. IsFrame([top EXCEPT !.locs = Tail(top.locs)])
  BY RunningFacts, FrameGoesOn
<1> QED
  BY <1>1, ContinueKeeps DEF OnToNext, Writing

LEMMA NavigationKeeps ==
  ASSUME CallInv, Navigation
  PROVE  CallInv'
<1>1. CASE Descend
  <2> DEFINE k == E.path[top.n]
             s == Slot(draft, top.c, k)
             fr == [top EXCEPT !.c = Append(top.c, s), !.n = top.n + 1]
  <2>1. outcome = "running" /\ Continue(fr) /\ Writing /\ draft' = Entered(draft, top.c, s)
    BY <1>1 DEF Descend, At
  <2> HIDE DEF s
  <2>2. IsFrame(fr)
    BY <2>1, RunningFacts, AppendPos, FrameDescends
  <2>3. HasRoot(draft')
    BY <2>1, RunningFacts, EnteredKeepsRoot
  <2> QED
    BY <2>1, <2>2, <2>3, ContinueKeeps DEF Writing
<1>2. CASE LosePath
  BY <1>2, FailKeeps DEF LosePath
<1>3. CASE Arrive
  <2> DEFINE fr == [top EXCEPT !.pc = IF E.scope = "container" THEN "container" ELSE "targets", !.n = 1]
  <2>1. outcome = "running" /\ Continue(fr) /\ Reading
    BY <1>3 DEF Arrive, At
  <2>2. IsFrame(fr) /\ HasRoot(draft)
    BY <2>1, RunningFacts, FrameGoesOn
  <2> QED
    BY <2>1, <2>2, ContinueKeeps DEF Reading, Writing
<1> QED
  BY <1>1, <1>2, <1>3 DEF Navigation

LEMMA ExpansionKeeps ==
  ASSUME CallInv, Expansion
  PROVE  CallInv'
<1>1. CASE Select
  <2> DEFINE sel == E.targets[top.n]
             fr == [top EXCEPT !.locs = top.locs \o Locations(sel), !.n = top.n + 1]
  <2>1. outcome = "running" /\ Continue(fr) /\ Reading
    BY <1>1 DEF Select, At
  <2>2. IsFrame(fr) /\ HasRoot(draft)
    BY <2>1, RunningFacts, FrameGoesOn
  <2> QED
    BY <2>1, <2>2, ContinueKeeps DEF Reading, Writing
<1>2. CASE RefuseSelector
  BY <1>2, FailKeeps DEF RefuseSelector
<1>3. CASE Vacuous
  BY <1>3, FailKeeps DEF Vacuous
<1>4. CASE NothingToDo
  BY <1>4, RunningFacts, GoToKeeps DEF NothingToDo, Expanded, At, Reading, Writing
<1>5. CASE Dispatch
  <2> DEFINE to   == [top EXCEPT !.pc = "from", !.n = 1, !.src.c = Origin]
             next == [top EXCEPT !.pc = op.kind,
                                 !.locs = IF op.kind = "remove" /\ IsListAt(top.c)
                                          THEN Descending(Range(top.locs)) ELSE top.locs]
  <2>1. outcome = "running" /\ Reading /\ (Continue(to) \/ Continue(next))
    BY <1>5 DEF Dispatch, Expanded, At
  <2>2. Pos(Origin)
    BY <2>1, RunningFacts DEF Origin
  <2>3. IsFrame(to) /\ IsFrame(next)
    BY <2>1, <2>2, RunningFacts, FrameDescends, FrameGoesOn
  <2> HIDE DEF to, next
  <2> QED
    BY <2>1, <2>3, RunningFacts, ContinueKeeps DEF Reading, Writing
<1> QED
  BY <1>1, <1>2, <1>3, <1>4, <1>5 DEF Expansion

LEMMA RelocationKeeps ==
  ASSUME CallInv, Relocation
  PROVE  CallInv'
<1>1. CASE DescendSource
  <2> DEFINE c  == Append(top.src.c, Slot(draft, top.src.c, SourcePath[top.n]))
             fr == [top EXCEPT !.src.c = c, !.n = top.n + 1]
  <2>1. outcome = "running" /\ Continue(fr) /\ Reading
    BY <1>1 DEF DescendSource, At
  <2>2. Pos(c)
    BY <2>1, RunningFacts, AppendPos
  <2> HIDE DEF c
  <2>3. IsFrame(fr) /\ HasRoot(draft)
    BY <2>1, <2>2, RunningFacts, FrameDescends
  <2> QED
    BY <2>1, <2>3, ContinueKeeps DEF Reading, Writing
<1>2. CASE ReadSource
  <2> DEFINE s  == Slot(draft, top.src.c, op.key)
             fr == [top EXCEPT !.pc = "relocate", !.src.s = s,
                               !.src.held = ValueAt(draft, Append(top.src.c, s))]
  <2>1. outcome = "running" /\ Continue(fr) /\ Reading
    BY <1>2 DEF ReadSource, At
  <2>2. IsFrame(fr) /\ HasRoot(draft)
    BY <2>1, RunningFacts, FrameHoldsSource
  <2> QED
    BY <2>1, <2>2, ContinueKeeps DEF Reading, Writing
<1>3. CASE LoseSource
  BY <1>3, FailKeeps DEF LoseSource
<1>4. CASE SkipSource
  <2> DEFINE fr == [top EXCEPT !.locs = Tail(top.locs), !.src.same = TRUE]
  <2>1. outcome = "running" /\ Continue(fr) /\ Reading
    BY <1>4 DEF SkipSource, Relocating, At
  <2>2. IsFrame(fr) /\ HasRoot(draft)
    BY <2>1, RunningFacts, FrameHoldsSource
  <2> QED
    BY <2>1, <2>2, ContinueKeeps DEF Reading, Writing
<1>5. CASE WriteTarget
  <2> DEFINE still == top.src.attached /\ ~Replaces(top.c, here, top.src.c)
             fr    == [top EXCEPT !.locs = Tail(top.locs), !.src.attached = still]
  <2>1. /\ outcome = "running" /\ Continue(fr) /\ Writing
        /\ draft' = Written(draft, top.c, here, HeldNow)
    BY <1>5 DEF WriteTarget, Relocating, At
  <2> HIDE DEF still
  <2>2. IsFrame(fr) /\ HasRoot(draft')
    BY <2>1, RunningFacts, FrameHoldsSource, WrittenKeepsRoot
  <2> QED
    BY <2>1, <2>2, ContinueKeeps DEF Writing
<1>6. CASE RefuseTarget
  BY <1>6, FailKeeps DEF RefuseTarget
<1>7. CASE ClearSource
  <2>1. /\ outcome = "running" /\ GoTo("done") /\ Writing
        /\ draft' \in {RemovedAt(draft, top.src.c, top.src.s), draft}
    BY <1>7 DEF ClearSource, At
  <2>2. HasRoot(draft')
    BY <2>1, RunningFacts, RemovedAtKeepsRoot
  <2> QED
    BY <2>1, <2>2, GoToKeeps
<1>8. CASE KeepSource
  BY <1>8, RunningFacts, GoToKeeps DEF KeepSource, At, Reading, Writing
<1> QED
  BY <1>1, <1>2, <1>3, <1>4, <1>5, <1>6, <1>7, <1>8 DEF Relocation

LEMMA OnTargetsKeeps ==
  ASSUME CallInv, OnTargets
  PROVE  CallInv'
<1>1. CASE RemoveTarget
  <2>1. /\ outcome = "running" /\ OnToNext /\ Writing
        /\ draft' = RemovedAt(draft, top.c, here)
    BY <1>1 DEF RemoveTarget, Acting, At
  <2> QED
    BY <2>1, RunningFacts, RemovedAtKeepsRoot, OnToNextKeeps
<1>2. CASE TestTarget
  BY <1>2, RunningFacts, OnToNextKeeps DEF TestTarget, Acting, At, Reading, Writing
<1>3. CASE FailTest
  BY <1>3, FailKeeps DEF FailTest
<1>4. CASE AssignTarget
  <2>1. /\ outcome = "running" /\ OnToNext /\ Writing
        /\ draft' = Written(draft, top.c, here, Content(op.value))
    BY <1>4 DEF AssignTarget, Acting, At
  <2> QED
    BY <2>1, RunningFacts, WrittenKeepsRoot, OnToNextKeeps
<1>5. CASE InsertTarget
  <2>1. /\ outcome = "running" /\ OnToNext /\ Writing
        /\ draft' = Written(draft, top.c, here, Content(op.value))
    BY <1>5 DEF InsertTarget, Acting, At
  <2> QED
    BY <2>1, RunningFacts, WrittenKeepsRoot, OnToNextKeeps
<1>6. CASE Splice
  <2> DEFINE elements == Spliced(Elements(draft, top.c), Content(op.value), Range(top.locs))
             fr       == [top EXCEPT !.locs = <<>>]
  <2>1. /\ outcome = "running" /\ Continue(fr) /\ Writing /\ IsListAt(top.c)
        /\ draft' = PutElements(draft, top.c, elements)
    BY <1>6 DEF Splice, Acting, At
  <2> HIDE DEF elements
  <2>2. IsFrame(fr) /\ HasRoot(draft')
    BY <2>1, RunningFacts, FrameGoesOn, PutElementsKeepsRoot
  <2> QED
    BY <2>1, <2>2, ContinueKeeps DEF Writing
<1>7. CASE RefuseValue
  BY <1>7, FailKeeps DEF RefuseValue
<1>8. CASE NestTarget
  <2> DEFINE inner == Frame(place, op.delta)
             outer == [top EXCEPT !.locs = Tail(top.locs)]
  <2>1. /\ outcome = "running" /\ stack' = <<inner, outer>> \o Tail(stack) /\ Writing
        /\ draft' \in {Mutable(draft, top.c, here), draft}
    BY <1>8 DEF NestTarget, Acting, At
  <2>2. IsFrame(inner)
    BY <2>1, RunningFacts, AppendPos, NewFrame DEF place
  <2>3. IsFrame(outer)
    BY <2>1, RunningFacts, FrameGoesOn
  <2>4. HasRoot(draft')
    BY <2>1, RunningFacts, MutableKeepsRoot
  <2> HIDE DEF inner, outer
  <2> QED
    BY <2>1, <2>2, <2>3, <2>4, PushKeeps DEF Writing
<1>9. CASE NestScalar
  BY <1>9, FailKeeps DEF NestScalar
<1>10. CASE AllDone
  BY <1>10, RunningFacts, GoToKeeps DEF AllDone, Reading, Writing
<1> QED
  BY <1>1, <1>2, <1>3, <1>4, <1>5, <1>6, <1>7, <1>8, <1>9, <1>10 DEF OnTargets

LEMMA OnWholeKeeps ==
  ASSUME CallInv, OnWhole
  PROVE  CallInv'
<1>1. CASE Empty
  <2>1. /\ outcome = "running" /\ GoTo("done") /\ Writing
        /\ draft' = EmptyContainer(draft, top.c)
    BY <1>1 DEF Empty, OnContainer, At
  <2> QED
    BY <2>1, RunningFacts, EmptyContainerKeepsRoot, GoToKeeps
<1>2. CASE AssignContainer
  <2>1. /\ outcome = "running" /\ GoTo("done") /\ Writing
        /\ draft' = Overlay(EmptyContainer(draft, top.c), top.c, Content(op.value))
    BY <1>2 DEF AssignContainer, OnContainer, At
  <2> QED
    BY <2>1, RunningFacts, EmptyContainerKeepsRoot, OverlayKeepsRoot, GoToKeeps
<1>3. CASE InsertContainer
  <2> DEFINE elements == Elements(draft, top.c) \o ListContent(op.value.items)
  <2>1. /\ outcome = "running" /\ GoTo("done") /\ Writing
        /\ \/ IsListAt(top.c) /\ draft' = PutElements(draft, top.c, elements)
           \/ draft' = Overlay(draft, top.c, Content(op.value))
    BY <1>3 DEF InsertContainer, OnContainer, At
  <2> HIDE DEF elements
  <2>2. HasRoot(draft')
    BY <2>1, RunningFacts, PutElementsKeepsRoot, OverlayKeepsRoot
  <2> QED
    BY <2>1, <2>2, GoToKeeps
<1>4. CASE TestContainer
  BY <1>4, RunningFacts, GoToKeeps DEF TestContainer, OnContainer, At, Reading, Writing
<1>5. CASE RefuseContainer
  BY <1>5, FailKeeps DEF RefuseContainer
<1>6. CASE NestContainer
  <2> DEFINE inner == Frame(top.c, op.delta)
             outer == [top EXCEPT !.pc = "done"]
  <2>1. outcome = "running" /\ stack' = <<inner, outer>> \o Tail(stack) /\ Reading
    BY <1>6 DEF NestContainer, OnContainer, At
  <2>2. IsFrame(inner) /\ IsFrame(outer) /\ HasRoot(draft)
    BY <2>1, RunningFacts, NewFrame, FrameGoesOn
  <2> HIDE DEF inner, outer
  <2> QED
    BY <2>1, <2>2, PushKeeps DEF Reading, Writing
<1> QED
  BY <1>1, <1>2, <1>3, <1>4, <1>5, <1>6 DEF OnWhole

LEMMA BeginKeeps ==
  ASSUME CallInv, Begin
  PROVE  CallInv'
<1> DEFINE fr == Frame(<<>>, patch.delta)
<1>1. IsFrame(fr)
  BY RootPos, NewFrame
<1>2. /\ stack' = <<fr>> /\ outcome' = "running"
      /\ draft' = target /\ target' = target
  BY DEF Begin
<1> HIDE DEF fr
<1>3. /\ stack' \in Seq({fr}) /\ stack' # <<>>
      /\ \A gr \in {fr} : IsFrame(gr)
  BY <1>1, <1>2, OneFrame
<1>4. stack' \in Seq(Range(stack')) /\ \A gr \in Range(stack') : IsFrame(gr)
  BY <1>3, FramesOf
<1> QED
  BY <1>2, <1>3, <1>4 DEF CallInv

LEMMA NextEntryKeeps ==
  ASSUME CallInv, NextEntry
  PROVE  CallInv'
<1> DEFINE fr == [Frame(top.base, top.entries) EXCEPT !.i = top.i + 1]
<1>1. outcome = "running" /\ Continue(fr) /\ Reading
  BY DEF NextEntry, At
<1>2. IsFrame(Frame(top.base, top.entries)) /\ HasRoot(draft)
  BY <1>1, RunningFacts, NewFrame
<1>3. IsFrame(fr)
  BY <1>2 DEF IsFrame
<1> QED
  BY <1>1, <1>2, <1>3, ContinueKeeps DEF Reading, Writing

LEMMA EndDeltaKeeps ==
  ASSUME CallInv, EndDelta
  PROVE  CallInv'
<1>1. /\ outcome = "running" /\ Len(stack) > 1 /\ stack' = Tail(stack)
      /\ UNCHANGED <<outcome, draft, target>>
  BY DEF EndDelta, At, Reading, Writing
<1>2. stack \in Seq(Range(stack)) /\ stack # <<>> /\ \A fr \in Range(stack) : IsFrame(fr)
  BY <1>1 DEF CallInv
<1>3. stack' \in Seq(Range(stack)) /\ Len(stack') = Len(stack) - 1
  BY <1>1, <1>2, HeadTailProperties
<1>4. stack' # <<>>
  <2>1. Len(stack) \in Nat /\ Len(<<>>) = 0
    BY <1>2, LenProperties, EmptySeq
  <2>2. Len(stack') # 0
    BY <1>1, <1>3, <2>1
  <2> QED
    BY <2>1, <2>2
<1>5. stack' \in Seq(Range(stack')) /\ \A fr \in Range(stack') : IsFrame(fr)
  BY <1>2, <1>3, FramesOf
<1> QED
  BY <1>1, <1>4, <1>5 DEF CallInv

-----------------------------------------------------------------------------
(* The invariant.                                                          *)

LEMMA InitInv == Init => CallInv
<1> SUFFICES ASSUME Init PROVE CallInv
  OBVIOUS
<1>1. stack \in Seq(Range(stack)) /\ Range(stack) = {}
  BY EmptySeq DEF Init, Range
<1> QED
  BY <1>1, TargetsAssumption DEF Init, CallInv, HasRoot, IsMessage

LEMMA NextInv == CallInv /\ [Next]_vars => CallInv'
<1> SUFFICES ASSUME CallInv, [Next]_vars PROVE CallInv'
  OBVIOUS
<1>1. CASE Refuse
  BY <1>1, FailKeeps DEF Refuse
<1>2. CASE RefuseType
  BY <1>2, FailKeeps DEF RefuseType
<1>3. CASE Begin
  BY <1>3, BeginKeeps
<1>4. CASE Navigation
  BY <1>4, NavigationKeeps
<1>5. CASE Expansion
  BY <1>5, ExpansionKeeps
<1>6. CASE Relocation
  BY <1>6, RelocationKeeps
<1>7. CASE OnTargets
  BY <1>7, OnTargetsKeeps
<1>8. CASE OnWhole
  BY <1>8, OnWholeKeeps
<1>9. CASE NextEntry
  BY <1>9, NextEntryKeeps
<1>10. CASE EndDelta
  BY <1>10, EndDeltaKeeps
<1>11. CASE Return
  BY <1>11, OverKeeps DEF Return
<1>12. CASE UNCHANGED vars
  BY <1>12 DEF CallInv, vars
<1>13. CASE Finished
  BY <1>12, <1>13 DEF Finished
<1> QED
  BY <1>1, <1>2, <1>3, <1>4, <1>5, <1>6, <1>7, <1>8, <1>9, <1>10, <1>11, <1>12, <1>13 DEF Next

\* A running call has a delta to apply and a message to apply it to, and every
\* container it holds is at a position.
THEOREM CallInvariant == Spec => []CallInv
BY InitInv, NextInv, PTL DEF Spec

-----------------------------------------------------------------------------
(* Atomicity.  To the caller a step of the engine is one of three things:  *)
(* nothing, an error, or the answer.                                       *)

Silent ==
  /\ outcome \in {"called", "running"} /\ outcome' = "running"
  /\ UNCHANGED <<target, patch, err, returned>>

Errs ==
  /\ outcome \in {"called", "running"}
  /\ \E code : code # "ok" /\ Fail(code)

\* What refuses a document, or an insert on a container, is a fault.
LEMMA DocumentFaultIsFault ==
  ASSUME NEW p, NEW code \in DocumentFaults(p)
  PROVE  code # "ok"
BY Zenon DEF DocumentFaults

LEMMA InsertFaultIsFault ==
  ASSUME NEW c, NEW code \in ContainerInsertFaults(c)
  PROVE  code # "ok"
<1>1. "ok" \notin MessageInsertFaults(c, op.value)
  BY DEF MessageInsertFaults
<1> QED
  BY <1>1, Zenon DEF ContainerInsertFaults

LEMMA EngineIsSilent ==
  ASSUME Navigation \/ Expansion \/ Relocation \/ OnTargets \/ OnWhole \/ NextEntry \/ EndDelta
  PROVE  Silent \/ Errs
<1>1. CASE Navigation
  BY <1>1 DEF Navigation, Descend, LosePath, Arrive, At, Reading, Writing, Silent, Errs
<1>2. CASE Expansion
  BY <1>2 DEF Expansion, Select, RefuseSelector, Vacuous, NothingToDo, Dispatch, Expanded, At,
              Reading, Writing, Silent, Errs
<1>3. CASE Relocation
  BY <1>3 DEF Relocation, DescendSource, ReadSource, LoseSource, SkipSource, WriteTarget,
              RefuseTarget, ClearSource, KeepSource, Relocating, At, Reading, Writing, Silent, Errs
<1>4. CASE OnTargets
  BY <1>4 DEF OnTargets, RemoveTarget, TestTarget, FailTest, AssignTarget, InsertTarget, Splice,
              RefuseValue, NestTarget, NestScalar, AllDone, Acting, At, Reading, Writing, Silent, Errs
<1>5. CASE OnWhole
  BY <1>5, InsertFaultIsFault
     DEF OnWhole, Empty, AssignContainer, InsertContainer, TestContainer, RefuseContainer,
         NestContainer, OnContainer, At, Reading, Writing, Silent, Errs
<1>6. CASE NextEntry \/ EndDelta
  BY <1>6 DEF NextEntry, EndDelta, At, Reading, Writing, Silent
<1> QED
  BY <1>1, <1>2, <1>3, <1>4, <1>5, <1>6

LEMMA StepIsAtomic == CallInv /\ [Next]_vars => [Atomic!Next]_(Atomic!vars)
<1> SUFFICES ASSUME CallInv, [Next]_vars PROVE Atomic!Next \/ UNCHANGED Atomic!vars
  OBVIOUS
<1>1. CASE Silent
  BY <1>1 DEF Silent, Atomic!vars
<1>2. CASE Errs
  BY <1>2 DEF Errs, Fail, Atomic!Next, Atomic!Reject
<1>3. CASE Refuse \/ RefuseType
  <2>1. Errs
    BY <1>3, DocumentFaultIsFault DEF Refuse, RefuseType, Errs
  <2> QED
    BY <1>2, <2>1
<1>4. CASE Begin
  BY <1>1, <1>4 DEF Begin, Silent
<1>5. CASE Return
  <2>1. HasRoot(draft)
    BY <1>5 DEF Return, At, CallInv
  <2>2. draft # NoDoc
    BY <2>1 DEF HasRoot, NoDoc, EmptyFragment
  <2> QED
    BY <1>5, <2>2 DEF Return, At, Atomic!Next, Atomic!Answer
<1>6. CASE Finished \/ UNCHANGED vars
  BY <1>6 DEF Finished, vars, Atomic!vars
<1> QED
  BY <1>1, <1>2, <1>3, <1>4, <1>5, <1>6, EngineIsSilent DEF Next

\* Apply is atomic: whatever the target, the document and the schema, a call
\* reports an error and returns nothing, or returns a message, at once; and the
\* caller's message stays as it was (the comment on Apply, patchproto/apply.go).
THEOREM ApplyIsAtomic == Spec => AtomicSpec
<1>1. Init => Atomic!Init
  BY DEF Init, Atomic!Init
<1>2. CallInv /\ [Next]_vars => [Atomic!Next]_(Atomic!vars)
  BY StepIsAtomic
<1> QED
  BY <1>1, <1>2, CallInvariant, PTL DEF Spec, AtomicSpec, Atomic!Spec

=============================================================================
