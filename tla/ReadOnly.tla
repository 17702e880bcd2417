------------------------------ MODULE ReadOnly ------------------------------
(***************************************************************************)
(* A policy checked before Apply: what patch.ReadOnly says of a document,  *)
(* against what the engine then does with it (patch/readonly.go, the       *)
(* comment on ReadOnly; patch/writes.go, the comment on Writes).           *)
(*                                                                         *)
(* The scan never sees the message, so it has to be right for every        *)
(* message the document may be applied to.                                 *)
(***************************************************************************)
EXTENDS PatchProto, Writes

CONSTANT Policies  (* The field paths a policy is made from. *)

Protected == {f \in Policies : ParseFault(f) = "ok"}

\* The positions at which two messages differ, and the field path of a position.
Differing(d, v) ==
  {q \in DOMAIN d \cup DOMAIN v : ~(q \in DOMAIN d /\ q \in DOMAIN v /\ d[q] = v[q])}

FieldsOf(q) == SelectSeq(q, LAMBDA s : s \in Field \cup {Unknown})

\* The protected fields whose value the call changed.
ChangedFields ==
  LET changed == {FieldsOf(q) : q \in Differing(target, returned)}
  IN  {f \in Protected : \E p \in changed : IsPrefix(f, p)}

\* Does the document set a member of a oneof that f, or a field around f, is
\* another member of?
SetsSibling(f) ==
  /\ \E e \in EntriesOf(patch.delta) : e.op.kind \notin {"remove", "test"} \/ e.create
  /\ \E w \in Range(Writes(patch).writes), i \in DOMAIN f :
       /\ i \in DOMAIN w.path
       /\ SubSeq(f, 1, i - 1) = SubSeq(w.path, 1, i - 1)
       /\ f[i] \in Siblings(w.path[i])

-----------------------------------------------------------------------------
\* "It is not an under-approximation anywhere, which is the property that makes
\* it usable as an authorization check" (writes.go:197): a document that passes
\* the check of a policy changes none of the policy's fields, in no message.
ReadOnlyHolds ==
  outcome = "ok" => \A f \in ChangedFields : CheckFault({f}, patch) # "ok"

\* The same of all fields but one kind: setting a member of a oneof clears the
\* other members, and the scan does not report those.
ReadOnlyButOneofs ==
  outcome = "ok" =>
    \A f \in ChangedFields :
      CheckFault({f}, patch) # "ok" \/ SetsSibling(f)

\* Does the message decide whether the entry has a position to act on?
MaySelectNothing(e) ==
  /\ e.scope = "targets"
  /\ e.skip \/ \A s \in Range(e.targets) : s.arm \in {"range", "every_entry", "oneof_member"}

\* Is the entry a nest on a member of a oneof, whichever is set?
NestsInOneof(e) == e.op.kind = "nest" /\ \E s \in Range(e.targets) : s.arm = "oneof_member"

\* A document without what the engine may never read: the source or the inner
\* document of an entry that may have nothing to act on, and a nest into whichever
\* member of a oneof is set.
RECURSIVE SureToBeRead(_)
SureToBeRead(delta) ==
  [i \in DOMAIN delta |->
     LET entry == delta[i] IN
     CASE MaySelectNothing(entry) \/ NestsInOneof(entry) -> [entry EXCEPT !.op = [kind |-> "remove"]]
       [] OTHER -> IF entry.op.kind = "nest" THEN [entry EXCEPT !.op.delta = SureToBeRead(@)] ELSE entry]

\* What the scan refuses, Apply refuses: "it is the same error Apply would raise"
\* (writes.go:216).  What is left out is the source and the inner document of an
\* entry that has nothing to act on, and a nest on a oneof_member, which the scan
\* takes into every member and the engine into the one that is set.
ScanRefusalIsApplys ==
  outcome = "ok" => ScanDelta(RootPlace, SureToBeRead(patch.delta)).fault = "ok"

\* The same of every document, as the comment has it.
ScanRefusesAsApply == outcome = "ok" => Writes(patch).fault = "ok"

=============================================================================
