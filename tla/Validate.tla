------------------------------ MODULE Validate ------------------------------
(***************************************************************************)
(* What a document has to be before any engine looks at a target           *)
(* (patch/validate.go, patch/limits.go).                                   *)
(*                                                                         *)
(* A document p is a record                                                *)
(*   message_type, revision, delta    the fields of Patch; <<>> for a      *)
(*                                    message_type that is not set         *)
(*   unknown                          does any message in it carry a field *)
(*                                    this reader does not know            *)
(* and a delta is a sequence of entries                                    *)
(*   path     the keys to the container                                    *)
(*   create   on_absent_path is CREATE                                     *)
(*   skip     on_missing is SKIP                                           *)
(*   scope    "targets", "container", or "unset"                           *)
(*   targets  the selectors, when the scope is targets                     *)
(*   op       the operation; its kind is "unset" when there is none        *)
(***************************************************************************)
EXTENDS Literal

CONSTANTS
  Revision,    (* The schema revision this reader implements.              *)
  NestDepth,   (* Limits.NestDepth: how far nested deltas are followed.    *)
  ValueDepth   (* Limits.ValueDepth: how far literals are followed.        *)

ASSUME LimitsAssumption ==
  /\ Revision \in Nat
  /\ NestDepth \in Nat \ {0}
  /\ ValueDepth \in Nat \ {0}

Nested(entries) == UNION {Range(e.op.delta) : e \in {e \in entries : e.op.kind = "nest"}}

\* The entries of a document, by how many nests they lie under.
Layers(delta) ==
  LET layer[n \in 0 .. NestDepth] == IF n = 0 THEN Range(delta) ELSE Nested(layer[n - 1])
  IN  layer

EntriesOf(delta) == UNION Range(Layers(delta))

\* A document is a Patch message: a oneof has one of its members or none, a
\* repeated field is a sequence, and an index is a number.
OpKind == {"remove", "test", "insert", "assign", "move", "copy", "nest"}

IsKey(k) == k.arm = "index" => k.index \in Int /\ k = [arm |-> "index", index |-> k.index]

IsPath(path) == path \in Seq(Range(path)) /\ \A k \in Range(path) : IsKey(k)

IsSelector(sel) ==
  /\ sel.arm \in {"key", "range", "append", "every_entry", "oneof_member"}
  /\ sel.arm = "key" => IsKey(sel.key) /\ sel = [arm |-> "key", key |-> sel.key]
  /\ sel.arm = "range" => \A b \in {sel.begin, sel.end} : b = <<>> \/ b[1] \in Int

IsOperation(v) ==
  /\ v.kind \in OpKind \cup {"unset"}
  /\ v.kind \in {"insert", "assign"} => IsLiteral(v.value)
  /\ v.kind \in {"move", "copy"} /\ v.origin = "path" => IsPath(v.path)
  /\ v.kind = "nest" => v.delta \in Seq(Range(v.delta)) /\ v = [kind |-> "nest", delta |-> v.delta]

IsEntry(e) ==
  /\ e = [path |-> e.path, create |-> e.create, skip |-> e.skip,
          scope |-> e.scope, targets |-> e.targets, op |-> e.op]
  /\ {e.create, e.skip} \subseteq BOOLEAN
  /\ IsOperation(e.op)
  /\ e.scope \in {"targets", "container", "unset"}
  /\ e.targets \in Seq(Range(e.targets)) /\ \A sel \in Range(e.targets) : IsSelector(sel)
  /\ IsPath(e.path)

IsDocument(p) ==
  /\ p = [message_type |-> p.message_type, revision |-> p.revision, unknown |-> p.unknown, delta |-> p.delta]
  /\ p.delta \in Seq(Range(p.delta)) /\ \A e \in EntriesOf(p.delta) : IsEntry(e)

HasLiteral(op) ==
  op.kind \in {"insert", "assign"} \/ (op.kind = "test" /\ op.want = "value")

\* checkDepth: a nest under NestDepth others, or a literal deeper than allowed.
\* Mutant: only the literals looked at.
TooDeepLiteral(delta) ==
  \E e \in EntriesOf(delta) : HasLiteral(e.op) /\ Depth(e.op.value) > ValueDepth

TooDeep(delta) ==
  \/ \E e \in Layers(delta)[NestDepth] : e.op.kind = "nest"
  \/ \E e \in EntriesOf(delta) : HasLiteral(e.op) /\ Depth(e.op.value) > ValueDepth

GrowsList == {"insert", "move", "copy"}

\* validateEntry, in the order of its checks; nested deltas are looked at by
\* EntriesOf.
\* Mutant: a test that may create its path.
EntryFaultLoose(e) ==
  CASE e.op.kind = "unset"                                  -> "MissingOneof"
    [] e.scope = "unset"                                    -> "MissingOneof"
    [] e.scope = "targets" /\ e.targets = <<>>              -> "EmptyCollection"
    [] e.op.kind = "nest" /\ e.op.delta = <<>>              -> "EmptyCollection"
    [] OTHER                                                -> "ok"

EntryFault(e) ==
  CASE e.op.kind = "unset"                                  -> "MissingOneof"
    [] e.scope = "unset"                                    -> "MissingOneof"
    [] e.scope = "targets" /\ e.targets = <<>>              -> "EmptyCollection"
    [] e.scope = "targets" /\ e.op.kind \notin GrowsList
         /\ \E s \in Range(e.targets) : s.arm = "append"    -> "IllegalSelector"
    [] e.scope = "container" /\ e.op.kind \in {"move", "copy"} -> "IllegalScope"
    [] e.op.kind = "test" /\ (e.skip \/ e.create)           -> "TestNotStrict"
    [] e.op.kind = "test" /\ e.op.want = "unset"            -> "MissingOneof"
    [] e.op.kind = "nest" /\ e.op.delta = <<>>              -> "EmptyCollection"
    [] OTHER                                                -> "ok"

\* Every rule the document breaks at the first check that refuses it.  The
\* code reports the one that comes first in the document.
DocumentFaults(p) ==
  CASE TooDeep(p.delta)      -> {"TooDeep"}
    [] p.unknown             -> {"UnknownField"}
    [] p.revision > Revision -> {"ReaderRevisionTooOld"}
    [] p.delta = <<>>        -> {"EmptyCollection"}
    [] OTHER                 -> {EntryFault(e) : e \in EntriesOf(p.delta)} \ {"ok"}

=============================================================================
