-------------------------------- MODULE Build --------------------------------
(***************************************************************************)
(* The builders of documents (patch/build.go, buildkey.go, buildvalue.go). *)
(*                                                                         *)
(* A part is what a constructor returns:                                   *)
(*   pb   the message it holds, NoPart for a zero value                    *)
(*   err  the code of its error, "ok" for none; the code keeps no message  *)
(*        beside an error, the model keeps the one that was meant          *)
(*                                                                         *)
(* An entry is built by calls that chain.  Every scope of a chain is a     *)
(* pointer to the same draft, and differs from the others only in the      *)
(* methods its type offers; a caller may keep one and use it again.        *)
(***************************************************************************)
EXTENDS Parts

CONSTANTS
  Selectors, Paths, Values, Locations, Ops, TypeNames
             (* What the caller passes: sequences of selectors, of keyers; *)
             (* values; sources; sequences of operations built elsewhere;  *)
             (* names of message types.                                    *)

Part(pb)        == [pb |-> pb, err |-> "ok"]
Broken(code, pb) == [pb |-> pb, err |-> code]
ZeroValue       == Part(NoPart)

Faults(parts) == [i \in DOMAIN parts |-> parts[i].err]
Pbs(parts)    == [i \in DOMAIN parts |-> parts[i].pb]

\* Parts in one: the first that is broken breaks it.
Joined(parts, pb) == Broken(FirstFault(Faults(parts)), pb)

-----------------------------------------------------------------------------
(* Keys and selectors.                                                     *)

Name(way, v) ==
  [pb |-> [arm |-> "field", ids |-> [w \in {way} |-> v]], err |-> IF v = Blank THEN "FieldNoIdentifier" ELSE "ok",
   type |-> "Field"]

\* Another identifier of the field f.
\* Mutant: the error of the added one is lost.
WithUnchecked(f, g) ==
  [f EXCEPT !.pb = [arm |-> "field", ids |-> g.pb.ids @@ (IF @ = NoPart THEN <<>> ELSE @.ids)]]

With(f, g) ==
  [f EXCEPT !.pb  = [arm |-> "field", ids |-> g.pb.ids @@ (IF @ = NoPart THEN <<>> ELSE @.ids)],
            !.err = IF @ # "ok" THEN @ ELSE g.err]

MapKey(v) == [pb |-> [arm |-> "map_key", key |-> v], err |-> "ok", type |-> "MapKey"]
Index(i)  == [pb |-> [arm |-> "index", index |-> i], err |-> "ok", type |-> "Key"]
ZeroKeyer(type) == [pb |-> NoPart, err |-> "ok", type |-> type]

\* A Field and a MapKey are put into a Key, which has no arm if there is nothing.
KeyOf(k) == Broken(k.err, IF k.type # "Key" /\ k.pb = NoPart THEN Unset ELSE k.pb)

Selector(pb) == [pb |-> pb, err |-> "ok", type |-> "Selector"]
Span(v, w)   == Selector([arm |-> "range", begin |-> v, end |-> w])
AtEnd        == Selector([arm |-> "append"])
EveryEntry   == Selector([arm |-> "every_entry"])
OneofMember(name) ==
  [Selector([arm |-> "oneof_member", name |-> name]) EXCEPT !.err = IF name = Blank THEN "FieldNoIdentifier" ELSE "ok"]

\* A Selector is a Selectorer, and so is a pointer to one.
ByPointer(s) == [s EXCEPT !.type = "*Selector"]

SelectorOf(s) ==
  IF s.type \in {"Selector", "*Selector"} THEN Broken(s.err, s.pb)
  ELSE Broken(s.err, IF KeyOf(s).pb = NoPart THEN Unset ELSE [arm |-> "key", key |-> KeyOf(s).pb])

PathOf(keys) ==
  LET parts == [i \in DOMAIN keys |-> KeyOf(keys[i])] IN Joined(parts, Pbs(parts))

Here(k) == Broken(k.err, [origin |-> "same_container", key |-> KeyOf(k).pb])
From(k, path) ==
  Joined(<<KeyOf(k), PathOf(path)>>, [origin |-> "path", key |-> KeyOf(k).pb, path |-> PathOf(path).pb])

-----------------------------------------------------------------------------
(* Values.                                                                 *)

ScalarOf(arm, v) == Part([arm |-> arm, scalar |-> v])

\* A value that is passed on: a zero one is broken.
ValueOf(v) == IF v.err = "ok" /\ v.pb = NoPart THEN Broken("MissingOneof", NoPart) ELSE v

\* F and E: a field or a map key, and its value.
Paired(key, v) ==
  LET value == ValueOf(v) IN Joined(<<key, value>>, [key |-> key.pb, value |-> value.pb])

Message(fields) == Joined(fields, [arm |-> "m", fields |-> Pbs(fields)])
MapOf(entries) == Joined(entries, [arm |-> "map", entries |-> Pbs(entries)])
List(values) ==
  LET parts == [i \in DOMAIN values |-> ValueOf(values[i])] IN Joined(parts, [arm |-> "l", items |-> Pbs(parts)])

-----------------------------------------------------------------------------
(* The draft of an entry, and the scopes that lead to it.                  *)

VARIABLES
  draft,   (* What the calls have put together, and its error.             *)
  held,    (* The types of the scopes the caller has: each offers some of  *)
           (* the calls.                                                   *)
  last,    (* The scope the chain has come to, and                         *)
  astray,  (* whether a call was on another.                               *)
  op,      (* The operation built last, an entry; spoilt if one before it  *)
           (* has left an error behind.  No later call changes it.         *)
  patch    (* The document, once New has answered.                         *)

bvars == <<draft, held, last, astray, op, patch>>

NoDraft == [scope |-> "none", path |-> <<>>, targets |-> <<>>, skip |-> FALSE, create |-> FALSE, err |-> "ok"]

Navigable  == {"Target", "Tolerant", "Container"}
Skippable  == {"Target", "Writing"}
Assertive  == {"Target", "Container"}
Relocatory == {"Target", "Writing", "Tolerant"}
Writers    == {"Target", "Writing", "Tolerant", "Container", "ContainerWriting"}

NoOp       == [pb |-> NoPart, err |-> "none", spoilt |-> FALSE]
NoDocument == Broken("none", NoPart)

Init ==
  /\ draft = NoDraft
  /\ held = {}
  /\ last = "none"
  /\ astray = FALSE
  /\ op = NoOp
  /\ patch = NoDocument

Building == patch = NoDocument
Starting == Building /\ draft = NoDraft

Target(sels) ==
  /\ Starting
  /\ draft' = [NoDraft EXCEPT !.scope = "targets", !.targets = sels]
  /\ held' = {"Target"}
  /\ last' = "Target"
  /\ UNCHANGED <<astray, op, patch>>

Container ==
  /\ Starting
  /\ draft' = [NoDraft EXCEPT !.scope = "container"]
  /\ held' = {"Container"}
  /\ last' = "Container"
  /\ UNCHANGED <<astray, op, patch>>

\* The chain goes on from one scope to another.
Chained(scope, next) ==
  /\ Building /\ scope \in held
  /\ held' = held \cup {next}
  /\ last' = next
  /\ astray' = (astray \/ scope # last)
  /\ op' = NoOp
  /\ UNCHANGED patch

In(scope, path) ==
  /\ scope \in Navigable
  /\ Chained(scope, scope)
  /\ draft' = [draft EXCEPT !.path = path]

InOrCreate(scope, path) ==
  /\ scope \in Navigable
  /\ Chained(scope, CASE scope = "Target"    -> "Writing"
                    [] scope = "Container" -> "ContainerWriting"
                    [] OTHER               -> scope)
  /\ draft' = [draft EXCEPT !.path = path, !.create = TRUE]

Skip(scope) ==
  /\ scope \in Skippable
  /\ Chained(scope, "Tolerant")
  /\ draft' = [draft EXCEPT !.skip = TRUE]

-----------------------------------------------------------------------------
(* The operations.                                                         *)

\* The targets that are an append, as Target finds them: a type assertion to
\* Selector passes over a pointer to one.
IsAppend(s) == s.pb # NoPart /\ s.pb.arm = "append"
HasAppend   == \E s \in Range(draft.targets) : s.type = "Selector" /\ IsAppend(s)

\* Mutant: a move is taken for an operation that cannot grow a list.
RejectAppendOnMoves(kind)  == kind \notin {"insert", "copy"} /\ HasAppend

RejectAppend(kind) == kind \notin {"insert", "move", "copy"} /\ HasAppend

\* The draft's error after rejectAppend: the first stays.
ErrorAt(kind) ==
  CASE draft.err # "ok"   -> draft.err
    [] RejectAppend(kind) -> "IllegalSelector"
    [] OTHER              -> "ok"

TargetParts == [i \in DOMAIN draft.targets |-> SelectorOf(draft.targets[i])]

EntryOf(operation) ==
  [scope |-> draft.scope, path |-> PathOf(draft.path).pb, targets |-> Pbs(TargetParts),
   skip |-> draft.skip, create |-> draft.create, op |-> operation]

\* An operation with the parts it is given: their errors come first, then the
\* draft's, the path's and the selectors'.
End(scope, parts, operation) ==
  /\ Building /\ scope \in held
  /\ draft' = [draft EXCEPT !.err = ErrorAt(operation.kind)]
  /\ op' =
       [pb     |-> EntryOf(operation),
        err    |-> FirstFault(Faults(parts) \o <<ErrorAt(operation.kind), PathOf(draft.path).err>> \o Faults(TargetParts)),
        spoilt |-> draft.err # "ok"]
  /\ astray' = (astray \/ scope # last)
  /\ UNCHANGED <<held, last, patch>>

Drop(scope) == scope \in Writers /\ End(scope, <<>>, [kind |-> "remove"])

Exists(scope, want) ==
  scope \in Assertive /\ End(scope, <<>>, [kind |-> "test", want |-> "exists", exists |-> want])

Test(scope, v) ==
  scope \in Assertive /\ End(scope, <<ValueOf(v)>>, [kind |-> "test", want |-> "value", value |-> v.pb])

Write(scope, kind, v) ==
  scope \in Writers /\ End(scope, <<ValueOf(v)>>, [kind |-> kind, value |-> v.pb])

Relocate(scope, kind, from) ==
  /\ scope \in Relocatory
  /\ End(scope, <<from>>, [kind |-> kind] @@ (IF from.pb = NoPart THEN [origin |-> NoPart] ELSE from.pb))

\* delta: the operations of a nest, or of New; the first that is broken breaks it.
Delta(inner) == Joined(inner, Pbs(inner))

Nest(scope, inner) ==
  scope \in Writers /\ End(scope, <<Delta(inner)>>, [kind |-> "nest", delta |-> Delta(inner).pb])

Answer(given, type, code) ==
  /\ Building /\ op # NoOp
  /\ patch' = Joined(<<Delta(given), Broken(code, NoPart)>>, [message_type |-> type, delta |-> Delta(given).pb])
  /\ UNCHANGED <<draft, held, last, astray, op>>

\* New wants the name of a type; NewUntyped takes none.
New(name, given) == Answer(given, <<name>>, IF name = Blank THEN "MessageTypeMismatch" ELSE "ok")
NewUntyped(given) == Answer(given, <<>>, "ok")

Finished == ~Building /\ UNCHANGED bvars

Calls(scope) ==
  \/ \E p \in Paths : In(scope, p) \/ InOrCreate(scope, p)
  \/ Skip(scope)
  \/ Drop(scope)
  \/ \E want \in BOOLEAN : Exists(scope, want)
  \/ \E v \in Values : Test(scope, v) \/ Write(scope, "insert", v) \/ Write(scope, "assign", v)
  \/ \E from \in Locations : Relocate(scope, "move", from) \/ Relocate(scope, "copy", from)
  \/ \E others \in Ops : Nest(scope, others)

Next ==
  \/ \E sels \in Selectors : Target(sels)
  \/ Container
  \/ \E scope \in held : Calls(scope)
  \/ \E others \in Ops \cup {<<>>}, name \in TypeNames :
       New(name, <<op>> \o others) \/ NewUntyped(others \o <<op>>)
  \/ Finished

Spec == Init /\ [][Next]_bvars

-----------------------------------------------------------------------------
(* Properties.                                                             *)

Answered == ~Building

\* The rules of Validate the document breaks, or would break if it had been made.
RulesBroken == UNION {EntryFaults(e) : e \in Range(patch.pb.delta)}

\* What a part that is a zero value of its type gives rise to.
OfZeroValues == {"MissingField", "MissingOneof"}

\* The document is one New has made.
Made == Answered /\ patch.err = "ok"

\* The ways around what New's comment calls impossible to express: the zero value of
\* an exported type; the limits of the reader, which New knows nothing of; a scope
\* that is kept and used after the chain has gone on; and an append by pointer.
WaysAround ==
  OfZeroValues \cup {"TooDeep"}
  \cup (IF astray THEN {"TestNotStrict"} ELSE {})
  \cup (IF \E s \in Range(draft.targets) : s.type = "*Selector" /\ IsAppend(s) THEN {"IllegalSelector"} ELSE {})

\* A caller who goes none of the ways around gets from New only what Validate
\* accepts: no error of a part is lost on the way to the document.
MakesOnlyValid == Made => RulesBroken \subseteq WaysAround

\* What New refuses, Validate would have, for the same reason; but an append that a
\* scope was once refused for stays an error of the scope.
RefusesOnlyInvalid ==
  Answered /\ patch.err # "ok" =>
    \/ patch.err \in RulesBroken
    \/ patch.err \in OfZeroValues /\ RulesBroken \cap OfZeroValues # {}
    \/ patch.err = "MessageTypeMismatch" /\ patch.pb.message_type = <<Blank>>
    \/ op.spoilt

=============================================================================
