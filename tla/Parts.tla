-------------------------------- MODULE Parts --------------------------------
(***************************************************************************)
(* The rules of what an entry is made of: keys, selectors, sources and     *)
(* literals that are incomplete (patch/validate.go, from validateLocation  *)
(* on), and how deep they nest (patch/limits.go).  Validate has the rules  *)
(* of whole entries.                                                       *)
(*                                                                         *)
(* A message that is not there is NoPart, and one whose oneof is not set   *)
(* has the arm "unset".  A field is the identifiers it carries,            *)
(*   [arm |-> "field", ids |-> a function on a subset of Identifier],      *)
(* and a message literal the fields it lists,                              *)
(*   [arm |-> "m", fields |-> a sequence of [key, value]].                 *)
(***************************************************************************)
EXTENDS Validate

CONSTANTS
  NoPart,  (* A nil pointer.                       *)
  Blank    (* The empty name, and field number 0.  *)

Identifier == {"name", "json_name", "number"}

Unset == [arm |-> "unset"]

FieldFault(f) ==
  CASE f = NoPart                            -> "MissingField"
    [] f.ids = <<>> \/ Blank \in Range(f.ids) -> "FieldNoIdentifier"
    [] OTHER                                 -> "ok"

KeyPartFault(k) ==
  CASE k = NoPart        -> "MissingField"
    [] k = Unset         -> "MissingOneof"
    [] k.arm = "field"   -> FieldFault(k)
    [] OTHER             -> "ok"

SelectorPartFault(s) ==
  CASE s = NoPart                                    -> "MissingField"
    [] s = Unset                                     -> "MissingOneof"
    [] s.arm = "key"                                 -> KeyPartFault(s.key)
    [] s.arm = "oneof_member" /\ s.name = Blank      -> "FieldNoIdentifier"
    [] OTHER                                         -> "ok"

PathFaults(path) == {KeyPartFault(k) : k \in Range(path)}

LocationFaults(op) ==
  IF op.origin = NoPart THEN {"MissingField"}
  ELSE {KeyPartFault(op.key)} \cup (IF op.origin = "path" THEN PathFaults(op.path) ELSE {})

\* validateValue: a message literal's fields, a list's elements, a map's entries.
RECURSIVE ValueFaults(_)
ValueFaults(v) ==
  CASE v = NoPart      -> {"MissingField"}
    [] v = Unset       -> {"MissingOneof"}
    [] v.arm = "l"     -> UNION {ValueFaults(u) : u \in Range(v.items)}
    [] v.arm = "m"     -> UNION {IF f = NoPart THEN {"MissingField"} ELSE {FieldFault(f.key)} \cup ValueFaults(f.value) :
                                   f \in Range(v.fields)}
    [] v.arm = "map"   -> UNION {IF e = NoPart \/ e.key = NoPart THEN {"MissingField"} ELSE ValueFaults(e.value) :
                                   e \in Range(v.entries)}
    [] OTHER           -> {}

\* checkValueDepth: a value counts one, and so does one that is not there.
Inside(v) ==
  CASE v = NoPart    -> {}
    [] v.arm = "l"   -> Range(v.items)
    [] v.arm = "m"   -> {IF f = NoPart THEN NoPart ELSE f.value : f \in Range(v.fields)}
    [] v.arm = "map" -> {IF e = NoPart THEN NoPart ELSE e.value : e \in Range(v.entries)}
    [] OTHER         -> {}

RECURSIVE DepthOf(_)
DepthOf(v) == 1 + Max({0} \cup {DepthOf(u) : u \in Inside(v)})

\* checkDeltaDepth: how many nests an entry has one in another.
RECURSIVE NestingOf(_)
NestingOf(e) ==
  IF e = NoPart \/ e.op.kind # "nest" THEN 0
  ELSE 1 + Max({0} \cup {NestingOf(inner) : inner \in Range(e.op.delta)})

DepthFaults(e) ==
  IF (HasLiteral(e.op) /\ DepthOf(e.op.value) > ValueDepth) \/ NestingOf(e) > NestDepth THEN {"TooDeep"} ELSE {}

\* checkDepth and validateEntry, with all they call: every rule a part of the entry
\* breaks.
RECURSIVE EntryFaults(_)
PartFaults(e) ==
  PathFaults(e.path) \cup {SelectorPartFault(s) : s \in Range(e.targets)} \cup DepthFaults(e)
  \cup CASE HasLiteral(e.op)               -> ValueFaults(e.op.value)
         [] e.op.kind \in {"move", "copy"} -> LocationFaults(e.op)
         [] e.op.kind = "nest"             -> UNION {EntryFaults(inner) : inner \in Range(e.op.delta)}
         [] OTHER                          -> {}

EntryFaults(e) ==
  IF e = NoPart THEN {"MissingField"}
  ELSE ({EntryFault([e EXCEPT !.targets = [i \in DOMAIN @ |-> IF @[i] = NoPart THEN Unset ELSE @[i]]])} \cup PartFaults(e)) \ {"ok"}

=============================================================================
