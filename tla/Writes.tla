------------------------------- MODULE Writes -------------------------------
(***************************************************************************)
(* patch.Writes: the fields a document may modify, read off the document   *)
(* and the message type alone (patch/writes.go), and patch.ReadOnly, the   *)
(* policy a caller checks a document against before it applies it          *)
(* (patch/readonly.go).                                                    *)
(*                                                                         *)
(* A field path is a sequence of fields: indices and map keys are elided.  *)
(* A container the scan has reached is                                     *)
(*   [path |-> the field path to it, kind |-> "message", "list" or "map"]  *)
(* and a write is                                                          *)
(*   [path |-> a field path, materializes |-> only brought into being?]    *)
(* A scan answers [fault |-> an error code or "ok", writes |-> a sequence] *)
(* and the scan of a nest is the scan of its delta, which is why ScanDelta *)
(* is recursive.                                                           *)
(***************************************************************************)
EXTENDS Validate, Address

\* Overlaps: a message is its fields, and replacing it replaces them.
Overlaps(p, r) == IsPrefix(p, r) \/ IsPrefix(r, p)

\* Write.Affects.  What a write creates held nothing before.
Affects(w, p) == IF w.materializes THEN IsPrefix(p, w.path) ELSE Overlaps(w.path, p)

Change(p)   == [path |-> p, materializes |-> FALSE]
Creation(p) == [path |-> p, materializes |-> TRUE]

Reports(ws)   == [fault |-> "ok", writes |-> ws]
Refuses(code) == [fault |-> code, writes |-> <<>>]

Then(r, s) == IF r.fault # "ok" THEN r ELSE [s EXCEPT !.writes = r.writes \o @]

-----------------------------------------------------------------------------
(* The way to a container.  It mirrors navigate without the message.       *)

RootPlace == [path |-> <<>>, kind |-> "message"]

ArmTaken(c) == CASE c.kind = "message" -> "field"
                 [] c.kind = "list"    -> "index"
                 [] c.kind = "map"     -> "map_key"

\* messageUnder, and enter: the containers a list or a map, and a field, holds.
HoldsMessages(c)   == Type[Last(c.path)] = Msg
SingularMessage(f) == Card[f] = "singular" /\ Type[f] = Msg

\* Mutant: a list or a map field taken for none.
OpensMessages(f) == SingularMessage(f)

Opens(f) == Card[f] # "singular" \/ SingularMessage(f)

Within(c) == [c EXCEPT !.kind = "message"]
Opened(p, f) ==
  [path |-> Append(p, f), kind |-> IF Card[f] = "singular" THEN "message" ELSE Card[f]]

SegmentFault(c, k) ==
  CASE k.arm # ArmTaken(c)     -> "PathNotReached"
    [] c.kind # "message"      -> IF HoldsMessages(c) THEN "ok" ELSE "PathNotReached"
    [] KeyFault(k) # "ok"      -> KeyFault(k)
    [] k.field \notin Field    -> "PathNotReached"
    [] ~Opens(k.field)         -> "PathNotReached"
    [] OTHER                   -> "ok"

Segment(c, k) == IF c.kind = "message" THEN Opened(c.path, k.field) ELSE Within(c)

Walk(from, path) ==
  FoldLeft(LAMBDA r, k : IF r.fault # "ok" THEN r
                         ELSE IF SegmentFault(r.at, k) # "ok"
                              THEN [r EXCEPT !.fault = SegmentFault(r.at, k)]
                              ELSE [r EXCEPT !.at = Segment(r.at, k)],
           [at |-> from, fault |-> "ok"], path)

-----------------------------------------------------------------------------
(* What a key, and a selector, names: the field paths below the container's *)
(* own, which are <<>> for a place in a list or a map.                     *)

AddressFault(c, k) ==
  CASE k.arm # ArmTaken(c)  -> "IllegalArm"
    [] c.kind # "message"   -> "ok"
    [] OTHER                -> KeyFault(k)

AddressFields(c, k) ==
  CASE c.kind # "message"  -> <<<<>>>>
    [] k.field \in Field   -> <<<<k.field>>>>
    [] OTHER               -> <<>>

\* Any member may be the one that is set.
MemberFields(o) ==
  LET members == SetToSeq({f \in Field : OneofOf[f] = o /\ o \in Oneof})
  IN  [i \in DOMAIN members |-> <<members[i]>>]

ScanSelectorFault(c, sel) ==
  CASE sel.arm = "key"                 -> AddressFault(c, sel.key)
    [] sel.arm \in {"range", "append"} -> IF c.kind = "list" THEN "ok" ELSE "IllegalArm"
    [] sel.arm = "every_entry"         -> IF c.kind = "map" THEN "ok" ELSE "IllegalArm"
    [] sel.arm = "oneof_member"        -> IF c.kind = "message" /\ sel.name # Synthetic
                                          THEN "ok" ELSE "IllegalArm"

ScanSelector(c, sel) ==
  CASE sel.arm = "key"          -> AddressFields(c, sel.key)
    [] sel.arm = "oneof_member" -> MemberFields(sel.name)
    [] OTHER                    -> <<<<>>>>

\* location: where a move takes from, which it empties.
\* Mutant: a move that is taken for a copy.
SourceKept(base, cur, from) == Reports(<<>>)

SourceCleared(base, cur, from) ==
  LET walk == IF from.origin = "path" THEN Walk(base, from.path) ELSE [at |-> cur, fault |-> "ok"]
      fs   == AddressFields(walk.at, from.key)
  IN  CASE walk.fault # "ok"                         -> Refuses(walk.fault)
        [] AddressFault(walk.at, from.key) # "ok"    -> Refuses(AddressFault(walk.at, from.key))
        [] OTHER -> Reports([i \in DOMAIN fs |-> Change(walk.at.path \o fs[i])])

-----------------------------------------------------------------------------
(* scan.entry and scan.delta.                                              *)

RECURSIVE ScanDelta(_, _)

\* inner: the container a nest goes into.
InnerFault(c, f) ==
  IF IF c.kind = "message" THEN Opens(f[1]) ELSE HoldsMessages(c) THEN "ok" ELSE "NotAContainer"

InnerPlace(c, f) == IF c.kind = "message" THEN Opened(c.path, f[1]) ELSE Within(c)

\* A target of a nest.  An unset singular message comes into being just by being
\* gone into; an empty list or map cannot be told from an unset one.
ScanNested(c, f, delta) ==
  Then(IF c.kind = "message" /\ SingularMessage(f[1])
       THEN Reports(<<Creation(c.path \o f)>>) ELSE Reports(<<>>),
       IF InnerFault(c, f) # "ok" THEN Refuses(InnerFault(c, f)) ELSE ScanDelta(InnerPlace(c, f), delta))

ScanTarget(c, sel, op) ==
  IF ScanSelectorFault(c, sel) # "ok" THEN Refuses(ScanSelectorFault(c, sel))
  ELSE FoldLeft(LAMBDA r, f : Then(r, IF op.kind = "nest"
                                      THEN ScanNested(c, f, op.delta)
                                      ELSE Reports(<<Change(c.path \o f)>>)),
                Reports(<<>>), ScanSelector(c, sel))

ScanScope(c, e) ==
  CASE e.scope = "container" /\ e.op.kind = "nest" -> ScanDelta(c, e.op.delta)
    [] e.scope = "container"                       -> Reports(<<Change(c.path)>>)
    [] OTHER -> FoldLeft(LAMBDA r, sel : Then(r, ScanTarget(c, sel, e.op)), Reports(<<>>), e.targets)

ScanEntry(base, e) ==
  LET walk == Walk(base, e.path)
      created == IF e.create THEN Reports(<<Creation(walk.at.path)>>) ELSE Reports(<<>>)
      cleared == IF e.op.kind = "move" THEN SourceCleared(base, walk.at, e.op) ELSE Reports(<<>>)
  IN  CASE e.op.kind = "test"  -> Reports(<<>>)
        [] walk.fault # "ok"   -> Refuses(walk.fault)
        [] OTHER               -> Then(Then(created, cleared), ScanScope(walk.at, e))

ScanDelta(base, delta) ==
  FoldLeft(LAMBDA r, e : Then(r, ScanEntry(base, e)), Reports(<<>>), delta)

\* Writes of a document that ValidateWith accepts and that is for this type.
Writes(p) == ScanDelta(RootPlace, p.delta)

-----------------------------------------------------------------------------
(* A policy is a set of field paths.                                       *)

\* ParseFieldPath: a path goes on past a field only if that field holds messages.
ParseFault(names) ==
  FirstFault([i \in DOMAIN names |->
    CASE i > 1 /\ names[i - 1] \in Field /\ Type[names[i - 1]] # Msg -> "NotAContainer"
      [] names[i] \notin Field             -> "VacantTarget"
      [] OTHER                             -> "ok"])

\* ReadOnly.Check, of a document that validates.
CheckFault(fields, p) ==
  LET scan == Writes(p) IN
  CASE scan.fault # "ok" -> scan.fault
    [] \E w \in Range(scan.writes), f \in fields : Affects(w, f) -> "ReadOnly"
    [] OTHER -> "ok"

=============================================================================
