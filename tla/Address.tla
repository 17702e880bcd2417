------------------------------ MODULE Address ------------------------------
(***************************************************************************)
(* Keys, selectors and the positions they name in a document d             *)
(* (patchproto/cont.go).                                                   *)
(*                                                                         *)
(* A key is [arm |-> "field", field], [arm |-> "index", index] or          *)
(* [arm |-> "map_key", key].  A selector is a key, [arm |-> "key", key],   *)
(* a range, [arm |-> "range", begin, end], [arm |-> "append"],             *)
(* [arm |-> "every_entry"] or [arm |-> "oneof_member", name].              *)
(*                                                                         *)
(* A position in a container is its segment: a declared field, a 1-based   *)
(* place, a map key, AppendSlot, or a oneof, which only a test is shown.   *)
(***************************************************************************)
EXTENDS Document, Resolve

CONSTANTS
  NoSlot,      (* loc.noSlot: an address that names no position.           *)
  AppendSlot,  (* loc.appendArm: one past the last element.                *)
  Conflicting, (* A field whose identifiers disagree.                      *)
  Synthetic    (* The name of the oneof of an optional field.              *)

ASSUME SlotAssumption ==
  /\ NoSlot # AppendSlot
  /\ {NoSlot, AppendSlot} \cap (Field \cup Key \cup Oneof \cup {Unknown} \cup Int) = {}

KeyArm(c) ==
  CASE IsMessageAt(c) -> "field"
    [] IsListAt(c)    -> "index"
    [] IsMapAt(c)     -> "map_key"

\* A key that is at fault whatever the container holds (ResolveField, MapKeyFor).
KeyFault(k) ==
  CASE k.arm = "field" /\ k.field = Conflicting -> "FieldConflict"
    [] k.arm = "map_key" /\ k.key \notin Key    -> "IllegalArm"
    [] OTHER                                    -> "ok"

\* The position k names in c, or NoSlot when it names none.
Slot(d, c, k) ==
  CASE k.arm = "field"   -> IF k.field \in Field THEN k.field ELSE NoSlot
    [] k.arm = "index"   -> LET i == NormalizeIndex(k.index, Length(d, c))
                            IN  IF i = Vacant THEN NoSlot ELSE i + 1
    [] k.arm = "map_key" -> k.key

\* probe: does the position hold anything?
Present(d, c, s) == s \notin {NoSlot, AppendSlot} /\ Has(d, Append(c, s))

\* Is the position a list, a map or a message, rather than a scalar?
IsContainer(c, s) ==
  IF s \in Field THEN Card[s] # "singular" \/ Type[s] = Msg
                 ELSE Type[Last(c)] = Msg

-----------------------------------------------------------------------------
(* One segment of a path.                                                  *)

\* A list or a map field always is there; a message may not be.
Exists(d, c, s) == (s \in Field /\ Card[s] # "singular") \/ Has(d, Append(c, s))

\* Can a path go through k in c?  With create, through what is not there yet.
Reaches(d, c, k, create) ==
  LET s == Slot(d, c, k)
  IN  /\ s # NoSlot
      /\ IsContainer(c, s)
      /\ Exists(d, c, s) \/ (create /\ ~IsListAt(c))

DescendFault(d, c, k, create) ==
  CASE k.arm # KeyArm(c)         -> "PathNotReached"
    [] KeyFault(k) # "ok"        -> KeyFault(k)
    [] ~Reaches(d, c, k, create) -> "PathNotReached"
    [] OTHER                     -> "ok"

\* What descending into s leaves behind: only a missing container is made.
Entered(d, c, s) ==
  CASE IsMessageAt(c)                        -> Mutable(d, c, s)
    [] IsMapAt(c) /\ ~Has(d, Append(c, s))   -> Graft(d, Append(c, s), EmptyMessage)
    [] OTHER                                 -> d

-----------------------------------------------------------------------------
(* One selector, for an operation of a kind.                               *)

SelectorFault(c, sel) ==
  CASE sel.arm = "key"          -> IF sel.key.arm = KeyArm(c) THEN KeyFault(sel.key) ELSE "IllegalArm"
    [] sel.arm = "range"        -> IF IsListAt(c) THEN "ok" ELSE "IllegalArm"
    [] sel.arm = "append"       -> IF IsListAt(c) THEN "ok" ELSE "IllegalArm"
    [] sel.arm = "every_entry"  -> IF IsMapAt(c) THEN "ok" ELSE "IllegalArm"
    [] sel.arm = "oneof_member" -> IF IsMessageAt(c) /\ sel.name # Synthetic
                                   THEN "ok" ELSE "IllegalArm"

\* resolveOneof: the member that is set; if none is, the oneof itself for a
\* test and nothing for any other kind.
MemberOf(d, c, o, kind) ==
  LET set == {f \in Field : OneofOf[f] = o /\ Has(d, Append(c, f))}
  IN  IF o \notin Oneof THEN <<NoSlot>>
      ELSE IF set # {} THEN SetToSeq(set)
      ELSE IF kind = "test" THEN <<o>> ELSE <<>>

\* resolveSelector: the positions a selector names.
Named(d, c, sel, kind) ==
  CASE sel.arm = "key"          -> <<Slot(d, c, sel.key)>>
    [] sel.arm = "range"        -> LET r == NormalizeRange(sel, Length(d, c))
                                   IN  [j \in 1 .. r.end - r.begin |-> r.begin + j]
    [] sel.arm = "append"       -> <<AppendSlot>>
    [] sel.arm = "every_entry"  -> SetToSeq(Places(d, c))
    [] sel.arm = "oneof_member" -> MemberOf(d, c, sel.name, kind)

NeedsContent == {"remove", "nest"}

\* A missing target: no position at all, or an empty slot where the operation
\* needs something to be.  A test reads it instead.
Missing(d, c, s, kind) ==
  /\ kind # "test"
  /\ s = NoSlot \/ (IsMapAt(c) /\ kind \in NeedsContent /\ ~Present(d, c, s))

Kept(d, c, sel, kind) ==
  LET all == Named(d, c, sel, kind)
  IN  FlattenSeq([j \in DOMAIN all |-> IF Missing(d, c, all[j], kind) THEN <<>> ELSE <<all[j]>>])

\* loc.ident: what two positions have in common when they are the same one.
\* An address without a position has the identity of index 0.
Ident(s) == IF s = NoSlot THEN 1 ELSE s

=============================================================================
