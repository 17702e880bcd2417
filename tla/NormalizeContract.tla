-------------------------- MODULE NormalizeContract --------------------------
(***************************************************************************)
(* Normalize against the engine: a document and what Normalize makes of it *)
(* are applied to the same message, one after the other (docs/normalize.md,*)
(* What it guarantees).                                                    *)
(***************************************************************************)
EXTENDS Normalize

CONSTANTS NoSlot, AppendSlot, Conflicting, Synthetic, Targets, MessageType

VARIABLES
  target,
  draft1, stack1, outcome1, err1, returned1,   (* given, applied. *)
  draft2, stack2, outcome2, err2, returned2    (* out, applied.   *)

engine1 == <<draft1, stack1, outcome1, err1, returned1>>
engine2 == <<draft2, stack2, outcome2, err2, returned2>>

Plain == INSTANCE PatchProto WITH
  Patches <- Documents, patch <- given,
  draft <- draft1, stack <- stack1, outcome <- outcome1, err <- err1, returned <- returned1

Rewritten == INSTANCE PatchProto WITH
  Patches <- Documents, patch <- out,
  draft <- draft2, stack <- stack2, outcome <- outcome2, err <- err2, returned <- returned2

Over(outcome) == outcome \in {"ok", "failed"}

CInit == NInit /\ Plain!Init /\ Rewritten!Init

CNext ==
  \/ Normalizing /\ UNCHANGED <<target, engine1, engine2>>
  \/ status = "ok" /\ ~Over(outcome1) /\ Plain!Next /\ UNCHANGED <<nvars, engine2>>
  \/ status = "ok" /\ Over(outcome1) /\ ~Over(outcome2) /\ Rewritten!Next /\ UNCHANGED <<nvars, engine1>>
  \/ (status = "refused" \/ Over(outcome2)) /\ UNCHANGED <<nvars, target, engine1, engine2>>

CSpec == CInit /\ [][CNext]_<<nvars, target, engine1, engine2>>

-----------------------------------------------------------------------------
(* Properties.                                                             *)

\* A document is refused if what Normalize makes of it is, and has the same value
\* if it is not (docs/normalize.md, the table).
SameMeaning ==
  Over(outcome1) /\ Over(outcome2) => outcome1 = outcome2 /\ returned1 = returned2

\* An entry sets a member of a oneof, and another changes a list that lies in
\* another member of it, so that the first decides whether the second reaches
\* its list.  Neither path is a prefix of the other, and Normalize exchanges them.
SetsSibling(site, path) ==
  \E i \in DOMAIN path :
    /\ Len(site) = i /\ SubSeq(site, 1, i - 1) = SubSeq(path, 1, i - 1)
    /\ path[i].arm = "field" /\ path[i].field \in Field
    /\ site[i].arm = "field" /\ site[i].field \in Siblings(path[i].field)

OneofCrossed(delta) ==
  \E j, h \in DOMAIN delta :
    ChangesLength(delta[j]) /\ \E site \in Sites(delta[h]) : SetsSibling(site, delta[j].path)

SameMeaningButOneofs == SameMeaning \/ OneofCrossed(given.delta)

=============================================================================
