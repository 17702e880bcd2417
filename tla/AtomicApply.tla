---------------------------- MODULE AtomicApply ----------------------------
(***************************************************************************)
(* What a caller of Apply may rely on whatever the engine does inside      *)
(* (patchproto/apply.go, the comment on Apply; proto/patch/patch.proto,    *)
(* the paragraph on atomicity): a call either answers with a message, or   *)
(* reports an error and answers with nothing, in one step, and the message *)
(* it was called with is the caller's and stays as it was.                 *)
(***************************************************************************)
CONSTANT NoDoc

VARIABLES target, patch, outcome, err, returned

vars == <<target, patch, outcome, err, returned>>

Init ==
  /\ outcome = "called"
  /\ err = "ok"
  /\ returned = NoDoc

Answer ==
  /\ outcome = "called"
  /\ outcome' = "ok"
  /\ returned' # NoDoc
  /\ UNCHANGED <<target, patch, err>>

Reject ==
  /\ outcome = "called"
  /\ outcome' = "failed"
  /\ err' # "ok"
  /\ UNCHANGED <<target, patch, returned>>

Next == Answer \/ Reject

Spec == Init /\ [][Next]_vars

=============================================================================
