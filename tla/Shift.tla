-------------------------------- MODULE Shift --------------------------------
(***************************************************************************)
(* What one entry does to the indices of a list, and how an index is       *)
(* carried back over it (listOp, patch/normalize.go).                      *)
(*                                                                         *)
(* A change o of a list's length is a record                               *)
(*   insert  does it insert before the positions, or remove them           *)
(*   idx     the positions, ascending, in the list as the change finds it  *)
(* Indices are 0-based and not negative.  The code computes in int64; an   *)
(* index at the end of its range names no element of any list before or    *)
(* after it is shifted, so Int is the same arithmetic for any list.        *)
(***************************************************************************)
EXTENDS Integers, Sequences, FiniteSets, SequencesExt

\* sortedCopy.
Sorted(s) ==
  LET order == CHOOSE p \in Bijection(DOMAIN s, DOMAIN s) :
                 \A i, j \in DOMAIN s : i < j => s[p[i]] <= s[p[j]]
  IN  [j \in DOMAIN s |-> s[order[j]]]

\* The answer for an element that o brings into existence: it has no index in
\* the list before o.  shiftBack returns (0, false) for it.
Created == -1

\* How many of the positions are at or before p.
AtOrBefore(o, p) == Cardinality({j \in DOMAIN o.idx : o.idx[j] <= p})

\* Each removal at or below the result pushes the original position one higher.
\* Mutant: a removal at the result's own position overlooked.
BackOverRemoveStrict(o, i) ==
  LET back[n \in 0 .. Len(o.idx)] ==
        IF n = 0 THEN i ELSE IF back[n - 1] <= o.idx[n] THEN back[n - 1] ELSE back[n - 1] + 1
  IN  back[Len(o.idx)]

BackOverRemove(o, i) ==
  LET back[n \in 0 .. Len(o.idx)] ==
        IF n = 0 THEN i ELSE IF back[n - 1] < o.idx[n] THEN back[n - 1] ELSE back[n - 1] + 1
  IN  back[Len(o.idx)]

\* An insert takes the element at p to p + AtOrBefore(o, p).
BackOverInsert(o, i) ==
  LET counts == {c \in 0 .. Len(o.idx) : AtOrBefore(o, i - c) = c}
  IN  IF counts = {} THEN Created ELSE i - Min(counts)

ShiftBack(o, i) == IF o.insert THEN BackOverInsert(o, i) ELSE BackOverRemove(o, i)

\* Does o name what it named, once other has run in front of it at js?
\* Mutant: the exception for two inserts extended to a remove.
LeavesLoose(o, other, js) == js = {} \/ Min(js) >= Last(o.idx)

Leaves(o, other, js) ==
  \/ js = {}
  \/ Min(js) > Last(o.idx)
  \/ o.insert /\ other.insert /\ Min(js) = Last(o.idx)

=============================================================================
