-------------------------------- MODULE Tree --------------------------------
(***************************************************************************)
(* A value as a tree: a function from the positions that hold something to *)
(* what they hold.  A position is the sequence of segments that leads to   *)
(* it; a segment is a name, a key, or the 1-based place of an element.     *)
(*                                                                         *)
(* A fragment is a tree seen from one of its positions: the value that     *)
(* position holds, with <<>> its own place.                                *)
(***************************************************************************)
EXTENDS Integers, Sequences, FiniteSets, SequencesExt

\* A finite function, from sequences.
IsTree(d) ==
  /\ d = [q \in DOMAIN d |-> d[q]]
  /\ IsFiniteSet(DOMAIN d)
  /\ \A q \in DOMAIN d : q \in Seq(Range(q))

Under(d, p) == {q \in DOMAIN d : IsPrefix(p, q)}

Has(d, p) == Under(d, p) # {}

Rest(p, q) == SubSeq(q, Len(p) + 1, Len(q))

\* The value at p, as a fragment of its own.
ValueAt(d, p) == [r \in {Rest(p, q) : q \in Under(d, p)} |-> d[p \o r]]

EraseAll(d, P) == RestrictDomain(d, LAMBDA q : \A p \in P : ~IsPrefix(p, q))

Erase(d, p) == EraseAll(d, {p})

\* d with v at p, in place of what was there.
Graft(d, p, v) ==
  [q \in (DOMAIN d \ Under(d, p)) \cup {p \o r : r \in DOMAIN v} |->
     IF IsPrefix(p, q) THEN v[Rest(p, q)] ELSE d[q]]

\* The segments found directly under the container at c.
Places(d, c) == {q[Len(c) + 1] : q \in Under(d, c) \ {c}}

-----------------------------------------------------------------------------
(* Collections.                                                            *)

Length(d, c) == Cardinality(Places(d, c))

\* The list at c as the sequence of its elements, and a collection of values (a
\* sequence of elements, or a function from keys) as one fragment.
Elements(d, c) == [i \in 1 .. Length(d, c) |-> ValueAt(d, Append(c, i))]

Collection(s) ==
  [r \in UNION {{<<i>> \o x : x \in DOMAIN s[i]} : i \in DOMAIN s} |-> s[Head(r)][Tail(r)]]

PutElements(d, c, s) == Graft(d, c, Collection(s))

\* d with every position of v added under c; what else c holds stays.
Overlay(d, c, v) ==
  [q \in DOMAIN d \cup {c \o r : r \in DOMAIN v} |->
     IF IsPrefix(c, q) /\ Rest(c, q) \in DOMAIN v THEN v[Rest(c, q)] ELSE d[q]]

=============================================================================
