-------------------------------- MODULE Edits --------------------------------
(***************************************************************************)
(* What the operations of the format do to a document, as changes of a     *)
(* tree: d is the document, c the position of a container in it.           *)
(***************************************************************************)
EXTENDS Memory

Array(vs) == (<<>> :> SliceMark) @@ Collection(vs)

\* d without the locations L of c; the array of c with v before the elements of
\* L; v at the location l of c.
Without(d, c, L) ==
  IF d[c] = SliceMark
  THEN LET keep == SelectSeq([i \in 1 .. Length(d, c) |-> i], LAMBDA i : i \notin L)
       IN  Graft(d, c, Array([j \in DOMAIN keep |-> ValueAt(d, Append(c, keep[j]))]))
  ELSE EraseAll(d, {Append(c, l) : l \in L})

Before(d, c, L, v) ==
  Graft(d, c, Array(
    FlattenSeq([i \in 1 .. Length(d, c) |->
                  (IF i \in L THEN <<v>> ELSE <<>>) \o <<ValueAt(d, Append(c, i))>>])
    \o (IF AppendSlot \in L THEN <<v>> ELSE <<>>)))

With(d, c, l, v) ==
  IF l = AppendSlot THEN Graft(d, c, Array(Append(Elements(d, c), v))) ELSE Graft(d, Append(c, l), v)

Everywhere(d, c, locs, v) == FoldLeft(LAMBDA x, l : With(x, c, l, v), d, locs)

=============================================================================
