------------------------------- MODULE MCForms -------------------------------
(***************************************************************************)
(* Constructors for what a document is made of: keys, selectors, literals, *)
(* operations and entries, for the instances TLC checks.                   *)
(***************************************************************************)
EXTENDS Sequences

I(i) == [arm |-> "index", index |-> i]
K(v) == [arm |-> "map_key", key |-> v]

Sel(key)    == [arm |-> "key", key |-> key]
Span(v, w)  == [arm |-> "range", begin |-> v, end |-> w]
AtEnd       == [arm |-> "append"]
Every       == [arm |-> "every_entry"]
Member(v)   == [arm |-> "oneof_member", name |-> v]

L(s)        == [arm |-> "l", items |-> s]
Map(s)      == [arm |-> "map", entries |-> s]
Pair(v, u)  == [key |-> v, value |-> u]

Remove      == [kind |-> "remove"]
TestExists(v) == [kind |-> "test", want |-> "exists", exists |-> v]
TestValue(v)  == [kind |-> "test", want |-> "value", value |-> v]
Insert(v)   == [kind |-> "insert", value |-> v]
Assign(v)   == [kind |-> "assign", value |-> v]
Move(p, key) == [kind |-> "move", origin |-> "path", path |-> p, key |-> key]
MoveHere(key) == [kind |-> "move", origin |-> "same_container", key |-> key]
Copy(p, key) == [kind |-> "copy", origin |-> "path", path |-> p, key |-> key]
CopyHere(key) == [kind |-> "copy", origin |-> "same_container", key |-> key]
Nest(d)     == [kind |-> "nest", delta |-> d]

\* An entry on targets, and one on the container itself.
On(p, ts, v) ==
  [path |-> p, create |-> FALSE, skip |-> FALSE, scope |-> "targets", targets |-> ts, op |-> v]
Whole(p, v) ==
  [path |-> p, create |-> FALSE, skip |-> FALSE, scope |-> "container", targets |-> <<>>, op |-> v]
Creating(v) == [v EXCEPT !.create = TRUE]
Skipping(v) == [v EXCEPT !.skip = TRUE]

=============================================================================
