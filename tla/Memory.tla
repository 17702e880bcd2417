------------------------------- MODULE Memory -------------------------------
(***************************************************************************)
(* Go values as patchjson and patchstruct see them: a tree of values is a  *)
(* graph of blocks of memory that refer to each other.                     *)
(*                                                                         *)
(* A memory is a function from the identities of blocks to what they hold. *)
(* A block is the entries of a map, the array behind a slice, or what a    *)
(* pointer points to, as a fragment (module Tree) whose leaves are scalars,*)
(* Nil, or references to other blocks:                                     *)
(*   [kind |-> "map", to |-> block]                                        *)
(*   [kind |-> "ptr", to |-> block]                                        *)
(*   [kind |-> "slice", to |-> block, len |-> n]  a slice header; the      *)
(*      capacity is what the block has room for, and every slice of the    *)
(*      engines starts at the first element of its array                   *)
(* A struct has no block of its own: its fields are part of its holder.    *)
(*                                                                         *)
(* In a tree, a map, a slice and a pointer that is not nil are marks with  *)
(* what they hold below them, what a pointer points to under Pointee.      *)
(*                                                                         *)
(* What an operation leaves is given as the set of its outcomes, which has *)
(* one element: TLC computes it once, however often it is spoken of.       *)
(***************************************************************************)
EXTENDS Tree

CONSTANTS
  Scalar,    (* What a leaf holds when it is not a reference, *)
  Nil,       (* and a nil pointer, map or slice.              *)
  MapMark, SliceMark, PtrMark, (* Marks of a tree.            *)
  Pointee,   (* The segment from a pointer to its pointee.    *)
  Alike,     (* Scalar -> one of those that are equal to it.  *)
  NoSlot, AppendSlot (* Locations that are no segment: none,  *)
             (* and behind the last element.                  *)

ASSUME MarksAssumption ==
  /\ Cardinality({Nil, MapMark, SliceMark, PtrMark}) = 4
  /\ {Nil, MapMark, SliceMark, PtrMark} \cap Scalar = {}

IsRef(v) == v \notin Scalar \cup {Nil, MapMark, SliceMark, PtrMark}

Leaf(v) == [p \in {<<>>} |-> v]

MarkOf(ref) == CASE ref.kind = "map"   -> MapMark
                 [] ref.kind = "slice" -> SliceMark
                 [] ref.kind = "ptr"   -> PtrMark

\* The same tree, up to scalars that are equal.
SameTree(t, u) ==
  /\ DOMAIN t = DOMAIN u
  /\ \A p \in DOMAIN t : t[p] = u[p] \/ ({t[p], u[p]} \subseteq Scalar /\ Alike[t[p]] = Alike[u[p]])

\* The first of a sequence of codes that is an error.
FirstFault(codes) ==
  LET bad == {i \in DOMAIN codes : codes[i] # "ok"} IN IF bad = {} THEN "ok" ELSE codes[Min(bad)]

-----------------------------------------------------------------------------
(* Reading a tree out of memory.  A slice shows only its first len.        *)

\* What a reference shows of its block, below its own position.
Shown(h, ref) ==
  LET block == h[ref.to] IN
  IF ref.kind = "slice" THEN RestrictDomain(block, LAMBDA r : Head(r) \in 1 .. ref.len) ELSE block

Way(ref) == IF ref.kind = "ptr" THEN <<Pointee>> ELSE <<>>

\* v with what its references show in place of them, and so on until there are none.
Opened(h, v) ==
  LET refs   == {p \in DOMAIN v : IsRef(v[p])}
      way(p) == p \o Way(v[p])
      below  == UNION {{way(p) \o r : r \in DOMAIN Shown(h, v[p])} : p \in refs}
  IN  [p \in DOMAIN v |-> IF p \in refs THEN MarkOf(v[p]) ELSE v[p]]
      @@ [q \in below |-> LET p == CHOOSE p \in refs : IsPrefix(way(p), q)
                          IN  h[v[p].to][Rest(way(p), q)]]

RECURSIVE Read(_, _)

Read(h, v) ==
  IF \A p \in DOMAIN v : ~IsRef(v[p]) THEN v
  ELSE CHOOSE t \in {Read(h, w) : w \in {Opened(h, v)}} : TRUE

\* The blocks a value reaches, once for every reference to them.
RECURSIVE Reached(_, _)

ReachedBy(h, ref) == <<ref.to>> \o Reached(h, Shown(h, ref))

Reached(h, v) ==
  LET refs == SetToSeq({p \in DOMAIN v : IsRef(v[p])})
  IN  FlattenSeq([i \in DOMAIN refs |-> ReachedBy(h, v[refs[i]])])

-----------------------------------------------------------------------------
(* Putting a tree into memory, in blocks of its own.                       *)

Marked(t) == {p \in DOMAIN t : t[p] \in {MapMark, SliceMark, PtrMark}}

\* The positions of t that lie in the same block as p: none behind a mark.
Inline(t, p) ==
  IF p \in Marked(t) THEN {p}
  ELSE {q \in Under(t, p) : \A r \in Marked(t) : IsPrefix(p, r) => ~IsStrictPrefix(r, q)}

RefAt(t, p, stamp) ==
  CASE t[p] = MapMark   -> [kind |-> "map", to |-> <<stamp, p>>]
    [] t[p] = PtrMark   -> [kind |-> "ptr", to |-> <<stamp, p>>]
    [] t[p] = SliceMark -> [kind |-> "slice", to |-> <<stamp, p>>, len |-> Length(t, p)]
    [] OTHER            -> t[p]

BlockAt(t, p, stamp) ==
  LET from == IF t[p] = PtrMark THEN Append(p, Pointee) ELSE p
      held == UNION {Inline(t, Append(p, s)) : s \in Places(t, p)}
  IN  [r \in {Rest(from, q) : q \in held} |-> RefAt(t, from \o r, stamp)]

\* The tree t as a value and the blocks it needs.
Load(t, stamp) ==
  [val    |-> [r \in Inline(t, <<>>) |-> RefAt(t, r, stamp)],
   blocks |-> [b \in {<<stamp, p>> : p \in Marked(t)} |-> BlockAt(t, b[2], stamp)]]

\* A stamp no block of h carries.
Fresh(h) == 1 + Max({b[1] : b \in DOMAIN h})

\* The tree t as a value, its blocks among those of h; and one such value for
\* each tree of a sequence.
Loaded(h, t) == {[mem |-> new.blocks @@ h, val |-> new.val] : new \in {Load(t, Fresh(h))}}

LoadedAll(h, ts) ==
  FoldLeft(LAMBDA R, t : UNION {{[mem |-> in.mem, vals |-> Append(r.vals, in.val)] :
                                   in \in Loaded(r.mem, t)} : r \in R},
           {[mem |-> h, vals |-> <<>>]}, ts)

\* h with the value v, references and all, at position p of block b; and with the
\* tree t there.
Put(h, b, p, v) == [h EXCEPT ![b] = Graft(@, p, v)]

Store(h, b, p, t) == {Put(in.mem, b, p, in.val) : in \in Loaded(h, t)}

-----------------------------------------------------------------------------
(* Slices.                                                                 *)

LenOf(s) == IF IsRef(s) THEN s.len ELSE 0

Held(h, s) == [i \in 1 .. LenOf(s) |-> ValueAt(h[s.to], <<i>>)]

Header(b, n) == [kind |-> "slice", to |-> b, len |-> n]

\* Elements n + 1 and on overwritten with vs.
PutElementsAfter(d, n, vs) ==
  FoldLeft(LAMBDA r, i : Graft(r, <<n + i>>, vs[i]), d, [i \in DOMAIN vs |-> i])

\* A new array that holds the values vs, and the header of it.
NewArray(h, vs) ==
  LET b == <<Fresh(h), <<>>>> IN [mem |-> (b :> Collection(vs)) @@ h, ref |-> Header(b, Len(vs))]

\* append(s, vs...): in place as long as there is room, and otherwise in a new
\* array, of twice the size if that is enough (growslice, for these sizes).
Grown(h, s, vs, zero) ==
  LET room == IF IsRef(s) THEN Length(h[s.to], <<>>) ELSE 0
      need == LenOf(s) + Len(vs)
      new  == NewArray(h, Held(h, s) \o vs \o [i \in 1 .. Max({need, 2 * room}) - need |-> zero])
  IN  IF vs = <<>> THEN [mem |-> h, ref |-> s]
      ELSE IF need <= room
      THEN [mem |-> [h EXCEPT ![s.to] = PutElementsAfter(@, LenOf(s), vs)],
            ref |-> Header(s.to, need)]
      ELSE [new EXCEPT !.ref.len = need]

\* append(s[:i], s[i+1:]...), with i one-based here: the elements behind i move
\* up, in place.
Closed(h, s, i) ==
  [mem |-> [h EXCEPT ![s.to] = PutElementsAfter(@, i - 1, SubSeq(Held(h, s), i + 1, s.len))],
   ref |-> Header(s.to, s.len - 1)]

=============================================================================
