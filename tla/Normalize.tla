------------------------------ MODULE Normalize ------------------------------
(***************************************************************************)
(* patch.Normalize: the entries of a delta reordered so that those that    *)
(* change a list's length come later, and the indices of the entries that  *)
(* jump over them rewritten (patch/normalize.go).                          *)
(*                                                                         *)
(* A nested delta is normalized on its own, before the delta it lies in.   *)
(* The recursion is the variable work, innermost delta first; a frame is   *)
(*   entries  the delta as it has become                                   *)
(*   n        the entries whose nests have been looked at                  *)
(*   pass     the pass of the bubble sort                                  *)
(*   i        the pair it has come to                                      *)
(*   moved    has the pass exchanged anything                              *)
(*                                                                         *)
(* Here a field key is [arm |-> "field", field |-> f, by |-> I] with I the *)
(* identifiers it is spelled with: a name, a number, or both.              *)
(***************************************************************************)
EXTENDS Validate, Shift

CONSTANT Documents  (* The documents Normalize is called with. *)

ASSUME DocumentsAssumption == \A p \in Documents : IsDocument(p)

VARIABLES
  given,   (* The document Normalize was called with.                       *)
  out,     (* The document it returns; given until then.                    *)
  work,    (* The deltas being normalized, innermost first.                 *)
  status   (* "called", "running", "ok" or "refused".                       *)

nvars == <<given, out, work, status>>

-----------------------------------------------------------------------------
(* What the reordering knows of an entry (examine).                        *)

TargetKeys(e) == {s.key : s \in {s \in Range(e.targets) : s.arm = "key"}}

Keys(e) == Range(e.path) \cup TargetKeys(e)

Indexed(e) == {s \in Range(e.targets) : s.arm = "key" /\ s.key.arm = "index"}

\* Removing or inserting list elements.
ChangesLength(e) == e.op.kind \in {"remove", "insert"} /\ Indexed(e) # {}

\* An entry that is never moved and that nothing is moved across.
\* Mutant: tests treated like writes.
BarrierButTests(e) ==
  \/ e.op.kind \notin {"remove", "insert", "assign", "nest", "test"}
  \/ e.scope # "targets"
  \/ e.create
  \/ \E s \in Range(e.targets) : s.arm # "key"
  \/ \E k \in Keys(e) : k.arm = "index" /\ k.index < 0
  \/ ChangesLength(e) /\ (e.skip \/ Indexed(e) # Range(e.targets))

Barrier(e) ==
  \/ e.op.kind \notin {"remove", "insert", "assign", "nest"}
  \/ e.scope # "targets"
  \/ e.create
  \/ \E s \in Range(e.targets) : s.arm # "key"
  \/ \E k \in Keys(e) : k.arm = "index" /\ k.index < 0
  \/ ChangesLength(e) /\ (e.skip \/ Indexed(e) # Range(e.targets))

\* The change of e to the list at its path.
Change(e) ==
  [insert |-> e.op.kind = "insert",
   idx    |-> Sorted([j \in DOMAIN e.targets |-> e.targets[j].key.index])]

Sites(e) == {Append(e.path, key) : key \in TargetKeys(e)}

-----------------------------------------------------------------------------
(* Keys that provably name different places.                               *)

FieldsDistinct(k, j) == k.by \cap j.by # {} /\ k.field # j.field

MapKeysDistinct(k, j) == (k.key \in Key <=> j.key \in Key) /\ k.key # j.key

\* Two indices never do: a length change between them moves one of them.
KeysDistinct(k, j) ==
  /\ k.arm = j.arm
  /\ \/ k.arm = "field" /\ FieldsDistinct(k, j)
     \/ k.arm = "map_key" /\ MapKeysDistinct(k, j)

PathsDistinct(p, r) == \E i \in DOMAIN p \cap DOMAIN r : KeysDistinct(p[i], r[i])

\* s is an element of the list, or lies in one.
InList(s, list) == IsStrictPrefix(list, s) /\ s[Len(list) + 1].arm = "index"

-----------------------------------------------------------------------------
(* trySwap.                                                                *)

\* The indices into the list that e names: one in its path, or its targets.
RefsInto(e, list) ==
  IF InList(e.path, list) THEN {e.path[Len(list) + 1].index}
  ELSE IF e.path = list THEN {s.key.index : s \in Indexed(e)} ELSE {}

\* May the length change a be put behind b, its neighbour?
\* Mutant: what b writes not looked at.
MaySwapBlind(a, b) ==
  LET refs == RefsInto(b, a.path)
  IN  /\ ~Barrier(a) /\ ~Barrier(b) /\ ChangesLength(a)
      /\ refs = {} => ~ChangesLength(b)
      /\ \A i \in refs : ShiftBack(Change(a), i) # Created
      /\ ChangesLength(b) =>
           /\ b.path = a.path
           /\ Leaves(Change(a), Change(b), {ShiftBack(Change(a), i) : i \in refs})

MaySwap(a, b) ==
  LET refs == RefsInto(b, a.path)
  IN  /\ ~Barrier(a) /\ ~Barrier(b) /\ ChangesLength(a)
      /\ refs = {} => ~ChangesLength(b)
      /\ \A s \in Sites(b) : PathsDistinct(s, a.path) \/ InList(s, a.path)
      /\ \A i \in refs : ShiftBack(Change(a), i) # Created
      /\ ChangesLength(b) =>
           /\ b.path = a.path
           /\ Leaves(Change(a), Change(b), {ShiftBack(Change(a), i) : i \in refs})

\* An index into the list of a, in the coordinates before a.
Back(k, a) == [k EXCEPT !.index = ShiftBack(Change(a), @)]

TargetsBack(b, a) ==
  [j \in DOMAIN b.targets |->
     IF b.targets[j] \in Indexed(b) THEN [b.targets[j] EXCEPT !.key = Back(@, a)] ELSE b.targets[j]]

\* b as it has to be written in front of a.
InFrontOf(b, a) ==
  CASE InList(b.path, a.path) -> [b EXCEPT !.path[Len(a.path) + 1] = Back(@, a)]
    [] b.path = a.path        -> [b EXCEPT !.targets = TargetsBack(b, a)]
    [] OTHER                  -> b

-----------------------------------------------------------------------------
(* NormalizeWith and normalizeDelta.                                       *)

Sorting(entries) == [entries |-> entries, n |-> 0, pass |-> 0, i |-> 1, moved |-> FALSE]

now == Head(work)
Go(fr) == work' = <<fr>> \o Tail(work) /\ UNCHANGED <<given, out, status>>

NInit ==
  /\ given \in Documents
  /\ out = given
  /\ work = <<>>
  /\ status = "called"

NRefuse ==
  /\ status = "called"
  /\ DocumentFaults(given) # {}
  /\ status' = "refused"
  /\ UNCHANGED <<given, out, work>>

NBegin ==
  /\ status = "called"
  /\ DocumentFaults(given) = {}
  /\ status' = "running"
  /\ work' = <<Sorting(given.delta)>>
  /\ UNCHANGED <<given, out>>

\* First the nested deltas, one after another.
Looking == status = "running" /\ now.n < Len(now.entries)

Enter ==
  /\ Looking
  /\ now.entries[now.n + 1].op.kind = "nest"
  /\ work' = <<Sorting(now.entries[now.n + 1].op.delta)>> \o work
  /\ UNCHANGED <<given, out, status>>

PassBy ==
  /\ Looking
  /\ now.entries[now.n + 1].op.kind # "nest"
  /\ Go([now EXCEPT !.n = @ + 1])

\* Then a bubble sort.
Comparing == status = "running" /\ now.n = Len(now.entries) /\ now.i < Len(now.entries)

earlier == now.entries[now.i]
later   == now.entries[now.i + 1]

Swap ==
  /\ Comparing
  /\ MaySwap(earlier, later)
  /\ Go([now EXCEPT !.entries[now.i] = InFrontOf(later, earlier), !.entries[now.i + 1] = earlier,
                    !.i = @ + 1, !.moved = TRUE])

Leave ==
  /\ Comparing
  /\ ~MaySwap(earlier, later)
  /\ Go([now EXCEPT !.i = @ + 1])

PassEnds == status = "running" /\ now.n = Len(now.entries) /\ now.i = Len(now.entries)

\* A pass that exchanged nothing is the last, and so is the n-th.
\* Mutant: one pass and no more.
OnePass(fr) == TRUE

LastPass(fr) == ~fr.moved \/ fr.pass + 1 = Len(fr.entries)

NextPass ==
  /\ PassEnds
  /\ ~LastPass(now)
  /\ Go([now EXCEPT !.pass = @ + 1, !.i = 1, !.moved = FALSE])

\* A nested delta is put back where it was.
PutBack ==
  /\ PassEnds
  /\ LastPass(now)
  /\ Len(work) > 1
  /\ LET outer == work[2]
     IN  work' = <<[outer EXCEPT !.entries[outer.n + 1].op.delta = now.entries, !.n = @ + 1]>>
                    \o Tail(Tail(work))
  /\ UNCHANGED <<given, out, status>>

NReturn ==
  /\ PassEnds
  /\ LastPass(now)
  /\ Len(work) = 1
  /\ out' = [given EXCEPT !.delta = now.entries]
  /\ status' = "ok"
  /\ work' = <<>>
  /\ UNCHANGED given

Normalizing ==
  \/ NRefuse \/ NBegin \/ Enter \/ PassBy \/ Swap \/ Leave \/ NextPass \/ PutBack \/ NReturn

NFinished == status \in {"ok", "refused"} /\ UNCHANGED nvars

NSpec == NInit /\ [][Normalizing \/ NFinished]_nvars

-----------------------------------------------------------------------------
(* Properties.                                                             *)

\* Entries that read, or that write a container as a whole or create one, stay
\* where they are, and nothing passes them (normalize.go:64, What it leaves
\* alone, and :88, Reordering across a test): before each of them, and in the
\* whole delta, are the operations that were, so none is lost or doubled.  A nest
\* stays a nest; its delta is a delta of its own.
Fixed(e) == e.op.kind \in {"test", "move", "copy"} \/ e.scope = "container" \/ e.create

Outline(v) == IF v.kind = "nest" THEN [v EXCEPT !.delta = <<>>] ELSE v

SameButNested(e, f) == [e EXCEPT !.op = Outline(@)] = [f EXCEPT !.op = Outline(@)]

Before(delta, h, v) == Cardinality({j \in 1 .. h - 1 : Outline(delta[j].op) = v})

FixedStay ==
  status = "ok" =>
    /\ Len(out.delta) = Len(given.delta)
    /\ \A h \in DOMAIN given.delta : Fixed(given.delta[h]) => SameButNested(out.delta[h], given.delta[h])
    /\ \A h \in 1 .. Len(given.delta) + 1 :
         h > Len(given.delta) \/ Fixed(given.delta[h]) =>
           \A e \in Range(given.delta) :
             Before(out.delta, h, Outline(e.op)) = Before(given.delta, h, Outline(e.op))

\* The passes stop only when no two neighbours can be exchanged any more
\* ("n passes is the standard bound", normalize.go:142), in nested deltas too.
SettledDelta(delta) == \A j \in 1 .. Len(delta) - 1 : ~MaySwap(delta[j], delta[j + 1])

Settled ==
  status = "ok" =>
    /\ SettledDelta(out.delta)
    /\ \A e \in EntriesOf(out.delta) : e.op.kind = "nest" => SettledDelta(e.op.delta)

\* On a list that only shrinks, entries of one index each come out naming indices
\* of the list as it was: a remove is behind everything at its index or above
\* (docs/normalize.md, The normal form; normalize_test.go:418).
OnlyShrinks(delta) ==
  \A e \in Range(delta) :
    ~Barrier(e) /\ e.op.kind \in {"remove", "assign"} /\ e.path = delta[1].path
      /\ Len(e.targets) = 1 /\ Indexed(e) # {}

NormalForm ==
  status = "ok" /\ OnlyShrinks(given.delta) =>
    \A h \in DOMAIN out.delta : \A j \in 1 .. h - 1 :
      out.delta[j].op.kind = "remove" =>
        out.delta[h].targets[1].key.index < out.delta[j].targets[1].key.index

=============================================================================
