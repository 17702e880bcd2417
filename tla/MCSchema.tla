------------------------------ MODULE MCSchema ------------------------------
(***************************************************************************)
(* The message type the model-checked instances use, after the sample      *)
(* schema of the repository's tests: one field of each shape, a oneof of a *)
(* scalar and a message, and a second scalar type; and constructors for    *)
(* keys, selectors, literals and entries.                                  *)
(***************************************************************************)
EXTENDS TLC, MCForms

CONSTANTS
  x,        (* a singular scalar with presence              *)
  y,        (* a singular scalar of another type            *)
  z,        (* a singular scalar without presence           *)
  m,        (* a singular message                           *)
  a, b, e,  (* a scalar, a message and a scalar of the oneof *)
  l, n,     (* a list of scalars, a list of messages        *)
  k, q,     (* a map of scalars, a map of messages          *)
  o,        (* the oneof of a, b and e                      *)
  k1, k2,   (* map keys                                     *)
  zero, one, text, (* scalars                               *)
  int, str, msg, none, unknown, undeclared,
  noSlot, appendSlot, conflicting, synthetic

Fields  == {x, y, z, m, a, b, e, l, n, k, q}
Cards   == [f \in Fields |-> CASE f \in {l, n} -> "list"
                               [] f \in {k, q} -> "map"
                               [] OTHER        -> "singular"]
Types   == [f \in Fields |-> CASE f \in {m, b, n, q} -> msg
                               [] f = y              -> str
                               [] OTHER              -> int]
Oneofs  == [f \in Fields |-> IF f \in {a, b, e} THEN o ELSE none]
Kinds   == [s \in {zero, one, text} |-> IF s = text THEN str ELSE int]

F(f) == [arm |-> "field", field |-> f]

Lit(s)      == [arm |-> Kinds[s], scalar |-> s]
M(v)        == [arm |-> msg, body |-> v, fault |-> "ok"]
BadM(code)  == [arm |-> msg, body |-> (<<>> :> msg), fault |-> code]

Doc(d) == [message_type |-> <<>>, revision |-> 0, unknown |-> FALSE, delta |-> d]

-----------------------------------------------------------------------------
(* Targets.                                                                *)

Root == <<>> :> msg

Bare == Root

\* Every field that can be set beside the others is; a is the oneof's member.
Full ==
  Root @@ (<<x>> :> one) @@ (<<a>> :> one)
       @@ (<<m>> :> msg) @@ (<<m, x>> :> zero) @@ (<<m, unknown>> :> text)
       @@ (<<l, 1>> :> one) @@ (<<l, 2>> :> zero)
       @@ (<<n, 1>> :> msg) @@ (<<n, 1, x>> :> one) @@ (<<n, 2>> :> msg) @@ (<<n, 2, unknown>> :> text)
       @@ (<<k, k1>> :> one)
       @@ (<<q, k1>> :> msg) @@ (<<q, k1, x>> :> one)
       @@ (<<unknown>> :> text)

\* The message member of the oneof is set, and messages nest.
Deep ==
  Root @@ (<<y>> :> text) @@ (<<z>> :> one)
       @@ (<<b>> :> msg) @@ (<<b, l, 1>> :> one)
       @@ (<<m>> :> msg) @@ (<<m, m>> :> msg) @@ (<<m, m, x>> :> one) @@ (<<m, a>> :> zero)
       @@ (<<l, 1>> :> zero)

=============================================================================
