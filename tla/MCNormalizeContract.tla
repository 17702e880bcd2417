------------------------- MODULE MCNormalizeContract -------------------------
(***************************************************************************)
(* Instances of NormalizeContract for TLC: the messages both documents are *)
(* applied to.                                                             *)
(***************************************************************************)
EXTENDS MCNormalize, NormalizeContract

List(p, s) == [slot \in {Append(p, j) : j \in DOMAIN s} |-> s[Last(slot)]]

\* The elements of a list differ, so that an index that has gone wrong shows.
Long ==
  S!Root @@ (<<x>> :> one) @@ List(<<l>>, <<one, two, three, zero>>)
    @@ (<<b>> :> msg) @@ List(<<b, l>>, <<one, two>>)
    @@ (<<k, k1>> :> one)
    @@ (<<n, 1>> :> msg) @@ (<<n, 1, x>> :> one) @@ List(<<n, 1, l>>, <<one, two>>)
    @@ (<<n, 2>> :> msg) @@ (<<n, 2, x>> :> two) @@ List(<<n, 2, l>>, <<three>>)
    @@ (<<n, 3>> :> msg)
    @@ (<<q, k1>> :> msg) @@ List(<<q, k1, l>>, <<one, two>>)

Short ==
  S!Root @@ List(<<l>>, <<one, two>>) @@ (<<a>> :> one)
    @@ (<<n, 1>> :> msg) @@ (<<n, 1, x>> :> one) @@ (<<n, 1, l, 1>> :> one)

MCTargets == {S!Bare, Short, Long}

=============================================================================
