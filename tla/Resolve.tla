------------------------------ MODULE Resolve ------------------------------
(***************************************************************************)
(* Index and range resolution, shared by every engine (patch/resolve.go).  *)
(* Indices are 0-based here, as they are on the wire; a list of length n   *)
(* has the indices 0 .. n-1.                                               *)
(*                                                                         *)
(* The Go code computes in int64.  An index is only ever added to the      *)
(* length when it is negative, and a length is never negative, so no sum   *)
(* leaves the range of int64 and Int is the same arithmetic.               *)
(***************************************************************************)
EXTENDS Integers

\* The answer "no such index".  NormalizeIndex returns (0, true) for it.
Vacant == -1

\* A negative index counts from the end: length + i is the effective index.
FromEnd(i, length) == IF i < 0 THEN i + length ELSE i

NormalizeIndex(i, length) ==
  LET eff == FromEnd(i, length)
  IN  IF eff < 0 \/ eff >= length THEN Vacant ELSE eff

Clamp(v, length) ==
  CASE v < 0      -> 0
    [] v > length -> length
    [] OTHER      -> v

(***************************************************************************)
(* A bound of a range is optional.  The code asks HasBegin and HasEnd, so  *)
(* an explicit 0 is not an absent bound; a bound is <<>> when it is unset  *)
(* and <<v>> when it is set to v.                                          *)
(***************************************************************************)
Bound(b, default, length) ==
  IF b = <<>> THEN default ELSE FromEnd(b[1], length)

\* The half-open interval [begin, end) as its two ends; empty is 0, 0.
NormalizeRange(r, length) ==
  LET begin == Clamp(Bound(r.begin, 0, length), length)
      end   == Clamp(Bound(r.end, length, length), length)
  IN  IF begin >= end THEN [begin |-> 0, end |-> 0]
                      ELSE [begin |-> begin, end |-> end]

=============================================================================
