------------------------------- MODULE InOrder -------------------------------
(***************************************************************************)
(* Putting in order and picking out, as the library's sort and filter do,  *)
(* stated so that they can be reasoned about.                              *)
(***************************************************************************)
EXTENDS Integers, Sequences, FiniteSets

(* The members of a finite set of numbers as a sequence, least first. *)
Ascending(I) ==
  CHOOSE f \in [1 .. Cardinality(I) -> I] :
    \A i, j \in DOMAIN f : i < j => f[i] < f[j]

(* The elements of a sequence at the places in I, in their order. *)
Only(s, I) == [k \in 1 .. Cardinality(I) |-> s[Ascending(I)[k]]]
=============================================================================
