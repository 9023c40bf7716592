----------------------------- MODULE Subsequences -----------------------------
(***************************************************************************)
(* What DIC's lists and the application's stores have in common: some of   *)
(* the elements, in the order of all of them.  SelectSeq says as much, but *)
(* only recursively; here the places that stay are given as a set, which   *)
(* is what the proofs reason about.                                        *)
(***************************************************************************)
EXTENDS Integers, FiniteSets, SequencesExt

(* The place of x in the ascending order of a set of numbers. *)
Rank(S, x) == Cardinality({y \in S : y <= x})

(* The members of a set of numbers, ascending. *)
Ascending(S) == [i \in 1..Cardinality(S) |-> CHOOSE x \in S : Rank(S, x) = i]

(* What s has at the places I, in its order. *)
Kept(s, I) == [i \in 1..Cardinality(I) |-> s[Ascending(I)[i]]]
=============================================================================
