---------------------------- MODULE Subsequences ----------------------------
(***************************************************************************)
(* Sequences that list a set in order: what a loop with an if around its   *)
(* push_back builds.  SelectSeq says the same of the positions of a        *)
(* sequence, but has no definition that a proof could use.                 *)
(***************************************************************************)
EXTENDS Integers, Sequences, FiniteSets

(* How many elements of S come before x or are x, in the order R (a set of *)
(* pairs), and the element for which these are k.                          *)
Rank(S, R, x) == Cardinality({y \in S : <<y, x>> \in R})

Ranked(S, R, k) == CHOOSE x \in S : Rank(S, R, x) = k

(* The k-th of the positions I, counted from the lowest.                   *)
Ascending(I) == {p \in I \X I : p[1] <= p[2]}

Nth(I, k) == Ranked(I, Ascending(I), k)

(* The elements of s at the positions I.                                   *)
Pick(s, I) == [k \in 1 .. Cardinality(I) |-> s[Nth(I, k)]]
=============================================================================
