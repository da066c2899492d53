---------------------------- MODULE Subsequences ----------------------------
(* Some elements of a sequence in their order: what a list comprehension   *)
(* with a condition, or taking a key out of an OrderedDict, returns.  It   *)
(* is stated without recursion, so that what it returns can be proved.     *)
EXTENDS Integers, Sequences, FiniteSets

\* Which of the positions that are kept i is.
Rank(keep, i) == Cardinality({j \in keep : j <= i})

\* The elements of s at the positions in keep.
Picked(s, keep) ==
    [k \in 1 .. Cardinality(keep) |-> s[CHOOSE i \in keep : Rank(keep, i) = k]]
=============================================================================
