----------------------------- MODULE MCSessions -----------------------------
(* The instances on which authentication is checked.  Requests under way   *)
(* are interchangeable.                                                    *)
EXTENDS Sessions, TLC

Symmetry == Permutations(Requests)
=============================================================================
