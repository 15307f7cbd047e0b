---------------------------- MODULE MCHanoiCosts ----------------------------
(* Instances of HanoiCosts for TLC: the requests, and the rows, are        *)
(* interchangeable.                                                        *)
EXTENDS HanoiCosts, TLC

RequestSymmetry == Permutations(Req) \cup Permutations(Rid)
=============================================================================
