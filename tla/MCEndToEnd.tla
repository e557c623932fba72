----------------------------- MODULE MCEndToEnd -----------------------------
(* The instances of EndToEnd for TLC.                                      *)
EXTENDS EndToEnd
Swapped == Permutations(Users)
=============================================================================
