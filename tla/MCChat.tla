------------------------------- MODULE MCChat -------------------------------
(***************************************************************************)
(* Two users and one message, a length of two pieces, a heartbeat of three *)
(* ticks and a name listed for five.                                       *)
(***************************************************************************)
EXTENDS Chat, TLC

MCSymmetry == Permutations(User)
=============================================================================
