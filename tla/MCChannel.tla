----------------------------- MODULE MCChannel -----------------------------
(* The instances of Channel for TLC.                                       *)
EXTENDS ChannelRefinement
=============================================================================
