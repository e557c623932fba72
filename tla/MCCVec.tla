------------------------------- MODULE MCCVec -------------------------------
(* The instances of CVec for TLC.                                          *)
EXTENDS CVecRefinement
=============================================================================
