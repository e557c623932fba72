------------------------------ MODULE MCWorkQ -------------------------------
(* The instances of WorkQ for TLC.                                         *)
EXTENDS WorkQ
=============================================================================
