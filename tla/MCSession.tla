----------------------------- MODULE MCSession ------------------------------
(* The instances of Session for TLC.                                       *)
EXTENDS Session
LongOut == [proxy |-> {1, 2, 4}, server |-> {1}]
LongIn == [proxy |-> {1}, server |-> {3}]
TwoEach == [proxy |-> 2, server |-> 2]
=============================================================================
