----------------------------- MODULE BlockPool -----------------------------
(***************************************************************************)
(* What an allocator promises its callers, whatever arenas and locks it    *)
(* keeps behind: a call gets a block nobody holds, or nothing at all, and  *)
(* a block is held from that call until it is given back.                  *)
(***************************************************************************)
CONSTANT Block   \* the blocks the program may ever be given

VARIABLE live    \* how often it holds each

PoolInit == live = [b \in Block |-> 0]

Get(b) == live[b] = 0 /\ live' = [live EXCEPT ![b] = 1]

Return(b) == live[b] = 1 /\ live' = [live EXCEPT ![b] = 0]

PoolNext == \E b \in Block : Get(b) \/ Return(b)

PoolSpec == PoolInit /\ [][PoolNext]_live
=============================================================================
