------------------------------ MODULE MCAlloc ------------------------------
(***************************************************************************)
(* Two sizes of block: a page holds two of the smaller and one of the      *)
(* larger, and a bucket is full at three and at one.  Two pages of each    *)
(* let one thread fill its bucket while the other takes from the global    *)
(* arena.                                                                  *)
(***************************************************************************)
EXTENDS Alloc, TLC

MCCount == (0 :> 2) @@ (1 :> 1)
MCMaxStored == (0 :> 3) @@ (1 :> 1)
=============================================================================
