-------------------------------- MODULE Vec --------------------------------
(***************************************************************************)
(* The growable array of lib/vec as a sequence, for the modules that model *)
(* its users.  Only VecRm, the in-place removal, needs a definition of its *)
(* own: Push is Append, Size is Len.                                       *)
(*                                                                         *)
(* VecRm(pred) walks [0, finish) once, moves every element that stays down *)
(* over the ones that go, and shortens the vector by the number removed.   *)
(* It does not move the elements from `finish' on: after a removal with    *)
(* finish < Size they are still where they were, the last of them is cut   *)
(* off, and a slot below `finish' still holds what was there before.       *)
(***************************************************************************)
EXTENDS Naturals, Sequences, FiniteSets

(* The k-th smallest element of a finite set K of positions.               *)
Nth(K, k) == CHOOSE i \in K : Cardinality({j \in K : j <= i}) = k

(* Mutant of VecRm: the length is left as it was.                          *)
VecRmKeepsSize(s, finish, D) ==
  LET stay == (1 .. finish) \ D
  IN  [k \in 1 .. Len(s) |->
         IF k <= Cardinality(stay) THEN s[Nth(stay, k)] ELSE s[k]]

(* Mutant of VecRm: the removed ones are taken off the end.                *)
VecRmCutsTheEnd(s, finish, D) == SubSeq(s, 1, Len(s) - Cardinality(D))

(* NAME##Rm(vec, 0, finish, pred) on the vector s, where D is the set of   *)
(* positions in 1..finish whose element pred selects.                      *)
VecRm(s, finish, D) ==
  LET stay == (1 .. finish) \ D
  IN  [k \in 1 .. Len(s) - Cardinality(D) |->
         IF k <= Cardinality(stay) THEN s[Nth(stay, k)] ELSE s[k]]
=============================================================================
