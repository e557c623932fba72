------------------------------ MODULE MCCTool ------------------------------
(***************************************************************************)
(* Two texts of one and two bytes, the longer one such that its characters *)
(* end in a partial group; five runs of the tool make room for a key, two  *)
(* ciphertexts and their opening, or for a file encoded twice and decoded. *)
(***************************************************************************)
EXTENDS CTool

MCTyped == {<<105>>}
MCEdited == {<<251>>, <<105, 33>>}
=============================================================================
