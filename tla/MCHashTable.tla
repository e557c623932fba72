---------------------------- MODULE MCHashTable -----------------------------
(* The instances of HashTable for TLC.  Nothing tells one key, or one      *)
(* value, from another.                                                    *)
EXTENDS HashTable
Symmetry == Permutations(Keys) \cup Permutations(Vals)

(* lib/conf pushes and looks up; lib/table's test pushes what is absent    *)
(* and removes; the server's channel table inserts through At and removes, *)
(* in a table that finds no memory to grow, and in one that does.          *)
Pushing  == [calls |-> {"push", "replace", "clear"}, cap |-> 1, maxCap |-> 4]
Removing == [calls |-> {"pushNew", "rm"}, cap |-> 1, maxCap |-> 4]
Server   == [calls |-> {"at", "rm"}, cap |-> 4, maxCap |-> 4]
Growing  == [calls |-> {"at", "rm"}, cap |-> 2, maxCap |-> 4]
Users    == {Pushing, Removing, Server, Growing}
=============================================================================
