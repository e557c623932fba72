------------------------------- MODULE KeyMap -------------------------------
(***************************************************************************)
(* What a hash table (lib/table) promises its callers: a map from keys to  *)
(* values, whose entries change only by the calls that name them.          *)
(***************************************************************************)
CONSTANTS Keys, Vals, None

VARIABLES map,   (* the value of each key, None if there is none            *)
          res    (* what the last call returned                             *)

vars == <<map, res>>

Init == map = [k \in Keys |-> None] /\ res = "ok"

(* Key k, and no other, gets the value v.                                  *)
Set(k, v) == map'[k] = v /\ map' = [map EXCEPT ![k] = v]

(* Push and At: a new entry, or the news that there is one already.        *)
Add(k, v) ==
  /\ map[k] = None
  /\ Set(k, v) /\ res' = "ok"
Replace(k, v) ==
  /\ map[k] # None
  /\ Set(k, v) /\ res' = "ok"
Refuse(k) == map[k] # None /\ res' = "present" /\ UNCHANGED map
Fail == res' = "failed" /\ UNCHANGED map

Remove(k) == Set(k, None) /\ res' = "ok"
Clear == map' = [k \in Keys |-> None] /\ res' = "ok"

Next ==
  \/ \E k \in Keys : Refuse(k) \/ Remove(k)
  \/ \E k \in Keys, v \in Vals : Add(k, v) \/ Replace(k, v)
  \/ Fail \/ Clear

Spec == Init /\ [][Next]_vars
=============================================================================
