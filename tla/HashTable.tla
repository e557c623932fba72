----------------------------- MODULE HashTable ------------------------------
(***************************************************************************)
(* lib/table: open addressing with linear probing, tombstones (HOLD) and a *)
(* new random hash at every growth.  The server keeps its channels in one, *)
(* through At and Rm, and lib/conf its settings, through Push.             *)
(***************************************************************************)
EXTENDS Naturals, Sequences, FiniteSets, SequencesExt

CONSTANTS Keys, Vals,
          Word,      (* 2 to the number of bits of a usize                  *)
          Programs,  (* the users of a table: the calls each makes, the     *)
                     (* capacity it gives Init (a power of two) and a bound, *)
                     (* the largest table it finds memory for               *)
          None       (* no key, no value                                    *)

ASSUME TableAssumption ==
  /\ Word \in Nat
  /\ \A p \in Programs :
       /\ p.calls \subseteq {"push", "pushNew", "replace", "at", "rm", "clear"}
       /\ p.cap \in Nat \ {0} /\ p.maxCap \in Nat /\ Word > 2 * p.maxCap + 1
  /\ None \notin Keys \cup Vals

VARIABLES program, (* who uses the table                                    *)
          slots,   (* states, keys and vals, from 1                         *)
          hash,    (* what a and b make of each key                         *)
          count,   (* table->count                                          *)
          res,     (* what the last call returned                           *)
          moved    (* history: an At has made the table grow                *)

vars == <<program, slots, hash, count, res, moved>>

Calls == program.calls

EMPTY == [state |-> "EMPTY", key |-> None, val |-> None]
HOLD  == [state |-> "HOLD", key |-> None, val |-> None]
Full(k, v) == [state |-> "FULL", key |-> k, val |-> v]
IsFull(slot) == slot.state = "FULL"

Empties(cap) == [i \in 1 .. cap |-> EMPTY]
Hashes(cap) == [Keys -> 1 .. cap]

(* The place d steps after i, round the table t.                           *)
Place(t, i, d) == ((i + d - 1) % Len(t)) + 1

(* The first of the places P from i on, i if there are none.               *)
Probe(t, i, P) ==
  LET steps(j) == (j + Len(t) - i) % Len(t)
  IN  IF P = {} THEN i ELSE CHOOSE j \in P : \A l \in P : steps(j) <= steps(l)

With(t, k) == {j \in DOMAIN t : t[j].key = k}
In(t, states) == {j \in DOMAIN t : t[j].state \in states}

-----------------------------------------------------------------------------

(* PushImp stops at its key or at the first slot that is not full.         *)
PushPlace(t, h, k) == Probe(t, h[k], In(t, {"EMPTY", "HOLD"}) \cup With(t, k))
PushImp(t, h, k, v, replace) ==
  LET i == PushPlace(t, h, k)
  IN  IF IsFull(t[i]) /\ ~replace THEN t ELSE [t EXCEPT ![i] = Full(k, v)]

(* Mutant of TooFull: the entry to come is not counted.                    *)
TooFullLate == (2 * count) % Word > Len(slots)

(* Grow: when is the table too full, and the larger table it makes, all    *)
(* entries pushed in the order of their places with the new hash h.        *)
TooFull == ((2 * count) % Word) + 1 > Len(slots)

Regrown(h) ==
  LET t[n \in 0 .. Len(slots)] ==
        IF n = 0 THEN Empties(2 * Len(slots))
        ELSE IF IsFull(slots[n]) THEN PushImp(t[n - 1], h, slots[n].key, slots[n].val, FALSE)
        ELSE t[n - 1]
  IN  t[Len(slots)]

(* The hashes Grow may end with (none if it has no memory), and the table  *)
(* and the count that go with one.  The entry to come is counted whether   *)
(* or not there will be one; a larger table starts its count again.        *)
NewHashes ==
  IF ~TooFull THEN {hash}
  ELSE IF 2 * Len(slots) <= program.maxCap THEN Hashes(2 * Len(slots)) ELSE {}
Grown(h) == IF TooFull THEN Regrown(h) ELSE slots
Counted == IF TooFull THEN 1 ELSE (count + 1) % Word
GrowFails == NewHashes = {} /\ res' = "failed" /\ UNCHANGED <<slots, hash, count>>

(* Mutant of AtPlace: a tombstone ends the search.                         *)
AtPlaceStopsAtHold(t, h, k) == Probe(t, h[k], In(t, {"EMPTY", "HOLD"}) \cup With(t, k))

(* At and Rm stop at their key, at an empty slot, or after a whole turn.   *)
AtPlace(t, h, k) == Probe(t, h[k], In(t, {"EMPTY"}) \cup With(t, k))
Lookup(k) == LET s == slots[AtPlace(slots, hash, k)] IN IF s.key = k THEN s.val ELSE None

-----------------------------------------------------------------------------
(* Push: an entry that is replaced was not a new one.                      *)
PushWith(k, v, replace) ==
  \/ GrowFails
  \/ \E h \in NewHashes :
       LET t == Grown(h)
           present == IsFull(t[PushPlace(t, h, k)])
       IN  /\ slots' = PushImp(t, h, k, v, replace)
           /\ hash' = h
           /\ count' = IF present /\ replace THEN (Counted + Word - 1) % Word ELSE Counted
           /\ res' = IF present /\ ~replace THEN "present" ELSE "ok"

Push(k, v) ==
  /\ "push" \in Calls \/ ("pushNew" \in Calls /\ Lookup(k) = None)
  /\ PushWith(k, v, FALSE)
PushReplace(k, v) == "replace" \in Calls /\ PushWith(k, v, TRUE)

(* At with `insert': the caller fills the new entry's value in.  Its place *)
(* was found before the table grew.                                        *)
AtFound(k) ==
  /\ "at" \in Calls /\ Lookup(k) # None
  /\ res' = "present" /\ UNCHANGED <<slots, hash, count>>
AtInserts(k, v) ==
  /\ "at" \in Calls /\ Lookup(k) = None
  /\ \/ GrowFails
     \/ \E h \in NewHashes :
          /\ slots' = [Grown(h) EXCEPT ![AtPlace(slots, hash, k)] = Full(k, v)]
          /\ hash' = h /\ count' = Counted /\ res' = "ok"

(* Rm leaves a tombstone unless the next slot is empty; then it also takes *)
(* away the tombstones just before it.                                     *)
Cleared(t, i) ==
  {i} \cup {Place(t, i, Len(t) - d) : d \in {e \in 1 .. Len(t) - 1 :
              \A f \in 1 .. e : t[Place(t, i, Len(t) - f)] = HOLD}}

(* Mutant of Rm: the slot is always emptied.                               *)
RmNoTombstone(k) ==
  /\ "rm" \in Calls /\ Lookup(k) # None
  /\ res' = "ok" /\ hash' = hash /\ count' = (count + Word - 1) % Word
  /\ slots' = [slots EXCEPT ![AtPlace(slots, hash, k)] = EMPTY]

Rm(k) ==
  /\ "rm" \in Calls
  /\ res' = "ok" /\ hash' = hash
  /\ LET i == AtPlace(slots, hash, k)
     IN  IF slots[i].key # k THEN UNCHANGED <<slots, count>>
         ELSE /\ count' = (count + Word - 1) % Word
              /\ slots' = IF slots[Place(slots, i, 1)] = EMPTY
                          THEN [j \in DOMAIN slots |->
                                  IF j \in Cleared(slots, i) THEN EMPTY ELSE slots[j]]
                          ELSE [slots EXCEPT ![i] = HOLD]

Clear ==
  /\ "clear" \in Calls
  /\ slots' = Empties(Len(slots)) /\ count' = 0 /\ res' = "ok"
  /\ UNCHANGED hash

Init ==
  /\ program \in Programs
  /\ slots = Empties(program.cap) /\ hash \in Hashes(program.cap)
  /\ count = 0 /\ res = "ok" /\ moved = FALSE

(* Nothing is said, and nothing followed, of a table an At has made grow.  *)
Next ==
  /\ ~moved
  /\ \/ \E k \in Keys, v \in Vals : Push(k, v) \/ PushReplace(k, v) \/ AtInserts(k, v)
     \/ \E k \in Keys : AtFound(k) \/ Rm(k)
     \/ Clear
  /\ moved' = ("at" \in Calls /\ Len(slots') # Len(slots))
  /\ UNCHANGED program

Spec == Init /\ [][Next]_vars

-----------------------------------------------------------------------------
(* Every variable has its type, and what is not full holds nothing.        *)
TypeOK ==
  /\ slots \in Seq({EMPTY, HOLD} \cup {Full(k, v) : k \in Keys, v \in Vals})
  /\ Len(slots) <= program.maxCap
  /\ hash \in Hashes(Len(slots))
  /\ count \in 0 .. Word - 1
  /\ res \in {"ok", "present", "failed"} /\ moved \in BOOLEAN

(* A key has one entry: no second one is made behind a tombstone, by Push  *)
(* or by an At that has not made the table grow, whatever was removed.     *)
OneEntry ==
  /\ TypeOK
  /\ moved \/ \A i, j \in DOMAIN slots :
       IsFull(slots[i]) /\ IsFull(slots[j]) /\ slots[i].key = slots[j].key => i = j

(* The search of PushImp, which has no other way to end, ends: the table   *)
(* is going to grow first or has a slot that is not full, although count   *)
(* starts from one again at every growth.                                  *)
PushEnds == TooFull \/ \E i \in DOMAIN slots : ~IsFull(slots[i])

map == [k \in Keys |-> Lookup(k)]
Map == INSTANCE KeyMap

(* An At that has gone round a row without an empty slot inserts where it  *)
(* began: if that is the entry of another key, that key is lost.           *)
AtOverwrites ==
  /\ "at" \in Calls /\ In(slots, {"EMPTY"}) = {}
  /\ \E k, j \in Keys, v \in Vals :
       /\ map[k] = None /\ slots[hash[k]].key = j
       /\ map' = [map EXCEPT ![k] = v, ![j] = None]
  /\ res' = "ok"

(* What a lookup finds is a map that the calls change as they say, but for *)
(* the two ways in which At loses an entry: over another one in a row      *)
(* full of tombstones, and at a place found before the table grew.  The    *)
(* server's channel table runs into both.                                  *)
ImplementsMap == Map!Init /\ [][Map!Next \/ AtOverwrites \/ moved']_(Map!vars)
=============================================================================
