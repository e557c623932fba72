----------------------------- MODULE Broadcast -----------------------------
(***************************************************************************)
(* What one chat channel promises to its members, independently of how the *)
(* server keeps its log: every member is handed the messages the channel   *)
(* retains when it joins, then every later message of the other members,   *)
(* each of them once and in the order they were posted.  The channel may   *)
(* forget a message only when no member is still waiting for it.           *)
(***************************************************************************)
EXTENDS Naturals, SequencesExt

CONSTANTS Clients,   (* the connections that may join the channel          *)
          Msgs       (* the messages that may be posted                    *)

VARIABLES retained,  (* the messages a newcomer would be handed, in order  *)
          members,   (* the connections being served                       *)
          due,       (* what each member must still be handed, in order    *)
          got        (* what has been handed to each connection so far     *)

vars == <<retained, members, due, got>>

Init ==
  /\ retained = <<>>
  /\ members = {}
  /\ due = [c \in Clients |-> <<>>]
  /\ got = [c \in Clients |-> <<>>]

Join(c) ==
  /\ c \notin members
  /\ members' = members \cup {c}
  /\ due' = [due EXCEPT ![c] = retained]
  /\ UNCHANGED <<retained, got>>

Post(c, m) ==
  /\ c \in members
  /\ retained' = Append(retained, m)
  /\ due' = [d \in Clients |->
               IF d \in members \ {c} THEN Append(due[d], m) ELSE due[d]]
  /\ UNCHANGED <<members, got>>

Deliver(c) ==
  /\ due[c] # <<>>
  /\ got' = [got EXCEPT ![c] = Append(@, Head(due[c]))]
  /\ due' = [due EXCEPT ![c] = Tail(@)]
  /\ UNCHANGED <<retained, members>>

Leave(c) ==
  /\ c \in members
  /\ members' = members \ {c}
  /\ due' = [due EXCEPT ![c] = <<>>]
  /\ UNCHANGED <<retained, got>>

Forget(S) ==
  /\ \A c \in members : Range(due[c]) \cap S = {}
  /\ retained' = SelectSeq(retained, LAMBDA m : m \notin S)
  /\ UNCHANGED <<members, due, got>>

(* The server gives the whole channel up (it ran out of a resource).       *)
Shutdown ==
  /\ retained' = <<>>
  /\ members' = {}
  /\ due' = [c \in Clients |-> <<>>]
  /\ UNCHANGED got

Next ==
  \/ \E c \in Clients : Join(c) \/ Deliver(c) \/ Leave(c)
  \/ \E c \in Clients, m \in Msgs : Post(c, m)
  \/ \E S \in SUBSET Range(retained) : Forget(S)
  \/ Shutdown

Spec == Init /\ [][Next]_vars
=============================================================================
