------------------------------- MODULE Duplex -------------------------------
(***************************************************************************)
(* What the session between the proxy and the server promises, whatever    *)
(* its chunks and keys are: each way, the messages handed over are the     *)
(* messages given to it, whole, each once and in order, up to where a      *)
(* broken connection ends them.                                            *)
(***************************************************************************)
EXTENDS Naturals, Sequences

CONSTANTS Parties, Messages

VARIABLES sent,   (* the messages each party has given to the session       *)
          got     (* the messages each party has been handed                *)

vars == <<sent, got>>

Init ==
  /\ sent = [d \in Parties |-> <<>>]
  /\ got = [d \in Parties |-> <<>>]

Give(d, m) ==
  /\ sent' = [sent EXCEPT ![d] = Append(@, m)]
  /\ UNCHANGED got

(* o is handed the first of d's messages it has not had.                   *)
Hand(d, o) ==
  /\ Len(got[o]) < Len(sent[d])
  /\ got' = [got EXCEPT ![o] = Append(@, sent[d][Len(@) + 1])]
  /\ UNCHANGED sent

Next ==
  \/ \E d \in Parties, m \in Messages : Give(d, m)
  \/ \E d, o \in Parties : d # o /\ Hand(d, o)

Spec == Init /\ [][Next]_vars
=============================================================================
