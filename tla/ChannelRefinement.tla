------------------------- MODULE ChannelRefinement -------------------------
(***************************************************************************)
(* The channel task implements what Broadcast promises: a client's due     *)
(* messages are the others' messages from its place in the log on.         *)
(***************************************************************************)
EXTENDS Channel

Served == {c \in Onboard : state[c] # "DEAD"}

Due(c) ==
  IF c \in Served
  THEN SelectSeq(SubSeq(log, logPlace[c] + 1, Len(log)), LAMBDA m : m.sender # id[c])
  ELSE <<>>

LoggedMessages ==
  [n : 1 .. MaxMsgs, sender : 0 .. Cardinality(Clients) - 1,
   kind : {"logged", "transient"}, ts : Duration .. Duration + MaxTime]

B == INSTANCE Broadcast
       WITH Msgs <- LoggedMessages,
            retained <- log,
            members <- Served,
            due <- [c \in Clients |-> Due(c)]

(* Every member gets the others' messages, each once, in the order they    *)
(* were posted, from the ones retained when it joined on; and pruneLog     *)
(* takes away only what nobody is waiting for.  It is so up to the first   *)
(* removal in front of a client that is behind: after that one the log     *)
(* holds other messages, or freed ones, where the client is to go on.      *)
ImplementsBroadcast == B!Init /\ [][B!Next \/ torn']_(B!vars)
=============================================================================
