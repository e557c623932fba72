---------------------------- MODULE ChannelTable ----------------------------
(***************************************************************************)
(* The life of the server's channels (app/server/table.h): a worker that   *)
(* has finished a client's handshake finds or makes the channel the client *)
(* asked for and passes the client to it; a channel with nobody to serve   *)
(* and nothing to keep removes itself.  The table is behind tableMtx; the  *)
(* channels' own state is not, and a new channel is with the poller before *)
(* its first client is in its pipe.  The table is the map of KeyMap until  *)
(* its At loses an entry (HashTable says when); nothing is followed, and   *)
(* nothing promised, from there on.                                        *)
(***************************************************************************)
EXTENDS Naturals, Sequences, FiniteSets, SequencesExt

CONSTANTS Workers, Clients, Ids,
          Chans,      (* bound: the channels there is an address for        *)
          PipeCap,    (* clients that fit in a channel's pipe               *)
          Failing,    (* TRUE if an allocation or WorkQPoll may fail        *)
          None,       (* no entry, no lock, no client, no channel           *)
          Null        (* the null pointer At leaves in a new entry          *)

ASSUME TableAssumption ==
  /\ PipeCap \in Nat \ {0} /\ Failing \in BOOLEAN
  /\ {None, Null} \cap (Workers \cup Clients \cup Chans) = {} /\ None # Null

VARIABLES
  tableMtx,  (* the worker that holds it                                    *)
  table,     (* the entry of each id                                        *)
  life,      (* of each channel: "unborn", "live", "freed"                  *)
  idOf,      (* chan->id                                                    *)
  pip,       (* chan->pip                                                   *)
  clients,   (* chan->clients                                               *)
  polled,    (* channels that wait in the poller or the queue               *)
  place,     (* of each client: "shaking", "given", "piped", "onboard", "freed" *)
  pc, client, chan, (* each worker's place, client (giving), channel        *)
  crashed,   (* a null channel was used                                     *)
  astray     (* history: At has lost an entry of the table                  *)

tableVars == <<tableMtx, table>>
chanVars  == <<life, idOf, pip, clients, polled>>
vars == <<tableVars, chanVars, place, pc, client, chan, crashed, astray>>

Goto(w, l) == pc' = [pc EXCEPT ![w] = l]
Moves(S, l) == place' = [c \in Clients |-> IF c \in S THEN l ELSE place[c]]

-----------------------------------------------------------------------------
(* tableDonate, giveChannelClient.                                         *)
GiveClient(w, c, i) ==
  /\ pc[w] = "idle" /\ place[c] = "shaking"
  /\ Moves({c}, "given")
  /\ client' = [client EXCEPT ![w] = <<c, i>>]
  /\ Goto(w, "give")
  /\ UNCHANGED <<tableVars, chanVars, chan, crashed>>

GiveLock(w) ==
  /\ pc[w] = "give" /\ tableMtx = None
  /\ tableMtx' = w
  /\ Goto(w, "at")
  /\ UNCHANGED <<table, chanVars, place, client, chan, crashed>>

AtFound(w) ==
  /\ pc[w] = "at" /\ table[client[w][2]] # None
  /\ Goto(w, "donate")
  /\ UNCHANGED <<tableVars, chanVars, place, client, chan, crashed>>

AtInserts(w) ==
  /\ pc[w] = "at" /\ table[client[w][2]] = None
  /\ table' = [table EXCEPT ![client[w][2]] = Null]
  /\ Goto(w, "create")
  /\ UNCHANGED <<tableMtx, chanVars, place, client, chan, crashed>>

(* At goes a whole turn over tombstones, or inserts at a place found       *)
(* before the table grew: the new entry is put over another, or where no   *)
(* lookup finds it.                                                        *)
AtLoses(w) ==
  /\ pc[w] = "at" /\ table[client[w][2]] = None
  /\ \E lost \in SUBSET Ids \ {{}} :
       table' = [i \in Ids |-> IF i \in lost THEN None
                               ELSE IF i = client[w][2] THEN Null ELSE table[i]]
  /\ astray' = TRUE
  /\ Goto(w, "create")
  /\ UNCHANGED <<tableMtx, chanVars, place, client, chan, crashed>>

(* ClientDe, and out of giveChannelClient.                                 *)
GivesUp(w) ==
  /\ Moves({client[w][1]}, "freed")
  /\ tableMtx' = None
  /\ client' = [client EXCEPT ![w] = None]
  /\ Goto(w, "idle")

(* The table cannot grow, or ChannelCreate fails.                          *)
CreateFails(w) ==
  /\ Failing
  /\ pc[w] = "create" \/ (pc[w] = "at" /\ table[client[w][2]] = None)
  /\ GivesUp(w)
  /\ UNCHANGED <<table, chanVars, chan, crashed>>

ChannelCreate(w, ch) ==
  /\ pc[w] = "create" /\ life[ch] = "unborn"
  /\ life' = [life EXCEPT ![ch] = "live"]
  /\ idOf' = [idOf EXCEPT ![ch] = client[w][2]]
  /\ chan' = [chan EXCEPT ![w] = ch]
  /\ Goto(w, "poll")
  /\ UNCHANGED <<tableVars, pip, clients, polled, place, client, crashed>>

(* WorkQPoll: the channel may run on another worker from here on.          *)
PollNew(w) ==
  /\ pc[w] = "poll"
  /\ polled' = polled \cup {chan[w]}
  /\ Goto(w, "set")
  /\ UNCHANGED <<tableVars, life, idOf, pip, clients, place, client, chan, crashed>>

PollNewFails(w) ==
  /\ Failing /\ pc[w] = "poll"
  /\ life' = [life EXCEPT ![chan[w]] = "freed"]
  /\ chan' = [chan EXCEPT ![w] = None]
  /\ GivesUp(w)
  /\ UNCHANGED <<table, idOf, pip, clients, polled, crashed>>

SetEntry(w) ==
  /\ pc[w] = "set"
  /\ table' = [table EXCEPT ![client[w][2]] = chan[w]]
  /\ chan' = [chan EXCEPT ![w] = None]
  /\ Goto(w, "donate")
  /\ UNCHANGED <<tableMtx, chanVars, place, client, crashed>>

(* Mutant of Donate: a client is destroyed after it was donated.           *)
DonateFallsThrough(w) ==
  /\ pc[w] = "donate"
  /\ LET ch == table[client[w][2]] IN pip' = [pip EXCEPT ![ch] = Append(@, client[w][1])]
  /\ GivesUp(w)
  /\ UNCHANGED <<table, life, idOf, clients, polled, chan, crashed>>

(* Mutant of Donate: no unlock.                                            *)
DonateKeepsLock(w) ==
  /\ pc[w] = "donate"
  /\ pip' = [pip EXCEPT ![table[client[w][2]]] = Append(@, client[w][1])]
  /\ Moves({client[w][1]}, "piped")
  /\ client' = [client EXCEPT ![w] = None]
  /\ Goto(w, "idle")
  /\ UNCHANGED <<tableVars, life, idOf, clients, polled, chan, crashed>>

(* channelDonate: a full pipe costs the client its connection.             *)
Donate(w) ==
  /\ pc[w] = "donate"
  /\ LET ch == table[client[w][2]]
         c  == client[w][1]
     IN  IF ch = Null
         THEN crashed' = TRUE /\ UNCHANGED <<pip, place>>
         ELSE /\ IF Len(pip[ch]) < PipeCap
                 THEN pip' = [pip EXCEPT ![ch] = Append(@, c)] /\ Moves({c}, "piped")
                 ELSE Moves({c}, "freed") /\ UNCHANGED pip
              /\ UNCHANGED crashed
  /\ tableMtx' = None
  /\ client' = [client EXCEPT ![w] = None]
  /\ Goto(w, "idle")
  /\ UNCHANGED <<table, life, idOf, clients, polled, chan>>

-----------------------------------------------------------------------------
(* channelCB: its reads, sends and log are in Channel.  The poller may     *)
(* call a task for no reason (WorkQ).                                      *)
StartCB(w, ch) ==
  /\ pc[w] = "idle" /\ ch \in polled
  /\ polled' = polled \ {ch}
  /\ chan' = [chan EXCEPT ![w] = ch]
  /\ Goto(w, "new")
  /\ UNCHANGED <<tableVars, life, idOf, pip, clients, place, client, crashed>>

NewClient(w) ==
  /\ pc[w] = "new" /\ pip[chan[w]] # <<>>
  /\ LET c == Head(pip[chan[w]])
     IN  /\ clients' = [clients EXCEPT ![chan[w]] = @ \cup {c}]
         /\ Moves({c}, "onboard")
  /\ pip' = [pip EXCEPT ![chan[w]] = Tail(@)]
  /\ UNCHANGED <<tableVars, life, idOf, polled, pc, client, chan, crashed>>

(* TunnelInit or ClientVecPush has no memory: ClientDe, and the callback   *)
(* fails.                                                                  *)
NewClientFails(w) ==
  /\ Failing
  /\ pc[w] = "new" /\ pip[chan[w]] # <<>>
  /\ Moves({Head(pip[chan[w]])}, "freed")
  /\ pip' = [pip EXCEPT ![chan[w]] = Tail(@)]
  /\ Goto(w, "kill")
  /\ UNCHANGED <<tableVars, life, idOf, clients, polled, client, chan, crashed>>

NewClientsDone(w) ==
  /\ pc[w] = "new" /\ pip[chan[w]] = <<>>
  /\ Goto(w, "serve")
  /\ UNCHANGED <<tableVars, chanVars, place, client, chan, crashed>>

(* Some clients are found dead.  The channel goes on if it has clients or  *)
(* a log (it may or may not), and gives up without them or without memory. *)
Serve(w) ==
  /\ pc[w] = "serve"
  /\ \E dead \in SUBSET clients[chan[w]] :
       /\ clients' = [clients EXCEPT ![chan[w]] = @ \ dead]
       /\ Moves(dead, "freed")
       /\ \/ Goto(w, "repoll")
          \/ (clients[chan[w]] = dead \/ Failing) /\ Goto(w, "kill")
  /\ UNCHANGED <<tableVars, life, idOf, pip, polled, client, chan, crashed>>

Repoll(w) ==
  /\ pc[w] = "repoll"
  /\ polled' = polled \cup {chan[w]}
  /\ chan' = [chan EXCEPT ![w] = None]
  /\ Goto(w, "idle")
  /\ UNCHANGED <<tableVars, life, idOf, pip, clients, place, client, crashed>>

(* The channel has no `de': nothing will ever call it again.  The worker   *)
(* leaves.                                                                 *)
RepollFails(w) ==
  /\ Failing /\ pc[w] = "repoll"
  /\ chan' = [chan EXCEPT ![w] = None]
  /\ Goto(w, "gone")
  /\ UNCHANGED <<tableVars, chanVars, place, client, crashed>>

(* killChannel: CTableRm destroys what the table has for the id, the       *)
(* clients with it but not the pointers still in the pipe.                 *)
KillUnlocked(w) ==
  /\ pc[w] = "kill"
  /\ LET e == table[idOf[chan[w]]]
     IN  IF e \in Chans
         THEN /\ life' = [life EXCEPT ![e] = "freed"]
              /\ Moves(clients[e], "freed")
              /\ clients' = [clients EXCEPT ![e] = {}]
         ELSE UNCHANGED <<life, clients, place>>
  /\ table' = [table EXCEPT ![idOf[chan[w]]] = None]
  /\ chan' = [chan EXCEPT ![w] = None]
  /\ Goto(w, "idle")
  /\ UNCHANGED <<tableMtx, idOf, pip, polled, client, crashed>>
KillChannel(w) == tableMtx = None /\ KillUnlocked(w)

-----------------------------------------------------------------------------
Init ==
  /\ tableMtx = None /\ table = [i \in Ids |-> None]
  /\ life = [ch \in Chans |-> "unborn"] /\ idOf = [ch \in Chans |-> None]
  /\ pip = [ch \in Chans |-> <<>>] /\ clients = [ch \in Chans |-> {}]
  /\ polled = {}
  /\ place = [c \in Clients |-> "shaking"]
  /\ pc = [w \in Workers |-> "idle"]
  /\ client = [w \in Workers |-> None] /\ chan = [w \in Workers |-> None]
  /\ crashed = FALSE /\ astray = FALSE

Give(w) ==
  /\ \/ GiveLock(w) \/ AtFound(w) \/ AtInserts(w) \/ CreateFails(w)
     \/ \E ch \in Chans : ChannelCreate(w, ch)
     \/ PollNew(w) \/ PollNewFails(w) \/ SetEntry(w) \/ Donate(w)
  /\ UNCHANGED astray

Run(w) ==
  /\ \/ NewClient(w) \/ NewClientFails(w) \/ NewClientsDone(w) \/ Serve(w)
     \/ Repoll(w) \/ RepollFails(w) \/ KillChannel(w)
  /\ UNCHANGED astray

Begin(w) ==
  /\ \/ \E c \in Clients, i \in Ids : GiveClient(w, c, i)
     \/ \E ch \in Chans : StartCB(w, ch)
  /\ UNCHANGED astray

Next ==
  /\ ~crashed /\ ~astray
  /\ \E w \in Workers : Begin(w) \/ Give(w) \/ AtLoses(w) \/ Run(w)

Spec == Init /\ [][Next]_vars

(* Every worker runs.                                                      *)
FairSpec == Spec /\ \A w \in Workers : WF_vars(~crashed /\ ~astray /\ (Give(w) \/ AtLoses(w) \/ Run(w)))

-----------------------------------------------------------------------------
(* Every variable has its type, and who holds the mutex is in the middle   *)
(* of giveChannelClient.                                                   *)
TypeOK ==
  /\ table \in [Ids -> Chans \cup {None, Null}]
  /\ life \in [Chans -> {"unborn", "live", "freed"}]
  /\ idOf \in [Chans -> Ids \cup {None}]
  /\ pip \in [Chans -> Seq(Clients)] /\ clients \in [Chans -> SUBSET Clients]
  /\ polled \subseteq Chans /\ crashed \in BOOLEAN /\ astray \in BOOLEAN
  /\ place \in [Clients -> {"shaking", "given", "piped", "onboard", "freed"}]
  /\ client \in [Workers -> (Clients \X Ids) \cup {None}]
  /\ chan \in [Workers -> Chans \cup {None}]
  /\ pc \in [Workers -> {"idle", "give", "at", "create", "poll", "set", "donate", "new",
                         "serve", "repoll", "kill", "gone"}]
  /\ tableMtx \in Workers \cup {None}
  /\ \A w \in Workers :
       tableMtx = w <=> pc[w] \in {"at", "create", "poll", "set", "donate"}

Making(ch) == \E w \in Workers : chan[w] = ch /\ pc[w] \in {"poll", "set"}

(* A freed channel is nowhere used: it is not in the table, not polled and *)
(* not run, so no client can be donated to it.                             *)
FreedUnused ==
  \A ch \in Chans : life[ch] = "freed" =>
    /\ \A i \in Ids : table[i] # ch
    /\ ch \notin polled /\ \A w \in Workers : chan[w] # ch

(* Two clients that ask for one id meet in one channel: of each id there   *)
(* is at most one live channel, the one in the table or, until it is put   *)
(* there, the one being made under the mutex; and none that has been freed *)
(* is met any more.  That much the mutex gives, as long as the table has   *)
(* lost no entry.                                                          *)
OneChannel ==
  /\ TypeOK
  /\ astray \/
     /\ \A ch \in Chans : life[ch] = "live" =>
          IF Making(ch) THEN table[idOf[ch]] = Null ELSE table[idOf[ch]] = ch
     /\ FreedUnused

(* A client is served on one channel or waits in one pipe, and a client    *)
(* that has been destroyed in none.                                        *)
OnePlace ==
  \A c \in Clients :
    LET in == {ch \in Chans : c \in Range(pip[ch])}
        on == {ch \in Chans : c \in clients[ch]}
    IN  /\ Cardinality(in) = IF place[c] = "piped" THEN 1 ELSE 0
        /\ Cardinality(on) = IF place[c] = "onboard" THEN 1 ELSE 0

(* A worker that gives a client away comes back, whoever else is giving,   *)
(* killing or running channels, unless one of them ends the program on an  *)
(* entry without a channel, or the table loses one.                        *)
GiveEnds == \A w \in Workers : pc[w] = "give" ~> (pc[w] = "idle" \/ crashed \/ astray)
=============================================================================
