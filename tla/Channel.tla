------------------------------ MODULE Channel ------------------------------
(***************************************************************************)
(* One chat channel of the server (app/server/channel.h): the task that a  *)
(* worker runs whenever poll() reports its pipe or one of its clients'     *)
(* sockets.  channelCB onboards the clients donated through the pipe,      *)
(* reads every client's messages into the log, sends every client the part *)
(* of the log it has not had, prunes the log and computes the descriptors  *)
(* to wait for.  Only one worker runs it at a time, but the rest of the    *)
(* server (donations), the peers (messages, hang-ups) and the kernel       *)
(* (socket buffers) move between any two of its steps.                     *)
(***************************************************************************)
EXTENDS Naturals, Sequences, FiniteSets, Vec

CONSTANTS Clients,    (* connections whose handshake has finished           *)
          Kinds,      (* kinds of payload the peers send: see Posting       *)
          MaxMsgs,    (* bound: messages posted in a behaviour              *)
          SockCap,    (* messages that fit in a client's socket buffer      *)
          PipeCap,    (* pointers that fit in the channel's pipe            *)
          Duration,   (* MSG_DURATION_SECONDS, in ticks                     *)
          MaxTime,    (* bound: last value of the clock                     *)
          Oom,        (* TRUE if an allocation may fail                     *)
          None        (* no message                                         *)

ASSUME ChannelAssumption ==
  /\ Kinds \subseteq {"logged", "transient", "empty"}
  /\ MaxMsgs \in Nat /\ SockCap \in Nat /\ PipeCap \in Nat
  /\ Duration \in Nat /\ MaxTime \in Nat
  /\ Oom \in BOOLEAN

VARIABLES
  pip,        (* clients donated and not yet onboarded                      *)
  clients,    (* chan->clients                                              *)
  log,        (* chan->log                                                  *)
  idTicker,   (* chan->idTicker                                             *)
  state,      (* client->state, NONE before the donation, FREED after De    *)
  id,         (* client->id                                                 *)
  logPlace,   (* client->logPlace                                           *)
  sndMsg,     (* the message a client's tunnel is part way through          *)
  trigs,      (* chan->trigs: which events of each client wake the task     *)
  pc, cur,    (* where channelCB is, and its iterator over clients          *)
  freed,      (* messages whose data has been freed                         *)
  inbox,      (* payloads a peer has sent and the server has not read       *)
  open,       (* the peer is still there                                    *)
  room,       (* messages the socket will take without blocking             *)
  got,        (* what each peer has received                                *)
  posted,     (* number of messages posted                                  *)
  now,        (* time(NULL)                                                 *)
  torn        (* pruneLog has removed messages in front of a client that    *)
              (* was behind: what the log holds since is no longer the log  *)

chanVars   == <<pip, clients, log, idTicker, freed, torn>>
clientVars == <<state, id, logPlace, sndMsg>>
peerVars   == <<inbox, open, room, got, posted>>
taskVars   == <<trigs, pc, cur>>
vars == <<chanVars, clientVars, peerVars, taskVars, now>>

Message == [n : 1 .. MaxMsgs, sender : Nat, kind : {"logged", "transient"}, ts : Nat]
CState == {"NONE", "DEFAULT", "ONBOARD", "SNDBLK", "DEAD", "FREED"}
Phase == {"poll", "new", "reads", "sends", "prune", "finish", "kill", "dead"}
Posting == [n : 1 .. MaxMsgs, kind : Kinds]

Onboard == {clients[i] : i \in 1 .. Len(clients)}

-----------------------------------------------------------------------------
(* The world around the task.                                              *)

(* channelDonate: another worker passes the client's pointer through the   *)
(* pipe; a full pipe costs the client its connection.                      *)
Donate(c) ==
  /\ pc # "dead"
  /\ state[c] = "NONE"
  /\ IF Len(pip) < PipeCap
     THEN /\ pip' = Append(pip, c)
          /\ state' = [state EXCEPT ![c] = "DEFAULT"]
          /\ UNCHANGED open
     ELSE /\ state' = [state EXCEPT ![c] = "FREED"]
          /\ open' = [open EXCEPT ![c] = FALSE]
          /\ UNCHANGED pip
  /\ UNCHANGED <<clients, log, idTicker, freed, torn, id, logPlace, sndMsg,
                 inbox, room, got, posted, taskVars, now>>

(* A peer posts a payload.                                                 *)
PeerSend(c, k) ==
  /\ open[c]
  /\ posted < MaxMsgs
  /\ posted' = posted + 1
  /\ inbox' = [inbox EXCEPT ![c] = Append(@, [n |-> posted + 1, kind |-> k])]
  /\ UNCHANGED <<chanVars, clientVars, open, room, got, taskVars, now>>

PeerHangUp(c) ==
  /\ open[c]
  /\ open' = [open EXCEPT ![c] = FALSE]
  /\ UNCHANGED <<chanVars, clientVars, inbox, room, got, posted, taskVars, now>>

(* The peer takes data off the wire: its socket has room again.            *)
PeerDrain(c) ==
  /\ open[c]
  /\ room[c] < SockCap
  /\ room' = [room EXCEPT ![c] = SockCap]
  /\ UNCHANGED <<chanVars, clientVars, inbox, open, got, posted, taskVars, now>>

Tick ==
  /\ now < MaxTime
  /\ now' = now + 1
  /\ UNCHANGED <<chanVars, clientVars, peerVars, taskVars>>

(* poll() is level triggered: the task is due while an armed event holds.  *)
Ready ==
  \/ pip # <<>>
  \/ \E c \in Clients :
       \/ "IN" \in trigs[c] /\ (inbox[c] # <<>> \/ ~open[c])
       \/ "OUT" \in trigs[c] /\ room[c] > 0

StartCB ==
  /\ pc = "poll"
  /\ pc' = "new"
  /\ trigs' = [c \in Clients |-> {}]
  /\ UNCHANGED <<chanVars, clientVars, peerVars, cur, now>>

Wake == Ready /\ StartCB
(* The poller reads the revents of a pollfd it has just pushed and never   *)
(* passed to poll(): a task may also be called for no reason.              *)
SpuriousWake == ~Ready /\ StartCB

-----------------------------------------------------------------------------
(* handleNewClients.                                                       *)

NewClient ==
  /\ pc = "new" /\ pip # <<>>
  /\ LET c == Head(pip)
     IN /\ clients' = Append(clients, c)
        /\ state' = [state EXCEPT ![c] = "ONBOARD"]
        /\ id' = [id EXCEPT ![c] = idTicker]
        /\ logPlace' = [logPlace EXCEPT ![c] = 0]
  /\ pip' = Tail(pip)
  /\ idTicker' = idTicker + 1
  /\ UNCHANGED <<log, freed, torn, sndMsg, peerVars, taskVars, now>>

(* ClientVecPush has no memory: the client is destroyed and the callback   *)
(* fails, which kills the whole channel.                                   *)
NewClientFails ==
  /\ Oom
  /\ pc = "new" /\ pip # <<>>
  /\ state' = [state EXCEPT ![Head(pip)] = "FREED"]
  /\ open' = [open EXCEPT ![Head(pip)] = FALSE]
  /\ pip' = Tail(pip)
  /\ idTicker' = idTicker + 1
  /\ pc' = "kill"
  /\ UNCHANGED <<clients, log, freed, torn, id, logPlace, sndMsg,
                 inbox, room, got, posted, trigs, cur, now>>

NewClientsDone ==
  /\ pc = "new" /\ pip = <<>>
  /\ pc' = "reads" /\ cur' = 1
  /\ UNCHANGED <<chanVars, clientVars, peerVars, trigs, now>>

-----------------------------------------------------------------------------
(* handleClientReads: the inner loop empties one client's socket.          *)

AtClient(phase) == pc = phase /\ cur <= Len(clients)

ReadMsg ==
  /\ AtClient("reads")
  /\ LET c == clients[cur]
     IN /\ inbox[c] # <<>> /\ Head(inbox[c]).kind # "empty"
        /\ LET p == Head(inbox[c])
           IN log' = Append(log, [n |-> p.n, sender |-> id[c], kind |-> p.kind,
                                  ts |-> now + Duration])
        /\ inbox' = [inbox EXCEPT ![c] = Tail(@)]
  /\ UNCHANGED <<pip, clients, idTicker, freed, torn, clientVars,
                 open, room, got, posted, taskVars, now>>

(* logMsg refuses an empty payload, or has no memory for it: the client    *)
(* is marked dead and the iterator moves on.                               *)
ReadFails ==
  /\ AtClient("reads")
  /\ LET c == clients[cur]
     IN /\ inbox[c] # <<>>
        /\ Head(inbox[c]).kind = "empty" \/ Oom
        /\ inbox' = [inbox EXCEPT ![c] = Tail(@)]
        /\ state' = [state EXCEPT ![c] = "DEAD"]
  /\ cur' = cur + 1
  /\ UNCHANGED <<chanVars, id, logPlace, sndMsg, open, room, got, posted, trigs, pc, now>>

ReadHangUp ==
  /\ AtClient("reads")
  /\ LET c == clients[cur]
     IN /\ inbox[c] = <<>> /\ ~open[c]
        /\ state' = [state EXCEPT ![c] = "DEAD"]
  /\ cur' = cur + 1
  /\ UNCHANGED <<chanVars, id, logPlace, sndMsg, peerVars, trigs, pc, now>>

ReadNothing ==
  /\ AtClient("reads")
  /\ inbox[clients[cur]] = <<>> /\ open[clients[cur]]
  /\ cur' = cur + 1
  /\ UNCHANGED <<chanVars, clientVars, peerVars, trigs, pc, now>>

(* clearDeadClients: the removal is over the whole vector.                 *)
Dead == {i \in 1 .. Len(clients) : state[clients[i]] = "DEAD"}
ClearDeadClients ==
  LET gone == {clients[i] : i \in Dead}
  IN  /\ clients' = VecRm(clients, Len(clients), Dead)
      /\ state' = [c \in Clients |-> IF c \in gone THEN "FREED" ELSE state[c]]
      /\ open' = [c \in Clients |-> open[c] /\ c \notin gone]

ReadsDone ==
  /\ pc = "reads" /\ cur > Len(clients)
  /\ ClearDeadClients
  /\ pc' = "sends" /\ cur' = 1
  /\ UNCHANGED <<pip, log, idTicker, freed, torn, id, logPlace, sndMsg,
                 inbox, room, got, posted, trigs, now>>

-----------------------------------------------------------------------------
(* handleClientSends: one client gets the log from its place to the end.   *)

Current == log[logPlace[clients[cur]] + 1]
Behind(c) == logPlace[c] < Len(log)

(* Mutant of SkipOwn: any message is skipped.                              *)
SkipAny ==
  /\ AtClient("sends") /\ Behind(clients[cur])
  /\ logPlace' = [logPlace EXCEPT ![clients[cur]] = @ + 1]
  /\ UNCHANGED <<chanVars, state, id, sndMsg, peerVars, taskVars, now>>

SkipOwn ==
  /\ AtClient("sends") /\ Behind(clients[cur])
  /\ Current.sender = id[clients[cur]]
  /\ logPlace' = [logPlace EXCEPT ![clients[cur]] = @ + 1]
  /\ UNCHANGED <<chanVars, state, id, sndMsg, peerVars, taskVars, now>>

(* TunnelSendP has a message to send to the client at the iterator.        *)
Sending ==
  /\ AtClient("sends") /\ Behind(clients[cur])
  /\ Current.sender # id[clients[cur]]

(* What the peer makes of a message that went out to the end.  A tunnel    *)
(* that was part way through another one has sent that one's first chunk   *)
(* and this one's remainder, which is neither (None); and the data of an   *)
(* entry that is already freed may read as anything.                       *)
Received(c) ==
  IF sndMsg[c] \notin {None, Current} THEN {None}
  ELSE {Current} \cup (IF Current.n \in freed THEN {None} ELSE {})

(* The whole message goes out.                                             *)
SendOk ==
  /\ Sending
  /\ LET c == clients[cur]
     IN /\ open[c] /\ room[c] > 0
        /\ room' = [room EXCEPT ![c] = @ - 1]
        /\ \E m \in Received(c) : got' = [got EXCEPT ![c] = Append(@, m)]
        /\ sndMsg' = [sndMsg EXCEPT ![c] = None]
        /\ logPlace' = [logPlace EXCEPT ![c] = @ + 1]
  /\ UNCHANGED <<chanVars, state, id, inbox, open, posted, taskVars, now>>

(* Mutant of SendBlocks: the place moves past the blocked message.         *)
SendBlocksAndSkips ==
  /\ Sending
  /\ LET c == clients[cur]
     IN /\ open[c] /\ room[c] = 0
        /\ sndMsg' = [sndMsg EXCEPT ![c] = IF @ = None THEN Current ELSE @]
        /\ state' = [state EXCEPT ![c] = "SNDBLK"]
        /\ logPlace' = [logPlace EXCEPT ![c] = @ + 1]
  /\ cur' = cur + 1
  /\ UNCHANGED <<chanVars, id, peerVars, trigs, pc, now>>

(* The socket is full: the first chunk is already encrypted in the tunnel. *)
SendBlocks ==
  /\ Sending
  /\ LET c == clients[cur]
     IN /\ open[c] /\ room[c] = 0
        /\ sndMsg' = [sndMsg EXCEPT ![c] = IF @ = None THEN Current ELSE @]
        /\ state' = [state EXCEPT ![c] = "SNDBLK"]
  /\ cur' = cur + 1
  /\ UNCHANGED <<chanVars, id, logPlace, peerVars, trigs, pc, now>>

SendFails ==
  /\ Sending
  /\ ~open[clients[cur]]
  /\ state' = [state EXCEPT ![clients[cur]] = "DEAD"]
  /\ cur' = cur + 1
  /\ UNCHANGED <<chanVars, id, logPlace, sndMsg, peerVars, trigs, pc, now>>

CaughtUp ==
  /\ AtClient("sends") /\ ~Behind(clients[cur])
  /\ cur' = cur + 1
  /\ UNCHANGED <<chanVars, clientVars, peerVars, trigs, pc, now>>

SendsDone ==
  /\ pc = "sends" /\ cur > Len(clients)
  /\ ClearDeadClients
  /\ pc' = "prune" /\ cur' = 1
  /\ UNCHANGED <<pip, log, idTicker, freed, torn, id, logPlace, sndMsg,
                 inbox, room, got, posted, trigs, now>>

-----------------------------------------------------------------------------
(* pruneLog: of the messages every client has had, drop first the ones not *)
(* to be logged, then the ones past their time.                            *)

LastPlace ==
  LET places == {logPlace[c] : c \in Onboard} \cup {Len(log)}
  IN  CHOOSE p \in places : \A q \in places : p <= q

(* Mutant of NotLogged: the test is the wrong way round.                   *)
NotLoggedInverted(s, n) == {{i \in 1 .. n : s[i].kind = "logged"}}

(* The positions msgIsNotLogged may select.  It reads the control byte     *)
(* from the message's data: of an entry whose data is already freed it may *)
(* read anything.  (What a second free of that data does to the allocator  *)
(* is not modelled.)                                                       *)
NotLogged(s, n) ==
  LET stale == {i \in 1 .. n : s[i].n \in freed}
      sure  == {i \in 1 .. n : s[i].kind # "logged"} \ stale
  IN  {sure \cup odd : odd \in SUBSET stale}

(* Mutant of Old: a message goes in its last tick.                         *)
OldTooSoon(s, n) == {i \in 1 .. n : s[i].ts <= now}

Old(s, n) == {i \in 1 .. n : s[i].ts < now}

(* Mutant of PlacesShifted: the places are not moved.                      *)
PlacesKept(amt) == logPlace

(* Every client's place moves down with the messages before it.            *)
PlacesShifted(amt) ==
  [c \in Clients |-> IF c \in Onboard THEN logPlace[c] - amt ELSE logPlace[c]]

PruneLog ==
  /\ pc = "prune"
  /\ \E once \in NotLogged(log, LastPlace) :
       LET rest == VecRm(log, LastPlace, once)
           left == LastPlace - Cardinality(once)
           old  == Old(rest, left)
       IN /\ log' = VecRm(rest, left, old)
          /\ freed' = freed \cup {log[i].n : i \in once} \cup {rest[i].n : i \in old}
          /\ logPlace' = PlacesShifted(Cardinality(once) + Cardinality(old))
          /\ torn' = (torn \/ (once \cup old # {} /\ LastPlace < Len(log)))
  /\ pc' = "finish"
  /\ UNCHANGED <<pip, clients, idTicker, state, id, sndMsg, peerVars, trigs, cur, now>>

-----------------------------------------------------------------------------
(* The end of channelCB, and what it returns to.                           *)

(* Mutant of EventsOf: nobody waits for room to send.                      *)
EventsIn(c) == {"IN"}

(* resetChannelTriggers, and REPOLL.                                       *)
EventsOf(c) ==
  IF state[c] = "SNDBLK" THEN {"IN", "OUT"} ELSE {"IN"}

Repoll ==
  /\ pc = "finish"
  /\ clients # <<>> \/ log # <<>>
  /\ trigs' = [c \in Clients |-> IF c \in Onboard THEN EventsOf(c) ELSE {}]
  /\ state' = [c \in Clients |->
                 IF c \in Onboard /\ state[c] = "SNDBLK" THEN "ONBOARD" ELSE state[c]]
  /\ pc' = "poll"
  /\ UNCHANGED <<chanVars, id, logPlace, sndMsg, peerVars, cur, now>>

(* Nobody to serve and nothing to keep, or no memory for the triggers.     *)
GiveUp ==
  /\ pc = "finish"
  /\ (clients = <<>> /\ log = <<>>) \/ Oom
  /\ pc' = "kill"
  /\ UNCHANGED <<chanVars, clientVars, peerVars, trigs, cur, now>>

(* killChannel, ChannelDe: the clients and the log go; the pipe is closed  *)
(* with whatever pointers another worker has put in it meanwhile.          *)
KillChannel ==
  /\ pc = "kill"
  /\ freed' = freed \cup {log[i].n : i \in 1 .. Len(log)}
  /\ log' = <<>>
  /\ clients' = <<>>
  /\ state' = [c \in Clients |-> IF c \in Onboard THEN "FREED" ELSE state[c]]
  /\ open' = [c \in Clients |-> open[c] /\ c \notin Onboard]
  /\ trigs' = [c \in Clients |-> {}]
  /\ pc' = "dead"
  /\ UNCHANGED <<pip, idTicker, torn, id, logPlace, sndMsg, inbox, room, got, posted, cur, now>>

-----------------------------------------------------------------------------
Init ==
  /\ pip = <<>> /\ clients = <<>> /\ log = <<>> /\ idTicker = 0 /\ freed = {} /\ torn = FALSE
  /\ state = [c \in Clients |-> "NONE"]
  /\ id = [c \in Clients |-> 0]
  /\ logPlace = [c \in Clients |-> 0]
  /\ sndMsg = [c \in Clients |-> None]
  /\ inbox = [c \in Clients |-> <<>>]
  /\ open = [c \in Clients |-> TRUE]
  /\ room = [c \in Clients |-> SockCap]
  /\ got = [c \in Clients |-> <<>>]
  /\ posted = 0
  /\ trigs = [c \in Clients |-> {}]
  /\ pc = "poll" /\ cur = 1
  /\ now = 0

Environment ==
  \/ \E c \in Clients : Donate(c) \/ PeerHangUp(c) \/ PeerDrain(c)
  \/ \E c \in Clients, k \in Kinds : PeerSend(c, k)
  \/ Tick
  \/ SpuriousWake

ChannelCB ==
  \/ Wake \/ NewClient \/ NewClientFails \/ NewClientsDone
  \/ ReadMsg \/ ReadFails \/ ReadHangUp \/ ReadNothing \/ ReadsDone
  \/ SkipOwn \/ SendOk \/ SendBlocks \/ SendFails \/ CaughtUp \/ SendsDone
  \/ PruneLog \/ Repoll \/ GiveUp \/ KillChannel

Next == Environment \/ ChannelCB

Spec == Init /\ [][Next]_vars

(* A worker takes every ready task and runs it to the end; a peer that     *)
(* stays reads what is sent to it.                                         *)
FairSpec ==
  /\ Spec
  /\ WF_vars(ChannelCB)
  /\ \A c \in Clients : WF_vars(PeerDrain(c))
-----------------------------------------------------------------------------
ChanTypeOK ==
  /\ pip \in Seq(Clients) /\ clients \in Seq(Clients)
  /\ log \in Seq(Message)
  /\ idTicker \in Nat
  /\ freed \subseteq 1 .. MaxMsgs
ClientTypeOK ==
  /\ state \in [Clients -> CState]
  /\ id \in [Clients -> Nat]
  /\ logPlace \in [Clients -> Nat]
  /\ sndMsg \in [Clients -> Message \cup {None}]
PeerTypeOK ==
  /\ inbox \in [Clients -> Seq(Posting)]
  /\ open \in [Clients -> BOOLEAN]
  /\ room \in [Clients -> 0 .. SockCap]
  /\ got \in [Clients -> Seq(Message \cup {None})]
  /\ posted \in 0 .. MaxMsgs
TaskTypeOK ==
  /\ trigs \in [Clients -> SUBSET {"IN", "OUT"}]
  /\ pc \in Phase
  /\ cur \in Nat \ {0}
TypeOK ==
  ChanTypeOK /\ ClientTypeOK /\ PeerTypeOK /\ TaskTypeOK /\ now \in 0 .. MaxTime

(* No client's place is past the end of the log, whatever pruneLog removed *)
(* and subtracted: this is what the assertions of VecRm (finish <= Size)   *)
(* and the loop of handleClientSends (logPlace < logEnd) rely on.          *)
PlacesInLog == \A c \in Onboard : logPlace[c] <= Len(log)

(* A tunnel that stopped part way through a message is next called with    *)
(* that very message, as net.h asks: net and tunnel keep the place in the  *)
(* message, not its data.                                                  *)
ResumesSameMessage ==
  pc # "dead" =>
    \A c \in Onboard : sndMsg[c] # None =>
      logPlace[c] < Len(log) /\ log[logPlace[c] + 1] = sndMsg[c]

(* While the task waits in poll(), a client it has not sent the whole log  *)
(* to is one it waits for to become writable: no backlog is forgotten      *)
(* until some unrelated event wakes the channel.                           *)
BacklogArmed ==
  pc = "poll" => \A c \in Onboard :
    /\ "IN" \in trigs[c]
    /\ logPlace[c] < Len(log) => "OUT" \in trigs[c]

(* A message to be logged stays for MSG_DURATION_SECONDS: only its age, or *)
(* the end of the channel, takes it out of the log, as long as the removal *)
(* of pruneLog has not torn the log.                                       *)
LoggedStays ==
  [][\A i \in 1 .. Len(log) :
       (log[i].kind = "logged" /\ log[i].ts >= now /\ pc # "kill" /\ ~torn') =>
         \E j \in 1 .. Len(log') : log'[j] = log[i]]_vars

(* Torn or not, pruneLog frees no message's data before its time: what it  *)
(* frees was not to be logged, or is past its time.                        *)
FreedInTime ==
  [][\A n \in freed' \ freed : pc # "kill" =>
       \E i \in 1 .. Len(log) :
         log[i].n = n /\ (log[i].kind # "logged" \/ log[i].ts < now)]_vars

Awaits(c, n) ==
  /\ c \in Onboard /\ state[c] # "DEAD"
  /\ \E i \in logPlace[c] + 1 .. Len(log) :
       log[i].n = n /\ log[i].sender # id[c]
Has(c, n) == \E j \in 1 .. Len(got[c]) : got[c][j] # None /\ got[c][j].n = n

(* A client that stays, and whose peer keeps reading, gets every message   *)
(* that was in the log when it came or entered it later, until the log is  *)
(* torn.                                                                   *)
EventuallyDelivered ==
  \A c \in Clients, n \in 1 .. MaxMsgs :
    Awaits(c, n) ~> (Has(c, n) \/ state[c] = "FREED" \/ torn)
=============================================================================
