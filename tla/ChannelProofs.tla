--------------------------- MODULE ChannelProofs ---------------------------
(***************************************************************************)
(* For any number of clients and messages and any capacity of the sockets: *)
(* the channel task is well typed, never indexes past its log, and never   *)
(* goes to sleep on a backlog it is not waiting to send, and frees no      *)
(* message before its time.  All of that holds whatever the removal of     *)
(* pruneLog does to the contents of the log; that the messages to be       *)
(* logged stay in it holds until the removal tears it (torn).              *)
(***************************************************************************)
EXTENDS Channel, VecProofs

(* Who is in the vector, by the phase of the callback.                     *)
States ==
  \A c \in Onboard :
    /\ pc # "kill" => state[c] \in {"ONBOARD", "SNDBLK", "DEAD"}
    /\ pc \in {"poll", "new", "prune", "finish"} => state[c] # "DEAD"
    /\ pc \in {"poll", "new", "reads"} => state[c] # "SNDBLK"

(* Every client the sending loop is done with has had the whole log or is  *)
(* known to be blocked.                                                    *)
BacklogKnown ==
  /\ pc = "sends" => \A i \in 1 .. Len(clients) :
       i < cur => (Behind(clients[i]) => state[clients[i]] \in {"SNDBLK", "DEAD"})
  /\ pc \in {"prune", "finish"} => \A c \in Onboard :
       Behind(c) => state[c] = "SNDBLK"

IInv == TypeOK /\ PlacesInLog /\ States /\ BacklogKnown /\ BacklogArmed

(* What TypeOK says of the clients in the vector.                          *)
LEMMA OnboardAreClients ==
  ASSUME TypeOK
  PROVE  /\ Len(clients) \in Nat /\ Len(log) \in Nat
         /\ Onboard \subseteq Clients
         /\ \A i \in 1 .. Len(clients) : clients[i] \in Onboard
<1>1. clients \in Seq(Clients) /\ log \in Seq(Message)
  BY DEF TypeOK, ChanTypeOK
<1>2. \A i \in 1 .. Len(clients) : clients[i] \in Clients
  BY <1>1, ElementOfSeq
<1> QED BY <1>1, <1>2, LenProperties DEF Onboard

(* clearDeadClients takes the dead clients, and only them, out.            *)
LEMMA ClearDeadClientsClears ==
  ASSUME TypeOK, ClearDeadClients
  PROVE  /\ clients' \in Seq(Clients)
         /\ state' \in [Clients -> CState]
         /\ open' \in [Clients -> BOOLEAN]
         /\ Onboard' \subseteq Onboard
         /\ \A c \in Onboard' : state[c] # "DEAD" /\ state'[c] = state[c]
<1>1. clients \in Seq(Clients) /\ Dead \in SUBSET (1 .. Len(clients))
  BY DEF TypeOK, ChanTypeOK, Dead
<1>2. clients' = VecRm(clients, Len(clients), Dead)
  BY DEF ClearDeadClients
<1>3. Len(clients) \in 0 .. Len(clients)
  BY OnboardAreClients
<1>4. clients' \in Seq(Clients)
  BY <1>1, <1>2, <1>3, VecRmShortens
<1>5. PICK pos : HoldsAllBut(pos, clients', clients, Dead)
  BY <1>1, <1>2, VecRmHolds
<1>6. ASSUME NEW c \in Onboard'
      PROVE  c \in Onboard /\ state[c] # "DEAD"
  <2>1. PICK k \in 1 .. Len(clients') : c = clients'[k]
    BY DEF Onboard
  <2>2. pos[k] \in (1 .. Len(clients)) \ Dead /\ c = clients[pos[k]]
    BY <1>5, <2>1 DEF HoldsAllBut
  <2> QED BY <2>2 DEF Dead, Onboard
<1>7. \A i \in Dead : state[clients[i]] = "DEAD"
  BY DEF Dead
<1>8. ASSUME NEW c \in Onboard'
      PROVE  state'[c] = state[c]
  <2>1. c \in Clients /\ c \notin {clients[i] : i \in Dead}
    BY <1>6, <1>7, OnboardAreClients
  <2> QED BY <2>1 DEF ClearDeadClients
<1>9. /\ state' \in [Clients -> CState]
      /\ open' \in [Clients -> BOOLEAN]
  BY DEF ClearDeadClients, TypeOK, ClientTypeOK, PeerTypeOK, CState
<1> QED BY <1>4, <1>6, <1>8, <1>9

(* pruneLog's range ends at the least of the clients' places, and no later *)
(* than the log.                                                           *)
LEMMA LastPlaceIsLeast ==
  ASSUME TypeOK
  PROVE  /\ LastPlace \in 0 .. Len(log)
         /\ \A c \in Onboard : LastPlace <= logPlace[c]
<1> DEFINE places == {logPlace[c] : c \in Onboard} \cup {Len(log)}
<1>1. places \in SUBSET Nat /\ places # {} /\ Len(log) \in places
  <2>1. logPlace \in [Clients -> Nat]
    BY DEF TypeOK, ClientTypeOK
  <2> QED BY <2>1, OnboardAreClients
<1>2. \E x \in places : \A y \in places : x <= y
  <2> HIDE DEF places
  <2> QED BY <1>1, LeastNatural
<1>3. LastPlace \in places /\ \A y \in places : LastPlace <= y
  BY <1>2 DEF LastPlace
<1>4. LastPlace \in Nat /\ LastPlace <= Len(log)
  <2> HIDE DEF places
  <2> QED BY <1>1, <1>3
<1> QED BY <1>3, <1>4, OnboardAreClients

(* What pruneLog's first removal selects is not to be logged, or has been  *)
(* freed already.                                                          *)
LEMMA NotLoggedSelects ==
  ASSUME NEW s, NEW n, NEW once \in NotLogged(s, n)
  PROVE  /\ once \in SUBSET (1 .. n)
         /\ \A i \in once : s[i].kind # "logged" \/ s[i].n \in freed
<1> DEFINE stale == {i \in 1 .. n : s[i].n \in freed}
           sure  == {i \in 1 .. n : s[i].kind # "logged"} \ stale
<1>1. PICK odd \in SUBSET stale : once = sure \cup odd
  BY DEF NotLogged
<1> QED BY <1>1

(* What pruneLog leaves: the log is shorter by what every place goes down. *)
LEMMA PruneLogShifts ==
  ASSUME TypeOK, PlacesInLog, PruneLog
  PROVE  \E amt \in Nat :
           /\ log' \in Seq(Message) /\ Len(log') = Len(log) - amt
           /\ \A c \in Onboard : amt <= logPlace[c] /\ logPlace'[c] = logPlace[c] - amt
           /\ logPlace' \in [Clients -> Nat]
           /\ freed' \subseteq 1 .. MaxMsgs
<1>0. PICK once \in NotLogged(log, LastPlace) :
        LET rest == VecRm(log, LastPlace, once)
            left == LastPlace - Cardinality(once)
            old  == Old(rest, left)
        IN /\ log' = VecRm(rest, left, old)
           /\ freed' = freed \cup {log[i].n : i \in once} \cup {rest[i].n : i \in old}
           /\ logPlace' = PlacesShifted(Cardinality(once) + Cardinality(old))
  BY DEF PruneLog
<1> DEFINE rest == VecRm(log, LastPlace, once)
           left == LastPlace - Cardinality(once)
           old  == Old(rest, left)
           amt  == Cardinality(once) + Cardinality(old)
<1>1. LastPlace \in 0 .. Len(log) /\ \A c \in Onboard : LastPlace <= logPlace[c]
  BY LastPlaceIsLeast
<1>2. log \in Seq(Message) /\ once \in SUBSET (1 .. LastPlace)
  BY NotLoggedSelects DEF TypeOK, ChanTypeOK
<1>3. /\ Cardinality(once) \in 0 .. LastPlace
      /\ rest \in Seq(Message) /\ Len(rest) = Len(log) - Cardinality(once)
  <2> QED BY <1>1, <1>2, VecRmShortens
<1>4. left \in 0 .. Len(rest) /\ old \in SUBSET (1 .. left)
  BY <1>1, <1>3, OnboardAreClients DEF Old
<1>5. /\ Cardinality(old) \in 0 .. left
      /\ VecRm(rest, left, old) \in Seq(Message)
      /\ Len(VecRm(rest, left, old)) = Len(rest) - Cardinality(old)
  <2> HIDE DEF rest, left, old
  <2> QED BY <1>3, <1>4, VecRmShortens
<1>6. amt \in Nat /\ amt <= LastPlace
  <2> HIDE DEF rest, old
  <2> QED BY <1>1, <1>3, <1>5
<1>7. log' = VecRm(rest, left, old)
  BY <1>0
<1>8. Len(log') = Len(log) - amt
  <2> HIDE DEF rest, left, old
  <2> QED BY <1>1, <1>3, <1>5, <1>7, OnboardAreClients
<1>9. logPlace' = [c \in Clients |-> IF c \in Onboard THEN logPlace[c] - amt ELSE logPlace[c]]
  BY <1>0 DEF PlacesShifted
<1>10. logPlace' \in [Clients -> Nat]
       /\ \A c \in Onboard : amt <= logPlace[c] /\ logPlace'[c] = logPlace[c] - amt
  <2> HIDE DEF amt
  <2>1. logPlace \in [Clients -> Nat]
    BY DEF TypeOK, ClientTypeOK
  <2>2. \A c \in Onboard : amt <= logPlace[c]
    BY <1>1, <1>6, <2>1, OnboardAreClients
  <2> QED BY <1>6, <1>9, <2>1, <2>2, OnboardAreClients
<1>11. freed' \subseteq 1 .. MaxMsgs
  <2>1. freed' = freed \cup {log[i].n : i \in once} \cup {rest[i].n : i \in old}
    BY <1>0
  <2>2. \A i \in once : log[i] \in Message
    <3> QED BY <1>1, <1>2, ElementOfSeq, OnboardAreClients
  <2>3. \A i \in old : rest[i] \in Message
    <3> HIDE DEF rest, left, old
    <3> QED BY <1>3, <1>4, ElementOfSeq, LenProperties
  <2>4. freed \subseteq 1 .. MaxMsgs
    BY DEF TypeOK, ChanTypeOK
  <2>5. \A m \in Message : m.n \in 1 .. MaxMsgs
    BY DEF Message
  <2> HIDE DEF rest, left, old
  <2> QED BY <2>1, <2>2, <2>3, <2>4, <2>5
<1> HIDE DEF amt
<1> QED BY <1>5, <1>6, <1>7, <1>8, <1>10, <1>11

(* Every action keeps the types.  PlacesInLog is needed for PruneLog: a    *)
(* place past the end of the log could be shifted below zero.              *)
LEMMA TypeStep ==
  ASSUME TypeOK, PlacesInLog, [Next]_vars
  PROVE  TypeOK'
<1> USE ChannelAssumption
<1>0. /\ Len(clients) \in Nat /\ Len(log) \in Nat
      /\ \A i \in 1 .. Len(clients) : clients[i] \in Clients
      /\ \A i \in 1 .. Len(log) : log[i] \in Message
      /\ pip # <<>> => Head(pip) \in Clients
  <2>1. pip \in Seq(Clients) /\ clients \in Seq(Clients) /\ log \in Seq(Message)
    BY DEF TypeOK, ChanTypeOK
  <2> QED BY <2>1, ElementOfSeq, LenProperties, HeadTailProperties
<1>1. ASSUME NEW c \in Clients, Donate(c)
      PROVE  TypeOK'
  <2>1. ChanTypeOK'
    <3>1. pip' = pip \/ pip' = Append(pip, c)
      BY <1>1 DEF Donate
    <3>2. pip \in Seq(Clients) /\ pip' \in Seq(Clients)
      BY <3>1, SMTT(60) DEF TypeOK, ChanTypeOK
    <3>3. UNCHANGED <<clients, log, idTicker, freed>>
      BY <1>1 DEF Donate
    <3> QED BY <3>2, <3>3 DEF TypeOK, ChanTypeOK
  <2>2. ClientTypeOK'
    BY <1>0, <1>1 DEF Donate, taskVars, TypeOK, ClientTypeOK, CState
  <2>3. PeerTypeOK'
    BY <1>0, <1>1 DEF Donate, taskVars, TypeOK, PeerTypeOK, CState
  <2>4. TaskTypeOK' /\ now' \in 0 .. MaxTime
    BY <1>1 DEF Donate, taskVars, TypeOK, TaskTypeOK
  <2> QED BY <2>1, <2>2, <2>3, <2>4 DEF TypeOK
<1>2. ASSUME NEW c \in Clients, NEW k \in Kinds, PeerSend(c, k)
      PROVE  TypeOK'
  <2>1. PeerTypeOK'
    <3> DEFINE p == [n |-> posted + 1, kind |-> k]
    <3>1. p \in Posting /\ posted + 1 \in 0 .. MaxMsgs
      BY <1>2 DEF PeerSend, Posting, TypeOK, PeerTypeOK
    <3>2. inbox' = [inbox EXCEPT ![c] = Append(@, p)] /\ inbox \in [Clients -> Seq(Posting)]
      BY <1>2 DEF PeerSend, TypeOK, PeerTypeOK
    <3>3. inbox' \in [Clients -> Seq(Posting)]
      <4> HIDE DEF p
      <4> QED BY <3>1, <3>2
    <3> QED BY <3>1, <3>3, <1>2 DEF PeerSend, TypeOK, PeerTypeOK
  <2>2. ChanTypeOK' /\ ClientTypeOK' /\ TaskTypeOK' /\ now' \in 0 .. MaxTime
    BY <1>2
    DEF PeerSend, chanVars, clientVars, taskVars, TypeOK, ChanTypeOK,
        ClientTypeOK, TaskTypeOK
  <2> QED BY <2>1, <2>2 DEF TypeOK
<1>3. ASSUME NEW c \in Clients, PeerHangUp(c)
      PROVE  TypeOK'
  <2>1. PeerTypeOK'
    BY <1>0, <1>3
    DEF PeerHangUp, chanVars, clientVars, taskVars, TypeOK, PeerTypeOK
  <2>2. ChanTypeOK' /\ ClientTypeOK' /\ TaskTypeOK' /\ now' \in 0 .. MaxTime
    BY <1>3
    DEF PeerHangUp, chanVars, clientVars, taskVars, TypeOK, ChanTypeOK,
        ClientTypeOK, TaskTypeOK
  <2> QED BY <2>1, <2>2 DEF TypeOK
<1>4. ASSUME NEW c \in Clients, PeerDrain(c)
      PROVE  TypeOK'
  <2>1. PeerTypeOK'
    BY <1>0, <1>4
    DEF PeerDrain, chanVars, clientVars, taskVars, TypeOK, PeerTypeOK
  <2>2. ChanTypeOK' /\ ClientTypeOK' /\ TaskTypeOK' /\ now' \in 0 .. MaxTime
    BY <1>4
    DEF PeerDrain, chanVars, clientVars, taskVars, TypeOK, ChanTypeOK,
        ClientTypeOK, TaskTypeOK
  <2> QED BY <2>1, <2>2 DEF TypeOK
<1>5. ASSUME Tick
      PROVE  TypeOK'
  <2>1. ChanTypeOK' /\ ClientTypeOK' /\ PeerTypeOK' /\ TaskTypeOK' /\ now' \in 0 .. MaxTime
    BY <1>5
    DEF Tick, chanVars, clientVars, peerVars, taskVars, TypeOK, ChanTypeOK,
        ClientTypeOK, PeerTypeOK, TaskTypeOK
  <2> QED BY <2>1 DEF TypeOK
<1>6. ASSUME StartCB
      PROVE  TypeOK'
  <2>1. TaskTypeOK'
    BY <1>0, <1>6
    DEF StartCB, chanVars, clientVars, peerVars, TypeOK, TaskTypeOK, Phase
  <2>2. ChanTypeOK' /\ ClientTypeOK' /\ PeerTypeOK' /\ now' \in 0 .. MaxTime
    BY <1>6
    DEF StartCB, chanVars, clientVars, peerVars, TypeOK, ChanTypeOK,
        ClientTypeOK, PeerTypeOK
  <2> QED BY <2>1, <2>2 DEF TypeOK
<1>7. ASSUME NewClient
      PROVE  TypeOK'
  <2>1. ChanTypeOK'
    BY <1>0, <1>7 DEF NewClient, peerVars, taskVars, TypeOK, ChanTypeOK, CState
  <2>2. ClientTypeOK'
    <3>1. Head(pip) \in Clients
      BY <1>0, <1>7 DEF NewClient
    <3> QED BY <3>1, <1>7
          DEF NewClient, TypeOK, ChanTypeOK, ClientTypeOK, CState
  <2>3. PeerTypeOK' /\ TaskTypeOK' /\ now' \in 0 .. MaxTime
    BY <1>7 DEF NewClient, peerVars, taskVars, TypeOK, PeerTypeOK, TaskTypeOK
  <2> QED BY <2>1, <2>2, <2>3 DEF TypeOK
<1>8. ASSUME NewClientFails
      PROVE  TypeOK'
  <2>1. ChanTypeOK'
    BY <1>0, <1>8 DEF NewClientFails, TypeOK, ChanTypeOK, CState, Phase
  <2>2. ClientTypeOK'
    BY <1>0, <1>8 DEF NewClientFails, TypeOK, ClientTypeOK, CState, Phase
  <2>3. PeerTypeOK'
    BY <1>0, <1>8 DEF NewClientFails, TypeOK, PeerTypeOK, CState, Phase
  <2>4. TaskTypeOK'
    BY <1>0, <1>8 DEF NewClientFails, TypeOK, TaskTypeOK, CState, Phase
  <2>5. now' \in 0 .. MaxTime
    BY <1>8 DEF NewClientFails, TypeOK
  <2> QED BY <2>1, <2>2, <2>3, <2>4, <2>5 DEF TypeOK
<1>9. ASSUME NewClientsDone
      PROVE  TypeOK'
  <2>1. TaskTypeOK'
    BY <1>0, <1>9
    DEF NewClientsDone, chanVars, clientVars, peerVars, TypeOK, TaskTypeOK,
        Phase
  <2>2. ChanTypeOK' /\ ClientTypeOK' /\ PeerTypeOK' /\ now' \in 0 .. MaxTime
    BY <1>9
    DEF NewClientsDone, chanVars, clientVars, peerVars, TypeOK, ChanTypeOK,
        ClientTypeOK, PeerTypeOK
  <2> QED BY <2>1, <2>2 DEF TypeOK
<1>10. ASSUME ReadMsg
      PROVE  TypeOK'
  <2>1. clients[cur] \in Clients /\ cur \in 1 .. Len(clients)
    BY <1>0, <1>10 DEF ReadMsg, AtClient, TypeOK, TaskTypeOK
  <2>2. ChanTypeOK'
    <3> DEFINE p == Head(inbox[clients[cur]])
               m == [n |-> p.n, sender |-> id[clients[cur]], kind |-> p.kind,
                     ts |-> now + Duration]
    <3>1. p \in Posting /\ p.kind # "empty"
      <4>1. inbox[clients[cur]] \in Seq(Posting) /\ inbox[clients[cur]] # <<>>
        BY <1>10, <2>1 DEF ReadMsg, TypeOK, PeerTypeOK
      <4> QED BY <1>10, <4>1, HeadTailProperties DEF ReadMsg
    <3>2. p.n \in 1 .. MaxMsgs /\ p.kind \in {"logged", "transient"}
      <4> HIDE DEF p
      <4> QED BY <3>1 DEF Posting, ChannelAssumption
    <3>3. m \in Message
      <4> HIDE DEF p
      <4> QED BY <3>2, <2>1 DEF Message, TypeOK, ClientTypeOK
    <3>4. log' = Append(log, m)
      BY <1>10 DEF ReadMsg
    <3>5. log' \in Seq(Message)
      <4> HIDE DEF m
      <4> QED BY <3>3, <3>4 DEF TypeOK, ChanTypeOK
    <3>6. UNCHANGED <<pip, clients, idTicker, freed>>
      BY <1>10 DEF ReadMsg
    <3> HIDE DEF m
    <3> QED BY <3>5, <3>6 DEF TypeOK, ChanTypeOK
  <2>3. PeerTypeOK'
    <3>1. inbox[clients[cur]] \in Seq(Posting) /\ inbox[clients[cur]] # <<>>
      BY <1>10, <2>1 DEF ReadMsg, TypeOK, PeerTypeOK
    <3>2. Tail(inbox[clients[cur]]) \in Seq(Posting)
      BY <3>1, HeadTailProperties
    <3> QED BY <3>2, <2>1, <1>10 DEF ReadMsg, TypeOK, PeerTypeOK
  <2>4. ClientTypeOK' /\ TaskTypeOK' /\ now' \in 0 .. MaxTime
    BY <1>10
      DEF ReadMsg, clientVars, taskVars, TypeOK, ClientTypeOK, TaskTypeOK
  <2> QED BY <2>2, <2>3, <2>4 DEF TypeOK
<1>11. ASSUME ReadFails
      PROVE  TypeOK'
  <2>1. clients[cur] \in Clients /\ cur \in 1 .. Len(clients)
    BY <1>0, <1>11 DEF ReadFails, AtClient, TypeOK, TaskTypeOK
  <2>2. ClientTypeOK'
    BY <1>0, <1>11, <2>1
    DEF ReadFails, chanVars, TypeOK, ClientTypeOK, AtClient, CState
  <2>3. PeerTypeOK'
    BY <1>0, <1>11, <2>1
    DEF ReadFails, chanVars, TypeOK, PeerTypeOK, AtClient, CState
  <2>4. TaskTypeOK'
    BY <1>0, <1>11, <2>1
    DEF ReadFails, chanVars, TypeOK, TaskTypeOK, AtClient, CState
  <2>5. ChanTypeOK' /\ now' \in 0 .. MaxTime
    BY <1>11 DEF ReadFails, chanVars, TypeOK, ChanTypeOK
  <2> QED BY <2>2, <2>3, <2>4, <2>5 DEF TypeOK
<1>12. ASSUME ReadHangUp
      PROVE  TypeOK'
  <2>1. clients[cur] \in Clients /\ cur \in 1 .. Len(clients)
    BY <1>0, <1>12 DEF ReadHangUp, AtClient, TypeOK, TaskTypeOK
  <2>2. ClientTypeOK'
    BY <1>0, <1>12, <2>1
    DEF ReadHangUp, chanVars, peerVars, TypeOK, ClientTypeOK, AtClient, CState
  <2>3. TaskTypeOK'
    BY <1>0, <1>12, <2>1
    DEF ReadHangUp, chanVars, peerVars, TypeOK, TaskTypeOK, AtClient, CState
  <2>4. ChanTypeOK' /\ PeerTypeOK' /\ now' \in 0 .. MaxTime
    BY <1>12 DEF ReadHangUp, chanVars, peerVars, TypeOK, ChanTypeOK, PeerTypeOK
  <2> QED BY <2>2, <2>3, <2>4 DEF TypeOK
<1>13. ASSUME ReadNothing
      PROVE  TypeOK'
  <2>1. clients[cur] \in Clients /\ cur \in 1 .. Len(clients)
    BY <1>0, <1>13 DEF ReadNothing, AtClient, TypeOK, TaskTypeOK
  <2>2. TaskTypeOK'
    BY <1>0, <1>13, <2>1
    DEF ReadNothing, chanVars, clientVars, peerVars, TypeOK, TaskTypeOK,
        AtClient
  <2>3. ChanTypeOK' /\ ClientTypeOK' /\ PeerTypeOK' /\ now' \in 0 .. MaxTime
    BY <1>13
    DEF ReadNothing, chanVars, clientVars, peerVars, TypeOK, ChanTypeOK,
        ClientTypeOK, PeerTypeOK
  <2> QED BY <2>2, <2>3 DEF TypeOK
<1>14. ASSUME ReadsDone
      PROVE  TypeOK'
  <2>1. ClearDeadClients
    BY <1>14 DEF ReadsDone
  <2>2. ChanTypeOK'
    BY <1>0, <1>14, <2>1, ClearDeadClientsClears
    DEF ReadsDone, TypeOK, ChanTypeOK, Phase
  <2>3. ClientTypeOK'
    BY <1>0, <1>14, <2>1, ClearDeadClientsClears
    DEF ReadsDone, TypeOK, ClientTypeOK, Phase
  <2>4. PeerTypeOK'
    BY <1>0, <1>14, <2>1, ClearDeadClientsClears
    DEF ReadsDone, TypeOK, PeerTypeOK, Phase
  <2>5. TaskTypeOK'
    BY <1>0, <1>14, <2>1, ClearDeadClientsClears
    DEF ReadsDone, TypeOK, TaskTypeOK, Phase
  <2>6. now' \in 0 .. MaxTime
    BY <1>14 DEF ReadsDone, TypeOK
  <2> QED BY <2>2, <2>3, <2>4, <2>5, <2>6 DEF TypeOK
<1>15. ASSUME SkipOwn
      PROVE  TypeOK'
  <2>1. clients[cur] \in Clients /\ cur \in 1 .. Len(clients)
    BY <1>0, <1>15 DEF SkipOwn, AtClient, TypeOK, TaskTypeOK
  <2>2. ClientTypeOK'
    BY <1>0, <1>15, <2>1
    DEF SkipOwn, chanVars, peerVars, taskVars, TypeOK, ClientTypeOK, AtClient,
        Behind
  <2>3. ChanTypeOK' /\ PeerTypeOK' /\ TaskTypeOK' /\ now' \in 0 .. MaxTime
    BY <1>15
    DEF SkipOwn, chanVars, peerVars, taskVars, TypeOK, ChanTypeOK, PeerTypeOK,
        TaskTypeOK
  <2> QED BY <2>2, <2>3 DEF TypeOK
<1>16. ASSUME SendOk
      PROVE  TypeOK'
  <2>1. clients[cur] \in Clients /\ cur \in 1 .. Len(clients)
    BY <1>0, <1>16 DEF SendOk, Sending, AtClient, TypeOK, TaskTypeOK
  <2>2. Current \in Message
    <3>1. logPlace[clients[cur]] \in Nat /\ logPlace[clients[cur]] < Len(log)
      BY <1>16, <2>1 DEF SendOk, Sending, Behind, TypeOK, ClientTypeOK
    <3> QED BY <1>0, <3>1 DEF Current
  <2>3. ClientTypeOK'
    BY <1>0, <1>16, <2>1, <2>2
    DEF SendOk, chanVars, taskVars, TypeOK, ClientTypeOK, Sending, AtClient,
        Behind
  <2>4. PeerTypeOK'
    <3>1. PICK m \in Received(clients[cur]) :
            got' = [got EXCEPT ![clients[cur]] = Append(@, m)]
      BY <1>16 DEF SendOk
    <3>2. m \in Message \cup {None}
      BY <2>2, <3>1 DEF Received
    <3> QED BY <1>0, <1>16, <2>1, <3>1, <3>2, SMTT(60)
        DEF SendOk, chanVars, taskVars, TypeOK, PeerTypeOK, Sending, AtClient,
            Behind
  <2>5. ChanTypeOK' /\ TaskTypeOK' /\ now' \in 0 .. MaxTime
    BY <1>16 DEF SendOk, chanVars, taskVars, TypeOK, ChanTypeOK, TaskTypeOK
  <2> QED BY <2>3, <2>4, <2>5 DEF TypeOK
<1>17. ASSUME SendBlocks
      PROVE  TypeOK'
  <2>1. clients[cur] \in Clients /\ cur \in 1 .. Len(clients)
    BY <1>0, <1>17 DEF SendBlocks, Sending, AtClient, TypeOK, TaskTypeOK
  <2>2. Current \in Message
    <3>1. logPlace[clients[cur]] \in Nat /\ logPlace[clients[cur]] < Len(log)
      BY <1>17, <2>1 DEF SendBlocks, Sending, Behind, TypeOK, ClientTypeOK
    <3> QED BY <1>0, <3>1 DEF Current
  <2>3. ClientTypeOK'
    BY <1>0, <1>17, <2>1, <2>2
    DEF SendBlocks, chanVars, peerVars, TypeOK, ClientTypeOK, Sending,
      AtClient,
        Behind, CState
  <2>4. TaskTypeOK'
    BY <1>0, <1>17, <2>1, <2>2
    DEF SendBlocks, chanVars, peerVars, TypeOK, TaskTypeOK, Sending, AtClient,
        Behind, CState
  <2>5. ChanTypeOK' /\ PeerTypeOK' /\ now' \in 0 .. MaxTime
    BY <1>17 DEF SendBlocks, chanVars, peerVars, TypeOK, ChanTypeOK, PeerTypeOK
  <2> QED BY <2>3, <2>4, <2>5 DEF TypeOK
<1>18. ASSUME SendFails
      PROVE  TypeOK'
  <2>1. clients[cur] \in Clients /\ cur \in 1 .. Len(clients)
    BY <1>0, <1>18 DEF SendFails, Sending, AtClient, TypeOK, TaskTypeOK
  <2>2. ClientTypeOK'
    BY <1>0, <1>18, <2>1
    DEF SendFails, chanVars, peerVars, TypeOK, ClientTypeOK, Sending, AtClient,
        Behind, CState
  <2>3. TaskTypeOK'
    BY <1>0, <1>18, <2>1
    DEF SendFails, chanVars, peerVars, TypeOK, TaskTypeOK, Sending, AtClient,
        Behind, CState
  <2>4. ChanTypeOK' /\ PeerTypeOK' /\ now' \in 0 .. MaxTime
    BY <1>18 DEF SendFails, chanVars, peerVars, TypeOK, ChanTypeOK, PeerTypeOK
  <2> QED BY <2>2, <2>3, <2>4 DEF TypeOK
<1>19. ASSUME CaughtUp
      PROVE  TypeOK'
  <2>1. clients[cur] \in Clients /\ cur \in 1 .. Len(clients)
    BY <1>0, <1>19 DEF CaughtUp, AtClient, TypeOK, TaskTypeOK
  <2>2. TaskTypeOK'
    BY <1>0, <1>19, <2>1
    DEF CaughtUp, chanVars, clientVars, peerVars, TypeOK, TaskTypeOK, AtClient
  <2>3. ChanTypeOK' /\ ClientTypeOK' /\ PeerTypeOK' /\ now' \in 0 .. MaxTime
    BY <1>19
    DEF CaughtUp, chanVars, clientVars, peerVars, TypeOK, ChanTypeOK,
        ClientTypeOK, PeerTypeOK
  <2> QED BY <2>2, <2>3 DEF TypeOK
<1>20. ASSUME SendsDone
      PROVE  TypeOK'
  <2>1. ClearDeadClients
    BY <1>20 DEF SendsDone
  <2>2. ChanTypeOK'
    BY <1>0, <1>20, <2>1, ClearDeadClientsClears
    DEF SendsDone, TypeOK, ChanTypeOK, Phase
  <2>3. ClientTypeOK'
    BY <1>0, <1>20, <2>1, ClearDeadClientsClears
    DEF SendsDone, TypeOK, ClientTypeOK, Phase
  <2>4. PeerTypeOK'
    BY <1>0, <1>20, <2>1, ClearDeadClientsClears
    DEF SendsDone, TypeOK, PeerTypeOK, Phase
  <2>5. TaskTypeOK'
    BY <1>0, <1>20, <2>1, ClearDeadClientsClears
    DEF SendsDone, TypeOK, TaskTypeOK, Phase
  <2>6. now' \in 0 .. MaxTime
    BY <1>20 DEF SendsDone, TypeOK
  <2> QED BY <2>2, <2>3, <2>4, <2>5, <2>6 DEF TypeOK
<1>21. ASSUME PruneLog
      PROVE  TypeOK'
  <2>1. ChanTypeOK'
    BY <1>0, <1>21, PruneLogShifts
    DEF PruneLog, peerVars, TypeOK, ChanTypeOK, Phase
  <2>2. ClientTypeOK'
    BY <1>0, <1>21, PruneLogShifts
    DEF PruneLog, peerVars, TypeOK, ClientTypeOK, Phase
  <2>3. TaskTypeOK'
    BY <1>0, <1>21, PruneLogShifts
    DEF PruneLog, peerVars, TypeOK, TaskTypeOK, Phase
  <2>4. PeerTypeOK' /\ now' \in 0 .. MaxTime
    BY <1>21 DEF PruneLog, peerVars, TypeOK, PeerTypeOK
  <2> QED BY <2>1, <2>2, <2>3, <2>4 DEF TypeOK
<1>22. ASSUME Repoll
      PROVE  TypeOK'
  <2>1. ClientTypeOK'
    BY <1>0, <1>22
    DEF Repoll, chanVars, peerVars, TypeOK, ClientTypeOK, Phase, CState
  <2>2. TaskTypeOK'
    BY <1>0, <1>22
    DEF Repoll, EventsOf, chanVars, peerVars, TypeOK, TaskTypeOK, Phase, CState
  <2>3. ChanTypeOK' /\ PeerTypeOK' /\ now' \in 0 .. MaxTime
    BY <1>22 DEF Repoll, chanVars, peerVars, TypeOK, ChanTypeOK, PeerTypeOK
  <2> QED BY <2>1, <2>2, <2>3 DEF TypeOK
<1>23. ASSUME GiveUp
      PROVE  TypeOK'
  <2>1. TaskTypeOK'
    BY <1>0, <1>23
    DEF GiveUp, chanVars, clientVars, peerVars, TypeOK, TaskTypeOK, Phase
  <2>2. ChanTypeOK' /\ ClientTypeOK' /\ PeerTypeOK' /\ now' \in 0 .. MaxTime
    BY <1>23
    DEF GiveUp, chanVars, clientVars, peerVars, TypeOK, ChanTypeOK,
        ClientTypeOK, PeerTypeOK
  <2> QED BY <2>1, <2>2 DEF TypeOK
<1>24. ASSUME KillChannel
      PROVE  TypeOK'
  <2>1. ChanTypeOK'
    <3>1. {log[i].n : i \in 1 .. Len(log)} \subseteq 1 .. MaxMsgs
      BY <1>0 DEF Message
    <3>2. log' = <<>> /\ clients' = <<>> /\ UNCHANGED <<pip, idTicker>>
      BY <1>24 DEF KillChannel
    <3>3. freed' \subseteq 1 .. MaxMsgs
      BY <3>1, <1>24 DEF KillChannel, TypeOK, ChanTypeOK
    <3>4. log' \in Seq(Message) /\ clients' \in Seq(Clients)
      BY <3>2
    <3> QED BY <3>2, <3>3, <3>4 DEF TypeOK, ChanTypeOK
  <2>2. ClientTypeOK'
    BY <1>0, <1>24 DEF KillChannel, TypeOK, ClientTypeOK, Phase, CState
  <2>3. PeerTypeOK'
    BY <1>0, <1>24 DEF KillChannel, TypeOK, PeerTypeOK, Phase, CState
  <2>4. TaskTypeOK'
    BY <1>0, <1>24 DEF KillChannel, TypeOK, TaskTypeOK, Phase, CState
  <2>5. now' \in 0 .. MaxTime
    BY <1>24 DEF KillChannel, TypeOK
  <2> QED BY <2>1, <2>2, <2>3, <2>4, <2>5 DEF TypeOK
<1>25. CASE UNCHANGED vars
  BY <1>25
  DEF vars, chanVars, clientVars, peerVars, taskVars, TypeOK, ChanTypeOK,
      ClientTypeOK, PeerTypeOK, TaskTypeOK
<1> QED BY <1>1, <1>2, <1>3, <1>4, <1>5, <1>6, <1>7, <1>8, <1>9, <1>10, <1>11,
           <1>12, <1>13, <1>14, <1>15, <1>16, <1>17, <1>18, <1>19, <1>20, <1>21,
           <1>22, <1>23, <1>24, <1>25
        DEF Next, Environment, ChannelCB, Wake, SpuriousWake

(* Every action keeps the rest of IInv.                                    *)
LEMMA RestStep ==
  ASSUME IInv, [Next]_vars, TypeOK'
  PROVE  (PlacesInLog /\ States /\ BacklogKnown /\ BacklogArmed)'
<1> USE DEF IInv
<1>0. /\ Len(clients) \in Nat /\ Len(log) \in Nat
      /\ Onboard \subseteq Clients
      /\ \A i \in 1 .. Len(clients) : clients[i] \in Onboard
      /\ state \in [Clients -> CState] /\ logPlace \in [Clients -> Nat]
      /\ trigs \in [Clients -> SUBSET {"IN", "OUT"}] /\ cur \in Nat \ {0}
  BY OnboardAreClients DEF TypeOK, ClientTypeOK, TaskTypeOK
<1>1. ASSUME NEW c \in Clients, Donate(c)
      PROVE  (PlacesInLog /\ States /\ BacklogKnown /\ BacklogArmed)'
  <2>1. Onboard' = Onboard
    BY <1>1 DEF Donate, taskVars, Onboard
  <2>2. PlacesInLog'
    BY <1>0, <1>1, <2>1 DEF Donate, taskVars, PlacesInLog, States
  <2>3. States'
    BY <1>0, <1>1, <2>1 DEF Donate, taskVars, States
  <2>4. BacklogKnown'
    BY <1>0, <1>1, <2>1 DEF Donate, taskVars, BacklogKnown, States, Behind
  <2>5. BacklogArmed'
    BY <1>0, <1>1, <2>1 DEF Donate, taskVars, BacklogArmed, States
  <2> QED BY <2>2, <2>3, <2>4, <2>5
<1>2. ASSUME NEW c \in Clients, NEW k \in Kinds, PeerSend(c, k)
      PROVE  (PlacesInLog /\ States /\ BacklogKnown /\ BacklogArmed)'
  <2>1. Onboard' = Onboard
    BY <1>2 DEF PeerSend, chanVars, clientVars, taskVars, Onboard
  <2>2. PlacesInLog'
    BY <1>0, <1>2, <2>1
    DEF PeerSend, chanVars, clientVars, taskVars, PlacesInLog, States
  <2>3. States'
    BY <1>0, <1>2, <2>1 DEF PeerSend, chanVars, clientVars, taskVars, States
  <2>4. BacklogKnown'
    BY <1>0, <1>2, <2>1
    DEF PeerSend, chanVars, clientVars, taskVars, BacklogKnown, States, Behind
  <2>5. BacklogArmed'
    BY <1>0, <1>2, <2>1
    DEF PeerSend, chanVars, clientVars, taskVars, BacklogArmed, States
  <2> QED BY <2>2, <2>3, <2>4, <2>5
<1>3. ASSUME NEW c \in Clients, PeerHangUp(c)
      PROVE  (PlacesInLog /\ States /\ BacklogKnown /\ BacklogArmed)'
  <2>1. Onboard' = Onboard
    BY <1>3 DEF PeerHangUp, chanVars, clientVars, taskVars, Onboard
  <2>2. PlacesInLog'
    BY <1>0, <1>3, <2>1
    DEF PeerHangUp, chanVars, clientVars, taskVars, PlacesInLog, States
  <2>3. States'
    BY <1>0, <1>3, <2>1 DEF PeerHangUp, chanVars, clientVars, taskVars, States
  <2>4. BacklogKnown'
    BY <1>0, <1>3, <2>1
    DEF PeerHangUp, chanVars, clientVars, taskVars, BacklogKnown, States,
      Behind
  <2>5. BacklogArmed'
    BY <1>0, <1>3, <2>1
    DEF PeerHangUp, chanVars, clientVars, taskVars, BacklogArmed, States
  <2> QED BY <2>2, <2>3, <2>4, <2>5
<1>4. ASSUME NEW c \in Clients, PeerDrain(c)
      PROVE  (PlacesInLog /\ States /\ BacklogKnown /\ BacklogArmed)'
  <2>1. Onboard' = Onboard
    BY <1>4 DEF PeerDrain, chanVars, clientVars, taskVars, Onboard
  <2>2. PlacesInLog'
    BY <1>0, <1>4, <2>1
    DEF PeerDrain, chanVars, clientVars, taskVars, PlacesInLog, States
  <2>3. States'
    BY <1>0, <1>4, <2>1 DEF PeerDrain, chanVars, clientVars, taskVars, States
  <2>4. BacklogKnown'
    BY <1>0, <1>4, <2>1
    DEF PeerDrain, chanVars, clientVars, taskVars, BacklogKnown, States, Behind
  <2>5. BacklogArmed'
    BY <1>0, <1>4, <2>1
    DEF PeerDrain, chanVars, clientVars, taskVars, BacklogArmed, States
  <2> QED BY <2>2, <2>3, <2>4, <2>5
<1>5. ASSUME Tick
      PROVE  (PlacesInLog /\ States /\ BacklogKnown /\ BacklogArmed)'
  <2>1. Onboard' = Onboard
    BY <1>5 DEF Tick, chanVars, clientVars, peerVars, taskVars, Onboard
  <2>2. PlacesInLog'
    BY <1>0, <1>5, <2>1
    DEF Tick, chanVars, clientVars, peerVars, taskVars, PlacesInLog, States
  <2>3. States'
    BY <1>0, <1>5, <2>1
      DEF Tick, chanVars, clientVars, peerVars, taskVars, States
  <2>4. BacklogKnown'
    BY <1>0, <1>5, <2>1
    DEF Tick, chanVars, clientVars, peerVars, taskVars, BacklogKnown, States,
        Behind
  <2>5. BacklogArmed'
    BY <1>0, <1>5, <2>1
    DEF Tick, chanVars, clientVars, peerVars, taskVars, BacklogArmed, States
  <2> QED BY <2>2, <2>3, <2>4, <2>5
<1>6. ASSUME StartCB
      PROVE  (PlacesInLog /\ States /\ BacklogKnown /\ BacklogArmed)'
  <2>1. Onboard' = Onboard
    BY <1>6 DEF StartCB, chanVars, clientVars, peerVars, Onboard
  <2>2. PlacesInLog'
    BY <1>0, <1>6, <2>1
    DEF StartCB, chanVars, clientVars, peerVars, PlacesInLog, States
  <2>3. States'
    BY <1>0, <1>6, <2>1 DEF StartCB, chanVars, clientVars, peerVars, States
  <2>4. BacklogKnown'
    BY <1>0, <1>6, <2>1
    DEF StartCB, chanVars, clientVars, peerVars, BacklogKnown, States, Behind
  <2>5. BacklogArmed'
    BY <1>0, <1>6, <2>1
    DEF StartCB, chanVars, clientVars, peerVars, BacklogArmed, States
  <2> QED BY <2>2, <2>3, <2>4, <2>5
<1>7. ASSUME NewClient
      PROVE  (PlacesInLog /\ States /\ BacklogKnown /\ BacklogArmed)'
  <2>1. clients' = Append(clients, Head(pip)) /\ pip # <<>> /\ pc = "new" /\ UNCHANGED <<pc, log, trigs>>
    BY <1>7 DEF NewClient, taskVars
  <2>2. Onboard' = Onboard \cup {Head(pip)} /\ Head(pip) \in Clients
    <3>1. Head(pip) \in Clients /\ clients \in Seq(Clients)
      BY <2>1, HeadTailProperties DEF TypeOK, ChanTypeOK
    <3>2. /\ Len(clients') = Len(clients) + 1 /\ clients'[Len(clients) + 1] = Head(pip)
          /\ \A i \in 1 .. Len(clients) : clients'[i] = clients[i]
      BY <2>1, <3>1, AppendProperties
    <3>3. \A i : i \in 1 .. Len(clients') <=> i \in 1 .. Len(clients) \/ i = Len(clients) + 1
      BY <1>0, <3>2
    <3>4. \A c : c \in Onboard' <=> c \in Onboard \/ c = Head(pip)
      BY <3>2, <3>3, Zenon DEF Onboard
    <3> QED BY <3>1, <3>4
  <2>3. /\ logPlace' = [logPlace EXCEPT ![Head(pip)] = 0]
        /\ state' = [state EXCEPT ![Head(pip)] = "ONBOARD"]
    BY <1>7 DEF NewClient
  <2>4. PlacesInLog'
    BY <1>0, <2>1, <2>2, <2>3 DEF PlacesInLog
  <2>5. States'
    BY <1>0, <2>1, <2>2, <2>3 DEF States
  <2>6. BacklogKnown' /\ BacklogArmed'
    BY <2>1 DEF BacklogKnown, BacklogArmed
  <2> QED BY <2>4, <2>5, <2>6
<1>8. ASSUME NewClientFails
      PROVE  (PlacesInLog /\ States /\ BacklogKnown /\ BacklogArmed)'
  <2>1. Onboard' = Onboard
    BY <1>8 DEF NewClientFails, Onboard
  <2>2. PlacesInLog'
    BY <1>0, <1>8, <2>1 DEF NewClientFails, PlacesInLog, States
  <2>3. States'
    BY <1>0, <1>8, <2>1 DEF NewClientFails, States
  <2>4. BacklogKnown'
    BY <1>0, <1>8, <2>1 DEF NewClientFails, BacklogKnown, States, Behind
  <2>5. BacklogArmed'
    BY <1>0, <1>8, <2>1 DEF NewClientFails, BacklogArmed, States
  <2> QED BY <2>2, <2>3, <2>4, <2>5
<1>9. ASSUME NewClientsDone
      PROVE  (PlacesInLog /\ States /\ BacklogKnown /\ BacklogArmed)'
  <2>1. Onboard' = Onboard
    BY <1>9 DEF NewClientsDone, chanVars, clientVars, peerVars, Onboard
  <2>2. PlacesInLog'
    BY <1>0, <1>9, <2>1
    DEF NewClientsDone, chanVars, clientVars, peerVars, PlacesInLog, States
  <2>3. States'
    BY <1>0, <1>9, <2>1
      DEF NewClientsDone, chanVars, clientVars, peerVars, States
  <2>4. BacklogKnown'
    BY <1>0, <1>9, <2>1
    DEF NewClientsDone, chanVars, clientVars, peerVars, BacklogKnown, States,
        Behind
  <2>5. BacklogArmed'
    BY <1>0, <1>9, <2>1
    DEF NewClientsDone, chanVars, clientVars, peerVars, BacklogArmed, States
  <2> QED BY <2>2, <2>3, <2>4, <2>5
<1>10. ASSUME ReadMsg
      PROVE  (PlacesInLog /\ States /\ BacklogKnown /\ BacklogArmed)'
  <2>1. Onboard' = Onboard
    BY <1>10 DEF ReadMsg, clientVars, taskVars, Onboard
  <2>2. clients[cur] \in Onboard /\ cur \in 1 .. Len(clients)
    BY <1>0, <1>10 DEF ReadMsg, AtClient
  <2>3. PlacesInLog'
    BY <1>0, <1>10, <2>1, <2>2
    DEF ReadMsg, clientVars, taskVars, PlacesInLog, States, AtClient
  <2>4. States'
    BY <1>0, <1>10, <2>1, <2>2
      DEF ReadMsg, clientVars, taskVars, States, AtClient
  <2>5. BacklogKnown'
    BY <1>0, <1>10, <2>1, <2>2
    DEF ReadMsg, clientVars, taskVars, BacklogKnown, States, AtClient, Behind
  <2>6. BacklogArmed'
    BY <1>0, <1>10, <2>1, <2>2
    DEF ReadMsg, clientVars, taskVars, BacklogArmed, States, AtClient
  <2> QED BY <2>3, <2>4, <2>5, <2>6
<1>11. ASSUME ReadFails
      PROVE  (PlacesInLog /\ States /\ BacklogKnown /\ BacklogArmed)'
  <2>1. Onboard' = Onboard
    BY <1>11 DEF ReadFails, chanVars, Onboard
  <2>2. clients[cur] \in Onboard /\ cur \in 1 .. Len(clients)
    BY <1>0, <1>11 DEF ReadFails, AtClient
  <2>3. PlacesInLog'
    BY <1>0, <1>11, <2>1, <2>2
    DEF ReadFails, chanVars, PlacesInLog, States, AtClient
  <2>4. States'
    BY <1>0, <1>11, <2>1, <2>2 DEF ReadFails, chanVars, States, AtClient
  <2>5. BacklogKnown'
    BY <1>0, <1>11, <2>1, <2>2
    DEF ReadFails, chanVars, BacklogKnown, States, AtClient, Behind
  <2>6. BacklogArmed'
    BY <1>0, <1>11, <2>1, <2>2
    DEF ReadFails, chanVars, BacklogArmed, States, AtClient
  <2> QED BY <2>3, <2>4, <2>5, <2>6
<1>12. ASSUME ReadHangUp
      PROVE  (PlacesInLog /\ States /\ BacklogKnown /\ BacklogArmed)'
  <2>1. Onboard' = Onboard
    BY <1>12 DEF ReadHangUp, chanVars, peerVars, Onboard
  <2>2. clients[cur] \in Onboard /\ cur \in 1 .. Len(clients)
    BY <1>0, <1>12 DEF ReadHangUp, AtClient
  <2>3. PlacesInLog'
    BY <1>0, <1>12, <2>1, <2>2
    DEF ReadHangUp, chanVars, peerVars, PlacesInLog, States, AtClient
  <2>4. States'
    BY <1>0, <1>12, <2>1, <2>2
    DEF ReadHangUp, chanVars, peerVars, States, AtClient
  <2>5. BacklogKnown'
    BY <1>0, <1>12, <2>1, <2>2
    DEF ReadHangUp, chanVars, peerVars, BacklogKnown, States, AtClient, Behind
  <2>6. BacklogArmed'
    BY <1>0, <1>12, <2>1, <2>2
    DEF ReadHangUp, chanVars, peerVars, BacklogArmed, States, AtClient
  <2> QED BY <2>3, <2>4, <2>5, <2>6
<1>13. ASSUME ReadNothing
      PROVE  (PlacesInLog /\ States /\ BacklogKnown /\ BacklogArmed)'
  <2>1. Onboard' = Onboard
    BY <1>13 DEF ReadNothing, chanVars, clientVars, peerVars, Onboard
  <2>2. clients[cur] \in Onboard /\ cur \in 1 .. Len(clients)
    BY <1>0, <1>13 DEF ReadNothing, AtClient
  <2>3. PlacesInLog'
    BY <1>0, <1>13, <2>1, <2>2
    DEF ReadNothing, chanVars, clientVars, peerVars, PlacesInLog, States,
        AtClient
  <2>4. States'
    BY <1>0, <1>13, <2>1, <2>2
    DEF ReadNothing, chanVars, clientVars, peerVars, States, AtClient
  <2>5. BacklogKnown'
    BY <1>0, <1>13, <2>1, <2>2
    DEF ReadNothing, chanVars, clientVars, peerVars, BacklogKnown, States,
        AtClient, Behind
  <2>6. BacklogArmed'
    BY <1>0, <1>13, <2>1, <2>2
    DEF ReadNothing, chanVars, clientVars, peerVars, BacklogArmed, States,
        AtClient
  <2> QED BY <2>3, <2>4, <2>5, <2>6
<1>14. ASSUME ReadsDone
      PROVE  (PlacesInLog /\ States /\ BacklogKnown /\ BacklogArmed)'
  <2>1. pc = "reads" /\ pc' = "sends" /\ cur' = 1 /\ UNCHANGED <<log, logPlace>> /\ ClearDeadClients
    BY <1>14 DEF ReadsDone
  <2>2. Onboard' \subseteq Onboard /\ \A c \in Onboard' : state[c] # "DEAD" /\ state'[c] = state[c]
    BY <2>1, ClearDeadClientsClears
  <2>3. PlacesInLog' /\ States' /\ BacklogArmed'
    BY <1>0, <2>1, <2>2 DEF PlacesInLog, States, BacklogArmed
  <2>4. BacklogKnown'
    <3>1. \A i \in 1 .. Len(clients') : ~ (i < cur')
      BY <2>1
    <3> QED BY <2>1, <3>1 DEF BacklogKnown
  <2> QED BY <2>3, <2>4
<1>15. ASSUME SkipOwn
      PROVE  (PlacesInLog /\ States /\ BacklogKnown /\ BacklogArmed)'
  <2>1. Onboard' = Onboard
    BY <1>15 DEF SkipOwn, chanVars, peerVars, taskVars, Onboard
  <2>2. clients[cur] \in Onboard /\ cur \in 1 .. Len(clients)
    BY <1>0, <1>15 DEF SkipOwn, AtClient
  <2>3. PlacesInLog'
    BY <1>0, <1>15, <2>1, <2>2
    DEF SkipOwn, chanVars, peerVars, taskVars, PlacesInLog, States, AtClient,
        Behind
  <2>4. States'
    BY <1>0, <1>15, <2>1, <2>2
    DEF SkipOwn, chanVars, peerVars, taskVars, States, AtClient, Behind
  <2>5. BacklogKnown'
    BY <1>0, <1>15, <2>1, <2>2
    DEF SkipOwn, chanVars, peerVars, taskVars, BacklogKnown, States, AtClient,
        Behind
  <2>6. BacklogArmed'
    BY <1>0, <1>15, <2>1, <2>2
    DEF SkipOwn, chanVars, peerVars, taskVars, BacklogArmed, States, AtClient,
        Behind
  <2> QED BY <2>3, <2>4, <2>5, <2>6
<1>16. ASSUME SendOk
      PROVE  (PlacesInLog /\ States /\ BacklogKnown /\ BacklogArmed)'
  <2>1. Onboard' = Onboard
    BY <1>16 DEF SendOk, chanVars, taskVars, Onboard
  <2>2. clients[cur] \in Onboard /\ cur \in 1 .. Len(clients)
    BY <1>0, <1>16 DEF SendOk, Sending, AtClient
  <2>3. PlacesInLog'
    BY <1>0, <1>16, <2>1, <2>2
    DEF SendOk, chanVars, taskVars, PlacesInLog, States, Sending, AtClient,
        Behind
  <2>4. States'
    BY <1>0, <1>16, <2>1, <2>2
    DEF SendOk, chanVars, taskVars, States, Sending, AtClient, Behind
  <2>5. BacklogKnown'
    BY <1>0, <1>16, <2>1, <2>2
    DEF SendOk, chanVars, taskVars, BacklogKnown, States, Sending, AtClient,
        Behind
  <2>6. BacklogArmed'
    BY <1>0, <1>16, <2>1, <2>2
    DEF SendOk, chanVars, taskVars, BacklogArmed, States, Sending, AtClient,
        Behind
  <2> QED BY <2>3, <2>4, <2>5, <2>6
<1>17. ASSUME SendBlocks
      PROVE  (PlacesInLog /\ States /\ BacklogKnown /\ BacklogArmed)'
  <2>1. Onboard' = Onboard
    BY <1>17 DEF SendBlocks, chanVars, peerVars, Onboard
  <2>2. clients[cur] \in Onboard /\ cur \in 1 .. Len(clients)
    BY <1>0, <1>17 DEF SendBlocks, Sending, AtClient
  <2>3. PlacesInLog'
    BY <1>0, <1>17, <2>1, <2>2
    DEF SendBlocks, chanVars, peerVars, PlacesInLog, States, Sending, AtClient,
        Behind
  <2>4. States'
    BY <1>0, <1>17, <2>1, <2>2
    DEF SendBlocks, chanVars, peerVars, States, Sending, AtClient, Behind
  <2>5. BacklogKnown'
    BY <1>0, <1>17, <2>1, <2>2
    DEF SendBlocks, chanVars, peerVars, BacklogKnown, States, Sending,
      AtClient,
        Behind
  <2>6. BacklogArmed'
    BY <1>0, <1>17, <2>1, <2>2
    DEF SendBlocks, chanVars, peerVars, BacklogArmed, States, Sending,
      AtClient,
        Behind
  <2> QED BY <2>3, <2>4, <2>5, <2>6
<1>18. ASSUME SendFails
      PROVE  (PlacesInLog /\ States /\ BacklogKnown /\ BacklogArmed)'
  <2>1. Onboard' = Onboard
    BY <1>18 DEF SendFails, chanVars, peerVars, Onboard
  <2>2. clients[cur] \in Onboard /\ cur \in 1 .. Len(clients)
    BY <1>0, <1>18 DEF SendFails, Sending, AtClient
  <2>3. PlacesInLog'
    BY <1>0, <1>18, <2>1, <2>2
    DEF SendFails, chanVars, peerVars, PlacesInLog, States, Sending, AtClient,
        Behind
  <2>4. States'
    BY <1>0, <1>18, <2>1, <2>2
    DEF SendFails, chanVars, peerVars, States, Sending, AtClient, Behind
  <2>5. BacklogKnown'
    BY <1>0, <1>18, <2>1, <2>2
    DEF SendFails, chanVars, peerVars, BacklogKnown, States, Sending, AtClient,
        Behind
  <2>6. BacklogArmed'
    BY <1>0, <1>18, <2>1, <2>2
    DEF SendFails, chanVars, peerVars, BacklogArmed, States, Sending, AtClient,
        Behind
  <2> QED BY <2>3, <2>4, <2>5, <2>6
<1>19. ASSUME CaughtUp
      PROVE  (PlacesInLog /\ States /\ BacklogKnown /\ BacklogArmed)'
  <2>1. Onboard' = Onboard
    BY <1>19 DEF CaughtUp, chanVars, clientVars, peerVars, Onboard
  <2>2. clients[cur] \in Onboard /\ cur \in 1 .. Len(clients)
    BY <1>0, <1>19 DEF CaughtUp, AtClient
  <2>3. PlacesInLog'
    BY <1>0, <1>19, <2>1, <2>2
    DEF CaughtUp, chanVars, clientVars, peerVars, PlacesInLog, States,
      AtClient,
        Behind
  <2>4. States'
    BY <1>0, <1>19, <2>1, <2>2
    DEF CaughtUp, chanVars, clientVars, peerVars, States, AtClient, Behind
  <2>5. BacklogKnown'
    BY <1>0, <1>19, <2>1, <2>2
    DEF CaughtUp, chanVars, clientVars, peerVars, BacklogKnown, States,
        AtClient, Behind
  <2>6. BacklogArmed'
    BY <1>0, <1>19, <2>1, <2>2
    DEF CaughtUp, chanVars, clientVars, peerVars, BacklogArmed, States,
        AtClient, Behind
  <2> QED BY <2>3, <2>4, <2>5, <2>6
<1>20. ASSUME SendsDone
      PROVE  (PlacesInLog /\ States /\ BacklogKnown /\ BacklogArmed)'
  <2>1. pc = "sends" /\ cur > Len(clients) /\ pc' = "prune" /\ UNCHANGED <<log, logPlace>> /\ ClearDeadClients
    BY <1>20 DEF SendsDone
  <2>2. Onboard' \subseteq Onboard /\ \A c \in Onboard' : state[c] # "DEAD" /\ state'[c] = state[c]
    BY <2>1, ClearDeadClientsClears
  <2>3. PlacesInLog' /\ States' /\ BacklogArmed'
    BY <1>0, <2>1, <2>2 DEF PlacesInLog, States, BacklogArmed
  <2>4. \A c \in Onboard : Behind(c) => state[c] \in {"SNDBLK", "DEAD"}
    <3>1. \A i \in 1 .. Len(clients) : i < cur
      BY <1>0, <2>1
    <3> QED BY <2>1, <3>1, Zenon DEF BacklogKnown, Onboard
  <2>5. BacklogKnown'
    BY <2>1, <2>2, <2>4 DEF BacklogKnown, Behind
  <2> QED BY <2>3, <2>5
<1>21. ASSUME PruneLog
      PROVE  (PlacesInLog /\ States /\ BacklogKnown /\ BacklogArmed)'
  <2>1. pc = "prune" /\ pc' = "finish" /\ UNCHANGED <<clients, state>>
    BY <1>21 DEF PruneLog
  <2>2. Onboard' = Onboard
    BY <2>1 DEF Onboard
  <2>3. PICK amt \in Nat : /\ log' \in Seq(Message) /\ Len(log') = Len(log) - amt
                           /\ \A c \in Onboard : amt <= logPlace[c] /\ logPlace'[c] = logPlace[c] - amt
    BY <1>21, PruneLogShifts
  <2>4. PlacesInLog' /\ States' /\ BacklogArmed'
    BY <1>0, <2>1, <2>2, <2>3 DEF PlacesInLog, States, BacklogArmed
  <2>5. BacklogKnown'
    BY <1>0, <2>1, <2>2, <2>3 DEF BacklogKnown, Behind
  <2> QED BY <2>4, <2>5
<1>22. ASSUME Repoll
      PROVE  (PlacesInLog /\ States /\ BacklogKnown /\ BacklogArmed)'
  <2>1. Onboard' = Onboard
    BY <1>22 DEF Repoll, chanVars, peerVars, Onboard
  <2>2. PlacesInLog'
    BY <1>0, <1>22, <2>1
    DEF Repoll, chanVars, peerVars, PlacesInLog, States, BacklogKnown, Behind
  <2>3. States'
    BY <1>0, <1>22, <2>1
    DEF Repoll, chanVars, peerVars, States, BacklogKnown, Behind
  <2>4. BacklogKnown'
    BY <1>0, <1>22, <2>1
    DEF Repoll, chanVars, peerVars, BacklogKnown, States, Behind
  <2>5. BacklogArmed'
    BY <1>0, <1>22, <2>1
    DEF Repoll, EventsOf, chanVars, peerVars, BacklogArmed, States,
        BacklogKnown, Behind
  <2> QED BY <2>2, <2>3, <2>4, <2>5
<1>23. ASSUME GiveUp
      PROVE  (PlacesInLog /\ States /\ BacklogKnown /\ BacklogArmed)'
  <2>1. Onboard' = Onboard
    BY <1>23 DEF GiveUp, chanVars, clientVars, peerVars, Onboard
  <2>2. PlacesInLog'
    BY <1>0, <1>23, <2>1
    DEF GiveUp, chanVars, clientVars, peerVars, PlacesInLog, States
  <2>3. States'
    BY <1>0, <1>23, <2>1 DEF GiveUp, chanVars, clientVars, peerVars, States
  <2>4. BacklogKnown'
    BY <1>0, <1>23, <2>1
    DEF GiveUp, chanVars, clientVars, peerVars, BacklogKnown, States, Behind
  <2>5. BacklogArmed'
    BY <1>0, <1>23, <2>1
    DEF GiveUp, chanVars, clientVars, peerVars, BacklogArmed, States
  <2> QED BY <2>2, <2>3, <2>4, <2>5
<1>24. ASSUME KillChannel
      PROVE  (PlacesInLog /\ States /\ BacklogKnown /\ BacklogArmed)'
  <2>1. clients' = <<>> /\ pc' = "dead"
    BY <1>24 DEF KillChannel
  <2>2. Onboard' = {}
    BY <2>1 DEF Onboard
  <2> QED BY <2>1, <2>2 DEF PlacesInLog, States, BacklogKnown, BacklogArmed
<1>25. CASE UNCHANGED vars
  BY <1>25
  DEF vars, chanVars, clientVars, peerVars, taskVars, PlacesInLog, States,
      BacklogKnown, BacklogArmed, Onboard, Behind
<1> QED BY <1>1, <1>2, <1>3, <1>4, <1>5, <1>6, <1>7, <1>8, <1>9, <1>10, <1>11,
           <1>12, <1>13, <1>14, <1>15, <1>16, <1>17, <1>18, <1>19, <1>20, <1>21,
           <1>22, <1>23, <1>24, <1>25
        DEF Next, Environment, ChannelCB, Wake, SpuriousWake

(* A channel just created satisfies IInv.                                  *)
LEMMA InitIInv ==
  ASSUME Init
  PROVE  IInv
<1> USE ChannelAssumption
<1>1. TypeOK
  BY
  DEF Init, TypeOK, ChanTypeOK, ClientTypeOK, PeerTypeOK, TaskTypeOK, CState,
      Phase
<1>2. Onboard = {}
  BY DEF Init, Onboard
<1>3. pc = "poll"
  BY DEF Init
<1> QED BY <1>1, <1>2, <1>3
        DEF IInv, PlacesInLog, States, BacklogKnown, BacklogArmed

(* The induction: no step of the channel or of the world leaves IInv.      *)
THEOREM Inductive == Spec => []IInv
<1>1. IInv /\ [Next]_vars => IInv'
  <2> SUFFICES ASSUME IInv, [Next]_vars
               PROVE  IInv'
    OBVIOUS
  <2>1. TypeOK'
    BY TypeStep DEF IInv
  <2>2. (PlacesInLog /\ States /\ BacklogKnown /\ BacklogArmed)'
    BY <2>1, RestStep
  <2> QED BY <2>1, <2>2 DEF IInv
<1> QED BY <1>1, InitIInv, PTL DEF Spec

(* Every variable of the channel keeps its type; in particular no place    *)
(* goes below zero and the iterators stay on clients and messages.         *)
THEOREM Typed == Spec => []TypeOK
<1>1. IInv => TypeOK
  BY DEF IInv
<1> QED BY <1>1, Inductive, PTL

(* channel.h: client->logPlace never passes the end of chan->log.          *)
THEOREM PlacesStayInLog == Spec => []PlacesInLog
<1>1. IInv => PlacesInLog
  BY DEF IInv
<1> QED BY <1>1, Inductive, PTL

(* channel.h: resetChannelTriggers leaves no client with a backlog without *)
(* the trigger that gets it sent.                                          *)
THEOREM BacklogStaysArmed == Spec => []BacklogArmed
<1>1. IInv => BacklogArmed
  BY DEF IInv
<1> QED BY <1>1, Inductive, PTL

(* What is in the log after the pruning was there before, each message     *)
(* once; only messages not to be logged or past their time are taken out;  *)
(* and what has been freed since is one of them.                           *)
Kept(pos) ==
  /\ pos \in [1 .. Len(log') -> 1 .. Len(log)]
  /\ \A k, l \in 1 .. Len(log') : pos[k] = pos[l] => k = l
  /\ \A k \in 1 .. Len(log') : log'[k] = log[pos[k]]
  /\ \A i \in 1 .. Len(log) :
       \/ \E k \in 1 .. Len(log') : pos[k] = i
       \/ log[i].kind # "logged" \/ log[i].ts < now
  /\ \A n \in freed' : n \notin freed =>
       \E i \in 1 .. Len(log) :
         n = log[i].n /\ \A k \in 1 .. Len(log') : pos[k] # i

(* A removal that does not tear the log leaves that.                       *)
LEMMA PruneLogKeeps ==
  ASSUME TypeOK, PruneLog, ~torn',
         \A i \in 1 .. Len(log) : log[i].n \notin freed
  PROVE  \E pos : Kept(pos)
<1>0. PICK once \in NotLogged(log, LastPlace) :
        LET rest == VecRm(log, LastPlace, once)
            left == LastPlace - Cardinality(once)
            old  == Old(rest, left)
        IN /\ log' = VecRm(rest, left, old)
           /\ freed' = freed \cup {log[i].n : i \in once}
                           \cup {rest[i].n : i \in old}
           /\ torn' = (torn \/ (once \cup old # {} /\ LastPlace < Len(log)))
  BY DEF PruneLog
<1> DEFINE rest == VecRm(log, LastPlace, once)
           left == LastPlace - Cardinality(once)
           old  == Old(rest, left)
<1>1. LastPlace \in 0 .. Len(log)
  BY LastPlaceIsLeast
<1>2. /\ log \in Seq(Message) /\ Len(log) \in Nat
      /\ once \in SUBSET (1 .. LastPlace)
      /\ \A i \in once : log[i].kind # "logged"
  <2>1. log \in Seq(Message) /\ Len(log) \in Nat
    BY OnboardAreClients DEF TypeOK, ChanTypeOK
  <2>2. /\ once \in SUBSET (1 .. LastPlace)
        /\ \A i \in once : log[i].kind # "logged" \/ log[i].n \in freed
    BY NotLoggedSelects
  <2>3. \A i \in 1 .. LastPlace : i \in 1 .. Len(log)
    BY <1>1, <2>1
  <2> QED BY <2>1, <2>2, <2>3
<1>3. /\ log' = VecRm(rest, left, old)
      /\ freed' = freed \cup {log[i].n : i \in once}
                      \cup {rest[i].n : i \in old}
      /\ once \cup old = {} \/ LastPlace = Len(log)
  <2>1. ~(LastPlace < Len(log)) => LastPlace = Len(log)
    BY <1>1, <1>2
  <2> QED BY <1>0, <2>1
<1>4. CASE LastPlace = Len(log)
  <2>2. /\ rest \in Seq(Message) /\ Len(rest) = Len(log) - Cardinality(once)
        /\ left = Len(rest) /\ Len(rest) \in Nat
    <3>1. /\ rest \in Seq(Message)
          /\ Len(rest) = Len(log) - Cardinality(once)
      <4> QED BY <1>1, <1>2, VecRmShortens
    <3> HIDE DEF rest
    <3> QED BY <1>4, <3>1, LenProperties
  <2>3. /\ old \in SUBSET (1 .. Len(rest))
        /\ \A i \in old : rest[i].ts < now
        /\ once \in SUBSET (1 .. Len(log))
        /\ \A i \in once : log[i].kind # "logged"
    BY <1>2, <1>4, <2>2 DEF Old
  <2>4. rest = VecRm(log, Len(log), once) /\ log' = VecRm(rest, Len(rest), old)
    BY <1>3, <1>4, <2>2
  <2> HIDE DEF rest, left, old
  <2>5. PICK pos : HoldsRest(pos, log', log, once, rest, old)
    <3>1. PICK f : HoldsAllBut(f, rest, log, once)
      BY <1>2, <2>3, <2>4, VecRmHolds
    <3>2. PICK g : HoldsAllBut(g, log', rest, old)
      BY <2>2, <2>3, <2>4, VecRmHolds
    <3>3. Len(log') \in Nat
      BY <2>2, <2>3, <2>4, VecRmShortens, LenProperties
    <3> QED BY <1>2, <2>2, <2>3, <3>1, <3>2, <3>3, HoldsTwice
  <2>6. \A i \in 1 .. Len(log) :
          \/ \E k \in 1 .. Len(log') : pos[k] = i
          \/ log[i].kind # "logged" \/ log[i].ts < now
    BY <2>3, <2>5 DEF HoldsRest
  <2>7. \A n \in freed' : n \notin freed =>
          \E i \in 1 .. Len(log) :
            n = log[i].n /\ \A k \in 1 .. Len(log') : pos[k] # i
    BY <1>3, <2>3, <2>5 DEF HoldsRest
  <2>8. Kept(pos)
    BY <2>5, <2>6, <2>7 DEF Kept, HoldsRest
  <2> QED BY <2>8
<1>5. CASE once \cup old = {}
  <2>1. once = {} /\ old = {}
    BY <1>5
  <2> HIDE DEF rest, left, old
  <2>2. Cardinality(once) = 0 /\ Cardinality(old) = 0
    BY <2>1, FS_EmptySet
  <2>3. rest = log
    BY <1>1, <1>2, <2>1, VecRmNothing DEF rest
  <2>4. left = LastPlace
    BY <1>1, <2>2 DEF left
  <2>5. log' = log
    BY <1>1, <1>2, <1>3, <2>1, <2>3, <2>4, VecRmNothing
  <2>6. freed' = freed
    BY <1>3, <2>1
  <2> DEFINE pos == [k \in 1 .. Len(log') |-> k]
  <2>7. Kept(pos)
    BY <2>5, <2>6 DEF Kept
  <2> QED BY <2>7
<1> QED BY <1>3, <1>4, <1>5

(* A torn log stays torn.                                                  *)
LEMMA TornStays ==
  ASSUME [Next]_vars
  PROVE  torn => torn'
<1>1. UNCHANGED torn \/ PruneLog
  BY DEF Next, Environment, ChannelCB, Donate, PeerSend, PeerHangUp, PeerDrain,
        Tick, SpuriousWake, Wake, StartCB, NewClient, NewClientFails,
        NewClientsDone, ReadMsg, ReadFails, ReadHangUp, ReadNothing, ReadsDone, SkipOwn,
        SendOk, SendBlocks, SendFails, CaughtUp, SendsDone, Repoll, GiveUp,
        KillChannel, vars, chanVars, clientVars, peerVars, taskVars
<1>2. PruneLog => (torn => torn')
  BY DEF PruneLog
<1> QED BY <1>1, <1>2

(* No two messages have the same number, wherever they are: in the log, or *)
(* sent and not yet read.  What has been freed is in neither.              *)
FreedNumbers == \A n \in freed : n <= posted
LogNumbers ==
  /\ \A i \in 1 .. Len(log) : log[i].n <= posted
  /\ \A i \in 1 .. Len(log) : log[i].n \notin freed
  /\ \A i, j \in 1 .. Len(log) : log[i].n = log[j].n => i = j
SentNumbers ==
  \A c \in Clients : \A i \in 1 .. Len(inbox[c]) :
    /\ inbox[c][i].n <= posted
    /\ inbox[c][i].n \notin freed
    /\ \A j \in 1 .. Len(log) : log[j].n # inbox[c][i].n
    /\ \A d \in Clients : \A j \in 1 .. Len(inbox[d]) :
         inbox[d][j].n = inbox[c][i].n => d = c /\ j = i
Numbers == FreedNumbers /\ LogNumbers /\ SentNumbers

(* Every step keeps that, except the removals that tear the log.           *)
LEMMA NumbersStep ==
  ASSUME IInv, Numbers, [Next]_vars, ~torn'
  PROVE  Numbers'
<1>0. /\ log \in Seq(Message) /\ Len(log) \in Nat /\ TypeOK
      /\ \A i \in 1 .. Len(log) : log[i] \in Message /\ log[i].n \in Nat
      /\ inbox \in [Clients -> Seq(Posting)]
      /\ \A c \in Clients : Len(inbox[c]) \in Nat
      /\ \A c \in Clients : \A i \in 1 .. Len(inbox[c]) : inbox[c][i].n \in Nat
      /\ posted \in Nat /\ \A n \in freed : n \in Nat
      /\ clients \in Seq(Clients)
      /\ cur <= Len(clients) => clients[cur] \in Clients
  <2>1. /\ log \in Seq(Message) /\ inbox \in [Clients -> Seq(Posting)]
        /\ posted \in Nat /\ freed \subseteq Nat /\ TypeOK
        /\ clients \in Seq(Clients) /\ cur \in Nat \ {0}
    BY ChannelAssumption DEF IInv, TypeOK, ChanTypeOK, PeerTypeOK, TaskTypeOK
  <2>2. \A i \in 1 .. Len(log) : log[i] \in Message /\ log[i].n \in Nat
    <3>1. \A i \in 1 .. Len(log) : log[i] \in Message
      BY <2>1, ElementOfSeq
    <3>2. \A m \in Message : m.n \in Nat
      BY DEF Message
    <3> QED BY <3>1, <3>2
  <2>3. \A c \in Clients : \A i \in 1 .. Len(inbox[c]) : inbox[c][i].n \in Nat
    <3>1. \A s \in Seq(Posting) : \A i \in 1 .. Len(s) : s[i].n \in Nat
      <4>1. \A p \in Posting : p.n \in Nat
        BY DEF Posting
      <4>2. \A s \in Seq(Posting) : \A i \in 1 .. Len(s) : s[i] \in Posting
        BY ElementOfSeq
      <4> QED BY <4>1, <4>2
    <3>2. \A c \in Clients : inbox[c] \in Seq(Posting)
      BY <2>1
    <3> QED BY <3>1, <3>2
  <2>4. /\ Len(log) \in Nat /\ \A c \in Clients : Len(inbox[c]) \in Nat
        /\ \A n \in freed : n \in Nat
        /\ cur <= Len(clients) => clients[cur] \in Clients
    BY <2>1
  <2> QED BY <2>1, <2>2, <2>3, <2>4
<1>1. CASE UNCHANGED <<log, freed, inbox, posted>>
  BY <1>1 DEF Numbers, FreedNumbers, LogNumbers, SentNumbers
<1>2. ASSUME NEW c \in Clients, NEW k \in Kinds, PeerSend(c, k)
      PROVE  Numbers'
  <2> DEFINE p == [n |-> posted + 1, kind |-> k]
  <2>1. /\ inbox' = [inbox EXCEPT ![c] = Append(@, p)] /\ p.n = posted + 1
        /\ posted' = posted + 1 /\ log' = log /\ freed' = freed
    BY <1>2 DEF PeerSend, chanVars
  <2> HIDE DEF p
  <2>2. /\ Len(inbox'[c]) = Len(inbox[c]) + 1
        /\ \A i \in 1 .. Len(inbox[c]) : inbox'[c][i] = inbox[c][i]
        /\ inbox'[c][Len(inbox[c]) + 1] = p
        /\ \A d \in Clients \ {c} : inbox'[d] = inbox[d]
    BY <1>0, <2>1
  <2>3. \A i \in 1 .. Len(inbox'[c]) :
          i \in 1 .. Len(inbox[c]) \/ i = Len(inbox[c]) + 1
    BY <1>0, <2>2
  <2>4. ASSUME NEW d \in Clients, NEW i \in 1 .. Len(inbox'[d])
        PROVE  \/ i \in 1 .. Len(inbox[d]) /\ inbox'[d][i] = inbox[d][i]
               \/ d = c /\ i = Len(inbox[c]) + 1
                    /\ inbox'[d][i].n = posted + 1
    BY <2>1, <2>2, <2>3
  <2>5. /\ posted' = posted + 1 /\ posted + 1 \notin freed'
        /\ \A n \in Nat : n <= posted => n <= posted' /\ n # posted + 1
    BY <1>0, <2>1 DEF Numbers, FreedNumbers
  <2>6. FreedNumbers' /\ LogNumbers'
    BY <1>0, <2>1, <2>5 DEF Numbers, FreedNumbers, LogNumbers
  <2>7. \A b \in Clients : \A l \in 1 .. Len(inbox[b]) :
          inbox[b][l].n # posted + 1
    BY <1>0, <2>5 DEF Numbers, SentNumbers
  <2>8. \A l \in 1 .. Len(log) : log[l].n # posted + 1
    BY <1>0, <2>5 DEF Numbers, LogNumbers
  <2>9. ASSUME NEW d \in Clients, NEW i \in 1 .. Len(inbox'[d])
        PROVE  /\ inbox'[d][i].n <= posted' /\ inbox'[d][i].n \notin freed'
               /\ \A j \in 1 .. Len(log') : log'[j].n # inbox'[d][i].n
               /\ \A e \in Clients : \A j \in 1 .. Len(inbox'[e]) :
                    inbox'[e][j].n = inbox'[d][i].n => e = d /\ j = i
    <3>1. CASE i \in 1 .. Len(inbox[d]) /\ inbox'[d][i] = inbox[d][i]
      <4>1. /\ inbox[d][i].n <= posted /\ inbox[d][i].n \notin freed
            /\ \A j \in 1 .. Len(log) : log[j].n # inbox[d][i].n
        BY <3>1 DEF Numbers, SentNumbers
      <4>2. inbox[d][i].n \in Nat
        BY <1>0, <3>1
      <4>3. ASSUME NEW e \in Clients, NEW j \in 1 .. Len(inbox'[e]),
                   inbox'[e][j].n = inbox[d][i].n
            PROVE  e = d /\ j = i
        <5>1. j \in 1 .. Len(inbox[e]) /\ inbox'[e][j] = inbox[e][j]
          BY <2>4, <2>7, <3>1, <4>3
        <5> QED BY <3>1, <4>3, <5>1 DEF Numbers, SentNumbers
      <4> QED BY <2>1, <2>5, <3>1, <4>1, <4>2, <4>3, SMTT(60)
    <3>2. CASE d = c /\ i = Len(inbox[c]) + 1 /\ inbox'[d][i].n = posted + 1
      <4>1. posted + 1 <= posted' /\ posted + 1 \notin freed'
        BY <1>0, <2>5
      <4>2. \A e \in Clients : \A j \in 1 .. Len(inbox'[e]) :
              inbox'[e][j].n = posted + 1 => e = d /\ j = i
        BY <2>4, <2>7, <3>2
      <4> QED BY <2>1, <2>8, <3>2, <4>1, <4>2
    <3> QED BY <2>4, <3>1, <3>2
  <2> QED BY <2>6, <2>9 DEF Numbers, SentNumbers
<1> DEFINE HeadRead(c) == /\ inbox[c] # <<>>
                         /\ inbox' = [inbox EXCEPT ![c] = Tail(@)]
<1>a. ASSUME NEW c \in Clients, HeadRead(c),
             NEW d \in Clients, NEW i \in 1 .. Len(inbox'[d])
      PROVE  /\ inbox'[d][i].n <= posted /\ inbox'[d][i].n \notin freed
             /\ inbox'[d][i].n # Head(inbox[c]).n
             /\ \A j \in 1 .. Len(log) : log[j].n # inbox'[d][i].n
             /\ \A e \in Clients : \A j \in 1 .. Len(inbox'[e]) :
                  inbox'[e][j].n = inbox'[d][i].n => e = d /\ j = i
  <2>1. /\ inbox[c] \in Seq(Posting) /\ inbox'[c] = Tail(inbox[c])
        /\ Head(inbox[c]) = inbox[c][1] /\ 1 \in 1 .. Len(inbox[c])
    BY <1>0, <1>a
  <2>2. /\ Len(inbox'[c]) = Len(inbox[c]) - 1
        /\ \A j \in 1 .. Len(inbox'[c]) : inbox'[c][j] = inbox[c][j + 1]
    BY <1>a, <2>1, HeadTailProperties, ZenonT(60)
  <2>3. \A j \in 1 .. Len(inbox'[c]) : j + 1 \in 1 .. Len(inbox[c])
    BY <1>0, <2>2
  <2>4. \A e \in Clients \ {c} : inbox'[e] = inbox[e]
    BY <1>0, <1>a
  <2>5. PICK k \in 1 .. Len(inbox[d]) :
          /\ inbox'[d][i] = inbox[d][k]
          /\ k = IF d = c THEN i + 1 ELSE i
    BY <2>2, <2>3, <2>4
  <2>6. /\ inbox[d][k].n <= posted /\ inbox[d][k].n \notin freed
        /\ \A j \in 1 .. Len(log) : log[j].n # inbox[d][k].n
        /\ \A e \in Clients : \A j \in 1 .. Len(inbox[e]) :
             inbox[e][j].n = inbox[d][k].n => e = d /\ j = k
    BY <2>5 DEF Numbers, SentNumbers
  <2>7. inbox[d][k].n # inbox[c][1].n
    <3>1. ~ (c = d /\ 1 = k)
      BY <2>5
    <3> QED BY <2>1, <2>6, <3>1
  <2>8. ASSUME NEW e \in Clients, NEW j \in 1 .. Len(inbox'[e]),
               inbox'[e][j].n = inbox'[d][i].n
        PROVE  e = d /\ j = i
    <3>1. PICK h \in 1 .. Len(inbox[e]) :
            /\ inbox'[e][j] = inbox[e][h]
            /\ h = IF e = c THEN j + 1 ELSE j
      BY <2>2, <2>3, <2>4
    <3>2. e = d /\ h = k
      BY <2>5, <2>6, <2>8, <3>1
    <3> QED BY <2>5, <3>1, <3>2
  <2> QED BY <2>1, <2>5, <2>6, <2>7, <2>8
<1> HIDE DEF HeadRead
<1>3. CASE ReadFails
  <2>1. PICK c \in Clients : HeadRead(c)
    BY <1>0, <1>3 DEF ReadFails, AtClient, HeadRead
  <2>2. UNCHANGED <<log, freed, posted>>
    BY <1>3 DEF ReadFails, chanVars
  <2>3. SentNumbers'
    <3>1. ASSUME NEW d \in Clients, NEW i \in 1 .. Len(inbox'[d])
          PROVE  /\ inbox'[d][i].n <= posted /\ inbox'[d][i].n \notin freed
                 /\ \A j \in 1 .. Len(log) : log[j].n # inbox'[d][i].n
                 /\ \A e \in Clients : \A j \in 1 .. Len(inbox'[e]) :
                      inbox'[e][j].n = inbox'[d][i].n => e = d /\ j = i
      BY <1>a, <2>1
    <3> QED BY <2>2, <3>1 DEF SentNumbers
  <2> QED BY <2>2, <2>3 DEF Numbers, FreedNumbers, LogNumbers
<1>4. CASE ReadMsg
  <2> DEFINE c == clients[cur]
             p == Head(inbox[c])
             m == [n |-> p.n, sender |-> id[c], kind |-> p.kind,
                   ts |-> now + Duration]
  <2>1. c \in Clients /\ HeadRead(c)
    BY <1>0, <1>4 DEF ReadMsg, AtClient, HeadRead
  <2>2. UNCHANGED <<freed, posted>>
    BY <1>4 DEF ReadMsg
  <2>3. log' = Append(log, m) /\ m.n = Head(inbox[c]).n
    BY <1>4 DEF ReadMsg
  <2> HIDE DEF c, p, m
  <2>4. /\ 1 \in 1 .. Len(inbox[c]) /\ m.n = inbox[c][1].n
    <3>1. inbox[c] \in Seq(Posting) /\ inbox[c] # <<>>
      BY <1>0, <2>1 DEF HeadRead
    <3> QED BY <2>3, <3>1
  <2>5. /\ Len(log') = Len(log) + 1 /\ log'[Len(log) + 1] = m
        /\ \A i \in 1 .. Len(log) : log'[i] = log[i]
    BY <1>0, <2>3
  <2>6. \A i \in 1 .. Len(log') :
          \/ i \in 1 .. Len(log) /\ log'[i].n = log[i].n
          \/ i = Len(log) + 1 /\ log'[i].n = m.n
    BY <1>0, <2>5
  <2>7. /\ m.n <= posted /\ m.n \notin freed
        /\ \A j \in 1 .. Len(log) : log[j].n # m.n
    BY <2>1, <2>4 DEF Numbers, SentNumbers
  <2>8. LogNumbers'
    BY <2>2, <2>6, <2>7 DEF Numbers, LogNumbers
  <2>9. SentNumbers'
    <3>1. ASSUME NEW d \in Clients, NEW i \in 1 .. Len(inbox'[d])
          PROVE  /\ inbox'[d][i].n <= posted /\ inbox'[d][i].n \notin freed
                 /\ inbox'[d][i].n # m.n
                 /\ \A j \in 1 .. Len(log) : log[j].n # inbox'[d][i].n
                 /\ \A e \in Clients : \A j \in 1 .. Len(inbox'[e]) :
                      inbox'[e][j].n = inbox'[d][i].n => e = d /\ j = i
      BY <1>a, <2>1, <2>3
    <3>2. \A d \in Clients : \A i \in 1 .. Len(inbox'[d]) :
            \A j \in 1 .. Len(log') : log'[j].n # inbox'[d][i].n
      BY <2>6, <3>1
    <3> QED BY <2>2, <3>1, <3>2 DEF SentNumbers
  <2> QED BY <2>2, <2>8, <2>9 DEF Numbers, FreedNumbers
<1>5. CASE PruneLog
  <2>1. PICK pos : Kept(pos)
    BY <1>0, <1>5, PruneLogKeeps DEF Numbers, LogNumbers
  <2>2. UNCHANGED <<inbox, posted>>
    BY <1>5 DEF PruneLog, peerVars
  <2>3. \A k \in 1 .. Len(log') :
          pos[k] \in 1 .. Len(log) /\ log'[k] = log[pos[k]]
    BY <2>1 DEF Kept
  <2>4. \A k, j \in 1 .. Len(log') : pos[k] = pos[j] => k = j
    BY <2>1 DEF Kept
  <2>5. \A n \in freed' : n \in freed \/ \E i \in 1 .. Len(log) :
          n = log[i].n /\ \A k \in 1 .. Len(log') : pos[k] # i
    BY <2>1 DEF Kept
  <2>6. FreedNumbers'
    BY <2>2, <2>5 DEF Numbers, FreedNumbers, LogNumbers
  <2>7. LogNumbers'
    <3>1. ASSUME NEW k \in 1 .. Len(log'), log'[k].n \in freed'
          PROVE  FALSE
      <4>1. pos[k] \in 1 .. Len(log) /\ log'[k].n = log[pos[k]].n
        BY <2>3
      <4>2. log'[k].n \notin freed
        BY <4>1 DEF Numbers, LogNumbers
      <4>3. PICK i \in 1 .. Len(log) :
              log'[k].n = log[i].n /\ \A j \in 1 .. Len(log') : pos[j] # i
        BY <2>5, <3>1, <4>2
      <4> QED BY <4>1, <4>3 DEF Numbers, LogNumbers
    <3>2. \A k \in 1 .. Len(log') : log'[k].n <= posted
      BY <2>3 DEF Numbers, LogNumbers
    <3>3. \A k, j \in 1 .. Len(log') : log'[k].n = log'[j].n => k = j
      <4>1. \A k, j \in 1 .. Len(log') :
              log'[k].n = log'[j].n => pos[k] = pos[j]
        BY <2>3, SMTT(60) DEF Numbers, LogNumbers
      <4> QED BY <2>4, <4>1
    <3> QED BY <2>2, <3>1, <3>2, <3>3 DEF LogNumbers
  <2>8. SentNumbers'
    <3>1. \A c \in Clients : \A i \in 1 .. Len(inbox[c]) :
            inbox[c][i].n \notin freed'
      BY <2>5 DEF Numbers, SentNumbers
    <3> QED BY <2>2, <2>3, <3>1, SMTT(60) DEF Numbers, SentNumbers
  <2> QED BY <2>6, <2>7, <2>8 DEF Numbers
<1>6. CASE KillChannel
  <2>1. /\ freed' = freed \cup {log[i].n : i \in 1 .. Len(log)}
        /\ log' = <<>> /\ UNCHANGED <<inbox, posted>>
    BY <1>6 DEF KillChannel
  <2>2. 1 .. Len(log') = {}
    BY <2>1
  <2> QED BY <2>1, <2>2
      DEF Numbers, FreedNumbers, LogNumbers, SentNumbers
<1> QED BY <1>1, <1>2, <1>3, <1>4, <1>5, <1>6
    DEF Next, Environment, ChannelCB, Donate, PeerHangUp, PeerDrain, Tick,
        SpuriousWake, Wake, StartCB, NewClient, NewClientFails, NewClientsDone,
        ReadHangUp, ReadNothing, ReadsDone, SkipOwn, SendOk, SendBlocks,
        SendFails, CaughtUp, SendsDone, Repoll, GiveUp, vars, chanVars,
        clientVars, peerVars, taskVars

(* So it is as long as the log is not torn.                                *)
LEMMA NumbersHold == Spec => [](torn \/ Numbers)
<1>1. Init => Numbers
  <2> SUFFICES ASSUME Init PROVE Numbers
    OBVIOUS
  <2>1. log = <<>> /\ freed = {} /\ \A c \in Clients : inbox[c] = <<>>
    BY DEF Init
  <2>2. 1 .. Len(log) = {} /\ \A c \in Clients : 1 .. Len(inbox[c]) = {}
    BY <2>1
  <2> QED BY <2>1, <2>2
      DEF Numbers, FreedNumbers, LogNumbers, SentNumbers
<1>2. ASSUME IInv, torn \/ Numbers, [Next]_vars
      PROVE  torn' \/ Numbers'
  <2>1. torn => torn'
    BY <1>2, TornStays
  <2> QED BY <1>2, <2>1, NumbersStep
<1>3. IInv /\ (torn \/ Numbers) /\ [Next]_vars => (torn \/ Numbers)'
  BY <1>2
<1> QED BY <1>1, <1>3, Inductive, PTL DEF Spec

(* channel.h: a message to be logged leaves the log by its age or with the *)
(* channel, until a removal in front of a client that is behind tears it.  *)
THEOREM LoggedMessagesStay == Spec => LoggedStays
<1> DEFINE Stays ==
      \A i \in 1 .. Len(log) :
        (log[i].kind = "logged" /\ log[i].ts >= now /\ pc # "kill" /\ ~torn') =>
          \E j \in 1 .. Len(log') : log'[j] = log[i]
<1>1. ASSUME IInv, torn \/ Numbers, [Next]_vars
      PROVE  Stays
  <2>0. /\ log \in Seq(Message) /\ Len(log) \in Nat
        /\ \A i \in 1 .. Len(log) : log[i] \in Message
        /\ now \in 0 .. MaxTime /\ MaxTime \in Nat
    BY <1>1, OnboardAreClients, ElementOfSeq, ChannelAssumption
    DEF IInv, TypeOK, ChanTypeOK
  <2>1. CASE log' = log
    BY <2>1
  <2>2. CASE ReadMsg
    <3>1. PICK m : log' = Append(log, m)
      BY <2>2 DEF ReadMsg
    <3>2. /\ Len(log') = Len(log) + 1
          /\ \A i \in 1 .. Len(log) : log'[i] = log[i]
      BY <2>0, <3>1
    <3>3. \A i \in 1 .. Len(log) : i \in 1 .. Len(log')
      BY <2>0, <3>2
    <3> QED BY <3>2, <3>3
  <2>3. CASE PruneLog /\ ~torn'
    <3>0. ~torn
      BY <1>1, <2>3, TornStays
    <3>1. PICK pos : Kept(pos)
      BY <1>1, <2>3, <3>0, PruneLogKeeps DEF IInv, Numbers, LogNumbers
    <3>2. \A i \in 1 .. Len(log) : log[i].ts >= now => ~(log[i].ts < now)
      BY <2>0 DEF Message
    <3> QED BY <3>1, <3>2 DEF Kept
  <2>4. CASE pc = "kill"
    BY <2>4
  <2>5. log' = log \/ ReadMsg \/ PruneLog \/ pc = "kill"
    BY <1>1
    DEF Next, Environment, ChannelCB, Donate, PeerSend, PeerHangUp, PeerDrain,
        Tick, SpuriousWake, Wake, StartCB, NewClient, NewClientFails,
        NewClientsDone, ReadFails, ReadHangUp, ReadNothing, ReadsDone, SkipOwn,
        SendOk, SendBlocks, SendFails, CaughtUp, SendsDone, Repoll, GiveUp,
        KillChannel, vars, chanVars, clientVars, peerVars, taskVars
  <2> QED BY <2>1, <2>2, <2>3, <2>4, <2>5
<1>2. IInv /\ (torn \/ Numbers) /\ [Next]_vars => [Stays]_vars
  BY <1>1
<1> QED BY <1>2, Inductive, NumbersHold, PTL DEF Spec, LoggedStays

(* channel.h: msgIsNotLogged and msgIsOld free no message to be logged     *)
(* before its time, whatever the removals have done to the log.            *)
THEOREM FreesInTime == Spec => FreedInTime
<1> DEFINE InTime ==
      \A n \in freed' \ freed : pc # "kill" =>
        \E i \in 1 .. Len(log) :
          log[i].n = n /\ (log[i].kind # "logged" \/ log[i].ts < now)
<1>1. ASSUME IInv, [Next]_vars
      PROVE  InTime
  <2>1. CASE freed' = freed
    BY <2>1
  <2>2. CASE PruneLog
    <3>0. PICK once \in NotLogged(log, LastPlace) :
            LET rest == VecRm(log, LastPlace, once)
                left == LastPlace - Cardinality(once)
                old  == Old(rest, left)
            IN freed' = freed \cup {log[i].n : i \in once}
                              \cup {rest[i].n : i \in old}
      BY <2>2 DEF PruneLog
    <3> DEFINE rest == VecRm(log, LastPlace, once)
               left == LastPlace - Cardinality(once)
               old  == Old(rest, left)
    <3>1. /\ log \in Seq(Message) /\ LastPlace \in 0 .. Len(log)
          /\ once \in SUBSET (1 .. LastPlace) /\ Len(log) \in Nat
          /\ \A i \in once : log[i].kind # "logged" \/ log[i].n \in freed
      BY <1>1, NotLoggedSelects, LastPlaceIsLeast, OnboardAreClients
      DEF IInv, TypeOK, ChanTypeOK
    <3>2. \A i \in once : i \in 1 .. Len(log)
      BY <3>1
    <3>3. /\ Cardinality(once) \in 0 .. LastPlace
          /\ Len(rest) = Len(log) - Cardinality(once)
      BY <3>1, VecRmShortens
    <3>4. /\ \A i \in old : i \in 1 .. Len(rest) /\ rest[i].ts < now
      <4>1. \A i \in 1 .. left : i \in 1 .. Len(rest)
        <5> HIDE DEF rest
        <5> QED BY <3>1, <3>3
      <4> HIDE DEF rest, left
      <4> QED BY <4>1 DEF Old
    <3>5. \A k \in 1 .. Len(rest) : \E i \in 1 .. Len(log) : rest[k] = log[i]
      BY <3>1, VecRmTakes
    <3> HIDE DEF rest, left, old
    <3>6. ASSUME NEW n \in freed' \ freed
          PROVE  \E i \in 1 .. Len(log) :
                   log[i].n = n /\ (log[i].kind # "logged" \/ log[i].ts < now)
      <4>1. freed' = freed \cup {log[i].n : i \in once}
                           \cup {rest[i].n : i \in old}
        BY <3>0 DEF rest, left, old
      <4>2. CASE \E i \in once : n = log[i].n
        BY <3>1, <3>2, <3>6, <4>2
      <4>3. CASE \E k \in old : n = rest[k].n
        <5>1. PICK k \in old : n = rest[k].n
          BY <4>3
        <5>2. PICK i \in 1 .. Len(log) : rest[k] = log[i]
          BY <3>4, <3>5
        <5> QED BY <3>4, <5>1, <5>2
      <4> QED BY <3>6, <4>1, <4>2, <4>3
    <3> QED BY <3>6
  <2>3. CASE pc = "kill"
    BY <2>3
  <2>4. freed' = freed \/ PruneLog \/ pc = "kill"
    BY <1>1
    DEF Next, Environment, ChannelCB, Donate, PeerSend, PeerHangUp, PeerDrain,
        Tick, SpuriousWake, Wake, StartCB, NewClient, NewClientFails,
        NewClientsDone, ReadMsg, ReadFails, ReadHangUp, ReadNothing, ReadsDone,
        SkipOwn, SendOk, SendBlocks, SendFails, CaughtUp, SendsDone, Repoll,
        GiveUp, KillChannel, vars, chanVars, clientVars, peerVars, taskVars
  <2> QED BY <2>1, <2>2, <2>3, <2>4
<1>2. IInv /\ [Next]_vars => [InTime]_vars
  BY <1>1
<1> QED BY <1>2, Inductive, PTL DEF Spec, FreedInTime
=============================================================================
