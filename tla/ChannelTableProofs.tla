------------------------ MODULE ChannelTableProofs -------------------------
(***************************************************************************)
(* For any number of workers, clients, ids and channels: of each id there  *)
(* is at most one live channel, no freed channel is used, and a client is  *)
(* in one place.                                                           *)
(***************************************************************************)
EXTENDS ChannelTable, FiniteSetTheorems, TLAPS

(* What a worker is at: giving a client to a channel, or running one.      *)
Giving == {"give", "at", "create", "poll", "set", "donate"}
Running == {"new", "serve", "repoll", "kill"}

(* What a worker knows of its client, of its channel and of the entry it   *)
(* has looked up, which nobody changes while it holds the mutex.           *)
WorkerKnows ==
  \A w \in Workers :
    /\ pc[w] \in Giving => client[w] \in Clients \X Ids
    /\ IF pc[w] \in {"poll", "set"} \cup Running
       THEN chan[w] \in Chans /\ life[chan[w]] = "live"
       ELSE chan[w] = None
    /\ pc[w] \in {"create", "poll", "set"} => table[client[w][2]] = Null
    /\ pc[w] \in {"poll", "set"} => idOf[chan[w]] = client[w][2]
    /\ pc[w] = "donate" => table[client[w][2]] # None

(* A channel in the table is a live one, of the id it stands under.        *)
TableKnows ==
  /\ \A i \in Ids : table[i] \in Chans =>
       life[table[i]] = "live" /\ idOf[table[i]] = i
  /\ \A ch \in Chans : life[ch] = "live" => idOf[ch] \in Ids

(* A channel that is polled is run by nobody, and one that is run is run   *)
(* by one worker; only its maker may have it besides, once it has given it *)
(* to the poller.                                                          *)
OneRunner ==
  /\ \A ch \in polled : life[ch] = "live"
  /\ \A ch \in polled, w \in Workers : chan[w] = ch => pc[w] = "set"
  /\ \A v, w \in Workers :
       v # w /\ chan[v] = chan[w] /\ chan[v] # None =>
         pc[v] = "set" \/ pc[w] = "set"

(* What OneChannel says of live channels.                                  *)
LiveInTable ==
  \A ch \in Chans : life[ch] = "live" =>
    IF Making(ch) THEN table[idOf[ch]] = Null ELSE table[idOf[ch]] = ch

(* Where the channels are, while the table is a map.                       *)
Sound ==
  LiveInTable /\ FreedUnused /\ WorkerKnows /\ TableKnows /\ OneRunner
ChanInv == TypeOK /\ (astray \/ Sound)

(* OnePlace without its counting: the pipes agree with `place' and none    *)
(* holds a client twice, so do the channels, and nobody gives away a       *)
(* client that another one is giving away.                                 *)
PipesAgree ==
  /\ \A c \in Clients :
       place[c] = "piped" => \E ch \in Chans : c \in Range(pip[ch])
  /\ \A c \in Clients, ch \in Chans :
       c \in Range(pip[ch]) => place[c] = "piped"
  /\ \A c \in Clients, g, h \in Chans :
       c \in Range(pip[g]) /\ c \in Range(pip[h]) => g = h
  /\ \A ch \in Chans : \A j, k \in DOMAIN pip[ch] :
       pip[ch][j] = pip[ch][k] => j = k

(* The clients of a channel are the ones on board, each in one channel.    *)
ChannelsAgree ==
  /\ \A c \in Clients :
       place[c] = "onboard" => \E ch \in Chans : c \in clients[ch]
  /\ \A c \in Clients, ch \in Chans : c \in clients[ch] => place[c] = "onboard"
  /\ \A c \in Clients, g, h \in Chans :
       c \in clients[g] /\ c \in clients[h] => g = h

(* A client that is given is given by one worker.                          *)
GiversAgree ==
  /\ \A w \in Workers : pc[w] \in Giving => place[client[w][1]] = "given"
  /\ \A v, w \in Workers :
       pc[v] \in Giving /\ pc[w] \in Giving /\ client[v][1] = client[w][1]
         => v = w

(* Where the clients are.                                                  *)
Placed == PipesAgree /\ ChannelsAgree /\ GiversAgree

(* The inductive invariant.                                                *)
IInv == ChanInv /\ Placed

(* A step in which the table is a map.                                     *)
MapStep ==
  (\E w \in Workers : Begin(w) \/ Give(w) \/ Run(w)) \/ UNCHANGED vars

(* It leaves astray alone.                                                 *)
LEMMA MapStepKeeps == MapStep => astray' = astray
BY DEF MapStep, Begin, Give, Run, vars

(* Every step of giving, running and killing keeps Sound.  Whoever         *)
(* changes the table holds tableMtx or finds it free, so that no channel   *)
(* is being made when one is killed.                                       *)
LEMMA ChanStep ==
  ASSUME TypeOK, Sound, MapStep
  PROVE  TypeOK' /\ Sound'
<1> USE TableAssumption
<1>0. /\ TypeOK /\ LiveInTable /\ FreedUnused
      /\ WorkerKnows /\ TableKnows /\ OneRunner /\ astray' = astray
  BY MapStepKeeps DEF Sound
<1> DEFINE Goal == /\ TypeOK' /\ LiveInTable' /\ FreedUnused'
                   /\ WorkerKnows' /\ TableKnows' /\ OneRunner'
<1> SUFFICES Goal
  BY DEF Sound
<1>1. ASSUME NEW w \in Workers, NEW c \in Clients, NEW i \in Ids,
             GiveClient(w, c, i)
      PROVE  Goal
  <2> USE <1>0, <1>1
        DEF GiveClient, Moves, Goto, tableVars, chanVars, TypeOK, Giving,
            Running
  <2>1. TypeOK'
    BY DEF TypeOK
  <2>2. LiveInTable'
    BY DEF LiveInTable, Making
  <2>3. FreedUnused'
    BY DEF FreedUnused
  <2>4. WorkerKnows'
    BY DEF WorkerKnows
  <2>5. TableKnows'
    BY DEF TableKnows
  <2>6. OneRunner'
    BY DEF OneRunner
  <2> QED BY <2>1, <2>2, <2>3, <2>4, <2>5, <2>6
<1>2. ASSUME NEW w \in Workers, GiveLock(w)
      PROVE  Goal
  <2> USE <1>0, <1>2
        DEF GiveLock, Goto, tableVars, chanVars, TypeOK, Giving, Running
  <2>1. TypeOK'
    BY DEF TypeOK
  <2>2. LiveInTable'
    BY DEF LiveInTable, Making
  <2>3. FreedUnused'
    BY DEF FreedUnused
  <2>4. WorkerKnows'
    BY DEF WorkerKnows
  <2>5. TableKnows'
    BY DEF TableKnows
  <2>6. OneRunner'
    BY DEF OneRunner
  <2> QED BY <2>1, <2>2, <2>3, <2>4, <2>5, <2>6
<1>3. ASSUME NEW w \in Workers, AtFound(w)
      PROVE  Goal
  <2> USE <1>0, <1>3
        DEF AtFound, Goto, tableVars, chanVars, TypeOK, Giving, Running
  <2>1. TypeOK'
    BY DEF TypeOK
  <2>2. LiveInTable'
    BY DEF LiveInTable, Making
  <2>3. FreedUnused'
    BY DEF FreedUnused
  <2>4. WorkerKnows'
    BY DEF WorkerKnows
  <2>5. TableKnows'
    BY DEF TableKnows
  <2>6. OneRunner'
    BY DEF OneRunner
  <2> QED BY <2>1, <2>2, <2>3, <2>4, <2>5, <2>6
<1>4. ASSUME NEW w \in Workers, AtInserts(w)
      PROVE  Goal
  <2> USE <1>0, <1>4
        DEF AtInserts, Goto, tableVars, chanVars, TypeOK, Giving, Running
  <2>1. TypeOK'
    <3>1. client[w][2] \in Ids
      BY DEF WorkerKnows
    <3>2. table' \in [Ids -> Chans \cup {None, Null}]
      BY <3>1
    <3>3. crashed' \in BOOLEAN /\ astray' \in BOOLEAN
      BY Zenon
    <3> QED BY <3>2, <3>3 DEF TypeOK
  <2>2. LiveInTable'
    <3>1. /\ client[w][2] \in Ids
         /\ table' = [table EXCEPT ![client[w][2]] = Null]
      BY DEF WorkerKnows
    <3>2. \A ch \in Chans : life[ch] = "live" => idOf[ch] # client[w][2]
      BY DEF LiveInTable
    <3>3. \A ch \in Chans :
           life[ch] = "live" => table'[idOf[ch]] = table[idOf[ch]]
      BY <3>1, <3>2 DEF TableKnows
    <3>4. \A ch \in Chans : Making(ch)' <=> Making(ch)
      BY DEF Making
    <3> QED BY <3>3, <3>4 DEF LiveInTable
  <2>3. FreedUnused'
    BY DEF FreedUnused
  <2>4. WorkerKnows'
    BY DEF WorkerKnows
  <2>5. TableKnows'
    BY DEF TableKnows
  <2>6. OneRunner'
    BY DEF OneRunner
  <2> QED BY <2>1, <2>2, <2>3, <2>4, <2>5, <2>6
<1>5. ASSUME NEW w \in Workers, CreateFails(w)
      PROVE  Goal
  <2> USE <1>0, <1>5
        DEF CreateFails, GivesUp, Moves, Goto, tableVars, chanVars, TypeOK,
            Giving, Running
  <2>1. TypeOK'
    BY DEF TypeOK
  <2>2. LiveInTable'
    BY DEF LiveInTable, Making
  <2>3. FreedUnused'
    BY DEF FreedUnused
  <2>4. WorkerKnows'
    BY DEF WorkerKnows
  <2>5. TableKnows'
    BY DEF TableKnows
  <2>6. OneRunner'
    BY DEF OneRunner
  <2> QED BY <2>1, <2>2, <2>3, <2>4, <2>5, <2>6
<1>6. ASSUME NEW w \in Workers, NEW ch \in Chans, ChannelCreate(w, ch)
      PROVE  Goal
  <2> USE <1>0, <1>6
        DEF ChannelCreate, Goto, tableVars, chanVars, TypeOK, Giving, Running
  <2>1. TypeOK'
    <3>1. client[w][2] \in Ids
      BY DEF WorkerKnows
    <3> QED BY <3>1
  <2>2. LiveInTable'
    <3>1. client[w][2] \in Ids /\ table[client[w][2]] = Null
      BY DEF WorkerKnows
    <3>2. Making(ch)' /\ table'[idOf'[ch]] = Null
      BY <3>1 DEF Making
    <3>3. ASSUME NEW h \in Chans \ {ch}
          PROVE  /\ life'[h] = life[h] /\ idOf'[h] = idOf[h]
                 /\ Making(h) <=> Making(h)'
      BY DEF Making, WorkerKnows
    <3> QED BY <3>2, <3>3 DEF LiveInTable
  <2>3. FreedUnused'
    BY DEF FreedUnused
  <2>4. WorkerKnows'
    BY DEF WorkerKnows
  <2>5. TableKnows'
    <3>1. client[w][2] \in Ids
      BY DEF WorkerKnows
    <3>2. \A i \in Ids : table[i] # ch
      BY DEF TableKnows
    <3> QED BY <3>1, <3>2 DEF TableKnows
  <2>6. OneRunner'
    <3>1. ch \notin polled /\ \A v \in Workers : chan[v] # ch
      BY DEF OneRunner, WorkerKnows
    <3> QED BY <3>1 DEF OneRunner
  <2> QED BY <2>1, <2>2, <2>3, <2>4, <2>5, <2>6
<1>7. ASSUME NEW w \in Workers, PollNew(w)
      PROVE  Goal
  <2> USE <1>0, <1>7
        DEF PollNew, Goto, tableVars, chanVars, TypeOK, Giving, Running
  <2>1. TypeOK'
    <3>1. chan[w] \in Chans
      BY DEF WorkerKnows
    <3> QED BY <3>1
  <2>2. LiveInTable'
    BY DEF LiveInTable, Making
  <2>3. FreedUnused'
    BY DEF FreedUnused
  <2>4. WorkerKnows'
    BY DEF WorkerKnows
  <2>5. TableKnows'
    BY DEF TableKnows
  <2>6. OneRunner'
    <3>1. chan[w] \in Chans /\ life[chan[w]] = "live"
      BY DEF WorkerKnows
    <3>2. \A v \in Workers : pc[v] \in {"poll", "set"} => v = w
      OBVIOUS
    <3>3. \A v \in Workers : chan[v] = chan[w] => v = w
      BY <3>1, <3>2 DEF OneRunner
    <3> QED BY <3>1, <3>3 DEF OneRunner
  <2> QED BY <2>1, <2>2, <2>3, <2>4, <2>5, <2>6
<1>8. ASSUME NEW w \in Workers, PollNewFails(w)
      PROVE  Goal
  <2> USE <1>0, <1>8
        DEF PollNewFails, GivesUp, Moves, Goto, tableVars, chanVars, TypeOK,
            Giving, Running
  <2>1. TypeOK'
    BY DEF TypeOK
  <2>2. LiveInTable'
    BY DEF LiveInTable, Making
  <2>3. FreedUnused'
    <3>1. /\ chan[w] \in Chans /\ table[client[w][2]] = Null
          /\ idOf[chan[w]] = client[w][2]
      BY DEF WorkerKnows
    <3>2. \A i \in Ids : table[i] # chan[w]
      BY <3>1 DEF TableKnows
    <3>3. \A v \in Workers \ {w} : chan[v] # chan[w]
      BY <3>1 DEF OneRunner
    <3>4. chan[w] \notin polled
      BY DEF OneRunner
    <3> QED BY <3>1, <3>2, <3>3, <3>4 DEF FreedUnused
  <2>4. WorkerKnows'
    <3>1. chan[w] \in Chans
      BY DEF WorkerKnows
    <3>2. \A v \in Workers \ {w} : chan[v] # chan[w]
      BY <3>1 DEF OneRunner
    <3> QED BY <3>1, <3>2 DEF WorkerKnows
  <2>5. TableKnows'
    <3>1. /\ chan[w] \in Chans /\ table[client[w][2]] = Null
          /\ idOf[chan[w]] = client[w][2]
      BY DEF WorkerKnows
    <3>2. \A i \in Ids : table[i] # chan[w]
      BY <3>1 DEF TableKnows
    <3> QED BY <3>1, <3>2 DEF TableKnows
  <2>6. OneRunner'
    BY DEF OneRunner
  <2> QED BY <2>1, <2>2, <2>3, <2>4, <2>5, <2>6
<1>9. ASSUME NEW w \in Workers, SetEntry(w)
      PROVE  Goal
  <2> USE <1>0, <1>9
        DEF SetEntry, Goto, tableVars, chanVars, TypeOK, Giving, Running
  <2>1. TypeOK'
    BY DEF TypeOK
  <2>2. LiveInTable'
    <3>0. PICK ch \in Chans : ch = chan[w]
      BY DEF WorkerKnows
    <3>1. /\ client[w][2] \in Ids /\ life[ch] = "live"
          /\ table[client[w][2]] = Null /\ idOf[ch] = client[w][2]
      BY <3>0 DEF WorkerKnows
    <3>2. \A h \in Chans : life[h] = "live" /\ idOf[h] = client[w][2] => h = ch
      BY <3>0, <3>1 DEF LiveInTable, Making
    <3>3. ASSUME NEW h \in Chans, life'[h] = "live"
          PROVE  IF Making(h)' THEN table'[idOf'[h]] = Null
                               ELSE table'[idOf'[h]] = h
      <4>1. CASE h = ch
        <5>1. ~Making(h)'
          BY <3>0, <4>1 DEF Making
        <5> QED BY <3>0, <3>1, <4>1, <5>1
      <4>2. CASE h # ch
        <5>1. life[h] = "live" /\ idOf[h] \in Ids /\ idOf[h] # client[w][2]
          BY <3>2, <3>3, <4>2 DEF TableKnows
        <5>2. Making(h) <=> Making(h)'
          BY <3>0, <4>2 DEF Making
        <5>3. table'[idOf'[h]] = table[idOf[h]]
          BY <3>1, <5>1
        <5> QED BY <5>1, <5>2, <5>3 DEF LiveInTable
      <4> QED BY <4>1, <4>2
    <3> QED BY <3>3, Zenon DEF LiveInTable
  <2>3. FreedUnused'
    BY DEF FreedUnused
  <2>4. WorkerKnows'
    BY DEF WorkerKnows
  <2>5. TableKnows'
    <3>1. /\ client[w][2] \in Ids
         /\ chan[w] \in Chans /\ life[chan[w]] = "live"
          /\ idOf[chan[w]] = client[w][2]
      BY DEF WorkerKnows
    <3> QED BY <3>1 DEF TableKnows
  <2>6. OneRunner'
    BY DEF OneRunner
  <2> QED BY <2>1, <2>2, <2>3, <2>4, <2>5, <2>6
<1>10. ASSUME NEW w \in Workers, Donate(w)
      PROVE  Goal
  <2> USE <1>0, <1>10
        DEF Donate, Moves, Goto, tableVars, chanVars, TypeOK, Giving, Running
  <2>1. TypeOK'
    <3>1. client[w][1] \in Clients /\ table[client[w][2]] \in Chans \cup {Null}
      BY DEF WorkerKnows
    <3>2. CASE table[client[w][2]] = Null
      BY <3>1, <3>2
    <3>3. CASE table[client[w][2]] # Null
      <4>1. PICK ch \in Chans : ch = table[client[w][2]]
        BY <3>1, <3>3
      <4>2. Append(pip[ch], client[w][1]) \in Seq(Clients)
        BY <3>1
      <4>3. \/ pip' = pip
           \/ pip' = [pip EXCEPT ![ch] = Append(pip[ch], client[w][1])]
        BY <3>3, <4>1
      <4>4. pip \in [Chans -> Seq(Clients)]
        OBVIOUS
      <4>5. pip' \in [Chans -> Seq(Clients)]
        <5>1. CASE pip' = pip
          BY <4>4, <5>1, Zenon
        <5>2. CASE pip' = [pip EXCEPT ![ch] = Append(pip[ch], client[w][1])]
          <6> DEFINE longer == Append(pip[ch], client[w][1])
          <6>1. longer \in Seq(Clients)
            BY <4>2, Zenon
          <6>2. pip' = [pip EXCEPT ![ch] = longer]
            BY <5>2, Zenon
          <6> HIDE DEF longer
          <6> HIDE <1>0, <1>10
          <6> QED BY <4>4, <6>1, <6>2
        <5> QED BY <4>3, <5>1, <5>2, Zenon
      <4>6. crashed' \in BOOLEAN /\ astray' \in BOOLEAN
        BY <3>3, Zenon
      <4>7. /\ table' \in [Ids -> Chans \cup {None, Null}]
            /\ life' \in [Chans -> {"unborn", "live", "freed"}]
            /\ idOf' \in [Chans -> Ids \cup {None}] /\ polled' \subseteq Chans
            /\ client' \in [Workers -> (Clients \X Ids) \cup {None}]
            /\ chan' \in [Workers -> Chans \cup {None}]
            /\ tableMtx' \in Workers \cup {None}
            /\ clients' \in [Chans -> SUBSET Clients]
        BY <3>1, <3>3
      <4>8. place' \in
             [Clients -> {"shaking", "given", "piped", "onboard", "freed"}]
        BY <3>1, <3>3
      <4>9. /\ pc' \in [Workers -> {"idle", "give", "at", "create", "poll",
                                    "set", "donate", "new", "serve", "repoll",
                                    "kill", "gone"}]
            /\ \A v \in Workers :
                 tableMtx' = v <=>
                   pc'[v] \in {"at", "create", "poll", "set", "donate"}
        BY <3>1, <3>3
      <4> HIDE <1>0, <1>10 DEF Donate
      <4> QED BY <4>5, <4>6, <4>7, <4>8, <4>9, Zenon DEF TypeOK
    <3> QED BY <3>2, <3>3
  <2>2. LiveInTable'
    BY DEF LiveInTable, Making
  <2>3. FreedUnused'
    BY DEF FreedUnused
  <2>4. WorkerKnows'
    BY DEF WorkerKnows
  <2>5. TableKnows'
    BY DEF TableKnows
  <2>6. OneRunner'
    BY DEF OneRunner
  <2> QED BY <2>1, <2>2, <2>3, <2>4, <2>5, <2>6
<1>11. ASSUME NEW w \in Workers, NEW ch \in Chans, StartCB(w, ch)
      PROVE  Goal
  <2> USE <1>0, <1>11
        DEF StartCB, Goto, tableVars, chanVars, TypeOK, Giving, Running
  <2>1. TypeOK'
    BY DEF TypeOK
  <2>2. LiveInTable'
    BY DEF LiveInTable, Making
  <2>3. FreedUnused'
    BY DEF FreedUnused
  <2>4. WorkerKnows'
    <3>1. life[ch] = "live"
      BY DEF OneRunner
    <3> QED BY <3>1 DEF WorkerKnows
  <2>5. TableKnows'
    BY DEF TableKnows
  <2>6. OneRunner'
    BY DEF OneRunner
  <2> QED BY <2>1, <2>2, <2>3, <2>4, <2>5, <2>6
<1>12. ASSUME NEW w \in Workers, NewClient(w)
      PROVE  Goal
  <2> USE <1>0, <1>12
        DEF NewClient, Moves, Goto, tableVars, chanVars, TypeOK, Giving,
            Running
  <2>1. TypeOK'
    <3>1. chan[w] \in Chans
      BY DEF WorkerKnows
    <3>2. pip[chan[w]] \in Seq(Clients) /\ pip[chan[w]] # <<>>
      BY <3>1
    <3>3. Head(pip[chan[w]]) \in Clients /\ Tail(pip[chan[w]]) \in Seq(Clients)
      BY <3>2
    <3> QED BY <3>1, <3>3
  <2>2. LiveInTable'
    BY DEF LiveInTable, Making
  <2>3. FreedUnused'
    BY DEF FreedUnused
  <2>4. WorkerKnows'
    BY DEF WorkerKnows
  <2>5. TableKnows'
    BY DEF TableKnows
  <2>6. OneRunner'
    BY DEF OneRunner
  <2> QED BY <2>1, <2>2, <2>3, <2>4, <2>5, <2>6
<1>13. ASSUME NEW w \in Workers, NewClientsDone(w)
      PROVE  Goal
  <2> USE <1>0, <1>13
        DEF NewClientsDone, Goto, tableVars, chanVars, TypeOK, Giving, Running
  <2>1. TypeOK'
    BY DEF TypeOK
  <2>2. LiveInTable'
    BY DEF LiveInTable, Making
  <2>3. FreedUnused'
    BY DEF FreedUnused
  <2>4. WorkerKnows'
    BY DEF WorkerKnows
  <2>5. TableKnows'
    BY DEF TableKnows
  <2>6. OneRunner'
    BY DEF OneRunner
  <2> QED BY <2>1, <2>2, <2>3, <2>4, <2>5, <2>6
<1>14. ASSUME NEW w \in Workers, Serve(w)
      PROVE  Goal
  <2>0. PICK dead \in SUBSET clients[chan[w]] :
          /\ clients' = [clients EXCEPT ![chan[w]] = @ \ dead]
          /\ Moves(dead, "freed")
          /\ Goto(w, "repoll") \/ Goto(w, "kill")
    BY <1>14, Zenon DEF Serve
  <2>a. \/ pc' = [pc EXCEPT ![w] = "repoll"]
        \/ pc' = [pc EXCEPT ![w] = "kill"]
    BY <2>0, Zenon DEF Goto
  <2>1. TypeOK'
    <3>1. chan[w] \in Chans /\ pc[w] = "serve"
      BY <1>0, <1>14, Zenon DEF WorkerKnows, Running, Serve
    <3>2. /\ UNCHANGED tableVars /\ UNCHANGED <<life, idOf, pip, polled>>
          /\ UNCHANGED <<client, chan, crashed>>
      BY <1>14, Zenon DEF Serve
    <3>3. clients' \in [Chans -> SUBSET Clients]
      BY <1>0, <2>0, <3>1 DEF TypeOK
    <3>4. place' \in
           [Clients -> {"shaking", "given", "piped", "onboard", "freed"}]
      BY <1>0, <2>0 DEF Moves, TypeOK
    <3>5. \A v \in Workers : v # w => pc'[v] = pc[v]
      BY <1>0, <2>a DEF TypeOK
    <3>6. pc'[w] \in {"repoll", "kill"}
      BY <1>0, <2>a DEF TypeOK
    <3>7. pc' \in [Workers -> {"idle", "give", "at", "create", "poll", "set",
                              "donate", "new", "serve", "repoll", "kill",
                              "gone"}]
      BY <1>0, <2>a DEF TypeOK
    <3>8. \A v \in Workers :
           tableMtx' = v <=>
             pc'[v] \in {"at", "create", "poll", "set", "donate"}
      BY <1>0, <3>1, <3>2, <3>5, <3>6 DEF TypeOK, tableVars
    <3>9. crashed' \in BOOLEAN /\ astray' \in BOOLEAN
      BY <1>0, <3>2, Zenon DEF TypeOK
    <3>10. /\ table' \in [Ids -> Chans \cup {None, Null}]
           /\ life' \in [Chans -> {"unborn", "live", "freed"}]
           /\ idOf' \in [Chans -> Ids \cup {None}] /\ polled' \subseteq Chans
           /\ client' \in [Workers -> (Clients \X Ids) \cup {None}]
           /\ chan' \in [Workers -> Chans \cup {None}]
           /\ tableMtx' \in Workers \cup {None}
           /\ pip' \in [Chans -> Seq(Clients)]
      BY <1>0, <3>2 DEF TypeOK, tableVars
    <3> QED BY <3>3, <3>4, <3>7, <3>8, <3>9, <3>10, Zenon DEF TypeOK
  <2> USE <1>0, <1>14
        DEF Serve, Moves, Goto, tableVars, chanVars, TypeOK, Giving, Running
  <2>2. LiveInTable'
    <3>1. Goto(w, "repoll") \/ Goto(w, "kill")
      OBVIOUS
    <3>2. \A h \in Chans : Making(h)' <=> Making(h)
      BY <3>1 DEF Making
    <3> QED BY <3>2 DEF LiveInTable
  <2>3. FreedUnused'
    BY DEF FreedUnused
  <2>4. WorkerKnows'
    BY DEF WorkerKnows
  <2>5. TableKnows'
    BY DEF TableKnows
  <2>6. OneRunner'
    <3>1. /\ life' = life /\ polled' = polled /\ chan' = chan
          /\ pc[w] = "serve" /\ \A v \in Workers : v # w => pc'[v] = pc[v]
      BY <2>a
    <3>2. chan[w] \notin polled
      BY <3>1 DEF OneRunner
    <3>3. \A v \in Workers : pc[v] = "set" => pc'[v] = "set"
      BY <3>1
    <3> HIDE <1>14
    <3> QED BY <3>1, <3>2, <3>3 DEF OneRunner
  <2> QED BY <2>1, <2>2, <2>3, <2>4, <2>5, <2>6
<1>15. ASSUME NEW w \in Workers, Repoll(w)
      PROVE  Goal
  <2> USE <1>0, <1>15
        DEF Repoll, Goto, tableVars, chanVars, TypeOK, Giving, Running
  <2>1. TypeOK'
    <3>1. chan[w] \in Chans
      BY DEF WorkerKnows
    <3> QED BY <3>1
  <2>2. LiveInTable'
    BY DEF LiveInTable, Making
  <2>3. FreedUnused'
    BY DEF FreedUnused
  <2>4. WorkerKnows'
    BY DEF WorkerKnows
  <2>5. TableKnows'
    BY DEF TableKnows
  <2>6. OneRunner'
    <3>1. chan[w] \in Chans /\ life[chan[w]] = "live"
      BY DEF WorkerKnows
    <3>2. \A v \in Workers \ {w} : chan[v] = chan[w] => pc[v] = "set"
      BY <3>1 DEF OneRunner
    <3> QED BY <3>1, <3>2 DEF OneRunner
  <2> QED BY <2>1, <2>2, <2>3, <2>4, <2>5, <2>6
<1>16. ASSUME NEW w \in Workers, RepollFails(w)
      PROVE  Goal
  <2> USE <1>0, <1>16
        DEF RepollFails, Goto, tableVars, chanVars, TypeOK, Giving, Running
  <2>1. TypeOK'
    BY DEF TypeOK
  <2>2. LiveInTable'
    BY DEF LiveInTable, Making
  <2>3. FreedUnused'
    BY DEF FreedUnused
  <2>4. WorkerKnows'
    BY DEF WorkerKnows
  <2>5. TableKnows'
    BY DEF TableKnows
  <2>6. OneRunner'
    BY DEF OneRunner
  <2> QED BY <2>1, <2>2, <2>3, <2>4, <2>5, <2>6
<1>17. ASSUME NEW w \in Workers, KillChannel(w)
      PROVE  Goal
  <2> USE <1>0, <1>17
        DEF KillChannel, KillUnlocked, Moves, Goto, tableVars, chanVars,
            TypeOK, Giving, Running
  <2>0. /\ chan[w] \in Chans /\ life[chan[w]] = "live" /\ idOf[chan[w]] \in Ids
        /\ table[idOf[chan[w]]] = chan[w]
        /\ \A v \in Workers : pc[v] \notin {"poll", "set"}
    <3>1. chan[w] \in Chans /\ life[chan[w]] = "live" /\ idOf[chan[w]] \in Ids
      BY DEF WorkerKnows, TableKnows
    <3>2. \A v \in Workers : pc[v] \notin {"poll", "set"}
      OBVIOUS
    <3> QED BY <3>1, <3>2 DEF LiveInTable, Making
  <2>a. /\ life' = [life EXCEPT ![chan[w]] = "freed"]
        /\ clients' = [clients EXCEPT ![chan[w]] = {}]
        /\ table' = [table EXCEPT ![idOf[chan[w]]] = None]
    BY <2>0
  <2>b. chan[w] \notin polled /\ \A v \in Workers \ {w} : chan[v] # chan[w]
    BY <2>0 DEF OneRunner
  <2>1. TypeOK'
    BY <2>0, <2>a, <2>b DEF TypeOK
  <2>2. LiveInTable'
    <3>1. \A h \in Chans : life[h] = "live" => table[idOf[h]] = h
      BY <2>0 DEF LiveInTable, Making
    <3>2. \A h \in Chans : ~Making(h)'
      BY <2>0 DEF Making
    <3>3. ASSUME NEW h \in Chans \ {chan[w]}, life[h] = "live"
          PROVE  table'[idOf[h]] = h
      <4>1. idOf[h] \in Ids /\ idOf[h] # idOf[chan[w]]
        BY <2>0, <3>1, <3>3 DEF TableKnows
      <4> QED BY <2>a, <3>1, <3>3, <4>1
    <3>4. \A h \in Chans : life'[h] = "live" => h # chan[w] /\ life[h] = "live"
      BY <2>0, <2>a
    <3>5. idOf' = idOf
      OBVIOUS
    <3> QED BY <3>2, <3>3, <3>4, <3>5, Zenon DEF LiveInTable
  <2>3. FreedUnused'
    <3>1. \A i \in Ids : table'[i] # chan[w]
      BY <2>0, <2>a DEF TableKnows
    <3>2. chan'[w] = None /\ polled' = polled
      OBVIOUS
    <3> QED BY <2>0, <2>a, <2>b, <3>1, <3>2 DEF FreedUnused
  <2>4. WorkerKnows'
    BY <2>0, <2>a, <2>b DEF WorkerKnows
  <2>5. TableKnows'
    BY <2>0, <2>a, <2>b DEF TableKnows
  <2>6. OneRunner'
    BY <2>0, <2>a, <2>b DEF OneRunner
  <2> QED BY <2>1, <2>2, <2>3, <2>4, <2>5, <2>6
<1>18. CASE UNCHANGED vars
  BY <1>0, <1>18
    DEF vars, tableVars, chanVars, TypeOK, LiveInTable, Making, FreedUnused,
        WorkerKnows, TableKnows, OneRunner
<1>19. ASSUME NEW w \in Workers, NewClientFails(w)
      PROVE  Goal
  <2> USE <1>0, <1>19
        DEF NewClientFails, Moves, Goto, tableVars, chanVars, TypeOK, Giving,
            Running
  <2>1. TypeOK'
    <3>1. chan[w] \in Chans
      BY DEF WorkerKnows
    <3>2. pip[chan[w]] \in Seq(Clients) /\ pip[chan[w]] # <<>>
      BY <3>1
    <3>3. Tail(pip[chan[w]]) \in Seq(Clients)
      BY <3>2
    <3> QED BY <3>1, <3>3
  <2>2. LiveInTable'
    BY DEF LiveInTable, Making
  <2>3. FreedUnused'
    BY DEF FreedUnused
  <2>4. WorkerKnows'
    BY DEF WorkerKnows
  <2>5. TableKnows'
    BY DEF TableKnows
  <2>6. OneRunner'
    BY DEF OneRunner
  <2> QED BY <2>1, <2>2, <2>3, <2>4, <2>5, <2>6
<1> QED BY <1>1, <1>2, <1>3, <1>4, <1>5, <1>6, <1>7, <1>8, <1>9, <1>10, <1>11,
      <1>12, <1>13, <1>14, <1>15, <1>16, <1>17, <1>18, <1>19
      DEF MapStep, Begin, Give, Run

(* A sequence that holds no element twice, with one more that it does not  *)
(* hold, or without its first.                                             *)
Once(s) == \A j, k \in DOMAIN s : s[j] = s[k] => j = k

LEMMA AppendOnce ==
  ASSUME NEW S, NEW s \in Seq(S), NEW x \in S
  PROVE  /\ Range(Append(s, x)) = Range(s) \cup {x}
         /\ Once(s) /\ x \notin Range(s) => Once(Append(s, x))
<1>1. /\ DOMAIN s = 1 .. Len(s) /\ Len(s) \in Nat
      /\ DOMAIN Append(s, x) = 1 .. Len(s) + 1
      /\ \A i \in 1 .. Len(s) : Append(s, x)[i] = s[i]
      /\ Append(s, x)[Len(s) + 1] = x
  OBVIOUS
<1>2. \A i : i \in 1 .. Len(s) + 1 <=> i \in 1 .. Len(s) \/ i = Len(s) + 1
  BY <1>1
<1> QED BY <1>1, <1>2 DEF Range, Once

(* Without its first it holds the others, each once.                       *)
LEMMA TailOnce ==
  ASSUME NEW S, NEW s \in Seq(S), s # <<>>, Once(s)
  PROVE  Range(Tail(s)) = Range(s) \ {Head(s)} /\ Once(Tail(s))
<1>1. /\ DOMAIN s = 1 .. Len(s) /\ Len(s) \in Nat \ {0} /\ Head(s) = s[1]
      /\ DOMAIN Tail(s) = 1 .. Len(s) - 1
      /\ \A i \in 1 .. Len(s) - 1 : Tail(s)[i] = s[i + 1]
  OBVIOUS
<1>2. Range(Tail(s)) \subseteq Range(s) \ {Head(s)}
  BY <1>1 DEF Range, Once
<1>3. ASSUME NEW y \in Range(s) \ {Head(s)}
      PROVE  y \in Range(Tail(s))
  <2>1. PICK i \in 1 .. Len(s) : y = s[i]
    BY <1>1, <1>3 DEF Range
  <2>2. i - 1 \in 1 .. Len(s) - 1 /\ Tail(s)[i - 1] = y
    BY <1>1, <1>3, <2>1
  <2> QED BY <1>1, <2>2 DEF Range
<1> QED BY <1>1, <1>2, <1>3 DEF Once

(* Whoever moves clients that wait in no pipe, and not into one, leaves    *)
(* the pipes in agreement.                                                 *)
LEMMA PipesKept ==
  ASSUME PipesAgree, pip' = pip, NEW S, NEW l, Moves(S, l), l # "piped",
         \A c \in S \cap Clients : place[c] # "piped"
  PROVE  PipesAgree'
BY DEF PipesAgree, Moves

(* So with the channels, when the clients moved are not on board.          *)
LEMMA ChannelsKept ==
  ASSUME ChannelsAgree, clients' = clients, NEW S, NEW l, Moves(S, l),
         l # "onboard",
         \A c \in S \cap Clients : place[c] # "onboard"
  PROVE  ChannelsAgree'
BY DEF ChannelsAgree, Moves

(* Every step moves a client from one place to one place.                  *)
LEMMA PlacedStep ==
  ASSUME TypeOK, Sound, Placed, MapStep
  PROVE  Placed'
<1> USE TableAssumption
<1>0. TypeOK /\ WorkerKnows /\ PipesAgree /\ ChannelsAgree /\ GiversAgree
  BY DEF Sound, Placed
<1>1. ASSUME NEW w \in Workers, NEW c \in Clients, NEW i \in Ids,
             GiveClient(w, c, i)
      PROVE  Placed'
  <2> USE <1>0, <1>1
        DEF GiveClient, Moves, Goto, tableVars, chanVars, TypeOK, WorkerKnows,
            Giving, Running
  <2>1. PipesAgree'
    BY DEF PipesAgree
  <2>2. ChannelsAgree'
    BY DEF ChannelsAgree
  <2>3. GiversAgree'
    BY DEF GiversAgree
  <2> QED BY <2>1, <2>2, <2>3 DEF Placed
<1>2. ASSUME NEW w \in Workers, GiveLock(w)
      PROVE  Placed'
  <2> USE <1>0, <1>2
        DEF GiveLock, Goto, tableVars, chanVars, TypeOK, WorkerKnows, Giving,
            Running
  <2>1. PipesAgree'
    BY DEF PipesAgree
  <2>2. ChannelsAgree'
    BY DEF ChannelsAgree
  <2>3. GiversAgree'
    BY DEF GiversAgree
  <2> QED BY <2>1, <2>2, <2>3 DEF Placed
<1>3. ASSUME NEW w \in Workers, AtFound(w)
      PROVE  Placed'
  <2> USE <1>0, <1>3
        DEF AtFound, Goto, tableVars, chanVars, TypeOK, WorkerKnows, Giving,
            Running
  <2>1. PipesAgree'
    BY DEF PipesAgree
  <2>2. ChannelsAgree'
    BY DEF ChannelsAgree
  <2>3. GiversAgree'
    BY DEF GiversAgree
  <2> QED BY <2>1, <2>2, <2>3 DEF Placed
<1>4. ASSUME NEW w \in Workers, AtInserts(w)
      PROVE  Placed'
  <2> USE <1>0, <1>4
        DEF AtInserts, Goto, tableVars, chanVars, TypeOK, WorkerKnows, Giving,
            Running
  <2>1. PipesAgree'
    BY DEF PipesAgree
  <2>2. ChannelsAgree'
    BY DEF ChannelsAgree
  <2>3. GiversAgree'
    BY DEF GiversAgree
  <2> QED BY <2>1, <2>2, <2>3 DEF Placed
<1>5. ASSUME NEW w \in Workers, CreateFails(w)
      PROVE  Placed'
  <2>0. Moves({client[w][1]}, "freed") /\ UNCHANGED <<pip, clients>>
    BY <1>5 DEF CreateFails, GivesUp, chanVars
  <2>a. client[w][1] \in Clients /\ place[client[w][1]] = "given"
    BY <1>0, <1>5 DEF CreateFails, WorkerKnows, GiversAgree, Giving
  <2>1. PipesAgree'
    BY <1>0, <2>0, <2>a, PipesKept
  <2>2. ChannelsAgree'
    BY <1>0, <2>0, <2>a, ChannelsKept
  <2>3. GiversAgree'
    BY <1>0, <1>5
      DEF CreateFails, GivesUp, Moves, Goto, TypeOK, GiversAgree, WorkerKnows,
          Giving
  <2> QED BY <2>1, <2>2, <2>3 DEF Placed
<1>6. ASSUME NEW w \in Workers, NEW ch \in Chans, ChannelCreate(w, ch)
      PROVE  Placed'
  <2> USE <1>0, <1>6
        DEF ChannelCreate, Goto, tableVars, chanVars, TypeOK, WorkerKnows,
            Giving, Running
  <2>1. PipesAgree'
    BY DEF PipesAgree
  <2>2. ChannelsAgree'
    BY DEF ChannelsAgree
  <2>3. GiversAgree'
    BY DEF GiversAgree
  <2> QED BY <2>1, <2>2, <2>3 DEF Placed
<1>7. ASSUME NEW w \in Workers, PollNew(w)
      PROVE  Placed'
  <2> USE <1>0, <1>7
        DEF PollNew, Goto, tableVars, chanVars, TypeOK, WorkerKnows, Giving,
            Running
  <2>1. PipesAgree'
    BY DEF PipesAgree
  <2>2. ChannelsAgree'
    BY DEF ChannelsAgree
  <2>3. GiversAgree'
    BY DEF GiversAgree
  <2> QED BY <2>1, <2>2, <2>3 DEF Placed
<1>8. ASSUME NEW w \in Workers, PollNewFails(w)
      PROVE  Placed'
  <2>0. Moves({client[w][1]}, "freed") /\ UNCHANGED <<pip, clients>>
    BY <1>8 DEF PollNewFails, GivesUp, chanVars
  <2>a. client[w][1] \in Clients /\ place[client[w][1]] = "given"
    BY <1>0, <1>8 DEF PollNewFails, WorkerKnows, GiversAgree, Giving
  <2>1. PipesAgree'
    BY <1>0, <2>0, <2>a, PipesKept
  <2>2. ChannelsAgree'
    BY <1>0, <2>0, <2>a, ChannelsKept
  <2>3. GiversAgree'
    BY <1>0, <1>8
      DEF PollNewFails, GivesUp, Moves, Goto, TypeOK, GiversAgree, WorkerKnows,
          Giving
  <2> QED BY <2>1, <2>2, <2>3 DEF Placed
<1>9. ASSUME NEW w \in Workers, SetEntry(w)
      PROVE  Placed'
  <2> USE <1>0, <1>9
        DEF SetEntry, Goto, tableVars, chanVars, TypeOK, WorkerKnows, Giving,
            Running
  <2>1. PipesAgree'
    BY DEF PipesAgree
  <2>2. ChannelsAgree'
    BY DEF ChannelsAgree
  <2>3. GiversAgree'
    BY DEF GiversAgree
  <2> QED BY <2>1, <2>2, <2>3 DEF Placed
<1>10. ASSUME NEW w \in Workers, Donate(w)
      PROVE  Placed'
  <2>0. client[w][1] \in Clients /\ place[client[w][1]] = "given"
    BY <1>0, <1>10 DEF Donate, WorkerKnows, GiversAgree, Giving
  <2>a. \/ UNCHANGED <<pip, place>>
        \/ pip' = pip /\ Moves({client[w][1]}, "freed")
        \/ \E ch \in Chans :
            /\ pip' = [pip EXCEPT ![ch] = Append(@, client[w][1])]
                             /\ Moves({client[w][1]}, "piped")
    <3>1. table[client[w][2]] \in Chans \cup {Null}
      BY <1>0, <1>10 DEF Donate, TypeOK, WorkerKnows, Giving
    <3> QED BY <1>10, <3>1 DEF Donate
  <2>1. PipesAgree'
    <3>1. CASE UNCHANGED <<pip, place>>
      BY <1>0, <3>1 DEF PipesAgree
    <3>2. CASE pip' = pip /\ Moves({client[w][1]}, "freed")
      BY <1>0, <2>0, <3>2, PipesKept
    <3>3. ASSUME NEW ch \in Chans, pip' = [pip EXCEPT ![ch] = Append(@,
                 client[w][1])],
                 Moves({client[w][1]}, "piped")
          PROVE  PipesAgree'
      <4>1. /\ Range(pip'[ch]) = Range(pip[ch]) \cup {client[w][1]}
            /\ Once(pip'[ch])
        <5>1. client[w][1] \notin Range(pip[ch]) /\ Once(pip[ch])
          BY <1>0, <2>0 DEF PipesAgree, Once
        <5>2. /\ pip'[ch] = Append(pip[ch], client[w][1])
             /\ pip[ch] \in Seq(Clients)
          BY <1>0, <3>3 DEF TypeOK
        <5> QED BY <2>0, <5>1, <5>2, AppendOnce
      <4>2. \A h \in Chans \ {ch} : pip'[h] = pip[h]
        BY <1>0, <3>3 DEF TypeOK
      <4>3. \A c \in Clients :
             place'[c] = IF c = client[w][1] THEN "piped" ELSE place[c]
        BY <3>3 DEF Moves
      <4> QED BY <1>0, <2>0, <4>1, <4>2, <4>3 DEF PipesAgree, Once
    <3> QED BY <2>a, <3>1, <3>2, <3>3
  <2>2. ChannelsAgree'
    <3>1. clients' = clients
      BY <1>10 DEF Donate
    <3>2. CASE place' = place
      BY <1>0, <3>1, <3>2 DEF ChannelsAgree
    <3> QED BY <1>0, <2>0, <2>a, <3>1, <3>2, ChannelsKept
  <2>3. GiversAgree'
    BY <1>0, <1>10, <2>a
      DEF Donate, Moves, Goto, TypeOK, GiversAgree, WorkerKnows, Giving
  <2> QED BY <2>1, <2>2, <2>3 DEF Placed
<1>11. ASSUME NEW w \in Workers, NEW ch \in Chans, StartCB(w, ch)
      PROVE  Placed'
  <2> USE <1>0, <1>11
        DEF StartCB, Goto, tableVars, chanVars, TypeOK, WorkerKnows, Giving,
            Running
  <2>1. PipesAgree'
    BY DEF PipesAgree
  <2>2. ChannelsAgree'
    BY DEF ChannelsAgree
  <2>3. GiversAgree'
    BY DEF GiversAgree
  <2> QED BY <2>1, <2>2, <2>3 DEF Placed
<1>12. ASSUME NEW w \in Workers, NewClient(w)
      PROVE  Placed'
  <2>0. PICK ch \in Chans : ch = chan[w]
    BY <1>0, <1>12 DEF WorkerKnows, NewClient, Running
  <2>a. PICK c \in Clients :
          /\ c = Head(pip[ch]) /\ c \in Range(pip[ch])
          /\ clients' = [clients EXCEPT ![ch] = @ \cup {c}]
          /\ Moves({c}, "onboard")
          /\ pip' = [pip EXCEPT ![ch] = Tail(@)]
          /\ Range(Tail(pip[ch])) = Range(pip[ch]) \ {c} /\ Once(Tail(pip[ch]))
    <3>1. pip[ch] \in Seq(Clients) /\ pip[ch] # <<>> /\ Once(pip[ch])
      BY <1>0, <1>12, <2>0 DEF TypeOK, NewClient, PipesAgree, Once
    <3>2. Head(pip[ch]) \in Clients /\ Head(pip[ch]) \in Range(pip[ch])
      BY <3>1 DEF Range
    <3> QED BY <1>12, <2>0, <3>1, <3>2, TailOnce DEF NewClient
  <2>b. /\ pip'[ch] = Tail(pip[ch]) /\ \A h \in Chans \ {ch} : pip'[h] = pip[h]
        /\ clients'[ch] = clients[ch] \cup {c}
        /\ \A h \in Chans \ {ch} : clients'[h] = clients[h]
        /\ \A d \in Clients : place'[d] = IF d = c THEN "onboard" ELSE place[d]
        /\ place[c] = "piped"
    BY <1>0, <2>a DEF TypeOK, Moves, PipesAgree
  <2>1. PipesAgree'
    BY <1>0, <2>a, <2>b DEF PipesAgree, Once
  <2>2. ChannelsAgree'
    BY <1>0, <2>a, <2>b DEF ChannelsAgree
  <2>3. GiversAgree'
    BY <1>0, <1>12, <2>a, <2>b
      DEF GiversAgree, NewClient, TypeOK, WorkerKnows, Giving
  <2> QED BY <2>1, <2>2, <2>3 DEF Placed
<1>13. ASSUME NEW w \in Workers, NewClientsDone(w)
      PROVE  Placed'
  <2> USE <1>0, <1>13
        DEF NewClientsDone, Goto, tableVars, chanVars, TypeOK, WorkerKnows,
            Giving, Running
  <2>1. PipesAgree'
    BY DEF PipesAgree
  <2>2. ChannelsAgree'
    BY DEF ChannelsAgree
  <2>3. GiversAgree'
    BY DEF GiversAgree
  <2> QED BY <2>1, <2>2, <2>3 DEF Placed
<1>14. ASSUME NEW w \in Workers, Serve(w)
      PROVE  Placed'
  <2>0. PICK dead \in SUBSET clients[chan[w]] :
          /\ clients' = [clients EXCEPT ![chan[w]] = @ \ dead]
          /\ Moves(dead, "freed")
          /\ Goto(w, "repoll") \/ Goto(w, "kill")
          /\ pip' = pip /\ client' = client
    BY <1>14, Zenon DEF Serve
  <2>a. \A c \in dead : c \in Clients /\ place[c] = "onboard"
    BY <1>0, <1>14 DEF Serve, TypeOK, WorkerKnows, ChannelsAgree, Running
  <2>1. PipesAgree'
    <3>1. \A c \in dead \cap Clients : place[c] # "piped"
      BY <2>a
    <3> QED BY <1>0, <2>0, <3>1, PipesKept
  <2>2. ChannelsAgree'
    BY <1>0, <1>14, <2>0, <2>a
      DEF ChannelsAgree, Serve, Moves, TypeOK, WorkerKnows, Running
  <2>3. GiversAgree'
    <3>1. \A v \in Workers : pc'[v] \in Giving => pc[v] \in Giving
      BY <1>0, <1>14, <2>0 DEF Serve, Goto, TypeOK, Giving
    <3>2. \A v \in Workers : pc[v] \in Giving => client[v][1] \in Clients
      BY <1>0 DEF WorkerKnows
    <3> QED BY <1>0, <2>0, <2>a, <3>1, <3>2 DEF GiversAgree, Moves
  <2> QED BY <2>1, <2>2, <2>3 DEF Placed
<1>15. ASSUME NEW w \in Workers, Repoll(w)
      PROVE  Placed'
  <2> USE <1>0, <1>15
        DEF Repoll, Goto, tableVars, chanVars, TypeOK, WorkerKnows, Giving,
            Running
  <2>1. PipesAgree'
    BY DEF PipesAgree
  <2>2. ChannelsAgree'
    BY DEF ChannelsAgree
  <2>3. GiversAgree'
    BY DEF GiversAgree
  <2> QED BY <2>1, <2>2, <2>3 DEF Placed
<1>16. ASSUME NEW w \in Workers, RepollFails(w)
      PROVE  Placed'
  <2> USE <1>0, <1>16
        DEF RepollFails, Goto, tableVars, chanVars, TypeOK, WorkerKnows,
            Giving, Running
  <2>1. PipesAgree'
    BY DEF PipesAgree
  <2>2. ChannelsAgree'
    BY DEF ChannelsAgree
  <2>3. GiversAgree'
    BY DEF GiversAgree
  <2> QED BY <2>1, <2>2, <2>3 DEF Placed
<1>17. ASSUME NEW w \in Workers, KillChannel(w)
      PROVE  Placed'
  <2>0. \/ UNCHANGED <<clients, place>>
        \/ \E e \in Chans : /\ Moves(clients[e], "freed")
                            /\ clients' = [clients EXCEPT ![e] = {}]
    BY <1>17 DEF KillChannel, KillUnlocked
  <2>a. /\ pip' = pip /\ client' = client
        /\ \A v \in Workers : pc'[v] \in Giving => pc[v] \in Giving
    BY <1>0, <1>17 DEF KillChannel, KillUnlocked, Goto, TypeOK, Giving
  <2>b. CASE UNCHANGED <<clients, place>>
    BY <1>0, <2>a, <2>b DEF Placed, PipesAgree, ChannelsAgree, GiversAgree
  <2> SUFFICES ASSUME NEW e \in Chans, Moves(clients[e], "freed"),
                      clients' = [clients EXCEPT ![e] = {}]
               PROVE  Placed'
    BY <2>0, <2>b
  <2>c. \A c \in clients[e] : c \in Clients /\ place[c] = "onboard"
    BY <1>0 DEF TypeOK, ChannelsAgree
  <2>1. PipesAgree'
    BY <1>0, <2>a, <2>c, PipesKept
  <2>2. ChannelsAgree'
    BY <1>0, <2>c DEF ChannelsAgree, Moves, TypeOK
  <2>3. GiversAgree'
    BY <1>0, <2>a, <2>c DEF GiversAgree, Moves, WorkerKnows
  <2> QED BY <2>1, <2>2, <2>3 DEF Placed
<1>18. CASE UNCHANGED vars
  BY <1>0, <1>18
    DEF vars, tableVars, chanVars, Placed, PipesAgree, ChannelsAgree,
        GiversAgree
<1>19. ASSUME NEW w \in Workers, NewClientFails(w)
      PROVE  Placed'
  <2>0. PICK ch \in Chans : ch = chan[w]
    BY <1>0, <1>19 DEF WorkerKnows, NewClientFails, Running
  <2>a. PICK c \in Clients :
          /\ c \in Range(pip[ch]) /\ Moves({c}, "freed")
          /\ pip' = [pip EXCEPT ![ch] = Tail(@)]
          /\ Range(Tail(pip[ch])) = Range(pip[ch]) \ {c} /\ Once(Tail(pip[ch]))
    <3>1. pip[ch] \in Seq(Clients) /\ pip[ch] # <<>> /\ Once(pip[ch])
      BY <1>0, <1>19, <2>0 DEF TypeOK, NewClientFails, PipesAgree, Once
    <3>2. Head(pip[ch]) \in Clients /\ Head(pip[ch]) \in Range(pip[ch])
      BY <3>1 DEF Range
    <3> QED BY <1>19, <2>0, <3>1, <3>2, TailOnce DEF NewClientFails
  <2>b. /\ pip'[ch] = Tail(pip[ch]) /\ \A h \in Chans \ {ch} : pip'[h] = pip[h]
        /\ \A d \in Clients : place'[d] = IF d = c THEN "freed" ELSE place[d]
        /\ place[c] = "piped" /\ clients' = clients
    BY <1>0, <1>19, <2>a DEF TypeOK, Moves, PipesAgree, NewClientFails
  <2>1. PipesAgree'
    BY <1>0, <2>a, <2>b DEF PipesAgree, Once
  <2>2. ChannelsAgree'
    BY <1>0, <2>a, <2>b DEF ChannelsAgree
  <2>3. GiversAgree'
    BY <1>0, <1>19, <2>a, <2>b
      DEF GiversAgree, NewClientFails, Goto, TypeOK, WorkerKnows, Giving
  <2> QED BY <2>1, <2>2, <2>3 DEF Placed
<1> QED BY <1>1, <1>2, <1>3, <1>4, <1>5, <1>6, <1>7, <1>8, <1>9, <1>10, <1>11,
      <1>12, <1>13, <1>14, <1>15, <1>16, <1>17, <1>18, <1>19
      DEF MapStep, Begin, Give, Run

(* At the start there is no channel, no entry and nobody gives.            *)
LEMMA InvInit ==
  ASSUME Init
  PROVE  IInv
<1> USE TableAssumption DEF Init
<1>1. \A ch \in Chans :
       pip[ch] = <<>> /\ pip[ch] \in Seq(Clients) /\ Range(pip[ch]) = {}
  BY DEF Range
<1>2. TypeOK
  <2>1. pip \in [Chans -> Seq(Clients)]
    BY <1>1
  <2> QED BY <2>1 DEF TypeOK
<1>3. LiveInTable /\ FreedUnused
  BY DEF LiveInTable, FreedUnused
<1>4. WorkerKnows /\ TableKnows /\ OneRunner
  BY DEF WorkerKnows, TableKnows, OneRunner, Giving, Running
<1>5. Placed
  BY <1>1 DEF Placed, PipesAgree, ChannelsAgree, GiversAgree, Giving
<1> QED BY <1>2, <1>3, <1>4, <1>5 DEF IInv, ChanInv, Sound

(* A step in which the table loses an entry moves no client.               *)
LEMMA LosesStep ==
  ASSUME TypeOK, Sound, Placed, NEW w \in Workers, AtLoses(w)
  PROVE  TypeOK' /\ astray' /\ Placed'
<1> USE TableAssumption DEF AtLoses, Goto, tableVars, chanVars
<1>1. TypeOK'
  BY DEF TypeOK
<1>2. Placed'
  <2>1. PipesAgree' /\ ChannelsAgree'
    BY DEF Placed, PipesAgree, ChannelsAgree
  <2>2. GiversAgree'
    BY DEF Placed, GiversAgree, TypeOK, Giving
  <2> QED BY <2>1, <2>2 DEF Placed
<1> QED BY <1>1, <1>2

(* Every step keeps the invariant: after the table has lost an entry there *)
(* is none.                                                                *)
LEMMA InvStep ==
  ASSUME IInv, [Next]_vars
  PROVE  IInv'
<1>0. TypeOK /\ Placed /\ (astray \/ Sound)
  BY DEF IInv, ChanInv
<1>1. ASSUME MapStep, Sound
      PROVE  IInv'
  BY <1>0, <1>1, ChanStep, PlacedStep DEF IInv, ChanInv
<1>2. CASE UNCHANGED vars
  <2>1. CASE Sound
    BY <1>1, <1>2, <2>1 DEF MapStep
  <2>2. CASE astray
    <3>1. TypeOK' /\ astray'
      BY <1>0, <1>2, <2>2 DEF vars, tableVars, chanVars, TypeOK
    <3>2. Placed'
      BY <1>0, <1>2 DEF vars, tableVars, chanVars, Placed, PipesAgree,
                        ChannelsAgree, GiversAgree
    <3> QED BY <3>1, <3>2 DEF IInv, ChanInv
  <2> QED BY <1>0, <2>1, <2>2
<1>3. CASE Next
  <2>1. Sound
    BY <1>0, <1>3 DEF Next
  <2>2. ASSUME NEW w \in Workers, AtLoses(w)
        PROVE  IInv'
    BY <1>0, <2>1, <2>2, LosesStep DEF IInv, ChanInv
  <2>3. CASE MapStep
    BY <1>1, <2>1, <2>3
  <2> QED BY <1>3, <2>2, <2>3 DEF Next, MapStep
<1> QED BY <1>2, <1>3

(* It holds at the start and every step keeps it.                          *)
THEOREM Invariance == Spec => []IInv
<1>1. Init => IInv
  BY InvInit
<1>2. IInv /\ [Next]_vars => IInv'
  BY InvStep
<1> QED BY <1>1, <1>2, PTL DEF Spec

(* As long as the table has lost no entry: of each id there is at most one *)
(* live channel, and none that was freed is in the table, polled or run.   *)
THEOREM OneChannelPerId == Spec => []OneChannel
<1>1. IInv => OneChannel
  BY DEF IInv, ChanInv, Sound, LiveInTable, OneChannel
<1> QED BY <1>1, Invariance, PTL

(* A set whose members are all equal has one, or none.                     *)
LEMMA OneOrNone ==
  ASSUME NEW S, \A x, y \in S : x = y
  PROVE  Cardinality(S) = IF S = {} THEN 0 ELSE 1
<1>1. CASE S = {}
  BY <1>1, FS_EmptySet
<1>2. CASE S # {}
  <2>1. PICK x \in S : S = {x}
    BY <1>2
  <2> QED BY <1>2, <2>1, FS_Singleton
<1> QED BY <1>1, <1>2

(* No client is in two channels or pipes, and one that was destroyed is in *)
(* none.                                                                   *)
THEOREM ClientsInOnePlace == Spec => []OnePlace
<1>1. ASSUME IInv
      PROVE  OnePlace
  <2> SUFFICES ASSUME NEW c \in Clients
      PROVE  /\ Cardinality({ch \in Chans : c \in Range(pip[ch])})
                  = IF place[c] = "piped" THEN 1 ELSE 0
             /\ Cardinality({ch \in Chans : c \in clients[ch]})
                  = IF place[c] = "onboard" THEN 1 ELSE 0
    BY DEF OnePlace
  <2> DEFINE in == {ch \in Chans : c \in Range(pip[ch])}
             on == {ch \in Chans : c \in clients[ch]}
  <2>0. PipesAgree /\ ChannelsAgree
    BY <1>1 DEF IInv, Placed
  <2>1. (\A g, h \in in : g = h) /\ (in = {} <=> place[c] # "piped")
    BY <2>0 DEF PipesAgree
  <2>2. (\A g, h \in on : g = h) /\ (on = {} <=> place[c] # "onboard")
    BY <2>0 DEF ChannelsAgree
  <2>3. Cardinality(in) = IF in = {} THEN 0 ELSE 1
    BY <2>1, OneOrNone
  <2>4. Cardinality(on) = IF on = {} THEN 0 ELSE 1
    BY <2>2, OneOrNone
  <2> QED BY <2>1, <2>2, <2>3, <2>4
<1> QED BY <1>1, Invariance, PTL
=============================================================================
