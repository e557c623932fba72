-------------------------------- MODULE Chat --------------------------------
(***************************************************************************)
(* The Electron chat: the page (public/js/chat.js) of each user, the       *)
(* adapter behind it (src/index.js), and the room the proxies and the      *)
(* server make of them, in which a message goes to everyone else and is    *)
(* kept for newcomers (see Channel and EndToEnd for how).                  *)
(*                                                                         *)
(* Time passes in ticks.  A tick waits for whatever is done at once: a     *)
(* timer that is due, the adapter's connection, the proxy's login and its  *)
(* reading.  What the room sends a page may take into the next tick (one   *)
(* page at a time, to bound the model).  The ticks of Beat and Present     *)
(* stand to each other as HEART_BEAT and PRESENT_DURATION do: the second   *)
(* is a little less than twice the first.                                  *)
(***************************************************************************)
EXTENDS Integers, Sequences, FiniteSets, SequencesExt, Adapter

CONSTANTS User,       (* two users                                         *)
          Beat,       (* HEART_BEAT_MILISECONDS, in ticks                  *)
          Present,    (* PRESENT_DURATION_MILISECONDS, in ticks            *)
          MaxMsgs,    (* bound: messages typed by the two                  *)
          MaxLogins   (* bound: times each user starts the chat            *)

ASSUME ChatAssumption ==
  /\ Cardinality(User) = 2
  /\ Beat \in Nat \ {0} /\ Present \in Beat + 2 .. 2 * Beat - 1
  /\ MaxMsgs \in Nat /\ MaxLogins \in Nat

VARIABLES
  phase,       (* of each chat: out, open, connected to its proxy, joined  *)
  ws,          (* from the page to the adapter                             *)
  toProxy,     (* the stream from the adapter to the proxy                 *)
  fromProxy,   (* and back                                                 *)
  inc,         (* incPacketSizeOffset, incPacketSize, incPacketData        *)
  beatIn,      (* ticks until the page's interval fires                    *)
  tracker,     (* userTrackerObject: the timers of the names listed        *)
  log,         (* the messages the room keeps                              *)
  late,        (* pieces of fromProxy that were there at the last tick     *)
  age,         (* history: ticks since the chat was started or ended       *)
  logins, typed, (* history: how often, and how many messages              *)
  said, heard, (* history: messages typed and shown since the login        *)
  early        (* history: types of message lost before the adapter listened *)

pageVars == <<phase, beatIn, tracker, said, heard, logins, typed, age>>
streamVars == <<ws, toProxy, fromProxy, inc, log, late, early>>
vars == <<pageVars, streamVars>>

Peer(u) == CHOOSE v \in User : v # u
Here(u) == phase[u] # "out"
MaxAge == Present + 2

-----------------------------------------------------------------------------
(* Messages: the pieces of text one is, and those a wide character adds to *)
(* the bytes of it; the last piece is the control character.               *)
Message(u, type, len, extra) ==
  [by |-> u, type |-> type, n |-> typed[u], login |-> logins[u], len |-> len, extra |-> extra]
Text(m) == [j \in 1 .. m.len + m.extra |-> <<m, j>>]
LOG == 0
NOLOG == -1
Control(m) == <<m, IF m.type = "message" THEN LOG ELSE NOLOG>>

(* socketSend and socketSendLog.                                           *)
socketSend(u, m) == ws' = [ws EXCEPT ![u] = Append(@, m)]

(* JSON.parse throws on a message that has lost its end.                   *)
Parses(body) == body = Text(body[1][1])

-----------------------------------------------------------------------------
(* The page.                                                               *)

(* login, and onopen at once: the connection is to the same machine.       *)
login(u) ==
  /\ phase[u] = "out" /\ logins[u] < MaxLogins
  /\ phase' = [phase EXCEPT ![u] = "open"]
  /\ logins' = [logins EXCEPT ![u] = @ + 1]
  /\ socketSend(u, [Message(u, "hello", 1, 0) EXCEPT !.login = @ + 1])
  /\ beatIn' = [beatIn EXCEPT ![u] = Beat]
  /\ age' = [age EXCEPT ![u] = 0]
  /\ UNCHANGED <<tracker, said, heard, typed, toProxy, fromProxy, inc, log, late, early>>

(* userChatInput.onkeypress of the enter key.                              *)
onkeypress(u) ==
  /\ Here(u) /\ typed[u] + typed[Peer(u)] < MaxMsgs
  /\ typed' = [typed EXCEPT ![u] = @ + 1]
  /\ \E extra \in 0 .. 1 :
       LET m == [Message(u, "message", 2, extra) EXCEPT !.n = @ + 1]
       IN socketSend(u, m) /\ said' = [said EXCEPT ![u] = Append(@, m)]
  /\ UNCHANGED <<phase, beatIn, tracker, heard, logins, age, toProxy, fromProxy, inc, log,
                 late, early>>

(* beatHeart, as keepHeartBeating has it called.                           *)
keepHeartBeating(u) ==
  /\ Here(u) /\ beatIn[u] = 0
  /\ beatIn' = [beatIn EXCEPT ![u] = Beat]
  /\ socketSend(u, Message(u, "heartbeat", 1, 0))
  /\ UNCHANGED <<phase, tracker, said, heard, logins, typed, age, toProxy, fromProxy, inc,
                 log, late, early>>

(* Mutant of trackPresent: the timer that runs is not cleared.             *)
trackPresentRunning(t, name) ==
  [n \in DOMAIN t \cup {name} |-> IF n \in DOMAIN t THEN t[n] ELSE Present]
(* Mutant of trackPresent: the new timer runs after the old one.           *)
trackPresentAdded(t, name) ==
  [n \in DOMAIN t \cup {name} |->
     IF n # name THEN t[n] ELSE IF n \in DOMAIN t THEN t[n] + Present ELSE Present]
(* trackPresent: the name is listed, and its timer set anew.               *)
trackPresent(t, name) ==
  [n \in DOMAIN t \cup {name} |-> IF n = name THEN Present ELSE t[n]]

(* deleteUserTrackerName, when the timer has run out.                      *)
deleteUserTrackerName(u) ==
  /\ \E name \in DOMAIN tracker[u] :
       /\ tracker[u][name] = 0
       /\ tracker' = [tracker EXCEPT ![u] = [n \in DOMAIN @ \ {name} |-> @[n]]]
  /\ UNCHANGED <<phase, beatIn, said, heard, logins, typed, age, streamVars>>

(* onmessage answers a hello with a heartbeat.                             *)
Answers(m) == m.type = "hello"

(* onmessage for each of the bodies that one read has brought.             *)
onmessage(u, bodies) ==
  LET msgs == [k \in 1 .. Len(bodies) |-> bodies[k][1][1]]
      good == SelectSeq(bodies, Parses)
      read == [k \in 1 .. Len(good) |-> good[k][1][1]]
      of(types) == SelectSeq(read, LAMBDA m : m.type \in types)
      beats == SelectSeq(read, Answers)
  IN /\ tracker' = [tracker EXCEPT ![u] =
           FoldLeft(LAMBDA t, m : trackPresent(t, m.by), @, of({"hello", "heartbeat"}))]
     /\ heard' = [heard EXCEPT ![u] = @ \o of({"message"})]
     /\ ws' = [ws EXCEPT ![u] = @ \o [k \in 1 .. Len(beats) |-> Message(u, "heartbeat", 1, 0)]]

-----------------------------------------------------------------------------
(* The adapter.                                                            *)

(* wsServer.on connection: toServer is connected, and only then is there a *)
(* listener for what the page sends.                                       *)
connect(u) ==
  /\ phase[u] = "open"
  /\ phase' = [phase EXCEPT ![u] = "connected"]
  /\ UNCHANGED <<beatIn, tracker, said, heard, logins, typed, age, streamVars>>

(* toClient.on message.                                                    *)
Adapt(u) ==
  /\ ws[u] # <<>>
  /\ ws' = [ws EXCEPT ![u] = Tail(@)]
  /\ LET m == Head(ws[u])
     IN IF phase[u] = "open"
        THEN early' = [early EXCEPT ![u] = @ \cup {m.type}] /\ UNCHANGED toProxy
        ELSE /\ toProxy' = [toProxy EXCEPT ![u] =
                   @ \o proxySendPacket(m.len + 1, Append(Text(m), Control(m)))]
             /\ UNCHANGED early
  /\ UNCHANGED <<pageVars, fromProxy, inc, log, late>>

(* toServer.on data: k pieces.                                             *)
Data(u, k) ==
  /\ Here(u) /\ k <= Len(fromProxy[u])
  /\ LET i == proxyRecvPacket(inc[u], SubSeq(fromProxy[u], 1, k))
     IN inc' = [inc EXCEPT ![u] = [i EXCEPT !.send = <<>>]] /\ onmessage(u, i.send)
  /\ fromProxy' = [fromProxy EXCEPT ![u] = SubSeq(@, k + 1, Len(@))]
  /\ late' = [late EXCEPT ![u] = IF @ > k THEN @ - k ELSE 0]
  /\ UNCHANGED <<phase, beatIn, said, logins, typed, age, toProxy, log, early>>

-----------------------------------------------------------------------------
(* The room.                                                               *)

(* The proxy has logged in and handleNewClients put it on board: from      *)
(* place 0 on handleClientSends sends it what the log has, its own user's  *)
(* earlier messages too (its id is a new one); of what was not to be       *)
(* logged, what pruneLog has left.                                         *)
Join(u) ==
  /\ phase[u] = "connected"
  /\ phase' = [phase EXCEPT ![u] = "joined"]
  /\ \E type \in {"hello", "heartbeat"}, v \in User, unlogged \in BOOLEAN :
       LET m == [Message(v, type, 1, 0) EXCEPT !.n = 0, !.login = 1]
           kept == IF unlogged THEN <<Text(m)>> \o log ELSE log
       IN /\ unlogged => logins[v] > (IF v = u THEN 1 ELSE 0)
          /\ fromProxy' = [fromProxy EXCEPT ![u] =
                FlattenSeq([k \in 1 .. Len(kept) |-> TCPSockSendP(kept[k])])]
  /\ UNCHANGED <<beatIn, tracker, said, heard, logins, typed, age, ws, toProxy, inc, log, late,
                 early>>

(* readFromClientCB takes the last piece for the control byte; of a        *)
(* message cut short that is a piece of text, and may be either.           *)
Relay(u) ==
  /\ phase[u] = "joined" /\ Whole(toProxy[u])
  /\ LET taken == TCPRecvP(toProxy[u])
         body == Front(taken)
         cb == Last(taken)[2]
     IN /\ log' \in IF cb = LOG THEN {Append(log, body)}
                    ELSE IF cb = NOLOG THEN {log} ELSE {log, Append(log, body)}
        /\ fromProxy' = IF phase[Peer(u)] = "joined"
                        THEN [fromProxy EXCEPT ![Peer(u)] = @ \o TCPSockSendP(body)]
                        ELSE fromProxy
  /\ toProxy' = [toProxy EXCEPT ![u] = Rest(@)]
  /\ UNCHANGED <<pageVars, ws, inc, late, early>>

(* The chat ends with its window, its proxy or the connection between.     *)
End(u) ==
  /\ phase' = [phase EXCEPT ![u] = "out"]
  /\ age' = [age EXCEPT ![u] = 0]
  /\ ws' = [ws EXCEPT ![u] = <<>>] /\ inc' = [inc EXCEPT ![u] = IncStart]
  /\ toProxy' = [toProxy EXCEPT ![u] = <<>>] /\ fromProxy' = [fromProxy EXCEPT ![u] = <<>>]
  /\ tracker' = [tracker EXCEPT ![u] = <<>>]
  /\ said' = [said EXCEPT ![u] = <<>>] /\ heard' = [heard EXCEPT ![u] = <<>>]
  /\ early' = [early EXCEPT ![u] = {}] /\ late' = [late EXCEPT ![u] = 0]
  /\ beatIn' = [beatIn EXCEPT ![u] = Beat]
  /\ UNCHANGED <<logins, typed, log>>
Close(u) == Here(u) /\ End(u)
(* TCPRecvP fails, the proxy ends, the adapter's connection closes.        *)
ProxyFails(u) == phase[u] = "joined" /\ TooLong(toProxy[u]) /\ End(u)

-----------------------------------------------------------------------------
(* Nothing is due.                                                         *)
Settled(u) ==
  /\ phase[u] \in {"out", "joined"} /\ ws[u] = <<>>
  /\ Here(u) => beatIn[u] > 0
  /\ \A n \in DOMAIN tracker[u] : tracker[u][n] > 0
  /\ ~Whole(toProxy[u]) /\ ~TooLong(toProxy[u]) /\ late[u] = 0

Tick ==
  /\ \A u \in User : Settled(u)
  /\ \E u \in User : fromProxy[u] = <<>>
  /\ beatIn' = [u \in User |-> IF Here(u) THEN beatIn[u] - 1 ELSE beatIn[u]]
  /\ tracker' = [u \in User |-> [n \in DOMAIN tracker[u] |-> tracker[u][n] - 1]]
  /\ late' = [u \in User |-> Len(fromProxy[u])]
  /\ age' = [u \in User |-> IF age[u] < MaxAge THEN age[u] + 1 ELSE age[u]]
  /\ UNCHANGED <<phase, said, heard, logins, typed, ws, toProxy, fromProxy, inc, log, early>>

Init ==
  /\ phase = [u \in User |-> "out"]
  /\ ws = [u \in User |-> <<>>] /\ toProxy = ws /\ fromProxy = ws /\ inc = [u \in User |-> IncStart]
  /\ beatIn = [u \in User |-> Beat] /\ tracker = [u \in User |-> <<>>]
  /\ log = <<>> /\ late = [u \in User |-> 0]
  /\ age = [u \in User |-> MaxAge] /\ logins = [u \in User |-> 0] /\ typed = logins
  /\ said = ws /\ heard = ws /\ early = [u \in User |-> {}]

Next ==
  \/ \E u \in User :
       \/ login(u) \/ onkeypress(u) \/ keepHeartBeating(u) \/ deleteUserTrackerName(u)
       \/ connect(u) \/ Adapt(u) \/ \E k \in 1 .. Len(fromProxy[u]) : Data(u, k)
       \/ Join(u) \/ Relay(u) \/ Close(u) \/ ProxyFails(u)
  \/ Tick

Spec == Init /\ [][Next]_vars

-----------------------------------------------------------------------------
(* The types: a length is never read past its last piece, and no message   *)
(* of no length holds the adapter up.                                      *)
TypeOK ==
  \A u \in User :
    /\ phase[u] \in {"out", "open", "connected", "joined"}
    /\ inc[u].offset \in 0 .. Prefix
    /\ inc[u].offset = Prefix <=> inc[u].size > 0
    /\ beatIn[u] \in 0 .. Beat
    /\ DOMAIN tracker[u] \subseteq User
    /\ \A n \in DOMAIN tracker[u] : tracker[u][n] \in 0 .. Present
    /\ late[u] <= Len(fromProxy[u]) /\ age[u] \in 0 .. MaxAge

(* A page that has nothing more to read has shown every whole message the  *)
(* room keeps of the other's, newcomers too, each once.                    *)
NothingMissed ==
  \A u \in User :
    (phase[u] = "joined" /\ fromProxy[u] = <<>>) =>
      heard[u] =
        LET others == SelectSeq(log, LAMBDA body :
                        Parses(body) /\ <<body[1][1].by, body[1][1].login>> # <<u, logins[u]>>)
        IN [k \in 1 .. Len(others) |-> others[k][1][1]]

(* The messages of s up to the first with a wide character.                *)
BeforeWide(s) ==
  SelectSeq([k \in 1 .. Len(s) |-> [m |-> s[k], plain |-> \A j \in 1 .. k : s[j].extra = 0]],
            LAMBDA r : r.plain)

(* What a page shows of what another has typed is what was typed, in       *)
(* order, from the first on, though the streams are cut anywhere, and all  *)
(* of it once nothing is on its way: up to the first wide character, whose *)
(* message and all that follow it are shown by nobody, and unless a        *)
(* message was sent before the adapter listened.                           *)
ShownAsTyped ==
  /\ TypeOK /\ NothingMissed
  /\ \A u \in User :
       LET v == Peer(u)
           from == SelectSeq(heard[u], LAMBDA m : m.by = v /\ m.login = logins[v])
           before == BeforeWide(said[v])
           plain == [k \in 1 .. Len(before) |-> before[k].m]
           arrived == /\ phase[u] = "joined" /\ phase[v] = "joined"
                      /\ Settled(v) /\ fromProxy[u] = <<>>
       IN (Here(v) /\ "message" \notin early[v]) =>
            IsPrefix(from, plain) /\ (arrived => from = plain)

(* A newcomer whose hello was not lost and a chat that was there before    *)
(* list each other without waiting for a heartbeat.                        *)
HelloAnswered ==
  \A u \in User :
    (/\ Here(u) /\ Here(Peer(u)) /\ "hello" \notin early[u]
     /\ age[u] >= 3 /\ age[Peer(u)] > age[u]) =>
      u \in DOMAIN tracker[Peer(u)] /\ Peer(u) \in DOMAIN tracker[u]

(* Two chats that have both run for a heartbeat and a delay list each      *)
(* other, and go on to: even if a hello was sent before the adapter        *)
(* listened, and though two heartbeats are longer than a name is listed;   *)
(* a newcomer whose hello was not lost need not wait so long.              *)
StaysListed ==
  /\ HelloAnswered
  /\ \A u \in User :
       (Here(u) /\ Here(Peer(u)) /\ age[u] >= Beat + 2 /\ age[Peer(u)] >= Beat + 2) =>
         Peer(u) \in DOMAIN tracker[u]

(* Nobody is listed who has been gone for longer than PRESENT_DURATION and *)
(* a delay, except by a newcomer, whom the room sends old heartbeats.      *)
GoneUnlisted ==
  \A u \in User :
    (Here(u) /\ ~Here(Peer(u)) /\ age[Peer(u)] >= Present + 2 /\ age[u] >= Present + 2) =>
      Peer(u) \notin DOMAIN tracker[u]
=============================================================================
