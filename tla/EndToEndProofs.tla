--------------------------- MODULE EndToEndProofs ---------------------------
(***************************************************************************)
(* For any number of messages and faults and any length of the pad: no     *)
(* place of a pad encrypts two messages; none is shown twice, though the   *)
(* server sends a proxy that is started again all that it keeps; and after *)
(* what the protocols are made to survive none is lost, and the two users' *)
(* keys are in step once all is read.                                      *)
(***************************************************************************)
EXTENDS EndToEnd, VecProofs

(* The states of the two protocols, the texts they make, and what the      *)
(* server relays.                                                          *)
Part == {"hash", "zero", "root", "fresh"} \X (Users \cup {""}) \X Nat
RState == [status : SUBSET Flags, outKey : Seq(Part), inKey : Seq(Part),
           outSec : Part, inSec : Part, ephPK : Part, ephSK : Part]
OState == [outKey : Users \X Nat, inKey : Users \X Nat,
           outPlace : Nat, inPlace : Nat]
IdSet == [from : Users, n : Nat]
OText == [key : Users \X Nat, unmut : BOOLEAN, pad : Nat, text : IdSet]
Ctrl == [status : SUBSET Flags, newEPK : Part,
         newSecret : [for : Part, secret : Part]]
Plain == IF "oprot" \in conf THEN OText ELSE IdSet
Text ==
  IF "rprot" \in conf THEN [key : Seq(Part), ctrl : Ctrl, text : Plain]
  ELSE Plain
Entries == [cb : {"LOG", "NOLOG"}, from : Users, id : IdSet, depth : Nat,
            text : Text]
FaultSet == {"restart", "crash", "delivered", "undelivered"}

Types ==
  /\ conf \subseteq {"rprot", "oprot"} /\ conf # {}
  /\ rprot \in [Users -> RState] /\ file \in [Users -> RState]
  /\ oprot \in [Users -> OState]
  /\ made \in [Users -> Nat] /\ heard \in [Users -> Nat]
  /\ kept \in Seq(Entries) /\ due \in [Users -> Seq(Entries)]
  /\ shown \in [Users -> SUBSET IdSet] /\ again \in BOOLEAN
  /\ padUsed \in [Users -> Seq(Nat)] /\ faults \in Seq(FaultSet)

(* What a text says, under its one or two layers: the id of its message,   *)
(* and that its keys are to move if it is to be logged.                    *)
Unwrapped(e) == IF "rprot" \in conf THEN e.text.text ELSE e.text
Carries(e) ==
  /\ (IF "oprot" \in conf THEN Unwrapped(e).text ELSE Unwrapped(e)) = e.id
  /\ "rprot" \in conf => (Logged(e) <=> "ADVANCE_KEYS" \in e.text.ctrl.status)
  /\ "oprot" \in conf => (Logged(e) <=> ~Unwrapped(e).unmut)

(* The logged messages, which the server keeps.                            *)
LoggedOnes(log) == {e \in Range(log) : Logged(e)}
Logs == LoggedOnes(kept)

(* A message has one text, whoever it is sent to and however often.        *)
Relay ==
  /\ \A u \in Users : \A e \in Range(due[u]) :
       Carries(e) /\ (Logged(e) => e \in Logs)
  /\ \A e, f \in Logs : e.id = f.id => e = f
  /\ \A e \in Range(kept) : Carries(e) /\ e.id.n <= made[e.id.from]
  /\ \A u \in Users : \A x \in shown[u] : x.n <= made[x.from]

(* The ratchet, or the pad, is past the message: it does not open any more.*)
Past(u, e) ==
  IF "rprot" \in conf THEN Len(e.text.key) < Len(rprot[u].inKey)
  ELSE oprot[u].inPlace < e.text.pad

ShownPast ==
  "crash" \notin Range(faults) =>
    /\ ~again
    /\ \A u \in Users : \A e \in Logs : e.id \in shown[u] => Past(u, e)

(* The places used are the ones that are no longer on the pad.             *)
PadTaken ==
  \A u \in Users :
    /\ \A i \in DOMAIN padUsed[u] : oprot[u].outPlace < padUsed[u][i]
    /\ \A i, j \in DOMAIN padUsed[u] :
         padUsed[u][i] = padUsed[u][j] => i = j

-----------------------------------------------------------------------------
(* The double ratchet. A key only grows, so that a message's place is the  *)
(* length of the key it was encrypted with; after it is the place where    *)
(* the key is once that message has moved it.                              *)
Said(e, f) == f \in e.text.ctrl.status
Place(e) == Len(e.text.key)
After(e) ==
  Place(e) + (IF ~Logged(e) THEN 0
              ELSE IF Said(e, "RATCHET_READY") THEN 3 ELSE 1)
LogsOf(u) == {e \in Logs : e.from = u}

(* A key that is the first part of another, and the next step of a key.    *)
PartOfKey(k, key) ==
  Len(k) <= Len(key) /\ \A i \in 1 .. Len(k) : k[i] = key[i]
Grown(k, key, ready, secret) ==
  /\ PartOfKey(k, key) /\ Len(key) = Len(k) + (IF ready THEN 3 ELSE 1)
  /\ key[Len(k) + 1] = Hash
  /\ ready => key[Len(k) + 2] = secret /\ key[Len(k) + 3] = Hash

(* What a message has to do with its sender's key, which has moved on.     *)
FitsKey(e, key) ==
  /\ 1 <= Place(e) /\ PartOfKey(e.text.key, key) /\ After(e) <= Len(key)
  /\ Logged(e) => key[Place(e) + 1] = Hash
  /\ Logged(e) /\ Said(e, "RATCHET_READY") =>
       key[Place(e) + 3] = Hash /\ ~Said(e, "SENT_OUT")

(* Each user's inKey is a part of the other's outKey.                      *)
KeysFollow ==
  \A u \in Users :
    /\ 1 <= Len(rprot[u].outKey) /\ rprot[u].outKey[1] = Root(u)
    /\ 1 <= Len(rprot[u].inKey)
    /\ PartOfKey(rprot[u].inKey, rprot[Peer(u)].outKey)

MessagesFit ==
  /\ \A e \in Range(kept) : FitsKey(e, rprot[e.from].outKey)
  /\ \A u \in Users : \A e \in Range(due[u]) :
       FitsKey(e, rprot[e.from].outKey)

(* The messages of one sender are in the order of their keys.              *)
InOrder(s) ==
  \A i, j \in DOMAIN s :
    i < j /\ s[i].from = s[j].from => After(s[i]) <= Place(s[j])
Ordered == InOrder(kept) /\ \A u \in Users : InOrder(due[u])

(* No place is skipped: where a key is, or comes to, there is a message,   *)
(* or its sender is there.                                                 *)
Reaches(u, n) ==
  n = Len(rprot[u].outKey) \/ \E e \in LogsOf(u) : Place(e) = n
NoneMissing ==
  \A u \in Users : /\ Reaches(Peer(u), Len(rprot[u].inKey))
                   /\ \A e \in LogsOf(Peer(u)) : Reaches(Peer(u), After(e))

(* What a user has not read is still sent to him.                          *)
Unread(u) == {e \in LogsOf(Peer(u)) : Place(e) >= Len(rprot[u].inKey)}
StillSent ==
  \A u \in Users :
    /\ Unread(u) \subseteq Range(due[u])
    /\ \A e \in Range(kept) :
         e.from = Peer(u) => e.id \in seen[u] \/ e \in Range(due[u])

(* What a user can not open any more was read.                             *)
OldSeen ==
  \A u \in Users : \A e \in Range(kept) \cup Range(due[u]) :
    e.from = Peer(u) /\ Place(e) < Len(rprot[u].inKey) => e.id \in seen[u]

(* An exchange: u sends a public key (an offer), the peer a secret for it  *)
(* (an answer), u mixes the secret into outKey with the next message, and  *)
(* the peer into inKey when that comes. The flags say how far it is.       *)
Offers(u) == {e \in Unread(Peer(u)) : ~Said(e, "SENT_OUT")}
Answers(u) == {e \in Unread(u) : ~Said(e, "SENT_IN")}
Flag(u, f) == f \in rprot[u].status
Idle(u) ==
  /\ ~Flag(u, "SENT_OUT") /\ Flag(Peer(u), "SENT_IN")
  /\ Offers(u) = {} /\ Answers(u) = {}
  /\ Flag(u, "RATCHET_READY") => rprot[u].outSec = rprot[Peer(u)].inSec
Offered(u) ==
  /\ Flag(u, "SENT_OUT") /\ Flag(Peer(u), "SENT_IN")
  /\ ~Flag(u, "RATCHET_READY") /\ Answers(u) = {}
  /\ \E e \in Offers(u) :
       /\ Offers(u) = {e} /\ e.text.ctrl.newEPK = rprot[u].ephSK
       /\ Said(e, "RATCHET_READY") =>
            rprot[u].outKey[Place(e) + 2] = rprot[Peer(u)].inSec
Taken(u) ==
  /\ Flag(u, "SENT_OUT") /\ ~Flag(Peer(u), "SENT_IN")
  /\ ~Flag(u, "RATCHET_READY") /\ Offers(u) = {} /\ Answers(u) = {}
  /\ rprot[Peer(u)].ephPK = rprot[u].ephSK
Answered(u) ==
  /\ Flag(u, "SENT_OUT") /\ Flag(Peer(u), "SENT_IN")
  /\ ~Flag(u, "RATCHET_READY") /\ Offers(u) = {}
  /\ \E e \in Answers(u) :
       /\ Answers(u) = {e}
       /\ e.text.ctrl.newSecret =
            [for |-> rprot[u].ephSK, secret |-> rprot[Peer(u)].inSec]
Exchange(u) == Idle(u) \/ Offered(u) \/ Taken(u) \/ Answered(u)

(* Without a fault nothing comes twice, nor back to its sender.            *)
AllNew ==
  faults = <<>> =>
    \A u \in Users : \A e \in Range(due[u]) :
      e.from = Peer(u) /\ Place(e) >= Len(rprot[u].inKey)

InStep ==
  /\ KeysFollow /\ MessagesFit /\ Ordered /\ NoneMissing /\ StillSent
  /\ OldSeen /\ AllNew /\ \A u \in Users : Exchange(u)
Ratchets == "rprot" \in conf /\ Survived => InStep

(* The one-time pad: its keys count the messages, and so do the places.    *)
Count(e) == Unwrapped(e).key[2]
CountAfter(e) == Count(e) + (IF Logged(e) THEN 1 ELSE 0)
NextCount(d, count, i) == IF i = Len(d) THEN count ELSE Count(d[i + 1])
OnPad(e, u) ==
  /\ e.from = u /\ Unwrapped(e).key[1] = u
  /\ Logged(e) => /\ Unwrapped(e).pad + Count(e) = PadLen
                  /\ Unwrapped(e).pad > 0
PadOf(u) ==
  /\ oprot[u].outKey[1] = u /\ oprot[u].inKey[1] = Peer(u)
  /\ oprot[u].outPlace + oprot[u].outKey[2] = PadLen
  /\ oprot[u].inPlace + oprot[u].inKey[2] = PadLen
  /\ oprot[u].inKey[2] = NextCount(due[u], oprot[Peer(u)].outKey[2], 0)
  /\ \A i \in DOMAIN due[u] :
       /\ OnPad(due[u][i], Peer(u))
       /\ CountAfter(due[u][i]) =
            NextCount(due[u], oprot[Peer(u)].outKey[2], i)
Pads == "oprot" \in conf /\ Survived => \A u \in Users : PadOf(u)

(* The bounds of what is counted.                                          *)
Limits ==
  /\ seen \in [Users -> SUBSET IdSet]
  /\ \A u \in Users :
       /\ made[u] + made[Peer(u)] <= MaxMsgs
       /\ oprot[u].outPlace <= PadLen /\ oprot[u].inPlace <= PadLen

(* The inductive invariant.                                                *)
Basis == Types /\ Relay /\ ShownPast /\ PadTaken
IInv == Basis /\ Limits /\ Ratchets /\ Pads /\ NothingLost

(* The peer of a user is a user, and a key grows by what it is fed.        *)
LEMMA PeerIsUser ==
  ASSUME NEW u \in Users
  PROVE  Peer(u) \in Users
<1>1. PICK a, b \in Users : a # b /\ Users = {a, b}
  BY EndToEndAssumption
<1>2. \E v \in Users : v # u
  BY <1>1
<1> QED BY <1>2 DEF Peer

(* A ratchet adds one part to a key, a mix two.                            *)
LEMMA Grows ==
  ASSUME NEW k \in Seq(Part), NEW x \in Part
  PROVE  /\ Hash \in Part /\ Zero \in Part
         /\ naclRatchet(k) \in Seq(Part) /\ Len(naclRatchet(k)) = Len(k) + 1
         /\ naclMix(k, x) \in Seq(Part) /\ Len(naclMix(k, x)) = Len(k) + 2
<1>1. Hash \in Part /\ Zero \in Part
  BY DEF Part, Hash, Zero
<1>2. \A s \in Seq(Part) : \A y \in Part :
        Append(s, y) \in Seq(Part) /\ Len(Append(s, y)) = Len(s) + 1
  OBVIOUS
<1>3. Len(k) \in Nat
  OBVIOUS
<1> HIDE DEF Part
<1> QED BY <1>1, <1>2, <1>3 DEF naclRatchet, naclMix

(* lib/rprot: what an encryption, its end and a decryption do to a state.  *)
LEMMA ProtREncryptImpDoes ==
  ASSUME NEW p \in RState, NEW t, NEW fresh \in Part
  PROVE  LET r == ProtREncryptImp(p, t, fresh)
         IN  /\ r.prot \in RState /\ r.prot.inKey = p.inKey
             /\ r.text = [key |-> p.outKey, ctrl |-> r.text.ctrl, text |-> t]
             /\ r.text.ctrl \in Ctrl /\ r.text.ctrl.status = p.status
<1>1. Zero \in Part
  BY DEF Part, Zero
<1> HIDE DEF Part
<1> QED BY <1>1 DEF ProtREncryptImp, RState, Ctrl

(* RPEncrypt and RPEncryptUnmut: the flag says whether the keys are to     *)
(* move.                                                                   *)
LEMMA RPEncryptDoes ==
  ASSUME NEW p \in RState, NEW t, NEW fresh \in Part,
         NEW cb \in {"LOG", "NOLOG"}, NEW r,
         r = IF cb = "LOG" THEN RPEncrypt(p, t, fresh)
             ELSE RPEncryptUnmut(p, t, fresh)
  PROVE  /\ r.prot \in RState /\ r.prot.inKey = p.inKey
         /\ r.text = [key |-> p.outKey, ctrl |-> r.text.ctrl, text |-> t]
         /\ r.text.ctrl \in Ctrl
         /\ cb = "LOG" <=> "ADVANCE_KEYS" \in r.text.ctrl.status
<1> DEFINE q == [p EXCEPT !.status = @ \cup {"ADVANCE_KEYS"}]
           o == [p EXCEPT !.status = @ \ {"ADVANCE_KEYS"}]
<1>1. /\ q \in RState /\ q.inKey = p.inKey /\ q.outKey = p.outKey
      /\ "ADVANCE_KEYS" \in q.status
  BY DEF RState, Flags
<1>2. /\ o \in RState /\ o.inKey = p.inKey /\ o.outKey = p.outKey
      /\ "ADVANCE_KEYS" \notin o.status
  BY DEF RState
<1> HIDE DEF q, o
<1>3. CASE cb = "LOG"
  <2>1. RPEncrypt(p, t, fresh) = ProtREncryptImp(q, t, fresh)
    BY DEF RPEncrypt, q
  <2> QED BY <1>1, <1>3, <2>1, ProtREncryptImpDoes
<1>4. CASE cb # "LOG"
  <2>1. RPEncryptUnmut(p, t, fresh) = ProtREncryptImp(o, t, fresh)
    BY DEF RPEncryptUnmut, o
  <2> QED BY <1>2, <1>4, <2>1, ProtREncryptImpDoes
<1> QED BY <1>3, <1>4

(* RPEncryptFinish leaves the key it receives with alone.                  *)
LEMMA RPEncryptFinishDoes ==
  ASSUME NEW p \in RState
  PROVE  RPEncryptFinish(p) \in RState /\ RPEncryptFinish(p).inKey = p.inKey
<1>1. p.outKey \in Seq(Part) /\ p.outSec \in Part
  BY DEF RState
<1>2. /\ naclRatchet(p.outKey) \in Seq(Part)
      /\ naclMix(naclRatchet(p.outKey), p.outSec) \in Seq(Part)
      /\ Zero \in Part
  BY <1>1, Grows
<1> HIDE DEF Part
<1> QED BY <1>2 DEF RPEncryptFinish, RState, Flags

(* RPDecrypt: what opens was made with inKey, which moves on if the text   *)
(* says so.                                                                *)
LEMMA RPDecryptDoes ==
  ASSUME NEW p \in RState, NEW S, NEW t \in [key : Seq(Part), ctrl : Ctrl,
         text : S]
  PROVE  LET r == RPDecrypt(p, t)
         IN  /\ r.prot \in RState /\ Len(p.inKey) <= Len(r.prot.inKey)
             /\ r.ok => /\ t.key = p.inKey /\ r.text = t.text
                        /\ "ADVANCE_KEYS" \in t.ctrl.status =>
                             Len(p.inKey) < Len(r.prot.inKey)
<1> DEFINE c == t.ctrl
           a == Ratcheted(p, c)
           b == Keyed(a, c)
           d == Opened(b, c)
<1>0. /\ p.inKey \in Seq(Part) /\ p.inSec \in Part /\ Len(p.inKey) \in Nat
      /\ t.key \in Seq(Part) /\ c \in Ctrl
  BY DEF RState
<1>1. a \in RState /\ Len(p.inKey) < Len(a.inKey)
  <2> DEFINE k == naclRatchet(p.inKey)
             m == naclMix(k, p.inSec)
  <2>1. /\ k \in Seq(Part) /\ Len(k) = Len(p.inKey) + 1 /\ Zero \in Part
    BY <1>0, Grows
  <2>2. /\ m \in Seq(Part) /\ Len(m) = Len(k) + 2
    <3> HIDE DEF k
    <3> QED BY <1>0, <2>1, Grows
  <2>3. Len(p.inKey) < Len(k) /\ Len(p.inKey) < Len(m)
    <3> HIDE DEF k, m
    <3> QED BY <1>0, <2>1, <2>2
  <2>4. a = IF "RATCHET_READY" \in c.status
            THEN [p EXCEPT !.inKey = m, !.inSec = Zero]
            ELSE [p EXCEPT !.inKey = k]
    BY DEF Ratcheted
  <2> HIDE DEF a, c, k, m, Part
  <2> QED BY <2>1, <2>2, <2>3, <2>4 DEF RState
<1>2. b \in RState /\ b.inKey = a.inKey
  <2> HIDE DEF a, c
  <2> QED BY <1>0, <1>1 DEF Keyed, RState, Ctrl
<1>3. d \in RState /\ d.inKey = b.inKey
  <2> HIDE DEF a, b, c
  <2> QED BY <1>0, <1>2 DEF Opened, RState, Ctrl, Flags
<1>4. RPDecrypt(p, t) =
        IF t.key # p.inKey THEN [ok |-> FALSE, prot |-> p, text |-> Zero]
        ELSE IF "ADVANCE_KEYS" \notin c.status
             THEN [ok |-> TRUE, prot |-> p, text |-> t.text]
        ELSE [ok |-> "SENT_IN" \notin c.status =>
                       c.newSecret.for = p.ephSK,
              prot |-> d, text |-> t.text]
  BY DEF RPDecrypt
<1>5. t.ctrl = c
  OBVIOUS
<1>6. Len(a.inKey) \in Nat
  BY <1>1 DEF RState
<1> HIDE DEF a, b, c, d
<1> DEFINE r == RPDecrypt(p, t)
<1>7. CASE t.key # p.inKey
  <2>1. r = [ok |-> FALSE, prot |-> p, text |-> Zero]
    BY <1>4, <1>7
  <2>2. r.prot = p /\ ~r.ok
    BY <2>1
  <2> QED BY <1>0, <2>2
<1>8. CASE t.key = p.inKey /\ "ADVANCE_KEYS" \notin c.status
  <2>1. r = [ok |-> TRUE, prot |-> p, text |-> t.text]
    BY <1>4, <1>8
  <2>2. r.prot = p /\ r.text = t.text
    BY <2>1
  <2> QED BY <1>0, <1>5, <1>8, <2>2
<1>9. CASE t.key = p.inKey /\ "ADVANCE_KEYS" \in c.status
  <2> DEFINE y == "SENT_IN" \notin c.status => c.newSecret.for = p.ephSK
  <2>0. r = [ok |-> y, prot |-> d, text |-> t.text]
    BY <1>4, <1>9, Zenon
  <2>1. r.prot = d /\ r.text = t.text
    <3> HIDE DEF y
    <3> QED BY <2>0
  <2> QED BY <1>0, <1>1, <1>2, <1>3, <1>6, <1>9, <2>1
<1> QED BY <1>7, <1>8, <1>9

(* lib/oprot.                                                              *)
LEMMA OPEncryptDoes ==
  ASSUME NEW p \in OState, NEW t \in IdSet, NEW cb \in {"LOG", "NOLOG"},
         cb = "LOG" => p.outPlace > 0
  PROVE  LET r == IF cb = "LOG" THEN O!OPEncrypt(p, t)
                  ELSE O!OPEncryptUnmut(p, t)
         IN  /\ r.prot \in OState /\ r.prot.inPlace = p.inPlace
             /\ r.prot.outPlace =
                  IF cb = "LOG" THEN p.outPlace - 1 ELSE p.outPlace
             /\ r.text \in OText /\ r.text.text = t
             /\ cb = "LOG" <=> ~r.text.unmut
<1>1. /\ <<p.outKey[1], p.outKey[2] + 1>> \in Users \X Nat
      /\ p.outKey \in Users \X Nat /\ p.outPlace \in Nat
  BY DEF OState
<1>2. CASE cb = "LOG"
  <2> DEFINE q == [p EXCEPT !.outPlace = @ - 1]
             o == [q EXCEPT !.outKey = <<p.outKey[1], p.outKey[2] + 1>>]
  <2>1. /\ q \in OState /\ q.outPlace = p.outPlace - 1
        /\ q.outKey = p.outKey /\ q.inPlace = p.inPlace
    BY <1>1, <1>2 DEF OState
  <2>2. /\ o \in OState /\ o.outPlace = p.outPlace - 1
        /\ o.inPlace = p.inPlace
    <3> HIDE DEF q
    <3> QED BY <1>1, <2>1 DEF OState
  <2>3. O!OPEncrypt(p, t) =
          [prot |-> o, text |-> [key |-> p.outKey, unmut |-> FALSE,
                                 pad |-> p.outPlace, text |-> t]]
    BY <2>1 DEF O!OPEncrypt, O!padText, O!Ratchet
  <2> HIDE DEF o
  <2> QED BY <1>1, <1>2, <2>2, <2>3 DEF OText
<1>3. CASE cb = "NOLOG"
  BY <1>1, <1>3 DEF O!OPEncryptUnmut, OState, OText
<1> QED BY <1>2, <1>3

(* OprotInit leaves the places on the pads alone.                          *)
LEMMA OprotInitDoes ==
  ASSUME NEW p \in OState
  PROVE  /\ O!OprotInit(p) \in OState
         /\ O!OprotInit(p).outPlace = p.outPlace
         /\ O!OprotInit(p).inPlace = p.inPlace
BY DEF O!OprotInit, OState

(* OPDecrypt: what opens was made with the pad at inPlace, which is then   *)
(* gone.                                                                   *)
LEMMA OPDecryptDoes ==
  ASSUME NEW p \in OState, NEW t \in OText
  PROVE  LET r == O!OPDecrypt(p, t)
         IN  /\ r.prot \in OState /\ r.prot.outPlace = p.outPlace
             /\ r.prot.inPlace <= p.inPlace /\ r.text = t.text
             /\ r.ok /\ ~t.unmut =>
                  p.inPlace = t.pad /\ r.prot.inPlace < t.pad
<1> DEFINE q == [p EXCEPT !.inKey = <<p.inKey[1], p.inKey[2] + 1>>]
           m == IF p.inPlace > 0 THEN p.inPlace - 1 ELSE p.inPlace
           o == [q EXCEPT !.inPlace = m]
<1>1. /\ <<p.inKey[1], p.inKey[2] + 1>> \in Users \X Nat
      /\ p.inPlace \in Nat /\ t.pad \in Nat /\ p.outPlace \in Nat
  BY DEF OState, OText
<1>2. m \in Nat /\ m <= p.inPlace /\ (p.inPlace > 0 => m < p.inPlace)
  BY <1>1
<1>3. /\ q \in OState /\ q.inPlace = p.inPlace /\ q.outPlace = p.outPlace
  BY <1>1 DEF OState
<1>4. /\ o \in OState /\ o.inPlace = m /\ o.outPlace = p.outPlace
  <2> HIDE DEF q, m
  <2> QED BY <1>2, <1>3 DEF OState
<1>5. O!OPDecrypt(p, t) =
        IF t.key # p.inKey THEN [ok |-> FALSE, prot |-> p, text |-> t.text]
        ELSE IF t.unmut THEN [ok |-> TRUE, prot |-> p, text |-> t.text]
        ELSE [ok |-> q.inPlace > 0 /\ q.inPlace = t.pad, prot |-> o,
              text |-> t.text]
  BY <1>3 DEF O!OPDecrypt, O!unpadText, O!Ratchet
<1> HIDE DEF q, m, o
<1> DEFINE r == O!OPDecrypt(p, t)
<1>6. CASE t.key # p.inKey \/ t.unmut
  <2>1. r.prot = p /\ r.text = t.text
    BY <1>5, <1>6
  <2>2. r.ok => t.unmut
    <3>1. CASE t.key # p.inKey
      BY <1>5, <3>1
    <3> QED BY <1>6, <3>1
  <2> QED BY <1>1, <2>1, <2>2
<1>7. CASE ~ (t.key # p.inKey \/ t.unmut)
  <2> DEFINE y == q.inPlace > 0 /\ q.inPlace = t.pad
  <2>1. r = [ok |-> y, prot |-> o, text |-> t.text]
    BY <1>5, <1>7, Zenon
  <2>2. r.prot = o /\ r.text = t.text /\ (r.ok <=> y)
    <3> HIDE DEF y
    <3> QED BY <2>1
  <2>3. r.ok => q.inPlace > 0 /\ q.inPlace = t.pad
    BY <2>2
  <2> QED BY <1>1, <1>2, <1>3, <1>4, <2>2, <2>3
<1> QED BY <1>6, <1>7

(* The proxy: what e2eEncrypt and e2eEncryptFinish leave, and the entry    *)
(* that the server is given.                                               *)
LEMMA Encrypts ==
  ASSUME Types, NEW u \in Users, NEW cb \in {"LOG", "NOLOG"},
         CanEncrypt(u, cb)
  PROVE  LET e == e2eEncrypt(u, cb)
         IN  /\ e.rprot \in RState /\ e.rprot.inKey = rprot[u].inKey
             /\ e.oprot \in OState /\ e.oprot.inPlace = oprot[u].inPlace
             /\ e.oprot.outPlace =
                  IF "oprot" \in conf /\ cb = "LOG"
                  THEN oprot[u].outPlace - 1 ELSE oprot[u].outPlace
             /\ Entry(u, cb, e.text) \in Entries
             /\ Carries(Entry(u, cb, e.text))
<1>0. /\ rprot[u] \in RState /\ oprot[u] \in OState
      /\ made[u] \in Nat /\ heard[u] \in Nat
      /\ conf \subseteq {"rprot", "oprot"} /\ conf # {}
  BY DEF Types
<1>1. Id(u) \in IdSet /\ Fresh(u) \in Part
  <2>1. made[u] + 1 \in Nat
    BY <1>0
  <2>2. Id(u) \in IdSet
    BY <2>1 DEF Id, IdSet
  <2>3. Fresh(u) \in Part
    BY <2>1 DEF Fresh, Part
  <2> QED BY <2>2, <2>3
<1> DEFINE p == Padded(u, cb)
           f == Fresh(u)
           r == IF cb = "LOG" THEN RPEncrypt(rprot[u], p.text, f)
                ELSE RPEncryptUnmut(rprot[u], p.text, f)
           e == e2eEncrypt(u, cb)
           n == Entry(u, cb, e.text)
<1>2. /\ p.prot \in OState /\ p.prot.inPlace = oprot[u].inPlace
      /\ p.prot.outPlace = IF "oprot" \in conf /\ cb = "LOG"
                           THEN oprot[u].outPlace - 1 ELSE oprot[u].outPlace
      /\ p.text \in Plain
      /\ (IF "oprot" \in conf THEN p.text.text ELSE p.text) = Id(u)
      /\ "oprot" \in conf => (cb = "LOG" <=> ~p.text.unmut)
  <2>1. CASE "oprot" \notin conf
    <3>1. p = [prot |-> oprot[u], text |-> Id(u)]
      BY <2>1 DEF Padded
    <3> QED BY <1>0, <1>1, <2>1, <3>1 DEF Plain
  <2>2. CASE "oprot" \in conf
    <3>1. p = IF cb = "LOG" THEN O!OPEncrypt(oprot[u], Id(u))
              ELSE O!OPEncryptUnmut(oprot[u], Id(u))
      BY <2>2 DEF Padded
    <3>2. cb = "LOG" => oprot[u].outPlace > 0
      BY <2>2 DEF CanEncrypt, O!HasPad
    <3> HIDE DEF p
    <3> QED BY <1>0, <1>1, <2>2, <3>1, <3>2, OPEncryptDoes DEF Plain
  <2> QED BY <2>1, <2>2
<1>3. /\ r.prot \in RState /\ r.prot.inKey = rprot[u].inKey
      /\ r.text = [key |-> rprot[u].outKey, ctrl |-> r.text.ctrl,
                   text |-> p.text]
      /\ r.text.ctrl \in Ctrl
      /\ cb = "LOG" <=> "ADVANCE_KEYS" \in r.text.ctrl.status
  <2>1. f \in Part
    BY <1>1
  <2>2. r = IF cb = "LOG" THEN RPEncrypt(rprot[u], p.text, f)
            ELSE RPEncryptUnmut(rprot[u], p.text, f)
    OBVIOUS
  <2> HIDE DEF p, f, r
  <2> QED BY <1>0, <2>1, <2>2, RPEncryptDoes
<1>4. e = [rprot |-> IF "rprot" \notin conf THEN rprot[u] ELSE r.prot,
           oprot |-> p.prot,
           text |-> IF "rprot" \notin conf THEN p.text ELSE r.text]
  BY DEF e2eEncrypt
<1>5. rprot[u].outKey \in Seq(Part)
  BY <1>0 DEF RState
<1>6. /\ n.id = Id(u) /\ n.cb = cb /\ n.text = e.text
      /\ n = [cb |-> cb, from |-> u, id |-> Id(u), depth |-> heard[u] + 1,
              text |-> e.text]
  BY DEF Entry
<1> HIDE DEF p, r, f, e, n
<1>7. CASE "rprot" \in conf
  <2>1. e.rprot = r.prot /\ e.oprot = p.prot /\ e.text = r.text
    BY <1>4, <1>7
  <2>2. r.text.text = p.text
    BY <1>3
  <2>3. e.text \in Text
    BY <1>2, <1>3, <1>5, <1>7, <2>1 DEF Text
  <2>4. n \in Entries
    BY <1>0, <1>1, <1>6, <2>3 DEF Entries
  <2>5. Carries(n)
    BY <1>2, <1>3, <1>6, <1>7, <2>1, <2>2 DEF Carries, Unwrapped, Logged
  <2> QED BY <1>2, <1>3, <2>1, <2>4, <2>5 DEF e, n
<1>8. CASE "rprot" \notin conf
  <2>1. e.rprot = rprot[u] /\ e.oprot = p.prot /\ e.text = p.text
    BY <1>4, <1>8
  <2>2. e.text \in Text
    BY <1>2, <1>8, <2>1 DEF Text
  <2>3. n \in Entries
    BY <1>0, <1>1, <1>6, <2>2 DEF Entries
  <2>4. Carries(n)
    BY <1>2, <1>6, <1>8, <2>1 DEF Carries, Unwrapped, Logged
  <2> QED BY <1>0, <1>2, <2>1, <2>3, <2>4 DEF e, n
<1> QED BY <1>7, <1>8

(* e2eEncryptFinish leaves the key it receives with alone.                 *)
LEMMA Finishes ==
  ASSUME NEW p \in RState, NEW cb
  PROVE  /\ e2eEncryptFinish(p, cb) \in RState
         /\ e2eEncryptFinish(p, cb).inKey = p.inKey
BY RPEncryptFinishDoes DEF e2eEncryptFinish

(* e2eDecrypt: what opens is not past, and is when it has been opened.     *)
LEMMA Decrypts ==
  ASSUME Types, NEW u \in Users, NEW e \in Entries, Carries(e)
  PROVE  LET r == e2eDecrypt(u, e.text)
         IN  /\ r.rprot \in RState /\ r.oprot \in OState
             /\ r.oprot.outPlace = oprot[u].outPlace
             /\ Len(rprot[u].inKey) <= Len(r.rprot.inKey)
             /\ r.oprot.inPlace <= oprot[u].inPlace
             /\ r.ok /\ e.cb = "LOG" =>
                  /\ r.text = e.id /\ ~Past(u, e)
                  /\ IF "rprot" \in conf
                     THEN Len(e.text.key) < Len(r.rprot.inKey)
                     ELSE r.oprot.inPlace < e.text.pad
<1>0. /\ rprot[u] \in RState /\ oprot[u] \in OState
      /\ conf \subseteq {"rprot", "oprot"} /\ conf # {}
      /\ e.text \in Text /\ e.id \in IdSet
  BY DEF Types, Entries
<1>a. /\ rprot[u].inKey \in Seq(Part) /\ Len(rprot[u].inKey) \in Nat
      /\ oprot[u].inPlace \in Nat
  BY <1>0 DEF RState, OState
<1> DEFINE t == e.text
           a == IF "rprot" \in conf THEN RPDecrypt(rprot[u], t)
                ELSE [ok |-> TRUE, prot |-> rprot[u], text |-> t]
           b == IF "oprot" \in conf /\ a.ok THEN O!OPDecrypt(oprot[u], a.text)
                ELSE [ok |-> a.ok, prot |-> oprot[u], text |-> a.text]
           r == e2eDecrypt(u, t)
<1>1. /\ a.prot \in RState /\ Len(rprot[u].inKey) <= Len(a.prot.inKey)
      /\ a.ok => a.text = Unwrapped(e)
      /\ "rprot" \in conf /\ a.ok =>
           /\ t.key = rprot[u].inKey
           /\ e.cb = "LOG" => Len(t.key) < Len(a.prot.inKey)
  <2>1. CASE "rprot" \in conf
    <3>1. t \in [key : Seq(Part), ctrl : Ctrl, text : Plain]
      BY <1>0, <2>1 DEF Text
    <3>2. a = RPDecrypt(rprot[u], t)
      BY <2>1
    <3> HIDE DEF a, t
    <3>3. e.text = t
      BY DEF t
    <3> QED BY <1>0, <1>a, <2>1, <3>1, <3>2, <3>3, RPDecryptDoes
            DEF Carries, Unwrapped, Logged
  <2>2. CASE "rprot" \notin conf
    <3>1. a.prot = rprot[u] /\ a.text = t
      BY <2>2
    <3> HIDE DEF a
    <3> QED BY <1>0, <1>a, <2>2, <3>1 DEF Unwrapped
  <2> QED BY <2>1, <2>2
<1>2. Unwrapped(e) \in Plain
  BY <1>0 DEF Unwrapped, Text
<1>3. /\ b.prot \in OState /\ b.prot.outPlace = oprot[u].outPlace
      /\ b.prot.inPlace <= oprot[u].inPlace /\ (b.ok => a.ok)
      /\ b.ok /\ e.cb = "LOG" => b.text = e.id
      /\ b.ok /\ e.cb = "LOG" /\ "oprot" \in conf =>
           /\ oprot[u].inPlace = Unwrapped(e).pad
           /\ b.prot.inPlace < Unwrapped(e).pad
  <2> HIDE DEF a
  <2>1. CASE "oprot" \in conf /\ a.ok
    <3>1. b = O!OPDecrypt(oprot[u], a.text) /\ a.text \in OText
      BY <1>1, <1>2, <2>1 DEF Plain
    <3> HIDE DEF b
    <3> QED BY <1>0, <1>a, <1>1, <2>1, <3>1, OPDecryptDoes DEF Carries, Logged
  <2>2. CASE ~ ("oprot" \in conf /\ a.ok)
    <3>1. b = [ok |-> a.ok, prot |-> oprot[u], text |-> a.text]
      BY <2>2
    <3>2. b.prot = oprot[u] /\ b.text = a.text /\ (b.ok <=> a.ok)
      BY <3>1
    <3> HIDE DEF b
    <3>3. b.ok => "oprot" \notin conf
      BY <2>2, <3>2
    <3> QED BY <1>0, <1>a, <1>1, <2>2, <3>2, <3>3 DEF Carries
  <2> QED BY <2>1, <2>2
<1>4. r = [ok |-> b.ok, rprot |-> a.prot, oprot |-> b.prot, text |-> b.text]
  BY DEF e2eDecrypt
<1>5. t = e.text
  OBVIOUS
<1> HIDE DEF t, a, b
<1>6. /\ r.rprot = a.prot /\ r.oprot = b.prot /\ r.text = b.text
      /\ (r.ok <=> b.ok)
  BY <1>4
<1> HIDE DEF r
<1>7. CASE "rprot" \in conf
  BY <1>0, <1>a, <1>1, <1>3, <1>5, <1>6, <1>7 DEF Past, r
<1>8. CASE "rprot" \notin conf
  <2>1. "oprot" \in conf
    <3>1. conf # {} /\ \A x \in conf : x = "rprot" \/ x = "oprot"
      BY <1>0
    <3>2. PICK x : x \in conf
      BY <3>1
    <3> QED BY <1>8, <3>1, <3>2
  <2>2. Unwrapped(e) = t
    BY <1>5, <1>8 DEF Unwrapped
  <2> QED BY <1>0, <1>a, <1>1, <1>3, <1>5, <1>6, <1>8, <2>1, <2>2 DEF Past, r
<1> QED BY <1>7, <1>8

(* What is in a sequence, when one more is put on, or the first taken off. *)
LEMMA RangeAppended ==
  ASSUME NEW S, NEW s \in Seq(S), NEW x
  PROVE  Range(Append(s, x)) = Range(s) \cup {x}
<1>1. /\ Len(s) \in Nat /\ DOMAIN s = 1 .. Len(s)
      /\ DOMAIN Append(s, x) = 1 .. Len(s) + 1
      /\ \A i \in 1 .. Len(s) : Append(s, x)[i] = s[i]
      /\ Append(s, x)[Len(s) + 1] = x
  <2>1. s \in Seq(S \cup {x})
    BY SeqMonotonic
  <2> QED BY <2>1
<1>2. \A i \in 1 .. Len(s) + 1 : i \in 1 .. Len(s) \/ i = Len(s) + 1
  BY <1>1
<1>3. 1 .. Len(s) \subseteq 1 .. Len(s) + 1 /\ Len(s) + 1 \in 1 .. Len(s) + 1
  BY <1>1
<1> QED BY <1>1, <1>2, <1>3 DEF Range

(* A sequence that is not empty, taken apart.                              *)
LEMMA RangeTail ==
  ASSUME NEW S, NEW s \in Seq(S), s # <<>>
  PROVE  /\ Head(s) = s[1] /\ Head(s) \in Range(s) /\ Range(s) \subseteq S
         /\ Head(s) \in S /\ Tail(s) \in Seq(S)
         /\ Len(s) \in Nat /\ 1 <= Len(s) /\ DOMAIN s = 1 .. Len(s)
         /\ DOMAIN Tail(s) = 1 .. Len(s) - 1
         /\ \A i \in 1 .. Len(s) - 1 : Tail(s)[i] = s[i + 1]
         /\ Range(s) = {Head(s)} \cup Range(Tail(s))
<1>1. /\ Len(s) \in Nat /\ DOMAIN s = 1 .. Len(s)
      /\ \A i \in 1 .. Len(s) : s[i] \in S
  OBVIOUS
<1>2. /\ Head(s) = s[1] /\ 1 \in DOMAIN s /\ 1 <= Len(s)
      /\ Tail(s) \in Seq(S) /\ DOMAIN Tail(s) = 1 .. Len(s) - 1
      /\ \A i \in 1 .. Len(s) - 1 : Tail(s)[i] = s[i + 1]
  BY <1>1
<1>3. /\ \A i \in 1 .. Len(s) - 1 : i + 1 \in 1 .. Len(s)
      /\ \A i \in 1 .. Len(s) :
           i = 1 \/ (i - 1 \in 1 .. Len(s) - 1 /\ (i - 1) + 1 = i)
  BY <1>1
<1>4. ASSUME NEW e \in Range(s)
      PROVE  e = Head(s) \/ e \in Range(Tail(s))
  <2>1. PICK i \in 1 .. Len(s) : e = s[i]
    BY <1>1 DEF Range
  <2>2. CASE i - 1 \in 1 .. Len(s) - 1 /\ (i - 1) + 1 = i
    <3>1. Tail(s)[i - 1] = s[i]
      BY <1>2, <2>2
    <3> QED BY <1>2, <2>1, <2>2, <3>1 DEF Range
  <2> QED BY <1>2, <1>3, <2>1, <2>2
<1>5. \A e \in Range(Tail(s)) : e \in Range(s)
  BY <1>1, <1>2, <1>3 DEF Range
<1>6. Head(s) \in Range(s)
  BY <1>2 DEF Range
<1>7. Range(s) \subseteq S
  BY <1>1 DEF Range
<1>8. Range(s) = {Head(s)} \cup Range(Tail(s))
  BY <1>4, <1>5, <1>6
<1> QED BY <1>1, <1>2, <1>6, <1>7, <1>8

(* What a sequence of some set holds is in it.                             *)
LEMMA RangeIn ==
  ASSUME NEW S, NEW s \in Seq(S)
  PROVE  Range(s) \subseteq S
BY DEF Range

(* One log is the other, but for some that were not to be logged.          *)
Thins(l, log) ==
  /\ Range(l) \subseteq Range(log) /\ LoggedOnes(l) = LoggedOnes(log)
  /\ \A i, j \in DOMAIN l : i < j =>
       \E k, m \in DOMAIN log : k < m /\ l[i] = log[k] /\ l[j] = log[m]

(* Pruned.                                                                 *)
LEMMA PrunedThins ==
  ASSUME NEW S, NEW log \in Seq(S)
  PROVE  Pruned(log) \in Seq(S) /\ Thins(Pruned(log), log)
<1> DEFINE D == {i \in 1 .. Len(log) : ~Logged(log[i])}
           m == VecRm(log, Len(log), D)
<1>1. /\ DOMAIN log = 1 .. Len(log) /\ D \in SUBSET (1 .. Len(log))
      /\ \A i \in 1 .. Len(log) : Logged(log[i]) <=> i \notin D
  OBVIOUS
<1>5. m = Pruned(log)
  BY DEF Pruned
<1> HIDE DEF D
<1>2. m \in Seq(S)
  <2>1. Len(log) \in 0 .. Len(log)
    OBVIOUS
  <2> QED BY <1>1, <2>1, VecRmShortens
<1>3. PICK pos \in [1 .. Len(m) -> (1 .. Len(log)) \ D] :
        /\ \A k, l \in 1 .. Len(m) : k < l => pos[k] < pos[l]
        /\ \A i \in (1 .. Len(log)) \ D : \E k \in 1 .. Len(m) : pos[k] = i
        /\ \A k \in 1 .. Len(m) : m[k] = log[pos[k]]
  <2>1. \A C \in SUBSET (1 .. Len(log)) :
          \E pos \in [1 .. Len(VecRm(log, Len(log), C)) ->
                        (1 .. Len(log)) \ C] :
            /\ \A k, l \in 1 .. Len(VecRm(log, Len(log), C)) :
                 k < l => pos[k] < pos[l]
            /\ \A i \in (1 .. Len(log)) \ C :
                 \E k \in 1 .. Len(VecRm(log, Len(log), C)) : pos[k] = i
            /\ \A k \in 1 .. Len(VecRm(log, Len(log), C)) :
                 VecRm(log, Len(log), C)[k] = log[pos[k]]
    <3> TAKE C \in SUBSET (1 .. Len(log))
    <3> QED BY VecRmWhole
  <2> QED BY <1>1, <2>1
<1>4. DOMAIN m = 1 .. Len(m)
  BY <1>2
<1> HIDE DEF m
<1>6. Range(m) \subseteq Range(log)
  <2>1. \A k \in 1 .. Len(m) : pos[k] \in 1 .. Len(log)
    BY <1>3
  <2> QED BY <1>1, <1>3, <1>4, <2>1 DEF Range
<1>7. \A e \in Range(log) : Logged(e) => e \in Range(m)
  <2> SUFFICES ASSUME NEW i \in 1 .. Len(log), Logged(log[i])
               PROVE  log[i] \in Range(m)
    BY <1>1 DEF Range
  <2>1. i \in (1 .. Len(log)) \ D
    BY <1>1
  <2>2. PICK k \in 1 .. Len(m) : pos[k] = i
    BY <1>3, <2>1
  <2> QED BY <1>3, <1>4, <2>2 DEF Range
<1>8. \A i, j \in DOMAIN m : i < j =>
        \E k, l \in DOMAIN log : k < l /\ m[i] = log[k] /\ m[j] = log[l]
  <2>1. \A k \in 1 .. Len(m) : pos[k] \in 1 .. Len(log)
    BY <1>3
  <2> QED BY <1>1, <1>3, <1>4, <2>1
<1>9. LoggedOnes(m) = LoggedOnes(log)
  BY <1>6, <1>7 DEF LoggedOnes
<1> QED BY <1>2, <1>5, <1>6, <1>8, <1>9 DEF Thins

(* A newcomer is sent what the server keeps, and nobody else is disturbed. *)
LEMMA RejoinDoes ==
  ASSUME NEW u \in Users, NEW d \in [Users -> Seq(Entries)],
         NEW log \in Seq(Entries), Rejoin(u, d, log)
  PROVE  /\ kept' \in Seq(Entries) /\ Thins(kept', log)
         /\ due' \in [Users -> Seq(Entries)] /\ due'[u] = kept'
         /\ \A v \in Users : v # u => due'[v] = d[v]
<1>1. PICK l \in {log, Pruned(log)} : kept' = l /\ due' = [d EXCEPT ![u] = l]
  BY DEF Rejoin
<1>2. Thins(log, log)
  BY DEF Thins
<1> HIDE DEF Entries
<1>3. l \in Seq(Entries) /\ Thins(l, log)
  BY <1>2, PrunedThins
<1> QED BY <1>1, <1>3

(* What a step leaves, when the configuration stays.                       *)
LEMMA SameTexts ==
  ASSUME conf' = conf
  PROVE  Entries' = Entries
BY DEF Entries, Text, Plain

(* A new message that the server may have, and keeps then.                 *)
LEMMA NewMessage ==
  ASSUME Types, Relay, NEW u \in Users, NEW x \in Entries, Carries(x),
         x.id = Id(u), conf' = conf, shown' = shown,
         made' = [made EXCEPT ![u] = @ + 1],
         Range(kept') \subseteq Range(kept) \cup {x}, Logs \subseteq Logs',
         \A v \in Users : \A e \in Range(due'[v]) :
           /\ e \in {x} \cup Range(kept) \cup Range(due[v])
           /\ Logged(e) /\ e = x => e \in Logs'
  PROVE  /\ made' \in [Users -> Nat] /\ Relay'
         /\ \A v \in Users : \A e \in Logs' : e.id \in shown[v] => e \in Logs
<1>0. /\ kept \in Seq(Entries) /\ made \in [Users -> Nat]
      /\ shown \in [Users -> SUBSET IdSet]
  BY DEF Types
<1>a. \A e \in Range(kept) : e.id \in IdSet
  <2>1. \A e \in Entries : e.id \in IdSet
    BY DEF Entries
  <2>2. Range(kept) \subseteq Entries
    BY <1>0, RangeIn
  <2> QED BY <2>1, <2>2
<1>1. x.id.from = u /\ x.id.n = made[u] + 1
  BY DEF Id
<1>2. /\ made' \in [Users -> Nat] /\ made'[u] = made[u] + 1
      /\ \A v \in Users : made[v] <= made'[v]
  BY <1>0
<1>3. /\ \A y \in IdSet : y.n <= made[y.from] => y.n <= made'[y.from]
      /\ \A y \in IdSet : y.n <= made[y.from] => y # x.id
  <2>1. \A y \in IdSet : y.from \in Users /\ y.n \in Nat
    BY DEF IdSet
  <2> QED BY <1>0, <1>1, <1>2, <2>1
<1>4. \A e \in Range(kept) :
        Carries(e) /\ e.id.n <= made'[e.id.from] /\ e.id # x.id
  BY <1>0, <1>a, <1>3 DEF Relay
<1>5. \A v \in Users : \A y \in shown[v] :
        y.n <= made'[y.from] /\ y # x.id
  BY <1>0, <1>3 DEF Relay
<1>6. /\ \A e \in Logs : e \in Range(kept) /\ Logged(e)
      /\ \A e \in Logs' : Logged(e) /\ e \in Range(kept) \cup {x}
      /\ \A e \in Range(kept) : Logged(e) => e \in Logs
  BY DEF Logs, LoggedOnes
<1>7. \A e \in Logs' : e \in Logs \/ e = x
  BY <1>6
<1>8. made[u] + 1 <= made'[u]
  BY <1>0, <1>2
<1>9. \A e \in Range(kept') : Carries(e)' /\ e.id.n <= made'[e.id.from]
  BY <1>1, <1>4, <1>8 DEF Carries, Unwrapped
<1>10. \A e, f \in Logs' : e.id = f.id => e = f
  BY <1>4, <1>6, <1>7 DEF Relay
<1>11. ASSUME NEW v \in Users, NEW e \in Range(due'[v])
       PROVE  Carries(e)' /\ (Logged(e) => e \in Logs')
  <2>1. Carries(e)
    BY <1>4 DEF Relay
  <2>2. Logged(e) => e \in Logs'
    <3>1. e \in Range(due[v]) => (Logged(e) => e \in Logs)
      BY DEF Relay
    <3> QED BY <1>6, <3>1
  <2> QED BY <2>1, <2>2 DEF Carries, Unwrapped, Logged
<1>12. \A v \in Users : \A e \in Logs' : e.id \in shown[v] => e \in Logs
  BY <1>5, <1>7
<1>13. Relay'
  BY <1>5, <1>9, <1>10, <1>11 DEF Relay
<1> QED BY <1>2, <1>12, <1>13

(* It is on its way to the peer.                                           *)
LEMMA PostedKept ==
  ASSUME Types, NEW u \in Users, NEW x \in Entries
  PROVE  /\ Posted(u, x) \in [Users -> Seq(Entries)]
         /\ Append(kept, x) \in Seq(Entries)
         /\ Range(Append(kept, x)) = Range(kept) \cup {x}
         /\ Posted(u, x)[Peer(u)] = Append(due[Peer(u)], x)
         /\ Range(Posted(u, x)[Peer(u)]) = Range(due[Peer(u)]) \cup {x}
         /\ \A v \in Users : v # Peer(u) => Posted(u, x)[v] = due[v]
<1>0. /\ kept \in Seq(Entries) /\ due \in [Users -> Seq(Entries)]
      /\ Peer(u) \in Users
  BY PeerIsUser DEF Types
<1> HIDE DEF Entries
<1>1. /\ Posted(u, x) \in [Users -> Seq(Entries)]
      /\ Append(kept, x) \in Seq(Entries)
  BY <1>0 DEF Posted
<1>2. /\ Posted(u, x)[Peer(u)] = Append(due[Peer(u)], x)
      /\ \A v \in Users : v # Peer(u) => Posted(u, x)[v] = due[v]
  BY <1>0 DEF Posted
<1>3. /\ Range(Append(kept, x)) = Range(kept) \cup {x}
      /\ Range(Append(due[Peer(u)], x)) = Range(due[Peer(u)]) \cup {x}
  BY <1>0, RangeAppended
<1> QED BY <1>1, <1>2, <1>3

(* Nothing that was shown opens again, while the receiving keys only move  *)
(* on.                                                                     *)
LEMMA PastStays ==
  ASSUME Types, ShownPast, conf' = conf, again' = again, shown' = shown,
         "crash" \notin Range(faults') => "crash" \notin Range(faults),
         \A v \in Users : /\ rprot'[v].inKey = rprot[v].inKey
                          /\ oprot'[v].inPlace = oprot[v].inPlace,
         \A v \in Users : \A e \in Logs' : e.id \in shown[v] => e \in Logs
  PROVE  ShownPast'
<1> SUFFICES ASSUME "crash" \notin Range(faults'), NEW u \in Users,
                    NEW e \in Logs', e.id \in shown[u]
             PROVE  IF "rprot" \in conf
                    THEN Len(e.text.key) < Len(rprot'[u].inKey)
                    ELSE oprot'[u].inPlace < e.text.pad
  BY DEF ShownPast, Past
<1>1. Past(u, e)
  BY DEF ShownPast
<1> QED BY <1>1 DEF Past

(* A place is used, and is off the pad.                                    *)
LEMMA PadStep ==
  ASSUME Types, PadTaken, NEW u \in Users, NEW cb \in {"LOG", "NOLOG"},
         Encrypted(u, cb), oprot' \in [Users -> OState],
         \A v \in Users : v # u => oprot'[v] = oprot[v],
         oprot'[u].outPlace = IF "oprot" \in conf /\ cb = "LOG"
                              THEN oprot[u].outPlace - 1
                              ELSE oprot[u].outPlace
  PROVE  PadTaken' /\ padUsed' \in [Users -> Seq(Nat)]
<1>0. /\ padUsed \in [Users -> Seq(Nat)]
      /\ \A v \in Users : oprot[v].outPlace \in Nat
  BY DEF Types, OState
<1>1. CASE "oprot" \in conf /\ cb = "LOG"
  <2> DEFINE s == padUsed[u]
             p == oprot[u].outPlace
  <2>1. /\ padUsed' = [padUsed EXCEPT ![u] = Append(@, p)]
        /\ s \in Seq(Nat) /\ p \in Nat /\ oprot'[u].outPlace = p - 1
    BY <1>0, <1>1 DEF Encrypted
  <2>2. padUsed' \in [Users -> Seq(Nat)] /\ padUsed'[u] = Append(s, p)
    BY <1>0, <2>1
  <2>3. \A v \in Users : v # u => padUsed'[v] = padUsed[v]
    BY <1>0, <2>1
  <2>4. \A i \in DOMAIN s : p < s[i] /\ s[i] \in Nat
    BY <1>0 DEF PadTaken
  <2> HIDE DEF s, p
  <2>5. \A i \in DOMAIN Append(s, p) :
          \/ i \in DOMAIN s /\ Append(s, p)[i] = s[i]
          \/ i = Len(s) + 1 /\ Append(s, p)[i] = p
    <3>1. /\ Len(s) \in Nat /\ DOMAIN s = 1 .. Len(s)
          /\ DOMAIN Append(s, p) = 1 .. Len(s) + 1
          /\ \A i \in 1 .. Len(s) : Append(s, p)[i] = s[i]
          /\ Append(s, p)[Len(s) + 1] = p
      BY <2>1
    <3> QED BY <3>1
  <2>6. \A i \in DOMAIN Append(s, p) : p - 1 < Append(s, p)[i]
    BY <2>1, <2>4, <2>5
  <2>7. \A i, j \in DOMAIN Append(s, p) :
          Append(s, p)[i] = Append(s, p)[j] => i = j
    <3>1. \A i, j \in DOMAIN s : s[i] = s[j] => i = j
      BY DEF PadTaken, s
    <3>2. \A i \in DOMAIN s : s[i] # p
      BY <2>1, <2>4
    <3> QED BY <2>5, <3>1, <3>2
  <2>8. ASSUME NEW v \in Users
        PROVE  /\ \A i \in DOMAIN padUsed'[v] :
                    oprot'[v].outPlace < padUsed'[v][i]
               /\ \A i, j \in DOMAIN padUsed'[v] :
                    padUsed'[v][i] = padUsed'[v][j] => i = j
    <3>1. CASE v = u
      <4>1. padUsed'[v] = Append(s, p)
        BY <2>2, <3>1
      <4>2. oprot'[v].outPlace = p - 1
        BY <2>1, <3>1
      <4>3. \A i \in DOMAIN padUsed'[v] : oprot'[v].outPlace < padUsed'[v][i]
        BY <2>6, <4>1, <4>2
      <4>4. \A i, j \in DOMAIN padUsed'[v] :
              padUsed'[v][i] = padUsed'[v][j] => i = j
        BY <2>7, <4>1
      <4> QED BY <4>3, <4>4
    <3>2. CASE v # u
      BY <2>3, <3>2 DEF PadTaken
    <3> QED BY <3>1, <3>2
  <2> QED BY <2>2, <2>8 DEF PadTaken
<1>2. CASE ~ ("oprot" \in conf /\ cb = "LOG")
  <2>1. padUsed' = padUsed /\ oprot'[u].outPlace = oprot[u].outPlace
    BY <1>2 DEF Encrypted
  <2> QED BY <1>0, <2>1 DEF PadTaken
<1> QED BY <1>1, <1>2

(* A new fault: only a crash makes the keys in a file old.                 *)
LEMMA Faulted ==
  ASSUME Types, NEW f \in FaultSet, Fault(f)
  PROVE  /\ faults' \in Seq(FaultSet)
         /\ "crash" \notin Range(faults') => "crash" \notin Range(faults)
         /\ f = "crash" => "crash" \in Range(faults')
<1>1. faults \in Seq(FaultSet) /\ faults' = Append(faults, f)
  BY DEF Types, Fault
<1>2. /\ faults' \in Seq(FaultSet) /\ Len(faults) \in Nat
      /\ DOMAIN faults = 1 .. Len(faults)
      /\ DOMAIN faults' = 1 .. Len(faults) + 1
      /\ \A i \in 1 .. Len(faults) : faults'[i] = faults[i]
      /\ faults'[Len(faults) + 1] = f
  BY <1>1
<1>3. Len(faults) + 1 \in DOMAIN faults'
  BY <1>2
<1>4. DOMAIN faults \subseteq DOMAIN faults'
  BY <1>2
<1> QED BY <1>2, <1>3, <1>4 DEF Range

(* readFromClientCB.                                                       *)
LEMMA SendStep ==
  ASSUME Basis, NEW u \in Users, NEW cb \in {"LOG", "NOLOG"}, Send(u, cb)
  PROVE  Basis'
<1> DEFINE e == e2eEncrypt(u, cb)
           x == Entry(u, cb, e.text)
           p == e2eEncryptFinish(e.rprot, cb)
<1>0. Types /\ Relay /\ ShownPast /\ PadTaken
  BY DEF Basis
<1>1. /\ Encrypted(u, cb) /\ CanEncrypt(u, cb)
      /\ due' = Posted(u, x) /\ kept' = Append(kept, x)
      /\ rprot' = [rprot EXCEPT ![u] = p]
      /\ oprot' = [oprot EXCEPT ![u] = e.oprot]
      /\ made' = [made EXCEPT ![u] = @ + 1]
      /\ UNCHANGED <<conf, file, shown, again, heard, faults>>
  BY DEF Send, Encrypted
<1>2. /\ e.rprot \in RState /\ e.rprot.inKey = rprot[u].inKey
      /\ e.oprot \in OState /\ e.oprot.inPlace = oprot[u].inPlace
      /\ e.oprot.outPlace =
           IF "oprot" \in conf /\ cb = "LOG"
           THEN oprot[u].outPlace - 1 ELSE oprot[u].outPlace
      /\ x \in Entries /\ Carries(x)
  BY <1>0, <1>1, Encrypts
<1>3. x.id = Id(u)
  BY DEF Entry
<1> HIDE DEF e, x
<1>4. p \in RState /\ p.inKey = e.rprot.inKey
  BY <1>2, Finishes
<1> HIDE DEF p
<1>5. /\ rprot \in [Users -> RState] /\ oprot \in [Users -> OState]
      /\ rprot' \in [Users -> RState] /\ oprot' \in [Users -> OState]
      /\ rprot'[u] = p /\ oprot'[u] = e.oprot
      /\ \A v \in Users : v # u => rprot'[v] = rprot[v]
      /\ \A v \in Users : v # u => oprot'[v] = oprot[v]
  BY <1>0, <1>1, <1>2, <1>4 DEF Types
<1>6. /\ kept' \in Seq(Entries') /\ due' \in [Users -> Seq(Entries')]
      /\ made' \in [Users -> Nat] /\ Relay'
      /\ \A v \in Users : \A f \in Logs' : f.id \in shown[v] => f \in Logs
  <2>1. /\ due' \in [Users -> Seq(Entries)] /\ kept' \in Seq(Entries)
        /\ Range(kept') = Range(kept) \cup {x}
        /\ Range(due'[Peer(u)]) = Range(due[Peer(u)]) \cup {x}
        /\ \A v \in Users : v # Peer(u) => due'[v] = due[v]
    BY <1>0, <1>1, <1>2, PostedKept
  <2>2. Entries' = Entries
    BY <1>1, SameTexts
  <2>3. Logs \subseteq Logs' /\ (Logged(x) => x \in Logs')
    BY <2>1 DEF Logs, LoggedOnes
  <2>4. \A v \in Users : \A f \in Range(due'[v]) :
          /\ f \in {x} \cup Range(kept) \cup Range(due[v])
          /\ Logged(f) /\ f = x => f \in Logs'
    BY <2>1, <2>3
  <2> HIDE DEF Logs
  <2> QED BY <1>0, <1>1, <1>2, <1>3, <2>1, <2>2, <2>3, <2>4, NewMessage
<1>7. ShownPast'
  <2>1. \A v \in Users : /\ rprot'[v].inKey = rprot[v].inKey
                         /\ oprot'[v].inPlace = oprot[v].inPlace
    BY <1>2, <1>4, <1>5
  <2> QED BY <1>0, <1>1, <1>6, <2>1, PastStays
<1>8. PadTaken' /\ padUsed' \in [Users -> Seq(Nat)]
  BY <1>0, <1>1, <1>2, <1>5, PadStep
<1>9. Types'
  BY <1>0, <1>1, <1>5, <1>6, <1>8 DEF Types
<1> QED BY <1>6, <1>7, <1>8, <1>9 DEF Basis

(* A send that fails, and the next start.                                  *)
LEMMA SendFailsStep ==
  ASSUME Basis, NEW u \in Users, NEW cb \in {"LOG", "NOLOG"},
         NEW b \in BOOLEAN, SendFails(u, cb, b)
  PROVE  Basis'
<1> DEFINE e == e2eEncrypt(u, cb)
           x == Entry(u, cb, e.text)
           o == O!OprotInit(e.oprot)
           log == IF b THEN Append(kept, x) ELSE kept
           d == IF b THEN Posted(u, x) ELSE due
           f == IF b THEN "delivered" ELSE "undelivered"
<1>0. Types /\ Relay /\ ShownPast /\ PadTaken
  BY DEF Basis
<1>1. /\ Encrypted(u, cb) /\ CanEncrypt(u, cb) /\ Fault(f)
      /\ Rejoin(u, d, log)
      /\ file' = [file EXCEPT ![u] = e.rprot]
      /\ rprot' = [rprot EXCEPT ![u] = file'[u]]
      /\ oprot' = [oprot EXCEPT ![u] = o]
      /\ made' = [made EXCEPT ![u] = @ + 1]
      /\ UNCHANGED <<conf, shown, again, heard>>
  BY DEF SendFails, Encrypted, Start, RprotDe
<1>2. /\ e.rprot \in RState /\ e.rprot.inKey = rprot[u].inKey
      /\ e.oprot \in OState /\ e.oprot.inPlace = oprot[u].inPlace
      /\ e.oprot.outPlace =
           IF "oprot" \in conf /\ cb = "LOG"
           THEN oprot[u].outPlace - 1 ELSE oprot[u].outPlace
      /\ x \in Entries /\ Carries(x)
  BY <1>0, <1>1, Encrypts
<1>3. x.id = Id(u) /\ f \in FaultSet
  BY DEF Entry, FaultSet
<1> HIDE DEF e, x
<1>4. o \in OState /\ o.outPlace = e.oprot.outPlace
      /\ o.inPlace = e.oprot.inPlace
  BY <1>2, OprotInitDoes
<1> HIDE DEF o
<1>5. /\ rprot \in [Users -> RState] /\ oprot \in [Users -> OState]
      /\ rprot' \in [Users -> RState] /\ oprot' \in [Users -> OState]
      /\ file' \in [Users -> RState]
      /\ rprot'[u] = e.rprot /\ oprot'[u] = o
      /\ \A v \in Users : v # u => rprot'[v] = rprot[v]
      /\ \A v \in Users : v # u => oprot'[v] = oprot[v]
  BY <1>0, <1>1, <1>2, <1>4 DEF Types
<1>6. /\ kept' \in Seq(Entries') /\ due' \in [Users -> Seq(Entries')]
      /\ made' \in [Users -> Nat] /\ Relay'
      /\ \A v \in Users : \A g \in Logs' : g.id \in shown[v] => g \in Logs
  <2>1. /\ d \in [Users -> Seq(Entries)] /\ log \in Seq(Entries)
        /\ Range(kept) \subseteq Range(log)
        /\ Range(log) \subseteq Range(kept) \cup {x}
        /\ \A v \in Users : \A g \in Range(d[v]) :
             g \in Range(due[v]) \/ (g = x /\ x \in Range(log))
    <3>1. CASE b
      <4>1. d = Posted(u, x) /\ log = Append(kept, x)
        BY <3>1
      <4> HIDE DEF d, log, Entries
      <4>2. /\ d \in [Users -> Seq(Entries)] /\ log \in Seq(Entries)
            /\ Range(log) = Range(kept) \cup {x}
            /\ Range(d[Peer(u)]) = Range(due[Peer(u)]) \cup {x}
            /\ \A v \in Users : v # Peer(u) => d[v] = due[v]
        BY <1>0, <1>2, <4>1, PostedKept
      <4> QED BY <4>2
    <3>2. CASE ~b
      BY <1>0, <3>2 DEF Types
    <3> QED BY <3>1, <3>2
  <2> HIDE DEF d, log
  <2>2. /\ kept' \in Seq(Entries) /\ Thins(kept', log)
        /\ due' \in [Users -> Seq(Entries)] /\ due'[u] = kept'
        /\ \A v \in Users : v # u => due'[v] = d[v]
    BY <1>1, <2>1, RejoinDoes
  <2>3. Entries' = Entries
    BY <1>1, SameTexts
  <2>4. /\ Range(kept') \subseteq Range(log) /\ Logs' = LoggedOnes(log)
        /\ Logs' = LoggedOnes(kept') /\ Logs = LoggedOnes(kept)
    BY <2>2 DEF Thins, Logs, LoggedOnes
  <2>5. Logs \subseteq Logs' /\ Range(kept') \subseteq Range(kept) \cup {x}
    BY <2>1, <2>4 DEF LoggedOnes
  <2>6. \A v \in Users : \A g \in Range(due'[v]) :
          /\ g \in {x} \cup Range(kept) \cup Range(due[v])
          /\ Logged(g) /\ g = x => g \in Logs'
    <3> SUFFICES ASSUME NEW v \in Users, NEW g \in Range(due'[v])
                 PROVE  /\ g \in {x} \cup Range(kept) \cup Range(due[v])
                        /\ Logged(g) /\ g = x => g \in Logs'
      OBVIOUS
    <3>1. CASE v = u
      <4>1. g \in Range(kept')
        BY <2>2, <3>1
      <4> QED BY <2>4, <2>5, <4>1 DEF LoggedOnes
    <3>2. CASE v # u
      <4>1. g \in Range(d[v])
        BY <2>2, <3>2
      <4>2. g = x => g \in Range(log) \/ g \in Range(due[v])
        BY <2>1, <4>1
      <4>3. g \in Range(due[v]) /\ Logged(g) => g \in Logs'
        BY <1>0, <2>5 DEF Relay
      <4>4. g \in Range(log) /\ Logged(g) => g \in Logs'
        BY <2>4 DEF LoggedOnes
      <4> QED BY <2>1, <4>1, <4>2, <4>3, <4>4
    <3> QED BY <3>1, <3>2
  <2> HIDE DEF Logs
  <2> QED BY <1>0, <1>1, <1>2, <1>3, <2>2, <2>3, <2>5, <2>6, NewMessage
<1> HIDE DEF d, log, f
<1>7. /\ faults' \in Seq(FaultSet)
      /\ "crash" \notin Range(faults') => "crash" \notin Range(faults)
  BY <1>0, <1>1, <1>3, Faulted
<1>8. ShownPast'
  <2>1. \A v \in Users : /\ rprot'[v].inKey = rprot[v].inKey
                         /\ oprot'[v].inPlace = oprot[v].inPlace
    BY <1>2, <1>4, <1>5
  <2> QED BY <1>0, <1>1, <1>6, <1>7, <2>1, PastStays
<1>9. PadTaken' /\ padUsed' \in [Users -> Seq(Nat)]
  BY <1>0, <1>1, <1>2, <1>4, <1>5, PadStep
<1>10. Types'
  BY <1>0, <1>1, <1>5, <1>6, <1>7, <1>9 DEF Types
<1> QED BY <1>6, <1>8, <1>9, <1>10 DEF Basis

(* readFromServerCB: what it opens and shows was not shown before.         *)
LEMMA ReceiveStep ==
  ASSUME Basis, NEW u \in Users, Receive(u)
  PROVE  Basis'
<1> DEFINE e == Head(due[u])
           r == e2eDecrypt(u, e.text)
<1>0. Types /\ Relay /\ ShownPast /\ PadTaken
  BY DEF Basis
<1>1. /\ due[u] # <<>> /\ due' = [due EXCEPT ![u] = Tail(@)]
      /\ rprot' = [rprot EXCEPT ![u] = r.rprot]
      /\ oprot' = [oprot EXCEPT ![u] = r.oprot]
      /\ shown' = IF r.ok /\ e.cb = "LOG"
                  THEN [shown EXCEPT ![u] = @ \cup {r.text}] ELSE shown
      /\ again' = (again \/ (r.ok /\ e.cb = "LOG" /\ r.text \in shown[u]))
      /\ heard' = IF r.ok /\ e.cb = "LOG"
                  THEN [heard EXCEPT ![u] = Larger(@, e.depth)] ELSE heard
      /\ UNCHANGED <<conf, file, kept, made, padUsed, faults>>
  BY DEF Receive, Logged
<1>a. /\ kept \in Seq(Entries) /\ due \in [Users -> Seq(Entries)]
      /\ rprot \in [Users -> RState] /\ oprot \in [Users -> OState]
      /\ shown \in [Users -> SUBSET IdSet] /\ heard \in [Users -> Nat]
      /\ Entries' = Entries
  BY <1>0, <1>1, SameTexts DEF Types
<1>2. /\ due[u] \in Seq(Entries) /\ Tail(due[u]) \in Seq(Entries)
      /\ e \in Range(due[u]) /\ e \in Entries
      /\ Range(due[u]) = {e} \cup Range(Tail(due[u]))
  <2> HIDE DEF Entries
  <2>1. due[u] \in Seq(Entries)
    BY <1>a
  <2> QED BY <1>1, <2>1, RangeTail
<1>3. Carries(e) /\ (e.cb = "LOG" => e \in Logs)
  BY <1>0, <1>2 DEF Relay, Logged
<1>4. e.cb = "LOG" => e.id.n <= made[e.id.from]
  BY <1>0, <1>3 DEF Relay, Logs, LoggedOnes
<1>b. e.id \in IdSet /\ e.depth \in Nat
  BY <1>2 DEF Entries
<1>5. /\ r.rprot \in RState /\ r.oprot \in OState
      /\ r.oprot.outPlace = oprot[u].outPlace
      /\ Len(rprot[u].inKey) <= Len(r.rprot.inKey)
      /\ r.oprot.inPlace <= oprot[u].inPlace
      /\ r.ok /\ e.cb = "LOG" =>
           /\ r.text = e.id /\ ~Past(u, e)
           /\ IF "rprot" \in conf
              THEN Len(e.text.key) < Len(r.rprot.inKey)
              ELSE r.oprot.inPlace < e.text.pad
  BY <1>0, <1>2, <1>3, Decrypts
<1> HIDE DEF e, r
<1>6. /\ rprot' \in [Users -> RState] /\ oprot' \in [Users -> OState]
      /\ rprot'[u] = r.rprot /\ oprot'[u] = r.oprot
      /\ \A v \in Users : v # u => rprot'[v] = rprot[v]
      /\ \A v \in Users : v # u => oprot'[v] = oprot[v]
  BY <1>1, <1>a, <1>5
<1>7. /\ shown' \in [Users -> SUBSET IdSet] /\ heard' \in [Users -> Nat]
      /\ \A v \in Users : \A y \in shown'[v] :
           y \in shown[v] \/ (v = u /\ y = e.id /\ r.ok /\ e.cb = "LOG")
  <2>1. CASE r.ok /\ e.cb = "LOG"
    <3>1. \A m \in Nat : Larger(m, e.depth) \in Nat
      BY <1>b DEF Larger
    <3> QED BY <1>1, <1>a, <1>b, <1>5, <2>1, <3>1
  <2>2. CASE ~ (r.ok /\ e.cb = "LOG")
    BY <1>1, <1>a, <2>2
  <2> QED BY <2>1, <2>2
<1>c. Logs' = Logs
  BY <1>1 DEF Logs, LoggedOnes
<1>8. Relay'
  <2>1. \A v \in Users : \A f \in Range(due'[v]) :
          Carries(f) /\ (Logged(f) => f \in Logs)
    <3>1. /\ due'[u] = Tail(due[u])
          /\ \A v \in Users : v # u => due'[v] = due[v]
      BY <1>1, <1>a
    <3>2. \A v \in Users : Range(due'[v]) \subseteq Range(due[v])
      BY <1>2, <3>1
    <3> QED BY <1>0, <3>2 DEF Relay
  <2>2. \A v \in Users : \A y \in shown'[v] : y.n <= made[y.from]
    BY <1>0, <1>4, <1>7 DEF Relay
  <2>3. Range(kept') = Range(kept)
    BY <1>1
  <2> QED BY <1>0, <1>1, <1>c, <2>1, <2>2, <2>3 DEF Relay, Carries, Unwrapped
<1>9. ShownPast'
  <2> SUFFICES ASSUME "crash" \notin Range(faults)
      PROVE  /\ ~again'
             /\ \A v \in Users : \A f \in Logs :
                  f.id \in shown'[v] =>
                    IF "rprot" \in conf
                    THEN Len(f.text.key) < Len(rprot'[v].inKey)
                    ELSE oprot'[v].inPlace < f.text.pad
    BY <1>1, <1>c DEF ShownPast, Past
  <2>1. ~again'
    <3>1. r.ok /\ e.cb = "LOG" => r.text \notin shown[u]
      BY <1>0, <1>3, <1>5 DEF ShownPast
    <3> QED BY <1>0, <1>1, <3>1 DEF ShownPast
  <2>2. ASSUME NEW v \in Users, NEW f \in Logs, f.id \in shown'[v]
        PROVE  IF "rprot" \in conf
               THEN Len(f.text.key) < Len(rprot'[v].inKey)
               ELSE oprot'[v].inPlace < f.text.pad
    <3>1. CASE f.id \in shown[v]
      <4>1. Past(v, f)
        BY <1>0, <2>2, <3>1 DEF ShownPast
      <4>2. CASE v = u
        <5>1. f \in Entries
          <6>1. f \in Range(kept)
            BY DEF Logs, LoggedOnes
          <6> QED BY <1>a, <6>1, RangeIn
        <5>2. "rprot" \in conf => f.text.key \in Seq(Part)
          BY <5>1 DEF Entries, Text
        <5>3. "rprot" \notin conf => f.text.pad \in Nat
          <6>1. "rprot" \notin conf => "oprot" \in conf
            BY <1>0 DEF Types
          <6> QED BY <5>1, <6>1 DEF Entries, Text, Plain, OText
        <5>4. /\ rprot[u].inKey \in Seq(Part) /\ r.rprot.inKey \in Seq(Part)
              /\ oprot[u].inPlace \in Nat /\ r.oprot.inPlace \in Nat
          BY <1>a, <1>5 DEF RState, OState
        <5>5. CASE "rprot" \in conf
          <6>1. Len(f.text.key) \in Nat /\ Len(rprot[u].inKey) \in Nat
                /\ Len(r.rprot.inKey) \in Nat
            BY <5>2, <5>4, <5>5
          <6> QED BY <1>5, <1>6, <4>1, <4>2, <5>5, <6>1 DEF Past
        <5>6. CASE "rprot" \notin conf
          BY <1>5, <1>6, <4>1, <4>2, <5>3, <5>4, <5>6 DEF Past
        <5> QED BY <5>5, <5>6
      <4>3. CASE v # u
        BY <1>6, <4>1, <4>3 DEF Past
      <4> QED BY <4>2, <4>3
    <3>2. CASE f.id \notin shown[v]
      <4>1. v = u /\ f.id = e.id /\ r.ok /\ e.cb = "LOG"
        BY <1>7, <2>2, <3>2
      <4>2. f = e
        BY <1>0, <1>3, <4>1 DEF Relay
      <4> QED BY <1>5, <1>6, <4>1, <4>2
    <3> QED BY <3>1, <3>2
  <2> QED BY <2>1, <2>2
<1>10. PadTaken'
  BY <1>0, <1>1, <1>5, <1>6 DEF PadTaken
<1>11. Types'
  <2>1. due' \in [Users -> Seq(Entries')]
    BY <1>1, <1>2, <1>a
  <2>2. again' \in BOOLEAN
    BY <1>1, <1>0 DEF Types
  <2> QED BY <1>0, <1>1, <1>6, <1>7, <2>1, <2>2, <1>a DEF Types
<1> QED BY <1>8, <1>9, <1>10, <1>11 DEF Basis

(* The end of a proxy, in good order or not, and its next start.           *)
LEMMA RestartStep ==
  ASSUME Basis, NEW u \in Users, Restart(u) \/ Crash(u)
  PROVE  Basis'
<1> DEFINE o == O!OprotInit(oprot[u])
<1>0. Types /\ Relay /\ ShownPast /\ PadTaken
  BY DEF Basis
<1>1. /\ rprot' = [rprot EXCEPT ![u] = file'[u]]
      /\ oprot' = [oprot EXCEPT ![u] = o]
      /\ Rejoin(u, due, kept)
      /\ UNCHANGED <<conf, made, shown, again, padUsed, heard>>
      /\ \/ Fault("restart") /\ file' = [file EXCEPT ![u] = rprot[u]]
         \/ Fault("crash") /\ file' = file
  BY DEF Restart, Crash, Start, RprotDe, history
<1>a. /\ rprot \in [Users -> RState] /\ oprot \in [Users -> OState]
      /\ file \in [Users -> RState] /\ kept \in Seq(Entries)
      /\ due \in [Users -> Seq(Entries)] /\ Entries' = Entries
  BY <1>0, <1>1, SameTexts DEF Types
<1>2. o \in OState /\ o.outPlace = oprot[u].outPlace
      /\ o.inPlace = oprot[u].inPlace
  BY <1>a, OprotInitDoes
<1> HIDE DEF o
<1>3. /\ file' \in [Users -> RState] /\ rprot' \in [Users -> RState]
      /\ oprot' \in [Users -> OState] /\ oprot'[u] = o
      /\ \A v \in Users : v # u => rprot'[v] = rprot[v] /\ oprot'[v] = oprot[v]
      /\ Fault("crash") \/ rprot'[u] = rprot[u]
  BY <1>1, <1>2, <1>a
<1>4. /\ kept' \in Seq(Entries) /\ Thins(kept', kept)
      /\ due' \in [Users -> Seq(Entries)] /\ due'[u] = kept'
      /\ \A v \in Users : v # u => due'[v] = due[v]
  BY <1>1, <1>a, RejoinDoes
<1>5. /\ faults' \in Seq(FaultSet)
      /\ "crash" \notin Range(faults') => "crash" \notin Range(faults)
      /\ "crash" \notin Range(faults') => ~Fault("crash")
  <2>1. "crash" \in FaultSet /\ "restart" \in FaultSet
    BY DEF FaultSet
  <2> QED BY <1>0, <1>1, <2>1, Faulted
<1>b. Logs' = Logs /\ Range(kept') \subseteq Range(kept)
  BY <1>4 DEF Logs, LoggedOnes, Thins
<1>6. Relay'
  <2>1. \A f \in Range(kept) : Logged(f) => f \in Logs
    BY DEF Logs, LoggedOnes
  <2>2. \A v \in Users : \A f \in Range(due'[v]) :
          Carries(f) /\ (Logged(f) => f \in Logs)
    <3>1. \A v \in Users :
            Range(due'[v]) \subseteq Range(due[v]) \cup Range(kept)
      BY <1>4, <1>b
    <3> QED BY <1>0, <2>1, <3>1 DEF Relay
  <2> QED BY <1>0, <1>1, <1>b, <2>2 DEF Relay, Carries, Unwrapped
<1>7. ShownPast'
  <2>1. CASE "crash" \in Range(faults')
    BY <2>1 DEF ShownPast
  <2>2. CASE "crash" \notin Range(faults')
    <3>1. \A v \in Users : /\ rprot'[v].inKey = rprot[v].inKey
                           /\ oprot'[v].inPlace = oprot[v].inPlace
      BY <1>2, <1>3, <1>5, <2>2
    <3> QED BY <1>0, <1>1, <1>5, <1>b, <3>1, PastStays
  <2> QED BY <2>1, <2>2
<1>8. PadTaken'
  BY <1>0, <1>1, <1>2, <1>3 DEF PadTaken
<1>9. Types'
  BY <1>0, <1>1, <1>3, <1>4, <1>5, <1>a DEF Types
<1> QED BY <1>6, <1>7, <1>8, <1>9 DEF Basis

(* The initial states.                                                     *)
LEMMA BasisInit ==
  ASSUME Init
  PROVE  Basis
<1> USE EndToEndAssumption DEF Init
<1>1. \A u \in Users : RprotMake(u, Peer(u)) \in RState
  <2> SUFFICES ASSUME NEW u \in Users
               PROVE  RprotMake(u, Peer(u)) \in RState
    OBVIOUS
  <2>1. Root(u) \in Part /\ Root(Peer(u)) \in Part /\ Zero \in Part
    BY PeerIsUser DEF Part, Root, Zero
  <2>2. <<Root(u)>> \in Seq(Part) /\ <<Root(Peer(u))>> \in Seq(Part)
    <3> HIDE DEF Part
    <3> QED BY <2>1
  <2>3. {"SENT_IN"} \in SUBSET Flags
    BY DEF Flags
  <2> HIDE DEF Part
  <2> QED BY <2>1, <2>2, <2>3 DEF RprotMake, RState
<1>2. \A u \in Users : O!OprotMake(u, Peer(u), PadLen) \in OState
  BY PeerIsUser DEF O!OprotMake, OState
<1>3. conf \subseteq {"rprot", "oprot"} /\ conf # {}
  <2>1. conf \in SUBSET {"rprot", "oprot"} /\ conf \notin {{}}
    OBVIOUS
  <2> QED BY <2>1
<1>4. /\ rprot \in [Users -> RState] /\ file \in [Users -> RState]
      /\ oprot \in [Users -> OState]
  BY <1>1, <1>2
<1>5. Types
  <2>1. /\ made \in [Users -> Nat] /\ heard \in [Users -> Nat]
        /\ again \in BOOLEAN
    OBVIOUS
  <2>2. <<>> \in Seq(Entries) /\ <<>> \in Seq(Nat) /\ <<>> \in Seq(FaultSet)
    OBVIOUS
  <2>3. kept \in Seq(Entries) /\ faults \in Seq(FaultSet)
    BY <2>2
  <2>4. due \in [Users -> Seq(Entries)] /\ padUsed \in [Users -> Seq(Nat)]
    BY <2>2
  <2>5. shown \in [Users -> SUBSET IdSet]
    <3>1. {} \in SUBSET IdSet
      OBVIOUS
    <3> QED BY <3>1
  <2> QED BY <1>3, <1>4, <2>1, <2>3, <2>4, <2>5 DEF Types
<1>6. Relay
  BY DEF Relay, Logs, LoggedOnes, Range
<1>7. ShownPast
  BY DEF ShownPast, Logs, LoggedOnes, Range
<1>8. PadTaken
  BY DEF PadTaken
<1> QED BY <1>5, <1>6, <1>7, <1>8 DEF Basis

(* It holds in every reachable state.                                      *)
THEOREM BasisInvariance == Spec => []Basis
<1>1. Init => Basis
  BY BasisInit
<1>2. Basis /\ [Next]_vars => Basis'
  <2> SUFFICES ASSUME Basis, [Next]_vars
               PROVE  Basis'
    OBVIOUS
  <2>1. CASE UNCHANGED vars
    <3>1. /\ conf' = conf /\ rprot' = rprot /\ oprot' = oprot /\ file' = file
          /\ due' = due /\ kept' = kept /\ made' = made /\ heard' = heard
          /\ shown' = shown /\ again' = again /\ padUsed' = padUsed
          /\ faults' = faults
      BY <2>1 DEF vars, protVars, relayVars, history
    <3>2. Entries' = Entries
      BY <3>1, SameTexts
    <3>3. Types'
      BY <3>1, <3>2 DEF Basis, Types
    <3>4. Relay'
      BY <3>1 DEF Basis, Relay, Carries, Unwrapped, Logs, LoggedOnes
    <3>5. ShownPast'
      BY <3>1 DEF Basis, ShownPast, Past, Logs, LoggedOnes
    <3>6. PadTaken'
      BY <3>1 DEF Basis, PadTaken
    <3> QED BY <3>3, <3>4, <3>5, <3>6 DEF Basis
  <2>2. ASSUME NEW u \in Users, NEW cb \in {"LOG", "NOLOG"}, Send(u, cb)
        PROVE  Basis'
    BY <2>2, SendStep
  <2>3. ASSUME NEW u \in Users, NEW cb \in {"LOG", "NOLOG"},
               NEW d \in BOOLEAN, SendFails(u, cb, d)
        PROVE  Basis'
    BY <2>3, SendFailsStep
  <2>4. ASSUME NEW u \in Users, Receive(u) \/ Restart(u) \/ Crash(u)
        PROVE  Basis'
    BY <2>4, ReceiveStep, RestartStep
  <2> QED BY <2>1, <2>2, <2>3, <2>4 DEF Next
<1> QED BY <1>1, <1>2, PTL DEF Spec

-----------------------------------------------------------------------------
(* The two users are each other's peers.                                   *)
LEMMA TwoUsers ==
  ASSUME NEW u \in Users
  PROVE  /\ Peer(u) \in Users /\ Peer(u) # u /\ Peer(Peer(u)) = u
         /\ \A w \in Users : w = u \/ w = Peer(u)
<1>1. PICK a, b \in Users : a # b /\ Users = {a, b}
  BY EndToEndAssumption
<1>2. \A w \in Users : Peer(w) \in Users /\ Peer(w) # w
  <2> SUFFICES ASSUME NEW w \in Users
               PROVE  Peer(w) \in Users /\ Peer(w) # w
    OBVIOUS
  <2>1. \E v \in Users : v # w
    BY <1>1
  <2> QED BY <2>1 DEF Peer
<1> QED BY <1>1, <1>2

(* A part of a part of a key is a part of it.                              *)
LEMMA PartOfPart ==
  ASSUME NEW k, NEW l, NEW key, Len(k) \in Nat, Len(l) \in Nat,
         Len(key) \in Nat, PartOfKey(k, l), PartOfKey(l, key)
  PROVE  PartOfKey(k, key)
<1>1. \A i \in 1 .. Len(k) : i \in 1 .. Len(l)
  BY DEF PartOfKey
<1> QED BY <1>1 DEF PartOfKey

(* Two parts of a key that are as long as each other are the same.         *)
LEMMA SameParts ==
  ASSUME NEW S, NEW k \in Seq(S), NEW l \in Seq(S), NEW key,
         PartOfKey(k, key), PartOfKey(l, key), Len(k) = Len(l)
  PROVE  k = l
<1>1. \A i \in 1 .. Len(k) : k[i] = l[i]
  BY DEF PartOfKey
<1> QED BY <1>1, SeqEqual

(* A part of a key that grows as the key did is a part of it again.        *)
LEMMA GrownFits ==
  ASSUME NEW k, NEW l, NEW key, NEW ready \in BOOLEAN, NEW s,
         Len(k) \in Nat, Len(l) \in Nat, Len(key) \in Nat,
         Grown(k, l, ready, s), PartOfKey(k, key), Len(l) <= Len(key),
         key[Len(k) + 1] = Hash,
         ready => key[Len(k) + 2] = s /\ key[Len(k) + 3] = Hash
  PROVE  PartOfKey(l, key)
<1> SUFFICES ASSUME NEW i \in 1 .. Len(l)
             PROVE  l[i] = key[i]
  BY DEF PartOfKey
<1>1. CASE i <= Len(k)
  <2>1. i \in 1 .. Len(k)
    BY <1>1
  <2> QED BY <2>1 DEF PartOfKey, Grown
<1>2. CASE i = Len(k) + 1
  BY <1>2 DEF Grown
<1>3. CASE i > Len(k) + 1
  <2>1. ready /\ (i = Len(k) + 2 \/ i = Len(k) + 3)
    BY <1>3 DEF Grown
  <2> QED BY <2>1 DEF Grown
<1> QED BY <1>1, <1>2, <1>3

(* naclRatchet and naclMix.                                                *)
LEMMA RatchetGrows ==
  ASSUME NEW k \in Seq(Part), NEW s \in Part
  PROVE  /\ Grown(k, naclRatchet(k), FALSE, s)
         /\ Grown(k, naclMix(naclRatchet(k), s), TRUE, s)
<1>1. Hash \in Part
  BY DEF Part, Hash
<1> DEFINE n == Len(k)
           a == Append(k, Hash)
           b == Append(a, s)
           c == Append(b, Hash)
<1>2. \A t \in Seq(Part) : \A y \in Part :
        /\ Append(t, y) \in Seq(Part) /\ Len(Append(t, y)) = Len(t) + 1
        /\ \A i \in 1 .. Len(t) : Append(t, y)[i] = t[i]
        /\ Append(t, y)[Len(t) + 1] = y
  OBVIOUS
<1>3. n \in Nat
  OBVIOUS
<1> HIDE DEF Part
<1>4. /\ a \in Seq(Part) /\ Len(a) = n + 1 /\ a[n + 1] = Hash
      /\ \A i \in 1 .. n : a[i] = k[i]
  BY <1>1, <1>2
<1> HIDE DEF a
<1>5. /\ b \in Seq(Part) /\ Len(b) = n + 2 /\ b[n + 2] = s
      /\ \A i \in 1 .. n + 1 : b[i] = a[i]
  <2>1. Len(a) + 1 = n + 2
    BY <1>3, <1>4
  <2> QED BY <1>2, <1>4, <2>1
<1> HIDE DEF b
<1>6. /\ c \in Seq(Part) /\ Len(c) = n + 3 /\ c[n + 3] = Hash
      /\ \A i \in 1 .. n + 2 : c[i] = b[i]
  <2>1. Len(b) + 1 = n + 3
    BY <1>3, <1>5
  <2> QED BY <1>1, <1>2, <1>5, <2>1
<1> HIDE DEF c
<1>7. /\ \A i \in 1 .. n : c[i] = k[i]
      /\ c[n + 1] = Hash /\ c[n + 2] = s
  <2>1. \A i \in 1 .. n : i \in 1 .. n + 1 /\ i \in 1 .. n + 2
    BY <1>3
  <2>2. n + 1 \in 1 .. n + 1 /\ n + 1 \in 1 .. n + 2 /\ n + 2 \in 1 .. n + 2
    BY <1>3
  <2> QED BY <1>4, <1>5, <1>6, <2>1, <2>2
<1>8. naclRatchet(k) = a /\ naclMix(naclRatchet(k), s) = c
  BY DEF naclRatchet, naclMix, a, b, c
<1>9. Grown(k, a, FALSE, s)
  BY <1>3, <1>4 DEF Grown, PartOfKey
<1>10. Grown(k, c, TRUE, s)
  BY <1>3, <1>6, <1>7 DEF Grown, PartOfKey
<1> QED BY <1>8, <1>9, <1>10

(* The flags of the ephemeral exchange: ADVANCE_KEYS is none of them.      *)
Marks == {"SENT_IN", "SENT_OUT", "RATCHET_READY"}

(* RPEncrypt and RPEncryptUnmut: the text carries a secret or a public key *)
(* when one is owed, which the state keeps its half of.                    *)
LEMMA RPEncryptSays ==
  ASSUME NEW p \in RState, NEW t, NEW fresh \in Part,
         NEW cb \in {"LOG", "NOLOG"}, NEW r,
         r = IF cb = "LOG" THEN RPEncrypt(p, t, fresh)
             ELSE RPEncryptUnmut(p, t, fresh)
  PROVE  LET q == r.prot
             c == r.text.ctrl
         IN  /\ r.text.key = p.outKey
             /\ q.outKey = p.outKey /\ q.inKey = p.inKey
             /\ q.outSec = p.outSec /\ q.ephPK = p.ephPK
             /\ \A f \in Marks : /\ f \in c.status <=> f \in p.status
                                 /\ f \in q.status <=> f \in p.status
             /\ "SENT_IN" \in p.status \/ cb = "NOLOG" => q.inSec = p.inSec
             /\ "SENT_OUT" \in p.status \/ cb = "NOLOG" => q.ephSK = p.ephSK
             /\ "SENT_IN" \notin p.status /\ cb = "LOG" =>
                  c.newSecret = [for |-> p.ephPK, secret |-> q.inSec]
             /\ "SENT_OUT" \notin p.status /\ cb = "LOG" =>
                  c.newEPK = q.ephSK
<1> DEFINE S == IF cb = "LOG" THEN p.status \cup {"ADVANCE_KEYS"}
                ELSE p.status \ {"ADVANCE_KEYS"}
           o == [p EXCEPT !.status = S]
           secret == "ADVANCE_KEYS" \in S /\ "SENT_IN" \notin S
           pair == "ADVANCE_KEYS" \in S /\ "SENT_OUT" \notin S
           q == [o EXCEPT !.inSec = IF secret THEN fresh ELSE @,
                          !.ephSK = IF pair THEN fresh ELSE @]
           c == [status |-> S, newEPK |-> IF pair THEN fresh ELSE Zero,
                 newSecret |-> IF secret
                               THEN [for |-> p.ephPK, secret |-> fresh]
                               ELSE [for |-> Zero, secret |-> Zero]]
<1>1. /\ o.status = S /\ o.outKey = p.outKey /\ o.inKey = p.inKey
      /\ o.outSec = p.outSec /\ o.inSec = p.inSec
      /\ o.ephPK = p.ephPK /\ o.ephSK = p.ephSK
      /\ DOMAIN o = {"status", "outKey", "inKey", "outSec", "inSec",
                     "ephPK", "ephSK"}
  <2> HIDE DEF S
  <2> QED BY DEF RState
<1>2. r = ProtREncryptImp(o, t, fresh)
  BY DEF RPEncrypt, RPEncryptUnmut
<1>a. /\ \A f \in Marks : f \in S <=> f \in p.status
      /\ "ADVANCE_KEYS" \in S <=> cb = "LOG"
  BY DEF Marks
<1> HIDE DEF S, o
<1>3. r = [prot |-> q, text |-> [key |-> o.outKey, ctrl |-> c, text |-> t]]
  BY <1>1, <1>2 DEF ProtREncryptImp
<1>4. /\ q.status = S /\ q.outKey = o.outKey /\ q.inKey = o.inKey
      /\ q.outSec = o.outSec /\ q.ephPK = o.ephPK
      /\ q.inSec = IF secret THEN fresh ELSE o.inSec
      /\ q.ephSK = IF pair THEN fresh ELSE o.ephSK
  <2> HIDE DEF secret, pair
  <2> QED BY <1>1
<1>5. r.prot = q /\ r.text.ctrl = c /\ r.text.key = o.outKey
  <2> HIDE DEF q, c
  <2> QED BY <1>3
<1>6. /\ c.status = S /\ c.newEPK = IF pair THEN fresh ELSE Zero
      /\ secret => c.newSecret = [for |-> p.ephPK, secret |-> fresh]
  <2> HIDE DEF secret, pair
  <2> QED OBVIOUS
<1>7. /\ secret <=> cb = "LOG" /\ "SENT_IN" \notin p.status
      /\ pair <=> cb = "LOG" /\ "SENT_OUT" \notin p.status
  BY <1>a DEF Marks
<1> HIDE DEF q, c, secret, pair
<1> QED BY <1>1, <1>a, <1>4, <1>5, <1>6, <1>7

(* RPEncryptFinish: the key grows by what the text said it would.          *)
LEMMA RPEncryptFinishGrows ==
  ASSUME NEW p \in RState
  PROVE  LET q == RPEncryptFinish(p)
         IN  /\ Grown(p.outKey, q.outKey, "RATCHET_READY" \in p.status,
                      p.outSec)
             /\ q.inKey = p.inKey /\ q.inSec = p.inSec
             /\ q.ephPK = p.ephPK /\ q.ephSK = p.ephSK
             /\ "SENT_IN" \in q.status /\ "SENT_OUT" \in q.status
             /\ "RATCHET_READY" \notin q.status
<1> DEFINE a == naclRatchet(p.outKey)
           b == naclMix(a, p.outSec)
           ready == "RATCHET_READY" \in p.status
<1>1. p.outKey \in Seq(Part) /\ p.outSec \in Part
  BY DEF RState
<1>2. Grown(p.outKey, a, FALSE, p.outSec) /\ Grown(p.outKey, b, TRUE, p.outSec)
  BY <1>1, RatchetGrows
<1>3. RPEncryptFinish(p) =
        [p EXCEPT !.status = (@ \cup {"SENT_OUT", "SENT_IN"})
                               \ {"RATCHET_READY"},
                  !.outKey = IF ready THEN b ELSE a,
                  !.outSec = IF ready THEN Zero ELSE @]
  BY DEF RPEncryptFinish
<1> HIDE DEF a, b, ready, Part
<1> DEFINE q == RPEncryptFinish(p)
<1>4. /\ q.status = (p.status \cup {"SENT_OUT", "SENT_IN"})
                       \ {"RATCHET_READY"}
      /\ q.outKey = IF ready THEN b ELSE a
      /\ q.inKey = p.inKey /\ q.inSec = p.inSec
      /\ q.ephPK = p.ephPK /\ q.ephSK = p.ephSK
  BY <1>3 DEF RState
<1>5. Grown(p.outKey, q.outKey, ready, p.outSec)
  <2>1. CASE ready
    <3>1. ready = TRUE
      BY <2>1 DEF ready
    <3> QED BY <1>2, <1>4, <3>1
  <2>2. CASE ~ready
    <3>1. ready = FALSE
      BY <2>2 DEF ready
    <3> QED BY <1>2, <1>4, <3>1
  <2> QED BY <2>1, <2>2
<1> QED BY <1>4, <1>5 DEF ready

(* What RPDecrypt makes of a control block, when the key is to move.       *)
Takes(p, c, q) ==
  /\ q.outKey = p.outKey /\ q.ephSK = p.ephSK
  /\ Grown(p.inKey, q.inKey, "RATCHET_READY" \in c.status, p.inSec)
  /\ "RATCHET_READY" \notin c.status => q.inSec = p.inSec
  /\ "SENT_OUT" \in c.status =>
       /\ q.ephPK = p.ephPK
       /\ "SENT_IN" \in q.status <=> "SENT_IN" \in p.status
  /\ "SENT_OUT" \notin c.status =>
       q.ephPK = c.newEPK /\ "SENT_IN" \notin q.status
  /\ "SENT_IN" \in c.status =>
       /\ q.outSec = p.outSec
       /\ \A f \in {"SENT_OUT", "RATCHET_READY"} :
            f \in q.status <=> f \in p.status
  /\ "SENT_IN" \notin c.status /\ c.newSecret.for = p.ephSK =>
       /\ q.outSec = c.newSecret.secret
       /\ "SENT_OUT" \notin q.status
       /\ "RATCHET_READY" \in q.status

(* RPDecrypt: the key grows as the text says, a public key in it is taken  *)
(* and a secret for the one that was sent is made ready.                   *)
LEMMA RPDecryptTakes ==
  ASSUME NEW p \in RState, NEW S,
         NEW t \in [key : Seq(Part), ctrl : Ctrl, text : S], NEW r,
         r = RPDecrypt(p, t)
  PROVE  /\ t.key # p.inKey => r.prot = p /\ ~r.ok
         /\ t.key = p.inKey /\ "ADVANCE_KEYS" \notin t.ctrl.status =>
              r.prot = p /\ r.ok
         /\ t.key = p.inKey => r.text = t.text
         /\ t.key = p.inKey /\ "ADVANCE_KEYS" \in t.ctrl.status =>
              /\ Takes(p, t.ctrl, r.prot)
              /\ r.ok <=> ("SENT_IN" \notin t.ctrl.status =>
                             t.ctrl.newSecret.for = p.ephSK)
<1> DEFINE c == t.ctrl
           a == Ratcheted(p, c)
           b == Keyed(a, c)
           d == Opened(b, c)
           ready == "RATCHET_READY" \in c.status
           mine == c.newSecret.for = p.ephSK
           k == naclRatchet(p.inKey)
           m == naclMix(k, p.inSec)
<1>0. /\ p.inKey \in Seq(Part) /\ p.inSec \in Part /\ c \in Ctrl
  BY DEF RState
<1>1. /\ Grown(p.inKey, k, FALSE, p.inSec) /\ Grown(p.inKey, m, TRUE, p.inSec)
      /\ k \in Seq(Part) /\ m \in Seq(Part) /\ Zero \in Part
  <2>1. k \in Seq(Part) /\ Zero \in Part
    BY <1>0, Grows
  <2>2. m \in Seq(Part)
    <3> HIDE DEF k
    <3> QED BY <1>0, <2>1, Grows
  <2> QED BY <1>0, <2>1, <2>2, RatchetGrows
<1>2. /\ a \in RState /\ a.outKey = p.outKey /\ a.ephSK = p.ephSK
      /\ a.ephPK = p.ephPK /\ a.outSec = p.outSec /\ a.status = p.status
      /\ Grown(p.inKey, a.inKey, ready, p.inSec)
      /\ ~ready => a.inSec = p.inSec
  <2>1. a = IF ready THEN [p EXCEPT !.inKey = m, !.inSec = Zero]
            ELSE [p EXCEPT !.inKey = k]
    BY DEF Ratcheted
  <2>2. ready \in BOOLEAN
    OBVIOUS
  <2> HIDE DEF a, c, k, m, ready, Part
  <2>3. CASE ready
    <3>1. ready = TRUE
      BY <2>2, <2>3
    <3>2. a = [p EXCEPT !.inKey = m, !.inSec = Zero]
      BY <2>1, <2>3
    <3>3. /\ a \in RState /\ a.outKey = p.outKey /\ a.ephSK = p.ephSK
          /\ a.ephPK = p.ephPK /\ a.outSec = p.outSec /\ a.status = p.status
          /\ a.inKey = m
      BY <1>1, <3>2 DEF RState
    <3> QED BY <1>1, <3>1, <3>3
  <2>4. CASE ~ready
    <3>1. ready = FALSE
      BY <2>2, <2>4
    <3>2. a = [p EXCEPT !.inKey = k]
      BY <2>1, <2>4
    <3>3. /\ a \in RState /\ a.outKey = p.outKey /\ a.ephSK = p.ephSK
          /\ a.ephPK = p.ephPK /\ a.outSec = p.outSec /\ a.status = p.status
          /\ a.inKey = k /\ a.inSec = p.inSec
      BY <1>1, <3>2 DEF RState
    <3> QED BY <1>1, <3>1, <3>3
  <2> QED BY <2>3, <2>4
<1>3. /\ b \in RState /\ b.outKey = a.outKey /\ b.ephSK = a.ephSK
      /\ b.outSec = a.outSec /\ b.inKey = a.inKey /\ b.inSec = a.inSec
      /\ \A f \in {"SENT_OUT", "RATCHET_READY"} :
           f \in b.status <=> f \in a.status
      /\ "SENT_OUT" \in c.status => b.ephPK = a.ephPK /\ b.status = a.status
      /\ "SENT_OUT" \notin c.status =>
           b.ephPK = c.newEPK /\ "SENT_IN" \notin b.status
  <2> HIDE DEF a, c, Part
  <2> QED BY <1>0, <1>2 DEF Keyed, RState, Ctrl
<1>4. /\ d.outKey = b.outKey /\ d.ephSK = b.ephSK /\ d.ephPK = b.ephPK
      /\ d.inKey = b.inKey /\ d.inSec = b.inSec
      /\ "SENT_IN" \in d.status <=> "SENT_IN" \in b.status
      /\ "SENT_IN" \in c.status => d.outSec = b.outSec /\ d.status = b.status
      /\ "SENT_IN" \notin c.status /\ mine =>
           /\ d.outSec = c.newSecret.secret
           /\ "SENT_OUT" \notin d.status /\ "RATCHET_READY" \in d.status
  <2>1. mine <=> c.newSecret.for = b.ephSK
    BY <1>2, <1>3
  <2> HIDE DEF a, b, c, mine, Part
  <2>2. d = IF "SENT_IN" \notin c.status /\ mine
            THEN [b EXCEPT !.outSec = c.newSecret.secret,
                           !.status = (@ \ {"SENT_OUT"})
                                         \cup {"RATCHET_READY"}]
            ELSE b
    BY <2>1 DEF Opened
  <2> QED BY <1>3, <2>2 DEF RState
<1>5. r =
        IF t.key # p.inKey THEN [ok |-> FALSE, prot |-> p, text |-> Zero]
        ELSE IF "ADVANCE_KEYS" \notin c.status
             THEN [ok |-> TRUE, prot |-> p, text |-> t.text]
        ELSE [ok |-> "SENT_IN" \notin c.status => mine,
              prot |-> d, text |-> t.text]
  BY DEF RPDecrypt
<1>6. /\ t.ctrl = c /\ ready = ("RATCHET_READY" \in c.status)
      /\ mine <=> c.newSecret.for = p.ephSK
  OBVIOUS
<1> HIDE DEF a, b, c, d, k, m, ready, mine
<1>7. CASE t.key # p.inKey
  <2>1. r = [ok |-> FALSE, prot |-> p, text |-> Zero]
    BY <1>5, <1>7
  <2>2. r.prot = p /\ ~r.ok
    BY <2>1
  <2> QED BY <1>7, <2>2
<1>8. CASE t.key = p.inKey /\ "ADVANCE_KEYS" \notin c.status
  <2>1. r = [ok |-> TRUE, prot |-> p, text |-> t.text]
    BY <1>5, <1>8
  <2>2. r.prot = p /\ r.text = t.text /\ r.ok
    BY <2>1
  <2> QED BY <1>6, <1>8, <2>2
<1>9. CASE t.key = p.inKey /\ "ADVANCE_KEYS" \in c.status
  <2> DEFINE y == "SENT_IN" \notin c.status => mine
  <2>0. r = [ok |-> y, prot |-> d, text |-> t.text]
    BY <1>5, <1>9, Zenon
  <2>1. r.prot = d /\ r.text = t.text /\ r.ok = y
    <3> HIDE DEF y
    <3> QED BY <2>0
  <2>2. r.ok <=> ("SENT_IN" \notin c.status => mine)
    BY <2>1 DEF y
  <2> HIDE DEF y
  <2>3. /\ d.outKey = p.outKey /\ d.ephSK = p.ephSK
        /\ Grown(p.inKey, d.inKey, ready, p.inSec)
        /\ ~ready => d.inSec = p.inSec
    BY <1>2, <1>3, <1>4
  <2>4. /\ "SENT_OUT" \in c.status =>
             /\ d.ephPK = p.ephPK
             /\ "SENT_IN" \in d.status <=> "SENT_IN" \in p.status
        /\ "SENT_OUT" \notin c.status =>
             d.ephPK = c.newEPK /\ "SENT_IN" \notin d.status
    BY <1>2, <1>3, <1>4
  <2>5. /\ "SENT_IN" \in c.status =>
             /\ d.outSec = p.outSec
             /\ \A f \in {"SENT_OUT", "RATCHET_READY"} :
                  f \in d.status <=> f \in p.status
        /\ "SENT_IN" \notin c.status /\ mine =>
             /\ d.outSec = c.newSecret.secret
             /\ "SENT_OUT" \notin d.status /\ "RATCHET_READY" \in d.status
    BY <1>2, <1>3, <1>4
  <2>6. Takes(p, c, r.prot)
    <3>1. Grown(p.inKey, d.inKey, "RATCHET_READY" \in c.status, p.inSec)
      BY <1>6, <2>3
    <3> QED BY <1>6, <2>1, <2>3, <2>4, <2>5, <3>1 DEF Takes
  <2> QED BY <1>6, <1>9, <2>1, <2>2, <2>6
<1>10. t.key = p.inKey \/ t.key # p.inKey
  OBVIOUS
<1> QED BY <1>6, <1>7, <1>8, <1>9, <1>10

(* What encrypting x makes of a state p, before the send is finished.      *)
Makes(p, x, q) ==
  /\ x.text.key = p.outKey
  /\ q.outKey = p.outKey /\ q.inKey = p.inKey
  /\ q.outSec = p.outSec /\ q.ephPK = p.ephPK
  /\ \A f \in Marks : /\ Said(x, f) <=> f \in p.status
                      /\ f \in q.status <=> f \in p.status
  /\ "SENT_IN" \in p.status \/ ~Logged(x) => q.inSec = p.inSec
  /\ "SENT_OUT" \in p.status \/ ~Logged(x) => q.ephSK = p.ephSK
  /\ "SENT_IN" \notin p.status /\ Logged(x) =>
       x.text.ctrl.newSecret = [for |-> p.ephPK, secret |-> q.inSec]
  /\ "SENT_OUT" \notin p.status /\ Logged(x) =>
       x.text.ctrl.newEPK = q.ephSK

(* e2eEncrypt.                                                             *)
LEMMA EncryptMakes ==
  ASSUME Types, "rprot" \in conf, NEW u \in Users,
         NEW cb \in {"LOG", "NOLOG"}, NEW e, e = e2eEncrypt(u, cb),
         NEW x, x = Entry(u, cb, e.text)
  PROVE  Makes(rprot[u], x, e.rprot) /\ x.from = u /\ x.cb = cb
<1> DEFINE p == Padded(u, cb)
           f == Fresh(u)
           r == IF cb = "LOG" THEN RPEncrypt(rprot[u], p.text, f)
                ELSE RPEncryptUnmut(rprot[u], p.text, f)
<1>0. rprot[u] \in RState /\ made[u] \in Nat
  BY DEF Types
<1>1. f \in Part
  <2>1. made[u] + 1 \in Nat
    BY <1>0
  <2> QED BY <2>1 DEF Fresh, Part
<1>2. r = IF cb = "LOG" THEN RPEncrypt(rprot[u], p.text, f)
          ELSE RPEncryptUnmut(rprot[u], p.text, f)
  OBVIOUS
<1>3. e = [rprot |-> r.prot, oprot |-> p.prot, text |-> r.text]
  BY DEF e2eEncrypt
<1>4. x.from = u /\ x.cb = cb /\ x.text = e.text
  BY DEF Entry
<1> HIDE DEF p, f, r
<1>5. e.rprot = r.prot /\ e.text = r.text
  BY <1>3
<1>6. Logged(x) <=> cb = "LOG"
  BY <1>4 DEF Logged
<1>7. ~Logged(x) <=> cb = "NOLOG"
  BY <1>6
<1> DEFINE q == r.prot
           c == r.text.ctrl
           s == rprot[u]
<1>8. /\ r.text.key = s.outKey
      /\ q.outKey = s.outKey /\ q.inKey = s.inKey
      /\ q.outSec = s.outSec /\ q.ephPK = s.ephPK
      /\ \A g \in Marks : /\ g \in c.status <=> g \in s.status
                          /\ g \in q.status <=> g \in s.status
      /\ "SENT_IN" \in s.status \/ cb = "NOLOG" => q.inSec = s.inSec
      /\ "SENT_OUT" \in s.status \/ cb = "NOLOG" => q.ephSK = s.ephSK
      /\ "SENT_IN" \notin s.status /\ cb = "LOG" =>
           c.newSecret = [for |-> s.ephPK, secret |-> q.inSec]
      /\ "SENT_OUT" \notin s.status /\ cb = "LOG" => c.newEPK = q.ephSK
  BY <1>0, <1>1, <1>2, RPEncryptSays
<1>9. c = x.text.ctrl /\ q = e.rprot /\ x.text.key = r.text.key
  BY <1>4, <1>5
<1> HIDE DEF q, c
<1>10. Makes(s, x, q)
  BY <1>6, <1>7, <1>8, <1>9 DEF Makes, Said
<1> QED BY <1>4, <1>9, <1>10

(* A message was sent by u: nothing else happened to the two ratchets.     *)
Sends(u, x) ==
  /\ x \in Entries /\ x.from = u
  /\ kept' = Append(kept, x) /\ due' = Posted(u, x)
  /\ seen' = seen /\ faults' = faults
  /\ rprot'[Peer(u)] = rprot[Peer(u)]
  /\ \E q : /\ Makes(rprot[u], x, q)
            /\ rprot'[u].inKey = q.inKey /\ rprot'[u].inSec = q.inSec
            /\ rprot'[u].ephPK = q.ephPK /\ rprot'[u].ephSK = q.ephSK
            /\ ~Logged(x) => rprot'[u] = q
            /\ Logged(x) =>
                 /\ Grown(q.outKey, rprot'[u].outKey,
                          "RATCHET_READY" \in q.status, q.outSec)
                 /\ Flag(u, "SENT_IN")' /\ Flag(u, "SENT_OUT")'
                 /\ ~Flag(u, "RATCHET_READY")'

(* What Send does to the ratchet, the relay and what is seen.              *)
LEMMA SendSends ==
  ASSUME Basis, "rprot" \in conf, NEW u \in Users,
         NEW cb \in {"LOG", "NOLOG"}, Send(u, cb)
  PROVE  Sends(u, Entry(u, cb, e2eEncrypt(u, cb).text))
<1> DEFINE e == e2eEncrypt(u, cb)
           x == Entry(u, cb, e.text)
           p == e2eEncryptFinish(e.rprot, cb)
<1>0. Types /\ Peer(u) \in Users /\ Peer(u) # u
  BY TwoUsers DEF Basis
<1>1. /\ CanEncrypt(u, cb) /\ kept' = Append(kept, x) /\ due' = Posted(u, x)
      /\ rprot' = [rprot EXCEPT ![u] = p]
      /\ seen' = seen /\ faults' = faults
  BY DEF Send, Encrypted
<1>2. /\ e.rprot \in RState /\ x \in Entries
  BY <1>0, <1>1, Encrypts
<1>3. /\ Makes(rprot[u], x, e.rprot) /\ x.from = u /\ x.cb = cb
  <2>1. e = e2eEncrypt(u, cb) /\ x = Entry(u, cb, e.text)
    OBVIOUS
  <2> HIDE DEF e, x
  <2> QED BY <1>0, <2>1, EncryptMakes
<1> HIDE DEF e, x
<1>4. rprot'[u] = p /\ rprot'[Peer(u)] = rprot[Peer(u)]
  BY <1>0, <1>1 DEF Types
<1>5. p = IF Logged(x) THEN RPEncryptFinish(e.rprot) ELSE e.rprot
  BY <1>3 DEF e2eEncryptFinish, Logged
<1> HIDE DEF p
<1> DEFINE q == e.rprot
<1>6. CASE Logged(x)
  <2>1. p = RPEncryptFinish(q)
    BY <1>5, <1>6
  <2>2. /\ Grown(q.outKey, p.outKey, "RATCHET_READY" \in q.status, q.outSec)
        /\ p.inKey = q.inKey /\ p.inSec = q.inSec
        /\ p.ephPK = q.ephPK /\ p.ephSK = q.ephSK
        /\ "SENT_IN" \in p.status /\ "SENT_OUT" \in p.status
        /\ "RATCHET_READY" \notin p.status
    BY <1>2, <2>1, RPEncryptFinishGrows
  <2>3. /\ Flag(u, "SENT_IN")' /\ Flag(u, "SENT_OUT")'
        /\ ~Flag(u, "RATCHET_READY")'
    BY <1>4, <2>2 DEF Flag
  <2> QED BY <1>1, <1>2, <1>3, <1>4, <1>6, <2>2, <2>3 DEF Sends, x, e
<1>7. CASE ~Logged(x)
  <2>1. p = q
    BY <1>5, <1>7
  <2> QED BY <1>1, <1>2, <1>3, <1>4, <1>7, <2>1 DEF Sends, x, e
<1> QED BY <1>6, <1>7

(* The first message sent to u was read, and opened if its key was inKey.  *)
Opens(u, e) == e.text.key = rprot[u].inKey /\ Logged(e)
Reads(u, e) ==
  /\ due[u] # <<>> /\ e = Head(due[u]) /\ due' = [due EXCEPT ![u] = Tail(@)]
  /\ kept' = kept /\ faults' = faults
  /\ seen' = [seen EXCEPT ![u] = @ \cup {e.id}]
  /\ rprot'[Peer(u)] = rprot[Peer(u)]
  /\ IF Opens(u, e) THEN Takes(rprot[u], e.text.ctrl, rprot'[u])
     ELSE rprot'[u] = rprot[u]

(* The double ratchet opens a message, or is not there.                    *)
RatchetOpens(u, e) ==
  "rprot" \in conf =>
    /\ e.text.key = rprot[u].inKey
    /\ Logged(e) /\ ~Said(e, "SENT_IN") =>
         e.text.ctrl.newSecret.for = rprot[u].ephSK

(* e2eDecrypt, by its two layers.                                          *)
LEMMA DecryptLayers ==
  ASSUME Types, NEW u \in Users, NEW e \in Entries, Carries(e), NEW r,
         r = e2eDecrypt(u, e.text)
  PROVE  /\ "rprot" \in conf =>
              IF Opens(u, e) THEN Takes(rprot[u], e.text.ctrl, r.rprot)
              ELSE r.rprot = rprot[u]
         /\ "oprot" \notin conf => (r.ok <=> RatchetOpens(u, e))
         /\ "oprot" \in conf /\ RatchetOpens(u, e) =>
              LET b == O!OPDecrypt(oprot[u], Unwrapped(e))
              IN  r.oprot = b.prot /\ (r.ok <=> b.ok)
<1> DEFINE t == e.text
           a == IF "rprot" \in conf THEN RPDecrypt(rprot[u], t)
                ELSE [ok |-> TRUE, prot |-> rprot[u], text |-> t]
           b == IF "oprot" \in conf /\ a.ok THEN O!OPDecrypt(oprot[u], a.text)
                ELSE [ok |-> a.ok, prot |-> oprot[u], text |-> a.text]
<1>0. rprot[u] \in RState
  BY DEF Types
<1>1. r = [ok |-> b.ok, rprot |-> a.prot, oprot |-> b.prot, text |-> b.text]
  BY DEF e2eDecrypt
<1>2. /\ "rprot" \in conf => IF Opens(u, e)
                              THEN Takes(rprot[u], e.text.ctrl, a.prot)
                              ELSE a.prot = rprot[u]
      /\ a.ok <=> RatchetOpens(u, e)
      /\ a.ok => a.text = Unwrapped(e)
  <2>1. CASE "rprot" \in conf
    <3>1. t \in [key : Seq(Part), ctrl : Ctrl, text : Plain]
      BY <2>1 DEF Entries, Text
    <3>2. a = RPDecrypt(rprot[u], t)
      BY <2>1
    <3>3. e.text = t
      OBVIOUS
    <3> HIDE DEF a, t
    <3>4. Logged(e) <=> "ADVANCE_KEYS" \in t.ctrl.status
      BY <2>1, <3>3 DEF Carries
    <3>5. /\ t.key # rprot[u].inKey => a.prot = rprot[u] /\ ~a.ok
          /\ t.key = rprot[u].inKey /\ ~Logged(e) => a.prot = rprot[u] /\ a.ok
          /\ t.key = rprot[u].inKey => a.text = t.text
          /\ t.key = rprot[u].inKey /\ Logged(e) =>
               /\ Takes(rprot[u], t.ctrl, a.prot)
               /\ a.ok <=> ("SENT_IN" \notin t.ctrl.status =>
                              t.ctrl.newSecret.for = rprot[u].ephSK)
      BY <1>0, <3>1, <3>2, <3>4, RPDecryptTakes
    <3> QED BY <2>1, <3>3, <3>5 DEF Opens, RatchetOpens, Unwrapped, Said
  <2>2. CASE "rprot" \notin conf
    <3>1. a.prot = rprot[u] /\ a.text = t /\ a.ok
      BY <2>2
    <3> HIDE DEF a
    <3> QED BY <2>2, <3>1 DEF Unwrapped, RatchetOpens
  <2> QED BY <2>1, <2>2
<1> HIDE DEF t, a
<1>3. /\ "oprot" \notin conf => b.ok = a.ok
      /\ "oprot" \in conf /\ a.ok => b = O!OPDecrypt(oprot[u], a.text)
  OBVIOUS
<1> HIDE DEF b
<1>4. r.rprot = a.prot /\ r.ok = b.ok /\ r.oprot = b.prot
  BY <1>1
<1> QED BY <1>2, <1>3, <1>4

(* readFromServerCB reads it.                                              *)
LEMMA ReceiveReads ==
  ASSUME Basis, "rprot" \in conf, NEW u \in Users, Receive(u)
  PROVE  Reads(u, Head(due[u]))
<1> DEFINE e == Head(due[u])
           r == e2eDecrypt(u, e.text)
<1>0. /\ Types /\ Relay /\ Peer(u) \in Users /\ Peer(u) # u
      /\ rprot \in [Users -> RState] /\ due[u] \in Seq(Entries)
  BY TwoUsers DEF Basis, Types
<1>1. /\ due[u] # <<>> /\ due' = [due EXCEPT ![u] = Tail(@)]
      /\ rprot' = [rprot EXCEPT ![u] = r.rprot]
      /\ seen' = [seen EXCEPT ![u] = @ \cup {e.id}]
      /\ kept' = kept /\ faults' = faults
  BY DEF Receive
<1>2. e \in Range(due[u]) /\ e \in Entries
  <2> HIDE DEF Entries
  <2> QED BY <1>0, <1>1, RangeTail
<1>3. Carries(e)
  BY <1>0, <1>2 DEF Relay
<1>4. IF Opens(u, e) THEN Takes(rprot[u], e.text.ctrl, r.rprot)
      ELSE r.rprot = rprot[u]
  <2>1. r = e2eDecrypt(u, e.text)
    OBVIOUS
  <2> HIDE DEF e, r
  <2> QED BY <1>0, <1>2, <1>3, <2>1, DecryptLayers
<1> HIDE DEF r
<1>5. rprot'[u] = r.rprot /\ rprot'[Peer(u)] = rprot[Peer(u)]
  BY <1>0, <1>1
<1>6. e = Head(due[u])
  OBVIOUS
<1> HIDE DEF e
<1>7. Reads(u, e)
  BY <1>1, <1>4, <1>5, <1>6 DEF Reads
<1> QED BY <1>6, <1>7

(* A proxy was started again: its keys are what they were, but for what it *)
(* drew for a message that did not go out.                                 *)
Rejoins(u) ==
  /\ kept' \in Seq(Entries) /\ Thins(kept', kept) /\ due'[u] = kept'
  /\ due'[Peer(u)] = due[Peer(u)]
  /\ seen' = seen /\ lost' = lost /\ faults' # <<>>
  /\ rprot'[Peer(u)] = rprot[Peer(u)]
  /\ rprot'[u].outKey = rprot[u].outKey /\ rprot'[u].inKey = rprot[u].inKey
  /\ rprot'[u].outSec = rprot[u].outSec /\ rprot'[u].ephPK = rprot[u].ephPK
  /\ \A f \in Marks : Flag(u, f)' <=> Flag(u, f)
  /\ Flag(u, "SENT_IN") => rprot'[u].inSec = rprot[u].inSec
  /\ Flag(u, "SENT_OUT") => rprot'[u].ephSK = rprot[u].ephSK

(* After a fault that is survived, those before it were survived too, and  *)
(* no pad is used.                                                         *)
LEMMA FaultSurvives ==
  ASSUME Types, NEW f, Fault(f), conf' = conf, Survived'
  PROVE  /\ Survived /\ "oprot" \notin conf /\ faults' # <<>>
         /\ f = "restart" \/ f = "undelivered"
<1>1. faults \in Seq(FaultSet) /\ faults' = Append(faults, f)
  BY DEF Types, Fault
<1>2. Range(Append(faults, f)) = Range(faults) \cup {f}
  BY <1>1, RangeAppended
<1>3. faults' # <<>>
  BY <1>1
<1> QED BY <1>1, <1>2, <1>3 DEF Survived

(* The faults that are survived.                                           *)
LEMMA FaultRejoins ==
  ASSUME Basis, "rprot" \in conf, Survived', NEW u \in Users,
         \/ Restart(u) \/ Crash(u)
         \/ \E cb \in {"LOG", "NOLOG"}, d \in BOOLEAN : SendFails(u, cb, d)
  PROVE  Rejoins(u) /\ Survived /\ "oprot" \notin conf
<1>0. /\ Types /\ Peer(u) \in Users /\ Peer(u) # u
      /\ rprot \in [Users -> RState] /\ file \in [Users -> RState]
      /\ due \in [Users -> Seq(Entries)] /\ kept \in Seq(Entries)
  BY TwoUsers DEF Basis, Types
<1>1. CASE Restart(u)
  <2>1. /\ Fault("restart") /\ Rejoin(u, due, kept)
        /\ file' = [file EXCEPT ![u] = rprot[u]]
        /\ rprot' = [rprot EXCEPT ![u] = file'[u]]
        /\ conf' = conf /\ seen' = seen /\ lost' = lost
    BY <1>1 DEF Restart, RprotDe, Start, history
  <2>2. /\ rprot'[u] = rprot[u] /\ rprot'[Peer(u)] = rprot[Peer(u)]
    BY <1>0, <2>1
  <2>3. /\ kept' \in Seq(Entries) /\ Thins(kept', kept) /\ due'[u] = kept'
        /\ due'[Peer(u)] = due[Peer(u)]
    BY <1>0, <2>1, RejoinDoes
  <2>4. Survived /\ "oprot" \notin conf /\ faults' # <<>>
    BY <1>0, <2>1, FaultSurvives
  <2>5. \A f \in Marks : Flag(u, f)' <=> Flag(u, f)
    BY <2>2 DEF Flag
  <2> QED BY <2>1, <2>2, <2>3, <2>4, <2>5 DEF Rejoins
<1>2. CASE Crash(u)
  <2>1. Fault("crash") /\ conf' = conf
    BY <1>2 DEF Crash
  <2> QED BY <1>0, <2>1, FaultSurvives
<1>3. CASE \E cb \in {"LOG", "NOLOG"}, d \in BOOLEAN : SendFails(u, cb, d)
  <2>1. PICK cb \in {"LOG", "NOLOG"}, d \in BOOLEAN : SendFails(u, cb, d)
    BY <1>3
  <2> DEFINE e == e2eEncrypt(u, cb)
             x == Entry(u, cb, e.text)
             f == IF d THEN "delivered" ELSE "undelivered"
  <2>2. Fault(f) /\ conf' = conf
    BY <2>1 DEF SendFails
  <2>3. Survived /\ "oprot" \notin conf /\ faults' # <<>> /\ ~d
    <3>1. Survived /\ "oprot" \notin conf /\ faults' # <<>>
          /\ (f = "restart" \/ f = "undelivered")
      <4> HIDE DEF f
      <4> QED BY <1>0, <2>2, FaultSurvives
    <3> QED BY <3>1
  <2>4. /\ Rejoin(u, due, kept)
        /\ file' = [file EXCEPT ![u] = e.rprot]
        /\ rprot' = [rprot EXCEPT ![u] = file'[u]]
        /\ seen' = seen /\ lost' = lost
    BY <2>1, <2>3 DEF SendFails, RprotDe, Start
  <2>5. Makes(rprot[u], x, e.rprot)
    <3>1. e = e2eEncrypt(u, cb) /\ x = Entry(u, cb, e.text)
      OBVIOUS
    <3> HIDE DEF e, x
    <3> QED BY <1>0, <3>1, EncryptMakes
  <2> HIDE DEF e, x
  <2>6. rprot'[u] = e.rprot /\ rprot'[Peer(u)] = rprot[Peer(u)]
    BY <1>0, <2>4
  <2>7. /\ kept' \in Seq(Entries) /\ Thins(kept', kept) /\ due'[u] = kept'
        /\ due'[Peer(u)] = due[Peer(u)]
    BY <1>0, <2>4, RejoinDoes
  <2>8. \A g \in Marks : Flag(u, g)' <=> Flag(u, g)
    BY <2>5, <2>6 DEF Flag, Makes
  <2>9. /\ rprot'[u].outKey = rprot[u].outKey
        /\ rprot'[u].inKey = rprot[u].inKey
        /\ rprot'[u].outSec = rprot[u].outSec
        /\ rprot'[u].ephPK = rprot[u].ephPK
        /\ Flag(u, "SENT_IN") => rprot'[u].inSec = rprot[u].inSec
        /\ Flag(u, "SENT_OUT") => rprot'[u].ephSK = rprot[u].ephSK
    BY <2>5, <2>6 DEF Flag, Makes
  <2> QED BY <2>3, <2>4, <2>6, <2>7, <2>8, <2>9 DEF Rejoins
<1> QED BY <1>1, <1>2, <1>3

-----------------------------------------------------------------------------
(* The lengths of the keys, and the places of the messages.                *)
LEMMA Lengths ==
  ASSUME Types, "rprot" \in conf
  PROVE  /\ \A w \in Users :
              /\ rprot[w].outKey \in Seq(Part) /\ rprot[w].inKey \in Seq(Part)
              /\ Len(rprot[w].outKey) \in Nat /\ Len(rprot[w].inKey) \in Nat
         /\ \A e \in Entries :
              /\ e.from \in Users /\ e.text.key \in Seq(Part)
              /\ Place(e) \in Nat /\ After(e) \in Nat
              /\ Place(e) <= After(e)
              /\ Logged(e) => Place(e) < After(e)
         /\ Range(kept) \subseteq Entries /\ Logs \subseteq Range(kept)
         /\ \A w \in Users : Range(due[w]) \subseteq Entries
<1>1. \A w \in Users :
        rprot[w].outKey \in Seq(Part) /\ rprot[w].inKey \in Seq(Part)
  BY DEF Types, RState
<1>2. ASSUME NEW e \in Entries
      PROVE  /\ e.from \in Users /\ e.text.key \in Seq(Part)
             /\ Place(e) \in Nat /\ After(e) \in Nat
             /\ Place(e) <= After(e)
             /\ Logged(e) => Place(e) < After(e)
  <2>1. e.from \in Users /\ e.text.key \in Seq(Part)
    BY DEF Entries, Text
  <2>2. Place(e) \in Nat
    BY <2>1 DEF Place
  <2> QED BY <2>1, <2>2 DEF After
<1>3. \A s \in Seq(Part) : Len(s) \in Nat
  OBVIOUS
<1>4. kept \in Seq(Entries) /\ \A w \in Users : due[w] \in Seq(Entries)
  BY DEF Types
<1> HIDE DEF Entries
<1>5. /\ Range(kept) \subseteq Entries
      /\ \A w \in Users : Range(due[w]) \subseteq Entries
  BY <1>4, RangeIn
<1> QED BY <1>1, <1>2, <1>3, <1>5 DEF Logs, LoggedOnes

(* A message fits its sender's key as that grows on.                       *)
LEMMA FitsGrown ==
  ASSUME NEW e, NEW key, NEW more, Len(key) \in Nat, Len(more) \in Nat,
         Place(e) \in Nat, After(e) \in Nat,
         FitsKey(e, key), PartOfKey(key, more)
  PROVE  FitsKey(e, more)
<1>1. Len(key) <= Len(more) /\ \A i \in 1 .. Len(key) : key[i] = more[i]
  BY DEF PartOfKey
<1>2. PartOfKey(e.text.key, more)
  BY PartOfPart DEF FitsKey, Place
<1>3. After(e) <= Len(more)
  BY <1>1 DEF FitsKey
<1>4. ASSUME Logged(e)
      PROVE  more[Place(e) + 1] = Hash
  <2>1. Place(e) + 1 <= After(e)
    BY <1>4 DEF After
  <2>2. Place(e) + 1 \in 1 .. Len(key)
    BY <2>1 DEF FitsKey
  <2> QED BY <1>1, <1>4, <2>2 DEF FitsKey
<1>5. ASSUME Logged(e), Said(e, "RATCHET_READY")
      PROVE  more[Place(e) + 3] = Hash /\ ~Said(e, "SENT_OUT")
  <2>1. Place(e) + 3 <= After(e)
    BY <1>5 DEF After
  <2>2. Place(e) + 3 \in 1 .. Len(key)
    BY <2>1 DEF FitsKey
  <2> QED BY <1>1, <1>5, <2>2 DEF FitsKey
<1> QED BY <1>2, <1>3, <1>4, <1>5 DEF FitsKey

(* An exchange is where it was, if nothing that it depends on has changed. *)
LEMMA ExchangeStays ==
  ASSUME NEW w \in Users, Exchange(w),
         Offers(w)' = Offers(w), Answers(w)' = Answers(w),
         Flag(w, "SENT_OUT")' <=> Flag(w, "SENT_OUT"),
         Flag(w, "RATCHET_READY")' <=> Flag(w, "RATCHET_READY"),
         Flag(Peer(w), "SENT_IN")' <=> Flag(Peer(w), "SENT_IN"),
         Flag(w, "SENT_OUT") => rprot'[w].ephSK = rprot[w].ephSK,
         Flag(w, "RATCHET_READY") => rprot'[w].outSec = rprot[w].outSec,
         Flag(Peer(w), "SENT_IN") =>
           rprot'[Peer(w)].inSec = rprot[Peer(w)].inSec,
         rprot'[Peer(w)].ephPK = rprot[Peer(w)].ephPK,
         \A e \in Offers(w) : Said(e, "RATCHET_READY") =>
           rprot'[w].outKey[Place(e) + 2] = rprot[w].outKey[Place(e) + 2]
  PROVE  Exchange(w)'
<1>1. CASE Idle(w)
  <2>1. Idle(w)'
    BY <1>1 DEF Idle
  <2> QED BY <2>1 DEF Exchange
<1>2. CASE Offered(w)
  <2>1. Offered(w)'
    BY <1>2 DEF Offered
  <2> QED BY <2>1 DEF Exchange
<1>3. CASE Taken(w)
  <2>1. Taken(w)'
    BY <1>3 DEF Taken
  <2> QED BY <2>1 DEF Exchange
<1>4. CASE Answered(w)
  <2>1. Answered(w)'
    BY <1>4 DEF Answered
  <2> QED BY <2>1 DEF Exchange
<1> QED BY <1>1, <1>2, <1>3, <1>4 DEF Exchange

(* What a send leaves that is not logged, and what one leaves that is.     *)
LEMMA SendsFacts ==
  ASSUME Types, "rprot" \in conf, InStep, NEW u \in Users, NEW x,
         Sends(u, x)
  PROVE  /\ x \in Entries /\ x.from = u /\ Place(x) = Len(rprot[u].outKey)
         /\ x.text.key = rprot[u].outKey
         /\ rprot'[u].inKey = rprot[u].inKey
         /\ rprot'[u].ephPK = rprot[u].ephPK
         /\ rprot'[Peer(u)] = rprot[Peer(u)]
         /\ \A f \in Marks : Said(x, f) <=> Flag(u, f)
         /\ Flag(u, "SENT_IN") => rprot'[u].inSec = rprot[u].inSec
         /\ Flag(u, "SENT_OUT") => rprot'[u].ephSK = rprot[u].ephSK
         /\ Len(rprot'[u].outKey) \in Nat
         /\ PartOfKey(rprot[u].outKey, rprot'[u].outKey)
         /\ Len(rprot'[u].outKey) = After(x)
         /\ FitsKey(x, rprot'[u].outKey)
         /\ ~Logged(x) =>
              /\ rprot'[u].outKey = rprot[u].outKey
              /\ rprot'[u].outSec = rprot[u].outSec
              /\ rprot'[u].inSec = rprot[u].inSec
              /\ rprot'[u].ephSK = rprot[u].ephSK
              /\ \A f \in Marks : Flag(u, f)' <=> Flag(u, f)
         /\ Logged(x) =>
              /\ Flag(u, "SENT_IN")' /\ Flag(u, "SENT_OUT")'
              /\ ~Flag(u, "RATCHET_READY")'
              /\ ~Flag(u, "SENT_IN") =>
                   x.text.ctrl.newSecret =
                     [for |-> rprot[u].ephPK, secret |-> rprot'[u].inSec]
              /\ ~Flag(u, "SENT_OUT") =>
                   x.text.ctrl.newEPK = rprot'[u].ephSK
              /\ Flag(u, "RATCHET_READY") =>
                   rprot'[u].outKey[Place(x) + 2] = rprot[u].outSec
<1>1. /\ x \in Entries /\ x.from = u
      /\ rprot'[Peer(u)] = rprot[Peer(u)]
  BY DEF Sends
<1>2. PICK q : /\ Makes(rprot[u], x, q)
               /\ rprot'[u].inKey = q.inKey /\ rprot'[u].inSec = q.inSec
               /\ rprot'[u].ephPK = q.ephPK /\ rprot'[u].ephSK = q.ephSK
               /\ ~Logged(x) => rprot'[u] = q
               /\ Logged(x) =>
                    /\ Grown(q.outKey, rprot'[u].outKey,
                             "RATCHET_READY" \in q.status, q.outSec)
                    /\ Flag(u, "SENT_IN")' /\ Flag(u, "SENT_OUT")'
                    /\ ~Flag(u, "RATCHET_READY")'
  BY DEF Sends
<1>3. /\ x.text.key = rprot[u].outKey /\ Place(x) = Len(rprot[u].outKey)
      /\ Place(x) \in Nat /\ 1 <= Place(x)
  BY <1>1, <1>2, Lengths DEF Makes, Place, InStep, KeysFollow
<1>4. /\ rprot'[u].inKey = rprot[u].inKey /\ rprot'[u].ephPK = rprot[u].ephPK
      /\ \A f \in Marks : Said(x, f) <=> Flag(u, f)
      /\ Flag(u, "SENT_IN") => rprot'[u].inSec = rprot[u].inSec
      /\ Flag(u, "SENT_OUT") => rprot'[u].ephSK = rprot[u].ephSK
  BY <1>2 DEF Makes, Flag
<1>5. /\ ~Logged(x) =>
              /\ rprot'[u].outKey = rprot[u].outKey
              /\ rprot'[u].outSec = rprot[u].outSec
              /\ rprot'[u].inSec = rprot[u].inSec
              /\ rprot'[u].ephSK = rprot[u].ephSK
              /\ \A f \in Marks : Flag(u, f)' <=> Flag(u, f)
  BY <1>2 DEF Makes, Flag
<1>6. /\ Logged(x) =>
              /\ Flag(u, "SENT_IN")' /\ Flag(u, "SENT_OUT")'
              /\ ~Flag(u, "RATCHET_READY")'
              /\ ~Flag(u, "SENT_IN") =>
                   x.text.ctrl.newSecret =
                     [for |-> rprot[u].ephPK, secret |-> rprot'[u].inSec]
              /\ ~Flag(u, "SENT_OUT") =>
                   x.text.ctrl.newEPK = rprot'[u].ephSK
  BY <1>2 DEF Makes, Flag
<1>7. Logged(x) => Grown(rprot[u].outKey, rprot'[u].outKey,
                         Said(x, "RATCHET_READY"), rprot[u].outSec)
  <2>1. ("RATCHET_READY" \in q.status) = Said(x, "RATCHET_READY")
    BY <1>2 DEF Makes, Marks, Said
  <2> QED BY <1>2, <2>1 DEF Makes
<1> DEFINE k == rprot[u].outKey
           l == rprot'[u].outKey
           ready == Said(x, "RATCHET_READY")
<1>a. Logged(x) => /\ PartOfKey(k, l) /\ l[Len(k) + 1] = Hash
                   /\ ready => /\ Len(l) = Len(k) + 3
                               /\ l[Len(k) + 2] = rprot[u].outSec
                               /\ l[Len(k) + 3] = Hash
                   /\ ~ready => Len(l) = Len(k) + 1
  <2> HIDE DEF k, l, ready
  <2> SUFFICES ASSUME Logged(x), Grown(k, l, ready, rprot[u].outSec)
               PROVE  /\ PartOfKey(k, l) /\ l[Len(k) + 1] = Hash
                      /\ ready => /\ Len(l) = Len(k) + 3
                                  /\ l[Len(k) + 2] = rprot[u].outSec
                                  /\ l[Len(k) + 3] = Hash
                      /\ ~ready => Len(l) = Len(k) + 1
    BY <1>7 DEF k, l, ready
  <2> QED BY DEF Grown
<1>8. /\ PartOfKey(k, l) /\ Len(l) = After(x)
  <2>1. CASE ~Logged(x)
    BY <1>3, <1>5, <2>1 DEF After, PartOfKey
  <2>2. CASE Logged(x)
    <3> HIDE DEF k, l
    <3>1. Place(x) = Len(k)
      BY <1>3 DEF k
    <3> QED BY <1>3, <1>a, <2>2, <3>1 DEF After
  <2> QED BY <2>1, <2>2
<1>9. Len(rprot'[u].outKey) \in Nat
  BY <1>1, <1>8, Lengths
<1>10. Flag(u, "RATCHET_READY") => ~Flag(u, "SENT_OUT")
  BY DEF InStep, Exchange, Idle, Offered, Taken, Answered
<1>11. FitsKey(x, rprot'[u].outKey)
  <2>1. Said(x, "RATCHET_READY") => ~Said(x, "SENT_OUT")
    BY <1>4, <1>10 DEF Marks
  <2> QED BY <1>3, <1>a, <1>8, <1>9, <2>1 DEF FitsKey
<1>12. Logged(x) /\ Flag(u, "RATCHET_READY") =>
         rprot'[u].outKey[Place(x) + 2] = rprot[u].outSec
  BY <1>3, <1>4, <1>a DEF Marks
<1> QED BY <1>1, <1>3, <1>4, <1>5, <1>6, <1>8, <1>9, <1>11, <1>12

(* The messages there are after it, and those the peer has to read.        *)
LEMMA SendsLogs ==
  ASSUME Types, "rprot" \in conf, InStep, NEW u \in Users, NEW x,
         Sends(u, x)
  PROVE  /\ Range(kept') = Range(kept) \cup {x}
         /\ Range(due'[Peer(u)]) = Range(due[Peer(u)]) \cup {x}
         /\ due'[u] = due[u]
         /\ LogsOf(Peer(u))' = LogsOf(Peer(u)) /\ Unread(u)' = Unread(u)
         /\ ~Logged(x) =>
              LogsOf(u)' = LogsOf(u) /\ Unread(Peer(u))' = Unread(Peer(u))
         /\ Logged(x) => /\ LogsOf(u)' = LogsOf(u) \cup {x}
                         /\ Unread(Peer(u))' = Unread(Peer(u)) \cup {x}
<1>0. Peer(u) \in Users /\ Peer(u) # u /\ Peer(Peer(u)) = u
  BY TwoUsers
<1>1. /\ x \in Entries /\ x.from = u /\ Place(x) = Len(rprot[u].outKey)
      /\ rprot'[u].inKey = rprot[u].inKey /\ rprot'[Peer(u)] = rprot[Peer(u)]
  BY SendsFacts
<1>2. /\ Range(kept') = Range(kept) \cup {x}
      /\ Range(due'[Peer(u)]) = Range(due[Peer(u)]) \cup {x}
      /\ due'[u] = due[u]
  BY <1>0, <1>1, PostedKept DEF Sends
<1>3. /\ ~Logged(x) => Logs' = Logs
      /\ Logged(x) => Logs' = Logs \cup {x}
  BY <1>2 DEF Logs, LoggedOnes
<1> HIDE DEF Logs
<1>4. /\ LogsOf(Peer(u))' = LogsOf(Peer(u))
      /\ ~Logged(x) => LogsOf(u)' = LogsOf(u)
      /\ Logged(x) => LogsOf(u)' = LogsOf(u) \cup {x}
  BY <1>0, <1>1, <1>3 DEF LogsOf
<1>5. Len(rprot[Peer(u)].inKey) <= Place(x)
  BY <1>0, <1>1 DEF InStep, KeysFollow, PartOfKey
<1> HIDE DEF LogsOf
<1>6. Unread(u)' = Unread(u)
  BY <1>0, <1>1, <1>4 DEF Unread
<1>7. /\ ~Logged(x) => Unread(Peer(u))' = Unread(Peer(u))
      /\ Logged(x) => Unread(Peer(u))' = Unread(Peer(u)) \cup {x}
  <2>1. Place(x) >= Len(rprot[Peer(u)].inKey)
    BY <1>0, <1>1, <1>5, Lengths
  <2> QED BY <1>0, <1>1, <1>4, <2>1 DEF Unread
<1> QED BY <1>2, <1>4, <1>6, <1>7

(* The messages of each sender stay in order when one more of his is put   *)
(* on.                                                                     *)
LEMMA OrderAppended ==
  ASSUME NEW S, NEW s \in Seq(S), NEW x, InOrder(s),
         \A e \in Range(s) : e.from = x.from => After(e) <= Place(x)
  PROVE  InOrder(Append(s, x))
<1> DEFINE t == Append(s, x)
<1>1. /\ Len(s) \in Nat /\ DOMAIN s = 1 .. Len(s)
      /\ DOMAIN t = 1 .. Len(s) + 1
      /\ \A i \in 1 .. Len(s) : t[i] = s[i] /\ s[i] \in Range(s)
      /\ t[Len(s) + 1] = x
  <2>1. s \in Seq(S \cup {x})
    BY SeqMonotonic
  <2> QED BY <2>1 DEF Range
<1> HIDE DEF t
<1>2. ASSUME NEW i \in DOMAIN t, NEW j \in DOMAIN t, i < j,
             t[i].from = t[j].from
      PROVE  After(t[i]) <= Place(t[j])
  <2>1. i \in 1 .. Len(s)
    BY <1>1, <1>2
  <2>2. CASE j = Len(s) + 1
    <3>1. t[i] = s[i] /\ s[i] \in Range(s) /\ t[j] = x
      BY <1>1, <2>1, <2>2
    <3> QED BY <1>2, <3>1
  <2>3. CASE j # Len(s) + 1
    <3>1. j \in 1 .. Len(s)
      BY <1>1, <2>3
    <3>2. t[i] = s[i] /\ t[j] = s[j] /\ i \in DOMAIN s /\ j \in DOMAIN s
      BY <1>1, <2>1, <3>1
    <3> QED BY <1>2, <3>2 DEF InOrder
  <2> QED BY <2>2, <2>3
<1>3. InOrder(t)
  BY <1>2 DEF InOrder
<1> QED BY <1>3 DEF t

(* And when the first is taken off, which came before all the others.      *)
LEMMA OrderTail ==
  ASSUME NEW S, NEW s \in Seq(S), s # <<>>, InOrder(s)
  PROVE  /\ InOrder(Tail(s))
         /\ \A e \in Range(Tail(s)) :
              e.from = Head(s).from => After(Head(s)) <= Place(e)
<1> DEFINE t == Tail(s)
<1>1. /\ Len(s) \in Nat /\ 1 <= Len(s) /\ DOMAIN s = 1 .. Len(s)
      /\ DOMAIN t = 1 .. Len(s) - 1 /\ Head(s) = s[1]
      /\ \A i \in 1 .. Len(s) - 1 : t[i] = s[i + 1]
  BY RangeTail
<1>2. \A i \in DOMAIN t : /\ i \in Int /\ i + 1 \in DOMAIN s /\ 1 < i + 1
                          /\ t[i] = s[i + 1]
  <2> HIDE DEF t
  <2> QED BY <1>1
<1>3. 1 \in DOMAIN s
  BY <1>1
<1> HIDE DEF t
<1>4. InOrder(t)
  <2> SUFFICES ASSUME NEW i \in DOMAIN t, NEW j \in DOMAIN t, i < j,
                      t[i].from = t[j].from
               PROVE  After(t[i]) <= Place(t[j])
    BY DEF InOrder
  <2>1. i + 1 < j + 1
    BY <1>2
  <2> QED BY <1>2, <2>1 DEF InOrder
<1>5. ASSUME NEW e \in Range(t), e.from = Head(s).from
      PROVE  After(Head(s)) <= Place(e)
  <2>1. PICK i \in DOMAIN t : e = t[i]
    BY DEF Range
  <2> QED BY <1>1, <1>2, <1>3, <1>5, <2>1 DEF InOrder
<1> QED BY <1>4, <1>5 DEF t

(* And those that a pruned log still has.                                  *)
LEMMA OrderThinned ==
  ASSUME NEW log, NEW l, Thins(l, log), InOrder(log)
  PROVE  InOrder(l)
BY DEF Thins, InOrder

(* When a message is sent, the keys and the messages still follow each     *)
(* other.                                                                  *)
LEMMA SendsFollow ==
  ASSUME Types, "rprot" \in conf, InStep, NEW u \in Users, NEW x,
         Sends(u, x)
  PROVE  KeysFollow' /\ MessagesFit' /\ Ordered'
<1> DEFINE v == Peer(u)
<1>0. /\ v \in Users /\ v # u /\ Peer(v) = u /\ Peer(u) = v
      /\ \A w \in Users : w = u \/ w = v
  BY TwoUsers
<1> HIDE DEF v
<1>1. /\ x \in Entries /\ x.from = u /\ Place(x) = Len(rprot[u].outKey)
      /\ rprot'[u].inKey = rprot[u].inKey /\ rprot'[v] = rprot[v]
      /\ Len(rprot'[u].outKey) \in Nat
      /\ PartOfKey(rprot[u].outKey, rprot'[u].outKey)
      /\ FitsKey(x, rprot'[u].outKey)
  BY <1>0, SendsFacts, ZenonT(60)
<1>2. /\ Range(kept') = Range(kept) \cup {x}
      /\ Range(due'[v]) = Range(due[v]) \cup {x} /\ due'[u] = due[u]
  BY <1>0, SendsLogs
<1>3. KeysFollow /\ MessagesFit /\ Ordered
  BY DEF InStep
<1>4. /\ \A w \in Users :
           Len(rprot[w].outKey) \in Nat /\ Len(rprot[w].inKey) \in Nat
      /\ \A e \in Range(kept) \cup Range(due[u]) \cup Range(due[v]) :
           /\ e \in Entries /\ e.from \in Users
           /\ Place(e) \in Nat /\ After(e) \in Nat
  BY <1>0, Lengths
<1>5. KeysFollow'
  <2>1. /\ 1 <= Len(rprot[u].outKey) /\ rprot[u].outKey[1] = Root(u)
        /\ 1 <= Len(rprot[u].inKey)
        /\ PartOfKey(rprot[u].inKey, rprot[v].outKey)
        /\ 1 <= Len(rprot[v].outKey) /\ rprot[v].outKey[1] = Root(v)
        /\ 1 <= Len(rprot[v].inKey)
        /\ PartOfKey(rprot[v].inKey, rprot[u].outKey)
    BY <1>0, <1>3 DEF KeysFollow
  <2>2. 1 <= Len(rprot'[u].outKey) /\ rprot'[u].outKey[1] = Root(u)
    <3>1. 1 \in 1 .. Len(rprot[u].outKey)
      BY <1>4, <2>1
    <3> QED BY <1>1, <1>4, <2>1, <3>1 DEF PartOfKey
  <2>3. PartOfKey(rprot'[v].inKey, rprot'[u].outKey)
    <3>1. PartOfKey(rprot[v].inKey, rprot'[u].outKey)
      BY <1>0, <1>1, <1>4, <2>1, PartOfPart
    <3> QED BY <1>1, <3>1
  <2>4. PartOfKey(rprot'[u].inKey, rprot'[v].outKey)
    BY <1>1, <2>1
  <2> QED BY <1>0, <1>1, <2>1, <2>2, <2>3, <2>4 DEF KeysFollow
<1>6. \A e \in Range(kept) \cup Range(due[u]) \cup Range(due[v]) \cup {x} :
        FitsKey(e, rprot'[e.from].outKey)
  <2> SUFFICES ASSUME NEW e \in Range(kept) \cup Range(due[u])
                                  \cup Range(due[v])
               PROVE  FitsKey(e, rprot'[e.from].outKey)
    BY <1>1
  <2>1. FitsKey(e, rprot[e.from].outKey)
    BY <1>0, <1>3 DEF MessagesFit
  <2>2. CASE e.from = u
    BY <1>0, <1>1, <1>4, <2>1, <2>2, FitsGrown
  <2>3. CASE e.from = v
    BY <1>1, <2>1, <2>3
  <2> QED BY <1>0, <1>4, <2>2, <2>3
<1>7. MessagesFit'
  BY <1>0, <1>2, <1>6 DEF MessagesFit
<1>8. Ordered'
  <2>1. \A e \in Range(kept) \cup Range(due[v]) :
          e.from = x.from => After(e) <= Place(x)
    BY <1>0, <1>1, <1>3 DEF MessagesFit, FitsKey
  <2>2. /\ kept' = Append(kept, x) /\ due'[v] = Append(due[v], x)
    <3>1. kept' = Append(kept, x) /\ due' = Posted(u, x)
      BY DEF Sends
    <3> QED BY <1>0, <1>1, <3>1, PostedKept
  <2>3. kept \in Seq(Entries) /\ due[v] \in Seq(Entries)
    BY <1>0 DEF Types
  <2>4. InOrder(kept) /\ InOrder(due[v]) /\ InOrder(due[u])
    BY <1>0, <1>3 DEF Ordered
  <2>5. InOrder(Append(kept, x)) /\ InOrder(Append(due[v], x))
    <3> HIDE DEF Entries
    <3> QED BY <2>1, <2>3, <2>4, OrderAppended
  <2>6. InOrder(kept') /\ InOrder(due'[v]) /\ InOrder(due'[u])
    BY <1>2, <2>2, <2>4, <2>5
  <2>7. \A w \in Users : InOrder(due'[w])
    BY <1>0, <2>6
  <2> QED BY <2>6, <2>7 DEF Ordered, InOrder
<1> QED BY <1>5, <1>7, <1>8

(* A message that is sent is at the place that the key had reached, and is *)
(* still to be read.                                                       *)
LEMMA SendsReach ==
  ASSUME Types, "rprot" \in conf, InStep, NEW u \in Users, NEW x,
         Sends(u, x)
  PROVE  NoneMissing' /\ StillSent' /\ OldSeen' /\ AllNew'
<1> DEFINE v == Peer(u)
<1>0. /\ v \in Users /\ v # u /\ Peer(v) = u /\ Peer(u) = v
      /\ \A w \in Users : w = u \/ w = v
  BY TwoUsers
<1> HIDE DEF v
<1>1. /\ x \in Entries /\ x.from = u /\ Place(x) = Len(rprot[u].outKey)
      /\ rprot'[u].inKey = rprot[u].inKey /\ rprot'[v] = rprot[v]
      /\ Len(rprot'[u].outKey) = After(x)
      /\ ~Logged(x) => rprot'[u].outKey = rprot[u].outKey
  BY <1>0, SendsFacts, ZenonT(60)
<1>2. /\ Range(kept') = Range(kept) \cup {x}
      /\ Range(due'[v]) = Range(due[v]) \cup {x} /\ due'[u] = due[u]
      /\ LogsOf(v)' = LogsOf(v) /\ Unread(u)' = Unread(u)
      /\ ~Logged(x) => LogsOf(u)' = LogsOf(u) /\ Unread(v)' = Unread(v)
      /\ Logged(x) => /\ LogsOf(u)' = LogsOf(u) \cup {x}
                      /\ Unread(v)' = Unread(v) \cup {x}
  BY <1>0, SendsLogs
<1>3. NoneMissing /\ StillSent /\ OldSeen /\ AllNew
  BY DEF InStep
<1>4. seen' = seen /\ faults' = faults
  BY DEF Sends
<1>5. /\ Len(rprot[v].inKey) \in Nat /\ Len(rprot[v].inKey) <= Place(x)
      /\ Place(x) \in Nat
  BY <1>0, <1>1, Lengths DEF InStep, KeysFollow, PartOfKey
<1>6. NoneMissing'
  <2>1. \A n : Reaches(v, n) => Reaches(v, n)'
    BY <1>1, <1>2 DEF Reaches
  <2>2. \A n : Reaches(u, n) => Reaches(u, n)'
    <3>1. CASE Logged(x)
      BY <1>1, <1>2, <3>1 DEF Reaches
    <3>2. CASE ~Logged(x)
      BY <1>1, <1>2, <3>2 DEF Reaches
    <3> QED BY <3>1, <3>2
  <2>3. Reaches(u, After(x))'
    BY <1>1 DEF Reaches
  <2>4. /\ Reaches(v, Len(rprot[u].inKey)) /\ Reaches(u, Len(rprot[v].inKey))
        /\ \A e \in LogsOf(v) : Reaches(v, After(e))
        /\ \A e \in LogsOf(u) : Reaches(u, After(e))
    BY <1>0, <1>3 DEF NoneMissing
  <2>5. /\ \A e \in LogsOf(v)' : Reaches(v, After(e))'
        /\ \A e \in LogsOf(u)' : Reaches(u, After(e))'
    BY <1>2, <2>1, <2>2, <2>3, <2>4
  <2>6. Reaches(v, Len(rprot[u].inKey))' /\ Reaches(u, Len(rprot[v].inKey))'
    BY <1>1, <2>1, <2>2, <2>4 DEF Reaches
  <2> QED BY <1>0, <2>5, <2>6 DEF NoneMissing
<1>7. StillSent'
  <2>1. /\ Unread(v)' \subseteq Range(due'[v])
        /\ Unread(u)' \subseteq Range(due'[u])
    BY <1>0, <1>2, <1>3 DEF StillSent
  <2>2. \A e \in Range(kept') :
          /\ e.from = v => e.id \in seen[u] \/ e \in Range(due'[u])
          /\ e.from = u => e.id \in seen[v] \/ e \in Range(due'[v])
    BY <1>0, <1>1, <1>2, <1>3 DEF StillSent
  <2> QED BY <1>0, <1>4, <2>1, <2>2 DEF StillSent
<1>8. OldSeen'
  <2>1. \A e \in Range(kept') \cup Range(due'[v]) :
          e.from = u /\ Place(e) < Len(rprot'[v].inKey) => e.id \in seen'[v]
    BY <1>0, <1>1, <1>2, <1>3, <1>4, <1>5 DEF OldSeen
  <2>2. \A e \in Range(kept') \cup Range(due'[u]) :
          e.from = v /\ Place(e) < Len(rprot'[u].inKey) => e.id \in seen'[u]
    BY <1>0, <1>1, <1>2, <1>3, <1>4 DEF OldSeen
  <2> QED BY <1>0, <2>1, <2>2 DEF OldSeen
<1>9. AllNew'
  <2> SUFFICES ASSUME faults = <<>>
               PROVE  \A w \in Users : \A e \in Range(due'[w]) :
                        e.from = Peer(w) /\ Place(e) >= Len(rprot'[w].inKey)
    BY <1>4 DEF AllNew
  <2>1. \A e \in Range(due'[u]) :
          e.from = v /\ Place(e) >= Len(rprot'[u].inKey)
    BY <1>0, <1>1, <1>2, <1>3 DEF AllNew
  <2>2. \A e \in Range(due'[v]) :
          e.from = u /\ Place(e) >= Len(rprot'[v].inKey)
    BY <1>0, <1>1, <1>2, <1>3, <1>5 DEF AllNew
  <2> QED BY <1>0, <2>1, <2>2
<1> QED BY <1>6, <1>7, <1>8, <1>9

(* It brings an exchange a step further, or leaves it where it was.        *)
LEMMA SendsExchange ==
  ASSUME Types, "rprot" \in conf, InStep, NEW u \in Users, NEW x,
         Sends(u, x)
  PROVE  Exchange(u)' /\ Exchange(Peer(u))'
<1> DEFINE v == Peer(u)
<1>0. /\ v \in Users /\ v # u /\ Peer(v) = u /\ Peer(u) = v
  BY TwoUsers
<1> HIDE DEF v
<1>1. /\ x \in Entries /\ x.from = u /\ Place(x) = Len(rprot[u].outKey)
      /\ rprot'[u].inKey = rprot[u].inKey /\ rprot'[v] = rprot[v]
      /\ rprot'[u].ephPK = rprot[u].ephPK
      /\ PartOfKey(rprot[u].outKey, rprot'[u].outKey)
      /\ Said(x, "SENT_IN") <=> Flag(u, "SENT_IN")
      /\ Said(x, "SENT_OUT") <=> Flag(u, "SENT_OUT")
      /\ Said(x, "RATCHET_READY") <=> Flag(u, "RATCHET_READY")
      /\ Flag(u, "SENT_IN") => rprot'[u].inSec = rprot[u].inSec
      /\ Flag(u, "SENT_OUT") => rprot'[u].ephSK = rprot[u].ephSK
  BY <1>0, SendsFacts, ZenonT(60) DEF Marks
<1>2. /\ Unread(u)' = Unread(u)
      /\ ~Logged(x) => Unread(v)' = Unread(v)
      /\ Logged(x) => Unread(v)' = Unread(v) \cup {x}
  BY <1>0, SendsLogs
<1>3. Exchange(u) /\ Exchange(v)
  BY <1>0 DEF InStep
<1>4. \A f : Flag(v, f)' <=> Flag(v, f)
  BY <1>1 DEF Flag
<1>5. Offers(v)' = Offers(v) /\ Answers(u)' = Answers(u)
  BY <1>0, <1>2 DEF Offers, Answers
<1>6. CASE ~Logged(x)
  <2>1. /\ rprot'[u].outKey = rprot[u].outKey
        /\ rprot'[u].outSec = rprot[u].outSec
        /\ rprot'[u].inSec = rprot[u].inSec
        /\ rprot'[u].ephSK = rprot[u].ephSK
        /\ Flag(u, "SENT_IN")' <=> Flag(u, "SENT_IN")
        /\ Flag(u, "SENT_OUT")' <=> Flag(u, "SENT_OUT")
        /\ Flag(u, "RATCHET_READY")' <=> Flag(u, "RATCHET_READY")
    BY <1>6, SendsFacts DEF Marks
  <2>2. Offers(u)' = Offers(u) /\ Answers(v)' = Answers(v)
    BY <1>0, <1>2, <1>6 DEF Offers, Answers
  <2>3. Exchange(u)'
    BY <1>0, <1>1, <1>3, <1>4, <1>5, <2>1, <2>2, ExchangeStays
  <2>4. Exchange(v)'
    BY <1>0, <1>1, <1>3, <1>4, <1>5, <2>1, <2>2, ExchangeStays
  <2> QED BY <1>0, <2>3, <2>4
<1>7. CASE Logged(x)
  <2>1. /\ Flag(u, "SENT_IN")' /\ Flag(u, "SENT_OUT")'
        /\ ~Flag(u, "RATCHET_READY")'
        /\ ~Flag(u, "SENT_IN") =>
             x.text.ctrl.newSecret =
               [for |-> rprot[u].ephPK, secret |-> rprot'[u].inSec]
        /\ ~Flag(u, "SENT_OUT") => x.text.ctrl.newEPK = rprot'[u].ephSK
        /\ Flag(u, "RATCHET_READY") =>
             rprot'[u].outKey[Place(x) + 2] = rprot[u].outSec
    BY <1>7, SendsFacts
  <2>2. ASSUME Flag(u, "SENT_OUT")
        PROVE  Exchange(u)'
    <3>1. Offers(u)' = Offers(u)
      BY <1>0, <1>1, <1>2, <1>7, <2>2 DEF Offers
    <3>2. ~Flag(u, "RATCHET_READY")
      BY <1>3, <2>2 DEF Exchange, Idle, Offered, Taken, Answered
    <3>3. \A e \in Offers(u) : Said(e, "RATCHET_READY") =>
            rprot'[u].outKey[Place(e) + 2] = rprot[u].outKey[Place(e) + 2]
      <4> SUFFICES ASSUME NEW e \in Offers(u), Said(e, "RATCHET_READY")
                   PROVE  rprot'[u].outKey[Place(e) + 2] =
                            rprot[u].outKey[Place(e) + 2]
        OBVIOUS
      <4>1. e \in Logs /\ e.from = u
        BY <1>0 DEF Offers, Unread, LogsOf
      <4>2. e \in Range(kept) /\ e \in Entries /\ Logged(e)
        BY <4>1, Lengths DEF Logs, LoggedOnes
      <4>3. FitsKey(e, rprot[u].outKey)
        BY <4>1, <4>2 DEF InStep, MessagesFit
      <4>4. Place(e) \in Nat /\ Len(rprot[u].outKey) \in Nat
        BY <4>2, Lengths
      <4>5. Place(e) + 3 <= Len(rprot[u].outKey)
        BY <4>2, <4>3, <4>4 DEF FitsKey, After
      <4>6. Place(e) + 2 \in 1 .. Len(rprot[u].outKey)
        BY <4>4, <4>5
      <4> QED BY <1>1, <4>6 DEF PartOfKey
    <3> QED BY <1>0, <1>1, <1>3, <1>4, <1>5, <2>1, <2>2, <3>1, <3>2, <3>3,
               ExchangeStays
  <2>3. ASSUME ~Flag(u, "SENT_OUT")
        PROVE  Exchange(u)'
    <3>1. Idle(u)
      BY <1>3, <2>3 DEF Exchange, Offered, Taken, Answered
    <3>2. Offers(u)' = {x}
      BY <1>0, <1>1, <1>2, <1>7, <2>3, <3>1 DEF Offers, Idle
    <3>3. /\ x.text.ctrl.newEPK = rprot'[u].ephSK
          /\ Said(x, "RATCHET_READY") =>
               rprot'[u].outKey[Place(x) + 2] = rprot'[v].inSec
      BY <1>0, <1>1, <2>1, <2>3, <3>1 DEF Idle
    <3>4. Flag(v, "SENT_IN")' /\ Answers(u)' = {}
      BY <1>0, <1>4, <1>5, <3>1 DEF Idle
    <3>5. Offered(u)'
      BY <1>0, <2>1, <3>2, <3>3, <3>4 DEF Offered
    <3> QED BY <3>5 DEF Exchange
  <2>4. ASSUME Flag(u, "SENT_IN")
        PROVE  Exchange(v)'
    <3>1. Answers(v)' = Answers(v)
      BY <1>0, <1>1, <1>2, <1>7, <2>4 DEF Answers
    <3> QED BY <1>0, <1>1, <1>3, <1>4, <1>5, <2>1, <2>4, <3>1, ExchangeStays
  <2>5. ASSUME ~Flag(u, "SENT_IN")
        PROVE  Exchange(v)'
    <3>1. Taken(v)
      BY <1>0, <1>3, <2>5 DEF Exchange, Idle, Offered, Answered
    <3>2. Answers(v)' = {x}
      BY <1>0, <1>1, <1>2, <1>7, <2>5, <3>1 DEF Answers, Taken
    <3>3. x.text.ctrl.newSecret =
            [for |-> rprot'[v].ephSK, secret |-> rprot'[u].inSec]
      BY <1>0, <1>1, <2>1, <2>5, <3>1 DEF Taken
    <3>4. /\ Flag(v, "SENT_OUT")' /\ ~Flag(v, "RATCHET_READY")'
          /\ Offers(v)' = {}
      BY <1>0, <1>4, <1>5, <3>1 DEF Taken
    <3>5. Answered(v)'
      BY <1>0, <2>1, <3>2, <3>3, <3>4 DEF Answered
    <3> QED BY <3>5 DEF Exchange
  <2>6. Exchange(u)'
    BY <2>2, <2>3
  <2>7. Exchange(v)'
    BY <2>4, <2>5
  <2> QED BY <1>0, <2>6, <2>7
<1> QED BY <1>6, <1>7

(* The start of a proxy keeps the ratchets in step.                        *)
LEMMA RejoinsKeep ==
  ASSUME Types, "rprot" \in conf, InStep, NEW u \in Users, Rejoins(u)
  PROVE  InStep'
<1> DEFINE v == Peer(u)
<1>0. /\ v \in Users /\ v # u /\ Peer(v) = u /\ Peer(u) = v
      /\ \A w \in Users : w = u \/ w = v
  BY TwoUsers
<1> HIDE DEF v
<1>1. /\ Thins(kept', kept) /\ due'[u] = kept' /\ due'[v] = due[v]
      /\ seen' = seen /\ faults' # <<>> /\ rprot'[v] = rprot[v]
      /\ rprot'[u].outKey = rprot[u].outKey
      /\ rprot'[u].inKey = rprot[u].inKey
      /\ rprot'[u].outSec = rprot[u].outSec
      /\ rprot'[u].ephPK = rprot[u].ephPK
      /\ Flag(u, "SENT_IN")' <=> Flag(u, "SENT_IN")
      /\ Flag(u, "SENT_OUT")' <=> Flag(u, "SENT_OUT")
      /\ Flag(u, "RATCHET_READY")' <=> Flag(u, "RATCHET_READY")
      /\ Flag(u, "SENT_IN") => rprot'[u].inSec = rprot[u].inSec
      /\ Flag(u, "SENT_OUT") => rprot'[u].ephSK = rprot[u].ephSK
  BY <1>0 DEF Rejoins, Marks
<1>2. /\ Range(kept') \subseteq Range(kept) /\ Logs' = Logs
      /\ Logs \subseteq Range(kept')
  BY <1>1 DEF Thins, Logs, LoggedOnes
<1>3. /\ \A w \in Users : rprot'[w].outKey = rprot[w].outKey
      /\ \A w \in Users : rprot'[w].inKey = rprot[w].inKey
  BY <1>0, <1>1
<1>4. \A w \in Users : LogsOf(w)' = LogsOf(w) /\ Unread(w)' = Unread(w)
  <2>1. \A w \in Users : LogsOf(w)' = LogsOf(w)
    BY <1>2 DEF LogsOf
  <2> QED BY <1>0, <1>3, <2>1 DEF Unread
<1>5. /\ KeysFollow /\ MessagesFit /\ Ordered /\ NoneMissing /\ StillSent
      /\ OldSeen /\ Exchange(u) /\ Exchange(v)
  BY <1>0 DEF InStep
<1>6. KeysFollow'
  BY <1>0, <1>3, <1>5 DEF KeysFollow
<1>7. MessagesFit'
  <2>1. /\ \A e \in Range(kept) : FitsKey(e, rprot[e.from].outKey)
        /\ \A e \in Range(due[v]) : FitsKey(e, rprot[e.from].outKey)
    BY <1>0, <1>5 DEF MessagesFit
  <2>2. \A e \in Range(kept) \cup Range(due[v]) : e.from \in Users
    BY <1>0, Lengths
  <2>3. \A e \in Range(kept) \cup Range(due[v]) :
          FitsKey(e, rprot'[e.from].outKey)
    BY <1>3, <2>1, <2>2
  <2>4. \A w \in Users : \A e \in Range(due'[w]) :
          e \in Range(kept) \cup Range(due[v])
    BY <1>0, <1>1, <1>2
  <2> QED BY <1>2, <2>3, <2>4 DEF MessagesFit
<1>8. Ordered'
  <2>1. InOrder(kept') /\ InOrder(due[v])
    BY <1>0, <1>1, <1>5, OrderThinned DEF Ordered
  <2>2. \A w \in Users : InOrder(due'[w])
    BY <1>0, <1>1, <2>1
  <2> QED BY <2>1, <2>2 DEF Ordered, InOrder
<1>9. NoneMissing'
  <2>1. \A w \in Users : \A n : Reaches(w, n)' <=> Reaches(w, n)
    BY <1>3, <1>4 DEF Reaches
  <2>2. \A w \in Users : Peer(w) \in Users
    BY <1>0
  <2>3. \A w \in Users : Reaches(Peer(w), Len(rprot[w].inKey))'
    <3> SUFFICES ASSUME NEW w \in Users
                 PROVE  Reaches(Peer(w), Len(rprot[w].inKey))'
      OBVIOUS
    <3>1. Reaches(Peer(w), Len(rprot[w].inKey))
      BY <1>5 DEF NoneMissing
    <3> QED BY <1>3, <1>4, <2>2, <3>1 DEF Reaches
  <2> QED BY <1>4, <1>5, <2>1, <2>2, <2>3 DEF NoneMissing
<1>10. StillSent'
  <2>1. /\ Unread(u) \subseteq Range(due'[u])
        /\ Unread(v) \subseteq Range(due'[v])
    BY <1>0, <1>1, <1>2, <1>5 DEF StillSent, Unread, LogsOf
  <2>2. \A e \in Range(kept') :
          /\ e.from = v => e.id \in seen[u] \/ e \in Range(due'[u])
          /\ e.from = u => e.id \in seen[v] \/ e \in Range(due'[v])
    BY <1>0, <1>1, <1>2, <1>5 DEF StillSent
  <2> QED BY <1>0, <1>1, <1>4, <2>1, <2>2 DEF StillSent
<1>11. OldSeen'
  <2>1. /\ Range(due'[u]) \subseteq Range(kept)
        /\ Range(due'[v]) \subseteq Range(due[v])
    BY <1>1, <1>2
  <2> QED BY <1>0, <1>1, <1>2, <1>3, <1>5, <2>1 DEF OldSeen
<1>12. AllNew'
  BY <1>1 DEF AllNew
<1>13. Exchange(u)'
  <2>1. Offers(u)' = Offers(u) /\ Answers(u)' = Answers(u)
    BY <1>0, <1>4 DEF Offers, Answers
  <2>2. \A f : Flag(v, f)' <=> Flag(v, f)
    BY <1>1 DEF Flag
  <2> QED BY <1>0, <1>1, <1>5, <2>1, <2>2, ExchangeStays
<1>14. Exchange(v)'
  <2>1. Offers(v)' = Offers(v) /\ Answers(v)' = Answers(v)
    BY <1>0, <1>4 DEF Offers, Answers
  <2>2. \A f : Flag(v, f)' <=> Flag(v, f)
    BY <1>1 DEF Flag
  <2> QED BY <1>0, <1>1, <1>5, <2>1, <2>2, ExchangeStays
<1>15. \A w \in Users : Exchange(w)'
  BY <1>0, <1>13, <1>14
<1> QED BY <1>6, <1>7, <1>8, <1>9, <1>10, <1>11, <1>12, <1>15 DEF InStep

(* So a send keeps the ratchets in step.                                   *)
LEMMA SendsKeep ==
  ASSUME Types, "rprot" \in conf, InStep, NEW u \in Users, NEW x,
         Sends(u, x)
  PROVE  InStep'
<1>1. \A w \in Users : w = u \/ w = Peer(u)
  BY TwoUsers
<1>2. Exchange(u)' /\ Exchange(Peer(u))'
  BY SendsExchange
<1>3. \A w \in Users : Exchange(w)'
  BY <1>1, <1>2
<1> QED BY <1>3, SendsFollow, SendsReach DEF InStep

(* The message that is read is the first of those sent to its reader.      *)
LEMMA ReadsFirst ==
  ASSUME Types, Relay, "rprot" \in conf, InStep, NEW u \in Users, NEW e,
         Reads(u, e)
  PROVE  /\ e \in Range(due[u]) /\ e \in Entries /\ e.from \in Users
         /\ Logged(e) => e \in Logs
         /\ FitsKey(e, rprot[e.from].outKey)
         /\ due'[u] = Tail(due[u]) /\ due'[Peer(u)] = due[Peer(u)]
         /\ Range(due[u]) = {e} \cup Range(due'[u])
         /\ \A f \in Range(due'[u]) : f.from = e.from => After(e) <= Place(f)
         /\ InOrder(due'[u])
<1>0. Peer(u) \in Users /\ Peer(u) # u
  BY TwoUsers
<1>1. /\ due[u] # <<>> /\ e = Head(due[u])
      /\ due' = [due EXCEPT ![u] = Tail(@)]
      /\ due \in [Users -> Seq(Entries)]
  BY DEF Reads, Types
<1>2. /\ due[u] \in Seq(Entries) /\ due'[u] = Tail(due[u])
      /\ due'[Peer(u)] = due[Peer(u)]
  BY <1>0, <1>1
<1>3. InOrder(due[u])
  BY DEF InStep, Ordered
<1> HIDE DEF Entries
<1>4. /\ e \in Range(due[u]) /\ e \in Entries
      /\ Range(due[u]) = {e} \cup Range(Tail(due[u]))
  BY <1>1, <1>2, RangeTail
<1>5. /\ InOrder(Tail(due[u]))
      /\ \A f \in Range(Tail(due[u])) : f.from = e.from => After(e) <= Place(f)
  BY <1>1, <1>2, <1>3, OrderTail
<1>6. e.from \in Users
  BY <1>4, Lengths
<1>7. (Logged(e) => e \in Logs) /\ FitsKey(e, rprot[e.from].outKey)
  BY <1>4 DEF Relay, InStep, MessagesFit
<1> QED BY <1>2, <1>4, <1>5, <1>6, <1>7

(* It opens when its reader has not had it, and an answer opens with the   *)
(* key that it was made for.                                               *)
LEMMA ReadsWhat ==
  ASSUME Types, Relay, "rprot" \in conf, InStep, NEW u \in Users, NEW e,
         Reads(u, e)
  PROVE  /\ e.text.key = rprot[u].inKey =>
              e.from = Peer(u) /\ Place(e) = Len(rprot[u].inKey)
         /\ e.text.key # rprot[u].inKey /\ e.from = Peer(u) =>
              Place(e) < Len(rprot[u].inKey) /\ e.id \in seen[u]
         /\ Opens(u, e) => e \in Unread(u)
         /\ Opens(u, e) /\ ~Said(e, "SENT_IN") =>
              /\ Answered(u) /\ Answers(u) = {e}
              /\ e.text.ctrl.newSecret.for = rprot[u].ephSK
              /\ e.text.ctrl.newSecret.secret = rprot[Peer(u)].inSec
         /\ Opens(u, e) /\ ~Said(e, "SENT_OUT") =>
              Offered(Peer(u)) /\ Offers(Peer(u)) = {e}
<1> DEFINE v == Peer(u)
<1>0. /\ v \in Users /\ v # u /\ Peer(v) = u /\ Peer(u) = v
      /\ \A w \in Users : w = u \/ w = v
  BY TwoUsers
<1> HIDE DEF v
<1>1. /\ e \in Range(due[u]) /\ e \in Entries /\ e.from \in Users
      /\ Logged(e) => e \in Logs
      /\ FitsKey(e, rprot[e.from].outKey)
      /\ Range(due[u]) = {e} \cup Range(due'[u])
      /\ \A f \in Range(due'[u]) : f.from = e.from => After(e) <= Place(f)
  BY ReadsFirst
<1>2. /\ rprot[u].inKey \in Seq(Part) /\ e.text.key \in Seq(Part)
      /\ rprot[u].outKey \in Seq(Part) /\ rprot[v].outKey \in Seq(Part)
      /\ Len(rprot[u].inKey) \in Nat /\ Len(rprot[v].outKey) \in Nat
      /\ Place(e) \in Nat /\ After(e) \in Nat /\ Place(e) <= After(e)
      /\ Logged(e) => Place(e) < After(e)
  BY <1>0, <1>1, Lengths
<1>3. /\ 1 <= Len(rprot[u].inKey) /\ PartOfKey(rprot[u].inKey, rprot[v].outKey)
      /\ rprot[u].outKey[1] = Root(u) /\ rprot[v].outKey[1] = Root(v)
  BY <1>0 DEF InStep, KeysFollow
<1>4. /\ 1 <= Place(e) /\ PartOfKey(e.text.key, rprot[e.from].outKey)
      /\ After(e) <= Len(rprot[e.from].outKey)
  BY <1>1 DEF FitsKey
<1>5. ASSUME e.from = u
      PROVE  e.text.key # rprot[u].inKey
  <2>1. 1 \in 1 .. Place(e) /\ 1 \in 1 .. Len(rprot[u].inKey)
    BY <1>2, <1>3, <1>4
  <2>2. e.text.key[1] = Root(u) /\ rprot[u].inKey[1] = Root(v)
    BY <1>3, <1>4, <1>5, <2>1 DEF PartOfKey, Place
  <2>3. Root(u) # Root(v)
    BY <1>0 DEF Root
  <2> QED BY <2>2, <2>3
<1>6. ASSUME e.from = v
      PROVE  /\ Place(e) <= Len(rprot[u].inKey)
             /\ Place(e) = Len(rprot[u].inKey) => e.text.key = rprot[u].inKey
  <2>1. Place(e) <= Len(rprot[u].inKey)
    <3> SUFFICES ASSUME Place(e) > Len(rprot[u].inKey)
                 PROVE  FALSE
      BY <1>2
    <3>1. Reaches(v, Len(rprot[u].inKey))
      BY <1>0 DEF InStep, NoneMissing
    <3>2. Len(rprot[u].inKey) # Len(rprot[v].outKey)
      BY <1>2, <1>4, <1>6
    <3>3. PICK f \in LogsOf(v) : Place(f) = Len(rprot[u].inKey)
      BY <3>1, <3>2 DEF Reaches
    <3>4. f \in Unread(u)
      BY <1>0, <1>2, <3>3 DEF Unread
    <3>5. f \in Range(due[u]) /\ f.from = v
      BY <3>3, <3>4 DEF InStep, StillSent, LogsOf
    <3>6. f # e
      BY <1>2, <3>3
    <3>7. After(e) <= Place(f)
      BY <1>1, <1>6, <3>5, <3>6
    <3> QED BY <1>2, <3>3, <3>7
  <2>2. ASSUME Place(e) = Len(rprot[u].inKey)
        PROVE  e.text.key = rprot[u].inKey
    <3>1. Len(e.text.key) = Len(rprot[u].inKey)
      BY <2>2 DEF Place
    <3>2. PartOfKey(e.text.key, rprot[v].outKey)
      BY <1>4, <1>6
    <3> HIDE DEF Part
    <3> QED BY <1>2, <1>3, <3>1, <3>2, SameParts
  <2> QED BY <2>1, <2>2
<1>7. e.text.key = rprot[u].inKey =>
        e.from = v /\ Place(e) = Len(rprot[u].inKey)
  BY <1>0, <1>1, <1>5 DEF Place
<1>8. e.text.key # rprot[u].inKey /\ e.from = v =>
        Place(e) < Len(rprot[u].inKey) /\ e.id \in seen[u]
  <2> SUFFICES ASSUME e.text.key # rprot[u].inKey, e.from = v
               PROVE  Place(e) < Len(rprot[u].inKey) /\ e.id \in seen[u]
    OBVIOUS
  <2>1. Place(e) < Len(rprot[u].inKey)
    BY <1>2, <1>6
  <2> QED BY <1>0, <1>1, <2>1 DEF InStep, OldSeen
<1>9. Opens(u, e) => e \in Unread(u)
  <2> SUFFICES ASSUME Opens(u, e)
               PROVE  e \in Unread(u)
    OBVIOUS
  <2>1. e \in Logs /\ e.from = v /\ Place(e) = Len(rprot[u].inKey)
    BY <1>1, <1>7 DEF Opens
  <2> QED BY <1>0, <1>2, <2>1 DEF Unread, LogsOf
<1>10. Exchange(u) /\ Exchange(v)
  BY <1>0 DEF InStep
<1>11. ASSUME Opens(u, e), ~Said(e, "SENT_IN")
       PROVE  /\ Answered(u) /\ Answers(u) = {e}
              /\ e.text.ctrl.newSecret.for = rprot[u].ephSK
              /\ e.text.ctrl.newSecret.secret = rprot[v].inSec
  <2>1. e \in Answers(u)
    BY <1>9, <1>11 DEF Answers
  <2>2. Answered(u)
    BY <1>10, <2>1 DEF Exchange, Idle, Offered, Taken
  <2>3. /\ Answers(u) = {e}
        /\ e.text.ctrl.newSecret =
             [for |-> rprot[u].ephSK, secret |-> rprot[v].inSec]
    BY <1>0, <2>1, <2>2 DEF Answered
  <2> QED BY <2>2, <2>3
<1>12. ASSUME Opens(u, e), ~Said(e, "SENT_OUT")
       PROVE  Offered(v) /\ Offers(v) = {e}
  <2>1. e \in Offers(v)
    BY <1>0, <1>9, <1>12 DEF Offers
  <2>2. Offered(v)
    BY <1>10, <2>1 DEF Exchange, Idle, Answered, Taken
  <2> QED BY <2>1, <2>2 DEF Offered
<1> QED BY <1>0, <1>7, <1>8, <1>9, <1>11, <1>12

(* What the key becomes that it opens with, and what is left to read.      *)
LEMMA OpensFacts ==
  ASSUME Types, Relay, "rprot" \in conf, InStep, NEW u \in Users, NEW e,
         Reads(u, e), Opens(u, e)
  PROVE  /\ Len(rprot'[u].inKey) = After(e) /\ Place(e) < After(e)
         /\ PartOfKey(rprot[u].inKey, rprot'[u].inKey)
         /\ PartOfKey(rprot'[u].inKey, rprot[Peer(u)].outKey)
         /\ \A w \in Users : LogsOf(w)' = LogsOf(w)
         /\ Unread(u)' = Unread(u) \ {e} /\ Unread(Peer(u))' = Unread(Peer(u))
<1> DEFINE v == Peer(u)
<1>0. v \in Users /\ v # u /\ Peer(v) = u /\ Peer(u) = v
  BY TwoUsers
<1> HIDE DEF v
<1>1. /\ e \in Entries /\ FitsKey(e, rprot[e.from].outKey)
      /\ Range(due[u]) = {e} \cup Range(due'[u])
      /\ \A f \in Range(due'[u]) : f.from = e.from => After(e) <= Place(f)
  BY ReadsFirst
<1>2. /\ e.from = v /\ Place(e) = Len(rprot[u].inKey) /\ e \in Unread(u)
      /\ ~Said(e, "SENT_OUT") => Offered(v) /\ Offers(v) = {e}
  BY <1>0, ReadsWhat DEF Opens
<1>3. /\ Takes(rprot[u], e.text.ctrl, rprot'[u]) /\ Logged(e)
      /\ kept' = kept /\ rprot'[v] = rprot[v]
  BY <1>0 DEF Reads, Opens
<1>4. /\ Len(rprot[u].inKey) \in Nat /\ Len(rprot[v].outKey) \in Nat
      /\ Place(e) \in Nat /\ After(e) \in Nat /\ Place(e) < After(e)
  BY <1>0, <1>1, <1>3, Lengths
<1> DEFINE k == rprot[u].inKey
           l == rprot'[u].inKey
           key == rprot[v].outKey
           ready == Said(e, "RATCHET_READY")
           s == rprot[u].inSec
<1>5. Grown(k, l, ready, s)
  BY <1>3 DEF Takes, Said
<1>6. ready \in BOOLEAN
  BY DEF Said
<1>7. /\ PartOfKey(k, key) /\ After(e) <= Len(key) /\ key[Len(k) + 1] = Hash
      /\ ready => key[Len(k) + 2] = s /\ key[Len(k) + 3] = Hash
  <2>1. PartOfKey(k, key)
    BY <1>0 DEF InStep, KeysFollow
  <2>2. /\ After(e) <= Len(key) /\ key[Place(e) + 1] = Hash
        /\ ready => key[Place(e) + 3] = Hash /\ ~Said(e, "SENT_OUT")
    BY <1>1, <1>2, <1>3 DEF FitsKey
  <2>3. ready => key[Place(e) + 2] = s
    BY <1>0, <1>2, <2>2 DEF Offered
  <2> QED BY <1>2, <2>1, <2>2, <2>3
<1>8. Place(e) = Len(k) /\ Len(k) \in Nat /\ Len(key) \in Nat
  BY <1>2, <1>4
<1>9. After(e) = Place(e) + (IF ready THEN 3 ELSE 1)
  BY <1>3 DEF After
<1> HIDE DEF k, l, key, ready, s
<1>10. PartOfKey(k, l) /\ Len(l) = After(e)
  BY <1>5, <1>8, <1>9 DEF Grown
<1>11. PartOfKey(l, key)
  BY <1>4, <1>5, <1>6, <1>7, <1>8, <1>10, GrownFits
<1>12. Logs' = Logs
  BY <1>3 DEF Logs, LoggedOnes
<1>13. \A w \in Users : LogsOf(w)' = LogsOf(w)
  BY <1>12 DEF LogsOf
<1>14. Unread(v)' = Unread(v)
  BY <1>0, <1>3, <1>13 DEF Unread
<1>15. Unread(u)' = Unread(u) \ {e}
  <2>1. Unread(u)' = {f \in LogsOf(v) : Place(f) >= After(e)}
    BY <1>0, <1>10, <1>13 DEF Unread, l
  <2>2. \A f \in LogsOf(v) : Place(f) \in Nat /\ f.from = v
    BY Lengths DEF LogsOf
  <2>3. ASSUME NEW f \in Unread(u), f # e
        PROVE  f \in LogsOf(v) /\ Place(f) >= After(e)
    <3>1. f \in LogsOf(v) /\ f \in Range(due[u])
      BY <1>0 DEF Unread, InStep, StillSent
    <3> QED BY <1>1, <1>2, <1>4, <2>2, <2>3, <3>1
  <2>4. ASSUME NEW f \in LogsOf(v), Place(f) >= After(e)
        PROVE  f \in Unread(u) /\ f # e
    <3>1. Place(f) >= Len(rprot[u].inKey) /\ f # e
      BY <1>2, <1>4, <2>2, <2>4
    <3> QED BY <1>0, <3>1 DEF Unread
  <2> QED BY <2>1, <2>3, <2>4
<1> QED BY <1>0, <1>4, <1>10, <1>11, <1>13, <1>14, <1>15 DEF k, l, key

(* A message that is read moves nothing, or moves the key and the exchange *)
(* that it is part of.                                                     *)
LEMMA ReadsReach ==
  ASSUME Types, Relay, "rprot" \in conf, InStep, NEW u \in Users, NEW e,
         Reads(u, e), seen \in [Users -> SUBSET IdSet]
  PROVE  /\ KeysFollow' /\ MessagesFit' /\ Ordered' /\ NoneMissing'
         /\ StillSent' /\ OldSeen' /\ AllNew'
<1> DEFINE v == Peer(u)
<1>0. /\ v \in Users /\ v # u /\ Peer(v) = u /\ Peer(u) = v
      /\ \A w \in Users : w = u \/ w = v
  BY TwoUsers
<1> HIDE DEF v
<1>1. /\ e \in Range(due[u]) /\ e \in Entries /\ e.from \in Users
      /\ Logged(e) => e \in Logs
      /\ due'[v] = due[v] /\ Range(due[u]) = {e} \cup Range(due'[u])
      /\ \A f \in Range(due'[u]) : f.from = e.from => After(e) <= Place(f)
      /\ InOrder(due'[u])
  BY <1>0, ReadsFirst
<1>2. /\ kept' = kept /\ faults' = faults /\ rprot'[v] = rprot[v]
      /\ seen'[u] = seen[u] \cup {e.id} /\ seen'[v] = seen[v]
  BY <1>0 DEF Reads
<1>3. /\ e.text.key = rprot[u].inKey =>
           e.from = v /\ Place(e) = Len(rprot[u].inKey)
      /\ e.text.key # rprot[u].inKey /\ e.from = v =>
           Place(e) < Len(rprot[u].inKey) /\ e.id \in seen[u]
  BY <1>0, ReadsWhat
<1>4. /\ KeysFollow /\ MessagesFit /\ Ordered /\ NoneMissing /\ StillSent
      /\ OldSeen /\ AllNew
  BY DEF InStep
<1>5. Logs' = Logs /\ \A w \in Users : LogsOf(w)' = LogsOf(w)
  BY <1>2 DEF Logs, LoggedOnes, LogsOf
<1>6. /\ Len(rprot[u].inKey) \in Nat /\ Place(e) \in Nat /\ After(e) \in Nat
      /\ Place(e) <= After(e)
      /\ Logged(e) => Place(e) < After(e)
  BY <1>1, Lengths
<1> DEFINE n == rprot'[u].inKey
<1>7. /\ rprot'[u].outKey = rprot[u].outKey
      /\ Len(n) \in Nat /\ Len(rprot[u].inKey) <= Len(n)
      /\ PartOfKey(n, rprot[v].outKey) /\ Reaches(v, Len(n))
      /\ Unread(v)' = Unread(v)
      /\ Unread(u)' = Unread(u) \ {e}
      /\ Len(n) = IF e.text.key = rprot[u].inKey THEN After(e)
                  ELSE Len(rprot[u].inKey)
  <2>1. CASE Opens(u, e)
    <3>1. rprot'[u].outKey = rprot[u].outKey
      BY <2>1 DEF Reads, Takes
    <3>2. /\ Len(n) = After(e) /\ Place(e) < After(e)
          /\ PartOfKey(n, rprot[v].outKey)
          /\ Unread(v)' = Unread(v) /\ Unread(u)' = Unread(u) \ {e}
      BY <1>0, <2>1, OpensFacts
    <3>3. e \in LogsOf(v)
      BY <1>1, <1>3, <2>1 DEF Opens, LogsOf
    <3>4. Reaches(v, Len(n))
      BY <1>0, <1>4, <3>2, <3>3 DEF NoneMissing
    <3> QED BY <1>3, <1>6, <2>1, <3>1, <3>2, <3>4 DEF Opens
  <2>2. CASE ~Opens(u, e)
    <3>1. rprot'[u] = rprot[u]
      BY <2>2 DEF Reads
    <3>2. e.text.key = rprot[u].inKey =>
            ~Logged(e) /\ After(e) = Len(rprot[u].inKey)
      BY <1>3, <1>6, <2>2 DEF Opens, After
    <3>3. Unread(v)' = Unread(v) /\ Unread(u)' = Unread(u)
      BY <1>0, <1>2, <1>5, <3>1 DEF Unread
    <3>4. e \notin Unread(u)
      <4> SUFFICES ASSUME e \in Unread(u)
                   PROVE  FALSE
        OBVIOUS
      <4>1. e.from = v /\ Logged(e) /\ Place(e) >= Len(rprot[u].inKey)
        BY <1>0 DEF Unread, LogsOf, Logs, LoggedOnes
      <4> QED BY <1>3, <1>6, <2>2, <4>1 DEF Opens
    <3>5. PartOfKey(n, rprot[v].outKey) /\ Reaches(v, Len(n))
      BY <1>0, <1>4, <3>1 DEF KeysFollow, NoneMissing
    <3> QED BY <1>6, <3>1, <3>2, <3>3, <3>4, <3>5
  <2> QED BY <2>1, <2>2
<1> HIDE DEF n
<1>8. KeysFollow'
  <2>1. /\ 1 <= Len(rprot[u].outKey) /\ rprot[u].outKey[1] = Root(u)
        /\ 1 <= Len(rprot[u].inKey)
        /\ 1 <= Len(rprot[v].outKey) /\ rprot[v].outKey[1] = Root(v)
        /\ 1 <= Len(rprot[v].inKey)
        /\ PartOfKey(rprot[v].inKey, rprot[u].outKey)
    BY <1>0, <1>4 DEF KeysFollow
  <2>2. 1 <= Len(n)
    BY <1>6, <1>7, <2>1
  <2> QED BY <1>0, <1>2, <1>7, <2>1, <2>2 DEF KeysFollow, n
<1>9. MessagesFit'
  <2>1. \A w \in Users : rprot'[w].outKey = rprot[w].outKey
    BY <1>0, <1>2, <1>7
  <2>2. /\ \A f \in Range(kept) : f.from \in Users
        /\ \A w \in Users : \A f \in Range(due'[w]) :
             f \in Range(due[w]) /\ f.from \in Users
    BY <1>0, <1>1, Lengths
  <2> QED BY <1>2, <1>4, <2>1, <2>2 DEF MessagesFit
<1>10. Ordered'
  <2>1. InOrder(kept') /\ InOrder(due'[v])
    BY <1>0, <1>1, <1>2, <1>4 DEF Ordered
  <2>2. \A w \in Users : InOrder(due'[w])
    BY <1>0, <1>1, <2>1
  <2> QED BY <2>1, <2>2 DEF Ordered, InOrder
<1>11. NoneMissing'
  <2>1. \A w \in Users : \A m : Reaches(w, m)' <=> Reaches(w, m)
    BY <1>0, <1>2, <1>5, <1>7 DEF Reaches
  <2>2. Reaches(u, Len(rprot[v].inKey)) /\ Reaches(v, Len(n))
    BY <1>0, <1>4, <1>7 DEF NoneMissing
  <2>3. Reaches(u, Len(rprot[v].inKey))' /\ Reaches(v, Len(rprot[u].inKey))'
    BY <1>0, <1>2, <1>5, <1>7, <2>2 DEF Reaches, n
  <2>4. \A w \in Users :
          \A f \in LogsOf(Peer(w))' : Reaches(Peer(w), After(f))'
    BY <1>0, <1>4, <1>5, <2>1 DEF NoneMissing
  <2> QED BY <1>0, <2>3, <2>4 DEF NoneMissing
<1>12. StillSent'
  <2>1. Unread(u)' \subseteq Range(due'[u])
    <3>1. Unread(u) \subseteq Range(due[u])
      BY <1>4 DEF StillSent
    <3> QED BY <1>1, <1>7, <3>1
  <2>2. Unread(v)' \subseteq Range(due'[v])
    BY <1>0, <1>1, <1>4, <1>7 DEF StillSent
  <2>3. \A f \in Range(kept) :
          /\ f.from = v => f.id \in seen'[u] \/ f \in Range(due'[u])
          /\ f.from = u => f.id \in seen'[v] \/ f \in Range(due'[v])
    BY <1>0, <1>1, <1>2, <1>4 DEF StillSent
  <2> QED BY <1>0, <1>2, <2>1, <2>2, <2>3 DEF StillSent
<1>13. OldSeen'
  <2>1. \A f \in Range(kept) \cup Range(due[v]) :
          f.from = u /\ Place(f) < Len(rprot[v].inKey) => f.id \in seen[v]
    BY <1>0, <1>4 DEF OldSeen
  <2>2. ASSUME NEW f \in Range(kept) \cup Range(due'[u]), f.from = v,
               Place(f) < Len(n)
        PROVE  f.id \in seen'[u]
    <3>1. f \in Range(kept) \cup Range(due[u]) /\ Place(f) \in Nat
      <4>1. f \in Range(kept) \cup Range(due[u])
        BY <1>1
      <4> QED BY <4>1, Lengths
    <3>2. CASE Place(f) < Len(rprot[u].inKey)
      BY <1>0, <1>2, <1>4, <2>2, <3>1, <3>2 DEF OldSeen
    <3>3. CASE ~ (Place(f) < Len(rprot[u].inKey))
      <4>1. Len(n) = After(e) /\ e.from = v
        BY <1>3, <1>7, <2>2, <3>3
      <4>2. f \notin Range(due'[u])
        BY <1>1, <1>6, <2>2, <3>1, <4>1
      <4>3. f.id \in seen[u] \/ f = e
        BY <1>0, <1>1, <1>4, <2>2, <3>1, <4>2 DEF StillSent
      <4> QED BY <1>2, <4>3
    <3> QED BY <3>2, <3>3
  <2> QED BY <1>0, <1>1, <1>2, <2>1, <2>2 DEF OldSeen, n
<1>14. AllNew'
  <2> SUFFICES ASSUME faults = <<>>
               PROVE  \A w \in Users : \A f \in Range(due'[w]) :
                        f.from = Peer(w) /\ Place(f) >= Len(rprot'[w].inKey)
    BY <1>2 DEF AllNew
  <2>1. \A f \in Range(due'[v]) :
          f.from = u /\ Place(f) >= Len(rprot'[v].inKey)
    BY <1>0, <1>1, <1>2, <1>4 DEF AllNew
  <2>2. ASSUME NEW f \in Range(due'[u])
        PROVE  f.from = v /\ Place(f) >= Len(n)
    <3>1. f.from = v /\ Place(f) >= Len(rprot[u].inKey) /\ e.from = v
      BY <1>0, <1>1, <1>4 DEF AllNew
    <3>2. After(e) <= Place(f)
      BY <1>1, <3>1
    <3>3. Place(f) \in Nat
      BY <1>1, Lengths
    <3> QED BY <1>6, <1>7, <3>1, <3>2, <3>3
  <2> QED BY <1>0, <2>1, <2>2 DEF n
<1> QED BY <1>8, <1>9, <1>10, <1>11, <1>12, <1>13, <1>14

(* A message that is read brings an exchange a step further too.           *)
LEMMA ReadsExchange ==
  ASSUME Types, Relay, "rprot" \in conf, InStep, NEW u \in Users, NEW e,
         Reads(u, e)
  PROVE  Exchange(u)' /\ Exchange(Peer(u))'
<1> DEFINE v == Peer(u)
<1>0. v \in Users /\ v # u /\ Peer(v) = u /\ Peer(u) = v
  BY TwoUsers
<1> HIDE DEF v
<1>1. Exchange(u) /\ Exchange(v)
  BY <1>0 DEF InStep
<1>2. kept' = kept /\ rprot'[v] = rprot[v]
  BY <1>0 DEF Reads
<1>3. \A f : Flag(v, f)' <=> Flag(v, f)
  BY <1>2 DEF Flag
<1>4. CASE ~Opens(u, e)
  <2>1. rprot'[u] = rprot[u]
    BY <1>4 DEF Reads
  <2>2. \A f : Flag(u, f)' <=> Flag(u, f)
    BY <2>1 DEF Flag
  <2>3. Unread(u)' = Unread(u) /\ Unread(v)' = Unread(v)
    BY <1>0, <1>2, <2>1 DEF Unread, LogsOf, Logs, LoggedOnes
  <2>4. /\ Offers(u)' = Offers(u) /\ Answers(u)' = Answers(u)
        /\ Offers(v)' = Offers(v) /\ Answers(v)' = Answers(v)
    BY <1>0, <2>3 DEF Offers, Answers
  <2>5. Exchange(u)'
    BY <1>0, <1>1, <1>2, <1>3, <2>1, <2>2, <2>4, ExchangeStays
  <2>6. Exchange(v)'
    BY <1>0, <1>1, <1>2, <1>3, <2>1, <2>2, <2>4, ExchangeStays
  <2> QED BY <1>0, <2>5, <2>6
<1>5. CASE Opens(u, e)
  <2>1. Takes(rprot[u], e.text.ctrl, rprot'[u])
    BY <1>5 DEF Reads
  <2>2. Unread(u)' = Unread(u) \ {e} /\ Unread(v)' = Unread(v)
    BY <1>0, <1>5, OpensFacts
  <2>3. /\ Offers(u)' = Offers(u) /\ Answers(v)' = Answers(v)
        /\ Offers(v)' = Offers(v) \ {e} /\ Answers(u)' = Answers(u) \ {e}
    BY <1>0, <2>2 DEF Offers, Answers
  <2>4. rprot'[u].outKey = rprot[u].outKey /\ rprot'[u].ephSK = rprot[u].ephSK
    BY <2>1 DEF Takes
  <2>5. ASSUME Said(e, "SENT_IN")
        PROVE  Exchange(u)'
    <3>1. /\ rprot'[u].outSec = rprot[u].outSec
          /\ Flag(u, "SENT_OUT")' <=> Flag(u, "SENT_OUT")
          /\ Flag(u, "RATCHET_READY")' <=> Flag(u, "RATCHET_READY")
      BY <2>1, <2>5 DEF Takes, Flag, Said
    <3>2. Answers(u)' = Answers(u)
      BY <2>3, <2>5 DEF Answers
    <3> QED BY <1>0, <1>1, <1>2, <1>3, <2>3, <2>4, <3>1, <3>2, ExchangeStays
  <2>6. ASSUME ~Said(e, "SENT_IN")
        PROVE  Exchange(u)'
    <3>1. /\ Answered(u) /\ Answers(u) = {e}
          /\ e.text.ctrl.newSecret.for = rprot[u].ephSK
          /\ e.text.ctrl.newSecret.secret = rprot[v].inSec
      BY <1>0, <1>5, <2>6, ReadsWhat
    <3>2. /\ rprot'[u].outSec = rprot'[v].inSec
          /\ ~Flag(u, "SENT_OUT")'
      BY <1>2, <2>1, <2>6, <3>1 DEF Takes, Flag, Said
    <3>3. /\ Flag(v, "SENT_IN")' /\ Offers(u)' = {} /\ Answers(u)' = {}
      BY <1>0, <1>3, <2>3, <3>1 DEF Answered
    <3>4. Idle(u)'
      BY <1>0, <3>2, <3>3 DEF Idle
    <3> QED BY <3>4 DEF Exchange
  <2>7. ASSUME Said(e, "SENT_OUT")
        PROVE  Exchange(v)'
    <3>1. ~Said(e, "RATCHET_READY")
      <4>1. FitsKey(e, rprot[e.from].outKey)
        BY ReadsFirst
      <4> QED BY <1>5, <2>7, <4>1 DEF FitsKey, Opens
    <3>2. /\ rprot'[u].ephPK = rprot[u].ephPK
          /\ rprot'[u].inSec = rprot[u].inSec
          /\ Flag(u, "SENT_IN")' <=> Flag(u, "SENT_IN")
      BY <2>1, <2>7, <3>1 DEF Takes, Flag, Said
    <3>3. Offers(v)' = Offers(v)
      BY <2>3, <2>7 DEF Offers
    <3> QED BY <1>0, <1>1, <1>2, <1>3, <2>3, <3>2, <3>3, ExchangeStays
  <2>8. ASSUME ~Said(e, "SENT_OUT")
        PROVE  Exchange(v)'
    <3>1. Offered(v) /\ Offers(v) = {e}
      BY <1>0, <1>5, <2>8, ReadsWhat
    <3>2. e.text.ctrl.newEPK = rprot[v].ephSK
      BY <3>1 DEF Offered
    <3>3. rprot'[u].ephPK = rprot'[v].ephSK /\ ~Flag(u, "SENT_IN")'
      BY <1>2, <2>1, <2>8, <3>2 DEF Takes, Flag, Said
    <3>4. /\ Flag(v, "SENT_OUT")' /\ ~Flag(v, "RATCHET_READY")'
          /\ Offers(v)' = {} /\ Answers(v)' = {}
      BY <1>3, <2>3, <3>1 DEF Offered
    <3>5. Taken(v)'
      BY <1>0, <3>3, <3>4 DEF Taken
    <3> QED BY <3>5 DEF Exchange
  <2>9. Exchange(u)' /\ Exchange(v)'
    BY <2>5, <2>6, <2>7, <2>8
  <2> QED BY <1>0, <2>9
<1> QED BY <1>4, <1>5

(* A message that is read keeps the ratchets in step.                      *)
LEMMA ReadsKeep ==
  ASSUME Types, Relay, "rprot" \in conf, InStep, NEW u \in Users, NEW e,
         Reads(u, e), seen \in [Users -> SUBSET IdSet]
  PROVE  InStep'
<1>1. \A w \in Users : w = u \/ w = Peer(u)
  BY TwoUsers
<1>2. Exchange(u)' /\ Exchange(Peer(u))'
  BY ReadsExchange
<1>3. \A w \in Users : Exchange(w)'
  BY <1>1, <1>2
<1> QED BY <1>3, ReadsReach DEF InStep

(* The double ratchet stays in step, whatever is survived.                 *)
LEMMA RatchetsStep ==
  ASSUME Basis, Ratchets, seen \in [Users -> SUBSET IdSet], [Next]_vars
  PROVE  Ratchets'
<1>0. Types /\ Relay
  BY DEF Basis
<1>1. CASE UNCHANGED vars
  <2>1. /\ conf' = conf /\ rprot' = rprot /\ due' = due /\ kept' = kept
        /\ seen' = seen /\ faults' = faults
    BY <1>1 DEF vars, protVars, relayVars, history
  <2>2. \A w \in Users : LogsOf(w)' = LogsOf(w) /\ Unread(w)' = Unread(w)
    BY <2>1 DEF LogsOf, Logs, LoggedOnes, Unread
  <2>3. Survived' <=> Survived
    BY <2>1 DEF Survived
  <2> SUFFICES ASSUME "rprot" \in conf, InStep
               PROVE  InStep'
    BY <2>1, <2>3 DEF Ratchets
  <2>4. KeysFollow' /\ MessagesFit' /\ Ordered'
    BY <2>1 DEF InStep, KeysFollow, MessagesFit, Ordered, InOrder
  <2>5. NoneMissing' /\ OldSeen' /\ AllNew'
    BY <2>1 DEF InStep, NoneMissing, Reaches, OldSeen, AllNew, LogsOf, Logs,
                LoggedOnes
  <2>6. StillSent'
    BY <2>1 DEF InStep, StillSent, Unread, LogsOf, Logs, LoggedOnes
  <2>7. ASSUME NEW w \in Users
        PROVE  Exchange(w)'
    <3>1. Offers(w)' = Offers(w) /\ Answers(w)' = Answers(w)
      BY <2>2, TwoUsers DEF Offers, Answers
    <3>2. \A z, f : Flag(z, f)' <=> Flag(z, f)
      BY <2>1 DEF Flag
    <3>3. Exchange(w)
      BY DEF InStep
    <3> QED BY <2>1, <3>1, <3>2, <3>3, ExchangeStays
  <2> QED BY <2>4, <2>5, <2>6, <2>7 DEF InStep
<1>2. ASSUME NEW u \in Users, NEW cb \in {"LOG", "NOLOG"}, Send(u, cb)
      PROVE  Ratchets'
  <2>1. (Survived' <=> Survived) /\ conf' = conf
    BY <1>2 DEF Send, Survived
  <2> SUFFICES ASSUME "rprot" \in conf, InStep
               PROVE  InStep'
    BY <2>1 DEF Ratchets
  <2>2. Sends(u, Entry(u, cb, e2eEncrypt(u, cb).text))
    BY <1>2, SendSends
  <2> QED BY <1>0, <2>2, SendsKeep
<1>3. ASSUME NEW u \in Users, Receive(u)
      PROVE  Ratchets'
  <2>1. (Survived' <=> Survived) /\ conf' = conf
    BY <1>3 DEF Receive, Survived
  <2> SUFFICES ASSUME "rprot" \in conf, InStep
               PROVE  InStep'
    BY <2>1 DEF Ratchets
  <2>2. Reads(u, Head(due[u]))
    BY <1>3, ReceiveReads
  <2> QED BY <1>0, <2>2, ReadsKeep
<1>4. ASSUME NEW u \in Users,
             \/ Restart(u) \/ Crash(u)
             \/ \E cb \in {"LOG", "NOLOG"}, d \in BOOLEAN : SendFails(u, cb, d)
      PROVE  Ratchets'
  <2>1. conf' = conf
    BY <1>4 DEF Restart, Crash, SendFails
  <2> SUFFICES ASSUME "rprot" \in conf, Survived'
               PROVE  InStep'
    BY <2>1 DEF Ratchets
  <2>2. Rejoins(u) /\ Survived
    BY <1>4, FaultRejoins
  <2>3. InStep
    BY <2>2 DEF Ratchets
  <2> QED BY <1>0, <2>2, <2>3, RejoinsKeep
<1> QED BY <1>1, <1>2, <1>3, <1>4 DEF Next

(* The initial states.                                                     *)
LEMMA RatchetsInit ==
  ASSUME Init
  PROVE  Ratchets
<1> SUFFICES InStep
  BY DEF Ratchets
<1>1. /\ kept = <<>> /\ \A u \in Users : due[u] = <<>>
      /\ faults = <<>>
      /\ \A u \in Users : rprot[u] = RprotMake(u, Peer(u))
  BY DEF Init
<1>2. /\ Range(kept) = {} /\ \A u \in Users : Range(due[u]) = {}
      /\ Logs = {}
  BY <1>1 DEF Range, Logs, LoggedOnes
<1>3. \A u \in Users : LogsOf(u) = {}
  BY <1>2 DEF LogsOf
<1>4. \A u \in Users : Peer(u) \in Users /\ Peer(Peer(u)) = u
  BY TwoUsers
<1>5. \A u \in Users : Unread(u) = {}
  BY <1>3, <1>4 DEF Unread
<1>6. \A u \in Users :
        /\ rprot[u].outKey = <<Root(u)>> /\ rprot[u].inKey = <<Root(Peer(u))>>
        /\ rprot[u].status = {"SENT_IN"}
  <2> SUFFICES ASSUME NEW u \in Users
               PROVE  /\ rprot[u].outKey = <<Root(u)>>
                      /\ rprot[u].inKey = <<Root(Peer(u))>>
                      /\ rprot[u].status = {"SENT_IN"}
    OBVIOUS
  <2>1. rprot[u] = RprotMake(u, Peer(u))
    BY <1>1
  <2> DEFINE k == <<Root(u)>>
             l == <<Root(Peer(u))>>
             s == {"SENT_IN"}
  <2>2. rprot[u] = [status |-> s, outKey |-> k, inKey |-> l, outSec |-> Zero,
                    inSec |-> Zero, ephPK |-> Zero, ephSK |-> Zero]
    BY <2>1 DEF RprotMake
  <2> HIDE DEF k, l, s
  <2>3. rprot[u].status = s /\ rprot[u].outKey = k /\ rprot[u].inKey = l
    BY <2>2
  <2> QED BY <2>3 DEF k, l, s
<1>7. KeysFollow
  <2>1. \A u \in Users : /\ Len(<<Root(u)>>) = 1 /\ <<Root(u)>>[1] = Root(u)
                         /\ PartOfKey(<<Root(u)>>, <<Root(u)>>)
    BY DEF PartOfKey
  <2> SUFFICES ASSUME NEW u \in Users
               PROVE  /\ 1 <= Len(rprot[u].outKey)
                      /\ rprot[u].outKey[1] = Root(u)
                      /\ 1 <= Len(rprot[u].inKey)
                      /\ PartOfKey(rprot[u].inKey, rprot[Peer(u)].outKey)
    BY DEF KeysFollow
  <2>2. /\ rprot[u].outKey = <<Root(u)>>
        /\ rprot[u].inKey = <<Root(Peer(u))>>
        /\ rprot[Peer(u)].outKey = <<Root(Peer(u))>>
    BY <1>4, <1>6
  <2>3. /\ Len(rprot[u].outKey) = 1 /\ rprot[u].outKey[1] = Root(u)
        /\ Len(rprot[u].inKey) = 1
        /\ PartOfKey(rprot[u].inKey, rprot[Peer(u)].outKey)
    BY <1>4, <2>1, <2>2
  <2> QED BY <2>3
<1>8. MessagesFit /\ OldSeen /\ AllNew
  BY <1>2 DEF MessagesFit, OldSeen, AllNew
<1>9. Ordered
  BY <1>1 DEF Ordered, InOrder
<1>10. NoneMissing
  <2>1. \A u \in Users : Len(<<Root(u)>>) = 1
    OBVIOUS
  <2> QED BY <1>3, <1>4, <1>6, <2>1 DEF NoneMissing, Reaches
<1>11. StillSent
  BY <1>2, <1>5 DEF StillSent
<1>12. \A u \in Users : Exchange(u)
  <2>1. \A u \in Users : Offers(u) = {} /\ Answers(u) = {}
    BY <1>4, <1>5 DEF Offers, Answers
  <2>2. \A u \in Users : /\ ~Flag(u, "SENT_OUT") /\ Flag(u, "SENT_IN")
                         /\ ~Flag(u, "RATCHET_READY")
    BY <1>6 DEF Flag
  <2> QED BY <1>4, <2>1, <2>2 DEF Exchange, Idle
<1> QED BY <1>7, <1>8, <1>9, <1>10, <1>11, <1>12 DEF InStep

-----------------------------------------------------------------------------
(* The one-time pad: a text is encrypted with the place where the pad ends *)
(* and the key of that place.                                              *)
LEMMA PadEncrypts ==
  ASSUME Types, "oprot" \in conf, NEW u \in Users,
         NEW cb \in {"LOG", "NOLOG"}, CanEncrypt(u, cb), NEW e,
         e = e2eEncrypt(u, cb), NEW x, x = Entry(u, cb, e.text)
  PROVE  /\ x.from = u /\ Unwrapped(x).key = oprot[u].outKey
         /\ e.oprot.inKey = oprot[u].inKey
         /\ e.oprot.inPlace = oprot[u].inPlace
         /\ ~Logged(x) => e.oprot = oprot[u]
         /\ Logged(x) =>
              /\ Unwrapped(x).pad = oprot[u].outPlace /\ oprot[u].outPlace > 0
              /\ e.oprot.outPlace = oprot[u].outPlace - 1
              /\ e.oprot.outKey =
                   <<oprot[u].outKey[1], oprot[u].outKey[2] + 1>>
<1> DEFINE o == oprot[u]
           p == Padded(u, cb)
           f == Fresh(u)
           r == IF cb = "LOG" THEN RPEncrypt(rprot[u], p.text, f)
                ELSE RPEncryptUnmut(rprot[u], p.text, f)
<1>0. rprot[u] \in RState /\ o \in OState /\ made[u] \in Nat
  BY DEF Types
<1>1. f \in Part
  <2>1. made[u] + 1 \in Nat
    BY <1>0
  <2> QED BY <2>1 DEF Fresh, Part
<1>2. e = [rprot |-> IF "rprot" \notin conf THEN rprot[u] ELSE r.prot,
           oprot |-> p.prot,
           text |-> IF "rprot" \notin conf THEN p.text ELSE r.text]
  BY DEF e2eEncrypt
<1>3. x.from = u /\ x.cb = cb /\ x.text = e.text
  BY DEF Entry
<1>4. r = IF cb = "LOG" THEN RPEncrypt(rprot[u], p.text, f)
          ELSE RPEncryptUnmut(rprot[u], p.text, f)
  OBVIOUS
<1>5. p = IF cb = "LOG" THEN O!OPEncrypt(o, Id(u))
          ELSE O!OPEncryptUnmut(o, Id(u))
  BY DEF Padded
<1>6. cb = "LOG" => o.outPlace > 0
  BY DEF CanEncrypt, O!HasPad
<1>7. o = oprot[u]
  OBVIOUS
<1> HIDE DEF o, p, f, r
<1>8. r.text.text = p.text
  <2>1. r.text = [key |-> rprot[u].outKey, ctrl |-> r.text.ctrl,
                  text |-> p.text]
    BY <1>0, <1>1, <1>4, RPEncryptDoes
  <2> DEFINE c == r.text.ctrl
             k == rprot[u].outKey
  <2>2. r.text = [key |-> k, ctrl |-> c, text |-> p.text]
    BY <2>1
  <2> HIDE DEF c, k
  <2> QED BY <2>2
<1>9. e.oprot = p.prot /\ Unwrapped(x) = p.text
  BY <1>2, <1>3, <1>8 DEF Unwrapped
<1>10. CASE cb = "LOG"
  <2> DEFINE q == [o EXCEPT !.outPlace = @ - 1]
             k == <<o.outKey[1], o.outKey[2] + 1>>
             s == [q EXCEPT !.outKey = k]
  <2>1. p = [prot |-> s, text |-> [key |-> o.outKey, unmut |-> FALSE,
                                   pad |-> o.outPlace, text |-> Id(u)]]
    <3>1. q.outKey = o.outKey
      BY <1>0 DEF OState
    <3> QED BY <1>5, <1>10, <3>1 DEF O!OPEncrypt, O!padText, O!Ratchet
  <2>2. /\ s.outKey = k /\ s.inKey = o.inKey /\ s.inPlace = o.inPlace
        /\ s.outPlace = o.outPlace - 1
    <3> HIDE DEF k
    <3> QED BY <1>0 DEF OState
  <2> HIDE DEF s
  <2>3. p.prot = s /\ p.text.key = o.outKey /\ p.text.pad = o.outPlace
    BY <2>1
  <2>4. Logged(x)
    BY <1>3, <1>10 DEF Logged
  <2>5. k = <<oprot[u].outKey[1], oprot[u].outKey[2] + 1>>
    BY <1>7
  <2> HIDE DEF k
  <2> QED BY <1>3, <1>6, <1>7, <1>9, <1>10, <2>2, <2>3, <2>4, <2>5
<1>11. CASE cb # "LOG"
  <2>1. p = [prot |-> o, text |-> [key |-> o.outKey, unmut |-> TRUE, pad |-> 0,
                                   text |-> Id(u)]]
    BY <1>5, <1>11 DEF O!OPEncryptUnmut
  <2>2. p.prot = o /\ p.text.key = o.outKey
    BY <2>1
  <2>3. ~Logged(x)
    BY <1>3, <1>11 DEF Logged
  <2> QED BY <1>3, <1>7, <1>9, <2>2, <2>3
<1> QED BY <1>10, <1>11

(* And opens at that place, with that key.                                 *)
LEMMA PadDecrypts ==
  ASSUME NEW o \in OState, NEW t \in OText, t.key = o.inKey,
         ~t.unmut => t.pad = o.inPlace /\ t.pad > 0, NEW b,
         b = O!OPDecrypt(o, t)
  PROVE  /\ b.ok /\ b.prot.outKey = o.outKey /\ b.prot.outPlace = o.outPlace
         /\ t.unmut => b.prot = o
         /\ ~t.unmut => /\ b.prot.inKey = <<o.inKey[1], o.inKey[2] + 1>>
                        /\ b.prot.inPlace = o.inPlace - 1
<1>1. CASE t.unmut
  <2>1. b = [ok |-> TRUE, prot |-> o, text |-> t.text]
    BY <1>1 DEF O!OPDecrypt
  <2>2. b.ok /\ b.prot = o
    BY <2>1
  <2> QED BY <1>1, <2>2
<1>2. CASE ~t.unmut
  <2> DEFINE k == <<o.inKey[1], o.inKey[2] + 1>>
             q == [o EXCEPT !.inKey = k]
             s == [q EXCEPT !.inPlace = IF @ > 0 THEN @ - 1 ELSE @]
             y == q.inPlace > 0 /\ q.inPlace = t.pad
  <2>1. b = [ok |-> y, prot |-> s, text |-> t.text]
    BY <1>2 DEF O!OPDecrypt, O!unpadText, O!Ratchet
  <2>2. /\ q.inKey = k /\ q.inPlace = o.inPlace /\ q.outKey = o.outKey
        /\ q.outPlace = o.outPlace
        /\ DOMAIN q = {"outKey", "inKey", "outPlace", "inPlace"}
    <3> HIDE DEF k
    <3> QED BY DEF OState
  <2>3. y /\ o.inPlace > 0
    BY <1>2, <2>2 DEF OState
  <2> HIDE DEF q
  <2>4. /\ s.inKey = k /\ s.inPlace = o.inPlace - 1 /\ s.outKey = o.outKey
        /\ s.outPlace = o.outPlace
    <3> HIDE DEF k
    <3> QED BY <2>2, <2>3
  <2> HIDE DEF s, y
  <2>5. b.ok = y /\ b.prot = s
    BY <2>1
  <2> HIDE DEF k
  <2> QED BY <1>2, <2>3, <2>4, <2>5 DEF k
<1> QED BY <1>1, <1>2

(* The pad survives no fault.                                              *)
LEMMA NoFault ==
  ASSUME Types, Survived, "oprot" \in conf
  PROVE  faults = <<>>
<1>1. faults \in Seq(FaultSet) /\ Range(faults) = {}
  BY DEF Types, Survived
<1>2. faults # <<>> => Head(faults) \in Range(faults)
  BY <1>1, RangeTail
<1> QED BY <1>1, <1>2

(* Without a fault, a message that comes opens.                            *)
LEMMA DueOpens ==
  ASSUME Basis, Ratchets, Pads, Survived, NEW u \in Users, Receive(u), NEW e,
         e = Head(due[u]), NEW r, r = e2eDecrypt(u, e.text)
  PROVE  /\ e.from # u /\ e.id \notin seen[u] => r.ok
         /\ "oprot" \in conf =>
              /\ r.oprot = O!OPDecrypt(oprot[u], Unwrapped(e)).prot
              /\ Unwrapped(e).key = oprot[u].inKey
              /\ Unwrapped(e) \in OText
              /\ ~Unwrapped(e).unmut <=> Logged(e)
              /\ Logged(e) => /\ Unwrapped(e).pad = oprot[u].inPlace
                              /\ Unwrapped(e).pad > 0
<1> DEFINE v == Peer(u)
<1>0. /\ v \in Users /\ v # u /\ Peer(v) = u /\ Peer(u) = v
      /\ \A w \in Users : w = u \/ w = v
  BY TwoUsers
<1> HIDE DEF v
<1>1. Types /\ Relay /\ due[u] # <<>> /\ due[u] \in Seq(Entries)
  BY DEF Basis, Types, Receive
<1>2. /\ e \in Range(due[u]) /\ e \in Entries /\ e = due[u][1]
      /\ 1 \in DOMAIN due[u] /\ Len(due[u]) \in Nat /\ 1 <= Len(due[u])
  <2> HIDE DEF Entries
  <2> QED BY <1>1, RangeTail
<1>3. Carries(e) /\ e.from \in Users
  BY <1>1, <1>2 DEF Relay, Entries
<1>4. ASSUME "rprot" \in conf, e.text.key = rprot[u].inKey
      PROVE  RatchetOpens(u, e)
  <2>1. Reads(u, e) /\ InStep
    BY <1>4, ReceiveReads DEF Ratchets
  <2> QED BY <1>1, <1>4, <2>1, ReadsWhat DEF RatchetOpens, Opens
<1>5. "rprot" \in conf /\ e.text.key # rprot[u].inKey /\ e.from = v =>
        Place(e) < Len(rprot[u].inKey) /\ e.id \in seen[u]
  <2> SUFFICES ASSUME "rprot" \in conf
               PROVE  e.text.key # rprot[u].inKey /\ e.from = v =>
                        Place(e) < Len(rprot[u].inKey) /\ e.id \in seen[u]
    OBVIOUS
  <2>1. Reads(u, e) /\ InStep
    BY ReceiveReads DEF Ratchets
  <2> QED BY <1>0, <1>1, <2>1, ReadsWhat
<1>6. CASE "oprot" \notin conf
  <2>1. e.from # u /\ e.id \notin seen[u] => RatchetOpens(u, e)
    BY <1>0, <1>3, <1>4, <1>5 DEF RatchetOpens
  <2>2. r.ok <=> RatchetOpens(u, e)
    BY <1>1, <1>2, <1>3, <1>6, DecryptLayers
  <2> QED BY <1>6, <2>1, <2>2
<1>7. CASE "oprot" \in conf
  <2>1. faults = <<>>
    BY <1>1, <1>7, NoFault
  <2>2. RatchetOpens(u, e)
    <3> SUFFICES ASSUME "rprot" \in conf
                 PROVE  RatchetOpens(u, e)
      BY DEF RatchetOpens
    <3>1. e.from = v /\ Place(e) >= Len(rprot[u].inKey)
      BY <1>0, <1>2, <2>1 DEF Ratchets, InStep, AllNew
    <3>2. Place(e) \in Nat /\ Len(rprot[u].inKey) \in Nat
      BY <1>1, <1>2, Lengths
    <3> QED BY <1>4, <1>5, <3>1, <3>2
  <2> DEFINE t == Unwrapped(e)
             o == oprot[u]
  <2>3. /\ r.oprot = O!OPDecrypt(o, t).prot /\ (r.ok <=> O!OPDecrypt(o, t).ok)
    BY <1>1, <1>2, <1>3, <1>7, <2>2, DecryptLayers
  <2>4. t \in OText /\ o \in OState /\ (~t.unmut <=> Logged(e))
    BY <1>1, <1>2, <1>3, <1>7
       DEF Unwrapped, Entries, Text, Plain, Carries, Types
  <2>5. PadOf(u)
    BY <1>7 DEF Pads
  <2>6. OnPad(e, v) /\ o.inKey[1] = v /\ o.inPlace + o.inKey[2] = PadLen
    BY <1>0, <1>2, <2>5 DEF PadOf
  <2>7. o.inKey[2] = Count(e)
    <3>1. NextCount(due[u], oprot[v].outKey[2], 0) = Count(due[u][0 + 1])
      BY <1>2 DEF NextCount
    <3>2. o.inKey[2] = NextCount(due[u], oprot[v].outKey[2], 0)
      BY <1>0, <2>5 DEF PadOf
    <3> QED BY <1>2, <3>1, <3>2
  <2>8. t.key = o.inKey
    <3>1. t.key \in Users \X Nat /\ o.inKey \in Users \X Nat
      BY <2>4 DEF OText, OState
    <3>2. t.key[1] = o.inKey[1] /\ t.key[2] = o.inKey[2]
      BY <2>6, <2>7 DEF OnPad, Count
    <3> QED BY <3>1, <3>2
  <2>9. Logged(e) => t.pad = o.inPlace /\ t.pad > 0
    <3>1. t.pad \in Nat /\ o.inPlace \in Nat /\ o.inKey[2] \in Nat
      BY <2>4 DEF OText, OState
    <3>2. Logged(e) => t.pad + o.inKey[2] = PadLen /\ t.pad > 0
      BY <2>6, <2>7 DEF OnPad
    <3> QED BY <2>6, <3>1, <3>2, EndToEndAssumption
  <2>10. O!OPDecrypt(o, t).ok
    <3> HIDE DEF o, t
    <3> QED BY <2>4, <2>8, <2>9, PadDecrypts
  <2> QED BY <2>3, <2>4, <2>8, <2>9, <2>10
<1> QED BY <1>6, <1>7

(* What PadOf says of the next state, with what is due and counted there.  *)
LEMMA PadOfNext ==
  ASSUME conf' = conf, NEW u \in Users, NEW d, d = due'[u], NEW o,
         o = oprot'[u], NEW k, k = oprot'[Peer(u)].outKey[2],
         o.outKey[1] = u /\ o.inKey[1] = Peer(u),
         o.outPlace + o.outKey[2] = PadLen, o.inPlace + o.inKey[2] = PadLen,
         o.inKey[2] = NextCount(d, k, 0),
         \A i \in DOMAIN d : /\ OnPad(d[i], Peer(u))
                             /\ CountAfter(d[i]) = NextCount(d, k, i)
  PROVE  PadOf(u)'
<1>1. PadOf(u)' <=>
        /\ o.outKey[1] = u /\ o.inKey[1] = Peer(u)
        /\ o.outPlace + o.outKey[2] = PadLen
        /\ o.inPlace + o.inKey[2] = PadLen
        /\ o.inKey[2] = NextCount(d, k, 0)'
        /\ \A i \in DOMAIN d : /\ OnPad(d[i], Peer(u))'
                               /\ CountAfter(d[i])' = NextCount(d, k, i)'
  BY ZenonT(60) DEF PadOf, NextCount, OnPad, Count, CountAfter, Unwrapped
<1>2. /\ \A f : /\ Count(f)' = Count(f) /\ CountAfter(f)' = CountAfter(f)
                /\ \A w : OnPad(f, w)' <=> OnPad(f, w)
      /\ \A i : NextCount(d, k, i)' = NextCount(d, k, i)
  BY DEF NextCount, OnPad, Count, CountAfter, Unwrapped
<1> QED BY <1>1, <1>2

(* When one more message is sent it is the last that its reader counts to. *)
LEMMA PadsSend ==
  ASSUME Types, "oprot" \in conf, \A w \in Users : PadOf(w), NEW u \in Users,
         NEW cb \in {"LOG", "NOLOG"}, Send(u, cb)
  PROVE  \A w \in Users : PadOf(w)'
<1> DEFINE v == Peer(u)
           e == e2eEncrypt(u, cb)
           x == Entry(u, cb, e.text)
<1>0. /\ v \in Users /\ v # u /\ Peer(v) = u /\ Peer(u) = v
      /\ \A w \in Users : w = u \/ w = v
  BY TwoUsers
<1> HIDE DEF v
<1>1. /\ CanEncrypt(u, cb) /\ due' = Posted(u, x) /\ conf' = conf
      /\ oprot' = [oprot EXCEPT ![u] = e.oprot]
      /\ oprot \in [Users -> OState] /\ due \in [Users -> Seq(Entries)]
  BY DEF Send, Encrypted, Types
<1>2. x \in Entries
  BY <1>1, Encrypts
<1> DEFINE o == oprot[u]
           q == e.oprot
<1>3. /\ x.from = u /\ Unwrapped(x).key = o.outKey
      /\ q.inKey = o.inKey /\ q.inPlace = o.inPlace
      /\ ~Logged(x) => q = o
      /\ Logged(x) => /\ Unwrapped(x).pad = o.outPlace /\ o.outPlace > 0
                      /\ q.outPlace = o.outPlace - 1
                      /\ q.outKey = <<o.outKey[1], o.outKey[2] + 1>>
  <2>1. e = e2eEncrypt(u, cb) /\ x = Entry(u, cb, e.text)
    OBVIOUS
  <2> HIDE DEF e, x
  <2> QED BY <1>1, <2>1, PadEncrypts
<1> HIDE DEF e, x
<1>4. /\ oprot'[u] = q /\ oprot'[v] = oprot[v]
      /\ due'[u] = due[u] /\ due'[v] = Append(due[v], x)
  <2>1. /\ Posted(u, x)[v] = Append(due[v], x)
        /\ Posted(u, x)[u] = due[u]
    BY <1>0, <1>2, PostedKept
  <2> QED BY <1>0, <1>1, <2>1
<1>5. /\ o.outPlace \in Nat /\ o.outKey[2] \in Nat /\ o.outKey[1] = u
      /\ o.outPlace + o.outKey[2] = PadLen
      /\ o.inKey[1] = v /\ o.inPlace + o.inKey[2] = PadLen
  BY <1>0, <1>1 DEF OState, PadOf
<1>6. /\ q.outKey[1] = u /\ q.outPlace + q.outKey[2] = PadLen
      /\ q.outKey[2] = CountAfter(x) /\ Count(x) = o.outKey[2]
      /\ OnPad(x, u)
  <2>1. CASE Logged(x)
    BY <1>3, <1>5, <2>1 DEF CountAfter, Count, OnPad
  <2>2. CASE ~Logged(x)
    BY <1>3, <1>5, <2>2 DEF CountAfter, Count, OnPad
  <2> QED BY <2>1, <2>2
<1> HIDE DEF q
<1>7. PadOf(u) /\ PadOf(v)
  BY <1>0
<1>8. PadOf(u)'
  <2> DEFINE k == oprot[v].outKey[2]
  <2>1. /\ o.inKey[2] = NextCount(due[u], k, 0)
        /\ \A i \in DOMAIN due[u] :
             /\ OnPad(due[u][i], v)
             /\ CountAfter(due[u][i]) = NextCount(due[u], k, i)
    BY <1>0, <1>7 DEF PadOf
  <2>2. k = oprot'[v].outKey[2]
    BY <1>4
  <2> HIDE DEF k
  <2>3. /\ q.outKey[1] = u /\ q.inKey[1] = Peer(u)
        /\ q.outPlace + q.outKey[2] = PadLen
        /\ q.inPlace + q.inKey[2] = PadLen
        /\ q.inKey[2] = NextCount(due[u], k, 0)
        /\ \A i \in DOMAIN due[u] :
             /\ OnPad(due[u][i], Peer(u))
             /\ CountAfter(due[u][i]) = NextCount(due[u], k, i)
    BY <1>0, <1>3, <1>5, <1>6, <2>1
  <2>4. /\ conf' = conf /\ due[u] = due'[u] /\ q = oprot'[u]
        /\ k = oprot'[Peer(u)].outKey[2]
    BY <1>0, <1>1, <1>4, <2>2
  <2> QED BY <2>3, <2>4, PadOfNext
<1>9. PadOf(v)'
  <2> DEFINE n == Len(due[v])
             d == due'[v]
             k == o.outKey[2]
             j == q.outKey[2]
  <2>1. /\ n \in Nat /\ DOMAIN due[v] = 1 .. n
        /\ Len(d) = n + 1 /\ DOMAIN d = 1 .. n + 1
        /\ \A i \in 1 .. n : d[i] = due[v][i]
        /\ d[n + 1] = x
    <3>1. due[v] \in Seq(Entries)
      BY <1>0, <1>1
    <3> HIDE DEF Entries
    <3> QED BY <1>2, <1>4, <3>1
  <2>2. /\ oprot[v].outKey[1] = v /\ oprot[v].inKey[1] = u
        /\ oprot[v].outPlace + oprot[v].outKey[2] = PadLen
        /\ oprot[v].inPlace + oprot[v].inKey[2] = PadLen
        /\ oprot[v].inKey[2] = NextCount(due[v], k, 0)
        /\ \A i \in 1 .. n :
             /\ OnPad(due[v][i], u)
             /\ CountAfter(due[v][i]) = NextCount(due[v], k, i)
    BY <1>0, <1>7, <2>1 DEF PadOf
  <2>3. j = oprot'[u].outKey[2]
    BY <1>4
  <2>4. d = due'[v]
    OBVIOUS
  <2>5. \A i \in 0 .. n : NextCount(d, j, i) = NextCount(due[v], k, i)
    <3> SUFFICES ASSUME NEW i \in 0 .. n
                 PROVE  NextCount(d, j, i) = NextCount(due[v], k, i)
      OBVIOUS
    <3>1. NextCount(d, j, i) = Count(d[i + 1])
      BY <2>1 DEF NextCount
    <3>2. CASE i = n
      BY <1>6, <2>1, <3>1, <3>2 DEF NextCount
    <3>3. CASE i # n
      <4>1. i + 1 \in 1 .. n
        BY <2>1, <3>3
      <4> QED BY <2>1, <3>1, <3>3, <4>1 DEF NextCount
    <3> QED BY <3>2, <3>3
  <2>6. NextCount(d, j, n + 1) = CountAfter(x)
    BY <1>6, <2>1 DEF NextCount
  <2> HIDE DEF d, n, k, j
  <2>7. \A i \in DOMAIN d :
          OnPad(d[i], u) /\ CountAfter(d[i]) = NextCount(d, j, i)
    <3> SUFFICES ASSUME NEW i \in 1 .. n + 1
                 PROVE  OnPad(d[i], u) /\ CountAfter(d[i]) = NextCount(d, j, i)
      BY <2>1
    <3>1. CASE i = n + 1
      BY <1>6, <2>1, <2>6, <3>1
    <3>2. CASE i # n + 1
      <4>1. i \in 1 .. n /\ i \in 0 .. n
        BY <2>1, <3>2
      <4> QED BY <2>1, <2>2, <2>5, <4>1
    <3> QED BY <3>1, <3>2
  <2>8. oprot[v].inKey[2] = NextCount(d, j, 0)
    <3>1. 0 \in 0 .. n
      BY <2>1
    <3> QED BY <2>2, <2>5, <3>1
  <2>9. /\ oprot[v].outKey[1] = v /\ oprot[v].inKey[1] = Peer(v)
        /\ oprot[v].outPlace + oprot[v].outKey[2] = PadLen
        /\ oprot[v].inPlace + oprot[v].inKey[2] = PadLen
        /\ oprot[v].inKey[2] = NextCount(d, j, 0)
        /\ \A i \in DOMAIN d :
             /\ OnPad(d[i], Peer(v))
             /\ CountAfter(d[i]) = NextCount(d, j, i)
    BY <1>0, <2>2, <2>7, <2>8
  <2>10. /\ conf' = conf /\ d = due'[v] /\ oprot[v] = oprot'[v]
        /\ j = oprot'[Peer(v)].outKey[2]
    BY <1>0, <1>1, <1>4, <2>3, <2>4
  <2> QED BY <1>0, <2>9, <2>10, PadOfNext
<1> QED BY <1>0, <1>8, <1>9

(* When the first of them has been read, the second is the next.           *)
LEMMA PadsReceive ==
  ASSUME Basis, Ratchets, Pads, Survived, "oprot" \in conf, NEW u \in Users,
         Receive(u)
  PROVE  \A w \in Users : PadOf(w)'
<1> DEFINE v == Peer(u)
           e == Head(due[u])
           r == e2eDecrypt(u, e.text)
           b == O!OPDecrypt(oprot[u], Unwrapped(e))
           o == oprot[u]
           t == Unwrapped(e)
<1>0. /\ v \in Users /\ v # u /\ Peer(v) = u /\ Peer(u) = v
      /\ \A w \in Users : w = u \/ w = v
  BY TwoUsers
<1> HIDE DEF v
<1>1. /\ due[u] # <<>> /\ due' = [due EXCEPT ![u] = Tail(@)] /\ conf' = conf
      /\ oprot' = [oprot EXCEPT ![u] = r.oprot]
      /\ oprot \in [Users -> OState] /\ due \in [Users -> Seq(Entries)]
  BY DEF Receive, Basis, Types
<1>2. /\ r.oprot = b.prot /\ t.key = o.inKey /\ t \in OText
      /\ ~t.unmut <=> Logged(e)
      /\ Logged(e) => t.pad = o.inPlace /\ t.pad > 0
  <2>1. e = Head(due[u]) /\ r = e2eDecrypt(u, e.text)
    OBVIOUS
  <2> HIDE DEF e, r
  <2> QED BY <2>1, DueOpens
<1>3. /\ b.prot.outKey = o.outKey /\ b.prot.outPlace = o.outPlace
      /\ ~Logged(e) => b.prot = o
      /\ Logged(e) => /\ b.prot.inKey = <<o.inKey[1], o.inKey[2] + 1>>
                      /\ b.prot.inPlace = o.inPlace - 1
  <2>1. b = O!OPDecrypt(o, t) /\ o \in OState
    BY <1>1
  <2> HIDE DEF b, o, t, e
  <2> QED BY <1>2, <2>1, PadDecrypts
<1>4. /\ due[u] \in Seq(Entries) /\ e = due[u][1]
      /\ DOMAIN due[u] = 1 .. Len(due[u]) /\ Len(due[u]) \in Nat
      /\ 1 <= Len(due[u])
      /\ DOMAIN Tail(due[u]) = 1 .. Len(due[u]) - 1
      /\ \A i \in 1 .. Len(due[u]) - 1 : Tail(due[u])[i] = due[u][i + 1]
      /\ Tail(due[u]) \in Seq(Entries)
  <2> HIDE DEF Entries
  <2>1. due[u] \in Seq(Entries)
    BY <1>1
  <2> QED BY <1>1, <2>1, RangeTail
<1> HIDE DEF r, b, e, t
<1>5. /\ oprot'[u] = b.prot /\ oprot'[v] = oprot[v]
      /\ due'[u] = Tail(due[u]) /\ due'[v] = due[v]
  BY <1>0, <1>1, <1>2
<1>6. \A w \in Users : PadOf(w)
  BY DEF Pads
<1>7. PadOf(u) /\ PadOf(v)
  BY <1>0, <1>6
<1>8. /\ o.inPlace \in Nat /\ o.inKey[2] \in Nat /\ o.inKey[1] = v
      /\ o.inPlace + o.inKey[2] = PadLen
      /\ o.outKey[1] = u /\ o.outPlace + o.outKey[2] = PadLen
  BY <1>0, <1>1, <1>6 DEF OState, PadOf
<1>9. PadOf(v)'
  <2> DEFINE k == o.outKey[2]
  <2>1. /\ oprot[v].outKey[1] = v /\ oprot[v].inKey[1] = u
        /\ oprot[v].outPlace + oprot[v].outKey[2] = PadLen
        /\ oprot[v].inPlace + oprot[v].inKey[2] = PadLen
        /\ oprot[v].inKey[2] = NextCount(due[v], k, 0)
        /\ \A i \in DOMAIN due[v] :
             /\ OnPad(due[v][i], u)
             /\ CountAfter(due[v][i]) = NextCount(due[v], k, i)
    BY <1>0, <1>7 DEF PadOf
  <2>2. k = oprot'[u].outKey[2]
    BY <1>3, <1>5
  <2> HIDE DEF k
  <2>3. /\ oprot[v].outKey[1] = v /\ oprot[v].inKey[1] = Peer(v)
        /\ oprot[v].outPlace + oprot[v].outKey[2] = PadLen
        /\ oprot[v].inPlace + oprot[v].inKey[2] = PadLen
        /\ oprot[v].inKey[2] = NextCount(due[v], k, 0)
        /\ \A i \in DOMAIN due[v] :
             /\ OnPad(due[v][i], Peer(v))
             /\ CountAfter(due[v][i]) = NextCount(due[v], k, i)
    BY <1>0, <2>1
  <2>4. /\ conf' = conf /\ due[v] = due'[v] /\ oprot[v] = oprot'[v]
        /\ k = oprot'[Peer(v)].outKey[2]
    BY <1>0, <1>1, <1>5, <2>2
  <2> QED BY <1>0, <2>3, <2>4, PadOfNext
<1>10. PadOf(u)'
  <2> DEFINE n == Len(due[u]) - 1
             d == due'[u]
             k == oprot[v].outKey[2]
  <2>1. /\ n \in Nat /\ DOMAIN d = 1 .. n /\ Len(d) = n
        /\ n + 1 = Len(due[u])
        /\ \A i \in 1 .. n : d[i] = due[u][i + 1]
    <3>1. Len(Tail(due[u])) = n
      <4> HIDE DEF Entries
      <4> QED BY <1>1, <1>4
    <3> QED BY <1>4, <1>5, <3>1
  <2>2. d = due'[u] /\ k = oprot'[v].outKey[2]
    BY <1>5
  <2>3. /\ o.inKey[2] = NextCount(due[u], k, 0)
        /\ \A i \in 1 .. n + 1 :
             /\ OnPad(due[u][i], v)
             /\ CountAfter(due[u][i]) = NextCount(due[u], k, i)
    BY <1>0, <1>4, <1>7, <2>1 DEF PadOf
  <2>4. \A i \in 0 .. n : NextCount(d, k, i) = NextCount(due[u], k, i + 1)
    <3> SUFFICES ASSUME NEW i \in 0 .. n
                 PROVE  NextCount(d, k, i) = NextCount(due[u], k, i + 1)
      OBVIOUS
    <3>1. CASE i = n
      BY <2>1, <3>1 DEF NextCount
    <3>2. CASE i # n
      <4>1. i + 1 \in 1 .. n /\ i + 1 # n + 1
        BY <2>1, <3>2
      <4> QED BY <2>1, <3>2, <4>1 DEF NextCount
    <3> QED BY <3>1, <3>2
  <2>5. Count(e) = NextCount(due[u], k, 0)
    BY <1>4, <2>1 DEF NextCount
  <2> HIDE DEF d, n, k
  <2>6. CountAfter(e) = NextCount(d, k, 0) /\ o.inKey[2] = Count(e)
    <3>1. 1 \in 1 .. n + 1 /\ 0 \in 0 .. n /\ 0 + 1 = 1
      BY <2>1
    <3> QED BY <1>4, <2>3, <2>4, <2>5, <3>1
  <2>7. /\ b.prot.inKey[1] = v /\ b.prot.inKey[2] = CountAfter(e)
        /\ b.prot.inPlace + b.prot.inKey[2] = PadLen
    <3>1. CASE Logged(e)
      BY <1>3, <1>8, <2>6, <3>1 DEF CountAfter
    <3>2. CASE ~Logged(e)
      BY <1>3, <1>8, <2>6, <3>2 DEF CountAfter
    <3> QED BY <3>1, <3>2
  <2>8. \A i \in DOMAIN d :
          OnPad(d[i], v) /\ CountAfter(d[i]) = NextCount(d, k, i)
    <3> SUFFICES ASSUME NEW i \in 1 .. n
                 PROVE  OnPad(d[i], v) /\ CountAfter(d[i]) = NextCount(d, k, i)
      BY <2>1
    <3>1. i \in 0 .. n /\ i + 1 \in 1 .. n + 1
      BY <2>1
    <3> QED BY <2>1, <2>3, <2>4, <3>1
  <2>9. /\ b.prot.outKey[1] = u
        /\ b.prot.outPlace + b.prot.outKey[2] = PadLen
        /\ b.prot.inKey[2] = NextCount(d, k, 0)
    BY <1>3, <1>8, <2>6, <2>7
  <2>10. /\ b.prot.outKey[1] = u /\ b.prot.inKey[1] = Peer(u)
        /\ b.prot.outPlace + b.prot.outKey[2] = PadLen
        /\ b.prot.inPlace + b.prot.inKey[2] = PadLen
        /\ b.prot.inKey[2] = NextCount(d, k, 0)
        /\ \A i \in DOMAIN d :
             /\ OnPad(d[i], Peer(u))
             /\ CountAfter(d[i]) = NextCount(d, k, i)
    BY <1>0, <2>7, <2>8, <2>9
  <2>11. /\ conf' = conf /\ d = due'[u] /\ b.prot = oprot'[u]
        /\ k = oprot'[Peer(u)].outKey[2]
    BY <1>0, <1>1, <1>5, <2>2
  <2> QED BY <1>0, <2>10, <2>11, PadOfNext
<1> QED BY <1>0, <1>9, <1>10

-----------------------------------------------------------------------------
(* The pad's keys and places count the messages in every state.            *)
LEMMA PadsStep ==
  ASSUME Basis, Ratchets, Pads, [Next]_vars
  PROVE  Pads'
<1>1. CASE UNCHANGED vars
  <2>1. /\ conf' = conf /\ oprot' = oprot /\ due' = due /\ faults' = faults
    BY <1>1 DEF vars, protVars, relayVars
  <2> SUFFICES ASSUME "oprot" \in conf, Survived, NEW u \in Users, PadOf(u)
               PROVE  PadOf(u)'
    BY <2>1 DEF Pads, Survived
  <2>2. /\ conf' = conf /\ due[u] = due'[u] /\ oprot[u] = oprot'[u]
        /\ oprot[Peer(u)].outKey[2] = oprot'[Peer(u)].outKey[2]
    BY <2>1
  <2>3. /\ oprot[u].outKey[1] = u /\ oprot[u].inKey[1] = Peer(u)
        /\ oprot[u].outPlace + oprot[u].outKey[2] = PadLen
        /\ oprot[u].inPlace + oprot[u].inKey[2] = PadLen
        /\ oprot[u].inKey[2] =
             NextCount(due[u], oprot[Peer(u)].outKey[2], 0)
        /\ \A i \in DOMAIN due[u] :
             /\ OnPad(due[u][i], Peer(u))
             /\ CountAfter(due[u][i]) =
                  NextCount(due[u], oprot[Peer(u)].outKey[2], i)
    BY DEF PadOf
  <2> QED BY <2>2, <2>3, PadOfNext
<1>2. ASSUME NEW u \in Users, NEW cb \in {"LOG", "NOLOG"}, Send(u, cb)
      PROVE  Pads'
  <2>1. (Survived' <=> Survived) /\ conf' = conf /\ Types
    BY <1>2 DEF Send, Survived, Basis
  <2> SUFFICES ASSUME "oprot" \in conf, \A w \in Users : PadOf(w)
               PROVE  \A w \in Users : PadOf(w)'
    BY <2>1 DEF Pads
  <2> QED BY <1>2, <2>1, PadsSend
<1>3. ASSUME NEW u \in Users, Receive(u)
      PROVE  Pads'
  <2>1. (Survived' <=> Survived) /\ conf' = conf
    BY <1>3 DEF Receive, Survived
  <2> SUFFICES ASSUME "oprot" \in conf, Survived
               PROVE  \A w \in Users : PadOf(w)'
    BY <2>1 DEF Pads
  <2> QED BY <1>3, PadsReceive
<1>4. ASSUME NEW f, Fault(f), conf' = conf
      PROVE  Pads'
  <2>1. Types
    BY DEF Basis
  <2> QED BY <1>4, <2>1, FaultSurvives DEF Pads
<1>5. ASSUME NEW u \in Users,
             \/ Restart(u) \/ Crash(u)
             \/ \E cb \in {"LOG", "NOLOG"}, d \in BOOLEAN : SendFails(u, cb, d)
      PROVE  Pads'
  <2>1. (\E f : Fault(f)) /\ conf' = conf
    BY <1>5 DEF Restart, Crash, SendFails
  <2> QED BY <1>4, <2>1
<1> QED BY <1>1, <1>2, <1>3, <1>5 DEF Next

(* Nothing has been sent on the pads at first.                             *)
LEMMA PadsInit ==
  ASSUME Init
  PROVE  Pads
<1> SUFFICES ASSUME NEW u \in Users
             PROVE  PadOf(u)
  BY DEF Pads
<1>1. Peer(u) \in Users /\ Peer(Peer(u)) = u
  BY TwoUsers
<1>2. ASSUME NEW w \in Users
      PROVE  /\ oprot[w].outKey = <<w, 0>> /\ oprot[w].inKey = <<Peer(w), 0>>
             /\ oprot[w].outPlace = PadLen /\ oprot[w].inPlace = PadLen
  <2> DEFINE out == <<w, 0>>
             in == <<Peer(w), 0>>
  <2>1. oprot[w] = [outKey |-> out, inKey |-> in,
                    outPlace |-> PadLen, inPlace |-> PadLen]
    BY DEF Init, O!OprotMake
  <2> HIDE DEF out, in
  <2>2. /\ oprot[w].outKey = out /\ oprot[w].inKey = in
        /\ oprot[w].outPlace = PadLen /\ oprot[w].inPlace = PadLen
    BY <2>1
  <2> QED BY <2>2 DEF out, in
<1>3. /\ oprot[u].outKey = <<u, 0>> /\ oprot[u].inKey = <<Peer(u), 0>>
      /\ oprot[u].outPlace = PadLen /\ oprot[u].inPlace = PadLen
      /\ oprot[Peer(u)].outKey = <<Peer(u), 0>> /\ due[u] = <<>>
  <2>1. due[u] = <<>>
    BY DEF Init
  <2>2. oprot[Peer(u)].outKey = <<Peer(u), 0>>
    BY <1>1, <1>2
  <2> QED BY <1>2, <2>1, <2>2
<1>4. Len(due[u]) = 0 /\ DOMAIN due[u] = {}
  BY <1>3
<1> QED BY <1>3, <1>4, EndToEndAssumption DEF PadOf, NextCount

-----------------------------------------------------------------------------
(* Nobody sends more than the bound on the messages.                       *)
LEMMA MadeBounded ==
  ASSUME Types, Limits, NEW u \in Users, NEW cb, Encrypted(u, cb)
  PROVE  \A w \in Users : made'[w] + made'[Peer(w)] <= MaxMsgs
<1>1. /\ made[u] + made[Peer(u)] < MaxMsgs /\ MaxMsgs \in Nat
      /\ made' = [made EXCEPT ![u] = @ + 1] /\ made \in [Users -> Nat]
  BY EndToEndAssumption DEF Encrypted, Types
<1>2. /\ Peer(u) \in Users /\ Peer(u) # u /\ Peer(Peer(u)) = u
      /\ \A w \in Users : w = u \/ w = Peer(u)
  BY TwoUsers
<1>3. made'[u] = made[u] + 1 /\ made'[Peer(u)] = made[Peer(u)]
  BY <1>1, <1>2
<1>4. made'[u] + made'[Peer(u)] <= MaxMsgs
  BY <1>1, <1>2, <1>3
<1>5. made'[Peer(u)] + made'[u] <= MaxMsgs
  BY <1>1, <1>2, <1>3
<1> QED BY <1>2, <1>4, <1>5

(* What a step makes of one user's pad leaves the limits.                  *)
LEMMA PlacesBounded ==
  ASSUME Types, Limits, NEW u \in Users, NEW q,
         oprot' = [oprot EXCEPT ![u] = q],
         q.outPlace <= oprot[u].outPlace, q.inPlace <= oprot[u].inPlace,
         q.outPlace \in Nat, q.inPlace \in Nat
  PROVE  \A w \in Users :
           oprot'[w].outPlace <= PadLen /\ oprot'[w].inPlace <= PadLen
<1>1. \A w \in Users : /\ oprot[w].outPlace \in Nat /\ oprot[w].inPlace \in Nat
                       /\ oprot[w].outPlace <= PadLen
                       /\ oprot[w].inPlace <= PadLen
  BY DEF Types, Limits, OState
<1>2. PadLen \in Nat
  BY EndToEndAssumption
<1>3. \A w \in Users : oprot'[w] = IF w = u THEN q ELSE oprot[w]
  BY DEF Types
<1> SUFFICES ASSUME NEW w \in Users
             PROVE  oprot'[w].outPlace <= PadLen /\ oprot'[w].inPlace <= PadLen
  OBVIOUS
<1>4. CASE w = u
  BY <1>1, <1>2, <1>3, <1>4
<1>5. CASE w # u
  BY <1>1, <1>3, <1>5
<1> QED BY <1>4, <1>5

(* Every step keeps what is counted within its bounds.                     *)
LEMMA LimitsStep ==
  ASSUME Basis, Limits, [Next]_vars
  PROVE  Limits'
<1>0. Types /\ Relay
  BY DEF Basis
<1>1. CASE UNCHANGED vars
  BY <1>1 DEF vars, protVars, history, Limits
<1>2. ASSUME NEW u \in Users, NEW cb \in {"LOG", "NOLOG"}, Encrypted(u, cb),
             seen' = seen, NEW q, oprot' = [oprot EXCEPT ![u] = q],
             \/ q = e2eEncrypt(u, cb).oprot
             \/ q = O!OprotInit(e2eEncrypt(u, cb).oprot)
      PROVE  Limits'
  <2> DEFINE e == e2eEncrypt(u, cb)
             o == oprot[u]
  <2>1. CanEncrypt(u, cb) /\ o \in OState
    BY <1>0, <1>2 DEF Encrypted, Types
  <2>2. /\ e.oprot \in OState /\ e.oprot.inPlace = o.inPlace
        /\ e.oprot.outPlace = IF "oprot" \in conf /\ cb = "LOG"
                              THEN o.outPlace - 1 ELSE o.outPlace
    BY <1>0, <2>1, Encrypts
  <2>3. /\ q \in OState /\ q.inPlace = e.oprot.inPlace
        /\ q.outPlace = e.oprot.outPlace
    <3> HIDE DEF e
    <3>1. q = e.oprot \/ q = O!OprotInit(e.oprot)
      BY <1>2 DEF e
    <3> QED BY <2>2, <3>1, OprotInitDoes
  <2> HIDE DEF e
  <2>4. /\ o.outPlace \in Nat /\ o.inPlace \in Nat
        /\ q.outPlace \in Nat /\ q.inPlace \in Nat
    BY <2>1, <2>3 DEF OState
  <2>5. q.outPlace <= o.outPlace /\ q.inPlace <= o.inPlace
    BY <2>2, <2>3, <2>4
  <2>6. \A w \in Users :
          oprot'[w].outPlace <= PadLen /\ oprot'[w].inPlace <= PadLen
    BY <1>0, <1>2, <2>4, <2>5, PlacesBounded
  <2>7. \A w \in Users : made'[w] + made'[Peer(w)] <= MaxMsgs
    BY <1>0, <1>2, MadeBounded
  <2> QED BY <1>2, <2>6, <2>7 DEF Limits
<1>3. ASSUME NEW u \in Users, NEW cb \in {"LOG", "NOLOG"}, Send(u, cb)
      PROVE  Limits'
  BY <1>2, <1>3 DEF Send
<1>4. ASSUME NEW u \in Users, NEW cb \in {"LOG", "NOLOG"},
             NEW d \in BOOLEAN, SendFails(u, cb, d)
      PROVE  Limits'
  BY <1>2, <1>4 DEF SendFails, Start
<1>5. ASSUME NEW u \in Users, Restart(u) \/ Crash(u)
      PROVE  Limits'
  <2>1. /\ oprot' = [oprot EXCEPT ![u] = O!OprotInit(oprot[u])]
        /\ made' = made /\ seen' = seen
    BY <1>5 DEF Restart, Crash, Start, history
  <2> DEFINE q == O!OprotInit(oprot[u])
  <2>2. oprot[u] \in OState
    BY <1>0 DEF Types
  <2>3. /\ q \in OState /\ q.outPlace = oprot[u].outPlace
        /\ q.inPlace = oprot[u].inPlace
    BY <2>2, OprotInitDoes
  <2>4. oprot' = [oprot EXCEPT ![u] = q]
    BY <2>1
  <2> HIDE DEF q
  <2>5. q.outPlace \in Nat /\ q.inPlace \in Nat
    BY <2>3 DEF OState
  <2>6. q.outPlace <= oprot[u].outPlace /\ q.inPlace <= oprot[u].inPlace
    BY <2>3, <2>5
  <2>7. \A w \in Users :
          oprot'[w].outPlace <= PadLen /\ oprot'[w].inPlace <= PadLen
    BY <1>0, <2>4, <2>5, <2>6, PlacesBounded
  <2> QED BY <2>1, <2>7 DEF Limits
<1>6. ASSUME NEW u \in Users, Receive(u)
      PROVE  Limits'
  <2> DEFINE e == Head(due[u])
             r == e2eDecrypt(u, e.text)
             q == r.oprot
  <2>1. /\ due[u] # <<>> /\ due[u] \in Seq(Entries)
        /\ oprot' = [oprot EXCEPT ![u] = q] /\ made' = made
        /\ seen' = [seen EXCEPT ![u] = @ \cup {e.id}]
    BY <1>0, <1>6 DEF Receive, Types
  <2>2. e \in Range(due[u]) /\ e \in Entries
    <3> HIDE DEF Entries
    <3> QED BY <2>1, RangeTail
  <2>3. Carries(e) /\ e.id \in IdSet
    BY <1>0, <2>2 DEF Relay, Entries
  <2>4. /\ q \in OState /\ q.outPlace = oprot[u].outPlace
        /\ q.inPlace <= oprot[u].inPlace
    <3>1. e \in Entries /\ Carries(e)
      BY <2>2, <2>3
    <3> HIDE DEF e
    <3> QED BY <1>0, <3>1, Decrypts
  <2> HIDE DEF q, e
  <2>5. q.outPlace \in Nat /\ q.inPlace \in Nat
    BY <2>4 DEF OState
  <2>6. q.outPlace <= oprot[u].outPlace
    BY <2>4, <2>5
  <2>7. \A w \in Users :
          oprot'[w].outPlace <= PadLen /\ oprot'[w].inPlace <= PadLen
    BY <1>0, <2>1, <2>4, <2>5, <2>6, PlacesBounded
  <2>8. seen' \in [Users -> SUBSET IdSet]
    <3>1. seen \in [Users -> SUBSET IdSet]
      BY DEF Limits
    <3> HIDE DEF IdSet
    <3> QED BY <2>1, <2>3, <3>1
  <2> QED BY <2>1, <2>7, <2>8 DEF Limits, IdSet
<1> QED BY <1>1, <1>3, <1>4, <1>5, <1>6 DEF Next

(* No message that is new to its reader is discarded: it opens.            *)
LEMMA NothingLostStep ==
  ASSUME Basis, Ratchets, Pads, NothingLost, [Next]_vars
  PROVE  NothingLost'
<1>0. Types
  BY DEF Basis
<1>1. CASE UNCHANGED vars
  BY <1>1 DEF vars, history, NothingLost, Survived
<1>2. ASSUME NEW u \in Users, NEW cb \in {"LOG", "NOLOG"}, Send(u, cb)
      PROVE  NothingLost'
  BY <1>2 DEF Send, NothingLost, Survived
<1>3. ASSUME NEW u \in Users, Receive(u)
      PROVE  NothingLost'
  <2>1. Survived' <=> Survived
    BY <1>3 DEF Receive, Survived
  <2> SUFFICES ASSUME Survived
               PROVE  lost' = lost
    BY <2>1 DEF NothingLost
  <2> DEFINE e == Head(due[u])
             r == e2eDecrypt(u, e.text)
  <2>2. lost' = IF ~r.ok /\ e.from # u /\ e.id \notin seen[u]
                THEN [lost EXCEPT ![u] = @ \cup {e.id}] ELSE lost
    BY <1>3 DEF Receive
  <2>3. e = Head(due[u]) /\ r = e2eDecrypt(u, e.text)
    OBVIOUS
  <2> HIDE DEF e, r
  <2>4. e.from # u /\ e.id \notin seen[u] => r.ok
    BY <1>3, <2>3, DueOpens
  <2> QED BY <2>2, <2>4
<1>4. ASSUME NEW f, Fault(f), conf' = conf, lost' = lost
      PROVE  NothingLost'
  BY <1>0, <1>4, FaultSurvives DEF NothingLost
<1>5. ASSUME NEW u \in Users,
             \/ Restart(u) \/ Crash(u)
             \/ \E cb \in {"LOG", "NOLOG"}, d \in BOOLEAN : SendFails(u, cb, d)
      PROVE  NothingLost'
  <2>1. (\E f : Fault(f)) /\ conf' = conf /\ lost' = lost
    BY <1>5 DEF Restart, Crash, SendFails, history
  <2> QED BY <1>4, <2>1
<1> QED BY <1>1, <1>2, <1>3, <1>5 DEF Next

-----------------------------------------------------------------------------
(* The inductive invariant holds in every reachable state.                 *)
THEOREM Invariance == Spec => []IInv
<1>1. Init => IInv
  <2> SUFFICES ASSUME Init
               PROVE  IInv
    OBVIOUS
  <2>1. Limits
    <3>1. \A u \in Users : made[u] = 0 /\ made[Peer(u)] = 0
      BY TwoUsers DEF Init
    <3>2. \A u \in Users :
            oprot[u].outPlace = PadLen /\ oprot[u].inPlace = PadLen
      BY DEF Init, O!OprotMake
    <3>3. seen \in [Users -> SUBSET IdSet]
      BY DEF Init
    <3> QED BY <3>1, <3>2, <3>3, EndToEndAssumption DEF Limits
  <2>2. NothingLost
    BY DEF Init, NothingLost
  <2> QED BY <2>1, <2>2, BasisInit, RatchetsInit, PadsInit DEF IInv
<1>2. IInv /\ [Next]_vars /\ Basis' => IInv'
  <2> SUFFICES ASSUME IInv, [Next]_vars, Basis'
               PROVE  IInv'
    OBVIOUS
  <2>1. Basis /\ Limits /\ Ratchets /\ Pads /\ NothingLost
    BY DEF IInv
  <2>2. seen \in [Users -> SUBSET IdSet]
    BY <2>1 DEF Limits
  <2>3. Limits'
    BY <2>1, LimitsStep
  <2>4. Ratchets'
    BY <2>1, <2>2, RatchetsStep
  <2>5. Pads'
    BY <2>1, PadsStep
  <2>6. NothingLost'
    BY <2>1, NothingLostStep
  <2> QED BY <2>3, <2>4, <2>5, <2>6 DEF IInv
<1> QED BY <1>1, <1>2, BasisInvariance, PTL DEF Spec

(* No message is discarded that its reader has not had before, in whatever *)
(* order the two users' messages cross and whatever is sent again, after   *)
(* the faults that the protocols survive; and none is shown twice.         *)
THEOREM EachIsShownOnce == Spec => []EachShownOnce
<1>1. IInv => EachShownOnce
  BY DEF IInv, Basis, ShownPast, ShownOnce, EachShownOnce
<1> QED BY <1>1, Invariance, PTL

(* Two users to whom nothing is on its way have the same keys.             *)
LEMMA QuietInStep ==
  ASSUME Types, InStep, "rprot" \in conf, \A w \in Users : due[w] = <<>>,
         NEW u \in Users
  PROVE  rprot[u].outKey = rprot[Peer(u)].inKey
<1> DEFINE v == Peer(u)
           n == Len(rprot[v].inKey)
<1>0. /\ v \in Users /\ Peer(v) = u
  BY TwoUsers
<1>1. /\ rprot[u].outKey \in Seq(Part) /\ rprot[v].inKey \in Seq(Part)
      /\ Len(rprot[u].outKey) \in Nat /\ n \in Nat
  BY <1>0, Lengths
<1>2. Unread(v) = {}
  <2>1. Range(due[v]) = {}
    BY <1>0 DEF Range
  <2> QED BY <1>0, <2>1 DEF InStep, StillSent
<1>3. Len(rprot[u].outKey) = n
  <2>1. Reaches(u, n)
    BY <1>0 DEF InStep, NoneMissing
  <2>2. \A e \in LogsOf(u) : Place(e) # n
    <3>1. \A e \in LogsOf(u) : Place(e) = n => e \in Unread(v)
      BY <1>0, <1>1 DEF Unread
    <3> QED BY <1>2, <3>1
  <2> QED BY <2>1, <2>2 DEF Reaches
<1>4. PartOfKey(rprot[v].inKey, rprot[u].outKey)
  BY <1>0 DEF InStep, KeysFollow
<1>5. PartOfKey(rprot[u].outKey, rprot[u].outKey)
  BY <1>1 DEF PartOfKey
<1> HIDE DEF v
<1> QED BY <1>1, <1>3, <1>4, <1>5, SameParts DEF v

(* When nothing is on its way each user's outKey is the other's inKey.     *)
THEOREM RatchetsStayInStep == Spec => []RatchetsInStep
<1>1. IInv => RatchetsInStep
  <2> SUFFICES ASSUME IInv
               PROVE  RatchetsInStep
    OBVIOUS
  <2>1. Types /\ Limits /\ Ratchets
    BY DEF IInv, Basis
  <2>2. TypeOK
    <3> SUFFICES ASSUME NEW u \in Users
                 PROVE  /\ rprot[u].status \subseteq Flags
                        /\ oprot[u].outPlace \in 0 .. PadLen
                        /\ oprot[u].inPlace \in 0 .. PadLen
                        /\ made[u] \in 0 .. MaxMsgs
      BY DEF TypeOK
    <3>1. rprot[u] \in RState /\ oprot[u] \in OState
      BY <2>1 DEF Types
    <3>2. /\ rprot[u].status \subseteq Flags
          /\ oprot[u].outPlace \in Nat /\ oprot[u].inPlace \in Nat
      BY <3>1 DEF RState, OState
    <3>3. oprot[u].outPlace <= PadLen /\ oprot[u].inPlace <= PadLen
      BY <2>1 DEF Limits
    <3>4. made[u] \in Nat /\ made[Peer(u)] \in Nat
      BY <2>1, TwoUsers DEF Types
    <3>5. made[u] + made[Peer(u)] <= MaxMsgs
      BY <2>1 DEF Limits
    <3> QED BY <3>2, <3>3, <3>4, <3>5, EndToEndAssumption
  <2> SUFFICES ASSUME Survived, "rprot" \in conf,
                      \A w \in Users : due[w] = <<>>, NEW u \in Users
               PROVE  rprot[u].outKey = rprot[Peer(u)].inKey
    BY <2>2 DEF RatchetsInStep
  <2>3. InStep
    BY <2>1 DEF Ratchets
  <2> QED BY <2>1, <2>3, QuietInStep
<1> QED BY <1>1, Invariance, PTL

(* No place of the one-time pad encrypts two messages, whatever fails.     *)
THEOREM PadNeverReused == Spec => []PadUsedOnce
<1>1. Basis => PadUsedOnce
  BY DEF Basis, PadTaken, PadUsedOnce, IsInjective
<1> QED BY <1>1, BasisInvariance, PTL

(* A message is not shown again, though a proxy that starts anew is sent   *)
(* all the server keeps: unless the keys in its file are those of before a *)
(* crash.                                                                  *)
THEOREM NothingShownAgain == Spec => []ShownOnce
<1>1. Basis => ShownOnce
  BY DEF Basis, ShownPast, ShownOnce
<1> QED BY <1>1, BasisInvariance, PTL
=============================================================================
