---------------------------- MODULE SessionProofs ----------------------------
(***************************************************************************)
(* For any chunk size, any messages and any way the two programs' calls    *)
(* are cut up and interrupted: no key encrypts two chunks, and the key a   *)
(* party sends with next is the one the other will open it with.           *)
(*                                                                         *)
(* The second part follows the pieces on their way: those of the chunks    *)
(* not yet opened, in order, and the chunks those of the messages not yet  *)
(* handed over.  While the buffer ws2 is left alone every chunk opens,     *)
(* nobody gives up a connection that did not break, and the session is the *)
(* one Duplex promises.                                                    *)
(***************************************************************************)
EXTENDS Session, SequenceTheorems, TLAPS

(* logMsg keeps a message without its control byte.  What the chat sends   *)
(* has more than that byte, and so has what e2eEncrypt makes of it: the    *)
(* server sends no empty message.  (One that blocks would be begun again,  *)
(* with the key of the chunk that is half sent.)                           *)
NoEmptyMessage == 0 \notin Lens["server"]

(* The key of a party's i-th chunk: the first is sealed in the handshake,  *)
(* the others are made with the key drawn by the server and its ratchets.  *)
Dir(d) == IF d = "proxy" THEN "to server" ELSE "to client"
KeyOf(d, i) ==
  IF i = 1 THEN (IF d = "proxy" THEN Static ELSE Ephemeral)
  ELSE <<Dir(d), i - 2>>

Piece == Chunks \X Nat
Types ==
  /\ net \in [Parties -> Seq(Piece)] /\ rcvBuff \in [Parties -> Seq(Piece)]
  /\ phase \in [Parties -> Phases] /\ fault \in BOOLEAN
  /\ inKey \in [Parties -> Key] /\ outKey \in [Parties -> Key]
  /\ src \in [Parties -> Seq(Unit) \cup {None}]
  /\ sndBuff \in [Parties -> Chunks \cup {None}]
  /\ sndPlace \in [Parties -> Nat] /\ sndAt \in [Parties -> 0 .. Parts - 1]
  /\ used \in [Parties -> Seq(Key)]

(* What opens with the key of the client's ephemeral pair is the answer.   *)
IsAnswer(c) == c.key = Ephemeral => c.body = Answer
AllAnswers(pieces) == \A i \in DOMAIN pieces : IsAnswer(pieces[i][1])
Answers ==
  /\ sndBuff["server"] # None => IsAnswer(sndBuff["server"])
  /\ AllAnswers(net["server"]) /\ AllAnswers(rcvBuff["proxy"])

KeysUsed ==
  \A d \in Parties : \A i \in DOMAIN used[d] : used[d][i] = KeyOf(d, i)

(* What a party's phase says of its chunks and of its keys: outKey is the  *)
(* one of the chunk being sent, or of the next.                            *)
Keyed(d) == phase[d] \in {"login", "sendLogin", "tunnel"}
Next1(d) == Len(used[d]) + (IF sndBuff[d] = None THEN 1 ELSE 0)
Stage(d) ==
  /\ phase[d] \in {"start", "hello"} => Len(used[d]) = 0
  /\ phase[d] \in {"sendHello", "answer", "sendAnswer", "login"} =>
       Len(used[d]) = 1
  /\ phase[d] \in {"start", "hello", "answer", "login"} => sndBuff[d] = None
  /\ phase[d] = "sendLogin" => sndBuff[d] # None /\ Len(used[d]) = 2
  /\ phase[d] \notin {"tunnel", "dead"} => src[d] = None
  /\ phase[d] = "tunnel" =>
       (src[d] = None <=> sndBuff[d] = None) /\ Len(used[d]) >= 1
  /\ Keyed(d) => /\ inKey[d][1] = Dir(Other(d))
                 /\ outKey[d] = KeyOf(d, Next1(d))
                 /\ sndBuff[d] # None => Len(used[d]) >= 2
  /\ src[d] # None => sndPlace[d] >= 1 /\ Len(src[d]) >= 1
  /\ sndAt[d] # 0 => sndBuff[d] # None
Stages == \A d \in Parties : Stage(d)

(* While nothing goes wrong the pieces between two parties are those of    *)
(* the chunks that one has encrypted and the other has not opened.         *)
Recvd(d) ==
  IF Keyed(d) THEN inKey[d][2] + 1
  ELSE IF phase[d] = "sendAnswer" THEN 1 ELSE 0
Left(d) == IF sndBuff[d] = None THEN 0 ELSE Parts - sndAt[d]
Alive == ~fault /\ \A d \in Parties : phase[d] # "dead"
Pieces(d) == Left(d) + Len(net[d]) + Len(rcvBuff[Other(d)])
Count(d) == (Len(used[d]) - Recvd(Other(d))) * Parts = Pieces(d)
Counts == Alive => \A d \in Parties : Count(d)

Numbered == sent \in [Parties -> Seq(Seq(Unit))]

(* The inductive invariant, with Numbered.                                 *)
IInv == Types /\ Answers /\ KeysUsed /\ Stages /\ Counts

(* The two parties.                                                        *)
LEMMA Others ==
  /\ Other("proxy") = "server" /\ Other("server") = "proxy"
  /\ \A d \in Parties :
       Other(d) \in Parties /\ Other(d) # d /\ Other(Other(d)) = d
<1>1. \A d \in Parties : \E o \in Parties : o # d
  BY DEF Parties
<1>2. \A d \in Parties : Other(d) \in Parties /\ Other(d) # d
  BY <1>1 DEF Other
<1>3. Parties = {"proxy", "server"} /\ "proxy" # "server"
  BY DEF Parties
<1> QED BY <1>2, <1>3

(* Arithmetic with the number of pieces of a chunk.                        *)
LEMMA PartsArithmetic ==
  /\ Parts \in Nat /\ Parts >= 1
  /\ \A x \in Int : (x + 1) * Parts = x * Parts + Parts
  /\ \A x \in Int : (x - 1) * Parts = x * Parts - Parts
  /\ \A x \in Int : x * Parts \in Int /\ (x * Parts = 0 => x = 0)
  /\ \A a \in 0 .. Parts - 1 : a % Parts = a
  /\ Parts % Parts = 0
<1>1. Parts \in Nat /\ Parts >= 1
  BY SessionAssumption
<1>2. \A x \in Int : (x + 1) * Parts = x * Parts + Parts
  BY <1>1
<1>3. \A x \in Int : (x - 1) * Parts = x * Parts - Parts
  BY <1>1
<1>4. \A x \in Int : x * Parts \in Int /\ (x * Parts = 0 => x = 0)
  BY <1>1
<1>5. \A a \in 0 .. Parts - 1 : a % Parts = a
  BY <1>1
<1>6. Parts % Parts = 0
  BY <1>1
<1> QED BY <1>1, <1>2, <1>3, <1>4, <1>5, <1>6

(* The keys of one party are different ones.                               *)
LEMMA KeysDiffer ==
  ASSUME NEW d \in Parties
  PROVE  /\ \A i \in Nat : i >= 1 => KeyOf(d, i) \in Key
         /\ \A i \in Nat : i >= 2 =>
              /\ naclRatchet(KeyOf(d, i)) = KeyOf(d, i + 1)
              /\ KeyOf(d, i) # Ephemeral
         /\ \A i, j \in Nat \ {0} : KeyOf(d, i) = KeyOf(d, j) => i = j
<1>0. Dir(d) \in {"to server", "to client"}
  BY DEF Dir
<1>1. ASSUME NEW i \in Nat, i >= 2
      PROVE  /\ KeyOf(d, i) = <<Dir(d), i - 2>> /\ i - 2 \in Nat
             /\ KeyOf(d, i) \in Key /\ KeyOf(d, i) # Ephemeral
             /\ KeyOf(d, i) # Static
             /\ naclRatchet(KeyOf(d, i)) = KeyOf(d, i + 1)
  <2>1. KeyOf(d, i) = <<Dir(d), i - 2>>
    BY <1>1 DEF KeyOf
  <2>2. KeyOf(d, i + 1) = <<Dir(d), i + 1 - 2>>
    BY <1>1 DEF KeyOf
  <2>3. i - 2 \in Nat /\ i - 2 + 1 = i + 1 - 2
    BY <1>1
  <2>4. KeyOf(d, i)[1] = Dir(d) /\ KeyOf(d, i)[2] = i - 2
    BY <2>1
  <2>5. naclRatchet(KeyOf(d, i)) = KeyOf(d, i + 1)
    BY <2>2, <2>3, <2>4 DEF naclRatchet
  <2>6. KeyOf(d, i) \in Key
    <3>1. Dir(d) \in {"none", "static", "ephemeral", "to server", "to client"}
      BY <1>0
    <3>2. <<Dir(d), i - 2>> \in Key
      BY <2>3, <3>1 DEF Key
    <3> QED BY <2>1, <3>2
  <2>7. KeyOf(d, i) # Ephemeral /\ KeyOf(d, i) # Static
    <3>1. Ephemeral[1] = "ephemeral" /\ Static[1] = "static"
      BY DEF Ephemeral, Static
    <3>2. Dir(d) # "ephemeral" /\ Dir(d) # "static"
      BY <1>0
    <3> QED BY <2>4, <3>1, <3>2
  <2> QED BY <2>1, <2>3, <2>5, <2>6, <2>7
<1>2. KeyOf(d, 1) \in {Static, Ephemeral} /\ KeyOf(d, 1) \in Key
  BY DEF KeyOf, Key, Static, Ephemeral
<1>3. ASSUME NEW i \in Nat \ {0}, NEW j \in Nat \ {0},
             KeyOf(d, i) = KeyOf(d, j)
      PROVE  i = j
  <2>1. CASE i >= 2 /\ j >= 2
    <3>1. <<Dir(d), i - 2>> = <<Dir(d), j - 2>>
      BY <1>1, <1>3, <2>1
    <3>2. i - 2 = j - 2
      BY <3>1
    <3> QED BY <3>2
  <2>2. CASE i = 1 \/ j = 1
    BY <1>1, <1>2, <1>3, <2>2
  <2> QED BY <2>1, <2>2
<1>4. \A i \in Nat : i >= 1 => i = 1 \/ i >= 2
  OBVIOUS
<1> QED BY <1>1, <1>2, <1>3, <1>4

(* Two sequences put together.                                             *)
LEMMA Concatenated ==
  ASSUME NEW S, NEW s \in Seq(S), NEW t \in Seq(S)
  PROVE  /\ s \o t \in Seq(S) /\ Len(s \o t) = Len(s) + Len(t)
         /\ \A i \in DOMAIN (s \o t) :
              \/ i \in DOMAIN s /\ (s \o t)[i] = s[i]
              \/ \E j \in DOMAIN t : (s \o t)[i] = t[j]
<1>1. s \o t \in Seq(S) /\ Len(s \o t) = Len(s) + Len(t)
  OBVIOUS
<1>2. ASSUME NEW i \in DOMAIN (s \o t)
      PROVE  \/ i \in DOMAIN s /\ (s \o t)[i] = s[i]
             \/ \E j \in DOMAIN t : (s \o t)[i] = t[j]
  <2>1. i \in 1 .. Len(s) + Len(t) /\ Len(s) \in Nat /\ Len(t) \in Nat
    BY <1>1
  <2>2. CASE i <= Len(s)
    BY <2>1, <2>2
  <2>3. CASE i > Len(s)
    <3>1. i - Len(s) \in DOMAIN t /\ (s \o t)[i] = t[i - Len(s)]
      BY <2>1, <2>3
    <3> QED BY <3>1
  <2> QED BY <2>1, <2>2, <2>3
<1> QED BY <1>1, <1>2

(* Encrypt with the key whose turn it is.                                  *)
LEMMA Encrypts ==
  ASSUME Types, KeysUsed, NEW d \in Parties, NEW key, NEW body \in Bodies,
         Encrypt(d, key, body), key = KeyOf(d, Len(used[d]) + 1),
         d = "server" /\ key = Ephemeral => body = Answer
  PROVE  /\ sndBuff' \in [Parties -> Chunks \cup {None}]
         /\ used' \in [Parties -> Seq(Key)] /\ KeysUsed'
         /\ sndBuff'[d] # None /\ Len(used'[d]) = Len(used[d]) + 1
         /\ \A e \in Parties :
              e # d => sndBuff'[e] = sndBuff[e] /\ used'[e] = used[e]
         /\ d = "server" => IsAnswer(sndBuff'[d])
<1> DEFINE c == [n |-> Len(used[d]) + 1, key |-> key, body |-> body]
<1>1. /\ used \in [Parties -> Seq(Key)] /\ used[d] \in Seq(Key)
      /\ Len(used[d]) \in Nat /\ sndBuff \in [Parties -> Chunks \cup {None}]
  BY DEF Types
<1>2. key \in Key
  BY <1>1, KeysDiffer
<1>3. c \in Chunks /\ c # None
  <2>1. c \in Chunks
    <3> HIDE DEF Key, Bodies
    <3> QED BY <1>1, <1>2 DEF Chunks
  <2> QED BY <2>1, SessionAssumption
<1>4. sndBuff' = [sndBuff EXCEPT ![d] = c]
      /\ used' = [used EXCEPT ![d] = Append(@, key)]
  BY DEF Encrypt
<1>5. /\ used'[d] = Append(used[d], key)
      /\ \A e \in Parties : e # d => used'[e] = used[e]
      /\ used' \in [Parties -> Seq(Key)]
  <2> HIDE DEF Key
  <2> QED BY <1>1, <1>2, <1>4
<1>6. KeysUsed'
  <2> SUFFICES ASSUME NEW e \in Parties, NEW i \in DOMAIN used'[e]
               PROVE  used'[e][i] = KeyOf(e, i)
    BY DEF KeysUsed, KeyOf, Dir
  <2>1. CASE e = d
    <3>1. i \in 1 .. Len(used[d]) + 1
      BY <1>1, <1>2, <1>5, <2>1
    <3>2. CASE i = Len(used[d]) + 1
      BY <1>1, <1>5, <2>1, <3>2
    <3>3. CASE i # Len(used[d]) + 1
      <4>1. i \in DOMAIN used[d] /\ used'[d][i] = used[d][i]
        <5>1. \A S : \A q \in Seq(S), x \in S :
                \A n \in 1 .. Len(q) : Append(q, x)[n] = q[n]
          OBVIOUS
        <5>2. i \in 1 .. Len(used[d]) /\ DOMAIN used[d] = 1 .. Len(used[d])
          BY <1>1, <3>1, <3>3
        <5> HIDE DEF Key
        <5> QED BY <1>1, <1>2, <1>5, <5>1, <5>2
      <4>2. used[d][i] = KeyOf(d, i)
        BY <4>1 DEF KeysUsed
      <4> QED BY <2>1, <4>1, <4>2
    <3> QED BY <3>2, <3>3
  <2>2. CASE e # d
    BY <1>5, <2>2 DEF KeysUsed
  <2> QED BY <2>1, <2>2
<1>7. d = "server" => IsAnswer(c)
  BY DEF IsAnswer
<1> HIDE DEF c
<1> QED BY <1>1, <1>2, <1>3, <1>4, <1>5, <1>6, <1>7

(* One send(2).                                                            *)
LEMMA Sent ==
  ASSUME Types, Answers, NEW d \in Parties, NEW k \in 1 .. Parts,
         socketSend(d, k)
  PROVE  /\ net' \in [Parties -> Seq(Piece)] /\ AllAnswers(net'["server"])
         /\ Len(net'[d]) = Len(net[d]) + k
         /\ sndAt' \in [Parties -> 0 .. Parts - 1]
         /\ sndBuff[d] # None
         /\ sndAt'[d] = IF LastOf(d, k) THEN 0 ELSE sndAt[d] + k
         /\ k <= Parts - sndAt[d]
         /\ \A e \in Parties :
              e # d => net'[e] = net[e] /\ sndAt'[e] = sndAt[e]
<1> DEFINE s == [i \in 1 .. k |-> <<sndBuff[d], sndAt[d] + i>>]
<1>1. /\ net \in [Parties -> Seq(Piece)]
      /\ sndAt \in [Parties -> 0 .. Parts - 1]
      /\ sndBuff[d] \in Chunks /\ sndBuff[d] # None
  BY DEF Types, socketSend
<1>2. s \in Seq(Piece) /\ Len(s) = k /\ DOMAIN s = 1 .. k
  <2>1. sndAt[d] \in Nat /\ k \in Nat
    BY <1>1, PartsArithmetic
  <2>2. \A i \in 1 .. k : <<sndBuff[d], sndAt[d] + i>> \in Piece
    BY <1>1, <2>1 DEF Piece
  <2> HIDE DEF Piece
  <2>3. s \in [1 .. k -> Piece]
    BY <2>2
  <2> QED BY <2>1, <2>3
<1>3. \A i \in 1 .. k : s[i][1] = sndBuff[d]
  OBVIOUS
<1>4. net' = [net EXCEPT ![d] = @ \o s] /\ k <= Parts - sndAt[d]
      /\ sndAt' = [sndAt EXCEPT ![d] = (@ + k) % Parts]
  BY DEF socketSend
<1> HIDE DEF s
<1>5. /\ net[d] \in Seq(Piece) /\ net[d] \o s \in Seq(Piece)
      /\ Len(net[d] \o s) = Len(net[d]) + k
      /\ \A i \in DOMAIN (net[d] \o s) :
           \/ i \in DOMAIN net[d] /\ (net[d] \o s)[i] = net[d][i]
           \/ \E j \in DOMAIN s : (net[d] \o s)[i] = s[j]
  <2>1. net[d] \in Seq(Piece) /\ s \in Seq(Piece) /\ Len(s) = k
    BY <1>1, <1>2
  <2> HIDE DEF Piece
  <2>2. net[d] \o s \in Seq(Piece) /\ Len(net[d] \o s) = Len(net[d]) + Len(s)
    BY <2>1, Concatenated
  <2>3. \A i \in DOMAIN (net[d] \o s) :
          \/ i \in DOMAIN net[d] /\ (net[d] \o s)[i] = net[d][i]
          \/ \E j \in DOMAIN s : (net[d] \o s)[i] = s[j]
    BY <2>1, Concatenated
  <2> QED BY <2>1, <2>2, <2>3, Zenon
<1>6. net' \in [Parties -> Seq(Piece)] /\ net'[d] = net[d] \o s
      /\ \A e \in Parties : e # d => net'[e] = net[e] /\ sndAt'[e] = sndAt[e]
  <2> HIDE DEF Piece
  <2> QED BY <1>1, <1>4, <1>5
<1>7. AllAnswers(net'["server"])
  <2>1. CASE d = "server"
    <3>1. /\ \A i \in DOMAIN net[d] : IsAnswer(net[d][i][1])
          /\ IsAnswer(sndBuff[d])
      BY <1>1, <2>1 DEF Answers, AllAnswers
    <3>2. \A i \in DOMAIN (net[d] \o s) : IsAnswer((net[d] \o s)[i][1])
      BY <1>2, <1>3, <1>5, <3>1
    <3> QED BY <1>6, <2>1, <3>2 DEF AllAnswers
  <2>2. CASE d # "server"
    BY <1>6, <2>2 DEF Answers, AllAnswers, Parties
  <2> QED BY <2>1, <2>2
<1>8. /\ sndAt' \in [Parties -> 0 .. Parts - 1]
      /\ sndAt'[d] = IF LastOf(d, k) THEN 0 ELSE sndAt[d] + k
  <2>1. CASE LastOf(d, k)
    BY <1>1, <1>4, <2>1, PartsArithmetic DEF LastOf
  <2>2. CASE ~LastOf(d, k)
    <3>1. sndAt[d] + k \in 0 .. Parts - 1
      <4>1. Parts \in Nat
        BY PartsArithmetic
      <4>2. sndAt[d] \in 0 .. Parts - 1 /\ k \in Nat /\ sndAt[d] + k # Parts
        BY <1>1, <2>2, <4>1 DEF LastOf
      <4> QED BY <1>4, <4>1, <4>2, SMTT(30)
    <3> QED BY <1>1, <1>4, <2>2, <3>1, PartsArithmetic
  <2> QED BY <2>1, <2>2
<1> QED BY <1>1, <1>4, <1>5, <1>6, <1>7, <1>8

(* One recv(2), and the pieces there are then.                             *)
LEMMA Received ==
  ASSUME Types, Answers, NEW d \in Parties, NEW k \in 1 .. Parts,
         socketRecv(d, k)
  PROVE  /\ net' \in [Parties -> Seq(Piece)] /\ AllAnswers(net'["server"])
         /\ Len(net'[Other(d)]) = Len(net[Other(d)]) - k
         /\ net'[d] = net[d]
         /\ With(d, k) \in Seq(Piece)
         /\ Len(With(d, k)) = Len(rcvBuff[d]) + k
         /\ d = "proxy" => AllAnswers(With(d, k))
<1> DEFINE o == Other(d)
           n == net[o]
           t == SubSeq(n, k + 1, Len(n))
           h == SubSeq(n, 1, k)
           b == rcvBuff[d]
<1>1. o \in Parties /\ o # d
  BY Others
<1>2. /\ n \in Seq(Piece) /\ b \in Seq(Piece) /\ k \in Nat /\ k >= 1
      /\ net \in [Parties -> Seq(Piece)] /\ k <= Len(n)
  BY <1>1, PartsArithmetic DEF Types, socketRecv
<1>3. net' = [net EXCEPT ![o] = t] /\ With(d, k) = b \o h
  <2>1. Least(k, Len(n)) = k
    BY <1>2 DEF Least
  <2>2. net' = [net EXCEPT ![o] = SubSeq(@, k + 1, Len(@))]
    BY DEF socketRecv
  <2>3. With(d, k) = b \o SubSeq(n, 1, Least(k, Len(n)))
    BY DEF With
  <2> QED BY <2>1, <2>2, <2>3
<1>4. /\ t \in Seq(Piece) /\ Len(t) = Len(n) - k
      /\ \A i \in DOMAIN t : t[i] = n[i + k] /\ i + k \in DOMAIN n
  <2> HIDE DEF Piece, n
  <2> QED BY <1>2
<1>5. /\ h \in Seq(Piece) /\ Len(h) = k
      /\ \A i \in DOMAIN h : h[i] = n[i] /\ i \in DOMAIN n
  <2> HIDE DEF Piece, n
  <2> QED BY <1>2
<1> HIDE DEF t, h
<1>6. /\ b \o h \in Seq(Piece) /\ Len(b \o h) = Len(b) + k
      /\ \A i \in DOMAIN (b \o h) :
           \/ i \in DOMAIN b /\ (b \o h)[i] = b[i]
           \/ \E j \in DOMAIN h : (b \o h)[i] = h[j]
  <2>1. b \in Seq(Piece) /\ h \in Seq(Piece) /\ Len(h) = k
    BY <1>2, <1>5
  <2> HIDE DEF b, n, o, Piece
  <2>2. b \o h \in Seq(Piece) /\ Len(b \o h) = Len(b) + Len(h)
    BY <2>1, Concatenated
  <2>3. \A i \in DOMAIN (b \o h) :
          \/ i \in DOMAIN b /\ (b \o h)[i] = b[i]
          \/ \E j \in DOMAIN h : (b \o h)[i] = h[j]
    BY <2>1, Concatenated
  <2> QED BY <2>1, <2>2, <2>3, Zenon
<1>7. /\ net' \in [Parties -> Seq(Piece)] /\ net'[o] = t /\ net'[d] = net[d]
  <2> HIDE DEF Piece, o
  <2> QED BY <1>1, <1>2, <1>3, <1>4
<1>8. AllAnswers(net'["server"])
  <2>1. CASE o = "server"
    BY <1>4, <1>7, <2>1 DEF Answers, AllAnswers
  <2>2. CASE o # "server"
    <3>1. d = "server"
      BY <1>1, <2>2 DEF Parties
    <3> QED BY <1>7, <3>1 DEF Answers
  <2> QED BY <2>1, <2>2
<1>9. d = "proxy" => AllAnswers(b \o h)
  <2>1. d = "proxy" => o = "server"
    BY Others
  <2> QED BY <1>5, <1>6, <2>1 DEF Answers, AllAnswers
<1> QED BY <1>3, <1>4, <1>6, <1>7, <1>8, <1>9

(* The numbers that Counts adds up.                                        *)
LEMMA Measures ==
  ASSUME Types, NEW d \in Parties
  PROVE  /\ Len(used[d]) \in Nat /\ Recvd(d) \in Nat /\ Left(d) \in Nat
         /\ Len(net[d]) \in Nat /\ Len(rcvBuff[d]) \in Nat
         /\ Len(used[d]) - Recvd(Other(d)) \in Int
<1>1. \A e \in Parties : inKey[e][2] \in Nat
  BY DEF Types, Key
<1>2. \A e \in Parties : Recvd(e) \in Nat
  BY <1>1 DEF Recvd
<1>3. Left(d) \in Nat
  <2>1. sndAt[d] \in 0 .. Parts - 1 /\ Parts \in Nat
    BY PartsArithmetic DEF Types
  <2> QED BY <2>1 DEF Left
<1>4. /\ used[d] \in Seq(Key) /\ net[d] \in Seq(Piece)
      /\ rcvBuff[d] \in Seq(Piece)
  BY DEF Types
<1>5. Len(used[d]) \in Nat /\ Len(net[d]) \in Nat /\ Len(rcvBuff[d]) \in Nat
  <2> HIDE DEF Key, Piece
  <2> QED BY <1>4
<1> QED BY <1>2, <1>3, <1>5, Others

(* Nobody's stage changes with what is none of his own.                    *)
LEMMA StageSame ==
  ASSUME NEW e \in Parties, Stage(e),
         phase'[e] = phase[e], used'[e] = used[e], src'[e] = src[e],
         sndBuff'[e] = sndBuff[e], sndPlace'[e] = sndPlace[e],
         sndAt'[e] = sndAt[e], inKey'[e] = inKey[e], outKey'[e] = outKey[e]
  PROVE  Stage(e)'
BY DEF Stage, Keyed, Next1

(* The count of chunks that nothing is done with stays.                    *)
LEMMA CountSame ==
  ASSUME NEW e \in Parties, Count(e), used'[e] = used[e],
         sndBuff'[e] = sndBuff[e], sndAt'[e] = sndAt[e], net'[e] = net[e],
         rcvBuff'[Other(e)] = rcvBuff[Other(e)],
         Recvd(Other(e))' = Recvd(Other(e))
  PROVE  Count(e)'
BY DEF Count, Pieces, Left

(* lib/net: part of a chunk is sent, and the rest of it is left.           *)
LEMMA SendPartStep ==
  ASSUME IInv, NEW d \in Parties, TCPSockSendPart(d)
  PROVE  IInv'
<1>0. Types /\ Answers /\ KeysUsed /\ Stages /\ Counts
  BY DEF IInv
<1>1. PICK k \in 1 .. Parts : socketSend(d, k) /\ ~LastOf(d, k)
  BY DEF TCPSockSendPart
<1>2. /\ phase' = phase /\ inKey' = inKey /\ outKey' = outKey /\ src' = src
      /\ sndPlace' = sndPlace /\ sndBuff' = sndBuff /\ used' = used
      /\ rcvBuff' = rcvBuff /\ fault' = fault
  BY DEF TCPSockSendPart, keyVars, rcvVars, history
<1>3. /\ net' \in [Parties -> Seq(Piece)] /\ AllAnswers(net'["server"])
      /\ Len(net'[d]) = Len(net[d]) + k
      /\ sndAt' \in [Parties -> 0 .. Parts - 1]
      /\ sndBuff[d] # None /\ k <= Parts - sndAt[d]
      /\ sndAt'[d] = sndAt[d] + k
      /\ \A e \in Parties :
           e # d => net'[e] = net[e] /\ sndAt'[e] = sndAt[e]
  BY <1>0, <1>1, Sent
<1>4. Types'
  BY <1>0, <1>2, <1>3 DEF Types
<1>5. Answers'
  BY <1>0, <1>2, <1>3 DEF Answers, AllAnswers, IsAnswer
<1>6. KeysUsed'
  BY <1>0, <1>2 DEF KeysUsed
<1>7. Stages'
  <2> SUFFICES ASSUME NEW e \in Parties
               PROVE  Stage(e)'
    BY DEF Stages
  <2>1. CASE e # d
    BY <1>0, <1>2, <1>3, <2>1, StageSame DEF Stages
  <2>2. CASE e = d
    <3>1. Stage(d)
      BY <1>0 DEF Stages
    <3> QED BY <1>2, <1>3, <2>2, <3>1 DEF Stage, Keyed, Next1
  <2> QED BY <2>1, <2>2
<1>8. Counts'
  <2> SUFFICES ASSUME Alive', NEW e \in Parties
               PROVE  Count(e)'
    BY DEF Counts
  <2>1. Count(e) /\ Other(e) \in Parties
    BY <1>0, <1>2, Others DEF Counts, Alive
  <2>2. \A o \in Parties : Recvd(o)' = Recvd(o)
    BY <1>2 DEF Recvd, Keyed
  <2>3. CASE e # d
    BY <1>2, <1>3, <2>1, <2>2, <2>3, CountSame
  <2>4. CASE e = d
    <3>1. Left(d)' = Left(d) - k
      <4>1. sndAt[d] \in Nat /\ Parts \in Nat /\ k \in Nat
        BY <1>0, PartsArithmetic DEF Types
      <4>2. Left(d) = Parts - sndAt[d] /\ Left(d)' = Parts - (sndAt[d] + k)
        BY <1>2, <1>3 DEF Left
      <4> QED BY <4>1, <4>2
    <3>2. /\ Left(d) \in Nat /\ Len(net[d]) \in Nat /\ k \in Nat
          /\ Len(rcvBuff[Other(d)]) \in Nat
      BY <1>0, <2>1, <2>4, Measures, PartsArithmetic
    <3>3. /\ used' = used /\ Recvd(Other(d))' = Recvd(Other(d))
          /\ rcvBuff' = rcvBuff /\ Len(net'[d]) = Len(net[d]) + k
      BY <1>2, <1>3, <2>1, <2>2, <2>4
    <3> QED BY <2>1, <2>4, <3>1, <3>2, <3>3 DEF Count, Pieces
  <2> QED BY <2>3, <2>4
<1> QED BY <1>4, <1>5, <1>6, <1>7, <1>8 DEF IInv

(* A step that begins a chunk, opens one, or moves pieces only.            *)
LEMMA CountMoves ==
  ASSUME Types, NEW d \in Parties, Count(d),
         \/ /\ Len(used'[d]) = Len(used[d])
            /\ Recvd(Other(d))' = Recvd(Other(d)) /\ Pieces(d)' = Pieces(d)
         \/ /\ Len(used'[d]) = Len(used[d]) + 1
            /\ Recvd(Other(d))' = Recvd(Other(d))
            /\ Pieces(d)' = Pieces(d) + Parts
         \/ /\ Len(used'[d]) = Len(used[d])
            /\ Recvd(Other(d))' = Recvd(Other(d)) + 1
            /\ Pieces(d)' = Pieces(d) - Parts
  PROVE  Count(d)'
<1> DEFINE u == Len(used[d])
           r == Recvd(Other(d))
           p == Pieces(d)
<1>1. u \in Nat /\ r \in Nat /\ p \in Nat
  <2>1. /\ Left(d) \in Nat /\ Len(net[d]) \in Nat
        /\ Len(rcvBuff[Other(d)]) \in Nat /\ u \in Nat /\ r \in Nat
    <3>1. Other(d) \in Parties
      BY Others
    <3> QED BY <3>1, Measures
  <2> QED BY <2>1 DEF Pieces
<1>2. (u - r) * Parts = p
  BY DEF Count
<1>3. /\ ((u + 1) - r) * Parts = (u - r) * Parts + Parts
      /\ (u - (r + 1)) * Parts = (u - r) * Parts - Parts
  <2>1. u - r \in Int /\ (u + 1) - r = (u - r) + 1 /\ u - (r + 1) = (u - r) - 1
    BY <1>1
  <2> HIDE DEF u, r
  <2> QED BY <2>1, PartsArithmetic
<1> DEFINE u1 == Len(used'[d])
           r1 == Recvd(Other(d))'
           p1 == Pieces(d)'
<1>4. Count(d)' <=> (u1 - r1) * Parts = p1
  BY DEF Count
<1>5. \/ u1 = u /\ r1 = r /\ p1 = p
      \/ u1 = u + 1 /\ r1 = r /\ p1 = p + Parts
      \/ u1 = u /\ r1 = r + 1 /\ p1 = p - Parts
  OBVIOUS
<1> HIDE DEF u, r, p, u1, r1, p1
<1>6. (u1 - r1) * Parts = p1
  <2>1. CASE u1 = u /\ r1 = r /\ p1 = p
    BY <1>2, <2>1
  <2>2. CASE u1 = u + 1 /\ r1 = r /\ p1 = p + Parts
    <3>1. (u1 - r1) * Parts = ((u + 1) - r) * Parts
      BY <2>2, Zenon
    <3> QED BY <1>2, <1>3, <2>2, <3>1, Zenon
  <2>3. CASE u1 = u /\ r1 = r + 1 /\ p1 = p - Parts
    <3>1. (u1 - r1) * Parts = (u - (r + 1)) * Parts
      BY <2>3, Zenon
    <3> QED BY <1>2, <1>3, <2>3, <3>1, Zenon
  <2> QED BY <1>5, <2>1, <2>2, <2>3
<1> QED BY <1>4, <1>6

(* The last piece of a chunk is sent.                                      *)
LEMMA LastSent ==
  ASSUME IInv, NEW d \in Parties, NEW k \in 1 .. Parts, socketSend(d, k),
         LastOf(d, k)
  PROVE  /\ net' \in [Parties -> Seq(Piece)] /\ AllAnswers(net'["server"])
         /\ sndAt' \in [Parties -> 0 .. Parts - 1] /\ sndAt'[d] = 0
         /\ sndBuff[d] # None /\ Left(d) = k
         /\ Len(net'[d]) = Len(net[d]) + Left(d)
         /\ \A e \in Parties :
              e # d => net'[e] = net[e] /\ sndAt'[e] = sndAt[e]
<1>0. Types /\ Answers
  BY DEF IInv
<1>1. /\ net' \in [Parties -> Seq(Piece)] /\ AllAnswers(net'["server"])
      /\ sndAt' \in [Parties -> 0 .. Parts - 1] /\ sndAt'[d] = 0
      /\ sndBuff[d] # None /\ Len(net'[d]) = Len(net[d]) + k
      /\ \A e \in Parties :
           e # d => net'[e] = net[e] /\ sndAt'[e] = sndAt[e]
  BY <1>0, Sent
<1>2. Left(d) = k
  <2>1. sndAt[d] \in Nat /\ Parts \in Nat /\ k \in Nat
    BY <1>0, PartsArithmetic DEF Types
  <2>2. sndAt[d] + k = Parts /\ Left(d) = Parts - sndAt[d]
    BY <1>1 DEF LastOf, Left
  <2> QED BY <2>1, <2>2
<1> QED BY <1>1, <1>2

(* The end of a chunk that no other follows: in the handshake, or at the   *)
(* end of a message.                                                       *)
LEMMA ChunkEnds ==
  ASSUME IInv, NEW d \in Parties, TCPSockSend(d),
         phase' \in [Parties -> Phases],
         phase'[d] # "dead" => phase[d] # "dead",
         sndBuff' = [sndBuff EXCEPT ![d] = None],
         inKey' \in [Parties -> Key], outKey' \in [Parties -> Key],
         src' \in [Parties -> Seq(Unit) \cup {None}],
         sndPlace' \in [Parties -> Nat],
         \A e \in Parties : e # d =>
           /\ phase'[e] = phase[e] /\ inKey'[e] = inKey[e]
           /\ outKey'[e] = outKey[e] /\ src'[e] = src[e]
           /\ sndPlace'[e] = sndPlace[e],
         used' = used, rcvBuff' = rcvBuff, fault' = fault,
         sndAt'[d] = 0 => Stage(d)', Recvd(d)' = Recvd(d)
  PROVE  IInv'
<1>0. Types /\ Answers /\ KeysUsed /\ Stages /\ Counts
  BY DEF IInv
<1>1. PICK k \in 1 .. Parts : socketSend(d, k) /\ LastOf(d, k)
  BY DEF TCPSockSend
<1>2. /\ net' \in [Parties -> Seq(Piece)] /\ AllAnswers(net'["server"])
      /\ sndAt' \in [Parties -> 0 .. Parts - 1] /\ sndAt'[d] = 0
      /\ sndBuff[d] # None /\ Len(net'[d]) = Len(net[d]) + Left(d)
      /\ \A e \in Parties :
           e # d => net'[e] = net[e] /\ sndAt'[e] = sndAt[e]
  BY <1>1, LastSent
<1>3. /\ sndBuff' \in [Parties -> Chunks \cup {None}] /\ sndBuff'[d] = None
      /\ \A e \in Parties : e # d => sndBuff'[e] = sndBuff[e]
  BY <1>0 DEF Types
<1>4. Types'
  BY <1>0, <1>2, <1>3 DEF Types
<1>5. Answers'
  <2>1. sndBuff'["server"] # None => IsAnswer(sndBuff'["server"])
    BY <1>0, <1>3 DEF Answers, Parties
  <2> QED BY <1>0, <1>2, <2>1 DEF Answers, AllAnswers, IsAnswer
<1>6. KeysUsed'
  BY <1>0 DEF KeysUsed
<1>7. Stages'
  <2> SUFFICES ASSUME NEW e \in Parties
               PROVE  Stage(e)'
    BY DEF Stages
  <2>1. CASE e # d
    BY <1>0, <1>2, <1>3, <2>1, StageSame DEF Stages
  <2>2. CASE e = d
    BY <1>2, <2>2
  <2> QED BY <2>1, <2>2
<1>8. Counts'
  <2> SUFFICES ASSUME Alive', NEW e \in Parties
               PROVE  Count(e)'
    BY DEF Counts
  <2>1. Count(e) /\ Other(e) \in Parties /\ Other(e) # e
    BY <1>0, Others DEF Counts, Alive
  <2>2. \A o \in Parties : Recvd(o)' = Recvd(o)
    <3>1. \A o \in Parties : o # d => Recvd(o)' = Recvd(o)
      BY DEF Recvd, Keyed
    <3> QED BY <3>1
  <2>3. CASE e # d
    BY <1>2, <1>3, <2>1, <2>2, <2>3, CountSame
  <2>4. CASE e = d
    <3>1. Left(d)' = 0
      BY <1>3 DEF Left
    <3>2. /\ Left(d) \in Nat /\ Len(net[d]) \in Nat
          /\ Len(rcvBuff[Other(d)]) \in Nat
      BY <1>0, <2>1, <2>4, Measures
    <3>3. Pieces(d)' = Pieces(d)
      BY <1>2, <3>1, <3>2 DEF Pieces
    <3> QED BY <1>0, <2>1, <2>2, <2>4, <3>3, CountMoves
  <2> QED BY <2>3, <2>4
<1> QED BY <1>4, <1>5, <1>6, <1>7, <1>8 DEF IInv

(* The ends of the handshake's chunks.                                     *)
LEMMA HelloSentStep ==
  ASSUME IInv, HelloSent
  PROVE  IInv'
<1> DEFINE d == "proxy"
<1>0. Types /\ Stage(d) /\ d \in Parties
  BY DEF IInv, Stages, Parties
<1>1. /\ phase[d] = "sendHello" /\ TCPSockSend(d)
      /\ phase' = [phase EXCEPT ![d] = "answer"]
      /\ sndBuff' = [sndBuff EXCEPT ![d] = None]
      /\ inKey' = inKey /\ outKey' = outKey /\ src' = src /\ used' = used
      /\ sndPlace' = sndPlace /\ rcvBuff' = rcvBuff /\ fault' = fault
  BY DEF HelloSent, keyVars, rcvVars, history
<1>2. /\ phase' \in [Parties -> Phases] /\ phase'[d] = "answer"
      /\ \A e \in Parties : e # d => phase'[e] = phase[e]
      /\ sndBuff'[d] = None
  BY <1>0, <1>1 DEF Types, Phases
<1>3. sndAt'[d] = 0 => Stage(d)'
  BY <1>0, <1>1, <1>2 DEF Stage, Keyed, Next1
<1>4. Recvd(d)' = Recvd(d)
  BY <1>1, <1>2 DEF Recvd, Keyed
<1> HIDE DEF d
<1> QED BY <1>0, <1>1, <1>2, <1>3, <1>4, ChunkEnds DEF Types

(* SprotServerHandshake: the answer is sent, and the server has its keys.  *)
LEMMA AnswerSentStep ==
  ASSUME IInv, AnswerSent
  PROVE  IInv'
<1> DEFINE d == "server"
<1>0. Types /\ Stage(d) /\ d \in Parties
  BY DEF IInv, Stages, Parties
<1>1. /\ phase[d] = "sendAnswer" /\ TCPSockSend(d)
      /\ inKey' = [inKey EXCEPT ![d] = ServerIn]
      /\ outKey' = [outKey EXCEPT ![d] = ServerOut]
      /\ phase' = [phase EXCEPT ![d] = "login"]
      /\ sndBuff' = [sndBuff EXCEPT ![d] = None]
      /\ src' = src /\ used' = used
      /\ sndPlace' = sndPlace /\ rcvBuff' = rcvBuff /\ fault' = fault
  BY DEF AnswerSent, rcvVars, history
<1>2. /\ phase' \in [Parties -> Phases] /\ phase'[d] = "login"
      /\ \A e \in Parties : e # d => phase'[e] = phase[e]
      /\ sndBuff'[d] = None
  BY <1>0, <1>1 DEF Types, Phases
<1>3. ServerIn \in Key /\ ServerOut \in Key
  BY DEF ServerIn, ServerOut, Key
<1>4. /\ inKey' \in [Parties -> Key] /\ inKey'[d] = ServerIn
      /\ outKey' \in [Parties -> Key] /\ outKey'[d] = ServerOut
      /\ \A e \in Parties :
           e # d => inKey'[e] = inKey[e] /\ outKey'[e] = outKey[e]
  <2> HIDE DEF Key
  <2> QED BY <1>0, <1>1, <1>3 DEF Types
<1>5. ServerIn[1] = Dir(Other(d)) /\ ServerIn[2] = 0
  BY Others DEF ServerIn, Dir
<1>6. ServerOut = KeyOf(d, 2)
  BY DEF ServerOut, KeyOf, Dir
<1>7. sndAt'[d] = 0 => Stage(d)'
  <2>1. Len(used[d]) = 1
    BY <1>0, <1>1 DEF Stage
  <2>2. Next1(d)' = 2
    BY <1>1, <1>2, <2>1 DEF Next1
  <2> HIDE DEF d
  <2> QED BY <1>0, <1>1, <1>2, <1>4, <1>5, <1>6, <2>1, <2>2 DEF Stage, Keyed
<1>8. Recvd(d)' = Recvd(d)
  BY <1>1, <1>2, <1>4, <1>5 DEF Recvd, Keyed
<1> HIDE DEF d
<1> QED BY <1>0, <1>1, <1>2, <1>4, <1>7, <1>8, ChunkEnds DEF Types

(* sendLogin: its key is ratcheted, and the tunnel is there.               *)
LEMMA LoginSentStep ==
  ASSUME IInv, LoginSent
  PROVE  IInv'
<1> DEFINE d == "proxy"
<1>0. Types /\ Stage(d) /\ d \in Parties
  BY DEF IInv, Stages, Parties
<1>1. /\ phase[d] = "sendLogin" /\ TCPSockSend(d)
      /\ outKey' = [outKey EXCEPT ![d] = naclRatchet(@)]
      /\ phase' = [phase EXCEPT ![d] = "tunnel"]
      /\ sndBuff' = [sndBuff EXCEPT ![d] = None]
      /\ inKey' = inKey /\ src' = src /\ used' = used
      /\ sndPlace' = sndPlace /\ rcvBuff' = rcvBuff /\ fault' = fault
  BY DEF LoginSent, SPEncryptFinish, rcvVars, history
<1>2. /\ phase' \in [Parties -> Phases] /\ phase'[d] = "tunnel"
      /\ \A e \in Parties : e # d => phase'[e] = phase[e]
      /\ sndBuff'[d] = None
  BY <1>0, <1>1 DEF Types, Phases
<1>3. outKey[d] = KeyOf(d, 2) /\ Len(used[d]) = 2
  <2>1. sndBuff[d] # None /\ Len(used[d]) = 2 /\ outKey[d] = KeyOf(d, Next1(d))
    BY <1>0, <1>1 DEF Stage, Keyed
  <2>2. Next1(d) = 2
    BY <2>1 DEF Next1
  <2> QED BY <2>1, <2>2
<1>4. naclRatchet(outKey[d]) = KeyOf(d, 3) /\ naclRatchet(outKey[d]) \in Key
  <2>1. naclRatchet(KeyOf(d, 2)) = KeyOf(d, 2 + 1) /\ KeyOf(d, 3) \in Key
    BY <1>0, KeysDiffer
  <2> QED BY <1>3, <2>1
<1>5. /\ outKey' \in [Parties -> Key] /\ outKey'[d] = KeyOf(d, 3)
      /\ \A e \in Parties : e # d => outKey'[e] = outKey[e]
  <2> HIDE DEF Key, d
  <2> QED BY <1>0, <1>1, <1>4 DEF Types
<1>6. sndAt'[d] = 0 => Stage(d)'
  <2>1. Next1(d)' = 3
    BY <1>1, <1>2, <1>3 DEF Next1
  <2> HIDE DEF d
  <2> QED BY <1>0, <1>1, <1>2, <1>3, <1>5, <2>1 DEF Stage, Keyed
<1>7. Recvd(d)' = Recvd(d)
  BY <1>1, <1>2 DEF Recvd, Keyed
<1> HIDE DEF d
<1> QED BY <1>0, <1>1, <1>2, <1>5, <1>6, <1>7, ChunkEnds DEF Types

(* A step that does none of this.                                          *)
LEMMA SameStep ==
  ASSUME IInv, net' = net, phase' = phase, inKey' = inKey, outKey' = outKey,
         src' = src, sndPlace' = sndPlace, sndBuff' = sndBuff,
         sndAt' = sndAt, rcvBuff' = rcvBuff, used' = used, fault' = fault
  PROVE  IInv'
<1>0. Types /\ Answers /\ KeysUsed /\ Stages /\ Counts
  BY DEF IInv
<1>1. Types'
  BY <1>0 DEF Types
<1>2. Answers'
  BY <1>0 DEF Answers, AllAnswers, IsAnswer
<1>3. KeysUsed'
  BY <1>0 DEF KeysUsed
<1>4. Stages'
  BY <1>0, StageSame DEF Stages
<1>5. Counts'
  <2> SUFFICES ASSUME Alive', NEW e \in Parties
               PROVE  Count(e)'
    BY DEF Counts
  <2>1. Count(e) /\ Recvd(Other(e))' = Recvd(Other(e))
    BY <1>0 DEF Counts, Alive, Recvd, Keyed
  <2> QED BY <2>1, CountSame
<1> QED BY <1>1, <1>2, <1>3, <1>4, <1>5 DEF IInv

(* A chunk is begun: there is nothing left of the one before.              *)
LEMMA ChunkBegins ==
  ASSUME IInv, NEW d \in Parties, NEW key, NEW body \in Bodies,
         Encrypt(d, key, body), key = KeyOf(d, Len(used[d]) + 1),
         d = "server" /\ key = Ephemeral => body = Answer,
         net' \in [Parties -> Seq(Piece)], AllAnswers(net'["server"]),
         Len(net'[d]) = Len(net[d]) + Left(d),
         sndAt' \in [Parties -> 0 .. Parts - 1], sndAt'[d] = 0,
         phase' \in [Parties -> Phases],
         phase'[d] # "dead" => phase[d] # "dead",
         outKey' \in [Parties -> Key],
         src' \in [Parties -> Seq(Unit) \cup {None}],
         sndPlace' \in [Parties -> Nat],
         \A e \in Parties : e # d =>
           /\ net'[e] = net[e] /\ sndAt'[e] = sndAt[e]
           /\ phase'[e] = phase[e] /\ outKey'[e] = outKey[e]
           /\ src'[e] = src[e] /\ sndPlace'[e] = sndPlace[e],
         inKey' = inKey, rcvBuff' = rcvBuff, fault' = fault,
         sndBuff'[d] # None /\ Len(used'[d]) = Len(used[d]) + 1 => Stage(d)',
         Recvd(d)' = Recvd(d)
  PROVE  IInv'
<1>0. Types /\ Answers /\ KeysUsed /\ Stages /\ Counts
  BY DEF IInv
<1>1. /\ sndBuff' \in [Parties -> Chunks \cup {None}]
      /\ used' \in [Parties -> Seq(Key)] /\ KeysUsed'
      /\ sndBuff'[d] # None /\ Len(used'[d]) = Len(used[d]) + 1
      /\ \A e \in Parties :
           e # d => sndBuff'[e] = sndBuff[e] /\ used'[e] = used[e]
      /\ d = "server" => IsAnswer(sndBuff'[d])
  BY <1>0, Encrypts
<1>2. Types'
  BY <1>0, <1>1 DEF Types
<1>3. Answers'
  <2>1. sndBuff'["server"] # None => IsAnswer(sndBuff'["server"])
    BY <1>0, <1>1 DEF Answers, Parties
  <2> QED BY <1>0, <2>1 DEF Answers, AllAnswers, IsAnswer
<1>4. Stages'
  <2> SUFFICES ASSUME NEW e \in Parties
               PROVE  Stage(e)'
    BY DEF Stages
  <2>1. CASE e # d
    BY <1>0, <1>1, <2>1, StageSame DEF Stages
  <2>2. CASE e = d
    BY <1>1, <2>2
  <2> QED BY <2>1, <2>2
<1>5. Counts'
  <2> SUFFICES ASSUME Alive', NEW e \in Parties
               PROVE  Count(e)'
    BY DEF Counts
  <2>1. Count(e) /\ Other(e) \in Parties /\ Other(e) # e
    BY <1>0, Others DEF Counts, Alive
  <2>2. \A o \in Parties : Recvd(o)' = Recvd(o)
    <3>1. \A o \in Parties : o # d => Recvd(o)' = Recvd(o)
      BY DEF Recvd, Keyed
    <3> QED BY <3>1
  <2>3. CASE e # d
    BY <1>1, <2>1, <2>2, <2>3, CountSame
  <2>4. CASE e = d
    <3>1. Left(d)' = Parts
      <4>1. Parts \in Nat
        BY PartsArithmetic
      <4> QED BY <1>1, <4>1 DEF Left
    <3>2. /\ Left(d) \in Nat /\ Len(net[d]) \in Nat /\ Parts \in Nat
          /\ Len(rcvBuff[Other(d)]) \in Nat
      BY <1>0, <2>1, <2>4, Measures, PartsArithmetic
    <3>3. Pieces(d)' = Pieces(d) + Parts
      BY <3>1, <3>2, SMTT(30) DEF Pieces
    <3> QED BY <1>0, <1>1, <2>1, <2>2, <2>4, <3>3, CountMoves
  <2> QED BY <2>3, <2>4
<1> QED BY <1>1, <1>2, <1>3, <1>4, <1>5 DEF IInv

(* A chunk is complete: it is opened, and perhaps answered, or it ends the *)
(* connection.                                                             *)
LEMMA ChunkReceived ==
  ASSUME IInv, NEW d \in Parties, NEW buf, TCPSockRecv(d, buf),
         phase' \in [Parties -> Phases], inKey' \in [Parties -> Key],
         outKey' \in [Parties -> Key], used' \in [Parties -> Seq(Key)],
         sndBuff' \in [Parties -> Chunks \cup {None}], KeysUsed',
         d = "server" /\ sndBuff'[d] # None => IsAnswer(sndBuff'[d]),
         \A e \in Parties : e # d =>
           /\ phase'[e] = phase[e] /\ inKey'[e] = inKey[e]
           /\ outKey'[e] = outKey[e] /\ used'[e] = used[e]
           /\ sndBuff'[e] = sndBuff[e],
         src' = src, sndPlace' = sndPlace, sndAt' = sndAt, fault' = fault,
         Stage(d)',
         phase'[d] # "dead" =>
           /\ phase[d] # "dead" /\ Recvd(d)' = Recvd(d) + 1
           /\ \/ used'[d] = used[d] /\ sndBuff'[d] = sndBuff[d]
              \/ /\ Len(used'[d]) = Len(used[d]) + 1 /\ sndAt[d] = 0
                 /\ sndBuff[d] = None /\ sndBuff'[d] # None
  PROVE  IInv'
<1> DEFINE o == Other(d)
<1>0. /\ Types /\ Answers /\ KeysUsed /\ Stages /\ Counts
      /\ o \in Parties /\ o # d /\ Other(o) = d
  BY Others DEF IInv
<1>1. PICK k \in 1 .. Parts : /\ socketRecv(d, k)
                              /\ Len(rcvBuff[d]) + k = Parts
  BY DEF TCPSockRecv
<1>2. rcvBuff' = [rcvBuff EXCEPT ![d] = <<>>]
  BY DEF TCPSockRecv
<1> HIDE DEF o
<1>3. /\ net' \in [Parties -> Seq(Piece)] /\ AllAnswers(net'["server"])
      /\ Len(net'[o]) = Len(net[o]) - k /\ net'[d] = net[d]
  BY <1>0, <1>1, Received DEF o
<1>4. /\ rcvBuff' \in [Parties -> Seq(Piece)] /\ rcvBuff'[d] = <<>>
      /\ \A e \in Parties : e # d => rcvBuff'[e] = rcvBuff[e]
  <2> HIDE DEF Piece
  <2>1. <<>> \in Seq(Piece)
    OBVIOUS
  <2> QED BY <1>0, <1>2, <2>1 DEF Types
<1>5. Types'
  BY <1>0, <1>3, <1>4 DEF Types
<1>6. Answers'
  <2>1. sndBuff'["server"] # None => IsAnswer(sndBuff'["server"])
    <3>1. CASE d = "server"
      BY <3>1
    <3>2. CASE d # "server"
      BY <1>0, <3>2 DEF Answers, Parties
    <3> QED BY <3>1, <3>2
  <2>2. AllAnswers(rcvBuff'["proxy"])
    <3>1. CASE d = "proxy"
      BY <1>4, <3>1 DEF AllAnswers
    <3>2. CASE d # "proxy"
      BY <1>0, <1>4, <3>2 DEF Answers, Parties
    <3> QED BY <3>1, <3>2
  <2> QED BY <1>3, <2>1, <2>2 DEF Answers, AllAnswers, IsAnswer
<1>7. Stages'
  <2> SUFFICES ASSUME NEW e \in Parties
               PROVE  Stage(e)'
    BY DEF Stages
  <2>1. CASE e # d
    BY <1>0, <2>1, StageSame DEF Stages
  <2>2. CASE e = d
    BY <2>2
  <2> QED BY <2>1, <2>2
<1>8. Counts'
  <2> SUFFICES ASSUME Alive'
               PROVE  Count(d)' /\ Count(o)'
    BY <1>0 DEF Counts, Parties
  <2>1. Count(d) /\ Count(o) /\ phase'[d] # "dead"
    BY <1>0 DEF Counts, Alive
  <2>2. Recvd(o)' = Recvd(o) /\ Recvd(d)' = Recvd(d) + 1
    BY <1>0, <2>1 DEF Recvd, Keyed
  <2>3. /\ Left(d) \in Nat /\ Len(net[d]) \in Nat /\ Len(rcvBuff[d]) \in Nat
        /\ Left(o) \in Nat /\ Len(net[o]) \in Nat /\ Len(rcvBuff[o]) \in Nat
        /\ Parts \in Nat /\ k \in Nat
    BY <1>0, Measures, PartsArithmetic
  <2>4. Count(o)'
    <3>1. Left(o)' = Left(o) /\ rcvBuff'[d] = <<>> /\ used'[o] = used[o]
      BY <1>0, <1>4 DEF Left
    <3>2. Pieces(o)' = Pieces(o) - Parts
      <4>1. Pieces(o)' = Left(o) + (Len(net[o]) - k) + 0
        BY <1>0, <1>3, <3>1 DEF Pieces
      <4>2. Pieces(o) = Left(o) + Len(net[o]) + Len(rcvBuff[d])
        BY <1>0 DEF Pieces
      <4> QED BY <1>1, <2>3, <4>1, <4>2, SMTT(30)
    <3> QED BY <1>0, <2>1, <2>2, <3>1, <3>2, CountMoves
  <2>5. CASE used'[d] = used[d] /\ sndBuff'[d] = sndBuff[d]
    <3>1. Count(d)'
      BY <1>0, <1>3, <1>4, <2>1, <2>2, <2>5, CountSame DEF o
    <3> QED BY <2>4, <3>1
  <2>6. CASE /\ Len(used'[d]) = Len(used[d]) + 1 /\ sndAt[d] = 0
             /\ sndBuff[d] = None /\ sndBuff'[d] # None
    <3>1. Left(d) = 0 /\ Left(d)' = Parts
      BY <2>3, <2>6 DEF Left
    <3>2. Pieces(d)' = Pieces(d) + Parts
      <4>1. net'[d] = net[d] /\ rcvBuff'[o] = rcvBuff[o]
        BY <1>0, <1>3, <1>4
      <4>2. /\ Pieces(d) = Left(d) + Len(net[d]) + Len(rcvBuff[o])
            /\ Pieces(d)' = Left(d)' + Len(net'[d]) + Len(rcvBuff'[o])
        BY DEF Pieces, o
      <4>3. Pieces(d)' = Parts + Len(net[d]) + Len(rcvBuff[o])
        BY <3>1, <4>1, <4>2
      <4>4. Pieces(d) = 0 + Len(net[d]) + Len(rcvBuff[o])
        BY <3>1, <4>2
      <4>5. Parts + Len(net[d]) + Len(rcvBuff[o]) =
              (0 + Len(net[d]) + Len(rcvBuff[o])) + Parts
        <5>1. \A a, b, c \in Nat : c + a + b = (0 + a + b) + c
          OBVIOUS
        <5>2. Len(net[d]) \in Nat /\ Len(rcvBuff[o]) \in Nat /\ Parts \in Nat
          BY <2>3
        <5> QED BY <5>1, <5>2
      <4> QED BY <4>3, <4>4, <4>5, Zenon
    <3>3. Count(d)'
      BY <1>0, <2>1, <2>2, <2>6, <3>2, CountMoves DEF o
    <3> QED BY <2>4, <3>3
  <2> QED BY <2>1, <2>5, <2>6
<1> QED BY <1>5, <1>6, <1>7, <1>8 DEF IInv

(* What is sent: parts of messages, and what fills them up.                *)
LEMMA FilledIs ==
  ASSUME NEW s \in Seq(Unit), NEW from \in Nat, NEW size \in Nat
  PROVE  Filled(s, from, size) \in Seq(Unit)
<1>1. Random \in Unit
  BY DEF Random, Unit
<1>2. \A i \in 1 .. size : from + i <= Len(s) => s[from + i] \in Unit
  <2> HIDE DEF Unit
  <2>1. TAKE i \in 1 .. size
  <2>2. HAVE from + i <= Len(s)
  <2>3. from + i \in 1 .. Len(s)
    BY <2>2
  <2> QED BY <2>3
<1> HIDE DEF Unit
<1>3. Filled(s, from, size) \in [1 .. size -> Unit]
  BY <1>1, <1>2 DEF Filled
<1> QED BY <1>3

(* A message that is begun.                                                *)
LEMMA MessageIs ==
  ASSUME NEW d \in Parties, NEW i \in Nat, NEW len \in Nat, len # 0
  PROVE  /\ Message(d, i, len) \in Seq(Unit)
         /\ Len(Message(d, i, len)) = len /\ Message(d, i, len) # None
<1>1. \A j \in 1 .. len : <<d, i, j>> \in Unit
  BY DEF Unit, Parties
<1>2. Message(d, i, len) \in [1 .. len -> Unit]
  <2> HIDE DEF Unit
  <2> QED BY <1>1 DEF Message
<1>3. Message(d, i, len) \in Seq(Unit) /\ Len(Message(d, i, len)) = len
  <2> HIDE DEF Unit
  <2>1. DOMAIN Message(d, i, len) = 1 .. len
    BY DEF Message
  <2> QED BY <1>2, <2>1
<1> QED BY <1>3, SessionAssumption

(* The first chunk of a message begins with its length.                    *)
LEMMA FirstBody ==
  ASSUME NEW m \in Seq(Unit)
  PROVE  <<Length(Len(m))>> \o Filled(m, 0, Chunk - 1) \in Bodies
<1>1. Chunk - 1 \in Nat /\ Len(m) \in Nat
  BY SessionAssumption
<1>2. <<Length(Len(m))>> \in Seq(Unit)
  <2>1. Length(Len(m)) \in Unit
    BY <1>1 DEF Length, Unit
  <2> HIDE DEF Unit
  <2> QED BY <2>1
<1>3. Filled(m, 0, Chunk - 1) \in Seq(Unit)
  BY <1>1, FilledIs
<1>4. <<Length(Len(m))>> \o Filled(m, 0, Chunk - 1) \in Seq(Unit)
  BY <1>2, <1>3, Concatenated
<1> QED BY <1>4 DEF Bodies

(* SprotClientHandshake: the hello is sealed.                              *)
LEMMA ClientStartStep ==
  ASSUME IInv, ClientStart
  PROVE  IInv'
<1> DEFINE d == "proxy"
           body == <<"ephemeral public key">>
<1>0. Types /\ Answers /\ Stage(d) /\ d \in Parties
  BY DEF IInv, Stages, Parties
<1>1. /\ phase[d] = "start" /\ Encrypt(d, Static, body)
      /\ phase' = [phase EXCEPT ![d] = "sendHello"]
      /\ net' = net /\ inKey' = inKey /\ outKey' = outKey /\ src' = src
      /\ sndPlace' = sndPlace /\ sndAt' = sndAt /\ rcvBuff' = rcvBuff
      /\ fault' = fault
  BY DEF ClientStart, netVars, keyVars, rcvVars, history
<1>2. /\ phase' \in [Parties -> Phases] /\ phase'[d] = "sendHello"
      /\ \A e \in Parties : e # d => phase'[e] = phase[e]
  BY <1>0, <1>1 DEF Types, Phases
<1>3. KeyOf(d, 1) = Static /\ body \in Bodies /\ d # "server"
  BY DEF KeyOf, Bodies
<1> HIDE DEF d, body
<1>4. Len(used[d]) = 0 /\ sndBuff[d] = None /\ src[d] = None /\ sndAt[d] = 0
  BY <1>0, <1>1 DEF Stage
<1>5. Left(d) = 0 /\ Static = KeyOf(d, Len(used[d]) + 1)
  BY <1>3, <1>4 DEF Left
<1>6. sndBuff'[d] # None /\ Len(used'[d]) = Len(used[d]) + 1 => Stage(d)'
  <2> SUFFICES ASSUME sndBuff'[d] # None, Len(used'[d]) = Len(used[d]) + 1
               PROVE  Stage(d)'
    OBVIOUS
  <2>1. Len(used'[d]) = 1 /\ src'[d] = None /\ sndAt'[d] = 0
    BY <1>1, <1>4
  <2> QED BY <1>2, <2>1 DEF Stage, Keyed
<1>7. Recvd(d)' = Recvd(d)
  BY <1>1, <1>2 DEF Recvd, Keyed
<1>8. Len(net'[d]) = Len(net[d]) + Left(d)
  <2>1. Len(net[d]) \in Nat
    BY <1>0, Measures
  <2> QED BY <1>1, <1>5, <2>1
<1>9. AllAnswers(net'["server"])
  BY <1>0, <1>1 DEF Answers
<1> QED BY <1>0, <1>1, <1>2, <1>3, <1>4, <1>5, <1>6, <1>7, <1>8, <1>9,
          ChunkBegins DEF Types

(* TunnelSendP is given a message, by either program.                      *)
LEMMA MessageBegins ==
  ASSUME IInv, NEW d \in Parties, phase[d] = "tunnel", src[d] = None,
         NEW i \in Nat, NEW len \in Nat, len # 0,
         src' = [src EXCEPT ![d] = Message(d, i, len)],
         FirstFill(d, Message(d, i, len)),
         net' = net, phase' = phase, inKey' = inKey, outKey' = outKey,
         sndAt' = sndAt, rcvBuff' = rcvBuff, fault' = fault
  PROVE  IInv'
<1> DEFINE m == Message(d, i, len)
           body == <<Length(Len(m))>> \o Filled(m, 0, Chunk - 1)
<1>0. Types /\ Answers /\ Stage(d)
  BY DEF IInv, Stages
<1>1. m \in Seq(Unit) /\ Len(m) = len /\ m # None
  BY MessageIs
<1>2. body \in Bodies
  BY <1>1, FirstBody
<1>3. /\ sndPlace' = [sndPlace EXCEPT ![d] = Least(Len(m), Chunk - 1)]
      /\ Encrypt(d, outKey[d], body)
  BY DEF FirstFill
<1> HIDE DEF m, body
<1>4. /\ sndBuff[d] = None /\ Len(used[d]) >= 1 /\ sndAt[d] = 0
      /\ outKey[d] = KeyOf(d, Next1(d)) /\ inKey[d][1] = Dir(Other(d))
  BY <1>0 DEF Stage, Keyed
<1>5. Next1(d) = Len(used[d]) + 1 /\ Left(d) = 0
  BY <1>4 DEF Next1, Left
<1>6. Least(Len(m), Chunk - 1) \in Nat /\ Least(Len(m), Chunk - 1) >= 1
  <2>1. Chunk - 1 \in Nat /\ Chunk - 1 >= 1 /\ len >= 1
    BY SessionAssumption
  <2> QED BY <1>1, <2>1 DEF Least
<1>7. /\ src' \in [Parties -> Seq(Unit) \cup {None}] /\ src'[d] = m
      /\ sndPlace' \in [Parties -> Nat] /\ sndPlace'[d] >= 1
      /\ \A e \in Parties :
           e # d => src'[e] = src[e] /\ sndPlace'[e] = sndPlace[e]
  <2> HIDE DEF Unit
  <2> QED BY <1>0, <1>1, <1>3, <1>6 DEF Types, m
<1>8. outKey[d] # Ephemeral
  <2>1. Len(used[d]) + 1 \in Nat /\ Len(used[d]) + 1 >= 2
    BY <1>0, <1>4, Measures
  <2> QED BY <1>4, <1>5, <2>1, KeysDiffer
<1>9. sndBuff'[d] # None /\ Len(used'[d]) = Len(used[d]) + 1 => Stage(d)'
  <2> SUFFICES ASSUME sndBuff'[d] # None, Len(used'[d]) = Len(used[d]) + 1
               PROVE  Stage(d)'
    OBVIOUS
  <2>1. Next1(d)' = Len(used[d]) + 1 /\ Len(used[d]) \in Nat
    BY <1>0, Measures DEF Next1
  <2>2. outKey'[d] = KeyOf(d, Next1(d)')
    BY <1>4, <1>5, <2>1
  <2> QED BY <1>1, <1>4, <1>7, <2>1, <2>2 DEF Stage, Keyed
<1>10. Recvd(d)' = Recvd(d)
  BY DEF Recvd, Keyed
<1>11. Len(net'[d]) = Len(net[d]) + Left(d)
  BY <1>0, <1>5, Measures
<1>12. AllAnswers(net'["server"])
  BY <1>0 DEF Answers
<1> QED BY <1>0, <1>2, <1>3, <1>4, <1>5, <1>7, <1>8, <1>9, <1>10, <1>11,
           <1>12, ChunkBegins, ZenonT(30) DEF Types

(* handleClientSends begins a message.                                     *)
LEMMA ServerSendStep ==
  ASSUME NoEmptyMessage, IInv, Numbered, ServerSend
  PROVE  IInv'
<1>1. PICK len \in Lens["server"] :
        LET m == Message("server", Len(sent["server"]) + 1, len)
        IN  /\ src' = [src EXCEPT !["server"] = m]
            /\ FirstFill("server", m)
  BY DEF ServerSend
<1>2. len \in Nat /\ len # 0 /\ "server" \in Parties
  BY SessionAssumption DEF NoEmptyMessage, Parties
<1>3. /\ phase["server"] = "tunnel" /\ src["server"] = None
      /\ net' = net /\ phase' = phase /\ inKey' = inKey /\ outKey' = outKey
      /\ sndAt' = sndAt /\ rcvBuff' = rcvBuff /\ fault' = fault
  BY DEF ServerSend, netVars, keyVars, rcvVars
<1>4. Len(sent["server"]) + 1 \in Nat
  BY <1>2 DEF Numbered
<1> QED BY <1>1, <1>2, <1>3, <1>4, MessageBegins

(* readFromClientCB begins one.                                            *)
LEMMA ReadFromClientStep ==
  ASSUME IInv, Numbered, readFromClientCB
  PROVE  IInv'
<1>1. PICK len \in Lens["proxy"] :
        LET m == Message("proxy", Len(sent["proxy"]) + 1, len)
        IN  /\ src' = [src EXCEPT !["proxy"] = m]
            /\ FirstFill("proxy", m)
  BY DEF readFromClientCB
<1>2. len \in Nat /\ len # 0 /\ "proxy" \in Parties
  BY SessionAssumption DEF Parties
<1>3. /\ phase["proxy"] = "tunnel" /\ src["proxy"] = None
      /\ net' = net /\ phase' = phase /\ inKey' = inKey /\ outKey' = outKey
      /\ sndAt' = sndAt /\ rcvBuff' = rcvBuff /\ fault' = fault
  BY DEF readFromClientCB, netVars, keyVars
<1>4. Len(sent["proxy"]) + 1 \in Nat
  BY <1>2 DEF Numbered
<1> QED BY <1>1, <1>2, <1>3, <1>4, MessageBegins

(* The call is made again: its message has been begun, so that nothing is  *)
(* encrypted a second time.                                                *)
LEMMA ServerSendAgainStep ==
  ASSUME IInv, ServerSendAgain
  PROVE  IInv'
<1>1. sndPlace["server"] \in Nat /\ sndPlace["server"] >= 1
  BY DEF IInv, Types, Stages, Stage, ServerSendAgain, Parties
<1>2. sndPlace["server"] # 0
  BY <1>1
<1> QED BY <1>2, SameStep DEF ServerSendAgain, netVars, keyVars, rcvVars,
           history

(* TunnelSendP at the end of a chunk: the next one, or the end.            *)
LEMMA SendPStep ==
  ASSUME IInv, NEW d \in Parties, SendP(d)
  PROVE  IInv'
<1>0. Types /\ Answers /\ Stage(d)
  BY DEF IInv, Stages
<1>1. PICK k \in 1 .. Parts : socketSend(d, k) /\ LastOf(d, k)
  BY DEF SendP, TCPSockSend
<1>2. /\ phase[d] = "tunnel" /\ TCPSockSend(d)
      /\ outKey' = [outKey EXCEPT ![d] = naclRatchet(@)]
      /\ phase' = phase /\ inKey' = inKey /\ rcvBuff' = rcvBuff
      /\ fault' = fault
  BY DEF SendP, SPEncryptFinish, rcvVars, history
<1>3. /\ net' \in [Parties -> Seq(Piece)] /\ AllAnswers(net'["server"])
      /\ sndAt' \in [Parties -> 0 .. Parts - 1] /\ sndAt'[d] = 0
      /\ sndBuff[d] # None /\ Len(net'[d]) = Len(net[d]) + Left(d)
      /\ \A e \in Parties :
           e # d => net'[e] = net[e] /\ sndAt'[e] = sndAt[e]
  BY <1>1, LastSent
<1>4. /\ src[d] # None /\ Len(used[d]) >= 2 /\ outKey[d] = KeyOf(d, Next1(d))
      /\ inKey[d][1] = Dir(Other(d))
      /\ sndPlace[d] >= 1 /\ Len(src[d]) >= 1
  BY <1>0, <1>2, <1>3 DEF Stage, Keyed
<1>5. Len(used[d]) \in Nat /\ Next1(d) = Len(used[d])
  BY <1>0, <1>3, Measures DEF Next1
<1>6. /\ naclRatchet(outKey[d]) = KeyOf(d, Len(used[d]) + 1)
      /\ KeyOf(d, Len(used[d]) + 1) \in Key
      /\ KeyOf(d, Len(used[d]) + 1) # Ephemeral
  <2>1. Len(used[d]) + 1 \in Nat /\ Len(used[d]) + 1 >= 2
    BY <1>4, <1>5
  <2>2. \A i \in Nat : i >= 1 => KeyOf(d, i) \in Key
    BY KeysDiffer
  <2>3. \A i \in Nat : i >= 2 => /\ naclRatchet(KeyOf(d, i)) = KeyOf(d, i + 1)
                               /\ KeyOf(d, i) # Ephemeral
    BY KeysDiffer
  <2>4. /\ naclRatchet(KeyOf(d, Len(used[d]))) = KeyOf(d, Len(used[d]) + 1)
        /\ KeyOf(d, Len(used[d]) + 1) # Ephemeral
    BY <1>4, <1>5, <2>1, <2>3
  <2>5. KeyOf(d, Len(used[d]) + 1) \in Key
    BY <2>1, <2>2
  <2> QED BY <1>4, <1>5, <2>4, <2>5, Zenon
<1>7. /\ outKey' \in [Parties -> Key]
      /\ outKey'[d] = KeyOf(d, Len(used[d]) + 1)
      /\ \A e \in Parties : e # d => outKey'[e] = outKey[e]
  <2> HIDE DEF Key
  <2> QED BY <1>0, <1>2, <1>6 DEF Types
<1>8. Recvd(d)' = Recvd(d)
  BY <1>2 DEF Recvd, Keyed
<1>9. CASE sndPlace[d] # Len(src[d])
  <2> DEFINE body == Filled(src[d], sndPlace[d], Chunk)
             p == Least(Len(src[d]), sndPlace[d] + Chunk)
  <2>1. /\ Encrypt(d, naclRatchet(outKey[d]), body) /\ src' = src
        /\ sndPlace' = [sndPlace EXCEPT ![d] = p]
    BY <1>9 DEF SendP, PRefill
  <2>2. src[d] \in Seq(Unit) /\ sndPlace[d] \in Nat /\ Chunk \in Nat
    BY <1>0, <1>4, SessionAssumption DEF Types
  <2>3. body \in Bodies
    BY <2>2, FilledIs DEF Bodies
  <2>4. p \in Nat /\ p >= 1
    <3>1. Len(src[d]) \in Nat
      <4> HIDE DEF Unit
      <4> QED BY <2>2
    <3> QED BY <1>4, <2>2, <3>1 DEF Least
  <2> HIDE DEF body, p
  <2>5. /\ sndPlace' \in [Parties -> Nat] /\ sndPlace'[d] >= 1
        /\ \A e \in Parties : e # d => sndPlace'[e] = sndPlace[e]
    BY <1>0, <2>1, <2>4 DEF Types
  <2>6. sndBuff'[d] # None /\ Len(used'[d]) = Len(used[d]) + 1 => Stage(d)'
    <3> SUFFICES ASSUME sndBuff'[d] # None, Len(used'[d]) = Len(used[d]) + 1
                 PROVE  Stage(d)'
      OBVIOUS
    <3>1. Next1(d)' = Len(used[d]) + 1
      BY <1>5 DEF Next1
    <3>2. outKey'[d] = KeyOf(d, Next1(d)')
      BY <1>7, <3>1
    <3>3. Len(used'[d]) >= 2
      BY <1>4, <1>5
    <3> QED BY <1>2, <1>3, <1>4, <2>1, <2>5, <3>2, <3>3,
               SMTT(30) DEF Stage, Keyed
  <2> QED BY <1>0, <1>2, <1>3, <1>6, <1>7, <1>8, <2>1, <2>3, <2>5, <2>6,
             ChunkBegins DEF Types
<1>10. CASE sndPlace[d] = Len(src[d])
  <2>1. /\ sndPlace' = [sndPlace EXCEPT ![d] = 0]
        /\ src' = [src EXCEPT ![d] = None]
        /\ sndBuff' = [sndBuff EXCEPT ![d] = None]
        /\ used' = used
    BY <1>10 DEF SendP
  <2>2. /\ sndPlace' \in [Parties -> Nat]
        /\ src' \in [Parties -> Seq(Unit) \cup {None}] /\ src'[d] = None
        /\ sndBuff'[d] = None
        /\ \A e \in Parties :
             e # d => sndPlace'[e] = sndPlace[e] /\ src'[e] = src[e]
    <3> HIDE DEF Unit
    <3> QED BY <1>0, <2>1 DEF Types
  <2>3. sndAt'[d] = 0 => Stage(d)'
    <3>1. Next1(d)' = Len(used[d]) + 1
      BY <2>1, <2>2 DEF Next1
    <3>2. outKey'[d] = KeyOf(d, Next1(d)')
      BY <1>7, <3>1
    <3>3. Len(used'[d]) >= 1
      BY <1>4, <1>5, <2>1
    <3> QED BY <1>2, <1>3, <1>4, <2>2, <3>2, <3>3 DEF Stage, Keyed
  <2> QED BY <1>0, <1>2, <1>7, <1>8, <2>1, <2>2, <2>3, ChunkEnds DEF Types
<1> QED BY <1>9, <1>10

(* lib/net: part of a chunk is received.                                   *)
LEMMA RecvPartStep ==
  ASSUME IInv, NEW d \in Parties, TCPSockRecvPart(d)
  PROVE  IInv'
<1> DEFINE o == Other(d)
<1>0. /\ Types /\ Answers /\ KeysUsed /\ Stages /\ Counts
      /\ o \in Parties /\ o # d /\ Other(o) = d
  BY Others DEF IInv
<1>1. PICK k \in 1 .. Parts :
        /\ socketRecv(d, k)
        /\ rcvBuff' = [rcvBuff EXCEPT ![d] = With(d, k)]
  BY DEF TCPSockRecvPart
<1>2. /\ phase' = phase /\ inKey' = inKey /\ outKey' = outKey /\ src' = src
      /\ sndPlace' = sndPlace /\ sndBuff' = sndBuff /\ used' = used
      /\ sndAt' = sndAt /\ fault' = fault
  BY DEF TCPSockRecvPart, keyVars, sndVars, history
<1> HIDE DEF o
<1>3. /\ net' \in [Parties -> Seq(Piece)] /\ AllAnswers(net'["server"])
      /\ Len(net'[o]) = Len(net[o]) - k /\ net'[d] = net[d]
      /\ With(d, k) \in Seq(Piece)
      /\ Len(With(d, k)) = Len(rcvBuff[d]) + k
      /\ d = "proxy" => AllAnswers(With(d, k))
  BY <1>0, <1>1, Received DEF o
<1>4. /\ rcvBuff' \in [Parties -> Seq(Piece)] /\ rcvBuff'[d] = With(d, k)
      /\ \A e \in Parties : e # d => rcvBuff'[e] = rcvBuff[e]
  <2> HIDE DEF Piece
  <2> QED BY <1>0, <1>1, <1>3 DEF Types
<1>5. Types'
  BY <1>0, <1>2, <1>3, <1>4 DEF Types
<1>6. Answers'
  <2>1. AllAnswers(rcvBuff'["proxy"])
    <3>1. CASE d = "proxy"
      BY <1>3, <1>4, <3>1
    <3>2. CASE d # "proxy"
      BY <1>0, <1>4, <3>2 DEF Answers, Parties
    <3> QED BY <3>1, <3>2
  <2> QED BY <1>0, <1>2, <1>3, <2>1 DEF Answers, AllAnswers, IsAnswer
<1>7. KeysUsed'
  BY <1>0, <1>2 DEF KeysUsed
<1>8. Stages'
  BY <1>0, <1>2, StageSame DEF Stages
<1>9. Counts'
  <2> SUFFICES ASSUME Alive'
               PROVE  Count(d)' /\ Count(o)'
    BY <1>0 DEF Counts, Parties
  <2>1. Count(d) /\ Count(o)
    BY <1>0, <1>2 DEF Counts, Alive
  <2>2. Recvd(o)' = Recvd(o) /\ Recvd(d)' = Recvd(d)
    BY <1>2 DEF Recvd, Keyed
  <2>3. Count(d)'
    BY <1>0, <1>2, <1>3, <1>4, <2>1, <2>2, CountSame DEF o
  <2>4. Pieces(o)' = Pieces(o)
    <3>1. /\ Left(o) \in Nat /\ Len(net[o]) \in Nat /\ k \in Nat
          /\ Len(rcvBuff[d]) \in Nat
      BY <1>0, Measures, PartsArithmetic
    <3>2. Pieces(o)' = Left(o) + (Len(net[o]) - k) + (Len(rcvBuff[d]) + k)
      <4>1. Left(o)' = Left(o)
        BY <1>2 DEF Left
      <4> QED BY <1>0, <1>3, <1>4, <4>1 DEF Pieces
    <3>3. Pieces(o) = Left(o) + Len(net[o]) + Len(rcvBuff[d])
      BY <1>0 DEF Pieces
    <3>4. \A a, b, c \in Nat : a + (b - k) + (c + k) = a + b + c
      BY <3>1
    <3> QED BY <3>1, <3>2, <3>3, <3>4
  <2>5. Count(o)'
    BY <1>0, <1>2, <2>1, <2>2, <2>4, CountMoves
  <2> QED BY <2>3, <2>5
<1> QED BY <1>5, <1>6, <1>7, <1>8, <1>9 DEF IInv

(* A key that is ratcheted.                                                *)
LEMMA Ratchets ==
  ASSUME NEW k \in Key
  PROVE  /\ naclRatchet(k) \in Key /\ naclRatchet(k)[1] = k[1]
         /\ naclRatchet(k)[2] = k[2] + 1 /\ k[2] \in Nat
         /\ k = <<k[1], k[2]>>
<1>1. ASSUME NEW S, NEW p \in S \X Nat
      PROVE  /\ p[2] \in Nat /\ <<p[1], p[2] + 1>> \in S \X Nat
             /\ p = <<p[1], p[2]>>
  OBVIOUS
<1>2. /\ k[2] \in Nat /\ <<k[1], k[2] + 1>> \in Key
      /\ k = <<k[1], k[2]>>
  BY <1>1, Zenon DEF Key
<1>3. naclRatchet(k) = <<k[1], k[2] + 1>>
  BY DEF naclRatchet
<1>4. ASSUME NEW p
      PROVE  /\ <<p[1], p[2] + 1>>[1] = p[1]
             /\ <<p[1], p[2] + 1>>[2] = p[2] + 1
  OBVIOUS
<1>5. naclRatchet(k)[1] = k[1] /\ naclRatchet(k)[2] = k[2] + 1
  BY <1>3, <1>4
<1> QED BY <1>2, <1>3, <1>5, Zenon

(* SPDecrypt of a chunk of the tunnel or of the login: what it opens moves *)
(* the key on, what it does not ends the connection.                       *)
LEMMA DecryptStep ==
  ASSUME IInv, NEW d \in Parties, NEW buf, TCPSockRecv(d, buf), Keyed(d),
         phase[d] = "sendLogin" => FALSE,
         outKey' = outKey, src' = src, sndPlace' = sndPlace,
         sndBuff' = sndBuff, sndAt' = sndAt, used' = used, fault' = fault,
         \/ /\ inKey' = [inKey EXCEPT ![d] = naclRatchet(@)]
            /\ phase' = [phase EXCEPT ![d] = "tunnel"]
         \/ inKey' = inKey /\ phase' = [phase EXCEPT ![d] = "dead"]
  PROVE  IInv'
<1>0. Types /\ Answers /\ KeysUsed /\ Stage(d) /\ KeysUsed'
  BY DEF IInv, Stages, KeysUsed
<1>1. /\ phase' \in [Parties -> Phases] /\ phase'[d] \in {"tunnel", "dead"}
      /\ \A e \in Parties : e # d => phase'[e] = phase[e]
  BY <1>0 DEF Types, Phases
<1>2. /\ naclRatchet(inKey[d]) \in Key
      /\ naclRatchet(inKey[d])[1] = inKey[d][1]
      /\ naclRatchet(inKey[d])[2] = inKey[d][2] + 1
  BY <1>0, Ratchets DEF Types
<1>3. /\ inKey' \in [Parties -> Key] /\ inKey'[d][1] = inKey[d][1]
      /\ phase'[d] = "tunnel" => inKey'[d][2] = inKey[d][2] + 1
      /\ \A e \in Parties : e # d => inKey'[e] = inKey[e]
  <2> HIDE DEF Key
  <2> QED BY <1>0, <1>1, <1>2, ZenonT(30) DEF Types
<1>4. Stage(d)'
  <2>1. /\ inKey[d][1] = Dir(Other(d)) /\ outKey[d] = KeyOf(d, Next1(d))
        /\ src[d] = None <=> sndBuff[d] = None
        /\ Len(used[d]) >= 1 /\ (sndBuff[d] # None => Len(used[d]) >= 2)
        /\ src[d] # None => sndPlace[d] >= 1 /\ Len(src[d]) >= 1
        /\ sndAt[d] # 0 => sndBuff[d] # None
    <3>1. phase[d] = "login" \/ phase[d] = "tunnel"
      BY DEF Keyed
    <3>2. Len(used[d]) \in Nat
      BY <1>0, Measures
    <3> QED BY <1>0, <3>1, <3>2 DEF Stage, Keyed
  <2>2. Next1(d)' = Next1(d)
    BY DEF Next1
  <2> QED BY <1>1, <1>3, <2>1, <2>2 DEF Stage, Keyed
<1>5. phase'[d] # "dead" =>
        phase[d] # "dead" /\ Recvd(d)' = Recvd(d) + 1
  <2> SUFFICES ASSUME phase'[d] # "dead"
               PROVE  phase[d] # "dead" /\ Recvd(d)' = Recvd(d) + 1
    OBVIOUS
  <2>1. inKey[d][2] \in Nat /\ inKey'[d][2] = inKey[d][2] + 1
    BY <1>0, <1>1, <1>3, Ratchets DEF Types
  <2>2. Recvd(d) = inKey[d][2] + 1 /\ Recvd(d)' = inKey'[d][2] + 1
    BY <1>1 DEF Recvd, Keyed
  <2> QED BY <2>1, <2>2 DEF Keyed
<1>6. d = "server" /\ sndBuff'[d] # None => IsAnswer(sndBuff'[d])
  BY <1>0 DEF Answers, IsAnswer
<1> QED BY <1>0, <1>1, <1>3, <1>4, <1>5, <1>6, ChunkReceived DEF Types

(* TunnelRecvP of a chunk that is complete.                                *)
LEMMA RecvPStep ==
  ASSUME IInv, NEW d \in Parties, NEW buf, RecvP(d, buf)
  PROVE  IInv'
<1>1. /\ phase[d] = "tunnel" /\ TCPSockRecv(d, buf) /\ outKey' = outKey
      /\ src' = src /\ sndPlace' = sndPlace /\ sndBuff' = sndBuff
      /\ sndAt' = sndAt /\ used' = used /\ fault' = fault
  BY DEF RecvP, sndVars
<1>2. phase = [phase EXCEPT ![d] = "tunnel"]
  BY <1>1 DEF IInv, Types
<1>3. \/ /\ inKey' = [inKey EXCEPT ![d] = naclRatchet(@)]
         /\ phase' = [phase EXCEPT ![d] = "tunnel"]
      \/ inKey' = inKey /\ phase' = [phase EXCEPT ![d] = "dead"]
  BY <1>2 DEF RecvP, Die
<1>4. Keyed(d) /\ phase[d] # "sendLogin"
  BY <1>1 DEF Keyed
<1> QED BY <1>1, <1>3, <1>4, DecryptStep

(* clientTaskCB of the login.                                              *)
LEMMA LoginReceivedStep ==
  ASSUME IInv, NEW buf, LoginReceived(buf)
  PROVE  IInv'
<1>1. /\ phase["server"] = "login" /\ TCPSockRecv("server", buf)
      /\ outKey' = outKey /\ src' = src /\ sndPlace' = sndPlace
      /\ sndBuff' = sndBuff /\ sndAt' = sndAt /\ used' = used
      /\ fault' = fault
  BY DEF LoginReceived, sndVars, history
<1>2. \/ /\ inKey' = [inKey EXCEPT !["server"] = naclRatchet(@)]
         /\ phase' = [phase EXCEPT !["server"] = "tunnel"]
      \/ inKey' = inKey /\ phase' = [phase EXCEPT !["server"] = "dead"]
  BY DEF LoginReceived, Die
<1>3. Keyed("server") /\ phase["server"] # "sendLogin" /\ "server" \in Parties
  BY <1>1 DEF Keyed, Parties
<1> QED BY <1>1, <1>2, <1>3, DecryptStep

(* SprotServerHandshake: the hello is opened and the answer sealed.        *)
LEMMA HelloReceivedStep ==
  ASSUME IInv, NEW buf, HelloReceived(buf)
  PROVE  IInv'
<1> DEFINE d == "server"
<1>0. Types /\ KeysUsed /\ Stage(d) /\ d \in Parties
  BY DEF IInv, Stages, Parties
<1>1. /\ phase[d] = "hello" /\ TCPSockRecv(d, buf) /\ inKey' = inKey
      /\ outKey' = outKey /\ src' = src /\ sndPlace' = sndPlace
      /\ sndAt' = sndAt /\ fault' = fault
  BY DEF HelloReceived, keyVars, history
<1>2. Len(used[d]) = 0 /\ sndBuff[d] = None /\ src[d] = None /\ sndAt[d] = 0
  BY <1>0, <1>1 DEF Stage
<1>3. CASE Opens(buf, Static)
  <2>1. /\ Encrypt(d, Ephemeral, Answer)
        /\ phase' = [phase EXCEPT ![d] = "sendAnswer"]
    BY <1>3 DEF HelloReceived
  <2>2. Ephemeral = KeyOf(d, Len(used[d]) + 1)
    BY <1>2 DEF KeyOf
  <2>3. Answer \in Bodies
    <3>1. ServerOut \in Key /\ ServerIn \in Key
      BY DEF ServerOut, ServerIn, Key
    <3>2. Answer \in Seq(Key)
      <4> HIDE DEF Key
      <4> QED BY <3>1 DEF Answer
    <3> QED BY <3>2 DEF Bodies
  <2>4. /\ sndBuff' \in [Parties -> Chunks \cup {None}]
        /\ used' \in [Parties -> Seq(Key)] /\ KeysUsed'
        /\ sndBuff'[d] # None /\ Len(used'[d]) = Len(used[d]) + 1
        /\ \A e \in Parties :
             e # d => sndBuff'[e] = sndBuff[e] /\ used'[e] = used[e]
        /\ IsAnswer(sndBuff'[d])
    BY <1>0, <2>1, <2>2, <2>3, Encrypts
  <2>5. /\ phase' \in [Parties -> Phases] /\ phase'[d] = "sendAnswer"
        /\ \A e \in Parties : e # d => phase'[e] = phase[e]
    BY <1>0, <2>1 DEF Types, Phases
  <2>6. Stage(d)'
    BY <1>1, <1>2, <2>4, <2>5 DEF Stage, Keyed
  <2>7. Recvd(d)' = 1 /\ Recvd(d) = 0
    BY <1>1, <2>5 DEF Recvd, Keyed
  <2>8. /\ phase[d] # "dead" /\ Recvd(d)' = Recvd(d) + 1
        /\ Len(used'[d]) = Len(used[d]) + 1 /\ sndAt[d] = 0
        /\ sndBuff[d] = None /\ sndBuff'[d] # None
    BY <1>1, <1>2, <2>4, <2>7
  <2>9. inKey' \in [Parties -> Key] /\ outKey' \in [Parties -> Key]
    BY <1>0, <1>1 DEF Types
  <2> HIDE DEF d
  <2> QED BY <1>0, <1>1, <2>4, <2>5, <2>6, <2>8, <2>9, ChunkReceived
<1>4. CASE ~Opens(buf, Static)
  <2>1. /\ phase' = [phase EXCEPT ![d] = "dead"]
        /\ sndBuff' = sndBuff /\ used' = used
    BY <1>4 DEF HelloReceived, Die
  <2>2. /\ phase' \in [Parties -> Phases] /\ phase'[d] = "dead"
        /\ \A e \in Parties : e # d => phase'[e] = phase[e]
    BY <1>0, <2>1 DEF Types, Phases
  <2>3. Stage(d)'
    BY <1>1, <1>2, <2>1, <2>2 DEF Stage, Keyed
  <2>4. KeysUsed'
    BY <1>0, <2>1 DEF KeysUsed
  <2> HIDE DEF d
  <2> QED BY <1>0, <1>1, <1>2, <2>1, <2>2, <2>3, <2>4, ChunkReceived DEF Types
<1> QED BY <1>3, <1>4

(* SprotClientHandshake: what opens is the answer, and has the two keys in *)
(* it; the login is sealed with the first of its own.                      *)
LEMMA AnswerReceivedStep ==
  ASSUME IInv, NEW buf, AnswerReceived(buf)
  PROVE  IInv'
<1> DEFINE d == "proxy"
<1>0. Types /\ Answers /\ KeysUsed /\ Stage(d) /\ d \in Parties
  BY DEF IInv, Stages, Parties
<1>1. /\ phase[d] = "answer" /\ TCPSockRecv(d, buf)
      /\ src' = src /\ sndPlace' = sndPlace
      /\ sndAt' = sndAt /\ fault' = fault
  BY DEF AnswerReceived, history
<1>2. Len(used[d]) = 1 /\ sndBuff[d] = None /\ src[d] = None /\ sndAt[d] = 0
  BY <1>0, <1>1 DEF Stage
<1>3. CASE Opens(buf, Ephemeral)
  <2>1. PICK k \in 1 .. Parts :
          /\ socketRecv(d, k) /\ Len(rcvBuff[d]) + k = Parts
          /\ buf = With(d, k)
    BY <1>1 DEF TCPSockRecv
  <2>2. buf \in Seq(Piece) /\ Len(buf) = Parts /\ AllAnswers(buf)
    BY <1>0, <2>1, Received
  <2>3. Body(buf) = Answer
    <3>1. 1 \in DOMAIN buf
      BY <2>2, PartsArithmetic
    <3>2. IsAnswer(buf[1][1]) /\ buf[1][1].key = Ephemeral
      BY <1>3, <2>2, <3>1 DEF AllAnswers, Opens
    <3> QED BY <3>2 DEF IsAnswer, Body
  <2>4. Body(buf)[1] = ServerOut /\ Body(buf)[2] = ServerIn
    BY <2>3 DEF Answer
  <2>5. /\ inKey' = [inKey EXCEPT ![d] = ServerOut]
        /\ outKey' = [outKey EXCEPT ![d] = ServerIn]
        /\ Encrypt(d, ServerIn, <<"channel">>)
        /\ phase' = [phase EXCEPT ![d] = "sendLogin"]
    BY <1>3, <2>4 DEF AnswerReceived
  <2>6. ServerIn = KeyOf(d, 2) /\ ServerIn = KeyOf(d, Len(used[d]) + 1)
    BY <1>2 DEF KeyOf, ServerIn, Dir
  <2>7. <<"channel">> \in Bodies
    BY DEF Bodies
  <2>8. /\ sndBuff' \in [Parties -> Chunks \cup {None}]
        /\ used' \in [Parties -> Seq(Key)] /\ KeysUsed'
        /\ sndBuff'[d] # None /\ Len(used'[d]) = Len(used[d]) + 1
        /\ \A e \in Parties :
             e # d => sndBuff'[e] = sndBuff[e] /\ used'[e] = used[e]
    BY <1>0, <2>5, <2>6, <2>7, Encrypts
  <2>9. /\ phase' \in [Parties -> Phases] /\ phase'[d] = "sendLogin"
        /\ \A e \in Parties : e # d => phase'[e] = phase[e]
    BY <1>0, <2>5 DEF Types, Phases
  <2>10. ServerOut \in Key /\ ServerIn \in Key
    BY DEF ServerOut, ServerIn, Key
  <2>11. /\ inKey' \in [Parties -> Key] /\ inKey'[d] = ServerOut
         /\ outKey' \in [Parties -> Key] /\ outKey'[d] = ServerIn
         /\ \A e \in Parties :
              e # d => inKey'[e] = inKey[e] /\ outKey'[e] = outKey[e]
    <3> HIDE DEF Key
    <3> QED BY <1>0, <2>5, <2>10 DEF Types
  <2>12. ServerOut[1] = Dir(Other(d)) /\ ServerOut[2] = 0
    BY Others DEF ServerOut, Dir
  <2>13. Next1(d)' = 2
    BY <1>2, <2>8 DEF Next1
  <2>14. Stage(d)'
    <3>1. outKey'[d] = KeyOf(d, Next1(d)')
      BY <2>6, <2>11, <2>13
    <3> QED BY <1>1, <1>2, <2>8, <2>9, <2>11, <2>12, <3>1
            DEF Stage, Keyed, KeyOf
  <2>15. Recvd(d)' = 1 /\ Recvd(d) = 0
    BY <1>1, <2>9, <2>11, <2>12 DEF Recvd, Keyed
  <2>16. /\ phase[d] # "dead" /\ Recvd(d)' = Recvd(d) + 1
         /\ Len(used'[d]) = Len(used[d]) + 1 /\ sndAt[d] = 0
         /\ sndBuff[d] = None /\ sndBuff'[d] # None
    BY <1>1, <1>2, <2>8, <2>15
  <2>17. d # "server"
    OBVIOUS
  <2> HIDE DEF d
  <2> QED BY <1>0, <1>1, <2>8, <2>9, <2>11, <2>14, <2>16, <2>17,
             ChunkReceived
<1>4. CASE ~Opens(buf, Ephemeral)
  <2>1. /\ phase' = [phase EXCEPT ![d] = "dead"]
        /\ inKey' = inKey /\ outKey' = outKey
        /\ sndBuff' = sndBuff /\ used' = used
    BY <1>4 DEF AnswerReceived, Die, keyVars
  <2>2. /\ phase' \in [Parties -> Phases] /\ phase'[d] = "dead"
        /\ \A e \in Parties : e # d => phase'[e] = phase[e]
    BY <1>0, <2>1 DEF Types, Phases
  <2>3. Stage(d)'
    BY <1>1, <1>2, <2>1, <2>2 DEF Stage, Keyed
  <2>4. KeysUsed' /\ d # "server"
    BY <1>0, <2>1 DEF KeysUsed
  <2> HIDE DEF d
  <2> QED BY <1>0, <1>1, <1>2, <2>1, <2>2, <2>3, <2>4, ChunkReceived DEF Types
<1> QED BY <1>3, <1>4

(* The connection breaks.                                                  *)
LEMMA CutStep ==
  ASSUME IInv, Cut
  PROVE  IInv'
<1>0. Types /\ Answers /\ KeysUsed /\ Stages
  BY DEF IInv
<1>1. /\ fault' = TRUE /\ phase' = phase /\ inKey' = inKey /\ outKey' = outKey
      /\ src' = src /\ sndPlace' = sndPlace /\ sndBuff' = sndBuff
      /\ sndAt' = sndAt /\ rcvBuff' = rcvBuff /\ used' = used
  BY DEF Cut, keyVars, sndVars, rcvVars
<1>2. net' \in [Parties -> Seq(Piece)] /\ AllAnswers(net'["server"])
  <2>1. CASE net' = net
    BY <1>0, <2>1 DEF Types, Answers
  <2>2. CASE net' = [d \in Parties |-> <<>>]
    <3>1. \A d \in Parties : <<>> \in Seq(Piece)
      OBVIOUS
    <3>2. net'["server"] = <<>>
      BY <2>2 DEF Parties
    <3> HIDE DEF Piece
    <3> QED BY <2>2, <3>1, <3>2 DEF AllAnswers
  <2> QED BY <2>1, <2>2 DEF Cut
<1>3. Types'
  BY <1>0, <1>1, <1>2 DEF Types
<1>4. Answers'
  BY <1>0, <1>1, <1>2 DEF Answers, AllAnswers, IsAnswer
<1>5. KeysUsed'
  BY <1>0, <1>1 DEF KeysUsed
<1>6. Stages'
  BY <1>0, <1>1, StageSame DEF Stages
<1>7. Counts'
  BY <1>1 DEF Counts, Alive
<1> QED BY <1>3, <1>4, <1>5, <1>6, <1>7 DEF IInv

(* A party goes on without its hello having been sent, or gives up.        *)
LEMMA PhaseStep ==
  ASSUME IInv, NEW d \in Parties, NEW p \in {"answer", "dead"},
         p = "answer" => phase[d] = "sendHello" /\ sndBuff'[d] = None,
         phase' = [phase EXCEPT ![d] = p], fault' = TRUE,
         \A e \in Parties :
           \/ sndBuff'[e] = sndBuff[e] /\ sndAt'[e] = sndAt[e]
           \/ sndBuff'[e] = None /\ sndAt'[e] = 0 /\ e = d /\ p = "answer",
         sndBuff' \in [Parties -> Chunks \cup {None}],
         sndAt' \in [Parties -> 0 .. Parts - 1],
         net' = net, inKey' = inKey, outKey' = outKey, src' = src,
         sndPlace' = sndPlace, rcvBuff' = rcvBuff, used' = used
  PROVE  IInv'
<1>0. Types /\ Answers /\ KeysUsed /\ Stages
  BY DEF IInv
<1>1. /\ phase' \in [Parties -> Phases] /\ phase'[d] = p
      /\ \A e \in Parties : e # d => phase'[e] = phase[e]
  BY <1>0 DEF Types, Phases
<1>2. Types'
  BY <1>0, <1>1 DEF Types
<1>3. Answers'
  BY <1>0 DEF Answers, AllAnswers, IsAnswer, Parties
<1>4. KeysUsed'
  BY <1>0 DEF KeysUsed
<1>5. Stages'
  <2> SUFFICES ASSUME NEW e \in Parties
               PROVE  Stage(e)'
    BY DEF Stages
  <2>1. CASE e # d
    BY <1>0, <1>1, <2>1, StageSame DEF Stages
  <2>2. CASE e = d
    <3>1. Stage(d)
      BY <1>0 DEF Stages
    <3>2. CASE p = "answer"
      BY <1>1, <2>2, <3>1, <3>2 DEF Stage, Keyed
    <3>3. CASE p = "dead"
      BY <1>1, <2>2, <3>1, <3>3 DEF Stage, Keyed
    <3> QED BY <3>2, <3>3
  <2> QED BY <2>1, <2>2
<1>6. Counts'
  BY DEF Counts, Alive
<1> QED BY <1>2, <1>3, <1>4, <1>5, <1>6 DEF IInv

(* The hello is not sent: performHandshake goes on all the same.           *)
LEMMA HelloNotSentStep ==
  ASSUME IInv, HelloNotSent
  PROVE  IInv'
<1>1. /\ phase["proxy"] = "sendHello" /\ fault' = TRUE
      /\ phase' = [phase EXCEPT !["proxy"] = "answer"]
      /\ sndBuff' = [sndBuff EXCEPT !["proxy"] = None]
      /\ sndAt' = [sndAt EXCEPT !["proxy"] = 0]
      /\ net' = net /\ inKey' = inKey /\ outKey' = outKey /\ src' = src
      /\ sndPlace' = sndPlace /\ rcvBuff' = rcvBuff /\ used' = used
  BY DEF HelloNotSent, netVars, keyVars, rcvVars
<1>2. /\ sndBuff \in [Parties -> Chunks \cup {None}]
      /\ sndAt \in [Parties -> 0 .. Parts - 1] /\ "proxy" \in Parties
  BY DEF IInv, Types, Parties
<1>3. 0 \in 0 .. Parts - 1
  BY PartsArithmetic
<1>4. /\ sndBuff' \in [Parties -> Chunks \cup {None}]
      /\ sndAt' \in [Parties -> 0 .. Parts - 1]
      /\ sndBuff'["proxy"] = None /\ sndAt'["proxy"] = 0
      /\ \A e \in Parties :
           e # "proxy" => sndBuff'[e] = sndBuff[e] /\ sndAt'[e] = sndAt[e]
  BY <1>1, <1>2, <1>3
<1> QED BY <1>1, <1>2, <1>4, PhaseStep

(* A program gives the connection up.                                      *)
LEMMA GiveUpStep ==
  ASSUME IInv, NEW d \in Parties, GiveUp(d)
  PROVE  IInv'
<1>1. /\ phase' = [phase EXCEPT ![d] = "dead"] /\ fault' = TRUE
      /\ net' = net /\ inKey' = inKey /\ outKey' = outKey /\ src' = src
      /\ sndPlace' = sndPlace /\ sndBuff' = sndBuff /\ sndAt' = sndAt
      /\ rcvBuff' = rcvBuff /\ used' = used
  BY DEF GiveUp, Die, keyVars, sndVars, rcvVars
<1>2. /\ sndBuff \in [Parties -> Chunks \cup {None}]
      /\ sndAt \in [Parties -> 0 .. Parts - 1]
  BY DEF IInv, Types
<1> QED BY <1>1, <1>2, PhaseStep

(* The messages given to SendP, by every step of the two programs.         *)
LEMMA NumberedStep ==
  ASSUME NoEmptyMessage, Numbered, [Next]_vars
  PROVE  Numbered'
<1>1. CASE sent' = sent
  BY <1>1 DEF Numbered
<1>2. ASSUME NEW d \in Parties, NEW len \in Nat, len # 0,
             sent' = [sent EXCEPT
                        ![d] = Append(@, Message(d, Len(@) + 1, len))]
      PROVE  Numbered'
  <2>1. Len(sent[d]) + 1 \in Nat /\ sent[d] \in Seq(Seq(Unit))
    BY DEF Numbered
  <2>2. Message(d, Len(sent[d]) + 1, len) \in Seq(Unit)
    BY <1>2, <2>1, MessageIs
  <2> HIDE DEF Unit
  <2> QED BY <1>2, <2>1, <2>2 DEF Numbered
<1>3. CASE ServerSend
  <2>1. PICK len \in Lens["server"] :
          sent' =
            [sent EXCEPT !["server"] =
               Append(@, Message("server", Len(sent["server"]) + 1, len))]
    BY <1>3 DEF ServerSend
  <2>2. len \in Nat /\ len # 0 /\ "server" \in Parties
    BY SessionAssumption DEF NoEmptyMessage, Parties
  <2> QED BY <1>2, <2>1, <2>2
<1>4. CASE readFromClientCB
  <2>1. PICK len \in Lens["proxy"] :
          sent' =
            [sent EXCEPT !["proxy"] =
               Append(@, Message("proxy", Len(sent["proxy"]) + 1, len))]
    BY <1>4 DEF readFromClientCB
  <2>2. len \in Nat /\ len # 0 /\ "proxy" \in Parties
    BY SessionAssumption DEF Parties
  <2> QED BY <1>2, <2>1, <2>2
<1>5. ASSUME NEW d \in Parties, Sends(d)
      PROVE  sent' = sent
  <2>1. CASE TCPSockSendPart(d) \/ SendP(d)
    BY <2>1 DEF TCPSockSendPart, SendP, history
  <2>2. CASE ClientStart \/ HelloSent \/ HelloNotSent \/ LoginSent
    BY <2>2 DEF ClientStart, HelloSent, HelloNotSent, LoginSent, history
  <2>3. CASE AnswerSent \/ ServerSendAgain
    BY <2>3 DEF AnswerSent, ServerSendAgain, history
  <2> QED BY <1>5, <2>1, <2>2, <2>3 DEF Sends
<1>6. ASSUME NEW d \in Parties, Receives(d)
      PROVE  sent' = sent
  <2>1. CASE TCPSockRecvPart(d)
    BY <2>1 DEF TCPSockRecvPart, history
  <2>2. CASE RecvP(d, Complete(d))
    BY <2>2 DEF RecvP
  <2>3. CASE AnswerReceived(Complete(d))
    BY <2>3 DEF AnswerReceived, history
  <2>4. CASE HelloReceived(Complete(d)) \/ LoginReceived(Complete(d))
    BY <2>4 DEF HelloReceived, LoginReceived, history
  <2> QED BY <1>6, <2>1, <2>2, <2>3, <2>4 DEF Receives
<1>7. ASSUME NEW d \in Parties, GiveUp(d)
      PROVE  sent' = sent
  BY <1>7 DEF GiveUp
<1>8. CASE Loops
  BY <1>1, <1>8 DEF Loops, ClientIdle, ServerIdle, history
<1>9. CASE Cut
  BY <1>1, <1>9 DEF Cut
<1>10. CASE UNCHANGED vars
  BY <1>1, <1>10 DEF vars, history
<1> QED BY <1>1, <1>3, <1>4, <1>5, <1>6, <1>7, <1>8, <1>9, <1>10 DEF Next

(* The programs start with nothing sent and nothing to open.               *)
LEMMA InvInit ==
  ASSUME Init
  PROVE  IInv /\ Numbered
<1>0. /\ net = [d \in Parties |-> <<>>] /\ rcvBuff = [d \in Parties |-> <<>>]
      /\ phase = [proxy |-> "start", server |-> "hello"]
      /\ inKey = [d \in Parties |-> NoKey] /\ outKey = inKey
      /\ src = [d \in Parties |-> None] /\ sndBuff = src
      /\ sndPlace = [d \in Parties |-> 0] /\ sndAt = sndPlace
      /\ used = rcvBuff /\ sent = rcvBuff /\ fault = FALSE
  BY DEF Init
<1>1. /\ \A d \in Parties : phase[d] \in {"start", "hello"}
      /\ phase \in [Parties -> Phases]
  BY <1>0 DEF Parties, Phases
<1>2. NoKey \in Key
  BY DEF NoKey, Key
<1>3. 0 \in Nat /\ 0 \in 0 .. Parts - 1
  BY PartsArithmetic
<1>4. \A S : [d \in Parties |-> <<>>] \in [Parties -> Seq(S)]
  OBVIOUS
<1>5. Types
  <2> HIDE DEF Key
  <2> QED BY <1>0, <1>1, <1>2, <1>3, <1>4 DEF Types
<1>6. Answers
  BY <1>0 DEF Answers, AllAnswers, Parties
<1>7. /\ \A d \in Parties : Len(used[d]) = 0 /\ used[d] = <<>>
      /\ \A d \in Parties : sndBuff[d] = None /\ src[d] = None /\ sndAt[d] = 0
      /\ \A d \in Parties : Len(net[d]) = 0 /\ Len(rcvBuff[d]) = 0
  BY <1>0
<1>8. KeysUsed
  BY <1>7 DEF KeysUsed
<1>9. Stages
  BY <1>1, <1>7 DEF Stages, Stage, Keyed
<1>10. Counts
  <2> SUFFICES ASSUME NEW d \in Parties
               PROVE  Count(d)
    BY DEF Counts
  <2>1. Recvd(Other(d)) = 0 /\ Len(rcvBuff[Other(d)]) = 0
    BY <1>1, <1>7, Others DEF Recvd, Keyed
  <2>2. Pieces(d) = 0
    BY <1>7, <2>1 DEF Pieces, Left
  <2>3. (0 - 0) * Parts = 0
    BY PartsArithmetic
  <2> QED BY <1>7, <2>1, <2>2, <2>3 DEF Count
<1>11. Numbered
  BY <1>0, <1>4 DEF Numbered
<1> QED BY <1>5, <1>6, <1>8, <1>9, <1>10, <1>11 DEF IInv

(* Every step of the two programs, and of what comes from outside.         *)
LEMMA InvStep ==
  ASSUME NoEmptyMessage, IInv, Numbered, [Next]_vars
  PROVE  IInv'
<1>1. ASSUME NEW d \in Parties, Sends(d)
      PROVE  IInv'
  <2>1. CASE TCPSockSendPart(d)
    BY <2>1, SendPartStep
  <2>2. CASE SendP(d)
    BY <2>2, SendPStep
  <2>3. CASE ClientStart
    BY <2>3, ClientStartStep
  <2>4. CASE HelloSent
    BY <2>4, HelloSentStep
  <2>5. CASE HelloNotSent
    BY <2>5, HelloNotSentStep
  <2>6. CASE LoginSent
    BY <2>6, LoginSentStep
  <2>7. CASE AnswerSent
    BY <2>7, AnswerSentStep
  <2>8. CASE ServerSendAgain
    BY <2>8, ServerSendAgainStep
  <2> QED BY <1>1, <2>1, <2>2, <2>3, <2>4, <2>5, <2>6, <2>7, <2>8 DEF Sends
<1>2. ASSUME NEW d \in Parties, Receives(d)
      PROVE  IInv'
  <2>1. CASE TCPSockRecvPart(d)
    BY <2>1, RecvPartStep
  <2>2. CASE RecvP(d, Complete(d))
    BY <2>2, RecvPStep
  <2>3. CASE AnswerReceived(Complete(d))
    BY <2>3, AnswerReceivedStep
  <2>4. CASE HelloReceived(Complete(d))
    BY <2>4, HelloReceivedStep
  <2>5. CASE LoginReceived(Complete(d))
    BY <2>5, LoginReceivedStep
  <2> QED BY <1>2, <2>1, <2>2, <2>3, <2>4, <2>5 DEF Receives
<1>3. ASSUME NEW d \in Parties, GiveUp(d)
      PROVE  IInv'
  BY <1>3, GiveUpStep
<1>4. CASE Loops
  BY <1>4, SameStep DEF Loops, ClientIdle, ServerIdle, netVars, keyVars,
     sndVars, rcvVars, history
<1>5. CASE ServerSend
  BY <1>5, ServerSendStep
<1>6. CASE readFromClientCB
  BY <1>6, ReadFromClientStep
<1>7. CASE Cut
  BY <1>7, CutStep
<1>8. CASE UNCHANGED vars
  BY <1>8, SameStep DEF vars, netVars, keyVars, sndVars, rcvVars, history
<1> QED BY <1>1, <1>2, <1>3, <1>4, <1>5, <1>6, <1>7, <1>8 DEF Next

(* The inductive invariant holds in every state of the session.            *)
THEOREM Invariance ==
  ASSUME NoEmptyMessage
  PROVE  Spec => [](IInv /\ Numbered)
<1>1. Init => IInv /\ Numbered
  BY InvInit
<1>2. IInv /\ Numbered /\ [Next]_vars => (IInv /\ Numbered)'
  BY InvStep, NumberedStep
<1> QED BY <1>1, <1>2, PTL DEF Spec

(* TunnelSendP encrypts each chunk with the key that SPEncryptFinish has   *)
(* made of the last one's, and only after it: no key encrypts two chunks,  *)
(* however a send is cut up, interrupted, resumed or given up.             *)
THEOREM NoKeyTwice ==
  ASSUME NoEmptyMessage
  PROVE  Spec => []OneChunkPerKey
<1>1. ASSUME IInv
      PROVE  OneChunkPerKey
  <2> SUFFICES ASSUME NEW d \in Parties, NEW i \in DOMAIN used[d],
                      NEW j \in DOMAIN used[d], used[d][i] = used[d][j]
               PROVE  i = j
    BY DEF OneChunkPerKey, IsInjective
  <2>1. used[d] \in Seq(Key)
    BY <1>1 DEF IInv, Types
  <2>2. i \in Nat \ {0} /\ j \in Nat \ {0}
    BY <2>1
  <2>3. KeyOf(d, i) = KeyOf(d, j)
    BY <1>1 DEF IInv, KeysUsed
  <2> QED BY <2>2, <2>3, KeysDiffer
<1> QED BY <1>1, Invariance, PTL

(* SPEncryptFinish ratchets one key after a send, SPDecrypt its copy after *)
(* a receive that may be far later: when nothing is between the parties    *)
(* they have the same one, so that the next chunk opens.                   *)
THEOREM KeysMeet ==
  ASSUME NoEmptyMessage
  PROVE  Spec => []SameKeys
<1>1. ASSUME IInv
      PROVE  SameKeys
  <2> SUFFICES ASSUME \A e \in Parties : phase[e] = "tunnel", ~fault,
                      NEW d \in Parties, Empty(d)
               PROVE  outKey[d] = inKey[Other(d)]
    BY DEF SameKeys
  <2> DEFINE o == Other(d)
  <2>1. Types /\ Stage(d) /\ Stage(o) /\ o \in Parties /\ Other(o) = d
    BY <1>1, Others DEF IInv, Stages
  <2>2. Count(d)
    BY <1>1 DEF IInv, Counts, Alive
  <2>3. /\ net[d] = <<>> /\ rcvBuff[o] = <<>> /\ sndBuff[d] = None
        /\ phase[d] = "tunnel" /\ phase[o] = "tunnel"
    BY <2>1 DEF Empty
  <2> HIDE DEF o
  <2>4. Pieces(d) = 0
    BY <2>3 DEF Pieces, Left, o
  <2>5. Len(used[d]) - Recvd(o) = 0
    <3>1. /\ Len(used[d]) - Recvd(o) \in Int
          /\ (Len(used[d]) - Recvd(o)) * Parts = 0
      BY <2>1, <2>2, <2>4, Measures DEF Count, o
    <3> QED BY <3>1, PartsArithmetic
  <2>6. Recvd(o) = inKey[o][2] + 1 /\ inKey[o][1] = Dir(d)
    BY <2>1, <2>3 DEF Recvd, Keyed, Stage
  <2>7. outKey[d] = KeyOf(d, Len(used[d]) + 1) /\ Len(used[d]) >= 1
    BY <2>1, <2>3 DEF Stage, Keyed, Next1
  <2>8. /\ Len(used[d]) \in Nat /\ inKey[o] \in Key /\ inKey[o][2] \in Nat
    BY <2>1, Measures, Ratchets DEF Types
  <2>9. Len(used[d]) = inKey[o][2] + 1
    <3>1. Recvd(o) \in Nat
      BY <2>1, Measures
    <3> QED BY <2>5, <2>6, <2>8, <3>1
  <2>10. outKey[d] = <<Dir(d), inKey[o][2]>>
    <3>1. /\ Len(used[d]) + 1 # 1
          /\ (Len(used[d]) + 1) - 2 = inKey[o][2]
      <4>1. \A a, b \in Nat : a = b + 1 => a + 1 # 1 /\ (a + 1) - 2 = b
        OBVIOUS
      <4>2. Len(used[d]) \in Nat /\ inKey[o][2] \in Nat
        BY <2>8
      <4> QED BY <2>7, <2>9, <4>1, <4>2, Zenon
    <3> QED BY <2>7, <3>1 DEF KeyOf
  <2>11. inKey[o] = <<inKey[o][1], inKey[o][2]>>
    BY <2>8, Ratchets
  <2> QED BY <2>6, <2>10, <2>11 DEF o
<1> QED BY <1>1, Invariance, PTL

-----------------------------------------------------------------------------
(* What is on the way from d to the other party, piece by piece: received  *)
(* of a chunk that is not complete, in the network, still to be sent.      *)
Rest(d) ==
  IF ~up \/ sndBuff[d] = None THEN <<>>
  ELSE [i \in 1 .. Parts - sndAt[d] |-> <<sndBuff[d], sndAt[d] + i>>]
Flow(d) == rcvBuff[Other(d)] \o (net[d] \o Rest(d))

(* The pieces f are in order, those of chunk r + 1 first, of u made.       *)
Ordered(d, f, r, u) ==
  /\ \A p \in DOMAIN f :
       /\ f[p][1].n \in 1 .. u /\ f[p][1].key = KeyOf(d, f[p][1].n)
       /\ f[p][2] \in 1 .. Parts
       /\ (f[p][1].n - r - 1) * Parts + f[p][2] = p
  /\ \A p, q \in DOMAIN f : f[p][1].n = f[q][1].n => f[p][1] = f[q][1]

(* The number of the first chunk of a message: the others are those of the *)
(* handshake.  A chunk says which message it is of, and from where.        *)
First(d) == IF d = "proxy" THEN 3 ELSE 2
At(c) ==
  IF c.body[1][1] = "length" THEN [msg |-> c.body[2][2], from |-> 0]
  ELSE [msg |-> c.body[1][2], from |-> c.body[1][3] - 1]
ChunkBody(m, from) ==
  IF from = 0 THEN <<Length(Len(m))>> \o Filled(m, 0, Chunk - 1)
  ELSE Filled(m, from, Chunk)

(* Of the messages s: the place after the chunk that begins at place a.    *)
PlaceAfter(len, from) ==
  IF from = 0 THEN Least(len, Chunk - 1) ELSE Least(len, from + Chunk)
After(s, a) ==
  LET len == Len(s[a.msg])
      p == PlaceAfter(len, a.from)
  IN  IF p = len THEN [msg |-> a.msg + 1, from |-> 0]
      ELSE [msg |-> a.msg, from |-> p]
PartOf(s, c) ==
  /\ At(c).msg \in DOMAIN s
  /\ At(c).from \in 0 .. Len(s[At(c).msg]) - 1
  /\ c.body = ChunkBody(s[At(c).msg], At(c).from)

(* The chunks of f are those of the messages s, one after the other, from  *)
(* the place w on that the receiver waits for ...                          *)
Chained(d, f, r, s, w) ==
  /\ \A p \in DOMAIN f : f[p][1].n >= First(d) =>
       /\ PartOf(s, f[p][1])
       /\ f[p][1].n = r + 1 \/ f[p][1].n = First(d) => At(f[p][1]) = w
  /\ \A p, q \in DOMAIN f :
       f[p][1].n >= First(d) /\ f[q][1].n = f[p][1].n + 1 =>
         At(f[q][1]) = After(s, At(f[p][1]))
(* ... up to the place m that the sender comes to next.                    *)
Joined(d, f, r, u, s, w, m) ==
  /\ \A p \in DOMAIN f : f[p][1].n = u /\ u >= First(d) =>
       After(s, At(f[p][1])) = m
  /\ u = r \/ u < First(d) => m = w

(* Where a piece is tells which chunk it is of.                            *)
LEMMA Slots ==
  ASSUME NEW a \in Int, NEW b \in Int,
         NEW i \in 1 .. Parts, NEW j \in 1 .. Parts
  PROVE  /\ a * Parts + i = b * Parts + j => a = b /\ i = j
         /\ a * Parts + i > b * Parts => a >= b
         /\ a * Parts + i <= b * Parts => a < b
<1>1. /\ Parts \in Nat /\ Parts >= 1 /\ i \in Int /\ j \in Int
      /\ 1 <= i /\ i <= Parts /\ 1 <= j /\ j <= Parts
  BY PartsArithmetic
<1>2. ASSUME NEW x \in Int, NEW y \in Int, x < y
      PROVE  x * Parts + Parts <= y * Parts
  <2>1. (y - (x + 1)) * Parts >= 0
    BY <1>1, <1>2
  <2>2. (y - (x + 1)) * Parts = y * Parts - (x * Parts + Parts)
    BY <1>1
  <2>3. x * Parts \in Int /\ y * Parts \in Int
    BY PartsArithmetic
  <2> QED BY <1>1, <2>1, <2>2, <2>3
<1>3. a * Parts \in Int /\ b * Parts \in Int
  BY PartsArithmetic
<1>4. CASE a = b
  BY <1>1, <1>3, <1>4
<1>5. CASE a < b
  <2>1. a * Parts + Parts <= b * Parts
    BY <1>2, <1>5
  <2> QED BY <1>1, <1>3, <1>5, <2>1
<1>6. CASE b < a
  <2>1. b * Parts + Parts <= a * Parts
    BY <1>2, <1>6
  <2> QED BY <1>1, <1>3, <1>6, <2>1
<1> QED BY <1>4, <1>5, <1>6

(* The first pieces of a flow are those of the next chunk to be opened.    *)
LEMMA FirstChunk ==
  ASSUME NEW d, NEW f \in Seq(Piece), NEW r \in Nat, NEW u \in Nat,
         Ordered(d, f, r, u), Len(f) >= Parts
  PROVE  /\ 1 \in DOMAIN f /\ f[1][1].n = r + 1 /\ f[1][1] \in Chunks
         /\ r < u
         /\ \A p \in 1 .. Parts : p \in DOMAIN f /\ f[p] = <<f[1][1], p>>
<1>0. /\ Parts \in Nat /\ Parts >= 1 /\ Len(f) \in Nat
      /\ DOMAIN f = 1 .. Len(f) /\ \A p \in DOMAIN f : f[p] \in Piece
  <2> HIDE DEF Piece
  <2> QED BY PartsArithmetic, LenProperties
<1>1. ASSUME NEW p \in 1 .. Parts
      PROVE  /\ p \in DOMAIN f /\ f[p] = <<f[p][1], f[p][2]>>
             /\ f[p][1].n = r + 1 /\ f[p][2] = p /\ f[p][1] \in Chunks
  <2>1. p \in DOMAIN f
    BY <1>0
  <2>2. /\ f[p][1].n \in 1 .. u /\ f[p][2] \in 1 .. Parts
        /\ (f[p][1].n - r - 1) * Parts + f[p][2] = p
    BY <2>1 DEF Ordered
  <2>3. f[p] = <<f[p][1], f[p][2]>> /\ f[p][1] \in Chunks
    BY <1>0, <2>1 DEF Piece
  <2> DEFINE a == f[p][1].n - r - 1
             i == f[p][2]
  <2>4. a \in Int /\ i \in 1 .. Parts /\ a * Parts + i = p
    BY <2>2
  <2>5. 0 * Parts + p = p
    BY <1>0
  <2>6. a = 0 /\ i = p
    <3> HIDE DEF a, i
    <3> QED BY <2>4, <2>5, Slots
  <2>7. f[p][1].n = r + 1
    BY <2>2, <2>6, SMTT(30)
  <2> QED BY <2>1, <2>3, <2>6, <2>7
<1>2. 1 \in 1 .. Parts
  BY <1>0
<1>3. \A p \in 1 .. Parts : f[p][1] = f[1][1]
  BY <1>1, <1>2 DEF Ordered
<1>4. r < u
  <2>1. f[1][1].n \in 1 .. u
    BY <1>1, <1>2 DEF Ordered
  <2> QED BY <1>1, <1>2, <2>1
<1> QED BY <1>1, <1>2, <1>3, <1>4

(* What is true of the way of d: f is on it, r chunks of it are opened and *)
(* u made, s are the messages it was given, w and m the places receiver    *)
(* and sender have come to.  While it is connected, no piece is missing.   *)
Story(d, f, r, u, s, w, m, connected) ==
  /\ Ordered(d, f, r, u) /\ Chained(d, f, r, s, w)
  /\ connected => Len(f) = (u - r) * Parts /\ Joined(d, f, r, u, s, w, m)
Full(c) == [i \in 1 .. Parts |-> <<c, i>>]
Extends(t, s) ==
  /\ DOMAIN s \subseteq DOMAIN t
  /\ \A i \in DOMAIN s : t[i] = s[i]

(* More messages do not change what the chunks are of those before.        *)
LEMMA ExtendedParts ==
  ASSUME NEW s, NEW t, Extends(t, s), NEW c, PartOf(s, c)
  PROVE  PartOf(t, c) /\ After(t, At(c)) = After(s, At(c))
<1>1. At(c).msg \in DOMAIN s /\ At(c).msg \in DOMAIN t
      /\ t[At(c).msg] = s[At(c).msg]
  BY DEF PartOf, Extends
<1>2. PartOf(t, c)
  BY <1>1 DEF PartOf
<1>3. After(t, At(c)) = After(s, At(c))
  BY <1>1 DEF After
<1> QED BY <1>2, <1>3

(* What is left when the connection breaks.                                *)
LEMMA StoryCut ==
  ASSUME NEW d, NEW g \in Seq(Piece), NEW h \in Seq(Piece), NEW r, NEW u,
         NEW s, NEW w, NEW m, NEW n, NEW con,
         Story(d, g \o h, r, u, s, w, m, con)
  PROVE  Story(d, g, r, u, s, w, n, FALSE)
<1>1. \A p \in DOMAIN g : p \in DOMAIN (g \o h) /\ (g \o h)[p] = g[p]
  <2> HIDE DEF Piece
  <2> QED BY ConcatProperties, LenProperties
<1>2. Ordered(d, g, r, u)
  BY <1>1 DEF Story, Ordered
<1>3. Chained(d, g, r, s, w)
  BY <1>1 DEF Story, Chained
<1> QED BY <1>2, <1>3 DEF Story

(* A chunk is made that is not sent.                                       *)
LEMMA StoryMakes ==
  ASSUME NEW d, NEW f \in Seq(Piece), NEW r, NEW u \in Nat, NEW s, NEW t,
         NEW w, NEW m, NEW n, NEW con, Extends(t, s),
         Story(d, f, r, u, s, w, m, con)
  PROVE  Story(d, f, r, u + 1, t, w, n, FALSE)
<1>1. Ordered(d, f, r, u + 1)
  <2>1. \A x \in 1 .. u : x \in 1 .. u + 1
    OBVIOUS
  <2> QED BY <2>1 DEF Story, Ordered
<1>2. Chained(d, f, r, t, w)
  <2>1. Chained(d, f, r, s, w)
    BY DEF Story
  <2>2. \A p \in DOMAIN f : f[p][1].n >= First(d) =>
          /\ PartOf(s, f[p][1]) /\ PartOf(t, f[p][1])
          /\ After(t, At(f[p][1])) = After(s, At(f[p][1]))
    BY <2>1, ExtendedParts DEF Chained
  <2> QED BY <2>1, <2>2 DEF Chained
<1> QED BY <1>1, <1>2 DEF Story

(* A chunk is made and put behind the others.                              *)
LEMMA StoryAppends ==
  ASSUME NEW d, NEW f \in Seq(Piece), NEW r \in Nat, NEW u \in Nat,
         NEW s, NEW t, NEW w, NEW m, NEW n, NEW c \in Chunks, Extends(t, s),
         Story(d, f, r, u, s, w, m, TRUE),
         c.n = u + 1, c.key = KeyOf(d, u + 1),
         IF u + 1 < First(d) THEN n = m
         ELSE PartOf(t, c) /\ At(c) = m /\ After(t, m) = n
  PROVE  Story(d, f \o Full(c), r, u + 1, t, w, n, TRUE)
<1> DEFINE g == f \o Full(c)
<1>0. /\ Parts \in Nat /\ Parts >= 1 /\ Len(f) \in Nat
      /\ DOMAIN f = 1 .. Len(f) /\ First(d) \in Nat
  <2> HIDE DEF Piece
  <2> QED BY PartsArithmetic, LenProperties DEF First
<1>1. \A p \in DOMAIN f : f[p][1].n \in Nat /\ f[p][1].n <= u
  BY DEF Story, Ordered
<1>2. Len(f) = (u - r) * Parts /\ r <= u
  <2>1. Len(f) = (u - r) * Parts
    BY DEF Story
  <2>2. (u - r) * Parts >= 0 /\ u - r \in Int
    BY <2>1, <1>0
  <2>3. u - r >= 0
    <3> DEFINE a == u - r
    <3>1. a \in Int /\ 0 \in Int /\ 1 \in 1 .. Parts
      BY <1>0
    <3>2. a * Parts + 1 > 0 * Parts => a >= 0
      BY <3>1, Slots
    <3>3. 0 * Parts = 0 /\ a * Parts \in Int
      BY <1>0, <2>2
    <3> QED BY <2>2, <3>2, <3>3
  <2> QED BY <2>1, <2>3
<1>3. Full(c) \in Seq(Piece) /\ Len(Full(c)) = Parts
      /\ \A i \in 1 .. Parts : Full(c)[i] = <<c, i>>
  <2>1. \A i \in 1 .. Parts : <<c, i>> \in Piece
    BY <1>0 DEF Piece
  <2> HIDE DEF Piece
  <2> QED BY <1>0, <2>1 DEF Full
<1>4. /\ g \in Seq(Piece) /\ Len(g) = Len(f) + Parts
      /\ DOMAIN g = 1 .. Len(g)
      /\ \A p \in DOMAIN f : p \in DOMAIN g /\ g[p] = f[p]
      /\ \A p \in DOMAIN g :
           \/ p \in DOMAIN f
           \/ /\ p - Len(f) \in 1 .. Parts /\ p = Len(f) + (p - Len(f))
              /\ g[p] = <<c, p - Len(f)>>
  <2> HIDE DEF Piece
  <2>1. /\ g \in Seq(Piece) /\ Len(g) = Len(f) + Parts
        /\ \A p \in 1 .. Len(f) + Parts :
             g[p] = IF p <= Len(f) THEN f[p] ELSE Full(c)[p - Len(f)]
    BY <1>0, <1>3, ConcatProperties
  <2>2. DOMAIN g = 1 .. Len(g)
    BY <2>1, LenProperties
  <2> HIDE DEF g
  <2> QED BY <1>0, <1>3, <2>1, <2>2
<1> HIDE DEF g
<1>5. \A p \in DOMAIN g :
        \/ p \in DOMAIN f /\ g[p] = f[p] /\ g[p][1].n # u + 1
        \/ g[p][1] = c /\ g[p][1].n = u + 1
  BY <1>1, <1>4
<1>6. Ordered(d, g, r, u + 1)
  <2>1. ASSUME NEW p \in DOMAIN g
        PROVE  /\ g[p][1].n \in 1 .. u + 1
               /\ g[p][1].key = KeyOf(d, g[p][1].n)
               /\ g[p][2] \in 1 .. Parts
               /\ (g[p][1].n - r - 1) * Parts + g[p][2] = p
    <3>1. CASE p \in DOMAIN f
      <4>1. /\ f[p][1].n \in 1 .. u /\ f[p][1].key = KeyOf(d, f[p][1].n)
            /\ f[p][2] \in 1 .. Parts
            /\ (f[p][1].n - r - 1) * Parts + f[p][2] = p
        BY <3>1 DEF Story, Ordered
      <4> QED BY <1>4, <3>1, <4>1, SMTT(30)
    <3>2. CASE p \notin DOMAIN f
      <4>1. p - Len(f) \in 1 .. Parts /\ p = Len(f) + (p - Len(f))
            /\ g[p] = <<c, p - Len(f)>>
        BY <1>4, <3>2
      <4>2. g[p][1].n = u + 1 /\ g[p][2] = p - Len(f)
        BY <4>1
      <4>3. u + 1 - r - 1 = u - r
        OBVIOUS
      <4>4. (g[p][1].n - r - 1) * Parts = Len(f)
        BY <1>2, <4>2, <4>3
      <4>5. g[p][1].n \in 1 .. u + 1
        BY <4>2
      <4> QED BY <4>1, <4>2, <4>4, <4>5
    <3> QED BY <3>1, <3>2
  <2>2. ASSUME NEW p \in DOMAIN g, NEW q \in DOMAIN g,
               g[p][1].n = g[q][1].n
        PROVE  g[p][1] = g[q][1]
    <3>1. CASE g[p][1].n = u + 1
      <4>1. g[p][1] = c
        BY <1>5, <3>1
      <4>2. g[q][1] = c
        BY <1>5, <2>2, <3>1
      <4> QED BY <4>1, <4>2
    <3>2. CASE g[p][1].n # u + 1
      BY <1>5, <2>2, <3>2, SMTT(30) DEF Story, Ordered
    <3> QED BY <3>1, <3>2
  <2> QED BY <2>1, <2>2 DEF Ordered
<1>7. /\ \A p \in DOMAIN f : f[p][1].n >= First(d) =>
           /\ PartOf(t, f[p][1])
           /\ f[p][1].n = r + 1 \/ f[p][1].n = First(d) => At(f[p][1]) = w
           /\ f[p][1].n = u => After(t, At(f[p][1])) = m
      /\ \A p, q \in DOMAIN f :
           f[p][1].n >= First(d) /\ f[q][1].n = f[p][1].n + 1 =>
             At(f[q][1]) = After(t, At(f[p][1]))
  <2>1. \A p \in DOMAIN f : f[p][1].n >= First(d) =>
          /\ PartOf(s, f[p][1]) /\ PartOf(t, f[p][1])
          /\ After(t, At(f[p][1])) = After(s, At(f[p][1]))
    BY ExtendedParts DEF Story, Chained
  <2> QED BY <2>1 DEF Story, Chained, Joined
<1>8. u = r \/ u < First(d) => m = w
  BY DEF Story, Joined
<1>9. Chained(d, g, r, t, w)
  <2>1. ASSUME NEW p \in DOMAIN g, g[p][1].n >= First(d)
        PROVE  /\ PartOf(t, g[p][1])
               /\ g[p][1].n = r + 1 \/ g[p][1].n = First(d) =>
                    At(g[p][1]) = w
    <3>1. CASE g[p][1].n # u + 1
      BY <1>5, <1>7, <2>1, <3>1
    <3>2. CASE g[p][1].n = u + 1
      <4>1. g[p][1] = c /\ ~(u + 1 < First(d))
        BY <1>0, <1>5, <2>1, <3>2
      <4>2. PartOf(t, c) /\ At(c) = m
        BY <4>1
      <4>3. u + 1 = r + 1 \/ u + 1 = First(d) => m = w
        BY <1>0, <1>8
      <4> QED BY <3>2, <4>1, <4>2, <4>3
    <3> QED BY <3>1, <3>2
  <2>2. ASSUME NEW p \in DOMAIN g, NEW q \in DOMAIN g,
               g[p][1].n >= First(d), g[q][1].n = g[p][1].n + 1
        PROVE  At(g[q][1]) = After(t, At(g[p][1]))
    <3>1. g[p][1].n # u + 1 /\ p \in DOMAIN f /\ g[p] = f[p]
      BY <1>1, <1>5, <2>2
    <3>2. CASE g[q][1].n # u + 1
      BY <1>5, <1>7, <2>2, <3>1, <3>2
    <3>3. CASE g[q][1].n = u + 1
      <4>1. g[q][1] = c /\ f[p][1].n = u /\ ~(u + 1 < First(d))
        BY <1>0, <1>1, <1>5, <2>2, <3>1, <3>3
      <4>2. At(c) = m /\ After(t, At(f[p][1])) = m
        BY <1>7, <2>2, <3>1, <4>1
      <4> QED BY <3>1, <4>1, <4>2
    <3> QED BY <3>2, <3>3
  <2> QED BY <2>1, <2>2 DEF Chained
<1>10. Joined(d, g, r, u + 1, t, w, n)
  <2>1. ASSUME NEW p \in DOMAIN g, g[p][1].n = u + 1, u + 1 >= First(d)
        PROVE  After(t, At(g[p][1])) = n
    <3>1. g[p][1] = c /\ ~(u + 1 < First(d))
      BY <1>0, <1>5, <2>1
    <3> QED BY <3>1
  <2>2. u + 1 = r \/ u + 1 < First(d) => n = w
    BY <1>0, <1>2, <1>8
  <2> QED BY <2>1, <2>2 DEF Joined
<1>11. Len(g) = (u + 1 - r) * Parts
  <2>1. u + 1 - r = (u - r) + 1 /\ u - r \in Int
    OBVIOUS
  <2>2. (u + 1 - r) * Parts = (u - r) * Parts + Parts
    BY <2>1, PartsArithmetic
  <2> QED BY <1>2, <1>4, <2>2
<1>12. Story(d, g, r, u + 1, t, w, n, TRUE)
  BY <1>6, <1>9, <1>10, <1>11 DEF Story
<1> QED BY <1>12 DEF g

(* The first chunk is received and opened.                                 *)
LEMMA StoryDrops ==
  ASSUME NEW d, NEW buf \in Seq(Piece), NEW g \in Seq(Piece), NEW r \in Nat,
         NEW u \in Nat, NEW s, NEW w, NEW v, NEW m, NEW con,
         Story(d, buf \o g, r, u, s, w, m, con), Len(buf) = Parts,
         IF r + 1 < First(d) THEN v = w ELSE v = After(s, At(buf[1][1]))
  PROVE  Story(d, g, r + 1, u, s, v, m, con)
<1> DEFINE f == buf \o g
           c == buf[1][1]
<1>0. /\ Parts \in Nat /\ Parts >= 1 /\ Len(g) \in Nat
      /\ DOMAIN g = 1 .. Len(g) /\ First(d) \in Nat
  <2> HIDE DEF Piece
  <2> QED BY PartsArithmetic, LenProperties DEF First
<1>1. /\ f \in Seq(Piece) /\ Len(f) = Parts + Len(g)
      /\ DOMAIN f = 1 .. Len(f) /\ 1 \in DOMAIN f /\ f[1] = buf[1]
      /\ \A p \in DOMAIN g :
           \E x \in DOMAIN f : x = p + Parts /\ f[x] = g[p]
  <2> HIDE DEF Piece
  <2>1. /\ f \in Seq(Piece) /\ Len(f) = Len(buf) + Len(g)
        /\ \A p \in 1 .. Len(buf) + Len(g) :
             f[p] = IF p <= Len(buf) THEN buf[p] ELSE g[p - Len(buf)]
    BY ConcatProperties
  <2>2. DOMAIN f = 1 .. Len(f)
    BY <2>1, LenProperties
  <2>3. ASSUME NEW p \in DOMAIN g
        PROVE  p + Parts \in DOMAIN f /\ f[p + Parts] = g[p]
    <3>1. p \in Nat /\ 1 <= p /\ p <= Len(g) /\ p + Parts - Parts = p
          /\ ~(p + Parts <= Parts) /\ p + Parts \in 1 .. Parts + Len(g)
      BY <1>0
    <3> HIDE DEF f
    <3> QED BY <2>1, <2>2, <3>1
  <2> HIDE DEF f
  <2>4. 1 \in 1 .. Parts + Len(g) /\ 1 <= Parts
    BY <1>0
  <2> QED BY <2>1, <2>2, <2>3, <2>4
<1>2. Story(d, f, r, u, s, w, m, con)
  OBVIOUS
<1> HIDE DEF f
<1>3. Ordered(d, f, r, u) /\ Chained(d, f, r, s, w)
  BY <1>2 DEF Story
<1>4. f[1][1] = c /\ c.n = r + 1 /\ r < u /\ 1 \in DOMAIN f
  <2>1. Len(f) >= Parts
    BY <1>0, <1>1
  <2>2. f[1][1].n = r + 1 /\ r < u
    BY <1>1, <1>3, <2>1, FirstChunk
  <2> QED BY <1>1, <2>2
<1>5. ASSUME NEW p \in DOMAIN g
      PROVE  /\ \E x \in DOMAIN f : g[p] = f[x]
             /\ g[p][1].n \in 1 .. u /\ g[p][1].key = KeyOf(d, g[p][1].n)
             /\ g[p][2] \in 1 .. Parts
             /\ (g[p][1].n - (r + 1) - 1) * Parts + g[p][2] = p
             /\ g[p][1].n >= r + 2
  <2>0. PICK x \in DOMAIN f : x = p + Parts /\ f[x] = g[p]
    BY <1>1
  <2>1. /\ g[p][1].n \in 1 .. u /\ g[p][1].key = KeyOf(d, g[p][1].n)
        /\ g[p][2] \in 1 .. Parts
        /\ (g[p][1].n - r - 1) * Parts + g[p][2] = p + Parts
    BY <1>3, <2>0 DEF Ordered
  <2> DEFINE a == g[p][1].n - r - 1
             i == g[p][2]
  <2>2. a \in Int /\ i \in 1 .. Parts /\ a * Parts + i = p + Parts
        /\ g[p][1].n = a + r + 1 /\ g[p][1].n - (r + 1) - 1 = a - 1
    <3>1. g[p][1].n \in Int
      BY <2>1
    <3>2. /\ g[p][1].n = (g[p][1].n - r - 1) + r + 1
          /\ g[p][1].n - (r + 1) - 1 = (g[p][1].n - r - 1) - 1
          /\ g[p][1].n - r - 1 \in Int
      BY <3>1, SMTT(30)
    <3> QED BY <2>1, <3>2
  <2>3. p \in Nat /\ p >= 1
    BY <1>0
  <2> HIDE DEF a, i
  <2>4. (a - 1) * Parts = a * Parts - Parts /\ a * Parts \in Int
    BY <2>2, PartsArithmetic
  <2>5. (a - 1) * Parts + i = p
    <3> DEFINE y == a * Parts
               z == (a - 1) * Parts
    <3>1. z = y - Parts /\ y \in Int /\ y + i = p + Parts
      BY <2>2, <2>4
    <3> HIDE DEF y, z
    <3>2. z + i = p
      BY <1>0, <2>2, <2>3, <3>1, SMTT(30)
    <3> QED BY <3>2 DEF z
  <2>6. a * Parts + i > 1 * Parts
    BY <1>0, <2>2, <2>3
  <2>7. a >= 1
    <3>1. \E j \in 1 .. Parts : j = i
      BY <2>2
    <3> QED BY <2>2, <2>6, Slots
  <2>8. g[p][1].n >= r + 2
    BY <2>2, <2>7
  <2>9. (g[p][1].n - (r + 1) - 1) * Parts + i = p
    BY <2>2, <2>5
  <2>10. \E y \in DOMAIN f : g[p] = f[y]
    BY <2>0
  <2> QED BY <2>1, <2>8, <2>9, <2>10 DEF i
<1>6. Ordered(d, g, r + 1, u)
  <2>1. ASSUME NEW p \in DOMAIN g, NEW q \in DOMAIN g,
               g[p][1].n = g[q][1].n
        PROVE  g[p][1] = g[q][1]
    <3>1. PICK x \in DOMAIN f : g[p] = f[x]
      BY <1>5
    <3>2. PICK y \in DOMAIN f : g[q] = f[y]
      BY <1>5
    <3> QED BY <1>3, <2>1, <3>1, <3>2 DEF Ordered
  <2> QED BY <1>5, <2>1 DEF Ordered
<1>7. Chained(d, g, r + 1, s, v)
  <2>1. ASSUME NEW p \in DOMAIN g, g[p][1].n >= First(d)
        PROVE  /\ PartOf(s, g[p][1])
               /\ g[p][1].n = r + 2 \/ g[p][1].n = First(d) =>
                    At(g[p][1]) = v
    <3>1. /\ PartOf(s, g[p][1])
          /\ g[p][1].n = r + 1 \/ g[p][1].n = First(d) => At(g[p][1]) = w
      BY <1>3, <1>5, <2>1 DEF Chained
    <3>2. CASE r + 1 < First(d)
      <4>1. g[p][1].n = r + 2 => g[p][1].n = First(d)
        BY <1>0, <2>1, <3>2
      <4> QED BY <3>1, <3>2, <4>1
    <3>3. CASE ~(r + 1 < First(d))
      <4>1. g[p][1].n # First(d) /\ c.n >= First(d)
        BY <1>0, <1>4, <1>5, <3>3
      <4>2. g[p][1].n = r + 2 => g[p][1].n = c.n + 1
        BY <1>4
      <4>3. g[p][1].n = c.n + 1 => At(g[p][1]) = After(s, At(c))
        <5>1. PICK x \in DOMAIN f : g[p] = f[x]
          BY <1>5
        <5> QED BY <1>3, <1>4, <4>1, <5>1 DEF Chained
      <4> QED BY <3>1, <3>3, <4>1, <4>2, <4>3
    <3> QED BY <3>2, <3>3
  <2>2. ASSUME NEW p \in DOMAIN g, NEW q \in DOMAIN g,
               g[p][1].n >= First(d), g[q][1].n = g[p][1].n + 1
        PROVE  At(g[q][1]) = After(s, At(g[p][1]))
    <3>1. PICK x \in DOMAIN f : g[p] = f[x]
      BY <1>5
    <3>2. PICK y \in DOMAIN f : g[q] = f[y]
      BY <1>5
    <3> QED BY <1>3, <2>2, <3>1, <3>2 DEF Chained
  <2>3. r + 1 + 1 = r + 2
    OBVIOUS
  <2> QED BY <2>1, <2>2, <2>3 DEF Chained
<1>8. ASSUME con
      PROVE  Len(g) = (u - (r + 1)) * Parts /\ Joined(d, g, r + 1, u, s, v, m)
  <2>1. Len(f) = (u - r) * Parts /\ Joined(d, f, r, u, s, w, m)
    BY <1>2, <1>8 DEF Story
  <2>2. Len(g) = (u - (r + 1)) * Parts
    <3>1. u - (r + 1) = (u - r) - 1 /\ u - r \in Int
      OBVIOUS
    <3>2. (u - (r + 1)) * Parts = (u - r) * Parts - Parts
      BY <3>1, PartsArithmetic
    <3> DEFINE y == (u - r) * Parts
               z == (u - (r + 1)) * Parts
    <3>3. z = y - Parts /\ Len(f) = y
      BY <2>1, <3>2
    <3> HIDE DEF y, z
    <3>4. Len(g) = z
      BY <1>0, <1>1, <3>3
    <3> QED BY <3>4 DEF z
  <2>3. \A p \in DOMAIN g : g[p][1].n = u /\ u >= First(d) =>
          After(s, At(g[p][1])) = m
    BY <1>5, <2>1 DEF Joined
  <2>4. ASSUME u = r + 1 \/ u < First(d) PROVE m = v
    <3>1. CASE r + 1 < First(d)
      <4>1. u < First(d)
        BY <1>0, <2>4, <3>1
      <4> QED BY <2>1, <3>1, <4>1 DEF Joined
    <3>2. CASE ~(r + 1 < First(d))
      <4>1. c.n = u /\ u >= First(d)
        BY <1>0, <1>4, <2>4, <3>2
      <4>2. After(s, At(c)) = m
        BY <1>4, <2>1, <4>1 DEF Joined
      <4> QED BY <3>2, <4>2
    <3> QED BY <3>1, <3>2
  <2> QED BY <2>2, <2>3, <2>4 DEF Joined
<1> QED BY <1>6, <1>7, <1>8 DEF Story

(* The places in the messages: of the next chunk the receiver waits for,   *)
(* and of the next the sender makes.                                       *)
Wants(o) == [msg |-> Len(got[o]) + 1, from |-> rcvPlace[o]]
Makes(d) ==
  IF src[d] = None \/ sndPlace[d] = Len(src[d])
  THEN [msg |-> Len(sent[d]) + 1, from |-> 0]
  ELSE [msg |-> Len(sent[d]), from |-> sndPlace[d]]
Told(d) ==
  phase[Other(d)] # "dead" =>
    Story(d, Flow(d), Recvd(Other(d)), Len(used[d]), sent[d],
          Wants(Other(d)), Makes(d), up)

(* The message being sent is the last one given, and what is put together  *)
(* of a message is its beginning.                                          *)
Source(d) ==
  src[d] # None =>
    /\ Len(sent[d]) \in DOMAIN sent[d]
    /\ src[d] = sent[d][Len(sent[d])]
    /\ src[d] = Message(d, Len(sent[d]), Len(src[d]))
    /\ sndBuff[d] # None /\ sndPlace[d] <= Len(src[d])
Building(o) ==
  rcvPlace[o] # 0 =>
    /\ Len(got[o]) + 1 \in DOMAIN sent[Other(o)]
    /\ Len(dst[o]) = Len(sent[Other(o)][Len(got[o]) + 1])
    /\ rcvPlace[o] < Len(dst[o])
    /\ \A j \in 1 .. rcvPlace[o] :
         dst[o][j] = sent[Other(o)][Len(got[o]) + 1][j]
(* In the tunnel the chunks of the handshake are made and opened.          *)
Begins(d) ==
  /\ phase[d] = "login" => inKey[d][2] = 0
  /\ phase[d] = "tunnel" => Len(used[d]) >= First(d) - 1
  /\ phase[d] = "tunnel" => Recvd(d) >= First(Other(d)) - 1
(* A party gives up only a connection that broke or timed out.             *)
Broken ==
  /\ \A d \in Parties : phase[d] = "dead" => ~up
  /\ ~up => fault
Shape ==
  /\ up \in BOOLEAN /\ at \in {"client", "server"}
  /\ rcvPlace \in [Parties -> Nat] /\ dst \in [Parties -> Seq(Unit)]
  /\ got \in [Parties -> Seq(Seq(Unit))]
  /\ \A d \in Parties : Len(net[d]) <= SockCap /\ Len(rcvBuff[d]) < Parts

(* Added to IInv and Numbered, inductive as long as no message of the      *)
(* chat client is read into ws2 part way through one of the server.        *)
Stream ==
  /\ Shape /\ Broken
  /\ \A d \in Parties : Source(d) /\ Building(d) /\ Begins(d) /\ Told(d)
Undisturbed == at = "client" => rcvPlace["proxy"] = 0

(* Concatenation is associative, for sequences of pieces.                  *)
LEMMA Regrouped ==
  \A a, b, c \in Seq(Piece) : (a \o b) \o c = a \o (b \o c)
BY ConcatAssociative

(* The flow and what it is made of.                                        *)
LEMMA Flows ==
  ASSUME Types, NEW d \in Parties
  PROVE  /\ net[d] \in Seq(Piece) /\ rcvBuff[Other(d)] \in Seq(Piece)
         /\ Rest(d) \in Seq(Piece) /\ net[d] \o Rest(d) \in Seq(Piece)
         /\ Flow(d) \in Seq(Piece)
<1>1. net[d] \in Seq(Piece) /\ rcvBuff[Other(d)] \in Seq(Piece)
  BY Others DEF Types
<1>2. Rest(d) \in Seq(Piece)
  <2>1. CASE ~up \/ sndBuff[d] = None
    BY <2>1 DEF Rest
  <2>2. CASE up /\ sndBuff[d] # None
    <3> DEFINE n == Parts - sndAt[d]
    <3>1. n \in Nat /\ sndAt[d] \in Nat
      BY PartsArithmetic, SMTT(30) DEF Types
    <3>2. \A i \in 1 .. n : <<sndBuff[d], sndAt[d] + i>> \in Piece
      BY <2>2, <3>1 DEF Types, Piece
    <3>3. Rest(d) = [i \in 1 .. n |-> <<sndBuff[d], sndAt[d] + i>>]
      BY <2>2 DEF Rest
    <3> HIDE DEF n
    <3> QED BY <3>1, <3>2, <3>3
  <2> QED BY <2>1, <2>2
<1>3. net[d] \o Rest(d) \in Seq(Piece)
  BY <1>1, <1>2, ConcatProperties
<1> QED BY <1>1, <1>2, <1>3, ConcatProperties DEF Flow

(* One send(2): the pieces it moves are the first of the rest.             *)
LEMMA FlowSent ==
  ASSUME Types, NEW d \in Parties, NEW k \in 1 .. Parts, socketSend(d, k)
  PROVE  /\ LastOf(d, k) => net'[d] = net[d] \o Rest(d)
         /\ ~LastOf(d, k) /\ sndBuff'[d] = sndBuff[d]
            /\ rcvBuff' = rcvBuff => Flow(d)' = Flow(d)
<1> DEFINE mine == [i \in 1 .. k |-> <<sndBuff[d], sndAt[d] + i>>]
           n == Parts - sndAt[d]
<1>0. /\ sndAt[d] \in Nat /\ k \in Nat /\ n \in Nat /\ k <= n
      /\ sndBuff[d] # None /\ up /\ up' /\ Parts \in Nat
  BY PartsArithmetic, SMTT(30) DEF Types, socketSend
<1>1. net'[d] = net[d] \o mine
  BY DEF Types, socketSend
<1>2. Rest(d) = [i \in 1 .. n |-> <<sndBuff[d], sndAt[d] + i>>]
  BY <1>0 DEF Rest
<1>3. ASSUME LastOf(d, k)
      PROVE  net'[d] = net[d] \o Rest(d)
  <2>1. k = n
    BY <1>0, <1>3 DEF LastOf
  <2> QED BY <1>1, <1>2, <2>1
<1>4. ASSUME ~LastOf(d, k), sndBuff'[d] = sndBuff[d], rcvBuff' = rcvBuff
      PROVE  Flow(d)' = Flow(d)
  <2> DEFINE rest == [i \in 1 .. n - k |->
                        <<sndBuff[d], (sndAt[d] + k) + i>>]
  <2>1. sndAt'[d] = sndAt[d] + k
    <3>1. sndAt[d] + k \in 0 .. Parts - 1
      BY <1>0, <1>4 DEF LastOf
    <3>2. (sndAt[d] + k) % Parts = sndAt[d] + k
      BY <3>1, PartsArithmetic
    <3> QED BY <3>2 DEF Types, socketSend
  <2>2. Rest(d)' = rest
    <3>1. Parts - sndAt'[d] = n - k
      BY <1>0, <2>1
    <3>2. Rest(d)' =
            [i \in 1 .. Parts - sndAt'[d] |-> <<sndBuff'[d], sndAt'[d] + i>>]
      BY <1>0, <1>4 DEF Rest
    <3> QED BY <1>4, <2>1, <3>1, <3>2
  <2>3. mine \in Seq(Piece) /\ rest \in Seq(Piece)
        /\ Len(mine) = k /\ Len(rest) = n - k
    <3>1. \A i \in 1 .. n : <<sndBuff[d], sndAt[d] + i>> \in Piece
      BY <1>0 DEF Types, Piece
    <3>2. \A i \in 1 .. n - k : i + k \in 1 .. n
            /\ (sndAt[d] + k) + i = sndAt[d] + (i + k)
      BY <1>0
    <3>3. \A i \in 1 .. k : mine[i] \in Piece
      BY <1>0, <3>1
    <3>4. \A i \in 1 .. n - k : rest[i] \in Piece
      BY <3>1, <3>2
    <3>5. n - k \in Nat
      BY <1>0
    <3>6. mine \in Seq(Piece) /\ Len(mine) = k
      BY <1>0, <3>3
    <3>7. rest \in Seq(Piece) /\ Len(rest) = n - k
      <4> DEFINE j == n - k
      <4>1. rest = [i \in 1 .. j |-> rest[i]]
        OBVIOUS
      <4>2. j \in Nat /\ \A i \in 1 .. j : rest[i] \in Piece
        BY <3>4, <3>5
      <4> HIDE DEF j, rest
      <4>3. rest \in Seq(Piece) /\ Len(rest) = j
        BY <4>1, <4>2
      <4> QED BY <4>3 DEF j
    <3> QED BY <3>6, <3>7
  <2>4. mine \o rest = Rest(d)
    <3>1. Rest(d) \in Seq(Piece) /\ Len(Rest(d)) = n
      <4>1. Rest(d) \in Seq(Piece)
        BY Flows
      <4>2. Len(Rest(d)) = n
        BY <1>0, <1>2
      <4> QED BY <4>1, <4>2
    <3>2. mine \o rest \in Seq(Piece) /\ Len(mine \o rest) = n
          /\ \A i \in 1 .. n : (mine \o rest)[i] =
               IF i <= k THEN mine[i] ELSE rest[i - k]
      <4> HIDE DEF mine, rest, n
      <4>1. k + (n - k) = n
        BY <1>0
      <4>2. /\ mine \o rest \in Seq(Piece)
            /\ Len(mine \o rest) = Len(mine) + Len(rest)
            /\ \A i \in 1 .. Len(mine) + Len(rest) : (mine \o rest)[i] =
                 IF i <= Len(mine) THEN mine[i] ELSE rest[i - Len(mine)]
        BY <2>3, ConcatProperties
      <4> QED BY <2>3, <4>1, <4>2
    <3>3. ASSUME NEW i \in 1 .. n
          PROVE  (mine \o rest)[i] = Rest(d)[i]
      <4>1. CASE i <= k
        BY <1>0, <1>2, <3>2, <4>1, SMTT(30)
      <4>2. CASE i > k
        <5>1. i - k \in 1 .. n - k /\ (sndAt[d] + k) + (i - k) = sndAt[d] + i
          BY <1>0, <4>2
        <5>2. rest[i - k] = <<sndBuff[d], sndAt[d] + i>>
          BY <5>1
        <5>3. (mine \o rest)[i] = rest[i - k]
          <6> HIDE DEF mine, rest, n
          <6> QED BY <1>0, <3>2, <4>2
        <5> QED BY <1>2, <5>2, <5>3
      <4> QED BY <1>0, <4>1, <4>2, SMTT(30)
    <3> HIDE DEF mine, rest, n
    <3> QED BY <3>1, <3>2, <3>3, SeqEqual
  <2> HIDE DEF mine, rest
  <2>5. net[d] \in Seq(Piece)
    BY Flows
  <2>6. (net[d] \o mine) \o rest = net[d] \o (mine \o rest)
    BY <2>3, <2>5, Regrouped
  <2> QED BY <1>1, <1>4, <2>2, <2>4, <2>6 DEF Flow
<1> QED BY <1>3, <1>4

(* One recv(2): the pieces it moves are the first on their way.            *)
LEMMA FlowReceived ==
  ASSUME Types, NEW d \in Parties, NEW k \in 1 .. Parts, socketRecv(d, k)
  PROVE  With(d, k) \o net'[Other(d)] = rcvBuff[d] \o net[Other(d)]
<1> DEFINE way == net[Other(d)]
<1>1. /\ Other(d) \in Parties /\ way \in Seq(Piece) /\ k \in Nat /\ 1 <= k
      /\ rcvBuff[d] \in Seq(Piece) /\ Len(way) \in Nat /\ k <= Len(way)
  <2>1. way \in Seq(Piece) /\ rcvBuff[d] \in Seq(Piece)
    BY Others DEF Types
  <2>2. Len(way) \in Nat
    BY <2>1, LenProperties
  <2> QED BY <2>1, <2>2, Others, PartsArithmetic DEF socketRecv
<1>2. net'[Other(d)] = SubSeq(way, k + 1, Len(way))
  BY <1>1 DEF Types, socketRecv
<1>3. With(d, k) = rcvBuff[d] \o SubSeq(way, 1, k)
  <2>1. Least(k, Len(way)) = k
    BY <1>1 DEF Least
  <2> QED BY <2>1 DEF With
<1> HIDE DEF way
<1>4. SubSeq(way, 1, k) \o SubSeq(way, k + 1, Len(way)) = way
  <2>1. 1 \in 1 .. Len(way) + 1 /\ k \in 1 - 1 .. Len(way)
        /\ Len(way) \in k .. Len(way)
    BY <1>1
  <2>2. SubSeq(way, 1, k) \o SubSeq(way, k + 1, Len(way))
          = SubSeq(way, 1, Len(way))
    BY <1>1, <2>1, ConcatAdjacentSubSeq
  <2> QED BY <1>1, <2>2, SubSeqFull
<1>5. /\ SubSeq(way, 1, k) \in Seq(Piece)
      /\ SubSeq(way, k + 1, Len(way)) \in Seq(Piece)
  <2>1. \A i \in 1 .. Len(way) : way[i] \in Piece
    BY <1>1, ElementOfSeq
  <2>2. (\A i \in 1 .. k : way[i] \in Piece)
        /\ \A i \in k + 1 .. Len(way) : way[i] \in Piece
    BY <1>1, <2>1
  <2>3. 1 \in Int /\ k \in Int /\ k + 1 \in Int /\ Len(way) \in Int
    BY <1>1
  <2> QED BY <2>2, <2>3, SubSeqProperties
<1>6. (rcvBuff[d] \o SubSeq(way, 1, k)) \o SubSeq(way, k + 1, Len(way))
        = rcvBuff[d] \o (SubSeq(way, 1, k) \o SubSeq(way, k + 1, Len(way)))
  BY <1>1, <1>5, Regrouped
<1> QED BY <1>2, <1>3, <1>4, <1>6 DEF way

(* What disturbs nothing of the way of d.                                  *)
LEMMA ToldSame ==
  ASSUME NEW d \in Parties, Told(d),
         Flow(d)' = Flow(d), Recvd(Other(d))' = Recvd(Other(d)),
         used'[d] = used[d], sent'[d] = sent[d],
         Wants(Other(d))' = Wants(Other(d)), Makes(d)' = Makes(d), up' = up,
         phase[Other(d)] = "dead" => phase'[Other(d)] = "dead"
  PROVE  Told(d)'
BY DEF Told

(* What the other party does without opening a chunk leaves what is told   *)
(* of a way as it is.                                                      *)
LEMMA ToldKept ==
  ASSUME NEW d \in Parties, Told(d),
         net'[d] = net[d], sndBuff'[d] = sndBuff[d], sndAt'[d] = sndAt[d],
         used'[d] = used[d], sent'[d] = sent[d], src'[d] = src[d],
         sndPlace'[d] = sndPlace[d], up' = up,
         rcvBuff'[Other(d)] = rcvBuff[Other(d)],
         rcvPlace'[Other(d)] = rcvPlace[Other(d)],
         got'[Other(d)] = got[Other(d)],
         Recvd(Other(d))' = Recvd(Other(d)),
         phase[Other(d)] = "dead" => phase'[Other(d)] = "dead"
  PROVE  Told(d)'
<1>1. Flow(d)' = Flow(d)
  BY DEF Flow, Rest
<1>2. Makes(d)' = Makes(d) /\ Wants(Other(d))' = Wants(Other(d))
  BY DEF Makes, Wants
<1> QED BY <1>1, <1>2, ToldSame

(* The connection breaks, or a party gives it up.                          *)
LEMMA ToldCut ==
  ASSUME Types, NEW d \in Parties, Told(d), up' = FALSE,
         net'[d] = net[d] \/ net'[d] = <<>>,
         used'[d] = used[d], sent'[d] = sent[d],
         rcvBuff'[Other(d)] = rcvBuff[Other(d)],
         rcvPlace'[Other(d)] = rcvPlace[Other(d)],
         got'[Other(d)] = got[Other(d)],
         phase'[Other(d)] # "dead" =>
           phase[Other(d)] # "dead" /\ Recvd(Other(d))' = Recvd(Other(d))
  PROVE  Told(d)'
<1> SUFFICES ASSUME phase'[Other(d)] # "dead"
             PROVE  Told(d)'
  BY DEF Told
<1> DEFINE buf == rcvBuff[Other(d)]
           r == Recvd(Other(d))
           u == Len(used[d])
           w == Wants(Other(d))
<1>1. /\ net[d] \in Seq(Piece) /\ buf \in Seq(Piece)
      /\ Rest(d) \in Seq(Piece) /\ net[d] \o Rest(d) \in Seq(Piece)
  BY Flows
<1>2. Story(d, buf \o (net[d] \o Rest(d)), r, u, sent[d], w, Makes(d), up)
  BY DEF Told, Flow
<1>3. Flow(d)' = buf \o (net'[d] \o <<>>)
  BY DEF Flow, Rest
<1>4. r' = r /\ w' = w /\ u' = u
  BY DEF Wants
<1> HIDE DEF buf, r, u, w
<1>5. CASE net'[d] = net[d]
  <2>1. Flow(d)' = buf \o net[d] /\ buf \o net[d] \in Seq(Piece)
    BY <1>1, <1>3, <1>5, ConcatEmptySeq, ConcatProperties
  <2>2. (buf \o net[d]) \o Rest(d) = buf \o (net[d] \o Rest(d))
    BY <1>1, Regrouped, ZenonT(30)
  <2>3. Story(d, buf \o net[d], r, u, sent[d], w, Makes(d)', FALSE)
    BY <1>1, <1>2, <2>1, <2>2, StoryCut
  <2> QED BY <1>4, <2>1, <2>3 DEF Told, r, u, w
<1>6. CASE net'[d] = <<>>
  <2>1. Flow(d)' = buf
    <3>1. <<>> \o <<>> = <<>> /\ buf \o <<>> = buf
      BY <1>1, ConcatEmptySeq
    <3> QED BY <1>3, <1>6, <3>1
  <2>2. Story(d, buf, r, u, sent[d], w, Makes(d)', FALSE)
    BY <1>1, <1>2, StoryCut
  <2> QED BY <1>4, <2>1, <2>2 DEF Told, r, u, w
<1> QED BY <1>5, <1>6

(* A chunk is made, and sent when those before it are.                     *)
LEMMA ToldBegun ==
  ASSUME Types, NEW d \in Parties, Told(d), NEW body \in Bodies,
         Encrypt(d, KeyOf(d, Len(used[d]) + 1), body),
         net'[d] = net[d] \o Rest(d), sndAt'[d] = 0, up' = up,
         up \in BOOLEAN,
         rcvBuff'[Other(d)] = rcvBuff[Other(d)],
         Recvd(Other(d))' = Recvd(Other(d)),
         phase[Other(d)] = "dead" => phase'[Other(d)] = "dead",
         Wants(Other(d))' = Wants(Other(d)), Extends(sent'[d], sent[d]),
         IF Len(used[d]) + 1 < First(d) THEN Makes(d)' = Makes(d)
         ELSE \A c \in Chunks : c.body = body =>
                /\ PartOf(sent'[d], c) /\ At(c) = Makes(d)
                /\ After(sent'[d], Makes(d)) = Makes(d)'
  PROVE  Told(d)'
<1> SUFFICES ASSUME phase[Other(d)] # "dead"
             PROVE  Told(d)'
  BY DEF Told
<1> DEFINE buf == rcvBuff[Other(d)]
           r == Recvd(Other(d))
           u == Len(used[d])
           w == Wants(Other(d))
           c == sndBuff'[d]
<1>1. /\ net[d] \in Seq(Piece) /\ buf \in Seq(Piece)
      /\ Rest(d) \in Seq(Piece) /\ net[d] \o Rest(d) \in Seq(Piece)
      /\ Flow(d) \in Seq(Piece)
  BY Flows
<1>2. Story(d, Flow(d), r, u, sent[d], w, Makes(d), up)
  BY DEF Told
<1>3. r \in Nat /\ u \in Nat
  BY Others, Measures
<1>4. /\ c = [n |-> u + 1, key |-> KeyOf(d, u + 1), body |-> body]
      /\ u' = u + 1
  <2>1. used'[d] = Append(used[d], KeyOf(d, u + 1)) /\ used[d] \in Seq(Key)
    BY DEF Encrypt, Types
  <2>2. KeyOf(d, u + 1) \in Key
    BY <1>3, KeysDiffer
  <2>3. c = [n |-> u + 1, key |-> KeyOf(d, u + 1), body |-> body]
    BY DEF Encrypt, Types
  <2> HIDE DEF c
  <2> QED BY <2>1, <2>2, <2>3, AppendProperties
<1>5. c \in Chunks /\ c.n = u + 1 /\ c.key = KeyOf(d, u + 1) /\ c.body = body
  <2>1. u + 1 \in Nat /\ KeyOf(d, u + 1) \in Key
    BY <1>3, KeysDiffer
  <2> HIDE DEF c, u
  <2> QED BY <1>4, <2>1 DEF Chunks
<1>6. c # None
  BY <1>5, SessionAssumption
<1>7. Flow(d)' = buf \o ((net[d] \o Rest(d)) \o Rest(d)')
  BY DEF Flow
<1>8. r' = r /\ w' = w
  OBVIOUS
<1>9. CASE up
  <2>1. Rest(d)' = Full(c)
    <3>1. Rest(d)' = [i \in 1 .. Parts - 0 |-> <<c, 0 + i>>]
      BY <1>6, <1>9 DEF Rest
    <3>2. Parts - 0 = Parts /\ \A i \in 1 .. Parts : 0 + i = i
      BY PartsArithmetic
    <3> HIDE DEF c
    <3> QED BY <3>1, <3>2 DEF Full
  <2>2. Full(c) \in Seq(Piece)
    <3> HIDE DEF c
    <3>1. \A i \in 1 .. Parts : i \in Nat
      BY PartsArithmetic
    <3>2. \A i \in 1 .. Parts : <<c, i>> \in Piece
      BY <1>5, <3>1 DEF Piece
    <3> HIDE DEF Piece
    <3> QED BY <3>2, PartsArithmetic DEF Full
  <2>3. buf \o ((net[d] \o Rest(d)) \o Full(c))
          = (buf \o (net[d] \o Rest(d))) \o Full(c)
    <3> DEFINE mid  == net[d] \o Rest(d)
               full == Full(c)
    <3>1. buf \in Seq(Piece) /\ mid \in Seq(Piece) /\ full \in Seq(Piece)
      BY <1>1, <2>2
    <3> HIDE DEF buf, c, mid, full
    <3>2. (buf \o mid) \o full = buf \o (mid \o full)
      BY <3>1, Regrouped, Zenon
    <3> QED BY <3>2 DEF mid, full
  <2>4. Flow(d)' = Flow(d) \o Full(c)
    BY <1>7, <2>1, <2>3 DEF Flow
  <2>5. IF u + 1 < First(d) THEN Makes(d)' = Makes(d)
        ELSE /\ PartOf(sent'[d], c) /\ At(c) = Makes(d)
             /\ After(sent'[d], Makes(d)) = Makes(d)'
    BY <1>5
  <2> HIDE DEF c, u, r, w
  <2>6. Story(d, Flow(d), r, u, sent[d], w, Makes(d), TRUE)
    BY <1>2, <1>9
  <2>7. Story(d, Flow(d) \o Full(c), r, u + 1, sent'[d], w, Makes(d)', TRUE)
    BY <1>1, <1>3, <1>5, <2>5, <2>6, StoryAppends
  <2>8. up' = TRUE
    BY <1>9
  <2> QED BY <1>4, <1>8, <2>4, <2>7, <2>8 DEF Told, r, w, u
<1>10. CASE ~up
  <2>1. Rest(d) = <<>> /\ Rest(d)' = <<>>
    BY <1>10 DEF Rest
  <2>2. Flow(d)' = Flow(d)
    <3>1. net[d] \o <<>> = net[d]
      BY <1>1, ConcatEmptySeq
    <3> QED BY <1>7, <2>1, <3>1 DEF Flow
  <2> HIDE DEF c, u, r, w
  <2>3. Story(d, Flow(d), r, u + 1, sent'[d], w, Makes(d)', FALSE)
    BY <1>1, <1>2, <1>3, StoryMakes
  <2>4. up' = FALSE
    BY <1>10
  <2> QED BY <1>4, <1>8, <2>2, <2>3, <2>4 DEF Told, r, w, u
<1> QED BY <1>9, <1>10

(* A chunk that is complete is the next one, and opens.                    *)
LEMMA ChunkArrives ==
  ASSUME Types, NEW o \in Parties, NEW buf, TCPSockRecv(o, buf),
         Told(Other(o)), phase[o] # "dead"
  PROVE  /\ buf \in Seq(Piece) /\ Len(buf) = Parts
         /\ rcvBuff' = [rcvBuff EXCEPT ![o] = <<>>]
         /\ net'[o] = net[o] /\ net'[Other(o)] \in Seq(Piece)
         /\ Len(net'[Other(o)]) <= Len(net[Other(o)])
         /\ Flow(Other(o)) = buf \o (net'[Other(o)] \o Rest(Other(o)))
         /\ Opens(buf, KeyOf(Other(o), Recvd(o) + 1))
         /\ buf[1][1] \in Chunks
         /\ Recvd(o) + 1 >= First(Other(o)) =>
              /\ PartOf(sent[Other(o)], buf[1][1])
              /\ At(buf[1][1]) = Wants(o)
<1> DEFINE d == Other(o)
<1>0. d \in Parties /\ Other(d) = o /\ d # o /\ Recvd(o) \in Nat
      /\ Len(used[d]) \in Nat
  BY Others, Measures
<1>1. PICK k \in 1 .. Parts :
        socketRecv(o, k) /\ Len(rcvBuff[o]) + k = Parts /\ buf = With(o, k)
  BY DEF TCPSockRecv
<1>2. /\ net'[o] = net[o] /\ net'[d] \in Seq(Piece)
      /\ Len(net'[d]) = Len(net[d]) - k
  <2>1. net' = [net EXCEPT ![d] = SubSeq(@, k + 1, Len(@))]
        /\ k <= Len(net[d])
    BY <1>1 DEF socketRecv
  <2>2. net[d] \in Seq(Piece) /\ Len(net[d]) \in Nat
    <3>1. net[d] \in Seq(Piece)
      BY <1>0 DEF Types
    <3> QED BY <3>1, LenProperties
  <2>3. net'[o] = net[o] /\ net'[d] = SubSeq(net[d], k + 1, Len(net[d]))
    BY <1>0, <2>1 DEF Types
  <2>4. \A i \in k + 1 .. Len(net[d]) : net[d][i] \in Piece
    <3>1. \A i \in 1 .. Len(net[d]) : net[d][i] \in Piece
      BY <2>2, ElementOfSeq
    <3> QED BY <2>2, <3>1
  <2>5. k + 1 \in Int /\ Len(net[d]) \in Int /\ k \in Nat /\ 1 <= k
    BY <2>2, PartsArithmetic
  <2> HIDE DEF d
  <2>6. /\ SubSeq(net[d], k + 1, Len(net[d])) \in Seq(Piece)
        /\ Len(SubSeq(net[d], k + 1, Len(net[d])))
             = IF k + 1 <= Len(net[d]) THEN Len(net[d]) - (k + 1) + 1 ELSE 0
    BY <2>4, <2>5, SubSeqProperties
  <2> QED BY <2>1, <2>2, <2>3, <2>5, <2>6
<1>3. With(o, k) \o net'[d] = rcvBuff[o] \o net[d]
  BY <1>1, FlowReceived
<1>4. With(o, k) \in Seq(Piece) /\ Len(With(o, k)) = Parts
  <2>1. rcvBuff[o] \in Seq(Piece) /\ net[d] \in Seq(Piece)
        /\ Len(net[d]) \in Nat
    <3>1. rcvBuff[o] \in Seq(Piece) /\ net[d] \in Seq(Piece)
      BY <1>0 DEF Types
    <3> QED BY <3>1, LenProperties
  <2>2. k <= Len(net[d]) /\ k \in Nat /\ 1 <= k
    BY <1>1, PartsArithmetic DEF socketRecv
  <2>3. With(o, k) = rcvBuff[o] \o SubSeq(net[d], 1, k)
    <3>1. Least(k, Len(net[d])) = k
      BY <2>1, <2>2 DEF Least
    <3> QED BY <3>1 DEF With
  <2>4. \A i \in 1 .. k : net[d][i] \in Piece
    <3>1. \A i \in 1 .. Len(net[d]) : net[d][i] \in Piece
      BY <2>1, ElementOfSeq
    <3> QED BY <2>1, <2>2, <3>1
  <2> HIDE DEF d
  <2>5. SubSeq(net[d], 1, k) \in Seq(Piece) /\ Len(SubSeq(net[d], 1, k)) = k
    <3>1. /\ SubSeq(net[d], 1, k) \in Seq(Piece)
          /\ Len(SubSeq(net[d], 1, k)) = IF 1 <= k THEN k - 1 + 1 ELSE 0
      BY <2>2, <2>4, SubSeqProperties
    <3> QED BY <2>2, <3>1
  <2> QED BY <1>1, <2>1, <2>3, <2>5, ConcatProperties
<1>5. Flow(d) = buf \o (net'[d] \o Rest(d))
  <2>1. Flow(d) = rcvBuff[o] \o (net[d] \o Rest(d))
    BY <1>0 DEF Flow
  <2>2. rcvBuff[o] \in Seq(Piece) /\ net[d] \in Seq(Piece)
        /\ Rest(d) \in Seq(Piece)
    BY <1>0, Flows
  <2>3. rcvBuff[o] \o (net[d] \o Rest(d)) = (rcvBuff[o] \o net[d]) \o Rest(d)
    BY <2>2, Regrouped
  <2>4. buf \o (net'[d] \o Rest(d)) = (buf \o net'[d]) \o Rest(d)
    BY <1>1, <1>2, <1>4, <2>2, Regrouped, ZenonT(30)
  <2> QED BY <1>1, <1>3, <2>1, <2>3, <2>4
<1> HIDE DEF d
<1>6. /\ Ordered(d, Flow(d), Recvd(o), Len(used[d]))
      /\ Chained(d, Flow(d), Recvd(o), sent[d], Wants(o))
  BY <1>0 DEF Told, Story, d
<1>7. Flow(d) \in Seq(Piece) /\ Len(Flow(d)) >= Parts
      /\ \A i \in 1 .. Parts : Flow(d)[i] = buf[i]
  <2>1. Flow(d) \in Seq(Piece) /\ Rest(d) \in Seq(Piece)
    BY <1>0, Flows
  <2>2. net'[d] \o Rest(d) \in Seq(Piece)
    BY <1>2, <2>1, ConcatProperties
  <2> DEFINE g == net'[d] \o Rest(d)
  <2>3. g \in Seq(Piece) /\ Flow(d) = buf \o g
    BY <1>5, <2>2
  <2> HIDE DEF g
  <2>4. Len(g) \in Nat /\ Parts \in Nat /\ buf \in Seq(Piece)
        /\ Len(buf) = Parts
    BY <1>1, <1>4, <2>3, LenProperties, PartsArithmetic
  <2>5. /\ Len(buf \o g) = Len(buf) + Len(g)
        /\ \A i \in 1 .. Len(buf) + Len(g) : (buf \o g)[i] =
             IF i <= Len(buf) THEN buf[i] ELSE g[i - Len(buf)]
    BY <2>3, <2>4, ConcatProperties
  <2> QED BY <2>1, <2>3, <2>4, <2>5
<1>8. /\ 1 \in DOMAIN Flow(d) /\ Flow(d)[1][1].n = Recvd(o) + 1
      /\ Flow(d)[1][1] \in Chunks
      /\ \A p \in 1 .. Parts : Flow(d)[p] = <<Flow(d)[1][1], p>>
  BY <1>0, <1>6, <1>7, FirstChunk
<1>9. Flow(d)[1] = buf[1] /\ buf[1][1].n = Recvd(o) + 1
      /\ buf[1][1] \in Chunks
      /\ \A p \in 1 .. Parts : buf[p] = <<buf[1][1], p>>
  <2>1. 1 \in 1 .. Parts
    BY PartsArithmetic
  <2> QED BY <1>7, <1>8, <2>1
<1>10. buf[1][1].key = KeyOf(d, Recvd(o) + 1)
  BY <1>6, <1>8, <1>9 DEF Ordered
<1>11. Opens(buf, KeyOf(d, Recvd(o) + 1))
  BY <1>9, <1>10 DEF Opens
<1>12. Recvd(o) + 1 >= First(d) =>
         PartOf(sent[d], buf[1][1]) /\ At(buf[1][1]) = Wants(o)
  BY <1>6, <1>8, <1>9 DEF Chained
<1>13. Len(net'[d]) <= Len(net[d])
  <2>1. Len(net[d]) \in Nat /\ k \in Nat
    BY <1>0, Measures, PartsArithmetic
  <2> QED BY <1>2, <2>1
<1>14. rcvBuff' = [rcvBuff EXCEPT ![o] = <<>>]
  BY DEF TCPSockRecv
<1> QED BY <1>1, <1>2, <1>4, <1>5, <1>9, <1>11, <1>12, <1>13, <1>14 DEF d

(* Opened, it leaves the way to the others.                                *)
LEMMA ToldOpened ==
  ASSUME Types, NEW o \in Parties, NEW buf, TCPSockRecv(o, buf),
         Told(Other(o)), phase[o] # "dead",
         sndBuff'[Other(o)] = sndBuff[Other(o)],
         sndAt'[Other(o)] = sndAt[Other(o)],
         used'[Other(o)] = used[Other(o)], src'[Other(o)] = src[Other(o)],
         sent'[Other(o)] = sent[Other(o)],
         sndPlace'[Other(o)] = sndPlace[Other(o)], up' = up,
         Recvd(o)' = Recvd(o) + 1,
         Wants(o)' = IF Recvd(o) + 1 < First(Other(o)) THEN Wants(o)
                     ELSE After(sent[Other(o)], Wants(o))
  PROVE  Told(Other(o))'
<1> DEFINE d == Other(o)
           g == net'[d] \o Rest(d)
<1>0. d \in Parties /\ Other(d) = o /\ Recvd(o) \in Nat
      /\ Len(used[d]) \in Nat /\ First(d) \in Nat
  BY Others, Measures DEF First
<1>1. /\ buf \in Seq(Piece) /\ Len(buf) = Parts /\ net'[d] \in Seq(Piece)
      /\ Flow(d) = buf \o g /\ rcvBuff' = [rcvBuff EXCEPT ![o] = <<>>]
      /\ Recvd(o) + 1 >= First(d) => At(buf[1][1]) = Wants(o)
  BY ChunkArrives
<1>2. g \in Seq(Piece)
  <2>1. Rest(d) \in Seq(Piece)
    BY <1>0, Flows
  <2> QED BY <1>1, <2>1, ConcatProperties
<1>3. Flow(d)' = g
  <2>1. Rest(d)' = Rest(d)
    BY DEF Rest
  <2>2. rcvBuff'[o] = <<>>
    BY <1>1 DEF Types
  <2>3. <<>> \o g = g
    <3> HIDE DEF g
    <3> QED BY <1>2, ConcatEmptySeq
  <2> QED BY <1>0, <2>1, <2>2, <2>3 DEF Flow
<1>4. Makes(d)' = Makes(d)
  BY DEF Makes
<1>5. Story(d, buf \o g, Recvd(o), Len(used[d]), sent[d], Wants(o),
            Makes(d), up)
  BY <1>0, <1>1 DEF Told
<1>6. IF Recvd(o) + 1 < First(d) THEN Wants(o)' = Wants(o)
      ELSE Wants(o)' = After(sent[d], At(buf[1][1]))
  BY <1>0, <1>1
<1> HIDE DEF g, d
<1>7. Story(d, g, Recvd(o) + 1, Len(used[d]), sent[d], Wants(o)',
            Makes(d), up)
  BY <1>0, <1>1, <1>2, <1>5, <1>6, StoryDrops
<1> QED BY <1>0, <1>3, <1>4, <1>7 DEF Told, d

(* A chunk and the place it is of: the first of a message, a later one.    *)
LEMMA FirstOf ==
  ASSUME NEW d \in Parties, NEW i \in Nat, NEW len \in Nat, len # 0,
         NEW c, c.body = ChunkBody(Message(d, i, len), 0)
  PROVE  At(c) = [msg |-> i, from |-> 0]
<1> DEFINE m == Message(d, i, len)
           s == Filled(m, 0, Chunk - 1)
<1>1. m \in Seq(Unit) /\ Len(m) = len
  BY MessageIs
<1>2. Chunk - 1 \in Nat /\ 1 \in 1 .. Chunk - 1 /\ 1 <= len
  BY SessionAssumption
<1>3. s = [j \in 1 .. Chunk - 1 |->
             IF 0 + j <= Len(m) THEN m[0 + j] ELSE Random]
  BY DEF Filled
<1>4. s \in Seq(Unit) /\ Len(s) = Chunk - 1 /\ s[1] = <<d, i, 1>>
  <2>1. s \in Seq(Unit)
    BY <1>1, <1>2, FilledIs
  <2>2. s[1] = m[1] /\ Len(s) = Chunk - 1
    BY <1>1, <1>2, <1>3
  <2>3. m[1] = <<d, i, 1>>
    BY <1>2 DEF Message
  <2> QED BY <2>1, <2>2, <2>3
<1>5. c.body = <<Length(len)>> \o s
  BY <1>1 DEF ChunkBody
<1> HIDE DEF s, m
<1>6. c.body[1] = Length(len) /\ c.body[2] = s[1]
  <2>1. <<Length(len)>> \in Seq(Unit) /\ Len(<<Length(len)>>) = 1
    BY DEF Unit, Length
  <2> QED BY <1>2, <1>4, <1>5, <2>1
<1> QED BY <1>4, <1>6 DEF At, Length

(* The chunk of a message after the first tells its message and place.     *)
LEMMA LaterOf ==
  ASSUME NEW d \in Parties, NEW i \in Nat, NEW len \in Nat, len # 0,
         NEW from \in 1 .. len - 1,
         NEW c, c.body = ChunkBody(Message(d, i, len), from)
  PROVE  At(c) = [msg |-> i, from |-> from]
<1> DEFINE m == Message(d, i, len)
<1>1. m \in Seq(Unit) /\ Len(m) = len
  BY MessageIs
<1>2. Chunk \in Nat /\ 1 \in 1 .. Chunk /\ from + 1 \in 1 .. len
      /\ from # 0
  BY SessionAssumption
<1>3. c.body[1] = m[from + 1]
  BY <1>1, <1>2 DEF ChunkBody, Filled
<1>4. m[from + 1] = <<d, i, from + 1>>
  BY <1>2 DEF Message
<1>5. d # "length" /\ from + 1 - 1 = from
  BY DEF Parties
<1> QED BY <1>3, <1>4, <1>5 DEF At

(* What TunnelRecvP makes of the first chunk of a message ...              *)
LEMMA FirstParsed ==
  ASSUME NEW d, NEW m \in Seq(Unit), Len(m) # 0
  PROVE  /\ ChunkBody(m, 0)[1][1] = "length"
         /\ PlaceAfter(Len(m), 0) \in 1 .. Len(m)
         /\ LET r == parseRecvLen(d, ChunkBody(m, 0))
            IN  /\ r.msg \in Seq(Unit) /\ Len(r.msg) = Len(m)
                /\ r.place = PlaceAfter(Len(m), 0)
                /\ \A j \in 1 .. r.place : r.msg[j] = m[j]
<1> DEFINE s == Filled(m, 0, Chunk - 1)
           body == <<Length(Len(m))>> \o s
           r == parseRecvLen(d, body)
           len == Len(m)
<1>0. len \in Nat /\ len >= 1 /\ Chunk - 1 \in Nat /\ Chunk - 1 >= 1
  BY SessionAssumption
<1>1. ChunkBody(m, 0) = body
  BY DEF ChunkBody
<1>2. /\ s \in Seq(Unit) /\ Len(s) = Chunk - 1
      /\ \A j \in 1 .. Chunk - 1 : j <= len => s[j] = m[j]
  <2>1. s = [j \in 1 .. Chunk - 1 |->
               IF 0 + j <= len THEN m[0 + j] ELSE Random]
    BY DEF Filled
  <2>2. s \in Seq(Unit)
    BY <1>0, FilledIs
  <2> QED BY <1>0, <2>1, <2>2
<1>3. <<Length(len)>> \in Seq(Unit) /\ Len(<<Length(len)>>) = 1
  BY <1>0 DEF Unit, Length
<1>4. body[1] = Length(len) /\ Tail(body) = s
  <2> HIDE DEF s, len
  <2>1. /\ body \in Seq(Unit) /\ Len(body) = 1 + Len(s)
        /\ \A i \in 1 .. 1 + Len(s) : body[i] =
             IF i <= 1 THEN <<Length(len)>>[i] ELSE s[i - 1]
    BY <1>2, <1>3, ConcatProperties DEF len
  <2>2. body[1] = Length(len)
    BY <1>0, <1>2, <2>1
  <2>3. body # <<>>
    BY <1>0, <1>2, <2>1
  <2> HIDE DEF body
  <2>4. /\ Tail(body) \in Seq(Unit) /\ Len(Tail(body)) = Len(s)
        /\ \A i \in 1 .. Len(Tail(body)) : Tail(body)[i] = body[i + 1]
    <3>1. body \in Seq(Unit)
      BY <2>1
    <3>2. /\ Tail(body) \in Seq(Unit) /\ Len(Tail(body)) = Len(body) - 1
          /\ \A i \in 1 .. Len(Tail(body)) : Tail(body)[i] = body[i + 1]
      BY <2>3, <3>1, HeadTailProperties
    <3>3. Len(body) - 1 = Len(s)
      BY <1>0, <1>2, <2>1
    <3> QED BY <3>2, <3>3
  <2>5. \A i \in 1 .. Len(s) : body[i + 1] = s[i]
    <3>1. \A i \in 1 .. Len(s) : i + 1 \in 1 .. 1 + Len(s) /\ ~(i + 1 <= 1)
                                  /\ i + 1 - 1 = i
      BY <1>0, <1>2
    <3> QED BY <2>1, <3>1
  <2>6. Tail(body) = s
    BY <1>2, <2>4, <2>5, SeqEqual
  <2> QED BY <2>2, <2>6
<1>5. body[1][1] = "length" /\ body[1][2] = len
  BY <1>4 DEF Length
<1>6. r.msg = Filled(s, 0, len) /\ r.place = Least(len, Chunk - 1)
  <2> HIDE DEF s, len, body
  <2> QED BY <1>4, <1>5 DEF parseRecvLen
<1>7. /\ PlaceAfter(len, 0) = Least(len, Chunk - 1)
      /\ Least(len, Chunk - 1) \in 1 .. len
      /\ Least(len, Chunk - 1) <= Chunk - 1
  BY <1>0 DEF PlaceAfter, Least
<1>8. Filled(s, 0, len) \in Seq(Unit) /\ Len(Filled(s, 0, len)) = len
      /\ \A j \in 1 .. len : j <= Chunk - 1 => Filled(s, 0, len)[j] = m[j]
  <2> HIDE DEF s, len
  <2>1. Filled(s, 0, len) \in Seq(Unit)
    BY <1>0, <1>2, FilledIs
  <2>2. Filled(s, 0, len)
          = [j \in 1 .. len |-> IF 0 + j <= Len(s) THEN s[0 + j] ELSE Random]
    BY DEF Filled
  <2> QED BY <1>0, <1>2, <2>1, <2>2
<1>9. \A j \in 1 .. Least(len, Chunk - 1) : Filled(s, 0, len)[j] = m[j]
  BY <1>0, <1>7, <1>8
<1> HIDE DEF s, body
<1> QED BY <1>1, <1>5, <1>6, <1>7, <1>8, <1>9

(* ... and of a later one, with what it has of the message already.        *)
LEMMA LaterParsed ==
  ASSUME Shape, NEW d \in Parties, NEW m \in Seq(Unit),
         rcvPlace[d] \in 1 .. Len(m) - 1, Len(dst[d]) = Len(m),
         \A j \in 1 .. rcvPlace[d] : dst[d][j] = m[j]
  PROVE  /\ PlaceAfter(Len(m), rcvPlace[d]) \in 1 .. Len(m)
         /\ LET r == parseRecv(d, ChunkBody(m, rcvPlace[d]))
            IN  /\ r.msg \in Seq(Unit) /\ Len(r.msg) = Len(m)
                /\ r.place = PlaceAfter(Len(m), rcvPlace[d])
                /\ \A j \in 1 .. r.place : r.msg[j] = m[j]
<1> DEFINE from == rcvPlace[d]
           len == Len(m)
           body == ChunkBody(m, from)
           msg == [i \in 1 .. len |->
                     IF i \in from + 1 .. from + Chunk THEN body[i - from]
                     ELSE dst[d][i]]
           p == PlaceAfter(len, from)
           r == parseRecv(d, body)
<1>0. /\ len \in Nat /\ from \in Nat /\ from # 0 /\ 1 <= from /\ from < len
      /\ Chunk \in Nat /\ Chunk >= 1
      /\ dst[d] \in Seq(Unit) /\ Len(dst[d]) = len
  BY SessionAssumption DEF Shape
<1>1. p = Least(len, from + Chunk)
  BY <1>0 DEF PlaceAfter
<1>2. p \in 1 .. len /\ p <= from + Chunk
  BY <1>0, <1>1 DEF Least
<1>3. r.msg = msg /\ r.place = IF len - from \in 0 .. Chunk THEN len
                               ELSE from + Chunk
  <2> HIDE DEF body
  <2> QED BY <1>0 DEF parseRecv
<1>4. r.place = p
  BY <1>0, <1>1, <1>3 DEF Least
<1>5. /\ body \in Seq(Unit) /\ Len(body) = Chunk
      /\ \A j \in 1 .. Chunk : from + j <= len => body[j] = m[from + j]
  <2>1. body = Filled(m, from, Chunk)
    BY <1>0 DEF ChunkBody
  <2>2. body = [j \in 1 .. Chunk |-> IF from + j <= len THEN m[from + j]
                                     ELSE Random]
    BY <2>1 DEF Filled
  <2>3. body \in Seq(Unit)
    BY <1>0, <2>1, FilledIs
  <2> HIDE DEF body
  <2> QED BY <1>0, <2>2, <2>3
<1> HIDE DEF body
<1>6. \A i \in 1 .. len :
        /\ msg[i] \in Unit
        /\ i <= p => msg[i] = m[i]
  <2> TAKE i \in 1 .. len
  <2>1. CASE i \in from + 1 .. from + Chunk
    <3>1. i - from \in 1 .. Chunk /\ from + (i - from) = i
      BY <1>0, <2>1
    <3>2. body[i - from] = m[i]
      BY <1>0, <1>5, <3>1
    <3>3. msg[i] = m[i] /\ m[i] \in Unit
      BY <1>0, <2>1, <3>2, ElementOfSeq
    <3> QED BY <3>3
  <2>2. CASE i \notin from + 1 .. from + Chunk
    <3>1. msg[i] = dst[d][i] /\ dst[d][i] \in Unit
      BY <1>0, <2>2, ElementOfSeq
    <3>2. i <= p => i \in 1 .. from
      BY <1>0, <1>2, <2>2
    <3> QED BY <3>1, <3>2
  <2> QED BY <2>1, <2>2
<1>7. msg \in Seq(Unit) /\ Len(msg) = len
  <2>1. msg = [i \in 1 .. len |-> msg[i]]
    OBVIOUS
  <2>2. \A i \in 1 .. len : msg[i] \in Unit
    BY <1>6
  <2> HIDE DEF msg, len
  <2> QED BY <1>0, <2>1, <2>2
<1>8. \A j \in 1 .. p : msg[j] = m[j]
  BY <1>0, <1>2, <1>6
<1> HIDE DEF msg, p
<1>9. /\ p \in 1 .. len /\ r.msg \in Seq(Unit) /\ Len(r.msg) = len
      /\ r.place = p /\ \A j \in 1 .. r.place : r.msg[j] = m[j]
  BY <1>2, <1>3, <1>4, <1>7, <1>8
<1> QED BY <1>9 DEF p, body

(* What an action leaves alone of a party.                                 *)
LEMMA PartyKept ==
  ASSUME NEW d \in Parties, Source(d), Building(d), Begins(d),
         phase'[d] = phase[d], inKey'[d] = inKey[d], used'[d] = used[d],
         src'[d] = src[d], sndPlace'[d] = sndPlace[d],
         sndBuff'[d] = sndBuff[d], rcvPlace'[d] = rcvPlace[d],
         got'[d] = got[d], dst'[d] = dst[d], sent'[d] = sent[d],
         Extends(sent'[Other(d)], sent[Other(d)])
  PROVE  Source(d)' /\ Building(d)' /\ Begins(d)' /\ Recvd(d)' = Recvd(d)
<1>1. Recvd(d)' = Recvd(d)
  BY DEF Recvd, Keyed
<1>2. Source(d)'
  BY DEF Source
<1>3. Building(d)'
  BY DEF Building, Extends
<1>4. Begins(d)'
  BY <1>1 DEF Begins
<1> QED BY <1>1, <1>2, <1>3, <1>4

(* The invariant of the next state, from that of each party.               *)
LEMMA StreamOf ==
  ASSUME NEW d \in Parties, Shape', Broken', Told(d)', Told(Other(d))',
         Source(d)', Building(d)', Begins(d)',
         Source(Other(d))', Building(Other(d))', Begins(Other(d))'
  PROVE  Stream'
<1>1. \A e \in Parties : e = d \/ e = Other(d)
  BY Others DEF Parties
<1> QED BY <1>1 DEF Stream

(* The invariant, for one party and the other.                             *)
LEMMA StreamIs ==
  ASSUME Stream, NEW d \in Parties
  PROVE  /\ Other(d) \in Parties /\ Other(Other(d)) = d /\ Other(d) # d
         /\ \A e \in Parties : e = d \/ e = Other(d)
         /\ Shape /\ Broken /\ Told(d) /\ Told(Other(d))
         /\ Source(d) /\ Building(d) /\ Begins(d)
         /\ Source(Other(d)) /\ Building(Other(d)) /\ Begins(Other(d))
<1>1. \A e \in Parties : e = d \/ e = Other(d)
  BY Others DEF Parties
<1> QED BY <1>1, Others DEF Stream

(* A party that is given no message extends what it was given by none.     *)
LEMMA ExtendsSame ==
  ASSUME NEW s
  PROVE  Extends(s, s)
BY DEF Extends

(* What is sent finds room.                                                *)
LEMMA Room ==
  ASSUME IInv, Shape, NEW d \in Parties, NEW k \in 1 .. Parts,
         socketSend(d, k)
  PROVE  \A e \in Parties : Len(net'[e]) <= SockCap
<1>1. Types /\ Answers
  BY DEF IInv
<1>2. /\ Len(net'[d]) = Len(net[d]) + k
      /\ \A e \in Parties : e # d => net'[e] = net[e]
  BY <1>1, Sent
<1>3. k <= SockCap - Len(net[d]) /\ Len(net[d]) \in Nat /\ SockCap \in Nat
      /\ k \in Nat
  BY <1>1, Measures, PartsArithmetic, SessionAssumption DEF socketSend
<1>4. Len(net'[d]) <= SockCap
  BY <1>2, <1>3
<1> QED BY <1>2, <1>4 DEF Shape

(* TCPSockSend: a send(2) that does not end the chunk.                     *)
LEMMA SendPartStream ==
  ASSUME IInv, Stream, NEW d \in Parties, TCPSockSendPart(d)
  PROVE  Stream'
<1>1. PICK k \in 1 .. Parts : socketSend(d, k) /\ ~LastOf(d, k)
  BY DEF TCPSockSendPart
<1>2. /\ up' = up /\ phase' = phase /\ inKey' = inKey /\ src' = src
      /\ sndPlace' = sndPlace /\ sndBuff' = sndBuff /\ used' = used
      /\ rcvPlace' = rcvPlace /\ rcvBuff' = rcvBuff /\ dst' = dst
      /\ sent' = sent /\ got' = got /\ fault' = fault /\ at' = at
  BY <1>1 DEF TCPSockSendPart, socketSend, keyVars, rcvVars, history
<1>3. Types /\ Answers
  BY DEF IInv
<1>4. /\ Other(d) \in Parties /\ Other(Other(d)) = d /\ Other(d) # d
      /\ Shape /\ Broken /\ Told(d) /\ Told(Other(d))
      /\ Source(d) /\ Building(d) /\ Begins(d)
      /\ Source(Other(d)) /\ Building(Other(d)) /\ Begins(Other(d))
  BY StreamIs
<1>5. /\ Source(d)' /\ Building(d)' /\ Begins(d)'
      /\ Recvd(d)' = Recvd(d)
  BY <1>2, <1>4, PartyKept, ExtendsSame
<1>6. /\ Source(Other(d))' /\ Building(Other(d))' /\ Begins(Other(d))'
      /\ Recvd(Other(d))' = Recvd(Other(d))
  BY <1>2, <1>4, PartyKept, ExtendsSame
<1>7. Told(d)'
  <2>1. Flow(d)' = Flow(d)
    BY <1>1, <1>2, <1>3, FlowSent
  <2>2. Wants(Other(d))' = Wants(Other(d)) /\ Makes(d)' = Makes(d)
    BY <1>2 DEF Wants, Makes
  <2> QED BY <1>2, <1>4, <1>6, <2>1, <2>2, ToldSame
<1>8. Told(Other(d))'
  <2>1. net'[Other(d)] = net[Other(d)] /\ sndAt'[Other(d)] = sndAt[Other(d)]
    BY <1>1, <1>3, <1>4, Sent
  <2> QED BY <1>2, <1>4, <1>5, <2>1, ToldKept
<1>9. Shape'
  <2>1. \A e \in Parties : Len(net'[e]) <= SockCap
    BY <1>1, <1>4, Room
  <2> QED BY <1>2, <1>4, <2>1 DEF Shape
<1>10. Broken'
  BY <1>2, <1>4 DEF Broken
<1> QED BY <1>5, <1>6, <1>7, <1>8, <1>9, <1>10, StreamOf

(* The end of a chunk with no other behind it.                             *)
LEMMA ChunkEndsStream ==
  ASSUME IInv, Stream, NEW d \in Parties, TCPSockSend(d),
         phase[d] # "dead", phase'[d] # "dead",
         sndBuff' = [sndBuff EXCEPT ![d] = None], used' = used,
         rcvPlace' = rcvPlace, rcvBuff' = rcvBuff, dst' = dst, sent' = sent,
         got' = got, fault' = fault, at' = at,
         \A e \in Parties : e # d =>
           /\ phase'[e] = phase[e] /\ inKey'[e] = inKey[e]
           /\ src'[e] = src[e] /\ sndPlace'[e] = sndPlace[e],
         Recvd(d)' = Recvd(d), Makes(d)' = Makes(d), Source(d)', Begins(d)'
  PROVE  Stream'
<1>1. PICK k \in 1 .. Parts : socketSend(d, k) /\ LastOf(d, k)
  BY DEF TCPSockSend
<1>2. up' = up /\ up
  BY <1>1 DEF socketSend
<1>3. Types /\ Answers
  BY DEF IInv
<1>4. /\ Other(d) \in Parties /\ Other(Other(d)) = d /\ Other(d) # d
      /\ Shape /\ Broken /\ Told(d) /\ Told(Other(d))
      /\ \A e \in Parties : e = d \/ e = Other(d)
      /\ Source(d) /\ Building(d) /\ Begins(d)
      /\ Source(Other(d)) /\ Building(Other(d)) /\ Begins(Other(d))
  BY StreamIs
<1>5. Building(d)'
  BY <1>4 DEF Building
<1>6. sndBuff'[Other(d)] = sndBuff[Other(d)] /\ sndBuff'[d] = None
  BY <1>3, <1>4 DEF Types
<1>7. /\ Source(Other(d))' /\ Building(Other(d))' /\ Begins(Other(d))'
      /\ Recvd(Other(d))' = Recvd(Other(d))
  BY <1>4, <1>6, PartyKept, ExtendsSame
<1>8. Told(d)'
  <2>1. net'[d] = net[d] \o Rest(d)
    BY <1>1, <1>3, FlowSent
  <2>2. Rest(d)' = <<>>
    BY <1>6 DEF Rest
  <2>3. (net[d] \o Rest(d)) \o <<>> = net[d] \o Rest(d)
    <3>1. net[d] \o Rest(d) \in Seq(Piece)
      BY <1>3, Flows
    <3> QED BY <3>1, ConcatEmptySeq
  <2>4. Flow(d)' = Flow(d)
    BY <2>1, <2>2, <2>3 DEF Flow
  <2>5. Wants(Other(d))' = Wants(Other(d))
    BY DEF Wants
  <2> QED BY <1>2, <1>4, <1>7, <2>4, <2>5, ToldSame
<1>9. Told(Other(d))'
  <2>1. net'[Other(d)] = net[Other(d)] /\ sndAt'[Other(d)] = sndAt[Other(d)]
    BY <1>1, <1>3, <1>4, Sent
  <2> QED BY <1>2, <1>4, <1>6, <2>1, ToldKept
<1>10. Shape'
  <2>1. \A e \in Parties : Len(net'[e]) <= SockCap
    BY <1>1, <1>4, Room
  <2> QED BY <1>2, <1>4, <2>1 DEF Shape
<1>11. Broken'
  BY <1>2, <1>4 DEF Broken
<1> QED BY <1>5, <1>7, <1>8, <1>9, <1>10, <1>11, StreamOf

(* performHandshake: the hello is sent.                                    *)
LEMMA HelloSentStream ==
  ASSUME IInv, Stream, HelloSent
  PROVE  Stream'
<1> DEFINE d == "proxy"
<1>0. d \in Parties /\ Types /\ Stage(d)
  BY DEF Parties, IInv, Stages
<1>1. /\ phase[d] = "sendHello" /\ TCPSockSend(d)
      /\ phase' = [phase EXCEPT ![d] = "answer"]
      /\ sndBuff' = [sndBuff EXCEPT ![d] = None]
      /\ at' = at /\ inKey' = inKey /\ src' = src /\ sndPlace' = sndPlace
      /\ used' = used /\ rcvPlace' = rcvPlace /\ rcvBuff' = rcvBuff
      /\ dst' = dst /\ sent' = sent /\ got' = got /\ fault' = fault
  BY DEF HelloSent, keyVars, rcvVars, history
<1>2. phase'[d] = "answer" /\ \A e \in Parties : e # d => phase'[e] = phase[e]
  BY <1>0, <1>1 DEF Types
<1>3. src[d] = None
  BY <1>0, <1>1 DEF Stage
<1>4. Recvd(d)' = Recvd(d) /\ Makes(d)' = Makes(d)
  BY <1>1, <1>2 DEF Recvd, Keyed, Makes
<1>5. Source(d)' /\ Begins(d)'
  BY <1>1, <1>2, <1>3 DEF Source, Begins
<1> HIDE DEF d
<1> QED BY <1>0, <1>1, <1>2, <1>4, <1>5, ChunkEndsStream

(* clientTaskCB: the answer is sent, and the server has its keys.          *)
LEMMA AnswerSentStream ==
  ASSUME IInv, Stream, AnswerSent
  PROVE  Stream'
<1> DEFINE d == "server"
<1>0. d \in Parties /\ Types /\ Stage(d)
  BY DEF Parties, IInv, Stages
<1>1. /\ phase[d] = "sendAnswer" /\ TCPSockSend(d)
      /\ phase' = [phase EXCEPT ![d] = "login"]
      /\ sndBuff' = [sndBuff EXCEPT ![d] = None]
      /\ inKey' = [inKey EXCEPT ![d] = ServerIn]
      /\ at' = at /\ src' = src /\ sndPlace' = sndPlace
      /\ used' = used /\ rcvPlace' = rcvPlace /\ rcvBuff' = rcvBuff
      /\ dst' = dst /\ sent' = sent /\ got' = got /\ fault' = fault
  BY DEF AnswerSent, rcvVars, history
<1>2. /\ phase'[d] = "login" /\ inKey'[d][2] = 0
      /\ \A e \in Parties : e # d =>
           phase'[e] = phase[e] /\ inKey'[e] = inKey[e]
  BY <1>0, <1>1 DEF Types, ServerIn
<1>3. src[d] = None
  BY <1>0, <1>1 DEF Stage
<1>4. Recvd(d)' = Recvd(d) /\ Makes(d)' = Makes(d)
  BY <1>1, <1>2 DEF Recvd, Keyed, Makes
<1>5. Source(d)' /\ Begins(d)'
  BY <1>1, <1>2, <1>3 DEF Source, Begins
<1> HIDE DEF d
<1> QED BY <1>0, <1>1, <1>2, <1>4, <1>5, ChunkEndsStream

(* sendLogin: the login is sent, and the proxy is in the tunnel.           *)
LEMMA LoginSentStream ==
  ASSUME IInv, Stream, LoginSent
  PROVE  Stream'
<1> DEFINE d == "proxy"
<1>0. d \in Parties /\ Types /\ Stage(d)
  BY DEF Parties, IInv, Stages
<1>1. /\ phase[d] = "sendLogin" /\ TCPSockSend(d)
      /\ phase' = [phase EXCEPT ![d] = "tunnel"]
      /\ sndBuff' = [sndBuff EXCEPT ![d] = None]
      /\ at' = at /\ inKey' = inKey /\ src' = src /\ sndPlace' = sndPlace
      /\ used' = used /\ rcvPlace' = rcvPlace /\ rcvBuff' = rcvBuff
      /\ dst' = dst /\ sent' = sent /\ got' = got /\ fault' = fault
  BY DEF LoginSent, rcvVars, history
<1>2. phase'[d] = "tunnel" /\ \A e \in Parties : e # d => phase'[e] = phase[e]
  BY <1>0, <1>1 DEF Types
<1>3. src[d] = None /\ Len(used[d]) = 2
  BY <1>0, <1>1 DEF Stage
<1>4. Recvd(d)' = Recvd(d) /\ Makes(d)' = Makes(d)
  BY <1>1, <1>2 DEF Recvd, Keyed, Makes
<1>5. Source(d)' /\ Begins(d)'
  <2>1. inKey[d][2] \in Nat
    BY <1>0 DEF Types, Key
  <2>2. First(d) = 3 /\ First(Other(d)) = 2
    BY Others DEF First
  <2>3. Recvd(d)' = inKey[d][2] + 1
    BY <1>1, <1>2 DEF Recvd, Keyed
  <2> QED BY <1>1, <1>2, <1>3, <2>1, <2>2, <2>3 DEF Source, Begins
<1> HIDE DEF d
<1> QED BY <1>0, <1>1, <1>2, <1>4, <1>5, ChunkEndsStream

(* A chunk is made behind what is sent, by one party alone.                *)
LEMMA ChunkBeginsStream ==
  ASSUME IInv, Stream, NEW d \in Parties, NEW body \in Bodies,
         Encrypt(d, KeyOf(d, Len(used[d]) + 1), body),
         phase[d] # "dead", phase'[d] # "dead",
         net'[d] = net[d] \o Rest(d), Len(net'[d]) <= SockCap,
         sndAt'[d] = 0, inKey' = inKey, rcvPlace' = rcvPlace,
         rcvBuff' = rcvBuff, got' = got, fault' = fault, at' = at, up' = up,
         \A e \in Parties : e # d =>
           /\ net'[e] = net[e] /\ sndAt'[e] = sndAt[e]
           /\ phase'[e] = phase[e] /\ src'[e] = src[e]
           /\ sndPlace'[e] = sndPlace[e] /\ sent'[e] = sent[e]
           /\ dst'[e] = dst[e],
         dst' \in [Parties -> Seq(Unit)],
         Recvd(d)' = Recvd(d), Extends(sent'[d], sent[d]),
         Source(d)', Building(d)', Begins(d)',
         IF Len(used[d]) + 1 < First(d) THEN Makes(d)' = Makes(d)
         ELSE \A c \in Chunks : c.body = body =>
                /\ PartOf(sent'[d], c) /\ At(c) = Makes(d)
                /\ After(sent'[d], Makes(d)) = Makes(d)'
  PROVE  Stream'
<1>3. Types /\ Answers
  BY DEF IInv
<1>4. /\ Other(d) \in Parties /\ Other(Other(d)) = d /\ Other(d) # d
      /\ Shape /\ Broken /\ Told(d) /\ Told(Other(d))
      /\ \A e \in Parties : e = d \/ e = Other(d)
      /\ Source(d) /\ Building(d) /\ Begins(d)
      /\ Source(Other(d)) /\ Building(Other(d)) /\ Begins(Other(d))
  BY StreamIs
<1>5. /\ sndBuff'[Other(d)] = sndBuff[Other(d)]
      /\ used'[Other(d)] = used[Other(d)]
  BY <1>3, <1>4 DEF Types, Encrypt
<1>6. /\ Source(Other(d))' /\ Building(Other(d))' /\ Begins(Other(d))'
      /\ Recvd(Other(d))' = Recvd(Other(d))
  BY <1>4, <1>5, PartyKept
<1>7. Told(d)'
  <2>1. Wants(Other(d))' = Wants(Other(d))
    BY DEF Wants
  <2>2. up \in BOOLEAN
    BY <1>4 DEF Shape
  <2> QED BY <1>3, <1>4, <1>6, <2>1, <2>2, ToldBegun
<1>8. Told(Other(d))'
  BY <1>4, <1>5, ToldKept
<1>9. Shape'
  BY <1>4 DEF Shape
<1>10. Broken'
  BY <1>4 DEF Broken
<1> QED BY <1>6, <1>7, <1>8, <1>9, <1>10, StreamOf

(* Nothing is left of a chunk when none is being sent.                     *)
LEMMA NothingLeft ==
  ASSUME Types, NEW d \in Parties, sndBuff[d] = None
  PROVE  net[d] \o Rest(d) = net[d]
<1>1. Rest(d) = <<>> /\ net[d] \in Seq(Piece)
  BY DEF Rest, Types
<1> QED BY <1>1, ConcatEmptySeq

(* SprotClientHandshake: the hello is made.                                *)
LEMMA ClientStartStream ==
  ASSUME IInv, Stream, ClientStart
  PROVE  Stream'
<1> DEFINE d == "proxy"
           body == <<"ephemeral public key">>
<1>0. d \in Parties /\ Types /\ Stage(d)
  BY DEF Parties, IInv, Stages
<1>1. /\ phase[d] = "start" /\ Encrypt(d, Static, body)
      /\ phase' = [phase EXCEPT ![d] = "sendHello"]
      /\ net' = net /\ up' = up /\ at' = at /\ inKey' = inKey /\ src' = src
      /\ sndPlace' = sndPlace /\ sndAt' = sndAt /\ rcvPlace' = rcvPlace
      /\ rcvBuff' = rcvBuff /\ dst' = dst /\ sent' = sent /\ got' = got
      /\ fault' = fault
  BY DEF ClientStart, netVars, keyVars, rcvVars, history
<1>2. /\ phase'[d] = "sendHello"
      /\ \A e \in Parties : e # d => phase'[e] = phase[e]
  BY <1>0, <1>1 DEF Types
<1>3. Len(used[d]) = 0 /\ sndBuff[d] = None /\ src[d] = None /\ sndAt[d] = 0
  BY <1>0, <1>1 DEF Stage
<1>4. KeyOf(d, Len(used[d]) + 1) = Static /\ body \in Bodies
      /\ Len(used[d]) + 1 < First(d)
  BY <1>3 DEF KeyOf, Bodies, First
<1>5. Recvd(d)' = Recvd(d) /\ Makes(d)' = Makes(d)
  BY <1>1, <1>2 DEF Recvd, Keyed, Makes
<1>6. /\ Shape /\ Building(d) /\ Other(d) \in Parties
      /\ Len(net[d]) <= SockCap
  BY <1>0, StreamIs DEF Shape
<1>7. Source(d)' /\ Building(d)' /\ Begins(d)'
  BY <1>1, <1>2, <1>3, <1>6 DEF Source, Building, Begins
<1>8. net'[d] = net[d] \o Rest(d) /\ Len(net'[d]) <= SockCap
  BY <1>0, <1>1, <1>3, <1>6, NothingLeft
<1>9. Extends(sent'[d], sent[d]) /\ dst' \in [Parties -> Seq(Unit)]
  BY <1>1, <1>6, ExtendsSame DEF Shape
<1> HIDE DEF d, body
<1> QED BY <1>0, <1>1, <1>2, <1>3, <1>4, <1>5, <1>7, <1>8, <1>9,
          ChunkBeginsStream

(* The key that the next chunk is made with.                               *)
LEMMA KeyNow ==
  ASSUME IInv, NEW d \in Parties, phase[d] = "tunnel"
  PROVE  /\ src[d] = None => sndBuff[d] = None /\ sndAt[d] = 0
                             /\ outKey[d] = KeyOf(d, Len(used[d]) + 1)
         /\ src[d] # None =>
              naclRatchet(outKey[d]) = KeyOf(d, Len(used[d]) + 1)
         /\ Len(used[d]) \in Nat
<1>1. Types /\ Stage(d) /\ Len(used[d]) \in Nat
  BY Measures DEF IInv, Stages
<1>2. outKey[d] = KeyOf(d, Next1(d))
      /\ (src[d] = None <=> sndBuff[d] = None)
      /\ (sndBuff[d] # None => Len(used[d]) >= 2)
      /\ (sndBuff[d] = None => sndAt[d] = 0)
  BY <1>1 DEF Stage, Keyed
<1>3. CASE src[d] = None
  BY <1>1, <1>2, <1>3 DEF Next1
<1>4. CASE src[d] # None
  <2>0. Next1(d) = Len(used[d])
    <3>1. sndBuff[d] # None
      BY <1>2, <1>4
    <3> QED BY <1>1, <3>1 DEF Next1
  <2>1. outKey[d] = KeyOf(d, Len(used[d])) /\ Len(used[d]) >= 2
    BY <1>2, <1>4, <2>0
  <2>2. naclRatchet(KeyOf(d, Len(used[d]))) = KeyOf(d, Len(used[d]) + 1)
    BY <1>1, <2>1, KeysDiffer
  <2> QED BY <1>1, <1>4, <2>1, <2>2
<1> QED BY <1>3, <1>4

(* The first chunk of a new message.                                       *)
LEMMA FirstMade ==
  ASSUME NEW d \in Parties, sent[d] \in Seq(Seq(Unit)), NEW len \in Nat,
         len # 0, NEW m, m = Message(d, Len(sent[d]) + 1, len),
         NEW c, c.body = <<Length(Len(m))>> \o Filled(m, 0, Chunk - 1)
  PROVE  LET s == sent[d]
         IN  /\ At(c) = [msg |-> Len(s) + 1, from |-> 0]
             /\ PartOf(Append(s, m), c) /\ Extends(Append(s, m), s)
             /\ After(Append(s, m), At(c)) =
                  IF Least(len, Chunk - 1) = len
                  THEN [msg |-> Len(s) + 2, from |-> 0]
                  ELSE [msg |-> Len(s) + 1, from |-> Least(len, Chunk - 1)]
<1> DEFINE s == sent[d]
<1>1. m \in Seq(Unit) /\ Len(m) = len /\ Len(s) \in Nat
      /\ Len(s) + 1 \in Nat
  <2>1. Len(s) \in Nat
    BY LenProperties
  <2> QED BY <2>1, MessageIs
<1> DEFINE t == Append(s, m)
<1>2. /\ t \in Seq(Seq(Unit)) /\ Len(t) = Len(s) + 1
      /\ \A i \in 1 .. Len(s) : t[i] = s[i]
      /\ t[Len(s) + 1] = m
  BY <1>1, AppendProperties
<1> HIDE DEF t
<1>3. DOMAIN t = 1 .. Len(s) + 1 /\ DOMAIN s = 1 .. Len(s)
  BY <1>2, LenProperties
<1>4. c.body = ChunkBody(m, 0)
  BY DEF ChunkBody
<1>5. At(c) = [msg |-> Len(s) + 1, from |-> 0]
  BY <1>1, <1>4, FirstOf
<1>6. Len(s) + 1 \in DOMAIN t /\ 0 \in 0 .. len - 1
  BY <1>1, <1>3
<1>7. PartOf(t, c)
  BY <1>1, <1>2, <1>4, <1>5, <1>6, SMTT(30) DEF PartOf
<1>8. Extends(t, s)
  BY <1>1, <1>2, <1>3, SMTT(30) DEF Extends
<1>9. PlaceAfter(len, 0) = Least(len, Chunk - 1)
  BY DEF PlaceAfter
<1>10. After(t, At(c)) =
         IF Least(len, Chunk - 1) = len
         THEN [msg |-> Len(s) + 2, from |-> 0]
         ELSE [msg |-> Len(s) + 1, from |-> Least(len, Chunk - 1)]
  <2>1. Len(s) + 1 + 1 = Len(s) + 2
    BY <1>1
  <2> QED BY <1>1, <1>2, <1>5, <1>9, <2>1 DEF After
<1> QED BY <1>5, <1>7, <1>8, <1>10 DEF t

(* TunnelSendP: the first chunk of a message is made.                      *)
LEMMA MessageBeginsStream ==
  ASSUME IInv, Numbered, Stream, NEW d \in Parties, NEW len \in Nat,
         len # 0, NEW m, m = Message(d, Len(sent[d]) + 1, len),
         phase[d] = "tunnel", src[d] = None,
         src' = [src EXCEPT ![d] = m],
         sent' = [sent EXCEPT ![d] = Append(@, m)], FirstFill(d, m),
         net' = net, up' = up, phase' = phase, at' = at, inKey' = inKey,
         sndAt' = sndAt, rcvPlace' = rcvPlace, rcvBuff' = rcvBuff,
         got' = got, fault' = fault,
         dst' \in [Parties -> Seq(Unit)],
         \A e \in Parties : e # d => dst'[e] = dst[e],
         rcvPlace[d] = 0 \/ dst'[d] = dst[d]
  PROVE  Stream'
<1> DEFINE body == <<Length(Len(m))>> \o Filled(m, 0, Chunk - 1)
           s == sent[d]
<1>0. Types /\ Stage(d) /\ s \in Seq(Seq(Unit)) /\ Len(s) \in Nat
  <2>1. s \in Seq(Seq(Unit))
    BY DEF Numbered
  <2> QED BY <2>1, LenProperties DEF IInv, Stages
<1>1. m \in Seq(Unit) /\ Len(m) = len /\ m # None
  BY <1>0, MessageIs
<1>2. body \in Bodies
  BY <1>1, FirstBody
<1>3. /\ sndPlace' = [sndPlace EXCEPT ![d] = Least(Len(m), Chunk - 1)]
      /\ Encrypt(d, outKey[d], body)
  BY DEF FirstFill
<1>4. /\ sndBuff[d] = None /\ outKey[d] = KeyOf(d, Len(used[d]) + 1)
      /\ Len(used[d]) \in Nat /\ sndAt[d] = 0
  BY KeyNow
<1>5. /\ Other(d) \in Parties /\ Other(Other(d)) = d /\ Other(d) # d
      /\ Shape /\ Source(d) /\ Building(d) /\ Begins(d)
  BY StreamIs
<1>6. /\ src'[d] = m /\ sent'[d] = Append(s, m)
      /\ sndPlace'[d] = Least(len, Chunk - 1)
      /\ \A e \in Parties : e # d =>
           /\ src'[e] = src[e] /\ sent'[e] = sent[e]
           /\ sndPlace'[e] = sndPlace[e]
  BY <1>1, <1>3 DEF Types, IInv, Numbered
<1>7. /\ Append(s, m) \in Seq(Seq(Unit)) /\ Len(Append(s, m)) = Len(s) + 1
      /\ Append(s, m)[Len(s) + 1] = m
      /\ DOMAIN Append(s, m) = 1 .. Len(s) + 1
  <2>1. /\ Append(s, m) \in Seq(Seq(Unit))
        /\ Len(Append(s, m)) = Len(s) + 1
        /\ Append(s, m)[Len(s) + 1] = m
    BY <1>0, <1>1, AppendProperties
  <2> QED BY <2>1, LenProperties
<1>8. Recvd(d)' = Recvd(d)
  BY DEF Recvd, Keyed
<1>9. Least(len, Chunk - 1) <= len /\ Chunk - 1 \in Nat
  BY SessionAssumption DEF Least
<1>10. sndBuff'[d] # None /\ Len(used'[d]) = Len(used[d]) + 1
  <2>1. KeyOf(d, Len(used[d]) + 1) \in Key /\ Len(used[d]) + 1 \in Nat
    BY <1>4, KeysDiffer
  <2>2. sndBuff'[d] = [n |-> Len(used[d]) + 1,
                       key |-> KeyOf(d, Len(used[d]) + 1), body |-> body]
        /\ used'[d] = Append(used[d], KeyOf(d, Len(used[d]) + 1))
        /\ used[d] \in Seq(Key)
    BY <1>0, <1>3, <1>4 DEF Types, Encrypt
  <2> HIDE DEF body
  <2>3. sndBuff'[d] \in Chunks
    BY <1>2, <2>1, <2>2 DEF Chunks
  <2> QED BY <2>1, <2>2, <2>3, AppendProperties, SessionAssumption
<1>11. Source(d)'
  <2>1. Len(s) + 1 \in 1 .. Len(s) + 1
    BY <1>0
  <2> QED BY <1>1, <1>6, <1>7, <1>9, <1>10, <2>1 DEF Source
<1>12. Building(d)'
  BY <1>5, <1>6 DEF Building
<1>13. Begins(d)'
  <2>1. First(d) \in Nat
    BY DEF First
  <2> QED BY <1>4, <1>5, <1>8, <1>10, <2>1 DEF Begins
<1> HIDE DEF body, s
<1>14. Makes(d) = [msg |-> Len(s) + 1, from |-> 0]
  BY DEF Makes, s
<1>15. Makes(d)' = IF Least(len, Chunk - 1) = len
                   THEN [msg |-> Len(s) + 2, from |-> 0]
                   ELSE [msg |-> Len(s) + 1, from |-> Least(len, Chunk - 1)]
  <2>1. Len(s) + 1 + 1 = Len(s) + 2
    BY <1>0
  <2> QED BY <1>1, <1>6, <1>7, <2>1 DEF Makes
<1>16. \A c \in Chunks : c.body = body =>
         /\ PartOf(sent'[d], c) /\ At(c) = Makes(d)
         /\ After(sent'[d], Makes(d)) = Makes(d)'
  <2> TAKE c \in Chunks
  <2> HAVE c.body = body
  <2>1. c.body = <<Length(Len(m))>> \o Filled(m, 0, Chunk - 1)
    BY DEF body
  <2>2. sent[d] \in Seq(Seq(Unit))
    BY <1>0 DEF s
  <2>3. /\ At(c) = [msg |-> Len(s) + 1, from |-> 0]
        /\ PartOf(Append(s, m), c)
        /\ After(Append(s, m), At(c)) =
             IF Least(len, Chunk - 1) = len
             THEN [msg |-> Len(s) + 2, from |-> 0]
             ELSE [msg |-> Len(s) + 1, from |-> Least(len, Chunk - 1)]
    <3>1. /\ At(c) = [msg |-> Len(sent[d]) + 1, from |-> 0]
          /\ PartOf(Append(sent[d], m), c)
          /\ After(Append(sent[d], m), At(c)) =
               IF Least(len, Chunk - 1) = len
               THEN [msg |-> Len(sent[d]) + 2, from |-> 0]
               ELSE [msg |-> Len(sent[d]) + 1, from |-> Least(len, Chunk - 1)]
      BY <2>1, <2>2, FirstMade
    <3> QED BY <3>1 DEF s
  <2> QED BY <1>6, <1>14, <1>15, <2>3
<1>17. Extends(sent'[d], sent[d])
  <2>1. Len(s) + 1 \in DOMAIN Append(s, m)
        /\ \A i \in 1 .. Len(s) : Append(s, m)[i] = s[i]
        /\ DOMAIN s = 1 .. Len(s)
    BY <1>0, <1>1, <1>7, AppendProperties, LenProperties
  <2> QED BY <1>0, <1>6, <1>7, <2>1 DEF Extends, s
<1>18. ~(Len(used[d]) + 1 < First(d))
  <2>1. Len(used[d]) >= First(d) - 1 /\ First(d) \in Nat
    BY <1>5 DEF Begins, First
  <2> QED BY <1>4, <2>1
<1>19. net'[d] = net[d] \o Rest(d) /\ Len(net'[d]) <= SockCap
  <2>1. net[d] \o Rest(d) = net[d]
    BY <1>0, <1>4, NothingLeft
  <2> QED BY <1>5, <2>1 DEF Shape
<1>20. /\ phase[d] # "dead" /\ phase'[d] # "dead" /\ sndAt'[d] = 0
       /\ Encrypt(d, KeyOf(d, Len(used[d]) + 1), body)
  BY <1>3, <1>4
<1>21. \A e \in Parties : e # d =>
           /\ net'[e] = net[e] /\ sndAt'[e] = sndAt[e]
           /\ phase'[e] = phase[e] /\ src'[e] = src[e]
           /\ sndPlace'[e] = sndPlace[e] /\ sent'[e] = sent[e]
           /\ dst'[e] = dst[e]
  BY <1>6
<1>22. IF Len(used[d]) + 1 < First(d) THEN Makes(d)' = Makes(d)
       ELSE \A c \in Chunks : c.body = body =>
              /\ PartOf(sent'[d], c) /\ At(c) = Makes(d)
              /\ After(sent'[d], Makes(d)) = Makes(d)'
  BY <1>16, <1>18
<1> QED BY <1>2, <1>8, <1>11, <1>12, <1>13, <1>17, <1>19, <1>20, <1>21,
          <1>22, ChunkBeginsStream

(* handleClientSends: the server begins a message.                         *)
LEMMA ServerSendStream ==
  ASSUME NoEmptyMessage, IInv, Numbered, Stream, ServerSend
  PROVE  Stream'
<1> DEFINE d == "server"
<1>1. PICK len \in Lens["server"] :
        LET m == Message("server", Len(sent["server"]) + 1, len)
        IN  /\ src' = [src EXCEPT !["server"] = m]
            /\ sent' = [sent EXCEPT !["server"] = Append(@, m)]
            /\ FirstFill("server", m)
  BY DEF ServerSend
<1>2. /\ phase[d] = "tunnel" /\ src[d] = None
      /\ net' = net /\ up' = up /\ phase' = phase /\ at' = at
      /\ inKey' = inKey /\ sndAt' = sndAt /\ rcvPlace' = rcvPlace
      /\ rcvBuff' = rcvBuff /\ dst' = dst /\ got' = got /\ fault' = fault
  BY DEF ServerSend, netVars, keyVars, rcvVars
<1>3. d \in Parties /\ len \in Nat /\ len # 0
  BY SessionAssumption DEF NoEmptyMessage, Parties
<1>4. dst' \in [Parties -> Seq(Unit)] /\ dst'[d] = dst[d]
  BY <1>2, <1>3, StreamIs DEF Shape
<1> HIDE DEF d
<1>5. /\ src' = [src EXCEPT ![d] = Message(d, Len(sent[d]) + 1, len)]
      /\ sent' = [sent EXCEPT ![d] =
                    Append(@, Message(d, Len(sent[d]) + 1, len))]
      /\ FirstFill(d, Message(d, Len(sent[d]) + 1, len))
  BY <1>1 DEF d
<1> QED BY <1>2, <1>3, <1>4, <1>5, MessageBeginsStream

(* readFromClientCB: the proxy begins a message of the chat client, and    *)
(* leaves in ws2 what was there: it must have been nothing.                *)
LEMMA ReadFromClientStream ==
  ASSUME IInv, Numbered, Stream, Undisturbed, readFromClientCB
  PROVE  Stream'
<1> DEFINE d == "proxy"
<1>1. PICK len \in Lens["proxy"] :
        LET m == Message("proxy", Len(sent["proxy"]) + 1, len)
        IN  /\ dst' = [dst EXCEPT !["proxy"] = m]
            /\ src' = [src EXCEPT !["proxy"] = m]
            /\ sent' = [sent EXCEPT !["proxy"] = Append(@, m)]
            /\ FirstFill("proxy", m)
  BY DEF readFromClientCB, TCPRecvP
<1>2. /\ phase[d] = "tunnel" /\ src[d] = None /\ at = "client"
      /\ net' = net /\ up' = up /\ phase' = phase /\ at' = at
      /\ inKey' = inKey /\ sndAt' = sndAt /\ rcvPlace' = rcvPlace
      /\ rcvBuff' = rcvBuff /\ got' = got /\ fault' = fault
  BY DEF readFromClientCB, netVars, keyVars
<1>3. d \in Parties /\ len \in Nat /\ len # 0
  BY SessionAssumption DEF Parties
<1>4. rcvPlace[d] = 0
  BY <1>2 DEF Undisturbed
<1> HIDE DEF d
<1> DEFINE m == Message(d, Len(sent[d]) + 1, len)
<1>5. /\ dst' = [dst EXCEPT ![d] = m] /\ src' = [src EXCEPT ![d] = m]
      /\ sent' = [sent EXCEPT ![d] = Append(@, m)] /\ FirstFill(d, m)
  BY <1>1 DEF d
<1>6. m \in Seq(Unit)
  <2>1. sent[d] \in Seq(Seq(Unit))
    BY <1>3 DEF Numbered
  <2>2. Len(sent[d]) + 1 \in Nat
    BY <2>1, LenProperties
  <2> QED BY <1>3, <2>2, MessageIs
<1> HIDE DEF m
<1>7. /\ dst' \in [Parties -> Seq(Unit)]
      /\ \A e \in Parties : e # d => dst'[e] = dst[e]
  <2>1. dst \in [Parties -> Seq(Unit)]
    BY <1>3, StreamIs DEF Shape
  <2> HIDE DEF Unit
  <2> QED BY <1>3, <1>5, <1>6, <2>1
<1> QED BY <1>2, <1>3, <1>4, <1>5, <1>7, MessageBeginsStream DEF m

(* The end of a chunk of a message, and the next one.                      *)
LEMMA SendPStream ==
  ASSUME IInv, Numbered, Stream, NEW d \in Parties, SendP(d)
  PROVE  Stream'
<1>0. Types /\ Stage(d)
  BY DEF IInv, Stages
<1>1. PICK k \in 1 .. Parts : socketSend(d, k) /\ LastOf(d, k)
  BY DEF SendP, TCPSockSend
<1>2. /\ phase[d] = "tunnel" /\ TCPSockSend(d) /\ up' = up /\ up
      /\ phase' = phase /\ at' = at /\ inKey' = inKey
      /\ rcvPlace' = rcvPlace /\ rcvBuff' = rcvBuff /\ dst' = dst
      /\ sent' = sent /\ got' = got /\ fault' = fault
  BY <1>1 DEF SendP, socketSend, rcvVars, history
<1>3. /\ net'[d] = net[d] \o Rest(d) /\ sndBuff[d] # None /\ sndAt'[d] = 0
      /\ \A e \in Parties :
           e # d => net'[e] = net[e] /\ sndAt'[e] = sndAt[e]
  BY <1>0, <1>1, FlowSent, LastSent
<1>4. /\ src[d] # None /\ sndPlace[d] >= 1 /\ Len(src[d]) >= 1
      /\ Len(used[d]) >= 2
  BY <1>0, <1>2, <1>3 DEF Stage, Keyed
<1>5. /\ Other(d) \in Parties /\ Shape /\ Source(d) /\ Building(d)
      /\ Begins(d)
  BY StreamIs
<1>6. /\ Len(sent[d]) \in DOMAIN sent[d] /\ Len(sent[d]) \in Nat
      /\ src[d] = sent[d][Len(sent[d])]
      /\ src[d] = Message(d, Len(sent[d]), Len(src[d]))
      /\ sndPlace[d] <= Len(src[d])
  <2>1. sent[d] \in Seq(Seq(Unit))
    BY DEF Numbered
  <2> QED BY <1>4, <1>5, <2>1, LenProperties DEF Source
<1>7. Recvd(d)' = Recvd(d)
  BY <1>2 DEF Recvd, Keyed
<1>8. Building(d)'
  BY <1>2, <1>5 DEF Building
<1>9. src[d] \in Seq(Unit) /\ Len(src[d]) \in Nat /\ sndPlace[d] \in Nat
  <2>1. src[d] \in Seq(Unit) /\ sndPlace[d] \in Nat
    BY <1>0, <1>4 DEF Types
  <2> QED BY <2>1, LenProperties
<1>10. CASE sndPlace[d] = Len(src[d])
  <2>1. /\ sndPlace' = [sndPlace EXCEPT ![d] = 0]
        /\ src' = [src EXCEPT ![d] = None]
        /\ sndBuff' = [sndBuff EXCEPT ![d] = None]
        /\ used' = used
    BY <1>10 DEF SendP
  <2>2. /\ src'[d] = None
        /\ \A e \in Parties : e # d => src'[e] = src[e]
                                       /\ sndPlace'[e] = sndPlace[e]
    BY <1>0, <2>1 DEF Types
  <2>3. Source(d)'
    BY <2>2 DEF Source
  <2>4. Begins(d)'
    BY <1>2, <1>5, <1>7, <2>1 DEF Begins
  <2>5. Makes(d)' = Makes(d)
    BY <1>2, <1>10, <2>2 DEF Makes
  <2> QED BY <1>2, <1>7, <2>1, <2>2, <2>3, <2>4, <2>5, ChunkEndsStream
<1>11. CASE sndPlace[d] # Len(src[d])
  <2> DEFINE body == Filled(src[d], sndPlace[d], Chunk)
             p == Least(Len(src[d]), sndPlace[d] + Chunk)
             n == Len(sent[d])
             len == Len(src[d])
  <2>1. /\ Encrypt(d, naclRatchet(outKey[d]), body) /\ src' = src
        /\ sndPlace' = [sndPlace EXCEPT ![d] = p]
    BY <1>11 DEF SendP, PRefill
  <2>2. body \in Bodies
    BY <1>9, FilledIs, SessionAssumption DEF Bodies
  <2>3. p <= len /\ p = PlaceAfter(len, sndPlace[d])
    BY <1>4, <1>9, SessionAssumption DEF Least, PlaceAfter
  <2>4. /\ sndPlace'[d] = p
        /\ \A e \in Parties : e # d => sndPlace'[e] = sndPlace[e]
    BY <1>0, <2>1 DEF Types
  <2>5. naclRatchet(outKey[d]) = KeyOf(d, Len(used[d]) + 1)
        /\ Len(used[d]) \in Nat
    BY <1>2, <1>4, KeyNow
  <2>6. ChunkBody(src[d], sndPlace[d]) = body
    BY <1>4, <1>9 DEF ChunkBody
  <2> HIDE DEF body, p
  <2>7. sndBuff'[d] # None /\ Len(used'[d]) = Len(used[d]) + 1
    <3>1. KeyOf(d, Len(used[d]) + 1) \in Key /\ Len(used[d]) + 1 \in Nat
      BY <2>5, KeysDiffer
    <3>2. sndBuff'[d] = [n |-> Len(used[d]) + 1,
                         key |-> KeyOf(d, Len(used[d]) + 1), body |-> body]
          /\ used'[d] = Append(used[d], KeyOf(d, Len(used[d]) + 1))
          /\ used[d] \in Seq(Key)
      BY <1>0, <2>1, <2>5 DEF Types, Encrypt
    <3>3. sndBuff'[d] \in Chunks
      BY <2>2, <3>1, <3>2 DEF Chunks
    <3> QED BY <3>1, <3>2, <3>3, AppendProperties, SessionAssumption
  <2>8. Source(d)'
    BY <1>2, <1>6, <2>1, <2>3, <2>4, <2>7 DEF Source
  <2>9. Begins(d)'
    <3>1. First(d) \in Nat
      BY DEF First
    <3> QED BY <1>2, <1>5, <1>7, <2>5, <2>7, <3>1 DEF Begins
  <2>10. Makes(d) = [msg |-> n, from |-> sndPlace[d]]
    BY <1>4, <1>11 DEF Makes
  <2>11. Makes(d)' = IF p = len THEN [msg |-> n + 1, from |-> 0]
                     ELSE [msg |-> n, from |-> p]
    BY <1>2, <1>4, <2>1, <2>4 DEF Makes
  <2>12. After(sent[d], Makes(d)) = Makes(d)'
    BY <1>6, <2>3, <2>10, <2>11 DEF After
  <2>13. \A c \in Chunks : c.body = body =>
           PartOf(sent[d], c) /\ At(c) = Makes(d)
    <3> TAKE c \in Chunks
    <3> HAVE c.body = body
    <3>1. sndPlace[d] \in 1 .. len - 1 /\ len # 0
          /\ sndPlace[d] \in 0 .. len - 1
      BY <1>4, <1>6, <1>9, <1>11
    <3>2. c.body = ChunkBody(Message(d, n, len), sndPlace[d])
      BY <1>6, <2>6
    <3>3. At(c) = [msg |-> n, from |-> sndPlace[d]]
      BY <1>6, <1>9, <3>1, <3>2, LaterOf
    <3>4. PartOf(sent[d], c)
      BY <1>6, <2>6, <3>1, <3>3 DEF PartOf
    <3> QED BY <2>10, <3>3, <3>4
  <2>14. ~(Len(used[d]) + 1 < First(d))
    <3>1. First(d) <= 3 /\ First(d) \in Nat
      BY DEF First
    <3> QED BY <1>4, <2>5, <3>1
  <2>15. IF Len(used[d]) + 1 < First(d) THEN Makes(d)' = Makes(d)
         ELSE \A c \in Chunks : c.body = body =>
                /\ PartOf(sent'[d], c) /\ At(c) = Makes(d)
                /\ After(sent'[d], Makes(d)) = Makes(d)'
    BY <1>2, <2>12, <2>13, <2>14
  <2>16. Len(net'[d]) <= SockCap
    BY <1>1, <1>5, Room
  <2>17. dst' \in [Parties -> Seq(Unit)]
    BY <1>2, <1>5 DEF Shape
  <2>18. Extends(sent'[d], sent[d])
    BY <1>2, ExtendsSame
  <2>19. /\ Encrypt(d, KeyOf(d, Len(used[d]) + 1), body)
         /\ phase[d] # "dead" /\ phase'[d] # "dead"
    BY <1>2, <2>1, <2>5
  <2>20. \A e \in Parties : e # d =>
           /\ net'[e] = net[e] /\ sndAt'[e] = sndAt[e]
           /\ phase'[e] = phase[e] /\ src'[e] = src[e]
           /\ sndPlace'[e] = sndPlace[e] /\ sent'[e] = sent[e]
           /\ dst'[e] = dst[e]
    BY <1>2, <1>3, <2>1, <2>4
  <2> QED BY <1>2, <1>3, <1>7, <1>8, <2>2, <2>8, <2>9, <2>15, <2>16, <2>17,
             <2>18, <2>19, <2>20, ChunkBeginsStream
<1> QED BY <1>10, <1>11

(* A part of a chunk is received.                                          *)
LEMMA RecvPartStream ==
  ASSUME IInv, Stream, NEW d \in Parties, TCPSockRecvPart(d)
  PROVE  Stream'
<1> DEFINE o == Other(d)
<1>0. /\ Types /\ Answers /\ o \in Parties /\ Other(o) = d /\ o # d
      /\ \A e \in Parties : e = d \/ e = o
  BY StreamIs DEF IInv
<1>1. PICK k \in 1 .. Parts :
        /\ socketRecv(d, k) /\ Len(rcvBuff[d]) + k < Parts
        /\ rcvBuff' = [rcvBuff EXCEPT ![d] = With(d, k)]
  BY DEF TCPSockRecvPart
<1>2. /\ phase' = phase /\ inKey' = inKey /\ src' = src /\ up' = up
      /\ sndPlace' = sndPlace /\ sndBuff' = sndBuff /\ used' = used
      /\ rcvPlace' = rcvPlace /\ dst' = dst /\ at' = at /\ sndAt' = sndAt
      /\ sent' = sent /\ got' = got /\ fault' = fault
  BY DEF TCPSockRecvPart, keyVars, sndVars, history
<1>3. /\ net'[d] = net[d] /\ Len(net'[o]) = Len(net[o]) - k
      /\ net' \in [Parties -> Seq(Piece)] /\ With(d, k) \in Seq(Piece)
      /\ Len(With(d, k)) = Len(rcvBuff[d]) + k
  BY <1>0, <1>1, Received
<1>4. rcvBuff'[d] = With(d, k) /\ rcvBuff'[o] = rcvBuff[o]
  BY <1>0, <1>1 DEF Types
<1>5. /\ Shape /\ Broken /\ Told(d) /\ Told(o)
      /\ Source(d) /\ Building(d) /\ Begins(d)
      /\ Source(o) /\ Building(o) /\ Begins(o)
  BY StreamIs
<1>6. Flow(o)' = Flow(o)
  <2>1. With(d, k) \o net'[o] = rcvBuff[d] \o net[o]
    BY <1>0, <1>1, FlowReceived
  <2>2. Rest(o)' = Rest(o)
    BY <1>2 DEF Rest
  <2>3. rcvBuff[d] \in Seq(Piece) /\ net[o] \in Seq(Piece)
        /\ Rest(o) \in Seq(Piece) /\ net'[o] \in Seq(Piece)
    BY <1>0, <1>3, Flows
  <2>4. rcvBuff[d] \o (net[o] \o Rest(o)) = (rcvBuff[d] \o net[o]) \o Rest(o)
    BY <2>3, Regrouped, ZenonT(30)
  <2>5. With(d, k) \o (net'[o] \o Rest(o))
          = (With(d, k) \o net'[o]) \o Rest(o)
    BY <1>3, <2>3, Regrouped, ZenonT(30)
  <2>6. Flow(o) = rcvBuff[d] \o (net[o] \o Rest(o))
    BY <1>0 DEF Flow
  <2>7. Flow(o)' = With(d, k) \o (net'[o] \o Rest(o))
    BY <1>0, <1>4, <2>2 DEF Flow
  <2> QED BY <2>1, <2>4, <2>5, <2>6, <2>7
<1>7. /\ Source(d)' /\ Building(d)' /\ Begins(d)' /\ Recvd(d)' = Recvd(d)
      /\ Source(o)' /\ Building(o)' /\ Begins(o)' /\ Recvd(o)' = Recvd(o)
  BY <1>0, <1>2, <1>5, PartyKept, ExtendsSame
<1>8. Told(o)'
  <2>1. Wants(d)' = Wants(d) /\ Makes(o)' = Makes(o)
    BY <1>2 DEF Wants, Makes
  <2> QED BY <1>0, <1>2, <1>5, <1>6, <1>7, <2>1, ToldSame
<1>9. Told(d)'
  BY <1>0, <1>2, <1>3, <1>4, <1>5, <1>7, ToldKept
<1>10. Shape'
  <2>1. Len(net'[o]) <= SockCap
    <3>1. Len(net[o]) \in Nat /\ k \in Nat /\ Len(net[o]) <= SockCap
          /\ SockCap \in Nat
      BY <1>0, <1>5, Measures, PartsArithmetic, SessionAssumption DEF Shape
    <3> QED BY <1>3, <3>1
  <2>2. \A e \in Parties : Len(net'[e]) <= SockCap /\ Len(rcvBuff'[e]) < Parts
    BY <1>0, <1>1, <1>3, <1>4, <1>5, <2>1 DEF Shape
  <2> QED BY <1>2, <1>5, <2>2 DEF Shape
<1>11. Broken'
  BY <1>2, <1>5 DEF Broken
<1> QED BY <1>0, <1>7, <1>8, <1>9, <1>10, <1>11, StreamOf

(* What is received is opened with the key of the next chunk.              *)
LEMMA KeyAwaited ==
  ASSUME IInv, NEW d \in Parties, Keyed(d)
  PROVE  KeyOf(Other(d), Recvd(d) + 1) = inKey[d] /\ Recvd(d) \in Nat
<1>1. inKey[d] \in Key /\ inKey[d][1] = Dir(Other(d)) /\ Recvd(d) \in Nat
  BY Measures DEF IInv, Types, Stages, Stage
<1>2. inKey[d] = <<inKey[d][1], inKey[d][2]>> /\ inKey[d][2] \in Nat
  BY <1>1, Ratchets
<1>3. Recvd(d) + 1 # 1 /\ Recvd(d) + 1 - 2 = inKey[d][2]
  BY <1>2 DEF Recvd
<1> QED BY <1>1, <1>2, <1>3 DEF KeyOf

(* A chunk is received and opened; if it is one of the handshake, one may  *)
(* be made in turn.                                                        *)
LEMMA ChunkOpensStream ==
  ASSUME IInv, Stream, NEW d \in Parties, NEW buf, TCPSockRecv(d, buf),
         phase[d] # "dead", phase'[d] # "dead", up' = up, at' = at,
         fault' = fault, sent' = sent, src' = src, sndPlace' = sndPlace,
         sndAt' = sndAt,
         \A e \in Parties : e # d =>
           /\ phase'[e] = phase[e] /\ inKey'[e] = inKey[e]
           /\ used'[e] = used[e] /\ sndBuff'[e] = sndBuff[e]
           /\ rcvPlace'[e] = rcvPlace[e] /\ got'[e] = got[e]
           /\ dst'[e] = dst[e],
         rcvPlace' \in [Parties -> Nat], dst' \in [Parties -> Seq(Unit)],
         got' \in [Parties -> Seq(Seq(Unit))],
         Recvd(d)' = Recvd(d) + 1,
         Wants(d)' = IF Recvd(d) + 1 < First(Other(d)) THEN Wants(d)
                     ELSE After(sent[Other(d)], Wants(d)),
         Source(d)', Building(d)', Begins(d)',
         \/ used'[d] = used[d] /\ sndBuff'[d] = sndBuff[d]
         \/ /\ \E body \in Bodies :
                 Encrypt(d, KeyOf(d, Len(used[d]) + 1), body)
            /\ Len(used[d]) + 1 < First(d)
            /\ sndBuff[d] = None /\ sndAt[d] = 0
  PROVE  Stream'
<1> DEFINE o == Other(d)
<1>0. /\ Types /\ Answers /\ o \in Parties /\ Other(o) = d /\ o # d
      /\ \A e \in Parties : e = d \/ e = o
  BY StreamIs DEF IInv
<1>1. /\ Shape /\ Broken /\ Told(d) /\ Told(o)
      /\ Source(o) /\ Building(o) /\ Begins(o)
  BY StreamIs
<1>2. /\ rcvBuff' = [rcvBuff EXCEPT ![d] = <<>>] /\ net'[d] = net[d]
      /\ Len(net'[o]) <= Len(net[o]) /\ net'[o] \in Seq(Piece)
  BY <1>0, <1>1, ChunkArrives
<1>3. /\ rcvBuff'[d] = <<>> /\ rcvBuff'[o] = rcvBuff[o]
  BY <1>0, <1>2 DEF Types
<1>4. Source(o)' /\ Building(o)' /\ Begins(o)' /\ Recvd(o)' = Recvd(o)
  BY <1>0, <1>1, PartyKept, ExtendsSame
<1>5. Told(o)'
  BY <1>0, <1>1, ToldOpened
<1>6. Told(d)'
  <2>1. CASE used'[d] = used[d] /\ sndBuff'[d] = sndBuff[d]
    BY <1>0, <1>1, <1>2, <1>3, <1>4, <2>1, ToldKept
  <2>2. CASE /\ \E body \in Bodies :
                  Encrypt(d, KeyOf(d, Len(used[d]) + 1), body)
             /\ Len(used[d]) + 1 < First(d)
             /\ sndBuff[d] = None /\ sndAt[d] = 0
    <3>1. PICK body \in Bodies :
            Encrypt(d, KeyOf(d, Len(used[d]) + 1), body)
      BY <2>2
    <3>2. net'[d] = net[d] \o Rest(d) /\ sndAt'[d] = 0
      BY <1>0, <1>2, <2>2, NothingLeft
    <3>3. Makes(d)' = Makes(d) /\ Wants(o)' = Wants(o)
      BY <1>0 DEF Makes, Wants
    <3>4. up \in BOOLEAN /\ Extends(sent'[d], sent[d])
      BY <1>1, ExtendsSame DEF Shape
    <3> QED BY <1>0, <1>1, <1>3, <1>4, <2>2, <3>1, <3>2, <3>3, <3>4,
               ToldBegun
  <2> QED BY <2>1, <2>2
<1>7. Shape'
  <2>1. Len(net'[o]) <= SockCap
    <3>1. net[o] \in Seq(Piece) /\ Len(net[o]) <= SockCap
      BY <1>0, <1>1 DEF Shape, Types
    <3>2. Len(net[o]) \in Nat /\ Len(net'[o]) \in Nat
      BY <1>2, <3>1, LenProperties
    <3> QED BY <1>2, <3>1, <3>2, SessionAssumption
  <2>2. Len(rcvBuff'[d]) < Parts
    BY <1>3, PartsArithmetic
  <2>3. \A e \in Parties : Len(net'[e]) <= SockCap /\ Len(rcvBuff'[e]) < Parts
    BY <1>0, <1>1, <1>2, <1>3, <2>1, <2>2 DEF Shape
  <2> QED BY <1>1, <2>3 DEF Shape
<1>8. Broken'
  BY <1>0, <1>1 DEF Broken
<1> QED BY <1>4, <1>5, <1>6, <1>7, <1>8, StreamOf

(* SprotServerHandshake: the hello opens, and the answer is made.          *)
LEMMA HelloReceivedStream ==
  ASSUME IInv, Stream, NEW buf, HelloReceived(buf)
  PROVE  Stream'
<1> DEFINE d == "server"
<1>0. Types /\ Stage(d) /\ d \in Parties /\ Other(d) = "proxy"
  BY Others DEF IInv, Stages, Parties
<1>1. /\ phase[d] = "hello" /\ TCPSockRecv(d, buf) /\ inKey' = inKey
      /\ src' = src /\ sndPlace' = sndPlace /\ sndAt' = sndAt
      /\ rcvPlace' = rcvPlace /\ dst' = dst /\ sent' = sent /\ got' = got
      /\ fault' = fault /\ at' = at
  BY DEF HelloReceived, keyVars, history
<1>2. Len(used[d]) = 0 /\ sndBuff[d] = None /\ src[d] = None /\ sndAt[d] = 0
  BY <1>0, <1>1 DEF Stage
<1>3. /\ Shape /\ Told(d) /\ Told(Other(d)) /\ Building(d)
  BY <1>0, StreamIs
<1>4. Recvd(d) = 0
  BY <1>1 DEF Recvd, Keyed
<1>5. Opens(buf, Static)
  <2>1. Opens(buf, KeyOf(Other(d), Recvd(d) + 1))
    BY <1>0, <1>1, <1>3, ChunkArrives
  <2>2. KeyOf(Other(d), Recvd(d) + 1) = Static
    BY <1>0, <1>4 DEF KeyOf
  <2> QED BY <2>1, <2>2
<1>6. /\ Encrypt(d, Ephemeral, Answer) /\ up' = up
      /\ phase' = [phase EXCEPT ![d] = "sendAnswer"]
  BY <1>5 DEF HelloReceived
<1>7. /\ phase'[d] = "sendAnswer"
      /\ \A e \in Parties : e # d =>
           /\ phase'[e] = phase[e] /\ used'[e] = used[e]
           /\ sndBuff'[e] = sndBuff[e]
  BY <1>0, <1>6 DEF Types, Encrypt
<1>8. Answer \in Bodies
  <2>1. ServerOut \in Key /\ ServerIn \in Key
    BY DEF ServerOut, ServerIn, Key
  <2>2. Answer \in Seq(Key)
    <3> HIDE DEF Key
    <3> QED BY <2>1 DEF Answer
  <2> QED BY <2>2 DEF Bodies
<1>9. Ephemeral = KeyOf(d, Len(used[d]) + 1) /\ Len(used[d]) + 1 < First(d)
  BY <1>2 DEF KeyOf, First
<1>10. Recvd(d)' = Recvd(d) + 1 /\ Recvd(d) + 1 < First(Other(d))
  BY <1>0, <1>4, <1>7 DEF Recvd, Keyed, First
<1>11. Wants(d)' = Wants(d)
  BY <1>1 DEF Wants
<1>12. Source(d)' /\ Building(d)' /\ Begins(d)'
  BY <1>1, <1>2, <1>3, <1>7 DEF Source, Building, Begins
<1>13. /\ rcvPlace' \in [Parties -> Nat] /\ dst' \in [Parties -> Seq(Unit)]
       /\ got' \in [Parties -> Seq(Seq(Unit))]
  BY <1>1, <1>3 DEF Shape
<1>14. \E body \in Bodies : Encrypt(d, KeyOf(d, Len(used[d]) + 1), body)
  BY <1>6, <1>8, <1>9
<1>15. \A e \in Parties : e # d =>
           /\ phase'[e] = phase[e] /\ inKey'[e] = inKey[e]
           /\ used'[e] = used[e] /\ sndBuff'[e] = sndBuff[e]
           /\ rcvPlace'[e] = rcvPlace[e] /\ got'[e] = got[e]
           /\ dst'[e] = dst[e]
  BY <1>1, <1>7
<1>16. phase[d] # "dead" /\ phase'[d] # "dead"
  BY <1>1, <1>7
<1> HIDE DEF d
<1> QED BY <1>0, <1>1, <1>2, <1>6, <1>9, <1>10, <1>11, <1>12,
          <1>13, <1>14, <1>15, <1>16, ChunkOpensStream

(* SprotClientHandshake: the answer opens, and the login is made.          *)
LEMMA AnswerReceivedStream ==
  ASSUME IInv, Stream, NEW buf, AnswerReceived(buf)
  PROVE  Stream'
<1> DEFINE d == "proxy"
<1>0. Types /\ Answers /\ Stage(d) /\ d \in Parties /\ Other(d) = "server"
  BY Others DEF IInv, Stages, Parties
<1>1. /\ phase[d] = "answer" /\ TCPSockRecv(d, buf)
      /\ src' = src /\ sndPlace' = sndPlace /\ sndAt' = sndAt
      /\ rcvPlace' = rcvPlace /\ dst' = dst /\ sent' = sent /\ got' = got
      /\ fault' = fault /\ at' = at
  BY DEF AnswerReceived, history
<1>2. Len(used[d]) = 1 /\ sndBuff[d] = None /\ src[d] = None /\ sndAt[d] = 0
  BY <1>0, <1>1 DEF Stage
<1>3. /\ Shape /\ Told(d) /\ Told(Other(d)) /\ Building(d)
  BY <1>0, StreamIs
<1>4. Recvd(d) = 0
  BY <1>1 DEF Recvd, Keyed
<1>5. Opens(buf, Ephemeral) /\ buf \in Seq(Piece) /\ Len(buf) = Parts
  <2>1. /\ Opens(buf, KeyOf(Other(d), Recvd(d) + 1))
        /\ buf \in Seq(Piece) /\ Len(buf) = Parts
    BY <1>0, <1>1, <1>3, ChunkArrives
  <2>2. KeyOf(Other(d), Recvd(d) + 1) = Ephemeral
    BY <1>0, <1>4 DEF KeyOf
  <2> QED BY <2>1, <2>2
<1>6. Body(buf) = Answer
  <2>1. PICK k \in 1 .. Parts : socketRecv(d, k) /\ buf = With(d, k)
    BY <1>1 DEF TCPSockRecv
  <2>2. AllAnswers(buf)
    BY <1>0, <2>1, Received
  <2>3. 1 \in DOMAIN buf
    BY <1>5, PartsArithmetic
  <2>4. IsAnswer(buf[1][1]) /\ buf[1][1].key = Ephemeral
    BY <1>5, <2>2, <2>3 DEF AllAnswers, Opens
  <2> QED BY <2>4 DEF IsAnswer, Body
<1>7. Body(buf)[1] = ServerOut /\ Body(buf)[2] = ServerIn
  BY <1>6 DEF Answer
<1>8. /\ inKey' = [inKey EXCEPT ![d] = ServerOut] /\ up' = up
      /\ Encrypt(d, ServerIn, <<"channel">>)
      /\ phase' = [phase EXCEPT ![d] = "sendLogin"]
  BY <1>5, <1>7 DEF AnswerReceived
<1>9. /\ phase'[d] = "sendLogin" /\ inKey'[d] = ServerOut
      /\ \A e \in Parties : e # d =>
           /\ phase'[e] = phase[e] /\ used'[e] = used[e]
           /\ sndBuff'[e] = sndBuff[e] /\ inKey'[e] = inKey[e]
  BY <1>0, <1>8 DEF Types, Encrypt
<1>10. ServerIn = KeyOf(d, Len(used[d]) + 1) /\ Len(used[d]) + 1 < First(d)
       /\ <<"channel">> \in Bodies
  BY <1>2 DEF KeyOf, ServerIn, Dir, First, Bodies
<1>11. Recvd(d)' = Recvd(d) + 1 /\ Recvd(d) + 1 < First(Other(d))
  <2>1. ServerOut[2] = 0
    BY DEF ServerOut
  <2>2. Recvd(d)' = 1
    BY <1>9, <2>1 DEF Recvd, Keyed
  <2> QED BY <1>0, <1>4, <2>2 DEF First
<1>12. Wants(d)' = Wants(d)
  BY <1>1 DEF Wants
<1>13. Source(d)' /\ Building(d)' /\ Begins(d)'
  BY <1>1, <1>2, <1>3, <1>9 DEF Source, Building, Begins
<1>14. /\ rcvPlace' \in [Parties -> Nat] /\ dst' \in [Parties -> Seq(Unit)]
       /\ got' \in [Parties -> Seq(Seq(Unit))]
  BY <1>1, <1>3 DEF Shape
<1>15. \E body \in Bodies : Encrypt(d, KeyOf(d, Len(used[d]) + 1), body)
  BY <1>8, <1>10
<1>16. \A e \in Parties : e # d =>
           /\ phase'[e] = phase[e] /\ inKey'[e] = inKey[e]
           /\ used'[e] = used[e] /\ sndBuff'[e] = sndBuff[e]
           /\ rcvPlace'[e] = rcvPlace[e] /\ got'[e] = got[e]
           /\ dst'[e] = dst[e]
  BY <1>1, <1>9
<1>17. phase[d] # "dead" /\ phase'[d] # "dead"
  BY <1>1, <1>9
<1> HIDE DEF d
<1> QED BY <1>0, <1>1, <1>2, <1>8, <1>10, <1>11, <1>12, <1>13, <1>14,
          <1>15, <1>16, <1>17, ChunkOpensStream

(* clientTaskCB: the login opens, and the server is in the tunnel.         *)
LEMMA LoginReceivedStream ==
  ASSUME IInv, Stream, NEW buf, LoginReceived(buf)
  PROVE  Stream'
<1> DEFINE d == "server"
<1>0. Types /\ Stage(d) /\ d \in Parties /\ Other(d) = "proxy"
  BY Others DEF IInv, Stages, Parties
<1>1. /\ phase[d] = "login" /\ TCPSockRecv(d, buf)
      /\ src' = src /\ sndPlace' = sndPlace /\ sndAt' = sndAt
      /\ sndBuff' = sndBuff /\ used' = used
      /\ rcvPlace' = rcvPlace /\ dst' = dst /\ sent' = sent /\ got' = got
      /\ fault' = fault /\ at' = at
  BY DEF LoginReceived, sndVars, history
<1>2. Len(used[d]) = 1 /\ src[d] = None
  BY <1>0, <1>1 DEF Stage
<1>3. /\ Shape /\ Told(d) /\ Told(Other(d)) /\ Building(d) /\ Begins(d)
  BY <1>0, StreamIs
<1>4. Keyed(d) /\ inKey[d][2] = 0 /\ Recvd(d) = 1
  BY <1>1, <1>3 DEF Recvd, Keyed, Begins
<1>5. Opens(buf, inKey[d])
  <2>1. Opens(buf, KeyOf(Other(d), Recvd(d) + 1))
    BY <1>0, <1>1, <1>3, ChunkArrives
  <2> QED BY <1>0, <1>4, <2>1, KeyAwaited
<1>6. /\ inKey' = [inKey EXCEPT ![d] = naclRatchet(@)] /\ up' = up
      /\ phase' = [phase EXCEPT ![d] = "tunnel"]
  BY <1>5 DEF LoginReceived
<1>7. /\ phase'[d] = "tunnel" /\ inKey'[d] = naclRatchet(inKey[d])
      /\ \A e \in Parties : e # d =>
           phase'[e] = phase[e] /\ inKey'[e] = inKey[e]
  BY <1>0, <1>6 DEF Types
<1>8. inKey'[d][2] = 1
  BY <1>4, <1>7 DEF naclRatchet
<1>9. Recvd(d)' = Recvd(d) + 1 /\ Recvd(d) + 1 < First(Other(d))
      /\ Recvd(d)' = 2
  BY <1>0, <1>4, <1>7, <1>8 DEF Recvd, Keyed, First
<1>10. Wants(d)' = Wants(d)
  BY <1>1 DEF Wants
<1>11. Source(d)' /\ Building(d)' /\ Begins(d)'
  <2>1. First(d) = 2 /\ First(Other(d)) = 3
    BY <1>0 DEF First
  <2> QED BY <1>1, <1>2, <1>3, <1>7, <1>9, <2>1 DEF Source, Building, Begins
<1>12. /\ rcvPlace' \in [Parties -> Nat] /\ dst' \in [Parties -> Seq(Unit)]
       /\ got' \in [Parties -> Seq(Seq(Unit))]
  BY <1>1, <1>3 DEF Shape
<1>13. phase[d] # "dead" /\ phase'[d] # "dead"
  BY <1>1, <1>7, SMTT(30)
<1> HIDE DEF d
<1> QED BY <1>0, <1>1, <1>6, <1>7, <1>9, <1>10, <1>11, <1>12, <1>13,
          ChunkOpensStream

(* TunnelRecvP: what a chunk adds to the message it is of, which is handed *)
(* over as it was given when it is whole.                                  *)
LEMMA RecvPIs ==
  ASSUME IInv, Numbered, Stream, NEW d \in Parties, NEW buf, RecvP(d, buf)
  PROVE  LET m == sent[Other(d)][Len(got[d]) + 1]
             p == PlaceAfter(Len(m), rcvPlace[d])
         IN  /\ Len(got[d]) + 1 \in DOMAIN sent[Other(d)]
             /\ m \in Seq(Unit) /\ p \in 1 .. Len(m)
             /\ up' = up /\ phase' = phase
             /\ inKey' = [inKey EXCEPT ![d] = naclRatchet(@)]
             /\ \E msg \in Seq(Unit) :
                  /\ Len(msg) = Len(m) /\ \A j \in 1 .. p : msg[j] = m[j]
                  /\ dst' = [dst EXCEPT ![d] = msg]
             /\ rcvPlace' =
                  [rcvPlace EXCEPT ![d] = IF p = Len(m) THEN 0 ELSE p]
             /\ got' = IF p = Len(m) THEN [got EXCEPT ![d] = Append(@, m)]
                       ELSE got
<1> DEFINE o == Other(d)
           from == rcvPlace[d]
           m == sent[o][Len(got[d]) + 1]
           p == PlaceAfter(Len(m), from)
           c == buf[1][1]
           r == IF from = 0 THEN parseRecvLen(d, c.body)
                ELSE parseRecv(d, c.body)
<1>0. /\ Types /\ o \in Parties /\ Shape /\ Building(d) /\ Begins(d)
      /\ Told(o) /\ phase[d] = "tunnel" /\ TCPSockRecv(d, buf)
  BY StreamIs DEF IInv, RecvP
<1>1. Keyed(d) /\ phase[d] # "dead" /\ from \in Nat
  BY <1>0 DEF Keyed, Shape
<1>2. Recvd(d) \in Nat /\ Recvd(d) + 1 >= First(o)
  <2>1. Recvd(d) \in Nat /\ First(o) \in Nat
    BY <1>1, KeyAwaited DEF First
  <2>2. Recvd(d) >= First(o) - 1
    BY <1>0 DEF Begins
  <2> QED BY <2>1, <2>2
<1>3. Opens(buf, inKey[d])
  <2>1. Opens(buf, KeyOf(o, Recvd(d) + 1))
    BY <1>0, <1>1, ChunkArrives
  <2> QED BY <1>1, <2>1, KeyAwaited
<1>4. PartOf(sent[o], c) /\ At(c) = Wants(d)
  BY <1>0, <1>1, <1>2, ChunkArrives
<1>5. At(c).msg = Len(got[d]) + 1 /\ At(c).from = from
  BY <1>4 DEF Wants
<1>6. /\ Len(got[d]) + 1 \in DOMAIN sent[o]
      /\ from \in 0 .. Len(m) - 1
      /\ c.body = ChunkBody(m, from)
  BY <1>4, <1>5 DEF PartOf
<1>7. m \in Seq(Unit)
  <2>1. sent[o] \in Seq(Seq(Unit))
    BY <1>0 DEF Numbered
  <2> QED BY <1>6, <2>1, ElementOfSeq
<1>8. Len(m) \in Nat /\ Len(m) # 0
  BY <1>1, <1>6, <1>7, LenProperties
<1> HIDE DEF m, c
<1>9. /\ from = 0 => c.body[1][1] = "length"
      /\ p \in 1 .. Len(m)
      /\ r.msg \in Seq(Unit) /\ Len(r.msg) = Len(m) /\ r.place = p
      /\ \A j \in 1 .. r.place : r.msg[j] = m[j]
  <2>1. CASE from = 0
    <3>1. c.body = ChunkBody(m, 0) /\ r = parseRecvLen(d, ChunkBody(m, 0))
          /\ p = PlaceAfter(Len(m), 0)
      BY <1>6, <2>1
    <3> QED BY <1>7, <1>8, <3>1, FirstParsed
  <2>2. CASE from # 0
    <3>1. r = parseRecv(d, ChunkBody(m, from))
      BY <1>6, <2>2
    <3>2. from \in 1 .. Len(m) - 1
      BY <1>1, <1>6, <1>8, <2>2
    <3>3. Len(dst[d]) = Len(m) /\ \A j \in 1 .. from : dst[d][j] = m[j]
      BY <1>0, <2>2 DEF Building, m
    <3> QED BY <1>0, <1>7, <2>2, <3>1, <3>2, <3>3, LaterParsed
  <2> QED BY <2>1, <2>2
<1>10. /\ inKey' = [inKey EXCEPT ![d] = naclRatchet(@)]
       /\ dst' = [dst EXCEPT ![d] = r.msg]
       /\ rcvPlace' =
            [rcvPlace EXCEPT
               ![d] = IF Len(r.msg) = r.place THEN 0 ELSE r.place]
       /\ got' = IF Len(r.msg) = r.place
                 THEN [got EXCEPT ![d] = Append(@, r.msg)] ELSE got
       /\ up' = up /\ phase' = phase
  <2>1. Body(buf) = c.body
    BY DEF Body, c
  <2> HIDE DEF p
  <2> QED BY <1>3, <1>9, <2>1 DEF RecvP
<1> HIDE DEF r, p
<1>11. p = Len(m) => r.msg = m
  <2> SUFFICES ASSUME p = Len(m)
               PROVE  r.msg = m
    OBVIOUS
  <2>1. Len(r.msg) = Len(m) /\ \A j \in 1 .. Len(r.msg) : r.msg[j] = m[j]
    BY <1>9
  <2> QED BY <1>7, <1>9, <2>1, SeqEqual
<1>12. got' = IF p = Len(m) THEN [got EXCEPT ![d] = Append(@, m)] ELSE got
  BY <1>9, <1>10, <1>11
<1>13. rcvPlace' = [rcvPlace EXCEPT ![d] = IF p = Len(m) THEN 0 ELSE p]
  BY <1>9, <1>10
<1>14. \E msg \in Seq(Unit) :
         /\ Len(msg) = Len(m) /\ \A j \in 1 .. p : msg[j] = m[j]
         /\ dst' = [dst EXCEPT ![d] = msg]
  BY <1>9, <1>10
<1> QED BY <1>6, <1>7, <1>9, <1>10, <1>12, <1>13, <1>14 DEF m, p

(* A chunk is received in the tunnel.                                      *)
LEMMA RecvPStream ==
  ASSUME IInv, Numbered, Stream, NEW d \in Parties, NEW buf, RecvP(d, buf)
  PROVE  Stream'
<1> DEFINE o == Other(d)
           n == Len(got[d])
           m == sent[o][n + 1]
           p == PlaceAfter(Len(m), rcvPlace[d])
<1>0. /\ Types /\ o \in Parties /\ o # d /\ Shape /\ Source(d) /\ Begins(d)
      /\ Told(o) /\ phase[d] = "tunnel" /\ TCPSockRecv(d, buf)
  BY StreamIs DEF IInv, RecvP
<1>1. /\ n + 1 \in DOMAIN sent[o]
      /\ m \in Seq(Unit) /\ p \in 1 .. Len(m)
      /\ up' = up /\ phase' = phase
      /\ inKey' = [inKey EXCEPT ![d] = naclRatchet(@)]
      /\ \E msg \in Seq(Unit) :
           /\ Len(msg) = Len(m) /\ \A j \in 1 .. p : msg[j] = m[j]
           /\ dst' = [dst EXCEPT ![d] = msg]
      /\ rcvPlace' = [rcvPlace EXCEPT ![d] = IF p = Len(m) THEN 0 ELSE p]
      /\ got' = IF p = Len(m) THEN [got EXCEPT ![d] = Append(@, m)] ELSE got
  BY RecvPIs
<1>2. /\ at' = at /\ src' = src /\ sndPlace' = sndPlace /\ sndBuff' = sndBuff
      /\ sndAt' = sndAt /\ used' = used /\ sent' = sent /\ fault' = fault
  BY DEF RecvP, sndVars
<1>3. /\ rcvPlace \in [Parties -> Nat] /\ dst \in [Parties -> Seq(Unit)]
      /\ got \in [Parties -> Seq(Seq(Unit))]
      /\ inKey \in [Parties -> Key]
  BY <1>0 DEF Shape, Types
<1>4. /\ Len(m) \in Nat /\ p \in Nat /\ p # 0 /\ n \in Nat
      /\ got[d] \in Seq(Seq(Unit))
  <2>1. got[d] \in Seq(Seq(Unit))
    BY <1>3
  <2>2. n \in Nat
    BY <2>1, LenProperties
  <2>3. Len(m) \in Nat
    BY <1>1, LenProperties
  <2> HIDE DEF p
  <2> QED BY <1>1, <2>1, <2>2, <2>3
<1> HIDE DEF m, p
<1>5. PICK msg \in Seq(Unit) :
        /\ Len(msg) = Len(m) /\ \A j \in 1 .. p : msg[j] = m[j]
        /\ dst' = [dst EXCEPT ![d] = msg]
  BY <1>1
<1>6. /\ rcvPlace' \in [Parties -> Nat] /\ dst' \in [Parties -> Seq(Unit)]
      /\ got' \in [Parties -> Seq(Seq(Unit))]
      /\ rcvPlace'[d] = (IF p = Len(m) THEN 0 ELSE p) /\ dst'[d] = msg
      /\ got'[d] = IF p = Len(m) THEN Append(got[d], m) ELSE got[d]
      /\ \A e \in Parties : e # d =>
           /\ rcvPlace'[e] = rcvPlace[e] /\ got'[e] = got[e]
           /\ dst'[e] = dst[e]
  <2>1. Append(got[d], m) \in Seq(Seq(Unit))
    BY <1>1, <1>4, AppendProperties
  <2>2. rcvPlace' \in [Parties -> Nat]
    BY <1>1, <1>3, <1>4
  <2>3. dst' \in [Parties -> Seq(Unit)]
    BY <1>3, <1>5
  <2>4. got' \in [Parties -> Seq(Seq(Unit))]
    <3>1. CASE p = Len(m)
      BY <1>1, <1>3, <2>1, <3>1
    <3>2. CASE p # Len(m)
      BY <1>1, <1>3, <3>2
    <3> QED BY <3>1, <3>2
  <2> QED BY <1>1, <1>3, <1>5, <2>2, <2>3, <2>4
<1>7. Len(got'[d]) = IF p = Len(m) THEN n + 1 ELSE n
  <2>1. Len(Append(got[d], m)) = n + 1
    BY <1>1, <1>4, AppendProperties
  <2> QED BY <1>6, <2>1
<1>8. Recvd(d)' = Recvd(d) + 1 /\ Recvd(d) \in Nat
  <2>1. inKey'[d] = naclRatchet(inKey[d]) /\ inKey[d] \in Key
    BY <1>1, <1>3
  <2>2. inKey'[d][2] = inKey[d][2] + 1 /\ inKey[d][2] \in Nat
    BY <2>1, Ratchets
  <2>3. Recvd(d) = inKey[d][2] + 1 /\ Recvd(d)' = inKey'[d][2] + 1
    BY <1>0, <1>1 DEF Recvd, Keyed
  <2> QED BY <2>2, <2>3
<1>9. First(o) \in Nat /\ Recvd(d) >= First(o) - 1
  BY <1>0 DEF Begins, First
<1>10. Wants(d)' = IF Recvd(d) + 1 < First(o) THEN Wants(d)
                   ELSE After(sent[o], Wants(d))
  <2>1. ~(Recvd(d) + 1 < First(o))
    BY <1>8, <1>9
  <2>2. Wants(d) = [msg |-> n + 1, from |-> rcvPlace[d]]
    BY DEF Wants
  <2>3. After(sent[o], Wants(d)) =
          IF p = Len(m) THEN [msg |-> n + 1 + 1, from |-> 0]
          ELSE [msg |-> n + 1, from |-> p]
    BY <2>2 DEF After, m, p
  <2>4. Wants(d)' = [msg |-> Len(got'[d]) + 1, from |-> rcvPlace'[d]]
    BY DEF Wants
  <2>5. CASE p = Len(m)
    BY <1>6, <1>7, <2>1, <2>3, <2>4, <2>5
  <2>6. CASE p # Len(m)
    BY <1>6, <1>7, <2>1, <2>3, <2>4, <2>6
  <2> QED BY <2>5, <2>6
<1>11. Source(d)'
  BY <1>0, <1>2 DEF Source
<1>12. Building(d)'
  <2> SUFFICES ASSUME rcvPlace'[d] # 0
               PROVE  /\ Len(got'[d]) + 1 \in DOMAIN sent[o]
                      /\ Len(dst'[d]) = Len(sent[o][Len(got'[d]) + 1])
                      /\ rcvPlace'[d] < Len(dst'[d])
                      /\ \A j \in 1 .. rcvPlace'[d] :
                           dst'[d][j] = sent[o][Len(got'[d]) + 1][j]
    BY <1>2 DEF Building
  <2>1. p # Len(m) /\ rcvPlace'[d] = p /\ Len(got'[d]) = n
    BY <1>6, <1>7
  <2>2. p < Len(m)
    BY <1>1, <1>4, <2>1
  <2> QED BY <1>1, <1>5, <1>6, <2>1, <2>2 DEF m
<1>13. Begins(d)'
  BY <1>0, <1>1, <1>2, <1>8, <1>9 DEF Begins
<1>14. \A e \in Parties : e # d =>
         /\ phase'[e] = phase[e] /\ inKey'[e] = inKey[e]
         /\ used'[e] = used[e] /\ sndBuff'[e] = sndBuff[e]
         /\ rcvPlace'[e] = rcvPlace[e] /\ got'[e] = got[e]
         /\ dst'[e] = dst[e]
  BY <1>1, <1>2, <1>3, <1>6
<1>15. phase[d] # "dead" /\ phase'[d] # "dead"
  BY <1>0, <1>1
<1>16. used'[d] = used[d] /\ sndBuff'[d] = sndBuff[d]
  BY <1>2
<1> QED BY <1>0, <1>1, <1>2, <1>6, <1>8, <1>10, <1>11, <1>12, <1>13,
          <1>14, <1>15, <1>16, ChunkOpensStream

(* Nothing changes but the loop the proxy is in.                           *)
LEMMA StreamSame ==
  ASSUME Stream, net' = net, up' = up, phase' = phase, inKey' = inKey,
         src' = src, sndPlace' = sndPlace, sndBuff' = sndBuff,
         sndAt' = sndAt, used' = used, rcvPlace' = rcvPlace,
         rcvBuff' = rcvBuff, dst' = dst, sent' = sent, got' = got,
         fault' = fault, at' \in {"client", "server"}
  PROVE  Stream'
<1>1. ASSUME NEW d \in Parties
      PROVE  Source(d)' /\ Building(d)' /\ Begins(d)' /\ Told(d)'
  <2>1. \A e \in Parties : Recvd(e)' = Recvd(e)
    BY DEF Recvd, Keyed
  <2>2. /\ Source(d) /\ Building(d) /\ Begins(d) /\ Told(d)
        /\ Other(d) \in Parties
    BY StreamIs
  <2>3. Source(d)' /\ Building(d)' /\ Begins(d)'
    BY <2>2, PartyKept, ExtendsSame
  <2>4. Told(d)'
    BY <2>1, <2>2, ToldKept
  <2> QED BY <2>3, <2>4
<1>2. Shape' /\ Broken'
  BY DEF Stream, Shape, Broken
<1> QED BY <1>1, <1>2 DEF Stream

(* The server calls TunnelSendP again: the message is begun, so nothing    *)
(* is made twice.                                                          *)
LEMMA ServerSendAgainStream ==
  ASSUME IInv, Stream, ServerSendAgain
  PROVE  Stream'
<1>1. sndPlace["server"] # 0
  <2>1. Stage("server") /\ src["server"] # None
    BY DEF IInv, Stages, Parties, ServerSendAgain
  <2> QED BY <2>1 DEF Stage
<1>2. Shape
  BY DEF Stream
<1> QED BY <1>1, <1>2, StreamSame
       DEF ServerSendAgain, netVars, keyVars, rcvVars, history, Shape

(* taskCB turns from one loop to the other, or nothing happens.            *)
LEMMA LoopsStream ==
  ASSUME Stream, Loops \/ UNCHANGED vars
  PROVE  Stream'
<1>1. Shape
  BY DEF Stream
<1> QED BY <1>1, StreamSame
       DEF Loops, ClientIdle, ServerIdle, netVars, keyVars, sndVars, rcvVars,
           history, vars, Shape

(* The connection breaks.                                                  *)
LEMMA CutStream ==
  ASSUME IInv, Stream, Cut
  PROVE  Stream'
<1>1. /\ up' = FALSE /\ fault' = TRUE /\ phase' = phase /\ at' = at
      /\ inKey' = inKey /\ src' = src /\ sndPlace' = sndPlace
      /\ sndBuff' = sndBuff /\ sndAt' = sndAt /\ used' = used
      /\ rcvPlace' = rcvPlace /\ rcvBuff' = rcvBuff /\ dst' = dst
      /\ sent' = sent /\ got' = got
  BY DEF Cut, keyVars, sndVars, rcvVars
<1>2. \A d \in Parties : net'[d] = net[d] \/ net'[d] = <<>>
  BY DEF Cut
<1>3. Types /\ Shape
  BY DEF IInv, Stream
<1>4. ASSUME NEW d \in Parties
      PROVE  Source(d)' /\ Building(d)' /\ Begins(d)' /\ Told(d)'
  <2>1. \A e \in Parties : Recvd(e)' = Recvd(e)
    BY <1>1 DEF Recvd, Keyed
  <2>2. /\ Source(d) /\ Building(d) /\ Begins(d) /\ Told(d)
        /\ Other(d) \in Parties
    BY StreamIs
  <2>3. Source(d)' /\ Building(d)' /\ Begins(d)'
    BY <1>1, <2>2, PartyKept, ExtendsSame
  <2>4. net'[d] = net[d] \/ net'[d] = <<>>
    BY <1>2
  <2>5. Told(d)'
    BY <1>1, <1>3, <2>1, <2>2, <2>4, ToldCut
  <2> QED BY <2>3, <2>5
<1>5. Shape'
  <2>1. ASSUME NEW d \in Parties
        PROVE  Len(net'[d]) <= SockCap
    <3>1. Len(<<>>) = 0 /\ 0 <= SockCap
      BY SessionAssumption
    <3> QED BY <1>2, <1>3, <3>1 DEF Shape
  <2> QED BY <1>1, <1>3, <2>1 DEF Shape
<1>6. Broken'
  BY <1>1 DEF Broken
<1> QED BY <1>4, <1>5, <1>6 DEF Stream

(* A program gives the connection up.                                      *)
LEMMA GiveUpStream ==
  ASSUME IInv, Stream, NEW d \in Parties, GiveUp(d)
  PROVE  Stream'
<1>1. /\ up' = FALSE /\ fault' = TRUE /\ at' = at
      /\ phase' = [phase EXCEPT ![d] = "dead"] /\ net' = net
      /\ inKey' = inKey /\ src' = src /\ sndPlace' = sndPlace
      /\ sndBuff' = sndBuff /\ sndAt' = sndAt /\ used' = used
      /\ rcvPlace' = rcvPlace /\ rcvBuff' = rcvBuff /\ dst' = dst
      /\ sent' = sent /\ got' = got
  BY DEF GiveUp, Die, keyVars, sndVars, rcvVars
<1>2. Types /\ Shape
  BY DEF IInv, Stream
<1>3. /\ phase'[d] = "dead"
      /\ \A e \in Parties : e # d => phase'[e] = phase[e]
  BY <1>1, <1>2 DEF Types
<1>4. ASSUME NEW e \in Parties
      PROVE  Source(e)' /\ Building(e)' /\ Begins(e)' /\ Told(e)'
  <2>1. /\ Source(e) /\ Building(e) /\ Begins(e) /\ Told(e)
        /\ Other(e) \in Parties
    BY StreamIs
  <2>2. Source(e)' /\ Building(e)'
    BY <1>1, <2>1 DEF Source, Building
  <2>3. Begins(e)'
    <3>1. phase'[e] = phase[e] => Recvd(e)' = Recvd(e)
      BY <1>1 DEF Recvd, Keyed
    <3>2. phase'[e] = phase[e] \/ phase'[e] = "dead"
      BY <1>3
    <3> QED BY <1>1, <2>1, <3>1, <3>2 DEF Begins
  <2>4. phase'[Other(e)] # "dead" =>
          phase[Other(e)] # "dead" /\ Recvd(Other(e))' = Recvd(Other(e))
    BY <1>1, <1>3, <2>1 DEF Recvd, Keyed
  <2>5. Told(e)'
    BY <1>1, <1>2, <2>1, <2>4, ToldCut
  <2> QED BY <2>2, <2>3, <2>5
<1>5. Shape'
  BY <1>1, <1>2 DEF Shape
<1>6. Broken'
  BY <1>1 DEF Broken
<1> QED BY <1>4, <1>5, <1>6 DEF Stream

(* The hello fails only when the connection is broken: nothing was sent    *)
(* before it that could fill the network, and make its send time out.      *)
LEMMA HelloFails ==
  ASSUME IInv, Stream, HelloNotSent
  PROVE  ~up
<1> DEFINE d == "proxy"
           r == Recvd("server")
<1>0. /\ d \in Parties /\ "server" \in Parties /\ Other(d) = "server"
      /\ Types /\ Stage(d)
  BY Others DEF IInv, Stages, Parties
<1> SUFFICES ASSUME up
             PROVE  FALSE
  OBVIOUS
<1>1. /\ phase[d] = "sendHello" /\ sndBuff[d] # None
      /\ Len(net[d]) = SockCap /\ sndAt[d] = 0
  BY DEF HelloNotSent, TimesOut, Closed, Returns
<1>2. Len(used[d]) = 1
  BY <1>0, <1>1 DEF Stage
<1>3. phase["server"] # "dead" /\ Told(d)
  BY <1>0 DEF Stream, Broken
<1>4. Len(Flow(d)) = (1 - r) * Parts
  BY <1>0, <1>2, <1>3 DEF Told, Story
<1>5. Len(Flow(d)) > Parts
  <2>1. Len(Rest(d)) = Parts - 0 /\ Rest(d) \in Seq(Piece)
    <3>1. Rest(d) = [i \in 1 .. Parts - 0 |-> <<sndBuff[d], 0 + i>>]
      BY <1>1 DEF Rest
    <3>2. Parts - 0 \in Nat
      BY PartsArithmetic
    <3>3. Rest(d) \in Seq(Piece)
      BY <1>0, Flows
    <3> QED BY <3>1, <3>2, <3>3
  <2>2. /\ net[d] \in Seq(Piece) /\ rcvBuff[Other(d)] \in Seq(Piece)
        /\ net[d] \o Rest(d) \in Seq(Piece)
    BY <1>0, Flows
  <2>3. Len(net[d] \o Rest(d)) = Len(net[d]) + Len(Rest(d))
    BY <2>1, <2>2, ConcatProperties
  <2>4. Len(Flow(d)) = Len(rcvBuff[Other(d)]) + Len(net[d] \o Rest(d))
    BY <2>2, ConcatProperties DEF Flow
  <2>5. Len(rcvBuff[Other(d)]) \in Nat
    BY <2>2, LenProperties
  <2>6. Parts \in Nat /\ SockCap \in Nat /\ SockCap >= 1
    BY PartsArithmetic, SessionAssumption
  <2>7. Len(net[d]) = SockCap
    BY <1>1
  <2>8. Len(Rest(d)) = Parts
    BY <2>1, <2>6
  <2> DEFINE a == Len(rcvBuff[Other(d)])
             b == Len(net[d] \o Rest(d))
  <2>9. a \in Nat /\ b = SockCap + Parts /\ Len(Flow(d)) = a + b
    BY <2>3, <2>4, <2>5, <2>7, <2>8
  <2> HIDE DEF a, b
  <2> QED BY <2>6, <2>9
<1>6. (1 - r) * Parts <= Parts
  <2>1. r \in Nat /\ Parts \in Nat
    BY <1>0, Measures, PartsArithmetic
  <2>2. r * Parts >= 0 /\ (1 - r) * Parts = Parts - r * Parts
    BY <2>1
  <2> QED BY <2>1, <2>2
<1>7. Len(Flow(d)) \in Nat
  <2>1. Flow(d) \in Seq(Piece)
    BY <1>0, Flows
  <2> QED BY <2>1, LenProperties
<1> HIDE DEF r
<1> QED BY <1>4, <1>5, <1>6, <1>7, PartsArithmetic

(* performHandshake goes on without having sent the hello: the             *)
(* connection is broken already.                                           *)
LEMMA HelloNotSentStream ==
  ASSUME IInv, Stream, HelloNotSent
  PROVE  Stream'
<1> DEFINE d == "proxy"
           o == "server"
<1>0. /\ d \in Parties /\ o \in Parties /\ Other(d) = o /\ Other(o) = d
      /\ Types /\ Stage(d) /\ ~up
  BY Others, HelloFails DEF IInv, Stages, Parties
<1>1. /\ phase[d] = "sendHello" /\ fault' = TRUE
      /\ phase' = [phase EXCEPT ![d] = "answer"]
      /\ sndBuff' = [sndBuff EXCEPT ![d] = None]
      /\ sndAt' = [sndAt EXCEPT ![d] = 0]
      /\ net' = net /\ up' = up /\ at' = at /\ inKey' = inKey /\ src' = src
      /\ sndPlace' = sndPlace /\ used' = used /\ rcvPlace' = rcvPlace
      /\ rcvBuff' = rcvBuff /\ dst' = dst /\ sent' = sent /\ got' = got
  BY DEF HelloNotSent, netVars, keyVars, rcvVars
<1>2. /\ phase'[d] = "answer" /\ phase'[o] = phase[o]
      /\ sndBuff'[o] = sndBuff[o] /\ sndAt'[o] = sndAt[o]
  BY <1>0, <1>1 DEF Types
<1>3. src[d] = None
  BY <1>0, <1>1 DEF Stage
<1>4. /\ Shape /\ Told(d) /\ Told(o) /\ Building(d)
      /\ Source(o) /\ Building(o) /\ Begins(o)
  BY <1>0, StreamIs
<1>5. Source(d)' /\ Building(d)' /\ Begins(d)' /\ Recvd(d)' = Recvd(d)
  BY <1>1, <1>2, <1>3, <1>4 DEF Source, Building, Begins, Recvd, Keyed
<1>6. Source(o)' /\ Building(o)' /\ Begins(o)' /\ Recvd(o)' = Recvd(o)
  BY <1>0, <1>1, <1>2, <1>4, PartyKept, ExtendsSame
<1>7. Told(d)'
  <2>1. Flow(d)' = Flow(d)
    BY <1>0, <1>1 DEF Flow, Rest
  <2>2. Wants(o)' = Wants(o) /\ Makes(d)' = Makes(d)
    BY <1>1, <1>3 DEF Wants, Makes
  <2> QED BY <1>0, <1>1, <1>2, <1>4, <1>6, <2>1, <2>2, ToldSame
<1>8. Told(o)'
  BY <1>0, <1>1, <1>2, <1>4, <1>5, ToldKept
<1>9. Shape' /\ Broken'
  BY <1>0, <1>1, <1>2, <1>4 DEF Shape, Broken
<1> HIDE DEF d, o
<1> QED BY <1>0, <1>5, <1>6, <1>7, <1>8, <1>9, StreamOf

(* At first nothing is on the way.                                         *)
LEMMA StreamInit ==
  ASSUME Init
  PROVE  Stream
<1>0. /\ net = [d \in Parties |-> <<>>] /\ up = TRUE /\ at = "client"
      /\ phase = [proxy |-> "start", server |-> "hello"]
      /\ src = [d \in Parties |-> None] /\ sndBuff = src
      /\ rcvPlace = [d \in Parties |-> 0]
      /\ rcvBuff = [d \in Parties |-> <<>>]
      /\ dst = rcvBuff /\ used = rcvBuff /\ sent = rcvBuff /\ got = rcvBuff
  BY DEF Init
<1>1. /\ \A d \in Parties : phase[d] \in {"start", "hello"}
      /\ Len(<<>>) = 0 /\ DOMAIN <<>> = {}
  BY <1>0 DEF Parties
<1>2. Shape
  <2>1. <<>> \in Seq(Unit) /\ <<>> \in Seq(Seq(Unit))
    OBVIOUS
  <2>2. 0 <= SockCap /\ 0 < Parts
    BY PartsArithmetic, SessionAssumption
  <2> HIDE DEF Unit
  <2> QED BY <1>0, <1>1, <2>1, <2>2 DEF Shape
<1>3. Broken
  BY <1>0, <1>1 DEF Broken
<1>4. ASSUME NEW d \in Parties
      PROVE  Source(d) /\ Building(d) /\ Begins(d)
  BY <1>0, <1>1 DEF Source, Building, Begins
<1>5. ASSUME NEW d \in Parties
      PROVE  Told(d)
  <2>0. Other(d) \in Parties
    BY Others
  <2>1. Flow(d) = <<>>
    <3>1. Rest(d) = <<>> /\ net[d] = <<>> /\ rcvBuff[Other(d)] = <<>>
      BY <1>0, <2>0 DEF Rest
    <3>2. <<>> \o <<>> = <<>>
      OBVIOUS
    <3> QED BY <3>1, <3>2 DEF Flow
  <2>2. Recvd(Other(d)) = 0 /\ Len(used[d]) = 0
    BY <1>0, <1>1, <2>0 DEF Recvd, Keyed
  <2>3. Wants(Other(d)) = [msg |-> 1, from |-> 0]
    BY <1>0, <1>1, <2>0 DEF Wants
  <2>4. Makes(d) = [msg |-> 1, from |-> 0]
    BY <1>0, <1>1 DEF Makes
  <2>5. Ordered(d, <<>>, 0, 0)
    BY <1>1 DEF Ordered
  <2>6. Chained(d, <<>>, 0, sent[d], Wants(Other(d)))
    BY <1>1 DEF Chained
  <2>7. Joined(d, <<>>, 0, 0, sent[d], Wants(Other(d)), Makes(d))
    BY <1>1, <2>3, <2>4 DEF Joined
  <2>8. Len(<<>>) = (0 - 0) * Parts
    BY PartsArithmetic
  <2> QED BY <2>1, <2>2, <2>5, <2>6, <2>7, <2>8 DEF Told, Story
<1> QED BY <1>2, <1>3, <1>4, <1>5 DEF Stream

(* Every step of the two programs, and of what comes from outside.         *)
LEMMA StreamStep ==
  ASSUME NoEmptyMessage, IInv, Numbered, Stream, Undisturbed, [Next]_vars
  PROVE  Stream'
<1>1. ASSUME NEW d \in Parties, Sends(d)
      PROVE  Stream'
  <2>1. CASE TCPSockSendPart(d)
    BY <2>1, SendPartStream
  <2>2. CASE SendP(d)
    BY <2>2, SendPStream
  <2>3. CASE ClientStart
    BY <2>3, ClientStartStream
  <2>4. CASE HelloSent
    BY <2>4, HelloSentStream
  <2>5. CASE HelloNotSent
    BY <2>5, HelloNotSentStream
  <2>6. CASE LoginSent
    BY <2>6, LoginSentStream
  <2>7. CASE AnswerSent
    BY <2>7, AnswerSentStream
  <2>8. CASE ServerSendAgain
    BY <2>8, ServerSendAgainStream
  <2> QED BY <1>1, <2>1, <2>2, <2>3, <2>4, <2>5, <2>6, <2>7, <2>8 DEF Sends
<1>2. ASSUME NEW d \in Parties, Receives(d)
      PROVE  Stream'
  <2>1. CASE TCPSockRecvPart(d)
    BY <2>1, RecvPartStream
  <2>2. CASE RecvP(d, Complete(d))
    BY <2>2, RecvPStream
  <2>3. CASE AnswerReceived(Complete(d))
    BY <2>3, AnswerReceivedStream
  <2>4. CASE HelloReceived(Complete(d))
    BY <2>4, HelloReceivedStream
  <2>5. CASE LoginReceived(Complete(d))
    BY <2>5, LoginReceivedStream
  <2> QED BY <1>2, <2>1, <2>2, <2>3, <2>4, <2>5 DEF Receives
<1>3. ASSUME NEW d \in Parties, GiveUp(d)
      PROVE  Stream'
  BY <1>3, GiveUpStream
<1>4. CASE Loops \/ UNCHANGED vars
  BY <1>4, LoopsStream
<1>5. CASE ServerSend
  BY <1>5, ServerSendStream
<1>6. CASE readFromClientCB
  BY <1>6, ReadFromClientStream
<1>7. CASE Cut
  BY <1>7, CutStream
<1> QED BY <1>1, <1>2, <1>3, <1>4, <1>5, <1>6, <1>7 DEF Next

(* What the invariants say of the run's property.                          *)
LEMMA StreamKeysInStep ==
  ASSUME IInv, Stream, SameKeys
  PROVE  KeysInStep
<1>0. Types /\ Shape /\ Broken
  BY DEF IInv, Stream
<1>1. ASSUME NEW d \in Parties
      PROVE  /\ phase[d] \in Phases /\ sndAt[d] \in 0 .. Parts - 1
             /\ src[d] # None =>
                  sndBuff[d] # None /\ sndPlace[d] \in 0 .. Len(src[d])
             /\ sndAt[d] # 0 => sndBuff[d] # None
             /\ rcvPlace[d] # 0 => rcvPlace[d] < Len(dst[d])
  <2>1. Stage(d) /\ Source(d) /\ Building(d)
    BY DEF IInv, Stages, Stream
  <2>2. phase[d] \in Phases /\ sndAt[d] \in 0 .. Parts - 1
    BY <1>0 DEF Types
  <2>3. src[d] # None => sndBuff[d] # None /\ sndPlace[d] \in 0 .. Len(src[d])
    <3> SUFFICES ASSUME src[d] # None
                 PROVE  sndPlace[d] \in 0 .. Len(src[d])
      BY <2>1 DEF Source
    <3>1. src[d] \in Seq(Unit) /\ sndPlace[d] \in Nat
      BY <1>0 DEF Types
    <3>2. Len(src[d]) \in Nat /\ sndPlace[d] <= Len(src[d])
      BY <2>1, <3>1, LenProperties DEF Source
    <3> QED BY <3>1, <3>2
  <2> QED BY <2>1, <2>2, <2>3 DEF Stage, Building
<1>2. TypeOK
  BY <1>0, <1>1 DEF TypeOK, Shape, Types
<1>3. NoFailure
  BY <1>0 DEF NoFailure, Broken
<1> QED BY <1>2, <1>3 DEF KeysInStep

(* Each way: what the session does with a step of the two programs.        *)
LEMMA Given ==
  ASSUME Numbered, NEW d \in Parties, NEW len \in Lens[d],
         Len(sent[d]) < MaxMsgs[d], got' = got,
         sent' = [sent EXCEPT
                    ![d] = Append(@, Message(d, Len(sent[d]) + 1, len))]
  PROVE  D!Next
<1>1. Len(sent[d]) \in Nat /\ MaxMsgs[d] \in Nat
  BY SessionAssumption, LenProperties DEF Numbered
<1>2. Len(sent[d]) + 1 \in 1 .. MaxMsgs[d]
  BY <1>1
<1>3. Message(d, Len(sent[d]) + 1, len) \in
        UNION {{Message(e, i, n) : i \in 1 .. MaxMsgs[e], n \in Lens[e]}
                 : e \in Parties}
  BY <1>2
<1>4. D!Give(d, Message(d, Len(sent[d]) + 1, len))
  BY DEF D!Give
<1> QED BY <1>3, <1>4 DEF D!Next

(* RecvP hands over the next of the messages given, or nothing.            *)
LEMMA Handed ==
  ASSUME IInv, Numbered, Stream, NEW d \in Parties, NEW buf, RecvP(d, buf)
  PROVE  D!Next \/ UNCHANGED <<sent, got>>
<1> DEFINE o == Other(d)
           n == Len(got[d])
           m == sent[o][n + 1]
           p == PlaceAfter(Len(m), rcvPlace[d])
<1>1. o \in Parties /\ o # d /\ got \in [Parties -> Seq(Seq(Unit))]
  BY Others DEF Stream, Shape
<1>2. /\ n + 1 \in DOMAIN sent[o]
      /\ got' = IF p = Len(m) THEN [got EXCEPT ![d] = Append(@, m)] ELSE got
  BY RecvPIs
<1>3. sent' = sent
  BY DEF RecvP
<1>4. n < Len(sent[o])
  <2>1. sent[o] \in Seq(Seq(Unit)) /\ got[d] \in Seq(Seq(Unit))
    BY <1>1 DEF Numbered
  <2>2. Len(sent[o]) \in Nat /\ DOMAIN sent[o] = 1 .. Len(sent[o])
        /\ n \in Nat
    BY <2>1, LenProperties
  <2> HIDE DEF n
  <2> QED BY <1>2, <2>2
<1>5. CASE p = Len(m)
  <2>1. got' = [got EXCEPT ![d] = Append(@, sent[o][Len(@) + 1])]
    BY <1>1, <1>2, <1>5
  <2>2. D!Hand(o, d)
    BY <1>3, <1>4, <2>1 DEF D!Hand
  <2> QED BY <1>1, <2>2 DEF D!Next
<1>6. CASE p # Len(m)
  BY <1>2, <1>3, <1>6
<1> QED BY <1>5, <1>6

(* A step of the session is one of Duplex, or leaves it alone.             *)
LEMMA DuplexStep ==
  ASSUME IInv, Numbered, Stream, [Next]_vars
  PROVE  D!Next \/ UNCHANGED <<sent, got>>
<1>1. ASSUME NEW d \in Parties, Sends(d)
      PROVE  UNCHANGED <<sent, got>>
  <2>1. CASE TCPSockSendPart(d) \/ SendP(d)
    BY <2>1 DEF TCPSockSendPart, SendP, history
  <2>2. CASE ClientStart \/ HelloSent \/ HelloNotSent \/ LoginSent
    BY <2>2 DEF ClientStart, HelloSent, HelloNotSent, LoginSent, history
  <2>3. CASE AnswerSent \/ ServerSendAgain
    BY <2>3 DEF AnswerSent, ServerSendAgain, history
  <2> QED BY <1>1, <2>1, <2>2, <2>3 DEF Sends
<1>2. ASSUME NEW d \in Parties, Receives(d)
      PROVE  D!Next \/ UNCHANGED <<sent, got>>
  <2>1. CASE TCPSockRecvPart(d)
    BY <2>1 DEF TCPSockRecvPart, history
  <2>2. CASE RecvP(d, Complete(d))
    BY <2>2, Handed
  <2>3. CASE AnswerReceived(Complete(d))
    BY <2>3 DEF AnswerReceived, history
  <2>4. CASE HelloReceived(Complete(d)) \/ LoginReceived(Complete(d))
    BY <2>4 DEF HelloReceived, LoginReceived, history
  <2> QED BY <1>2, <2>1, <2>2, <2>3, <2>4 DEF Receives
<1>3. ASSUME NEW d \in Parties, GiveUp(d)
      PROVE  UNCHANGED <<sent, got>>
  BY <1>3 DEF GiveUp
<1>4. CASE Loops
  BY <1>4 DEF Loops, ClientIdle, ServerIdle, history
<1>5. CASE ServerSend
  <2>1. PICK len \in Lens["server"] :
          sent' =
            [sent EXCEPT !["server"] =
               Append(@, Message("server", Len(sent["server"]) + 1, len))]
    BY <1>5 DEF ServerSend
  <2>2. /\ Len(sent["server"]) < MaxMsgs["server"] /\ got' = got
        /\ "server" \in Parties
    BY <1>5 DEF ServerSend, Parties
  <2> QED BY <2>1, <2>2, Given
<1>6. CASE readFromClientCB
  <2>1. PICK len \in Lens["proxy"] :
          sent' =
            [sent EXCEPT !["proxy"] =
               Append(@, Message("proxy", Len(sent["proxy"]) + 1, len))]
    BY <1>6 DEF readFromClientCB
  <2>2. /\ Len(sent["proxy"]) < MaxMsgs["proxy"] /\ got' = got
        /\ "proxy" \in Parties
    BY <1>6 DEF readFromClientCB, Parties
  <2> QED BY <2>1, <2>2, Given
<1>7. CASE Cut
  BY <1>7 DEF Cut
<1>8. CASE UNCHANGED vars
  BY <1>8 DEF vars, history
<1> QED BY <1>1, <1>2, <1>3, <1>4, <1>5, <1>6, <1>7, <1>8 DEF Next

(* What is handed over, so far, is the beginning of what was given.        *)
HadAsSent ==
  /\ got \in [Parties -> Seq(Seq(Unit))]
  /\ \A o \in Parties :
       /\ Len(got[o]) <= Len(sent[Other(o)])
       /\ \A i \in 1 .. Len(got[o]) : got[o][i] = sent[Other(o)][i]

(* Every step of Duplex keeps to the order of the messages given.          *)
LEMMA HadAsSentStep ==
  ASSUME Numbered, HadAsSent, D!Next \/ UNCHANGED <<sent, got>>
  PROVE  HadAsSent'
<1>0. /\ got \in [Parties -> Seq(Seq(Unit))]
      /\ sent \in [Parties -> Seq(Seq(Unit))]
  BY DEF HadAsSent, Numbered
<1>1. ASSUME NEW o \in Parties
      PROVE  /\ Other(o) \in Parties /\ Other(o) # o
             /\ \A e \in Parties : e = o \/ e = Other(o)
             /\ got[o] \in Seq(Seq(Unit)) /\ Len(got[o]) \in Nat
             /\ sent[Other(o)] \in Seq(Seq(Unit))
             /\ Len(sent[Other(o)]) \in Nat
             /\ Len(got[o]) <= Len(sent[Other(o)])
             /\ \A i \in 1 .. Len(got[o]) : got[o][i] = sent[Other(o)][i]
  <2>1. Other(o) \in Parties /\ Other(o) # o
        /\ \A e \in Parties : e = o \/ e = Other(o)
    BY Others DEF Parties
  <2>2. got[o] \in Seq(Seq(Unit)) /\ sent[Other(o)] \in Seq(Seq(Unit))
    BY <1>0, <2>1
  <2> QED BY <2>1, <2>2, LenProperties DEF HadAsSent
<1>2. CASE UNCHANGED <<sent, got>>
  BY <1>2 DEF HadAsSent
<1>3. ASSUME NEW e \in Parties, NEW m, D!Give(e, m)
      PROVE  HadAsSent'
  <2>1. got' = got /\ sent' = [sent EXCEPT ![e] = Append(@, m)]
    BY <1>3 DEF D!Give
  <2> SUFFICES ASSUME NEW o \in Parties
               PROVE  /\ Len(got[o]) <= Len(sent'[Other(o)])
                      /\ \A i \in 1 .. Len(got[o]) :
                           got[o][i] = sent'[Other(o)][i]
    BY <1>0, <2>1 DEF HadAsSent
  <2> DEFINE d == Other(o)
  <2>2. sent'[d] = sent[d] \/ sent'[d] = Append(sent[d], m)
    BY <1>0, <1>1, <2>1
  <2>3. Len(Append(sent[d], m)) = Len(sent[d]) + 1
        /\ \A i \in 1 .. Len(sent[d]) : Append(sent[d], m)[i] = sent[d][i]
    BY <1>1
  <2>4. /\ Len(got[o]) \in Nat /\ Len(sent[d]) \in Nat
        /\ Len(got[o]) <= Len(sent[d])
        /\ \A i \in 1 .. Len(got[o]) : got[o][i] = sent[d][i]
    BY <1>1
  <2> HIDE DEF d
  <2>5. CASE sent'[d] = sent[d]
    BY <2>4, <2>5 DEF d
  <2>6. CASE sent'[d] = Append(sent[d], m)
    BY <2>3, <2>4, <2>6 DEF d
  <2> QED BY <2>2, <2>5, <2>6
<1>4. ASSUME NEW e \in Parties, NEW f \in Parties, e # f, D!Hand(e, f)
      PROVE  HadAsSent'
  <2> DEFINE m == sent[e][Len(got[f]) + 1]
  <2>1. /\ Len(got[f]) < Len(sent[e]) /\ sent' = sent
        /\ got' = [got EXCEPT ![f] = Append(@, m)]
    BY <1>4 DEF D!Hand
  <2>2. Other(f) = e
    BY <1>1, <1>4
  <2>3. m \in Seq(Unit)
    <3>1. /\ sent[e] \in Seq(Seq(Unit)) /\ Len(got[f]) \in Nat
          /\ Len(sent[e]) \in Nat
      BY <1>1, <2>2
    <3> QED BY <2>1, <3>1, ElementOfSeq
  <2>4. Append(got[f], m) \in Seq(Seq(Unit))
        /\ Len(Append(got[f], m)) = Len(got[f]) + 1
        /\ \A i \in 1 .. Len(got[f]) + 1 : Append(got[f], m)[i] =
             IF i <= Len(got[f]) THEN got[f][i] ELSE m
    <3>1. got[f] \in Seq(Seq(Unit))
      BY <1>1
    <3> HIDE DEF m
    <3> QED BY <2>3, <3>1, AppendProperties
  <2>5. got' \in [Parties -> Seq(Seq(Unit))]
    <3> HIDE DEF m
    <3> QED BY <1>0, <2>1, <2>4
  <2> SUFFICES ASSUME NEW o \in Parties
               PROVE  /\ Len(got'[o]) <= Len(sent[Other(o)])
                      /\ \A i \in 1 .. Len(got'[o]) :
                           got'[o][i] = sent[Other(o)][i]
    BY <2>1, <2>5 DEF HadAsSent
  <2>6. CASE o # f
    <3>1. got'[o] = got[o]
      BY <1>0, <2>1, <2>6
    <3> QED BY <1>1, <3>1
  <2>7. CASE o = f
    <3>1. got'[f] = Append(got[f], m)
      BY <1>0, <2>1
    <3>2. /\ Len(got[f]) \in Nat /\ Len(sent[e]) \in Nat
          /\ \A i \in 1 .. Len(got[f]) : got[f][i] = sent[e][i]
      BY <1>1, <2>2
    <3>3. \A i \in 1 .. Len(got[f]) + 1 :
            i <= Len(got[f]) \/ i = Len(got[f]) + 1
      BY <3>2
    <3> QED BY <2>1, <2>2, <2>4, <2>7, <3>1, <3>2, <3>3
  <2> QED BY <2>6, <2>7
<1> QED BY <1>2, <1>3, <1>4 DEF D!Next

(* So that the chat client has the first of the server's messages.         *)
LEMMA HadAsSentPrefix ==
  ASSUME Numbered, HadAsSent
  PROVE  DeliversAsSent
<1> DEFINE s == got["proxy"]
           t == sent["server"]
<1>1. "proxy" \in Parties /\ "server" \in Parties /\ Other("proxy") = "server"
  BY Others DEF Parties
<1>2. s \in Seq(Seq(Unit)) /\ t \in Seq(Seq(Unit)) /\ Len(s) <= Len(t)
      /\ \A i \in 1 .. Len(s) : s[i] = t[i]
  BY <1>1 DEF HadAsSent, Numbered
<1> HIDE DEF s, t
<1>3. Len(s) \in Nat /\ Len(t) \in Nat
  BY <1>2, LenProperties
<1>4. SubSeq(s, 1, Len(s)) = SubSeq(t, 1, Len(s))
  <2>1. SubSeq(s, 1, Len(s)) = [i \in 1 .. Len(s) |-> s[i]]
    BY <1>2, <1>3
  <2>2. SubSeq(t, 1, Len(s)) = [i \in 1 .. Len(s) |-> t[i]]
    BY <1>2, <1>3
  <2> QED BY <1>2, <2>1, <2>2
<1> QED BY <1>2, <1>4 DEF DeliversAsSent, IsPrefix, s, t

(* A session whose ws2 is left alone while a message is put together in it *)
(* (Undisturbed: the second loop of taskCB never ends in the middle of a   *)
(* message of the server): the invariants hold throughout.                 *)
THEOREM UndisturbedInvariance ==
  ASSUME NoEmptyMessage
  PROVE  Spec /\ []Undisturbed => [](IInv /\ Numbered /\ Stream /\ HadAsSent)
<1>1. Init => Stream /\ HadAsSent
  <2>1. Init => HadAsSent
    <3> SUFFICES ASSUME Init
                 PROVE  HadAsSent
      OBVIOUS
    <3>1. /\ got = [d \in Parties |-> <<>>] /\ sent = [d \in Parties |-> <<>>]
      BY DEF Init
    <3>2. <<>> \in Seq(Seq(Unit)) /\ Len(<<>>) = 0
          /\ \A o \in Parties : Other(o) \in Parties
      BY Others
    <3> HIDE DEF Unit
    <3> QED BY <3>1, <3>2 DEF HadAsSent
  <2> QED BY <2>1, StreamInit
<1>2. /\ IInv /\ Numbered /\ Stream /\ HadAsSent /\ Undisturbed /\ [Next]_vars
      => Stream' /\ HadAsSent'
  BY StreamStep, DuplexStep, HadAsSentStep
<1> QED BY <1>1, <1>2, Invariance, PTL DEF Spec

(* Then the keys are in step: every chunk opens, and nobody gives up a     *)
(* connection that did not break ...                                       *)
THEOREM UndisturbedKeys ==
  ASSUME NoEmptyMessage
  PROVE  Spec /\ []Undisturbed => []KeysInStep
BY UndisturbedInvariance, KeysMeet, StreamKeysInStep, PTL

(* ... each way the messages are handed over whole, once and in order ...  *)
THEOREM UndisturbedDuplex ==
  ASSUME NoEmptyMessage
  PROVE  Spec /\ []Undisturbed => ImplementsDuplex
<1>1. Init => D!Init
  BY DEF Init, D!Init
<1>2. IInv /\ Numbered /\ Stream /\ [Next]_vars => [D!Next]_(D!vars)
  BY DuplexStep DEF D!vars
<1> QED BY <1>1, <1>2, UndisturbedInvariance, PTL
        DEF Spec, ImplementsDuplex, D!Spec

(* ... and the chat client has what the server sent.                       *)
THEOREM UndisturbedDelivery ==
  ASSUME NoEmptyMessage
  PROVE  Spec /\ []Undisturbed => []DeliversAsSent
BY UndisturbedInvariance, HadAsSentPrefix, PTL

(* Messages of the server that fit in one chunk are never put together in  *)
(* parts.                                                                  *)
ShortMessages == Lens["server"] \subseteq 1 .. Chunk - 1
Brief ==
  /\ rcvPlace["proxy"] = 0
  /\ \A i \in DOMAIN sent["server"] : Len(sent["server"][i]) < Chunk

(* A message that fits in one chunk is whole with it: the proxy never      *)
(* waits for the rest of one.                                              *)
LEMMA BriefStep ==
  ASSUME ShortMessages, IInv, Numbered, Stream, Brief, [Next]_vars
  PROVE  Brief'
<1>0. /\ "proxy" \in Parties /\ "server" \in Parties
      /\ Other("proxy") = "server" /\ Other("server") = "proxy"
      /\ rcvPlace \in [Parties -> Nat] /\ sent["server"] \in Seq(Seq(Unit))
      /\ sent \in [Parties -> Seq(Seq(Unit))]
  BY Others DEF Parties, Stream, Shape, Numbered
<1>1. CASE UNCHANGED <<rcvPlace, sent>>
  BY <1>1 DEF Brief
<1>2. ASSUME NEW d \in Parties, Sends(d)
      PROVE  UNCHANGED <<rcvPlace, sent>>
  <2>1. CASE TCPSockSendPart(d) \/ SendP(d)
    BY <2>1 DEF TCPSockSendPart, SendP, rcvVars, history
  <2>2. CASE ClientStart \/ HelloSent \/ HelloNotSent \/ LoginSent
    BY <2>2 DEF ClientStart, HelloSent, HelloNotSent, LoginSent, rcvVars,
       history
  <2>3. CASE AnswerSent \/ ServerSendAgain
    BY <2>3 DEF AnswerSent, ServerSendAgain, rcvVars, history
  <2> QED BY <1>2, <2>1, <2>2, <2>3 DEF Sends
<1>3. ASSUME NEW d \in Parties, RecvP(d, Complete(d))
      PROVE  Brief'
  <2> DEFINE m == sent[Other(d)][Len(got[d]) + 1]
             p == PlaceAfter(Len(m), rcvPlace[d])
  <2>1. /\ Len(got[d]) + 1 \in DOMAIN sent[Other(d)] /\ m \in Seq(Unit)
        /\ rcvPlace' = [rcvPlace EXCEPT ![d] = IF p = Len(m) THEN 0 ELSE p]
    BY <1>3, RecvPIs
  <2>2. sent' = sent
    BY <1>3 DEF RecvP
  <2>3. CASE d # "proxy"
    BY <1>0, <2>1, <2>2, <2>3 DEF Brief
  <2>4. CASE d = "proxy"
    <3>1. Len(m) \in Nat /\ Len(m) < Chunk /\ rcvPlace[d] = 0
      BY <1>0, <2>1, <2>4, LenProperties DEF Brief
    <3> HIDE DEF m
    <3>2. p = Len(m)
      BY <3>1, SessionAssumption DEF PlaceAfter, Least
    <3>3. rcvPlace'["proxy"] = 0
      BY <1>0, <2>1, <2>4, <3>2
    <3> QED BY <2>2, <3>3 DEF Brief
  <2> QED BY <2>3, <2>4
<1>4. ASSUME NEW d \in Parties, Receives(d)
      PROVE  Brief'
  <2>1. CASE TCPSockRecvPart(d)
    BY <1>1, <2>1 DEF TCPSockRecvPart, history
  <2>2. CASE AnswerReceived(Complete(d))
    BY <1>1, <2>2 DEF AnswerReceived, history
  <2>3. CASE HelloReceived(Complete(d)) \/ LoginReceived(Complete(d))
    BY <1>1, <2>3 DEF HelloReceived, LoginReceived, history
  <2> QED BY <1>3, <1>4, <2>1, <2>2, <2>3 DEF Receives
<1>5. CASE Loops \/ Cut \/ (\E d \in Parties : GiveUp(d)) \/ UNCHANGED vars
  BY <1>1, <1>5 DEF Loops, ClientIdle, ServerIdle, Cut, GiveUp, rcvVars,
     history, vars
<1>6. CASE ServerSend
  <2>1. PICK len \in Lens["server"] :
          sent' =
            [sent EXCEPT !["server"] =
               Append(@, Message("server", Len(sent["server"]) + 1, len))]
    BY <1>6 DEF ServerSend
  <2> DEFINE m == Message("server", Len(sent["server"]) + 1, len)
  <2>2. len \in Nat /\ len # 0 /\ len < Chunk
    BY SessionAssumption DEF ShortMessages
  <2>3. Len(m) = len
    BY <1>0, <2>2, MessageIs
  <2>4. sent'["server"] = Append(sent["server"], m)
    BY <1>0, <2>1
  <2>5. rcvPlace' = rcvPlace
    BY <1>6 DEF ServerSend, rcvVars
  <2> HIDE DEF m
  <2> QED BY <1>0, <2>2, <2>3, <2>4, <2>5 DEF Brief
<1>7. CASE readFromClientCB
  <2>1. rcvPlace' = rcvPlace
    BY <1>7 DEF readFromClientCB
  <2>2. \E m : sent' = [sent EXCEPT !["proxy"] = Append(@, m)]
    BY <1>7 DEF readFromClientCB
  <2>3. sent'["server"] = sent["server"]
    BY <1>0, <2>2
  <2> QED BY <2>1, <2>3 DEF Brief
<1> QED BY <1>1, <1>2, <1>4, <1>5, <1>6, <1>7 DEF Next

(* While no message of the server needs a second chunk, taskCB cannot      *)
(* leave its second loop in the middle of one, and ws2 is left alone:      *)
(* the hypothesis of the four theorems above holds by itself.              *)
THEOREM ShortUndisturbed ==
  ASSUME ShortMessages
  PROVE  Spec => []Undisturbed
<1>1. NoEmptyMessage
  BY DEF ShortMessages, NoEmptyMessage
<1>2. Init => Stream /\ Brief
  <2>1. Init => Brief
    BY DEF Init, Brief, Parties
  <2> QED BY <2>1, StreamInit
<1>3. Brief => Undisturbed
  BY DEF Brief, Undisturbed
<1>4. IInv /\ Numbered /\ Stream /\ Brief /\ [Next]_vars => (Stream /\ Brief)'
  BY <1>1, <1>3, StreamStep, BriefStep
<1>5. Spec => [](IInv /\ Numbered)
  BY <1>1, Invariance
<1> QED BY <1>2, <1>3, <1>4, <1>5, PTL DEF Spec

(* KeysInStep for every chunk size, every number of pieces and messages    *)
(* and every way they are sent, received, interrupted and broken off, as   *)
(* long as the server's messages fit in one chunk.                         *)
THEOREM KeysStayInStep ==
  ASSUME ShortMessages
  PROVE  Spec => []KeysInStep
<1>1. NoEmptyMessage
  BY DEF ShortMessages, NoEmptyMessage
<1> QED BY <1>1, UndisturbedKeys, ShortUndisturbed, PTL

(* Under the same condition the session is Duplex: each way, what SendP    *)
(* is given RecvP hands over, whole, once and in order, up to where a      *)
(* broken connection ends it.                                              *)
THEOREM DuplexImplemented ==
  ASSUME ShortMessages
  PROVE  Spec => ImplementsDuplex
<1>1. NoEmptyMessage
  BY DEF ShortMessages, NoEmptyMessage
<1> QED BY <1>1, UndisturbedDuplex, ShortUndisturbed, PTL

=============================================================================
