------------------------------ MODULE Session -------------------------------
(***************************************************************************)
(* One connection between a proxy and the server: the handshake and key    *)
(* ratchet of lib/sprot, the chunks of lib/tunnel and the partial sends    *)
(* and receives of lib/net, with the two programs that drive them.  The    *)
(* proxy (app/proxy) does one thing at a time: it sends with               *)
(* NET_BLOCK_FULL, receives with NET_BLOCK_POLL, and receives from both    *)
(* sides into the buffer ws2.  The server (app/server/client.h until the   *)
(* login, then channel.h) does everything with NET_BLOCK_NONE and turns to *)
(* something else when a call would block.                                 *)
(*                                                                         *)
(* A chunk carries Chunk units of plain text (a unit is the size of the    *)
(* length that a message starts with) and crosses the network in Parts     *)
(* pieces, a system call moving any number of them.                        *)
(***************************************************************************)
EXTENDS Integers, Sequences, SequencesExt

CONSTANTS Chunk,     (* NETWORK_CHUNK_SIZE less SPROT_BYTES, in units        *)
          Parts,     (* pieces a chunk may be split in by send(2), recv(2)   *)
          SockCap,   (* pieces the network holds each way                    *)
          Lens,      (* lengths of the messages of each party, in units      *)
          MaxMsgs,   (* bound: messages of each party                        *)
          Faults,    (* TRUE if the connection may break and calls time out  *)
          None

Parties == {"proxy", "server"}
Other(d) == CHOOSE o \in Parties : o # d

(* What None is used beside: messages, made of units, and chunks.          *)
Key == {"none", "static", "ephemeral", "to server", "to client"} \X Nat
Unit == {"random", "length", "proxy", "server"} \X Nat \X Nat
Bodies ==
  {<<"ephemeral public key">>, <<"channel">>} \cup Seq(Key) \cup Seq(Unit)
Chunks == [n : Nat, key : Key, body : Bodies]

(* e2eEncrypt refuses a message without its control byte, so that a        *)
(* proxy's are not empty.                                                  *)
ASSUME SessionAssumption ==
  /\ Chunk \in Nat /\ Chunk > 1
  /\ Parts \in Nat \ {0} /\ SockCap \in Nat \ {0}
  /\ Lens \in [Parties -> SUBSET Nat] /\ 0 \notin Lens["proxy"]
  /\ MaxMsgs \in [Parties -> Nat] /\ Faults \in BOOLEAN
  /\ None \notin Seq(Unit) /\ None \notin Chunks

VARIABLES
  net, up,            (* pieces on their way from each party; connected      *)
  phase,              (* what each program is doing                          *)
  at,                 (* the loop of taskCB the proxy is in                  *)
  inKey, outKey,      (* SprotState                                          *)
  src,                (* the message a TunnelSendP has not finished, or None *)
  sndPlace, rcvPlace, (* of the Tunnel                                       *)
  sndBuff, sndAt,     (* the chunk being sent, and TCPSock.sndPlace          *)
  rcvBuff,            (* the pieces received: its length is TCPSock.rcvPlace *)
  dst,                (* the message being put together (the proxy's is ws2) *)
  used,               (* history: the key of every chunk encrypted           *)
  sent, got,          (* history: messages given to and handed over by SendP, RecvP *)
  fault               (* history: the connection broke or a call timed out   *)

netVars == <<net, up>>
keyVars == <<inKey, outKey>>
sndVars == <<src, sndPlace, sndBuff, sndAt, used>>
rcvVars == <<rcvPlace, rcvBuff, dst>>
history == <<sent, got, fault>>
vars == <<netVars, phase, at, keyVars, sndVars, rcvVars, history>>

-----------------------------------------------------------------------------
(* Data.  A key is a secret and how often it has been ratcheted.           *)
NoKey == <<"none", 0>>
Static == <<"static", 0>>         (* of the long-term key pairs              *)
Ephemeral == <<"ephemeral", 0>>   (* of the pair the client makes            *)
ServerIn == <<"to server", 0>>    (* the iKey and oKey the server draws      *)
ServerOut == <<"to client", 0>>
naclRatchet(k) == <<k[1], k[2] + 1>>

Random == <<"random", 0, 0>>
Length(n) == <<"length", n, 0>>
Message(d, i, len) == [j \in 1 .. len |-> <<d, i, j>>]
(* The units of s after the first `from', filled up with random bytes.     *)
Filled(s, from, size) ==
  [i \in 1 .. size |-> IF from + i <= Len(s) THEN s[from + i] ELSE Random]
Least(a, b) == IF a < b THEN a ELSE b

(* A chunk is one encryption: encrypting the same again gives another one. *)
Encrypt(d, key, body) ==
  /\ sndBuff' = [sndBuff EXCEPT ![d] = [n |-> Len(used[d]) + 1, key |-> key, body |-> body]]
  /\ used' = [used EXCEPT ![d] = Append(@, key)]

(* SPDecrypt / SmemADecrypt: fails unless the pieces are those of a chunk  *)
(* made with this key.                                                     *)
Opens(buf, key) ==
  /\ buf[1][1].key = key
  /\ \A i \in 1 .. Parts : buf[i] = <<buf[1][1], i>>
Body(buf) == buf[1][1].body

-----------------------------------------------------------------------------
(* lib/net.                                                                *)

(* When a call that can move nothing returns 1 instead of waiting: at once *)
(* if it is async, else only before it has moved something (a FULL call    *)
(* when its socket times out).                                             *)
Returns(blockType, moved) == blockType = "NONE" \/ ~moved

(* One send(2) of k pieces of the chunk of d.                              *)
socketSend(d, k) ==
  /\ up /\ sndBuff[d] # None
  /\ k <= SockCap - Len(net[d]) /\ k <= Parts - sndAt[d]
  /\ net' = [net EXCEPT ![d] = @ \o [i \in 1 .. k |-> <<sndBuff[d], sndAt[d] + i>>]]
  /\ sndAt' = [sndAt EXCEPT ![d] = (@ + k) % Parts]
  /\ UNCHANGED up
LastOf(d, k) == sndAt[d] + k = Parts

(* One recv(2) of k pieces by d.                                           *)
socketRecv(d, k) ==
  /\ k <= Len(net[Other(d)]) /\ k <= Parts - Len(rcvBuff[d])
  /\ net' = [net EXCEPT ![Other(d)] = SubSeq(@, k + 1, Len(@))]
With(d, k) == rcvBuff[d] \o SubSeq(net[Other(d)], 1, Least(k, Len(net[Other(d)])))

(* TCPSockSend: the call goes on with the rest, or returns 1 and is made   *)
(* again: sndPlace says where.                                             *)
TCPSockSendPart(d) ==
  /\ \E k \in 1 .. Parts : socketSend(d, k) /\ ~LastOf(d, k)
  /\ UNCHANGED <<phase, at, keyVars, src, sndPlace, sndBuff, used, rcvVars, history>>
TCPSockSend(d) == \E k \in 1 .. Parts : socketSend(d, k) /\ LastOf(d, k)

(* Mutant of MayReceive: the server, too, finishes a send before it reads. *)
MayReceiveIdle(d) ==
  /\ phase[d] \in {"hello", "answer", "login", "tunnel"}
  /\ sndBuff[d] = None /\ (d = "proxy" /\ phase[d] = "tunnel" => at = "server")
(* The proxy is in no other call while it receives.                        *)
MayReceive(d) ==
  /\ phase[d] \in {"hello", "answer", "login", "tunnel"}
  /\ d = "proxy" => sndBuff[d] = None /\ (phase[d] = "tunnel" => at = "server")
TCPSockRecvPart(d) ==
  /\ MayReceive(d)
  /\ \E k \in 1 .. Parts :
       /\ socketRecv(d, k) /\ Len(rcvBuff[d]) + k < Parts
       /\ rcvBuff' = [rcvBuff EXCEPT ![d] = With(d, k)]
  /\ UNCHANGED <<up, phase, at, keyVars, sndVars, rcvPlace, dst, history>>
(* buf is the chunk that is complete with the last pieces.                 *)
TCPSockRecv(d, buf) ==
  /\ MayReceive(d)
  /\ \E k \in 1 .. Parts :
       socketRecv(d, k) /\ Len(rcvBuff[d]) + k = Parts /\ buf = With(d, k)
  /\ rcvBuff' = [rcvBuff EXCEPT ![d] = <<>>]

(* The connection breaks: what was on its way may be lost.                 *)
Cut ==
  /\ Faults /\ up
  /\ up' = FALSE /\ fault' = TRUE
  /\ \/ UNCHANGED net
     \/ net' = [d \in Parties |-> <<>>]
  /\ UNCHANGED <<phase, at, keyVars, sndVars, rcvVars, sent, got>>

(* The program gives the connection up.                                    *)
Die(d) == phase' = [phase EXCEPT ![d] = "dead"] /\ up' = FALSE

(* A call that has nothing moved yet returns 1 after the socket's timeout. *)
TimesOut(d) ==
  /\ Faults /\ d = "proxy" /\ Returns("FULL", sndAt[d] # 0 \/ rcvBuff[d] # <<>>)
  /\ \/ sndBuff[d] # None /\ Len(net[d]) = SockCap
     \/ phase[d] = "answer" /\ net[Other(d)] = <<>>
(* A send to, or a receive of nothing from, a closed connection.           *)
Closed(d) ==
  /\ ~up /\ phase[d] # "dead"
  /\ sndBuff[d] # None \/ (MayReceive(d) /\ net[Other(d)] = <<>>)

(* performHandshake ignores what the send of the hello returns ...         *)
HelloNotSent ==
  /\ phase["proxy"] = "sendHello"
  /\ TimesOut("proxy") \/ Closed("proxy")
  /\ phase' = [phase EXCEPT !["proxy"] = "answer"]
  /\ sndBuff' = [sndBuff EXCEPT !["proxy"] = None]
  /\ sndAt' = [sndAt EXCEPT !["proxy"] = 0]
  /\ fault' = TRUE
  /\ UNCHANGED <<netVars, at, keyVars, src, sndPlace, used, rcvVars, sent, got>>
(* ... and the receive of the answer: SprotClientHandshake then opens what *)
(* it has, which is no answer.  Everything else that fails is given up.    *)
GiveUp(d) ==
  /\ phase[d] # "sendHello"
  /\ TimesOut(d) \/ Closed(d)
  /\ Die(d)
  /\ fault' = TRUE
  /\ UNCHANGED <<net, at, keyVars, sndVars, rcvVars, sent, got>>

-----------------------------------------------------------------------------
(* The handshake: SprotClientHandshake with performHandshake and           *)
(* sendLogin, SprotServerHandshake with clientTaskCB.                      *)
ClientStart ==
  /\ phase["proxy"] = "start"
  /\ Encrypt("proxy", Static, <<"ephemeral public key">>)
  /\ phase' = [phase EXCEPT !["proxy"] = "sendHello"]
  /\ UNCHANGED <<netVars, at, keyVars, src, sndPlace, sndAt, rcvVars, history>>

HelloSent ==
  /\ phase["proxy"] = "sendHello" /\ TCPSockSend("proxy")
  /\ phase' = [phase EXCEPT !["proxy"] = "answer"]
  /\ sndBuff' = [sndBuff EXCEPT !["proxy"] = None]
  /\ UNCHANGED <<at, keyVars, src, sndPlace, used, rcvVars, history>>

(* The server's keys in opposite order: the client's inKey, its outKey.    *)
Answer == <<ServerOut, ServerIn>>

HelloReceived(buf) ==
  /\ phase["server"] = "hello" /\ TCPSockRecv("server", buf)
  /\ IF Opens(buf, Static)
     THEN /\ Encrypt("server", Ephemeral, Answer)
          /\ phase' = [phase EXCEPT !["server"] = "sendAnswer"]
          /\ UNCHANGED up
     ELSE Die("server") /\ UNCHANGED <<sndBuff, used>>
  /\ UNCHANGED <<at, keyVars, src, sndPlace, sndAt, rcvPlace, dst, history>>

AnswerSent ==
  /\ phase["server"] = "sendAnswer" /\ TCPSockSend("server")
  /\ inKey' = [inKey EXCEPT !["server"] = ServerIn]
  /\ outKey' = [outKey EXCEPT !["server"] = ServerOut]
  /\ phase' = [phase EXCEPT !["server"] = "login"]
  /\ sndBuff' = [sndBuff EXCEPT !["server"] = None]
  /\ UNCHANGED <<at, src, sndPlace, used, rcvVars, history>>

AnswerReceived(buf) ==
  /\ phase["proxy"] = "answer" /\ TCPSockRecv("proxy", buf)
  /\ IF Opens(buf, Ephemeral)
     THEN /\ inKey' = [inKey EXCEPT !["proxy"] = Body(buf)[1]]
          /\ outKey' = [outKey EXCEPT !["proxy"] = Body(buf)[2]]
          /\ Encrypt("proxy", Body(buf)[2], <<"channel">>)
          /\ phase' = [phase EXCEPT !["proxy"] = "sendLogin"]
          /\ UNCHANGED up
     ELSE Die("proxy") /\ UNCHANGED <<keyVars, sndBuff, used>>
  /\ UNCHANGED <<at, src, sndPlace, sndAt, rcvPlace, dst, history>>

(* SPEncryptFinish.                                                        *)
SPEncryptFinish(d) == outKey' = [outKey EXCEPT ![d] = naclRatchet(@)]
(* Mutant of LoginSent: the key is not ratcheted after the login.          *)
LoginSentUnfinished ==
  /\ phase["proxy"] = "sendLogin" /\ TCPSockSend("proxy")
  /\ phase' = [phase EXCEPT !["proxy"] = "tunnel"]
  /\ sndBuff' = [sndBuff EXCEPT !["proxy"] = None]
  /\ UNCHANGED <<at, keyVars, src, sndPlace, used, rcvVars, history>>
LoginSent ==
  /\ phase["proxy"] = "sendLogin" /\ TCPSockSend("proxy")
  /\ SPEncryptFinish("proxy")
  /\ phase' = [phase EXCEPT !["proxy"] = "tunnel"]
  /\ sndBuff' = [sndBuff EXCEPT !["proxy"] = None]
  /\ UNCHANGED <<at, inKey, src, sndPlace, used, rcvVars, history>>

LoginReceived(buf) ==
  /\ phase["server"] = "login" /\ TCPSockRecv("server", buf)
  /\ IF Opens(buf, inKey["server"])
     THEN /\ inKey' = [inKey EXCEPT !["server"] = naclRatchet(@)]
          /\ phase' = [phase EXCEPT !["server"] = "tunnel"]
          /\ UNCHANGED up
     ELSE Die("server") /\ UNCHANGED inKey
  /\ UNCHANGED <<at, outKey, sndVars, rcvPlace, dst, history>>

-----------------------------------------------------------------------------
(* TunnelSendP.                                                            *)
FirstFill(d, m) ==
  /\ sndPlace' = [sndPlace EXCEPT ![d] = Least(Len(m), Chunk - 1)]
  /\ Encrypt(d, outKey[d], <<Length(Len(m))>> \o Filled(m, 0, Chunk - 1))

(* Mutant of PRefill: the place does not move on.                          *)
PRefillSame(d, key) ==
  /\ sndPlace' = [sndPlace EXCEPT ![d] = Least(Len(src[d]), @ + Chunk)]
  /\ Encrypt(d, key, Filled(src[d], sndPlace[d] - 1, Chunk))
(* Mutant of PRefill: the chunks of a message share its key.               *)
PRefillSameKey(d, key) ==
  /\ sndPlace' = [sndPlace EXCEPT ![d] = Least(Len(src[d]), @ + Chunk)]
  /\ Encrypt(d, outKey[d], Filled(src[d], sndPlace[d], Chunk))
PRefill(d, key) ==
  /\ sndPlace' = [sndPlace EXCEPT ![d] = Least(Len(src[d]), @ + Chunk)]
  /\ Encrypt(d, key, Filled(src[d], sndPlace[d], Chunk))

(* The end of a chunk: SEND_FIN, then the next chunk or the end.           *)
SendP(d) ==
  /\ phase[d] = "tunnel" /\ TCPSockSend(d)
  /\ SPEncryptFinish(d)
  /\ IF sndPlace[d] # Len(src[d])
     THEN PRefill(d, naclRatchet(outKey[d])) /\ UNCHANGED src
     ELSE /\ sndPlace' = [sndPlace EXCEPT ![d] = 0]
          /\ src' = [src EXCEPT ![d] = None]
          /\ sndBuff' = [sndBuff EXCEPT ![d] = None]
          /\ UNCHANGED used
  /\ UNCHANGED <<phase, at, inKey, rcvVars, history>>

(* The server begins a message (handleClientSends) ...                     *)
ServerSend ==
  /\ phase["server"] = "tunnel" /\ src["server"] = None
  /\ Len(sent["server"]) < MaxMsgs["server"]
  /\ \E len \in Lens["server"] :
       LET m == Message("server", Len(sent["server"]) + 1, len)
       IN /\ src' = [src EXCEPT !["server"] = m]
          /\ sent' = [sent EXCEPT !["server"] = Append(@, m)]
          /\ FirstFill("server", m)
  /\ UNCHANGED <<netVars, phase, at, keyVars, sndAt, rcvVars, got, fault>>
(* ... and calls again with it after the call has returned 1: sndPlace = 0 *)
(* passes for a message that is not begun.                                 *)
ServerSendAgain ==
  /\ src["server"] # None /\ up
  /\ Len(net["server"]) = SockCap /\ Returns("NONE", sndAt["server"] # 0)
  /\ IF sndPlace["server"] = 0 THEN FirstFill("server", src["server"])
     ELSE UNCHANGED <<sndPlace, sndBuff, used>>
  /\ UNCHANGED <<netVars, phase, at, keyVars, src, sndAt, rcvVars, history>>

-----------------------------------------------------------------------------
(* TunnelRecvP: the message and the place after a chunk.                   *)
parseRecvLen(d, body) ==
  [msg |-> Filled(Tail(body), 0, body[1][2]), place |-> Least(body[1][2], Chunk - 1)]
(* What is left is an unsigned number: past the end, a large one.          *)
parseRecv(d, body) ==
  LET from == rcvPlace[d]
      size == Len(dst[d])
  IN [msg |-> [i \in 1 .. size |->
                 IF i \in from + 1 .. from + Chunk THEN body[i - from] ELSE dst[d][i]],
      place |-> IF size - from \in 0 .. Chunk THEN size ELSE from + Chunk]

(* A chunk is decrypted and parsed: the message is handed over when it is  *)
(* whole.  The proxy passes it to the chat client, the server logs it, and *)
(* refuses an empty one (logMsg).                                          *)
RecvP(d, buf) ==
  /\ phase[d] = "tunnel" /\ TCPSockRecv(d, buf)
  /\ IF Opens(buf, inKey[d]) /\ (rcvPlace[d] = 0 => Body(buf)[1][1] = "length")
     THEN LET r == IF rcvPlace[d] = 0 THEN parseRecvLen(d, Body(buf)) ELSE parseRecv(d, Body(buf))
              whole == Len(r.msg) = r.place
          IN /\ inKey' = [inKey EXCEPT ![d] = naclRatchet(@)]
             /\ dst' = [dst EXCEPT ![d] = r.msg]
             /\ rcvPlace' = [rcvPlace EXCEPT ![d] = IF whole THEN 0 ELSE r.place]
             /\ got' = IF whole THEN [got EXCEPT ![d] = Append(@, r.msg)] ELSE got
             /\ UNCHANGED <<up, phase>>
     ELSE Die(d) /\ UNCHANGED <<inKey, dst, rcvPlace, got>>
  /\ UNCHANGED <<at, outKey, sndVars, sent, fault>>

-----------------------------------------------------------------------------
(* taskCB of the proxy.                                                    *)

(* TCPRecvP: a message of the chat client is received whole, into ws2.     *)
TCPRecvP(m) == dst' = [dst EXCEPT !["proxy"] = m]
readFromClientCB ==
  /\ phase["proxy"] = "tunnel" /\ at = "client" /\ src["proxy"] = None
  /\ Len(sent["proxy"]) < MaxMsgs["proxy"]
  /\ \E len \in Lens["proxy"] :
       LET m == Message("proxy", Len(sent["proxy"]) + 1, len)
       IN /\ TCPRecvP(m)
          /\ src' = [src EXCEPT !["proxy"] = m]
          /\ sent' = [sent EXCEPT !["proxy"] = Append(@, m)]
          /\ FirstFill("proxy", m)
  /\ UNCHANGED <<netVars, phase, at, keyVars, sndAt, rcvPlace, rcvBuff, got, fault>>

(* The first loop ends when the client has nothing ...                     *)
ClientIdle ==
  /\ phase["proxy"] = "tunnel" /\ at = "client" /\ src["proxy"] = None
  /\ at' = "server"
  /\ UNCHANGED <<netVars, phase, keyVars, sndVars, rcvVars, history>>
(* ... and the second when the server has nothing, be it in the middle of  *)
(* a message: the callback returns and is called again.                    *)
ServerIdle ==
  /\ phase["proxy"] = "tunnel" /\ at = "server"
  /\ net["server"] = <<>> /\ Returns("POLL", rcvBuff["proxy"] # <<>>)
  /\ at' = "client"
  /\ UNCHANGED <<netVars, phase, keyVars, sndVars, rcvVars, history>>

-----------------------------------------------------------------------------
Init ==
  /\ net = [d \in Parties |-> <<>>] /\ up = TRUE
  /\ phase = [proxy |-> "start", server |-> "hello"]
  /\ at = "client"
  /\ inKey = [d \in Parties |-> NoKey] /\ outKey = inKey
  /\ src = [d \in Parties |-> None] /\ sndBuff = src
  /\ sndPlace = [d \in Parties |-> 0] /\ rcvPlace = sndPlace /\ sndAt = sndPlace
  /\ rcvBuff = [d \in Parties |-> <<>>]
  /\ dst = rcvBuff /\ used = rcvBuff /\ sent = rcvBuff /\ got = rcvBuff
  /\ fault = FALSE

(* What each party does by itself, and what comes from outside.            *)
Sends(d) ==
  \/ TCPSockSendPart(d) \/ SendP(d)
  \/ d = "proxy" /\ (ClientStart \/ HelloSent \/ HelloNotSent \/ LoginSent)
  \/ d = "server" /\ (AnswerSent \/ ServerSendAgain)
Complete(d) == With(d, Parts - Len(rcvBuff[d]))
Receives(d) ==
  \/ TCPSockRecvPart(d)
  \/ /\ Len(Complete(d)) = Parts
     /\ \/ RecvP(d, Complete(d))
        \/ d = "proxy" /\ AnswerReceived(Complete(d))
        \/ d = "server" /\ (HelloReceived(Complete(d)) \/ LoginReceived(Complete(d)))
Loops == ClientIdle \/ ServerIdle
Next ==
  \/ \E d \in Parties : Sends(d) \/ Receives(d) \/ GiveUp(d)
  \/ Loops \/ ServerSend \/ readFromClientCB \/ Cut

Spec == Init /\ [][Next]_vars
(* A program that can go on does: both are called while poll() reports     *)
(* their sockets, the server turns to reads and to sends in every turn.    *)
FairSpec ==
  /\ Spec /\ WF_vars(Loops)
  /\ \A d \in Parties : WF_vars(Sends(d)) /\ WF_vars(Receives(d)) /\ WF_vars(GiveUp(d))

-----------------------------------------------------------------------------
(* Types.                                                                  *)
Phases == {"start", "sendHello", "hello", "sendAnswer", "answer", "sendLogin", "login",
           "tunnel", "dead"}
TypeOK ==
  /\ \A d \in Parties :
       /\ Len(net[d]) <= SockCap
       /\ phase[d] \in Phases
       /\ sndAt[d] \in 0 .. Parts - 1 /\ Len(rcvBuff[d]) < Parts
       /\ src[d] # None => sndBuff[d] # None /\ sndPlace[d] \in 0 .. Len(src[d])
       /\ sndAt[d] # 0 => sndBuff[d] # None
       /\ rcvPlace[d] # 0 => rcvPlace[d] < Len(dst[d])
  /\ up \in BOOLEAN /\ fault \in BOOLEAN /\ at \in {"client", "server"}

(* Each way, what the session hands over is what it was given, whole, once *)
(* and in order, whatever the chunks, the calls that block and the moment  *)
(* the connection breaks.                                                  *)
D == INSTANCE Duplex WITH Messages <- UNION {{Message(d, i, len) :
                                         i \in 1 .. MaxMsgs[d], len \in Lens[d]} : d \in Parties}
ImplementsDuplex == D!Spec

(* The message handed to the chat client is the one the server sent.  net.h *)
(* warns that a call that would block must be made again with the same     *)
(* parameters: between two calls the proxy uses ws2 for another message.   *)
DeliversAsSent == IsPrefix(got["proxy"], sent["server"])

(* SPEncryptFinish and SPDecrypt ratchet one key each, on two machines,    *)
(* after a send and after a receive that may be a long way apart: when     *)
(* nothing is between them the keys are the same, so that every chunk      *)
(* opens and nobody gives up a connection that did not break.              *)
Empty(d) == net[d] = <<>> /\ rcvBuff[Other(d)] = <<>> /\ sndBuff[d] = None
NoFailure == ~fault => \A d \in Parties : phase[d] # "dead"
SameKeys ==
  (\A e \in Parties : phase[e] = "tunnel") /\ ~fault =>
    \A d \in Parties : Empty(d) => outKey[d] = inKey[Other(d)]
KeysInStep == TypeOK /\ NoFailure /\ SameKeys

(* No key encrypts two chunks, however a send is interrupted and resumed.  *)
OneChunkPerKey == \A d \in Parties : IsInjective(used[d])

(* A message sent arrives, unless the connection breaks: the proxy's full  *)
(* sends wait for a server that always comes back to reading.              *)
Arrives ==
  \A d \in Parties : \A n \in 1 .. MaxMsgs[d] :
    Len(sent[d]) >= n ~> (fault \/ Len(got[Other(d)]) >= n)
=============================================================================
