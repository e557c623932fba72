------------------------------ MODULE Adapter -------------------------------
(***************************************************************************)
(* The proxy adapter of the Electron chat (src/index.js), which sets a     *)
(* length before every message to the proxy and takes the messages out of  *)
(* the stream that comes back, and TCPRecvP, the proxy's end of it.  A     *)
(* stream is a sequence of pieces: Prefix of them are a length, the others *)
(* are parts of messages.                                                  *)
(***************************************************************************)
EXTENDS Integers, Sequences, SequencesExt

CONSTANTS Prefix   (* pieces of the eight bytes of a length                *)

ASSUME AdapterAssumption == Prefix \in Nat \ {0}

LengthOf(n) == [k \in 1 .. Prefix |-> <<[type |-> "length"], n>>]
IsLength(piece) == piece[1].type = "length"

(* TCPSockSendP: the proxy's messages, with as many pieces as they have.   *)
TCPSockSendP(body) == LengthOf(Len(body)) \o body

(* msg.length counts UTF-16 units: characters outside ASCII make more      *)
(* bytes than that.                                                        *)
proxySendPacket(units, bytes) == LengthOf(units) \o bytes

-----------------------------------------------------------------------------
(* incPacketSizeOffset, incPacketSize once it is a number, incPacketData,  *)
(* and the messages handed to toClient.send by this call.                  *)
IncStart == [offset |-> 0, size |-> 0, data |-> <<>>, send |-> <<>>]

(* One turn of the loops: a length is read at its last piece; a message is *)
(* sent on at its last.  (One of length 0 would never end.)                *)
nextPiece(inc, piece) ==
  IF inc.offset < Prefix
  THEN [inc EXCEPT !.offset = @ + 1, !.size = IF inc.offset + 1 = Prefix THEN piece[2] ELSE 0]
  ELSE IF inc.size = 0 THEN inc
  ELSE IF inc.size = 1
  THEN [IncStart EXCEPT !.send = Append(inc.send, Append(inc.data, piece))]
  ELSE [inc EXCEPT !.size = @ - 1, !.data = Append(@, piece)]

(* Mutant of proxyRecvPacket: every call begins a message anew.            *)
proxyRecvPacketAnew(inc, data) ==
  FoldLeft(nextPiece, [inc EXCEPT !.data = <<>>, !.send = <<>>], data)
(* proxyRecvPacket on what one read of the socket has brought, which may   *)
(* be part of a length, of a message, or several messages.                 *)
proxyRecvPacket(inc, data) == FoldLeft(nextPiece, [inc EXCEPT !.send = <<>>], data)

-----------------------------------------------------------------------------
(* TCPRecvP of the proxy, when it has eight bytes.  Text where a length    *)
(* should be is a number above NETWORK_MAX_RECV_SIZE: its first byte is    *)
(* not 0.                                                                  *)
Announced(stream) == Len(stream) >= Prefix
TooLong(stream) == Announced(stream) /\ ~IsLength(stream[1])
Whole(stream) ==
  Announced(stream) /\ IsLength(stream[1]) /\ Len(stream) >= Prefix + stream[1][2]
TCPRecvP(stream) == SubSeq(stream, Prefix + 1, Prefix + stream[1][2])
Rest(stream) == SubSeq(stream, Prefix + 1 + stream[1][2], Len(stream))
=============================================================================
