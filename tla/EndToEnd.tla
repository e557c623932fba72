------------------------------ MODULE EndToEnd ------------------------------
(***************************************************************************)
(* Two users of one channel, each behind a proxy (app/proxy) that encrypts *)
(* end to end with lib/rprot, lib/oprot or both, over a server that relays *)
(* and keeps what they send (see Broadcast).  A proxy started again is a   *)
(* new client: it loads its keys from its files and is sent all that the   *)
(* server has kept, its own messages too.                                  *)
(***************************************************************************)
EXTENDS Vec, SequencesExt, Rprot

O == INSTANCE Oprot

CONSTANTS Users, Configs,   (* two users; sets of protocols configured       *)
          MaxMsgs,          (* bound: messages of the two users                *)
          MaxFaults,        (* bound: restarts, crashes and failing sends    *)
          PadLen            (* messages the pad is made for                  *)

ASSUME EndToEndAssumption ==
  /\ \E a, b \in Users : a # b /\ Users = {a, b}
  /\ Configs \subseteq (SUBSET {"rprot", "oprot"}) \ {{}}
  /\ MaxMsgs \in Nat /\ MaxFaults \in Nat /\ PadLen \in Nat

VARIABLES
  conf,        (* the protocols both users have configured                   *)
  rprot, oprot,(* the state in memory of each user's proxy                   *)
  file,        (* the file rprotPath of each user                            *)
  due,         (* relayed to a user and not read yet                         *)
  kept,        (* what the server keeps for newcomers                        *)
  made,        (* messages encrypted by each user                            *)
  seen, shown, (* history: messages read, and logged ones shown to the user  *)
  again, lost, (* history: shown a second time; discarded though never read  *)
  padUsed,     (* history: the places of the pad each user encrypted with    *)
  depth, heard,(* history: exchanges back and forth behind what u last sent, read *)
  faults       (* history: what has gone wrong so far                        *)

protVars == <<rprot, oprot, file>>
relayVars == <<due, kept>>
history == <<seen, shown, again, lost, padUsed, depth, heard>>
vars == <<conf, protVars, relayVars, made, history, faults>>

Peer(u) == CHOOSE v \in Users : v # u
Larger(a, b) == IF a > b THEN a ELSE b

-----------------------------------------------------------------------------
(* e2eEncrypt with cb: what it leaves of the two states, and the text.     *)
Id(u) == [from |-> u, n |-> made[u] + 1]
Fresh(u) == <<"fresh", u, made[u] + 1>>
Padded(u, cb) ==
  IF "oprot" \notin conf THEN [prot |-> oprot[u], text |-> Id(u)]
  ELSE IF cb = "LOG" THEN O!OPEncrypt(oprot[u], Id(u)) ELSE O!OPEncryptUnmut(oprot[u], Id(u))
e2eEncrypt(u, cb) ==
  LET p == Padded(u, cb)
      r == IF "rprot" \notin conf THEN [prot |-> rprot[u], text |-> p.text]
           ELSE IF cb = "LOG" THEN RPEncrypt(rprot[u], p.text, Fresh(u))
           ELSE RPEncryptUnmut(rprot[u], p.text, Fresh(u))
  IN [rprot |-> r.prot, oprot |-> p.prot, text |-> r.text]

(* Mutant of e2eEncryptFinish: it forgets which message it was called for. *)
e2eEncryptFinishAny(prot, cb) == IF "rprot" \in conf THEN RPEncryptFinish(prot) ELSE prot
e2eEncryptFinish(prot, cb) ==
  IF "rprot" \in conf /\ cb = "LOG" THEN RPEncryptFinish(prot) ELSE prot

(* e2eDecrypt stops at the first layer that fails.                         *)
e2eDecrypt(u, text) ==
  LET r == IF "rprot" \in conf THEN RPDecrypt(rprot[u], text)
           ELSE [ok |-> TRUE, prot |-> rprot[u], text |-> text]
      p == IF "oprot" \in conf /\ r.ok THEN O!OPDecrypt(oprot[u], r.text)
           ELSE [ok |-> r.ok, prot |-> oprot[u], text |-> r.text]
  IN [ok |-> p.ok, rprot |-> r.prot, oprot |-> p.prot, text |-> p.text]

-----------------------------------------------------------------------------
(* The relay: a message goes to the other user and is kept for newcomers.  *)
Entry(u, cb, text) ==
  [cb |-> cb, from |-> u, id |-> Id(u), depth |-> heard[u] + 1, text |-> text]
Posted(u, e) == [due EXCEPT ![Peer(u)] = Append(@, e)]
Logged(e) == e.cb = "LOG"
(* The server may have pruned what was not to be logged; what it sends to  *)
(* a newcomer is all that it has then.                                     *)
Pruned(log) == VecRm(log, Len(log), {i \in 1 .. Len(log) : ~Logged(log[i])})
Rejoin(u, d, log) ==
  \E l \in {log, Pruned(log)} : kept' = l /\ due' = [d EXCEPT ![u] = l]

-----------------------------------------------------------------------------
(* readFromClientCB: without pad the proxy ends before anything is sent.   *)
CanEncrypt(u, cb) == "oprot" \in conf /\ cb = "LOG" => O!HasPad(oprot[u])
Encrypted(u, cb) ==
  /\ made[u] + made[Peer(u)] < MaxMsgs /\ CanEncrypt(u, cb)
  /\ made' = [made EXCEPT ![u] = @ + 1]
  /\ padUsed' = IF "oprot" \in conf /\ cb = "LOG"
                THEN [padUsed EXCEPT ![u] = Append(@, oprot[u].outPlace)] ELSE padUsed
Send(u, cb) ==
  LET e == e2eEncrypt(u, cb)
  IN /\ Encrypted(u, cb)
     /\ due' = Posted(u, Entry(u, cb, e.text)) /\ kept' = Append(kept, Entry(u, cb, e.text))
     /\ rprot' = [rprot EXCEPT ![u] = e2eEncryptFinish(e.rprot, cb)]
     /\ oprot' = [oprot EXCEPT ![u] = e.oprot]
     /\ depth' = IF cb = "LOG" THEN [depth EXCEPT ![u] = heard[u] + 1] ELSE depth
     /\ UNCHANGED <<conf, file, seen, shown, again, lost, heard, faults>>

(* readFromServerCB: what does not open is discarded with a warning.       *)
Receive(u) ==
  /\ due[u] # <<>>
  /\ LET e == Head(due[u])
         r == e2eDecrypt(u, e.text)
     IN /\ rprot' = [rprot EXCEPT ![u] = r.rprot]
        /\ oprot' = [oprot EXCEPT ![u] = r.oprot]
        /\ shown' = IF r.ok /\ Logged(e) THEN [shown EXCEPT ![u] = @ \cup {r.text}] ELSE shown
        /\ again' = (again \/ (r.ok /\ Logged(e) /\ r.text \in shown[u]))
        /\ lost' = IF ~r.ok /\ e.from # u /\ e.id \notin seen[u]
                   THEN [lost EXCEPT ![u] = @ \cup {e.id}] ELSE lost
        /\ seen' = [seen EXCEPT ![u] = @ \cup {e.id}]
        /\ heard' = IF r.ok /\ e.cb = "LOG" THEN [heard EXCEPT ![u] = Larger(@, e.depth)]
                    ELSE heard
  /\ due' = [due EXCEPT ![u] = Tail(@)]
  /\ UNCHANGED <<conf, file, kept, made, padUsed, depth, faults>>

-----------------------------------------------------------------------------
(* The end of a proxy and its next start.                                  *)
Fault(f) == Len(faults) < MaxFaults /\ faults' = Append(faults, f)
(* exit(0) runs deInitData: RprotDe writes all of the state over the file. *)
RprotDe(u, prot) == file' = [file EXCEPT ![u] = prot]
(* RprotInit and OprotInit load what the files hold.                       *)
Start(u, pads) ==
  /\ rprot' = [rprot EXCEPT ![u] = file'[u]]
  /\ oprot' = [oprot EXCEPT ![u] = O!OprotInit(pads)]

(* The user ends the proxy and starts it again.                            *)
Restart(u) ==
  /\ Fault("restart")
  /\ RprotDe(u, rprot[u]) /\ Start(u, oprot[u])
  /\ Rejoin(u, due, kept)
  /\ UNCHANGED <<conf, made, history>>
(* Killed: the keys in memory are gone, the pads' files are not.           *)
Crash(u) ==
  /\ Fault("crash")
  /\ UNCHANGED file /\ Start(u, oprot[u])
  /\ Rejoin(u, due, kept)
  /\ UNCHANGED <<conf, made, history>>
(* TunnelSendP fails, before or after the server has the message: taskCB   *)
(* ends, the poller's loop ends, and the state is saved as it is.          *)
SendFails(u, cb, delivered) ==
  LET e == e2eEncrypt(u, cb)
      log == IF delivered THEN Append(kept, Entry(u, cb, e.text)) ELSE kept
      d == IF delivered THEN Posted(u, Entry(u, cb, e.text)) ELSE due
  IN /\ Encrypted(u, cb)
     /\ Fault(IF delivered THEN "delivered" ELSE "undelivered")
     /\ RprotDe(u, e.rprot) /\ Start(u, e.oprot)
     /\ Rejoin(u, d, log)
     /\ UNCHANGED <<conf, seen, shown, again, lost, depth, heard>>

Init ==
  /\ conf \in Configs
  /\ rprot = [u \in Users |-> RprotMake(u, Peer(u))] /\ file = rprot
  /\ oprot = [u \in Users |-> O!OprotMake(u, Peer(u), PadLen)]
  /\ due = [u \in Users |-> <<>>] /\ kept = <<>>
  /\ made = [u \in Users |-> 0] /\ depth = made /\ heard = made
  /\ seen = [u \in Users |-> {}] /\ shown = seen /\ lost = seen
  /\ again = FALSE /\ padUsed = [u \in Users |-> <<>>]
  /\ faults = <<>>

Next ==
  \E u \in Users :
    \/ \E cb \in {"LOG", "NOLOG"} : Send(u, cb) \/ \E d \in BOOLEAN : SendFails(u, cb, d)
    \/ Receive(u) \/ Restart(u) \/ Crash(u)

Spec == Init /\ [][Next]_vars

-----------------------------------------------------------------------------
TypeOK ==
  \A u \in Users :
    /\ rprot[u].status \subseteq Flags
    /\ oprot[u].outPlace \in 0 .. PadLen /\ oprot[u].inPlace \in 0 .. PadLen
    /\ made[u] \in 0 .. MaxMsgs

(* What the protocols are made to survive: the double ratchet a restart,   *)
(* whatever is replayed then, and a send that did not reach the server;    *)
(* the pad none of them: its keys move when a message is encrypted, and    *)
(* OprotInit reads them from the pads' heads, not from what OprotDe wrote. *)
Survived ==
  Range(faults) \subseteq (IF "oprot" \in conf THEN {} ELSE {"restart", "undelivered"})

(* No message is discarded that its reader has not had before, in whatever *)
(* order the two users' status flags and keys cross on the way; and none   *)
(* is shown twice, though a restarted proxy is sent again all that the     *)
(* server keeps: the key that opened it is gone (after a crash the file    *)
(* still has it).                                                          *)
NothingLost == Survived => \A u \in Users : lost[u] = {}
ShownOnce == "crash" \notin Range(faults) => ~again
EachShownOnce == NothingLost /\ ShownOnce

(* When nothing is on its way each user's outKey is the other's inKey.     *)
RatchetsInStep ==
  /\ TypeOK
  /\ Survived /\ "rprot" \in conf /\ (\A u \in Users : due[u] = <<>>) =>
       \A u \in Users : rprot[u].outKey = rprot[Peer(u)].inKey

(* No place of a pad encrypts two messages, though proxies crash and sends *)
(* fail: the pad is taken off its file before it is used.                  *)
PadUsedOnce == \A u \in Users : IsInjective(padUsed[u])

(* Every secret mixed into a key is one that was drawn for it, and is      *)
(* mixed into it once.                                                     *)
Secrets(key) == SelectSeq(key, LAMBDA x : x[1] \in {"fresh", "zero"})
SecretsMixedOnce ==
  \A u \in Users : LET s == Secrets(rprot[u].outKey)
                   IN IsInjective(s) /\ Zero \notin Range(s)

(* README: on every exchange back and forth there is an ephemeral exchange *)
(* whose result is mixed into the keys: it takes two messages to make one, *)
(* from then on every turn of the conversation brings one more.  And it is *)
(* another secret every time.                                              *)
EveryExchangeMixes ==
  /\ SecretsMixedOnce
  /\ "rprot" \in conf /\ faults = <<>> =>
       \A u \in Users :
         depth[u] <= 2 + Len(Secrets(rprot[u].outKey)) + Len(Secrets(rprot[Peer(u)].outKey))
=============================================================================
