------------------------------- MODULE Rprot --------------------------------
(***************************************************************************)
(* lib/rprot, the double ratchet: what each of its functions makes of one  *)
(* party's state.  A key is the sequence of what was hashed into it, so    *)
(* that two keys are equal when the same was done to them; a box made for  *)
(* a public key opens with the secret key of the same pair.                *)
(***************************************************************************)
EXTENDS Sequences, SequencesExt

Hash == <<"hash", "", 0>>        (* what naclRatchet adds to a key          *)
Zero == <<"zero", "", 0>>        (* a key, secret or box of zero bytes      *)
Root(u) == <<"root", u, 0>>
Flags == {"SENT_IN", "SENT_OUT", "RATCHET_READY", "ADVANCE_KEYS"}

naclRatchet(key) == Append(key, Hash)
(* The caller's secret is zeroed: each use below sets it to Zero.          *)
naclMix(key, secret) == naclRatchet(Append(key, secret))

(* The two key files are each other's mirror, but for the status.          *)
RprotMake(out, in) ==
  [status |-> {"SENT_IN"}, outKey |-> <<Root(out)>>, inKey |-> <<Root(in)>>,
   outSec |-> Zero, inSec |-> Zero, ephPK |-> Zero, ephSK |-> Zero]

-----------------------------------------------------------------------------
(* ProtREncryptImp, with fresh random bytes: the new state and the text.   *)
ProtREncryptImp(prot, text, fresh) ==
  LET advance == "ADVANCE_KEYS" \in prot.status
      secret == advance /\ "SENT_IN" \notin prot.status
      pair == advance /\ "SENT_OUT" \notin prot.status
      ctrl == [status |-> prot.status,
               newEPK |-> IF pair THEN fresh ELSE Zero,
               newSecret |-> IF secret THEN [for |-> prot.ephPK, secret |-> fresh]
                             ELSE [for |-> Zero, secret |-> Zero]]
  IN [prot |-> [prot EXCEPT !.inSec = IF secret THEN fresh ELSE @,
                            !.ephSK = IF pair THEN fresh ELSE @],
      text |-> [key |-> prot.outKey, ctrl |-> ctrl, text |-> text]]

RPEncrypt(prot, text, fresh) ==
  ProtREncryptImp([prot EXCEPT !.status = @ \cup {"ADVANCE_KEYS"}], text, fresh)
RPEncryptUnmut(prot, text, fresh) ==
  ProtREncryptImp([prot EXCEPT !.status = @ \ {"ADVANCE_KEYS"}], text, fresh)

(* Mutant of RPEncryptFinish: the status does not say what was sent.       *)
RPEncryptFinishSilent(prot) ==
  LET ready == "RATCHET_READY" \in prot.status
      key == naclRatchet(prot.outKey)
  IN [prot EXCEPT !.status = @ \ {"RATCHET_READY"},
                  !.outKey = IF ready THEN naclMix(key, prot.outSec) ELSE key,
                  !.outSec = IF ready THEN Zero ELSE @]
(* RPEncryptFinish.                                                        *)
RPEncryptFinish(prot) ==
  LET ready == "RATCHET_READY" \in prot.status
      key == naclRatchet(prot.outKey)
  IN [prot EXCEPT !.status = (@ \cup {"SENT_OUT", "SENT_IN"}) \ {"RATCHET_READY"},
                  !.outKey = IF ready THEN naclMix(key, prot.outSec) ELSE key,
                  !.outSec = IF ready THEN Zero ELSE @]

-----------------------------------------------------------------------------
(* RPDecrypt, by the parts of a message's control block.                   *)
Ratcheted(prot, ctrl) ==
  IF "RATCHET_READY" \in ctrl.status
  THEN [prot EXCEPT !.inKey = naclMix(naclRatchet(@), prot.inSec), !.inSec = Zero]
  ELSE [prot EXCEPT !.inKey = naclRatchet(@)]
(* The sender has sent a public key: a secret for it is owed.              *)
Keyed(prot, ctrl) ==
  IF "SENT_OUT" \notin ctrl.status
  THEN [prot EXCEPT !.ephPK = ctrl.newEPK, !.status = @ \ {"SENT_IN"}] ELSE prot
(* Mutant of Opened: the secret is kept, but never made ready.             *)
OpenedUnready(prot, ctrl) ==
  IF "SENT_IN" \notin ctrl.status /\ ctrl.newSecret.for = prot.ephSK
  THEN [prot EXCEPT !.outSec = ctrl.newSecret.secret, !.status = @ \ {"SENT_OUT"}]
  ELSE prot
(* The sender has sent a secret: it is mixed in by the next message.       *)
Opened(prot, ctrl) ==
  IF "SENT_IN" \notin ctrl.status /\ ctrl.newSecret.for = prot.ephSK
  THEN [prot EXCEPT !.outSec = ctrl.newSecret.secret,
                    !.status = (@ \ {"SENT_OUT"}) \cup {"RATCHET_READY"}]
  ELSE prot

(* A box that does not open fails the call after the key has moved on.     *)
RPDecrypt(prot, text) ==
  LET ctrl == text.ctrl
      moved == Keyed(Ratcheted(prot, ctrl), ctrl)
  IN IF text.key # prot.inKey THEN [ok |-> FALSE, prot |-> prot, text |-> Zero]
     ELSE IF "ADVANCE_KEYS" \notin ctrl.status THEN [ok |-> TRUE, prot |-> prot, text |-> text.text]
     ELSE [ok |-> "SENT_IN" \notin ctrl.status => ctrl.newSecret.for = prot.ephSK,
           prot |-> Opened(moved, ctrl), text |-> text.text]
=============================================================================
