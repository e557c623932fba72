------------------------------- MODULE Oprot --------------------------------
(***************************************************************************)
(* lib/oprot, the one-time pad under a ratcheting key.  The pads are the   *)
(* files `out' and `in': a message takes its part of the pad off the end   *)
(* of the file before it is used (inPlace and outPlace are their sizes, in *)
(* messages).  The keys start as the first bytes of the two pads.          *)
(***************************************************************************)
EXTENDS Integers, Sequences

(* A key is named for the pad it heads, and counts how often it has been   *)
(* ratcheted.                                                              *)
OprotMake(out, in, len) ==
  [outKey |-> <<out, 0>>, inKey |-> <<in, 0>>, outPlace |-> len, inPlace |-> len]
Ratchet(key) == <<key[1], key[2] + 1>>

(* OprotInit reads the keys from the heads of the pads, whatever OprotDe   *)
(* wrote to the file `key'; the places are where the files end.            *)
OprotInit(prot) == [prot EXCEPT !.outKey = <<@[1], 0>>, !.inKey = <<@[1], 0>>]

-----------------------------------------------------------------------------
(* Mutant of padText: the file is not truncated.                           *)
padTextKept(prot) == prot
(* padText: needs pad left, and takes it off the file.                     *)
HasPad(prot) == prot.outPlace > 0
padText(prot) == [prot EXCEPT !.outPlace = @ - 1]

OPEncrypt(prot, text) ==
  [prot |-> [padText(prot) EXCEPT !.outKey = Ratchet(@)],
   text |-> [key |-> prot.outKey, unmut |-> FALSE, pad |-> prot.outPlace, text |-> text]]
OPEncryptUnmut(prot, text) ==
  [prot |-> prot, text |-> [key |-> prot.outKey, unmut |-> TRUE, pad |-> 0, text |-> text]]

(* unpadText takes the pad off its file before the checksum tells whether  *)
(* it was the one the text was made with.                                  *)
unpadText(prot, text) ==
  [ok |-> prot.inPlace > 0 /\ prot.inPlace = text.pad,
   prot |-> [prot EXCEPT !.inPlace = IF @ > 0 THEN @ - 1 ELSE @],
   text |-> text.text]

OPDecrypt(prot, text) ==
  IF text.key # prot.inKey THEN [ok |-> FALSE, prot |-> prot, text |-> text.text]
  ELSE IF text.unmut THEN [ok |-> TRUE, prot |-> prot, text |-> text.text]
  ELSE unpadText([prot EXCEPT !.inKey = Ratchet(@)], text)
=============================================================================
