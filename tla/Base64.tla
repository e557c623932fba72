------------------------------ MODULE Base64 -------------------------------
(***************************************************************************)
(* lib/base64: bytes to characters (their ASCII codes) and back.           *)
(***************************************************************************)
EXTENDS Integers, Sequences

(* TABLE, from position 0.                                                 *)
TABLE(v) == IF v < 26 THEN v + 65 ELSE IF v < 52 THEN v + 71
            ELSE IF v < 62 THEN v - 4 ELSE IF v = 62 THEN 43 ELSE 47

(* REVERSE_TABLE, zero where no character of the alphabet stands.          *)
REVERSE_TABLE(c) ==
    CASE c \in 65 .. 90 -> c - 65 [] c \in 97 .. 122 -> c - 71
      [] c \in 48 .. 57 -> c + 4  [] c = 43 -> 62 [] c = 47 -> 63
      [] OTHER -> 0

(* validateChar, with 0 for valid turned round.                            *)
validateChar(c) == c \in (65 .. 90) \union (97 .. 122) \union (48 .. 57) \union {43, 47}

isspace(c) == c \in (9 .. 13) \union {32}

binToB64Size(bytes) == bytes + (bytes + 2) \div 3

b64ToBinSize(bytes) == IF bytes > 1 THEN bytes - 1 - (bytes - 2) \div 4 ELSE 0

(* No number of bytes encodes to a multiple of four and one.               *)
validateB64Size(len) == len = 0 \/ (len - 1) % 4 /= 0

validateB64(s) == validateB64Size(Len(s)) /\ \A k \in 1 .. Len(s) : validateChar(s[k])

(* Three bytes make four characters; the bits that are left of the last    *)
(* byte are filled up with zeros.                                          *)
toB64Imp(src) ==
    LET byte(k) == IF k <= Len(src) THEN src[k] ELSE 0
        sextet(k, r) ==
            CASE r = 0 -> byte(k) \div 4
              [] r = 1 -> (byte(k) % 4) * 16 + byte(k + 1) \div 16
              [] r = 2 -> (byte(k + 1) % 16) * 4 + byte(k + 2) \div 64
              [] r = 3 -> byte(k + 2) % 64
    IN  [j \in 1 .. binToB64Size(Len(src)) |->
            TABLE(sextet(3 * ((j - 1) \div 4) + 1, (j - 1) % 4))]

(* Four characters make three bytes of eight bits.                         *)
toBinImp(src) ==
    LET sextet(k) == REVERSE_TABLE(src[k])
        octet(k, r) ==
            CASE r = 0 -> sextet(k) * 4 + sextet(k + 1) \div 16
              [] r = 1 -> ((sextet(k + 1) * 16) % 256) + sextet(k + 2) \div 4
              [] r = 2 -> ((sextet(k + 2) * 64) % 256) + sextet(k + 3)
    IN  [j \in 1 .. b64ToBinSize(Len(src)) |->
            octet(4 * ((j - 1) \div 3) + 1, (j - 1) % 3)]

(* Mutant of trim: space at the end is kept.                               *)
trimFront(s) ==
    LET first == CHOOSE i \in 1 .. Len(s) + 1 :
                    /\ \A j \in 1 .. i - 1 : isspace(s[j])
                    /\ i = Len(s) + 1 \/ ~isspace(s[i])
    IN  SubSeq(s, first, Len(s))

(* Space before and after is dropped, and then what pads the end.          *)
trim(s) ==
    LET first == CHOOSE i \in 1 .. Len(s) + 1 :
                    /\ \A j \in 1 .. i - 1 : isspace(s[j])
                    /\ i = Len(s) + 1 \/ ~isspace(s[i])
        ends(last, P(_)) == CHOOSE i \in first - 1 .. last :
                    /\ \A j \in i + 1 .. last : P(s[j])
                    /\ i = first - 1 \/ ~P(s[i])
        isPad(c) == c = 61
    IN  SubSeq(s, first, ends(ends(Len(s), isspace), isPad))

(* B64ToBin, for text of unknown validity: nothing comes of invalid text.  *)
IsB64(s) == validateB64(trim(s))
B64ToBin(s) == toBinImp(trim(s))

(* BinToB64, with padding.                                                 *)
BinToB64(s) ==
    LET rest == binToB64Size(Len(s)) % 4
    IN  toB64Imp(s) \o (IF rest = 0 THEN <<>> ELSE IF rest = 2 THEN <<61, 61>> ELSE <<61>>)
=============================================================================
