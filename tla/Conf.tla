------------------------------- MODULE Conf --------------------------------
(***************************************************************************)
(* lib/conf: what a configuration file says.  The file is a sequence of    *)
(* characters, in which a word without special characters counts as one.   *)
(***************************************************************************)
EXTENDS Integers, Sequences, SequencesExt

Quote == "quote"
NewLine == "newline"
Space == {" ", NewLine}

(* The kinds of token; a string has its text.                              *)
Eq == [kind |-> "=", text |-> <<>>]
Str(text) == [kind |-> "string", text |-> text]

LexStart == [in |-> "between", text |-> <<>>, tokens |-> <<>>]

Refused == [LexStart EXCEPT !.in = "refused"]

(* nextToken, lexSpace, lexComment and lexString, one character further.   *)
nextToken(lex, c) ==
    CASE lex.in = "refused" -> lex
      [] lex.in = "comment" -> IF c = NewLine THEN [lex EXCEPT !.in = "between"] ELSE lex
      [] lex.in = "string" ->
            IF c = Quote THEN [lex EXCEPT !.in = "between", !.tokens = Append(@, Str(lex.text))]
                         ELSE [lex EXCEPT !.text = Append(@, c)]
      [] lex.in = "between" ->
            CASE c \in Space -> lex
              [] c = "=" -> [lex EXCEPT !.tokens = Append(@, Eq)]
              [] c = "#" -> [lex EXCEPT !.in = "comment"]
              [] c = Quote -> [lex EXCEPT !.in = "string", !.text = <<>>]
              [] OTHER -> Refused

Lexed(text) == FoldLeft(nextToken, LexStart, text)

(* parsePair: key, = and value; a key that is there already is refused.    *)
IsPairs(tokens) ==
    /\ Len(tokens) % 3 = 0
    /\ \A k \in 1 .. Len(tokens) :
         tokens[k].kind = (IF k % 3 = 2 THEN "=" ELSE "string")
    /\ \A i, j \in 1 .. Len(tokens) :
         (i % 3 = 1 /\ j % 3 = 1 /\ i /= j) => tokens[i].text /= tokens[j].text

(* ConfInit succeeds on a file whose strings all end and which is pairs.   *)
IsConf(lexed) == lexed.in \in {"between", "comment"} /\ IsPairs(lexed.tokens)

(* The table ConfInit makes of it.                                         *)
ConfTable(tokens) ==
    [key \in {tokens[k].text : k \in {i \in 1 .. Len(tokens) : i % 3 = 1}} |->
        tokens[(CHOOSE k \in 1 .. Len(tokens) : k % 3 = 1 /\ tokens[k].text = key) + 2].text]

(* ConfGet: the value of a key, and no word at all if there is none.       *)
ConfGet(table, key) == IF <<key>> \in DOMAIN table THEN table[<<key>>] ELSE <<>>
=============================================================================
