------------------------------- MODULE CTool -------------------------------
(***************************************************************************)
(* cTool, the command-line tool (app/cTool), and the window two users run  *)
(* it through (app/cToolGui).                                              *)
(*                                                                         *)
(* The window writes the text to a file and the command to cTool.conf,     *)
(* runs the tool, and shows the file it left.  The tool loads its keys and *)
(* its input, computes, truncates and writes its output, and writes the    *)
(* keys back last, also on its way out of a failure.  It may be killed     *)
(* between any two of these, a write may fail half way, and the window may *)
(* be closed before it has removed what the tool left.                     *)
(*                                                                         *)
(* In a behaviour the two users use one protocol, or one of them uses the  *)
(* commands that need no key.  Files hold bytes.  A ciphertext is a handle *)
(* of a few bytes for what was encrypted (NaCl's boxes give nothing else   *)
(* away), but in base64 it is the characters the code writes.              *)
(***************************************************************************)
EXTENDS Integers, Sequences, FiniteSets, SequencesExt, Base64, Conf, Rprot

O == INSTANCE Oprot

CONSTANTS User,       \* two users, each with a machine
          Typed,      \* what they type in the windows, in bytes
    Edited,     \* and put in the files they name to the tool
          Protocols,  \* of "sym", "asym", "dratchet", "otp", "files"
          PadLen,     \* messages the one-time pad is made for
          MaxRuns,    \* bound: runs of the tool
          MaxFaults   \* bound: kills and failing writes

ASSUME CToolAssumption ==
    /\ Cardinality(User) = 2
    /\ Protocols \subseteq {"sym", "asym", "dratchet", "otp", "files"}
    /\ Typed \union Edited \subseteq Seq(0 .. 255)
    /\ PadLen \in Nat /\ MaxRuns \in Nat /\ MaxFaults \in Nat

VARIABLES
    protocol,   \* the one in use
    file,       \* the files on each machine
    keyFile,    \* whether each user's key file is absent, part of one, or whole
    ratchet,    \* what the ratchet's key file holds
    pads,       \* the one-time pad's two files
    pt, ct,     \* the panes of each window
    proc,       \* the tool on each machine, and the command it runs
    boxes,      \* every ciphertext computed
    runs,       \* how often the tool has been run
    out,        \* history: the ciphertexts of which something was written
    saver,      \* history: the run that last wrote the output file
    shown,      \* history: the run whose end a window last showed
    tried,      \* history: the ciphertexts each user tried to open
    stuck,      \* history: one that came in order did not open
    source,     \* history: what the encoded file and the digest are of
    faults      \* what has gone wrong

files == <<file, keyFile, ratchet, pads>>
panes == <<pt, ct>>
history == <<out, saver, shown, tried, stuck, source>>
vars == <<protocol, files, panes, proc, boxes, runs, history, faults>>

Peer(u) == CHOOSE v \in User : v /= u

Paths == {"IN", "OUT", "plain", "coded", "back", "digest"}

(* No file, and nothing known of one: no sequence of bytes.                *)
Absent == <<-1>>

Idle == [at |-> "idle", run |-> 0, button |-> "", line |-> <<>>, conf |-> <<>>,
         data |-> <<>>, box |-> 0, key |-> FALSE, rprot |-> <<>>, completed |-> FALSE,
         verified |-> FALSE]

CToolInit ==
    /\ protocol \in Protocols
    /\ file = [u \in User |-> [p \in Paths |-> Absent]]
    /\ keyFile = [u \in User |-> "absent"]
    /\ ratchet = [u \in User |-> RprotMake(u, Peer(u))]
    /\ pads = [u \in User |-> O!OprotMake(u, Peer(u), PadLen)]
    /\ pt = [u \in User |-> <<>>] /\ ct = pt
    /\ proc = [u \in User |-> Idle]
    /\ boxes = <<>> /\ runs = 0
    /\ out = {} /\ saver = [u \in User |-> 0]
    /\ shown = [u \in User |-> [run |-> 0, saver |-> 0, whole |-> TRUE]]
    /\ tried = [u \in User |-> <<>>] /\ stuck = FALSE
    /\ source = [coded |-> Absent, digest |-> Absent]
    /\ faults = {}

---------------------------------------------------------------------------
(* The commands: the line the window composes (the function's name is      *)
(* short of its protocol's), and lines as the manual has a user write them *)
(* for the functions without a key.                                        *)

Pair(key, val) == <<Quote, key, Quote, " ", "=", " ", Quote, val, Quote, " ">>

GuiLine(fn) == Pair("function", fn) \o Pair("keyFile", "key")
               \o Pair("inputFile", "IN") \o Pair("outputFile", "OUT")

Comment(line) == <<"#">> \o line \o <<NewLine>>

Encode == Pair("function", "encodeBase64") \o Pair("inputFile", "plain")

ManualLines ==
    LET to == Pair("outputFile", "coded")
        sum == Pair("inputFile", "plain") \o Pair("outputFile", "digest")
        verify == Pair("inputFile", "plain") \o Pair("hashFile", "digest")
        binary == Pair("binaryEncoding", " ")
        comment == Comment(Pair("outputFile", "plain"))
    IN  {comment \o Encode \o to, comment \o Encode, Encode \o to \o Pair("outputFile", "plain"),
         Pair("function", "decodeBase64") \o Pair("inputFile", "coded")
            \o Pair("outputFile", "back")}
        \union UNION {{Pair("function", "hash") \o sum \o b,
                       Pair("function", "verifyHash") \o verify \o b} :
                           b \in {<<>>, binary}}

fn(u) == ConfGet(proc[u].conf, "function")[1]

(* The path a key names, and the file there.                               *)
Has(u, key) == ConfGet(proc[u].conf, key) /= <<>>
Path(u, key) == ConfGet(proc[u].conf, key)[1]
Content(u, key) == file[u][Path(u, key)]

---------------------------------------------------------------------------
(* What the user does: a machine at a time, the two share nothing.         *)

Run(u, button, line) ==
    /\ \A v \in User : proc[v].at = "idle"
    /\ runs < MaxRuns
    /\ runs' = runs + 1
    /\ proc' = [proc EXCEPT ![u] = [Idle EXCEPT !.at = "conf", !.run = runs + 1,
                                                !.button = button, !.line = line]]
    /\ UNCHANGED <<protocol, keyFile, ratchet, pads, boxes, history, faults>>

(* writeInputThenCallTools: Tk ends every pane with a new line.            *)
WriteInput(u, text) == file' = [file EXCEPT ![u]["IN"] = Append(text, 10)]

encryptAttempt(u, text) ==
    /\ protocol /= "files"
    /\ Run(u, "Enc", GuiLine("Enc"))
    /\ WriteInput(u, text)
    /\ pt' = [pt EXCEPT ![u] = <<>>] /\ UNCHANGED ct

decryptAttempt(u) ==
    /\ protocol /= "files"
    /\ ct[u] /= <<>>
    /\ Run(u, "Dec", GuiLine("Dec"))
    /\ WriteInput(u, ct[u])
    /\ ct' = [ct EXCEPT ![u] = <<>>] /\ UNCHANGED pt

(* keyGen, until there is something that an old key would have to open.    *)
keyGen(u) ==
    /\ protocol /= "files" /\ boxes = <<>>
    /\ Run(u, "Gen", Pair("function", "Gen"))
    /\ UNCHANGED <<file, panes>>

Command(u) ==
    /\ protocol = "files" /\ u = CHOOSE v \in User : TRUE
    /\ \E line \in ManualLines : Run(u, "", line)
    /\ UNCHANGED <<file, panes>>

(* What a window shows is copied to the other user's.                      *)
Copy(u) ==
    /\ \A v \in User : proc[v].at = "idle"
    /\ pt[u] /= <<>> /\ ct[Peer(u)] /= pt[u]
    /\ ct' = [ct EXCEPT ![Peer(u)] = pt[u]]
    /\ UNCHANGED <<protocol, files, pt, proc, boxes, runs, history, faults>>

Edit(u) ==
    /\ protocol = "files" /\ u = CHOOSE v \in User : TRUE
    /\ proc[u].at = "idle" /\ runs < MaxRuns
    /\ \E text \in Edited : file' = [file EXCEPT ![u]["plain"] = text]
    /\ UNCHANGED <<protocol, keyFile, ratchet, pads, panes, proc, boxes, runs,
                   history, faults>>

---------------------------------------------------------------------------
(* The tool: configuration, keys, input and what is made of it.            *)

Fault(f) == Cardinality(faults) < MaxFaults /\ f \notin faults /\ faults' = faults \union {f}

At(u, at) == proc' = [proc EXCEPT ![u].at = at]

(* exitFailure ends the tool as its end does, but for the message.         *)
exitFailure(u) == At(u, "clean")

(* loadKey of every key file, RprotInit or OprotInit.                      *)
HasKey(u) == keyFile[u] = "whole" /\ (protocol = "asym" => keyFile[Peer(u)] = "whole")

(* RprotInit and OprotInit open a key file that is not there by making it. *)
NoKey(u) ==
    /\ fn(u) \in {"Enc", "Dec"} /\ ~HasKey(u)
    /\ keyFile' = IF protocol \in {"dratchet", "otp"}
                    THEN [keyFile EXCEPT ![u] = "part"] ELSE keyFile
    /\ exitFailure(u)
    /\ UNCHANGED <<ratchet, pads, boxes, tried, stuck>>

(* The file a handle stands for, two to four bytes long.                   *)
BoxBytes(n) == SubSeq(<<250 + n, 3 * n, 129, 64 + n>>, 1, 2 + (n % 3))

(* What is left of the keys, and what a ciphertext is made with.  With the *)
(* same key on both sides, or each other's, there is nothing to tell       *)
(* apart.                                                                  *)
symmetricEnc(u) == [rprot |-> ratchet[u], pads |-> pads[u], body |-> [key |-> "shared"]]

dratchetEnc(u, n) ==
    LET r == RPEncrypt(ratchet[u], n, <<"fresh", u, n>>)
    IN  [rprot |-> RPEncryptFinish(r.prot), pads |-> pads[u], body |-> r.text]

otpEnc(u, n) ==
    LET r == O!OPEncrypt(O!OprotInit(pads[u]), n)
    IN  [rprot |-> ratchet[u], pads |-> r.prot, body |-> r.text]

Sealed(u, n) == CASE protocol = "dratchet" -> dratchetEnc(u, n)
                  [] protocol = "otp" -> otpEnc(u, n)
                  [] OTHER -> symmetricEnc(u)

Enc(u) ==
    LET n == Len(boxes) + 1
        s == Sealed(u, n)
    IN  /\ fn(u) = "Enc" /\ HasKey(u)
        /\ IF protocol = "otp" /\ ~O!HasPad(pads[u])
             THEN exitFailure(u) /\ UNCHANGED <<pads, boxes>>
             ELSE /\ pads' = [pads EXCEPT ![u] = s.pads]
                  /\ boxes' = Append(boxes, [by |-> u, text |-> Content(u, "inputFile"),
                                             body |-> s.body])
                  /\ proc' = [proc EXCEPT ![u].at = "trunc", ![u].key = protocol = "dratchet",
                                          ![u].rprot = s.rprot, ![u].box = n,
                                          ![u].data = BinToB64(BoxBytes(n))]
        /\ UNCHANGED <<keyFile, ratchet, tried, stuck>>

(* What was sealed, if the bytes are a ciphertext: 0 if they are not.      *)
BoxOf(bytes) ==
    LET is == {n \in 1 .. Len(boxes) : BoxBytes(n) = bytes}
    IN  IF is = {} THEN 0 ELSE CHOOSE n \in is : TRUE

(* Whether it opens, and what is left of the keys.                        *)
symmetricDec(u, n) == [ok |-> n > 0, rprot |-> ratchet[u], pads |-> pads[u]]

dratchetDec(u, n) ==
    LET r == RPDecrypt(ratchet[u], boxes[n].body)
    IN  [ok |-> r.ok, rprot |-> r.prot, pads |-> pads[u]]

otpDec(u, n) ==
    LET r == O!OPDecrypt(O!OprotInit(pads[u]), boxes[n].body)
    IN  [ok |-> r.ok, rprot |-> ratchet[u], pads |-> r.prot]

Unsealed(u, n) == CASE protocol = "dratchet" /\ n > 0 -> dratchetDec(u, n)
                    [] protocol = "otp" /\ n > 0 -> otpDec(u, n)
                    [] OTHER -> symmetricDec(u, n)

(* u has tried every ciphertext of the other's in the order they were      *)
(* made, and this is the next.  The one-time pad takes pad for each        *)
(* attempt, the others only forgive what was opened before.                *)
InOrder(u, n) ==
    LET theirs == SelectSeq([k \in 1 .. Len(boxes) |-> k], LAMBDA k : boxes[k].by /= u)
        next == SelectSeq(theirs, LAMBDA k : \A i \in 1 .. Len(tried[u]) : tried[u][i] /= k)
    IN  /\ next /= <<>> /\ n = Head(next)
        /\ protocol = "otp" => tried[u] = SubSeq(theirs, 1, Len(tried[u]))

Dec(u) ==
    LET in == Content(u, "inputFile")
        n == IF IsB64(in) THEN BoxOf(B64ToBin(in)) ELSE 0
        r == Unsealed(u, n)
        whole == {k \in 1 .. Len(boxes) : in = Append(BinToB64(BoxBytes(k)), 10)}
    IN  /\ fn(u) = "Dec" /\ HasKey(u)
        /\ pads' = [pads EXCEPT ![u] = r.pads]
        /\ proc' = [proc EXCEPT ![u].at = IF r.ok THEN "trunc" ELSE "clean",
                                ![u].key = protocol = "dratchet",
                                ![u].rprot = r.rprot,
                                ![u].data = IF r.ok THEN boxes[n].text ELSE <<>>]
        /\ tried' = [tried EXCEPT ![u] = @ \o SetToSeq(whole)]
        /\ stuck' = (stuck \/ (~r.ok /\ faults = {} /\ \E k \in whole : InOrder(u, k)))
        /\ UNCHANGED <<keyFile, ratchet, boxes>>

(* symmetricGen, asymmetricGen, dratchetGen and otpGen: the user takes the *)
(* matching key to the other's machine.                                    *)
Gen(u) ==
    /\ fn(u) = "Gen"
    /\ At(u, "trunc")
    /\ UNCHANGED <<keyFile, ratchet, pads, boxes, tried, stuck>>

Made(u) == IF protocol = "asym" THEN {u} ELSE User

(* A hash that no two texts share, but for its first byte.                 *)
naclHash(text) ==
    LET f == CHOOSE g \in [Edited -> 1 .. Cardinality(Edited)] :
                \A s, t \in Edited : g[s] = g[t] => s = t
    IN  <<9, f[text]>>

(* saveEncodedFile and loadEncodedFile.                                    *)
Encoded(u, bytes) == IF Has(u, "binaryEncoding") THEN bytes ELSE BinToB64(bytes)
IsEncoded(u, text) == Has(u, "binaryEncoding") \/ IsB64(text)
Decoded(u, text) == IF Has(u, "binaryEncoding") THEN text ELSE B64ToBin(text)

Loaded(u) == Has(u, "inputFile") /\ Content(u, "inputFile") /= Absent

(* A function without a key: data is to be saved, if there is any.         *)
Filter(u, ok, data) ==
    /\ IF Loaded(u) /\ Has(u, "outputFile") /\ ok
         THEN proc' = [proc EXCEPT ![u].at = "trunc", ![u].data = data]
         ELSE exitFailure(u)
    /\ UNCHANGED <<keyFile, ratchet, pads, boxes, tried, stuck>>

encodeBase64(u) ==
    fn(u) = "encodeBase64" /\ Filter(u, TRUE, BinToB64(Content(u, "inputFile")))

decodeBase64(u) ==
    LET in == Content(u, "inputFile")
    IN  fn(u) = "decodeBase64" /\ Filter(u, IsB64(in), B64ToBin(in))

hash(u) ==
    fn(u) = "hash" /\ Filter(u, TRUE, Encoded(u, naclHash(Content(u, "inputFile"))))

(* A digest of the right length, then the bytes.                           *)
Matches(digest, of) == Len(digest) = Len(of) /\ digest = of

verifyHash(u) ==
    LET digest == Content(u, "hashFile")
    IN  /\ fn(u) = "verifyHash"
        /\ proc' = [proc EXCEPT ![u].at = "clean",
                      ![u].verified = /\ Loaded(u) /\ digest /= Absent
                                      /\ IsEncoded(u, digest)
                                      /\ Matches(Decoded(u, digest),
                                                 naclHash(Content(u, "inputFile")))]
        /\ UNCHANGED <<keyFile, ratchet, pads, boxes, tried, stuck>>

(* main, up to the function and on to its output.                          *)
ConfInit(u) ==
    LET lexed == Lexed(proc[u].line)
    IN  /\ proc[u].at = "conf"
        /\ IF IsConf(lexed)
             THEN proc' = [proc EXCEPT ![u].at = "load", ![u].line = <<>>,
                                       ![u].conf = ConfTable(lexed.tokens)]
             ELSE exitFailure(u)
        /\ UNCHANGED <<protocol, files, panes, boxes, runs, history, faults>>

main(u) ==
    /\ proc[u].at = "load"
    /\ \/ NoKey(u) \/ Enc(u) \/ Dec(u) \/ Gen(u)
       \/ encodeBase64(u) \/ decodeBase64(u) \/ hash(u) \/ verifyHash(u)
    /\ UNCHANGED <<protocol, file, panes, runs, out, saver, shown, source, faults>>

---------------------------------------------------------------------------
(* fileSave: open and truncate, then write.                                *)

unsaved == <<protocol, ratchet, pads, panes, boxes, runs, shown, tried, stuck>>

IsGen(u) == fn(u) = "Gen"

(* Mutant of Truncated: the file keeps what it held.                       *)
TruncatedNot(old) == IF old = Absent THEN <<>> ELSE old

(* fileTrunc to nothing, of a file fileOpen has made if there was none.    *)
Truncated(old) == <<>>

SaveTrunc(u) ==
    LET path == Path(u, "outputFile")
    IN  /\ proc[u].at = "trunc" /\ ~IsGen(u)
        /\ At(u, "write")
        /\ file' = [file EXCEPT ![u][path] = Truncated(@)]
        /\ saver' = IF path = "OUT" THEN [saver EXCEPT ![u] = proc[u].run] ELSE saver
        /\ source' = [source EXCEPT !.coded = IF path = "coded" THEN Absent ELSE @,
                                    !.digest = IF path = "digest" THEN file[u]["plain"] ELSE @]
        /\ UNCHANGED <<unsaved, keyFile, out, faults>>

(* The first k bytes are written over what the file holds.                 *)
fileWrite(u, k) ==
    LET path == Path(u, "outputFile")
    IN  /\ file' = [file EXCEPT ![u][path] =
                      SubSeq(proc[u].data, 1, k) \o SubSeq(@, k + 1, Len(@))]
        /\ out' = IF proc[u].box > 0 /\ k > 0 THEN out \union {proc[u].box} ELSE out

SaveWrite(u) ==
    /\ proc[u].at = "write" /\ ~IsGen(u)
    /\ proc' = [proc EXCEPT ![u].at = "clean", ![u].completed = TRUE]
    /\ fileWrite(u, Len(proc[u].data))
    /\ source' = IF fn(u) = "encodeBase64" THEN [source EXCEPT !.coded = file[u]["plain"]]
                                           ELSE source
    /\ UNCHANGED <<unsaved, keyFile, saver, faults>>

(* The disk is full, at the first byte or later.                           *)
SaveFails(u) ==
    /\ Fault("save")
    /\ proc[u].at \in {"trunc", "write"} /\ ~IsGen(u)
    /\ exitFailure(u)
    /\ IF proc[u].at = "trunc" THEN UNCHANGED <<file, out>>
       ELSE \E k \in 0 .. Len(proc[u].data) - 1 : fileWrite(u, k)
    /\ UNCHANGED <<unsaved, keyFile, saver, source>>

(* RprotMake and OprotMake write two key files, the others the user's own  *)
(* (of a symmetric key both have a copy).                                  *)
KeyFiles(u, at, becomes) ==
    /\ proc[u].at = at /\ IsGen(u)
    /\ keyFile' = [v \in User |-> IF v \in Made(u) THEN becomes ELSE keyFile[v]]
    /\ UNCHANGED <<unsaved, file, out, saver, source>>

KeyTrunc(u) == KeyFiles(u, "trunc", "part") /\ At(u, "write") /\ UNCHANGED faults
KeyWrite(u) == KeyFiles(u, "write", "whole") /\ exitFailure(u) /\ UNCHANGED faults

(* The first of two may be whole before a write fails.  RprotMake says     *)
(* that it has made the keys all the same.                                 *)
KeyFails(u) ==
    /\ Fault("save")
    /\ proc[u].at = "write" /\ IsGen(u) /\ exitFailure(u)
    /\ \/ UNCHANGED keyFile
       \/ protocol \in {"dratchet", "otp"} /\ keyFile' = [keyFile EXCEPT ![u] = "whole"]
    /\ UNCHANGED <<unsaved, file, out, saver, source>>

---------------------------------------------------------------------------
(* The end of the tool.                                                    *)

(* Mutant of cleanupStatics: exitFailure does without it.                  *)
cleanupCompleted(u) ==
    /\ proc[u].at = "clean"
    /\ At(u, "exit")
    /\ ratchet' = IF proc[u].key /\ proc[u].completed
                    THEN [ratchet EXCEPT ![u] = proc[u].rprot] ELSE ratchet
    /\ UNCHANGED <<protocol, file, keyFile, pads, panes, boxes, runs, history, faults>>

(* RprotDe writes the state back, whether the run succeeded or not.        *)
cleanupStatics(u) ==
    /\ proc[u].at = "clean"
    /\ At(u, "exit")
    /\ ratchet' = IF proc[u].key THEN [ratchet EXCEPT ![u] = proc[u].rprot] ELSE ratchet
    /\ UNCHANGED <<protocol, file, keyFile, pads, panes, boxes, runs, history, faults>>

(* The order in which RprotDe writes the parts of the state.               *)
KeyParts == <<"status", "outKey", "inKey", "outSec", "inSec", "ephPK", "ephSK">>

(* A write in RprotDe fails: the file is new up to there and old after it, *)
(* and nobody is told.                                                     *)
cleanupFails(u) ==
    /\ Fault("cleanup")
    /\ proc[u].at = "clean" /\ proc[u].key
    /\ At(u, "exit")
    /\ \E k \in 0 .. Len(KeyParts) - 1 :
         ratchet' = [ratchet EXCEPT ![u] = [p \in DOMAIN @ |->
                        IF \E i \in 1 .. k : KeyParts[i] = p THEN proc[u].rprot[p] ELSE @[p]]]
    /\ UNCHANGED <<protocol, file, keyFile, pads, panes, boxes, runs, history>>

(* The tool is killed.                                                     *)
Killed(u) ==
    /\ Fault("kill")
    /\ proc[u].at \in {"conf", "load", "trunc", "write", "clean"}
    /\ At(u, "exit")
    /\ UNCHANGED <<protocol, files, panes, boxes, runs, history>>

(* Mutant of Removed: the output file is not removed.                      *)
RemovedInput(u) == [file EXCEPT ![u]["IN"] = Absent]

(* rmFileIfExists of the input and, once shown, of the output.             *)
Removed(u) == [file EXCEPT ![u]["IN"] = Absent, ![u]["OUT"] = Absent]

(* The window shows the output; if the tool has left none, opening it      *)
(* raises an exception.                                                    *)
Show(u) ==
    LET result == file[u]["OUT"]
        none == proc[u].button = "Gen" \/ result = Absent
    IN  /\ proc[u].at = "exit" /\ protocol /= "files"
        /\ proc' = [proc EXCEPT ![u] = Idle]
        /\ file' = IF none THEN [file EXCEPT ![u]["IN"] = Absent] ELSE Removed(u)
        /\ pt' = IF ~none /\ proc[u].button = "Enc" THEN [pt EXCEPT ![u] = result] ELSE pt
        /\ ct' = IF ~none /\ proc[u].button = "Dec" THEN [ct EXCEPT ![u] = result] ELSE ct
        /\ shown' = IF none THEN shown
                    ELSE [shown EXCEPT ![u] = [run |-> proc[u].run, saver |-> saver[u],
                                 whole |-> proc[u].completed => result = proc[u].data]]
    /\ UNCHANGED <<protocol, keyFile, ratchet, pads, boxes, runs, out, saver, tried, stuck,
                   source, faults>>

(* The window is closed while the tool runs, and opened again.             *)
Closed(u) ==
    /\ Fault("closed")
    /\ proc[u].at = "exit" /\ protocol /= "files"
    /\ proc' = [proc EXCEPT ![u] = Idle]
    /\ pt' = [pt EXCEPT ![u] = <<>>] /\ ct' = [ct EXCEPT ![u] = <<>>]
    /\ UNCHANGED <<protocol, files, boxes, runs, history>>

Prompt(u) ==
    /\ proc[u].at = "exit" /\ protocol = "files"
    /\ proc' = [proc EXCEPT ![u] = Idle]
    /\ UNCHANGED <<protocol, files, panes, boxes, runs, history, faults>>

---------------------------------------------------------------------------
CToolNext == \E u \in User :
    \/ \E text \in Typed : encryptAttempt(u, text)
    \/ decryptAttempt(u) \/ keyGen(u) \/ Command(u) \/ Copy(u) \/ Edit(u)
    \/ ConfInit(u) \/ main(u) \/ SaveTrunc(u) \/ SaveWrite(u) \/ SaveFails(u)
    \/ KeyTrunc(u) \/ KeyWrite(u) \/ KeyFails(u)
    \/ cleanupStatics(u) \/ cleanupFails(u) \/ Killed(u)
    \/ Show(u) \/ Closed(u) \/ Prompt(u)

CToolSpec == CToolInit /\ [][CToolNext]_vars

---------------------------------------------------------------------------
(* The types: files hold bytes, and a key once whole is only lost to a     *)
(* generation of keys that does not end.                                   *)
TypeOK ==
    /\ protocol \in Protocols
    /\ \A u \in User, p \in Paths :
         file[u][p] = Absent \/ \A k \in 1 .. Len(file[u][p]) : file[u][p][k] \in 0 .. 255
    /\ keyFile \in [User -> {"absent", "part", "whole"}]
    /\ \A u \in User : proc[u].at \in {"idle", "conf", "load", "trunc", "write", "clean", "exit"}
    /\ out \subseteq 1 .. Len(boxes)
    /\ runs \in 0 .. MaxRuns
    /\ faults \subseteq {"save", "cleanup", "kill", "closed"}

(* What a window shows is what this press of the button made, all of it if *)
(* the tool completed, and never a leftover: unless a window has been      *)
(* closed before it removed the output file.  And verifyHash only prints   *)
(* Success on a hash of what the file holds now, also when the file of the *)
(* hash is a part of one or in another encoding.                           *)
HashTells ==
    \A u \in User : proc[u].verified => source.digest = file[u]["plain"]
ShowsOwnResult ==
    /\ "closed" \notin faults =>
           \A u \in User : shown[u].saver = shown[u].run /\ shown[u].whole
    /\ HashTells

(* Without faults, what one user encrypts and the other copies opens, as   *)
(* long as the reader takes it in order: the two key files stay in step    *)
(* from run to run, and the characters survive the panes and their new     *)
(* lines.                                                                  *)
OpensInOrder == TypeOK /\ ~stuck

(* No ratchet key seals two ciphertexts, although the output is saved      *)
(* before the key: a save that fails still moves the key on.  (A tool that *)
(* is killed, or cannot write the key, may use it again.)                  *)
RatchetKeyUsedOnce ==
    (protocol = "dratchet" /\ faults \intersect {"kill", "cleanup"} = {}) =>
        \A m, n \in out : (m /= n /\ boxes[m].by = boxes[n].by) =>
            boxes[m].body.key /= boxes[n].body.key

(* No part of the pad is used twice, whatever fails and whenever the tool  *)
(* is killed: the pad is off its file before anything is made of it.       *)
PadTakenOnce ==
    protocol = "otp" =>
        \A m, n \in 1 .. Len(boxes) : (m /= n /\ boxes[m].by = boxes[n].by) =>
            boxes[m].body.pad /= boxes[n].body.pad

(* What encrypts is used up, with either protocol that promises it.        *)
KeyUsedOnce == RatchetKeyUsedOnce /\ PadTakenOnce

(* What decodeBase64 leaves is what encodeBase64 was given, whatever the   *)
(* files held before; and no command writes the file it reads, though a    *)
(* comment names it as the output and a second key would.                  *)
DecodesWhatWasEncoded ==
    [][\A u \in User :
         /\ (SaveWrite(u) /\ fn(u) = "decodeBase64" /\ source.coded /= Absent) =>
               file'[u]["back"] = source.coded
         /\ file'[u]["plain"] /= file[u]["plain"] => proc' = proc]_vars
=============================================================================
