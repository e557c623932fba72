---------------------------- MODULE WorkQProofs ----------------------------
(***************************************************************************)
(* However many workers, signals and tasks: no task is in two hands, none  *)
(* that was destroyed is in any, and each callback is called by whom it is *)
(* meant for.                                                              *)
(***************************************************************************)
EXTENDS WorkQ, FiniteSetTheorems, SequenceTheorems, TLAPS

(* A worker has a task while it runs one, or polls another meanwhile, and  *)
(* is in WorkQPoll with one from its call to its answer.                   *)
Duties ==
  \A w \in Workers :
    /\ held[w] # None => pc[w] \in {"run", "lock", "check", "write", "failed"}
    /\ arg[w] # None <=> pc[w] \in {"lock", "check", "write", "failed"}
    /\ pc[w] = "run" => held[w] # None

(* A sequence has no task twice.                                           *)
Once(s) == \A i, j \in DOMAIN s : s[i] \in Tasks /\ s[i] = s[j] => i = j

(* With the poller or in the queue.                                        *)
Waiting(t) ==
  t \in Range(pip) \/ t \in Range(trackers) \/ t \in Range(tasks)

(* OneOwner without its counting: where a task is it is once, and it is    *)
(* nowhere else.                                                           *)
OneHand ==
  /\ Once(pip) /\ Once(trackers) /\ Once(tasks)
  /\ \A t \in Tasks : /\ ~(t \in Range(pip) /\ t \in Range(trackers))
                      /\ ~(t \in Range(pip) /\ t \in Range(tasks))
                      /\ ~(t \in Range(trackers) /\ t \in Range(tasks))
  /\ \A w \in Workers : held[w] # None => ~ Waiting(held[w])
  /\ \A w \in Workers : arg[w] # None => ~ Waiting(arg[w])
  /\ \A v, w \in Workers : held[v] # None /\ held[v] = held[w] => v = w
  /\ \A v, w \in Workers : arg[v] # None /\ arg[v] = arg[w] => v = w
  /\ \A v, w \in Workers : arg[v] # None => arg[v] # held[w]

(* A task that was destroyed is nowhere.  It was born: without that the    *)
(* invariant is not inductive, a new task could have been destroyed before.*)
Gone ==
  \A t \in Tasks : destroyed[t] # 0 =>
    /\ t \in born /\ ~ Waiting(t)
    /\ \A w \in Workers : held[w] # t /\ arg[w] # t

(* FaceMatches, and the face of a task that is on its way to the poller.   *)
Faces ==
  /\ FaceMatches
  /\ \A w \in Workers : arg[w] # None => face[arg[w]] = "reface"

(* The inductive invariant.                                                *)
IInv == TypeOK /\ Duties /\ OneHand /\ Gone /\ Faces

(* r is s without x, which s holds once if it is a task.                   *)
Without(r, s, x) ==
  /\ \A y : y \in Range(r) => y \in Range(s)
  /\ Once(s) => Once(r) /\ (x \in Tasks => x \notin Range(r))

(* A sequence that gets one more element at its end.                       *)
LEMMA Appended ==
  ASSUME NEW S, NEW s \in Seq(S), NEW x \in S
  PROVE  /\ Append(s, x) \in Seq(S) /\ Len(Append(s, x)) = Len(s) + 1
         /\ \A y : y \in Range(Append(s, x)) <=> y \in Range(s) \/ y = x
         /\ Once(s) /\ (x \in Tasks => x \notin Range(s)) => Once(Append(s, x))
<1>1. /\ DOMAIN s = 1 .. Len(s) /\ Len(s) \in Nat
      /\ DOMAIN Append(s, x) = 1 .. Len(s) + 1
      /\ \A i \in 1 .. Len(s) : Append(s, x)[i] = s[i]
      /\ Append(s, x)[Len(s) + 1] = x
  OBVIOUS
<1>2. \A i : i \in 1 .. Len(s) + 1 <=> i \in 1 .. Len(s) \/ i = Len(s) + 1
  BY <1>1
<1>3. Append(s, x) \in Seq(S) /\ Len(Append(s, x)) = Len(s) + 1
  OBVIOUS
<1> QED BY <1>1, <1>2, <1>3 DEF Range, Once

(* A sequence that loses the one at its i-th place.                        *)
LEMMA Shorter ==
  ASSUME NEW S, NEW s \in Seq(S), NEW r \in Seq(S), NEW i \in 1 .. Len(s),
         Len(r) = Len(s) - 1,
         \A j \in 1 .. Len(s) - 1 : r[j] = IF j < i THEN s[j] ELSE s[j + 1]
  PROVE  Without(r, s, s[i])
<1>1. /\ DOMAIN s = 1 .. Len(s) /\ Len(s) \in Nat
      /\ DOMAIN r = 1 .. Len(s) - 1
  OBVIOUS
<1> DEFINE k(j) == IF j < i THEN j ELSE j + 1
<1>2. \A j \in 1 .. Len(s) - 1 : k(j) \in 1 .. Len(s) /\ k(j) # i
  BY <1>1
<1>3. \A j, l \in 1 .. Len(s) - 1 : k(j) = k(l) => j = l
  BY <1>1
<1>4. \A j \in 1 .. Len(s) - 1 : r[j] = s[k(j)]
  BY <1>1
<1> HIDE DEF k
<1>5. \A y : y \in Range(r) => y \in Range(s)
  BY <1>1, <1>2, <1>4 DEF Range
<1>6. ASSUME Once(s) PROVE Once(r)
  BY <1>1, <1>2, <1>3, <1>4, <1>6 DEF Once
<1>7. ASSUME Once(s), s[i] \in Tasks PROVE s[i] \notin Range(r)
  BY <1>1, <1>2, <1>4, <1>7 DEF Once, Range
<1> QED BY <1>5, <1>6, <1>7 DEF Without

(* The last element is popped.                                             *)
LEMMA Popped ==
  ASSUME NEW S, NEW s \in Seq(S), s # <<>>
  PROVE  /\ Front(s) \in Seq(S) /\ Last(s) \in S /\ Last(s) \in Range(s)
         /\ Without(Front(s), s, Last(s))
<1>1. /\ Len(s) \in Nat \ {0} /\ DOMAIN s = 1 .. Len(s)
      /\ \A j \in 1 .. Len(s) : s[j] \in S
  OBVIOUS
<1>2. Last(s) = s[Len(s)] /\ Front(s) = SubSeq(s, 1, Len(s) - 1)
  BY DEF Last, Front
<1>3. /\ Front(s) \in Seq(S) /\ Len(Front(s)) = Len(s) - 1
      /\ \A j \in 1 .. Len(s) - 1 : Front(s)[j] = s[j]
  BY <1>1, <1>2, SubSeqProperties
<1>4. Last(s) \in S /\ Last(s) \in Range(s)
  BY <1>1, <1>2 DEF Range
<1>5. \A j \in 1 .. Len(s) - 1 :
        Front(s)[j] = IF j < Len(s) THEN s[j] ELSE s[j + 1]
  BY <1>1, <1>3
<1>6. Without(Front(s), s, s[Len(s)])
  <2>1. Len(s) \in 1 .. Len(s)
    BY <1>1
  <2> QED BY <1>3, <1>5, <2>1, Shorter
<1> QED BY <1>2, <1>3, <1>4, <1>6

(* The first packet is read.                                               *)
LEMMA Read ==
  ASSUME NEW S, NEW s \in Seq(S), s # <<>>
  PROVE  /\ Tail(s) \in Seq(S) /\ Head(s) \in S /\ Head(s) \in Range(s)
         /\ Len(Tail(s)) <= Len(s) /\ Without(Tail(s), s, Head(s))
<1>1. /\ Len(s) \in Nat \ {0} /\ DOMAIN s = 1 .. Len(s) /\ Head(s) = s[1]
      /\ \A j \in 1 .. Len(s) : s[j] \in S
      /\ Tail(s) \in Seq(S) /\ Len(Tail(s)) = Len(s) - 1
      /\ \A j \in 1 .. Len(s) - 1 : Tail(s)[j] = s[j + 1]
  OBVIOUS
<1>2. Head(s) \in S /\ Head(s) \in Range(s)
  BY <1>1 DEF Range
<1>3. /\ \A j \in 1 .. Len(s) - 1 :
           Tail(s)[j] = IF j < 1 THEN s[j] ELSE s[j + 1]
      /\ 1 \in 1 .. Len(s)
  BY <1>1
<1>4. Without(Tail(s), s, Head(s))
  BY <1>1, <1>3, Shorter
<1> QED BY <1>1, <1>2, <1>4

(* A tracker is compacted away.                                            *)
LEMMA Removed ==
  ASSUME NEW S, NEW s \in Seq(S), NEW i \in 1 .. Len(s)
  PROVE  /\ RemoveAt(s, i) \in Seq(S) /\ s[i] \in S /\ s[i] \in Range(s)
         /\ Without(RemoveAt(s, i), s, s[i])
<1>1. /\ Len(s) \in Nat /\ DOMAIN s = 1 .. Len(s) /\ i \in Int
      /\ \A j \in 1 .. Len(s) : s[j] \in S
  OBVIOUS
<1> DEFINE a == SubSeq(s, 1, i - 1)
           b == SubSeq(s, i + 1, Len(s))
<1>2. /\ a \in Seq(S) /\ Len(a) = i - 1
      /\ \A j \in 1 .. i - 1 : a[j] = s[j]
  <2>1. /\ 1 \in Int /\ i - 1 \in Int /\ \A j \in 1 .. i - 1 : s[j] \in S
    BY <1>1
  <2> QED BY <1>1, <2>1, SubSeqProperties
<1>3. /\ b \in Seq(S) /\ Len(b) = Len(s) - i
      /\ \A j \in 1 .. Len(s) - i : b[j] = s[i + j]
  <2>1. /\ i + 1 \in Int /\ Len(s) \in Int
        /\ \A j \in i + 1 .. Len(s) : s[j] \in S
    BY <1>1
  <2>2. /\ b \in Seq(S)
        /\ Len(b) = IF i + 1 <= Len(s) THEN Len(s) - (i + 1) + 1 ELSE 0
        /\ \A j \in 1 .. Len(s) - (i + 1) + 1 : b[j] = s[(i + 1) + j - 1]
    BY <2>1, SubSeqProperties
  <2> HIDE DEF a, b
  <2>3. \A j \in 1 .. Len(s) - i : (i + 1) + j - 1 = i + j
    BY <1>1
  <2>4. i \in Nat \ {0} /\ i <= Len(s)
    BY <1>1
  <2>5. Len(s) - (i + 1) + 1 = Len(s) - i
    BY <1>1, <2>4
  <2> QED BY <1>1, <2>2, <2>3, <2>4, <2>5, SMTT(60)
<1> HIDE DEF a, b
<1>4. /\ a \o b \in Seq(S) /\ Len(a \o b) = Len(s) - 1
      /\ \A j \in 1 .. Len(s) - 1 :
           (a \o b)[j] = IF j < i THEN s[j] ELSE s[j + 1]
  <2>1. /\ a \o b \in Seq(S) /\ Len(a \o b) = Len(a) + Len(b)
        /\ \A j \in 1 .. Len(a) + Len(b) :
             (a \o b)[j] = IF j <= Len(a) THEN a[j] ELSE b[j - Len(a)]
    BY <1>2, <1>3, ConcatProperties
  <2>2. Len(a) = i - 1 /\ Len(a) + Len(b) = Len(s) - 1
    BY <1>1, <1>2, <1>3
  <2>3. ASSUME NEW j \in 1 .. Len(s) - 1
        PROVE  (a \o b)[j] = IF j < i THEN s[j] ELSE s[j + 1]
    <3>1. (a \o b)[j] = IF j <= i - 1 THEN a[j] ELSE b[j - (i - 1)]
      BY <2>1, <2>2, <2>3
    <3>2. CASE j < i
      <4>1. j \in 1 .. i - 1
        BY <1>1, <2>3, <3>2
      <4> QED BY <1>1, <1>2, <3>1, <3>2, <4>1
    <3>3. CASE ~(j < i)
      <4>1. j - (i - 1) \in 1 .. Len(s) - i /\ i + (j - (i - 1)) = j + 1
        BY <1>1, <2>3, <3>3
      <4> QED BY <1>1, <1>3, <3>1, <3>3, <4>1
    <3> QED BY <3>2, <3>3
  <2> QED BY <2>1, <2>2, <2>3
<1>5. RemoveAt(s, i) = a \o b
  BY DEF RemoveAt, a, b
<1>6. s[i] \in S /\ s[i] \in Range(s)
  BY <1>1 DEF Range
<1> QED BY <1>4, <1>5, <1>6, Shorter

(* The counters count to two.                                              *)
LEMMA Counted ==
  ASSUME destroyed \in [Tasks -> 0 .. 2]
  PROVE  /\ \A S : De(S) \in [Tasks -> 0 .. 2]
         /\ \A n \in Nat : Twice(n) \in 0 .. 2
<1>1. \A n \in Nat : Twice(n) \in 0 .. 2
  BY DEF Twice
<1>2. \A t \in Tasks : destroyed[t] + 1 \in Nat
  OBVIOUS
<1> QED BY <1>1, <1>2 DEF De

(* A push puts the task last, or destroys it.                              *)
LEMMA PushTyped ==
  ASSUME TypeOK, NEW t \in born, NEW f, WorkQPush(t, f)
  PROVE  tasks' \in Seq(born) /\ destroyed' \in [Tasks -> 0 .. 2]
<1>1. tasks \in Seq(born) /\ destroyed \in [Tasks -> 0 .. 2]
  BY DEF TypeOK
<1>2. Append(tasks, t) \in Seq(born)
  BY <1>1, Appended
<1>3. De({t}) \in [Tasks -> 0 .. 2]
  BY <1>1, Counted
<1> QED BY <1>1, <1>2, <1>3 DEF WorkQPush

(* A signal wakes a sleeper or nobody; everybody else goes to f.           *)
LEMMA Signalled ==
  ASSUME pc \in [Workers \cup Signals -> Places],
         NEW f \in [Workers \cup Signals -> Places], PCondSignal(f)
  PROVE  /\ pc' \in [Workers \cup Signals -> Places]
         /\ \A w \in Workers :
              pc'[w] = f[w] \/ (pc[w] = "asleep" /\ pc'[w] = "pop")
<1>1. CASE pc' = f
  BY <1>1
<1>2. CASE \E x \in Asleep : pc' = [f EXCEPT ![x] = "pop"]
  BY <1>2 DEF Asleep, Places
<1> QED BY <1>1, <1>2 DEF PCondSignal

(* Every step keeps the types and who is at what.                          *)
LEMMA TypeStep ==
  ASSUME IInv, [Next]_vars
  PROVE  TypeOK' /\ Duties'
<1>0. /\ TypeOK /\ Duties
      /\ Workers \cap Signals = {} /\ None \notin Tasks \cup Workers
      /\ PipeCap \in Nat \ {0} /\ MaxWakes \in Nat
  BY WorkQAssumption DEF IInv
<1>p. pc \in [Workers \cup Signals -> Places]
  BY <1>0 DEF TypeOK
<1>1. ASSUME NEW w \in Workers, Pop(w)
      PROVE  TypeOK' /\ Duties'
  <2> USE <1>0, <1>1
        DEF Pop, queVars, pipeVars, loopVars, workVars, taskVars, envVars
  <2>1. TypeOK'
    <3>1. tasks \in Seq(born) /\ tasks # <<>>
      BY DEF TypeOK
    <3>2. Front(tasks) \in Seq(born) /\ Last(tasks) \in born
      BY <3>1, Popped
    <3> QED BY <3>2 DEF TypeOK, Places
  <2>2. Duties'
    <3>1. Last(tasks) # None
      <4>1. tasks \in Seq(born) /\ tasks # <<>> /\ None \notin born
        BY DEF TypeOK
      <4> QED BY <4>1, Popped
    <3> QED BY <3>1 DEF TypeOK, Duties
  <2> QED BY <2>1, <2>2
<1>2. ASSUME NEW w \in Workers, PopNothing(w)
      PROVE  TypeOK' /\ Duties'
  <2> DEFINE f == [pc EXCEPT ![w] = "gone"]
  <2> USE <1>0, <1>2
        DEF PopNothing, queVars, pipeVars, loopVars, workVars, taskVars,
            envVars
  <2>0. f \in [Workers \cup Signals -> Places] /\ PCondSignal(f)
    BY <1>p DEF Places
  <2>s. /\ pc' \in [Workers \cup Signals -> Places]
        /\ \A v \in Workers :
             pc'[v] = f[v] \/ (pc[v] = "asleep" /\ pc'[v] = "pop")
    BY <1>p, <2>0, Signalled
  <2>1. TypeOK'
    BY <2>s DEF TypeOK
  <2>2. Duties'
    BY <2>s DEF TypeOK, Duties
  <2> QED BY <2>1, <2>2
<1>3. ASSUME NEW w \in Workers, Finish(w)
      PROVE  TypeOK' /\ Duties'
  <2> USE <1>0, <1>3
        DEF Finish, queVars, pipeVars, loopVars, workVars, taskVars, envVars
  <2>1. TypeOK'
    <3>1. held[w] \in Tasks /\ destroyed \in [Tasks -> 0 .. 2]
      BY DEF TypeOK, Duties
    <3>2. Twice(destroyed[held[w]] + 1) \in 0 .. 2
      BY <3>1, Counted
    <3> QED BY <3>1, <3>2 DEF TypeOK, Places
  <2>2. Duties'
    BY DEF TypeOK, Duties
  <2> QED BY <2>1, <2>2
<1>4. ASSUME NEW w \in Workers, Fail(w)
      PROVE  TypeOK' /\ Duties'
  <2> USE <1>0, <1>4
        DEF Fail, queVars, pipeVars, loopVars, workVars, taskVars, envVars
  <2>1. TypeOK'
    BY DEF TypeOK, Places
  <2>2. Duties'
    BY DEF TypeOK, Duties
  <2> QED BY <2>1, <2>2
<1>5. ASSUME NEW w \in Workers, Repoll(w)
      PROVE  TypeOK' /\ Duties'
  <2> USE <1>0, <1>5
        DEF Repoll, queVars, pipeVars, loopVars, workVars, taskVars, envVars
  <2>1. TypeOK'
    BY DEF TypeOK, Places
  <2>2. Duties'
    BY DEF TypeOK, Duties
  <2> QED BY <2>1, <2>2
<1>6. ASSUME NEW w \in Workers, Requeue(w)
      PROVE  TypeOK' /\ Duties'
  <2> DEFINE f == [pc EXCEPT ![w] = "pop"]
  <2>0. /\ f \in [Workers \cup Signals -> Places] /\ PCondSignal(f)
        /\ held[w] \in born /\ WorkQPush(held[w], f)
    BY <1>0, <1>p, <1>6 DEF Requeue, WorkQPush, TypeOK, Duties, Places
  <2> HIDE DEF f
  <2>s. /\ pc' \in [Workers \cup Signals -> Places]
        /\ \A v \in Workers :
             pc'[v] = f[v] \/ (pc[v] = "asleep" /\ pc'[v] = "pop")
    BY <1>p, <2>0, Signalled
  <2>t. tasks' \in Seq(born) /\ destroyed' \in [Tasks -> 0 .. 2]
    BY <1>0, <2>0, PushTyped
  <2> USE <1>0, <1>6
        DEF Requeue, queVars, pipeVars, loopVars, workVars, taskVars, envVars
  <2>1. TypeOK'
    <3>1. /\ wakes' \in 0 .. MaxWakes
          /\ held' \in [Workers -> born \cup {None}]
      BY DEF TypeOK
    <3>2. UNCHANGED <<tdone, pip, wopen, pdone, pipetex, trackers, rev, at, loop,
                      arg, face, born, ready>>
      OBVIOUS
    <3> QED BY <2>s, <2>t, <3>1, <3>2 DEF TypeOK
  <2>2. Duties'
    BY <2>s DEF TypeOK, Duties, f
  <2> QED BY <2>1, <2>2
<1>7. ASSUME NEW w \in Workers, NEW t \in Tasks, Spawn(w, t)
      PROVE  TypeOK' /\ Duties'
  <2> USE <1>0, <1>7
        DEF Spawn, queVars, pipeVars, loopVars, workVars, taskVars, envVars
  <2>1. TypeOK'
    BY DEF TypeOK, Places
  <2>2. Duties'
    BY DEF TypeOK, Duties
  <2> QED BY <2>1, <2>2
<1>8. ASSUME NEW w \in Workers, PushLock(w)
      PROVE  TypeOK' /\ Duties'
  <2> USE <1>0, <1>8
        DEF PushLock, queVars, pipeVars, loopVars, workVars, taskVars, envVars
  <2>1. TypeOK'
    BY DEF TypeOK, Places
  <2>2. Duties'
    BY DEF TypeOK, Duties
  <2> QED BY <2>1, <2>2
<1>9. ASSUME NEW w \in Workers, PushCheck(w)
      PROVE  TypeOK' /\ Duties'
  <2> USE <1>0, <1>9
        DEF PushCheck, queVars, pipeVars, loopVars, workVars, taskVars, envVars
  <2>1. TypeOK'
    BY DEF TypeOK, Places
  <2>2. Duties'
    BY DEF TypeOK, Duties
  <2> QED BY <2>1, <2>2
<1>10. ASSUME NEW w \in Workers, PushWrite(w)
      PROVE  TypeOK' /\ Duties'
  <2> USE <1>0, <1>10
        DEF PushWrite, queVars, pipeVars, loopVars, workVars, taskVars, envVars
  <2>1. TypeOK'
    <3>1. /\ arg[w] \in born \cup {STOP} /\ pip \in Seq(born \cup {STOP})
          /\ Len(pip) < PipeCap /\ Len(pip) \in Nat
      BY DEF TypeOK, Duties
    <3>2. /\ pip' \in Seq(born \cup {STOP}) /\ Len(pip') = Len(pip) + 1
      BY <3>1, Appended
    <3>3. Len(pip') <= PipeCap
      BY <3>1, <3>2
    <3> QED BY <3>2, <3>3 DEF TypeOK, Places
  <2>2. Duties'
    BY DEF TypeOK, Duties
  <2> QED BY <2>1, <2>2
<1>11. ASSUME NEW w \in Workers, PushFull(w)
      PROVE  TypeOK' /\ Duties'
  <2> USE <1>0, <1>11
        DEF PushFull, queVars, pipeVars, loopVars, workVars, taskVars, envVars
  <2>1. TypeOK'
    BY DEF TypeOK, Places
  <2>2. Duties'
    BY DEF TypeOK, Duties
  <2> QED BY <2>1, <2>2
<1>12. ASSUME NEW w \in Workers, PollFails(w)
      PROVE  TypeOK' /\ Duties'
  <2> USE <1>0, <1>12
        DEF PollFails, queVars, pipeVars, loopVars, workVars, taskVars, envVars
  <2>1. TypeOK'
    <3> DEFINE n == destroyed[arg[w]] + (IF arg[w] \in HasDe THEN 2 ELSE 0)
                      + (IF held[w] = None THEN 0 ELSE 1)
    <3>1. arg[w] \in Tasks /\ destroyed \in [Tasks -> 0 .. 2] /\ n \in Nat
      BY DEF TypeOK, Duties
    <3>2. destroyed' = [destroyed EXCEPT ![arg[w]] = Twice(n)]
      OBVIOUS
    <3> HIDE DEF n
    <3>3. Twice(n) \in 0 .. 2
      BY <3>1, Counted
    <3>4. destroyed' \in [Tasks -> 0 .. 2]
      BY <3>1, <3>2, <3>3
    <3> QED BY <3>4 DEF TypeOK, Places
  <2>2. Duties'
    BY DEF TypeOK, Duties
  <2> QED BY <2>1, <2>2
<1>13. ASSUME NEW a \in Signals, Interrupt(a)
      PROVE  TypeOK' /\ Duties'
  <2> USE <1>0, <1>13
        DEF Interrupt, queVars, pipeVars, loopVars, workVars, taskVars, envVars
  <2>1. TypeOK'
    BY DEF TypeOK, Places
  <2>2. Duties'
    BY DEF TypeOK, Duties
  <2> QED BY <2>1, <2>2
<1>14. ASSUME NEW a \in Workers \cup Signals, StopSwap(a)
      PROVE  TypeOK' /\ Duties'
  <2> USE <1>0, <1>14
        DEF StopSwap, queVars, pipeVars, loopVars, workVars, taskVars, envVars
  <2>1. TypeOK'
    BY DEF TypeOK, Places
  <2>2. Duties'
    BY DEF TypeOK, Duties
  <2> QED BY <2>1, <2>2
<1>15. ASSUME NEW a \in Workers \cup Signals, StopWrite(a)
      PROVE  TypeOK' /\ Duties'
  <2> USE <1>0, <1>15
        DEF StopWrite, queVars, pipeVars, loopVars, workVars, taskVars, envVars
  <2>1. TypeOK'
    BY DEF TypeOK, Places
  <2>2. Duties'
    BY DEF TypeOK, Duties
  <2> QED BY <2>1, <2>2
<1>16. ASSUME NEW a \in Workers \cup Signals, StopClose(a)
      PROVE  TypeOK' /\ Duties'
  <2> USE <1>0, <1>16
        DEF StopClose, queVars, pipeVars, loopVars, workVars, taskVars, envVars
  <2>1. TypeOK'
    BY DEF TypeOK, Places
  <2>2. Duties'
    BY DEF TypeOK, Duties
  <2> QED BY <2>1, <2>2
<1>17. ASSUME NEW a \in Workers \cup Signals, StopTasks(a)
      PROVE  TypeOK' /\ Duties'
  <2> USE <1>0, <1>17
        DEF StopTasks, queVars, pipeVars, loopVars, workVars, taskVars, envVars
  <2>1. TypeOK'
    BY DEF TypeOK, Places
  <2>2. Duties'
    BY DEF TypeOK, Duties
  <2> QED BY <2>1, <2>2
<1>18. CASE Poll
  <2> USE <1>0, <1>18
        DEF Poll, queVars, pipeVars, loopVars, workVars, taskVars, envVars
  <2>1. TypeOK'
    BY DEF TypeOK, Places
  <2>2. Duties'
    BY DEF TypeOK, Duties
  <2> QED BY <2>1, <2>2
<1>19. CASE Timeout
  <2> USE <1>0, <1>19
        DEF Timeout, queVars, pipeVars, loopVars, workVars, taskVars, envVars
  <2>1. TypeOK'
    <3>1. Range(trackers) \subseteq born
      BY DEF TypeOK, Range
    <3>2. wakes + 1 \in 0 .. MaxWakes
      BY DEF TypeOK
    <3> QED BY <3>1, <3>2 DEF TypeOK, Places
  <2>2. Duties'
    BY DEF TypeOK, Duties
  <2> QED BY <2>1, <2>2
<1>20. CASE DrainCheck
  <2> USE <1>0, <1>20
        DEF DrainCheck, queVars, pipeVars, loopVars, workVars, taskVars,
            envVars
  <2>1. TypeOK'
    BY DEF TypeOK, Places
  <2>2. Duties'
    BY DEF TypeOK, Duties
  <2> QED BY <2>1, <2>2
<1>21. CASE DrainTask
  <2> USE <1>0, <1>21
        DEF DrainTask, queVars, pipeVars, loopVars, workVars, taskVars, envVars
  <2>1. TypeOK'
    BY DEF TypeOK, Places
  <2>2. Duties'
    BY DEF TypeOK, Duties
  <2> QED BY <2>1, <2>2
<1>22. CASE DrainFails
  <2> USE <1>0, <1>22
        DEF DrainFails, queVars, pipeVars, loopVars, workVars, taskVars,
            envVars
  <2>1. TypeOK'
    <3>1. pip \in Seq(born \cup {STOP}) /\ Len(pip) <= PipeCap
      BY DEF TypeOK
    <3>2. /\ Tail(pip) \in Seq(born \cup {STOP}) /\ Len(Tail(pip)) \in Nat
          /\ Len(pip) \in Nat /\ Len(Tail(pip)) <= Len(pip)
      BY <3>1, Read
    <3>3. Len(Tail(pip)) <= PipeCap
      BY <3>1, <3>2
    <3>4. De({Head(pip)}) \in [Tasks -> 0 .. 2]
      BY Counted DEF TypeOK
    <3> QED BY <3>2, <3>3, <3>4 DEF TypeOK, Places
  <2>2. Duties'
    BY DEF TypeOK, Duties
  <2> QED BY <2>1, <2>2
<1>23. CASE DrainStop
  <2> USE <1>0, <1>23
        DEF DrainStop, queVars, pipeVars, loopVars, workVars, taskVars, envVars
  <2>1. TypeOK'
    BY DEF TypeOK, Places
  <2>2. Duties'
    BY DEF TypeOK, Duties
  <2> QED BY <2>1, <2>2
<1>24. CASE DrainEmpty
  <2> USE <1>0, <1>24
        DEF DrainEmpty, queVars, pipeVars, loopVars, workVars, taskVars,
            envVars
  <2>1. TypeOK'
    BY DEF TypeOK, Places
  <2>2. Duties'
    BY DEF TypeOK, Duties
  <2> QED BY <2>1, <2>2
<1>25. CASE ScanIdle
  <2> USE <1>0, <1>25
        DEF ScanIdle, queVars, pipeVars, loopVars, workVars, taskVars, envVars
  <2>1. TypeOK'
    BY DEF TypeOK, Places
  <2>2. Duties'
    BY DEF TypeOK, Duties
  <2> QED BY <2>1, <2>2
<1>26. CASE ScanFires
  <2> USE <1>0, <1>26
        DEF ScanFires, queVars, pipeVars, loopVars, workVars, taskVars, envVars
  <2>0. WorkQPush(trackers[at], pc) /\ PCondSignal(pc)
    BY DEF WorkQPush
  <2>s. /\ pc' \in [Workers \cup Signals -> Places]
        /\ \A v \in Workers :
             pc'[v] = pc[v] \/ (pc[v] = "asleep" /\ pc'[v] = "pop")
    BY <1>p, <2>0, Signalled
  <2>1. TypeOK'
    <3>1. at \in 1 .. Len(trackers) /\ trackers \in Seq(born)
      BY DEF TypeOK
    <3>2. RemoveAt(trackers, at) \in Seq(born) /\ trackers[at] \in born
      BY <3>1, Removed
    <3>3. tasks' \in Seq(born) /\ destroyed' \in [Tasks -> 0 .. 2]
      BY <2>0, <3>2, PushTyped
    <3>4. face' \in [Tasks -> {"own", "reface"}]
      BY <3>2 DEF TypeOK
    <3> QED BY <2>s, <3>2, <3>3, <3>4 DEF TypeOK
  <2>2. Duties'
    BY <2>s DEF TypeOK, Duties
  <2> QED BY <2>1, <2>2
<1>27. CASE ScanDone
  <2> USE <1>0, <1>27
        DEF ScanDone, queVars, pipeVars, loopVars, workVars, taskVars, envVars
  <2>1. TypeOK'
    BY DEF TypeOK, Places
  <2>2. Duties'
    BY DEF TypeOK, Duties
  <2> QED BY <2>1, <2>2
<1>28. CASE LoopFails
  <2> USE <1>0, <1>28
        DEF LoopFails, queVars, pipeVars, loopVars, workVars, taskVars, envVars
  <2>1. TypeOK'
    <3>1. De(Range(pip) \cap Tasks) \in [Tasks -> 0 .. 2]
      BY Counted DEF TypeOK
    <3>2. /\ destroyed' = De(Range(pip) \cap Tasks) /\ pip' = <<>>
          /\ loop' = "aborted" /\ pdone' = TRUE
      OBVIOUS
    <3>3. <<>> \in Seq(born \cup {STOP}) /\ Len(<<>>) <= PipeCap
      OBVIOUS
    <3>4. destroyed' \in [Tasks -> 0 .. 2]
      BY <3>1, <3>2, Zenon
    <3>5. /\ pip' \in Seq(born' \cup {STOP}) /\ Len(pip') <= PipeCap
      BY <3>2, <3>3
    <3>6. /\ UNCHANGED <<tasks, tdone, wopen, pipetex, trackers, rev, at>>
          /\ UNCHANGED <<pc, held, arg, face, born, ready, wakes>>
      BY <1>28
    <3> QED BY <3>2, <3>4, <3>5, <3>6 DEF TypeOK, Places
  <2>2. Duties'
    BY DEF TypeOK, Duties
  <2> QED BY <2>1, <2>2
<1>29. CASE WorkQDe
  <2> USE <1>0, <1>29
        DEF WorkQDe, queVars, pipeVars, loopVars, workVars, taskVars, envVars
  <2>1. TypeOK'
    <3>1. De(Range(trackers) \cup Range(tasks)) \in [Tasks -> 0 .. 2]
      BY Counted DEF TypeOK
    <3>2. /\ destroyed' = De(Range(trackers) \cup Range(tasks))
          /\ tasks' = <<>> /\ trackers' = <<>>
      OBVIOUS
    <3>3. destroyed' \in [Tasks -> 0 .. 2]
      BY <3>1, <3>2, Zenon
    <3>4. <<>> \in Seq(born)
      OBVIOUS
    <3> QED BY <3>2, <3>3, <3>4 DEF TypeOK, Places
  <2>2. Duties'
    BY DEF TypeOK, Duties
  <2> QED BY <2>1, <2>2
<1>30. ASSUME NEW t \in Tasks, Event(t)
      PROVE  TypeOK' /\ Duties'
  <2> USE <1>0, <1>30
        DEF Event, queVars, pipeVars, loopVars, workVars, taskVars, envVars
  <2>1. TypeOK'
    BY DEF TypeOK, Places
  <2>2. Duties'
    BY DEF TypeOK, Duties
  <2> QED BY <2>1, <2>2
<1>31. ASSUME NEW w \in Workers, Doze(w)
      PROVE  TypeOK' /\ Duties'
  <2> USE <1>0, <1>31
        DEF Doze, queVars, pipeVars, loopVars, workVars, taskVars,
            envVars
  <2>1. TypeOK'
    BY DEF TypeOK, Places
  <2>2. Duties'
    BY DEF TypeOK, Duties
  <2> QED BY <2>1, <2>2
<1>32. ASSUME NEW w \in Workers, FallAsleep(w)
      PROVE  TypeOK' /\ Duties'
  <2> USE <1>0, <1>32
        DEF FallAsleep, queVars, pipeVars, loopVars, workVars, taskVars,
            envVars
  <2>1. TypeOK'
    BY DEF TypeOK, Places
  <2>2. Duties'
    BY DEF TypeOK, Duties
  <2> QED BY <2>1, <2>2
<1>33. ASSUME NEW w \in Workers, WakeUp(w)
      PROVE  TypeOK' /\ Duties'
  <2> USE <1>0, <1>33
        DEF WakeUp, queVars, pipeVars, loopVars, workVars, taskVars, envVars
  <2>1. TypeOK'
    <3>1. wakes + 1 \in 0 .. MaxWakes
      BY DEF TypeOK
    <3> QED BY <3>1 DEF TypeOK, Places
  <2>2. Duties'
    BY DEF TypeOK, Duties
  <2> QED BY <2>1, <2>2
<1>34. ASSUME NEW a \in Workers \cup Signals, StopSignal(a)
      PROVE  TypeOK' /\ Duties'
  <2> DEFINE f == [pc EXCEPT ![a] = IF a \in Workers THEN "quit" ELSE "gone"]
  <2> USE <1>0, <1>34
        DEF StopSignal, queVars, pipeVars, loopVars, workVars, taskVars,
            envVars
  <2>0. f \in [Workers \cup Signals -> Places] /\ PCondSignal(f)
    BY <1>p DEF Places
  <2>s. /\ pc' \in [Workers \cup Signals -> Places]
        /\ \A v \in Workers :
             pc'[v] = f[v] \/ (pc[v] = "asleep" /\ pc'[v] = "pop")
    BY <1>p, <2>0, Signalled
  <2>1. TypeOK'
    BY <2>s DEF TypeOK
  <2>2. Duties'
    BY <2>s DEF TypeOK, Duties
  <2> QED BY <2>1, <2>2
<1>35. CASE UNCHANGED vars
  BY <1>0, <1>35
    DEF vars, queVars, pipeVars, loopVars, workVars, taskVars, envVars, TypeOK,
        Duties
<1> QED BY <1>1, <1>2, <1>3, <1>4, <1>5, <1>6, <1>7, <1>8, <1>9, <1>10, <1>11,
      <1>12, <1>13, <1>14, <1>15, <1>16, <1>17, <1>18, <1>19, <1>20, <1>21,
      <1>22, <1>23, <1>24, <1>25, <1>26, <1>27, <1>28, <1>29, <1>30, <1>31,
      <1>32, <1>33, <1>34, <1>35 DEF Next, Loop, Worker, Stopping

(* What a push does to the hands a task can be in: it is in the queue, or  *)
(* in none.                                                                *)
Pushed(x) ==
  \/ /\ destroyed' = destroyed /\ Once(tasks')
     /\ \A y : y \in Range(tasks') <=> y \in Range(tasks) \/ y = x
  \/ /\ tasks' = tasks
     /\ \A t \in Tasks : t # x => destroyed'[t] = destroyed[t]

(* A push of a task that is not in the queue.                              *)
LEMMA PushHands ==
  ASSUME tasks \in Seq(born), Once(tasks), NEW x \in born, NEW f,
         x \notin Range(tasks), WorkQPush(x, f)
  PROVE  Pushed(x)
<1>1. CASE tasks' = Append(tasks, x) /\ UNCHANGED destroyed
  BY <1>1, Appended DEF Pushed
<1>2. CASE destroyed' = De({x}) /\ UNCHANGED tasks
  BY <1>2 DEF Pushed, De
<1> QED BY <1>1, <1>2 DEF WorkQPush

(* Where no task moves and no face changes, hands are as they were.        *)
LEMMA HandsKept ==
  ASSUME OneHand, Gone, Faces,
         UNCHANGED <<tasks, trackers, held, arg, face, destroyed, born>>,
         Once(pip'), \A t \in Tasks : t \in Range(pip') => t \in Range(pip),
         born \subseteq Tasks, None \notin Tasks,
         \A w \in Workers : /\ held[w] # None => held[w] \in Tasks
                            /\ arg[w] # None => arg[w] \in Tasks
  PROVE  OneHand' /\ Gone' /\ Faces'
<1>1. OneHand'
  BY Zenon DEF OneHand, Waiting, Once
<1>2. Gone'
  BY Zenon DEF Gone, Waiting
<1>3. Faces'
  BY Zenon DEF Faces, FaceMatches, InPoller
<1> QED BY <1>1, <1>2, <1>3

(* Every step puts a task from one hand into one hand at most.             *)
LEMMA HandStep ==
  ASSUME IInv, [Next]_vars
  PROVE  OneHand' /\ Gone' /\ Faces'
<1>0. /\ OneHand /\ Gone /\ Faces /\ Duties
      /\ tasks \in Seq(born) /\ trackers \in Seq(born)
      /\ pip \in Seq(born \cup {STOP})
      /\ held \in [Workers -> born \cup {None}]
      /\ arg \in [Workers -> born \cup {None}]
      /\ face \in [Tasks -> {"own", "reface"}]
      /\ destroyed \in [Tasks -> 0 .. 2] /\ born \subseteq Tasks
      /\ STOP \notin Tasks /\ None \notin Tasks
      /\ pc \in [Workers \cup Signals -> Places]
  BY WorkQAssumption DEF IInv, TypeOK
<1>a. \A w \in Workers :
        /\ held[w] # None => held[w] \in Tasks /\ held[w] \in born
        /\ arg[w] # None => arg[w] \in Tasks /\ arg[w] \in born
  BY <1>0
<1>b. /\ \A t : t \in Range(tasks) => t \in born
      /\ \A t : t \in Range(trackers) => t \in born
      /\ \A t \in Tasks : t \in Range(pip) => t \in born
  BY <1>0 DEF Range
<1>1. ASSUME NEW w \in Workers, Pop(w)
      PROVE  OneHand' /\ Gone' /\ Faces'
  <2>1. /\ tasks # <<>> /\ held[w] = None /\ arg[w] = None
        /\ held' = [held EXCEPT ![w] = Last(tasks)] /\ tasks' = Front(tasks)
        /\ UNCHANGED <<pip, trackers, arg, face, destroyed, born>>
    BY <1>0, <1>1
      DEF Pop, Duties, queVars, pipeVars, loopVars, workVars, taskVars, envVars
  <2>2. /\ Last(tasks) \in born /\ Last(tasks) \in Range(tasks)
        /\ Without(tasks', tasks, Last(tasks))
    BY <1>0, <2>1, Popped
  <2>3. /\ held'[w] = Last(tasks)
        /\ \A v \in Workers : v # w => held'[v] = held[v]
    BY <1>0, <2>1
  <2>h. OneHand'
    BY <1>0, <1>a, <1>b, <2>1, <2>2, <2>3 DEF OneHand, Waiting, Without
  <2>g. Gone'
    BY <1>0, <1>a, <1>b, <2>1, <2>2, <2>3 DEF OneHand, Gone, Waiting, Without
  <2>f. Faces'
    BY <1>0, <1>a, <1>b, <2>1, <2>2, <2>3
      DEF OneHand, Gone, Waiting, Faces, FaceMatches, InPoller, Without
  <2> QED BY <2>h, <2>g, <2>f
<1>2. ASSUME NEW w \in Workers, PopNothing(w)
      PROVE  OneHand' /\ Gone' /\ Faces'
  <2>1. UNCHANGED <<pip, tasks, trackers, held, arg, face, destroyed, born>>
    BY <1>2
      DEF PopNothing, queVars, pipeVars, loopVars, workVars, taskVars, envVars
  <2>2. Once(pip') /\ Range(pip') = Range(pip)
    BY <1>0, <2>1 DEF OneHand
  <2> QED BY <1>0, <1>a, <2>1, <2>2, HandsKept
<1>3. ASSUME NEW w \in Workers, Finish(w)
      PROVE  OneHand' /\ Gone' /\ Faces'
  <2>1. /\ held' = [held EXCEPT ![w] = None] /\ held[w] # None
        /\ destroyed' = [destroyed EXCEPT ![held[w]] = Twice(@ + 1)]
        /\ UNCHANGED <<pip, tasks, trackers, arg, face, born>>
        /\ arg[w] = None
    BY <1>0, <1>3
      DEF Finish, Duties, queVars, pipeVars, loopVars, workVars, taskVars,
          envVars
  <2>2. /\ held'[w] = None
        /\ \A v \in Workers : v # w => held'[v] = held[v]
        /\ \A t \in Tasks : t # held[w] => destroyed'[t] = destroyed[t]
    BY <1>0, <1>a, <2>1
  <2>h. OneHand'
    BY <1>0, <1>a, <1>b, <2>1, <2>2 DEF OneHand, Waiting, Without
  <2>g. Gone'
    BY <1>0, <1>a, <1>b, <2>1, <2>2 DEF OneHand, Gone, Waiting, Without
  <2>f. Faces'
    BY <1>0, <1>a, <1>b, <2>1, <2>2
      DEF OneHand, Gone, Waiting, Faces, FaceMatches, InPoller, Without
  <2> QED BY <2>h, <2>g, <2>f
<1>4. ASSUME NEW w \in Workers, Fail(w)
      PROVE  OneHand' /\ Gone' /\ Faces'
  <2>1. /\ held' = [held EXCEPT ![w] = None]
        /\ UNCHANGED <<pip, tasks, trackers, arg, face, destroyed, born>>
    BY <1>4 DEF Fail, queVars, pipeVars, loopVars, workVars, taskVars, envVars
  <2>2. held'[w] = None /\ \A v \in Workers : v # w => held'[v] = held[v]
    BY <1>0, <2>1
  <2>h. OneHand'
    BY <1>0, <1>a, <1>b, <2>1, <2>2 DEF OneHand, Waiting, Without
  <2>g. Gone'
    BY <1>0, <1>a, <1>b, <2>1, <2>2 DEF OneHand, Gone, Waiting, Without
  <2>f. Faces'
    BY <1>0, <1>a, <1>b, <2>1, <2>2
      DEF OneHand, Gone, Waiting, Faces, FaceMatches, InPoller, Without
  <2> QED BY <2>h, <2>g, <2>f
<1>5. ASSUME NEW w \in Workers, Repoll(w)
      PROVE  OneHand' /\ Gone' /\ Faces'
  <2>1. /\ held[w] # None /\ arg[w] = None
        /\ held' = [held EXCEPT ![w] = None]
        /\ arg' = [arg EXCEPT ![w] = held[w]]
        /\ face' = [face EXCEPT ![held[w]] = "reface"]
        /\ UNCHANGED <<pip, tasks, trackers, destroyed, born>>
    BY <1>0, <1>5
      DEF Repoll, Duties, queVars, pipeVars, loopVars, workVars, taskVars,
          envVars
  <2>2. /\ held'[w] = None /\ arg'[w] = held[w]
        /\ \A v \in Workers : v # w => held'[v] = held[v] /\ arg'[v] = arg[v]
        /\ face'[held[w]] = "reface"
        /\ \A t \in Tasks : t # held[w] => face'[t] = face[t]
    BY <1>0, <1>a, <2>1
  <2>h. OneHand'
    BY <1>0, <1>a, <1>b, <2>1, <2>2 DEF OneHand, Waiting, Without
  <2>g. Gone'
    BY <1>0, <1>a, <1>b, <2>1, <2>2 DEF OneHand, Gone, Waiting, Without
  <2>f. Faces'
    BY <1>0, <1>a, <1>b, <2>1, <2>2
      DEF OneHand, Gone, Waiting, Faces, FaceMatches, InPoller, Without
  <2> QED BY <2>h, <2>g, <2>f
<1>6. ASSUME NEW w \in Workers, Requeue(w)
      PROVE  OneHand' /\ Gone' /\ Faces'
  <2> DEFINE x == held[w]
  <2>1. /\ x # None /\ arg[w] = None
        /\ WorkQPush(x, [pc EXCEPT ![w] = "pop"])
        /\ held' = [held EXCEPT ![w] = None]
        /\ UNCHANGED <<pip, trackers, arg, face, born>>
    BY <1>0, <1>6
      DEF Requeue, Duties, queVars, pipeVars, loopVars, workVars, taskVars,
          envVars
  <2>2. /\ x \in born /\ x \in Tasks /\ x \notin Range(tasks)
        /\ held'[w] = None /\ \A v \in Workers : v # w => held'[v] = held[v]
    BY <1>0, <1>a, <2>1 DEF OneHand, Waiting
  <2>3. Pushed(x)
    BY <1>0, <2>1, <2>2, PushHands DEF OneHand
  <2>h. OneHand'
    BY <1>0, <1>a, <1>b, <2>1, <2>2, <2>3 DEF OneHand, Waiting, Pushed
  <2>g. Gone'
    BY <1>0, <1>a, <1>b, <2>1, <2>2, <2>3 DEF OneHand, Gone, Waiting, Pushed
  <2>f. Faces'
    BY <1>0, <1>a, <1>b, <2>1, <2>2, <2>3
       DEF OneHand, Gone, Waiting, Faces, FaceMatches, InPoller, Pushed
  <2> QED BY <2>h, <2>g, <2>f
<1>7. ASSUME NEW w \in Workers, NEW t \in Tasks, Spawn(w, t)
      PROVE  OneHand' /\ Gone' /\ Faces'
  <2>1. /\ arg[w] = None /\ t \notin born
        /\ arg' = [arg EXCEPT ![w] = t] /\ born' = born \cup {t}
        /\ face' = [face EXCEPT ![t] = "reface"]
        /\ UNCHANGED <<pip, tasks, trackers, held, destroyed>>
    BY <1>0, <1>7
      DEF Spawn, Duties, queVars, pipeVars, loopVars, workVars, taskVars,
          envVars
  <2>2. /\ arg'[w] = t /\ \A v \in Workers : v # w => arg'[v] = arg[v]
        /\ face'[t] = "reface" /\ \A u \in Tasks : u # t => face'[u] = face[u]
    BY <1>0, <2>1
  <2>3. /\ ~ Waiting(t) /\ \A v \in Workers : held[v] # t /\ arg[v] # t
    BY <1>0, <1>b, <2>1 DEF Waiting
  <2>h. OneHand'
    BY <1>0, <1>a, <1>b, <2>1, <2>2, <2>3 DEF OneHand, Waiting, Without
  <2>g. Gone'
    BY <1>0, <1>a, <1>b, <2>1, <2>2, <2>3 DEF OneHand, Gone, Waiting, Without
  <2>f. Faces'
    BY <1>0, <1>a, <1>b, <2>1, <2>2, <2>3
      DEF OneHand, Gone, Waiting, Faces, FaceMatches, InPoller, Without
  <2> QED BY <2>h, <2>g, <2>f
<1>8. ASSUME NEW w \in Workers, PushLock(w)
      PROVE  OneHand' /\ Gone' /\ Faces'
  <2>1. UNCHANGED <<pip, tasks, trackers, held, arg, face, destroyed, born>>
    BY <1>8
      DEF PushLock, queVars, pipeVars, loopVars, workVars, taskVars, envVars
  <2>2. Once(pip') /\ Range(pip') = Range(pip)
    BY <1>0, <2>1 DEF OneHand
  <2> QED BY <1>0, <1>a, <2>1, <2>2, HandsKept
<1>9. ASSUME NEW w \in Workers, PushCheck(w)
      PROVE  OneHand' /\ Gone' /\ Faces'
  <2>1. UNCHANGED <<pip, tasks, trackers, held, arg, face, destroyed, born>>
    BY <1>9
      DEF PushCheck, queVars, pipeVars, loopVars, workVars, taskVars, envVars
  <2>2. Once(pip') /\ Range(pip') = Range(pip)
    BY <1>0, <2>1 DEF OneHand
  <2> QED BY <1>0, <1>a, <2>1, <2>2, HandsKept
<1>10. ASSUME NEW w \in Workers, PushWrite(w)
      PROVE  OneHand' /\ Gone' /\ Faces'
  <2>1. /\ arg[w] # None /\ pip' = Append(pip, arg[w])
        /\ arg' = [arg EXCEPT ![w] = None]
        /\ UNCHANGED <<tasks, trackers, held, face, destroyed, born>>
    BY <1>0, <1>10
      DEF PushWrite, Duties, queVars, pipeVars, loopVars, workVars, taskVars,
          envVars
  <2>2. arg'[w] = None /\ \A v \in Workers : v # w => arg'[v] = arg[v]
    BY <1>0, <2>1
  <2>3. arg[w] \in born \cup {STOP} /\ arg[w] \in Tasks
    BY <1>0, <2>1
  <2>4. arg[w] \notin Range(pip)
    BY <1>0, <2>1 DEF OneHand, Waiting
  <2>5. /\ \A y : y \in Range(pip') <=> y \in Range(pip) \/ y = arg[w]
        /\ Once(pip')
    BY <1>0, <2>1, <2>3, <2>4, Appended DEF OneHand
  <2>h. OneHand'
    BY <1>0, <1>a, <1>b, <2>1, <2>2, <2>3, <2>5 DEF OneHand, Waiting, Without
  <2>g. Gone'
    BY <1>0, <1>a, <1>b, <2>1, <2>2, <2>3, <2>5
      DEF OneHand, Gone, Waiting, Without
  <2>f. Faces'
    BY <1>0, <1>a, <1>b, <2>1, <2>2, <2>3, <2>5
      DEF OneHand, Gone, Waiting, Faces, FaceMatches, InPoller, Without
  <2> QED BY <2>h, <2>g, <2>f
<1>11. ASSUME NEW w \in Workers, PushFull(w)
      PROVE  OneHand' /\ Gone' /\ Faces'
  <2>1. UNCHANGED <<pip, tasks, trackers, held, arg, face, destroyed, born>>
    BY <1>11
      DEF PushFull, queVars, pipeVars, loopVars, workVars, taskVars, envVars
  <2>2. Once(pip') /\ Range(pip') = Range(pip)
    BY <1>0, <2>1 DEF OneHand
  <2> QED BY <1>0, <1>a, <2>1, <2>2, HandsKept
<1>12. ASSUME NEW w \in Workers, PollFails(w)
      PROVE  OneHand' /\ Gone' /\ Faces'
  <2>1. /\ arg[w] # None /\ arg' = [arg EXCEPT ![w] = None]
        /\ UNCHANGED <<pip, tasks, trackers, held, face, born>>
        /\ \A t \in Tasks : t # arg[w] => destroyed'[t] = destroyed[t]
    BY <1>0, <1>a, <1>12
      DEF PollFails, Duties, queVars, pipeVars, loopVars, workVars, taskVars,
          envVars
  <2>2. arg'[w] = None /\ \A v \in Workers : v # w => arg'[v] = arg[v]
    BY <1>0, <2>1
  <2>h. OneHand'
    BY <1>0, <1>a, <1>b, <2>1, <2>2 DEF OneHand, Waiting, Without
  <2>g. Gone'
    BY <1>0, <1>a, <1>b, <2>1, <2>2 DEF OneHand, Gone, Waiting, Without
  <2>f. Faces'
    BY <1>0, <1>a, <1>b, <2>1, <2>2
      DEF OneHand, Gone, Waiting, Faces, FaceMatches, InPoller, Without
  <2> QED BY <2>h, <2>g, <2>f
<1>13. ASSUME NEW a \in Signals, Interrupt(a)
      PROVE  OneHand' /\ Gone' /\ Faces'
  <2>1. UNCHANGED <<pip, tasks, trackers, held, arg, face, destroyed, born>>
    BY <1>13
      DEF Interrupt, queVars, pipeVars, loopVars, workVars, taskVars, envVars
  <2>2. Once(pip') /\ Range(pip') = Range(pip)
    BY <1>0, <2>1 DEF OneHand
  <2> QED BY <1>0, <1>a, <2>1, <2>2, HandsKept
<1>14. ASSUME NEW a \in Workers \cup Signals, StopSwap(a)
      PROVE  OneHand' /\ Gone' /\ Faces'
  <2>1. UNCHANGED <<pip, tasks, trackers, held, arg, face, destroyed, born>>
    BY <1>14
      DEF StopSwap, queVars, pipeVars, loopVars, workVars, taskVars, envVars
  <2>2. Once(pip') /\ Range(pip') = Range(pip)
    BY <1>0, <2>1 DEF OneHand
  <2> QED BY <1>0, <1>a, <2>1, <2>2, HandsKept
<1>15. ASSUME NEW a \in Workers \cup Signals, StopWrite(a)
      PROVE  OneHand' /\ Gone' /\ Faces'
  <2>1. /\ pip' = Append(pip, STOP) \/ pip' = pip
        /\ UNCHANGED <<tasks, trackers, held, arg, face, destroyed, born>>
    BY <1>15
      DEF StopWrite, queVars, pipeVars, loopVars, workVars, taskVars, envVars
  <2>2. CASE pip' = Append(pip, STOP)
    <3>1. STOP \in born \cup {STOP}
      OBVIOUS
    <3>2. /\ \A y : y \in Range(pip') <=> y \in Range(pip) \/ y = STOP
          /\ Once(pip')
      BY <1>0, <2>2, <3>1, Appended DEF OneHand
    <3>3. \A t \in Tasks : t \in Range(pip') => t \in Range(pip)
      BY <1>0, <3>2
    <3> QED BY <1>0, <1>a, <2>1, <3>2, <3>3, HandsKept
  <2>3. CASE pip' = pip
    <3>1. Once(pip') /\ Range(pip') = Range(pip)
      BY <1>0, <2>3 DEF OneHand
    <3> QED BY <1>0, <1>a, <2>1, <3>1, HandsKept
  <2> QED BY <2>1, <2>2, <2>3
<1>16. ASSUME NEW a \in Workers \cup Signals, StopClose(a)
      PROVE  OneHand' /\ Gone' /\ Faces'
  <2>1. UNCHANGED <<pip, tasks, trackers, held, arg, face, destroyed, born>>
    BY <1>16
      DEF StopClose, queVars, pipeVars, loopVars, workVars, taskVars, envVars
  <2>2. Once(pip') /\ Range(pip') = Range(pip)
    BY <1>0, <2>1 DEF OneHand
  <2> QED BY <1>0, <1>a, <2>1, <2>2, HandsKept
<1>17. ASSUME NEW a \in Workers \cup Signals, StopTasks(a)
      PROVE  OneHand' /\ Gone' /\ Faces'
  <2>1. UNCHANGED <<pip, tasks, trackers, held, arg, face, destroyed, born>>
    BY <1>17
      DEF StopTasks, queVars, pipeVars, loopVars, workVars, taskVars, envVars
  <2>2. Once(pip') /\ Range(pip') = Range(pip)
    BY <1>0, <2>1 DEF OneHand
  <2> QED BY <1>0, <1>a, <2>1, <2>2, HandsKept
<1>18. CASE Poll
  <2>1. UNCHANGED <<pip, tasks, trackers, held, arg, face, destroyed, born>>
    BY <1>18 DEF Poll, queVars, pipeVars, loopVars, workVars, taskVars, envVars
  <2>2. Once(pip') /\ Range(pip') = Range(pip)
    BY <1>0, <2>1 DEF OneHand
  <2> QED BY <1>0, <1>a, <2>1, <2>2, HandsKept
<1>19. CASE Timeout
  <2>1. UNCHANGED <<pip, tasks, trackers, held, arg, face, destroyed, born>>
    BY <1>19
      DEF Timeout, queVars, pipeVars, loopVars, workVars, taskVars, envVars
  <2>2. Once(pip') /\ Range(pip') = Range(pip)
    BY <1>0, <2>1 DEF OneHand
  <2> QED BY <1>0, <1>a, <2>1, <2>2, HandsKept
<1>20. CASE DrainCheck
  <2>1. UNCHANGED <<pip, tasks, trackers, held, arg, face, destroyed, born>>
    BY <1>20
      DEF DrainCheck, queVars, pipeVars, loopVars, workVars, taskVars, envVars
  <2>2. Once(pip') /\ Range(pip') = Range(pip)
    BY <1>0, <2>1 DEF OneHand
  <2> QED BY <1>0, <1>a, <2>1, <2>2, HandsKept
<1>21. CASE DrainTask
  <2>1. /\ pip # <<>> /\ Head(pip) # STOP
        /\ trackers' = Append(trackers, Head(pip)) /\ pip' = Tail(pip)
        /\ UNCHANGED <<tasks, held, arg, face, destroyed, born>>
    BY <1>21
      DEF DrainTask, queVars, pipeVars, loopVars, workVars, taskVars, envVars
  <2>2. /\ Head(pip) \in born \cup {STOP} /\ Head(pip) \in Range(pip)
        /\ Without(pip', pip, Head(pip))
    BY <1>0, <2>1, Read
  <2>3. Head(pip) \in born /\ Head(pip) \in Tasks
    BY <1>0, <2>1, <2>2
  <2>4. Head(pip) \notin Range(trackers)
    BY <1>0, <2>2, <2>3 DEF OneHand
  <2>5. /\ \A y : y \in Range(trackers') <=>
                    y \in Range(trackers) \/ y = Head(pip)
        /\ Once(trackers')
    BY <1>0, <2>1, <2>3, <2>4, Appended DEF OneHand
  <2>h. OneHand'
    BY <1>0, <1>a, <1>b, <2>1, <2>2, <2>3, <2>5 DEF OneHand, Waiting, Without
  <2>g. Gone'
    BY <1>0, <1>a, <1>b, <2>1, <2>2, <2>3, <2>5
      DEF OneHand, Gone, Waiting, Without
  <2>f. Faces'
    BY <1>0, <1>a, <1>b, <2>1, <2>2, <2>3, <2>5
      DEF OneHand, Gone, Waiting, Faces, FaceMatches, InPoller, Without
  <2> QED BY <2>h, <2>g, <2>f
<1>22. CASE DrainFails
  <2>1. /\ pip # <<>> /\ Head(pip) # STOP /\ pip' = Tail(pip)
        /\ destroyed' = De({Head(pip)})
        /\ UNCHANGED <<tasks, trackers, held, arg, face, born>>
    BY <1>22
      DEF DrainFails, queVars, pipeVars, loopVars, workVars, taskVars, envVars
  <2>2. /\ Head(pip) \in born \cup {STOP} /\ Head(pip) \in Range(pip)
        /\ Without(pip', pip, Head(pip))
    BY <1>0, <2>1, Read
  <2>3. Head(pip) \in Tasks /\ Head(pip) \in born
    BY <1>0, <2>1, <2>2
  <2>4. \A t \in Tasks : t # Head(pip) => destroyed'[t] = destroyed[t]
    BY <2>1 DEF De
  <2>5. ASSUME NEW t \in Tasks, destroyed'[t] # 0
        PROVE  /\ t \in born' /\ t \notin Range(pip')
               /\ t \notin Range(trackers) /\ t \notin Range(tasks)
               /\ \A w \in Workers : held[w] # t /\ arg[w] # t
    <3>1. CASE t = Head(pip)
      BY <1>0, <1>a, <2>1, <2>2, <2>3, <3>1 DEF OneHand, Waiting, Without
    <3>2. CASE t # Head(pip)
      BY <1>0, <2>1, <2>2, <2>4, <2>5, <3>2 DEF Gone, Waiting, Without
    <3> QED BY <3>1, <3>2
  <2>h. OneHand'
    BY <1>0, <1>a, <1>b, <2>1, <2>2, <2>3, <2>4
       DEF OneHand, Waiting, Without
  <2>g. Gone'
    BY <2>1, <2>5 DEF Gone, Waiting
  <2>f. Faces'
    BY <1>0, <1>a, <1>b, <2>1, <2>2, <2>3, <2>4
       DEF OneHand, Gone, Waiting, Faces, FaceMatches, InPoller, Without
  <2> QED BY <2>h, <2>g, <2>f
<1>23. CASE DrainStop
  <2>1. UNCHANGED <<pip, tasks, trackers, held, arg, face, destroyed, born>>
    BY <1>23
      DEF DrainStop, queVars, pipeVars, loopVars, workVars, taskVars, envVars
  <2>2. Once(pip') /\ Range(pip') = Range(pip)
    BY <1>0, <2>1 DEF OneHand
  <2> QED BY <1>0, <1>a, <2>1, <2>2, HandsKept
<1>24. CASE DrainEmpty
  <2>1. UNCHANGED <<pip, tasks, trackers, held, arg, face, destroyed, born>>
    BY <1>24
      DEF DrainEmpty, queVars, pipeVars, loopVars, workVars, taskVars, envVars
  <2>2. Once(pip') /\ Range(pip') = Range(pip)
    BY <1>0, <2>1 DEF OneHand
  <2> QED BY <1>0, <1>a, <2>1, <2>2, HandsKept
<1>25. CASE ScanIdle
  <2>1. UNCHANGED <<pip, tasks, trackers, held, arg, face, destroyed, born>>
    BY <1>25
      DEF ScanIdle, queVars, pipeVars, loopVars, workVars, taskVars, envVars
  <2>2. Once(pip') /\ Range(pip') = Range(pip)
    BY <1>0, <2>1 DEF OneHand
  <2> QED BY <1>0, <1>a, <2>1, <2>2, HandsKept
<1>26. CASE ScanFires
  <2> DEFINE x == trackers[at]
  <2>1. /\ at \in 1 .. Len(trackers) /\ WorkQPush(x, pc)
        /\ face' = [face EXCEPT ![x] = "own"]
        /\ trackers' = RemoveAt(trackers, at)
        /\ UNCHANGED <<pip, held, arg, born>>
    BY <1>26
      DEF ScanFires, IInv, TypeOK, queVars, pipeVars, loopVars, workVars,
          taskVars, envVars
  <2>2. /\ x \in born /\ x \in Range(trackers)
        /\ Without(trackers', trackers, x)
    BY <1>0, <2>1, Removed
  <2> HIDE DEF x
  <2>3. x \in Tasks /\ x \notin Range(tasks)
    BY <1>0, <2>2 DEF OneHand
  <2>4. face'[x] = "own" /\ \A t \in Tasks : t # x => face'[t] = face[t]
    BY <1>0, <2>1, <2>3
  <2>5. Pushed(x)
    BY <1>0, <2>1, <2>2, <2>3, PushHands DEF OneHand
  <2>h. OneHand'
    BY <1>0, <1>a, <1>b, <2>1, <2>2, <2>3, <2>5
       DEF OneHand, Waiting, Without, Pushed
  <2>g. Gone'
    BY <1>0, <1>a, <1>b, <2>1, <2>2, <2>3, <2>5
       DEF OneHand, Gone, Waiting, Without, Pushed
  <2>f. Faces'
    BY <1>0, <1>a, <1>b, <2>1, <2>2, <2>3, <2>4, <2>5
       DEF OneHand, Gone, Waiting, Faces, FaceMatches, InPoller, Without,
           Pushed
  <2> QED BY <2>h, <2>g, <2>f
<1>27. CASE ScanDone
  <2>1. UNCHANGED <<pip, tasks, trackers, held, arg, face, destroyed, born>>
    BY <1>27
      DEF ScanDone, queVars, pipeVars, loopVars, workVars, taskVars, envVars
  <2>2. Once(pip') /\ Range(pip') = Range(pip)
    BY <1>0, <2>1 DEF OneHand
  <2> QED BY <1>0, <1>a, <2>1, <2>2, HandsKept
<1>28. CASE LoopFails
  <2>1. /\ pip' = <<>> /\ destroyed' = De(Range(pip) \cap Tasks)
        /\ UNCHANGED <<tasks, trackers, held, arg, face, born>>
    BY <1>28
      DEF LoopFails, queVars, pipeVars, loopVars, workVars, taskVars, envVars
  <2>2. Once(pip') /\ \A t : t \notin Range(pip')
    BY <2>1 DEF Once, Range
  <2>3. \A t \in Tasks : t \notin Range(pip) => destroyed'[t] = destroyed[t]
    BY <2>1 DEF De
  <2>h. OneHand'
    BY <1>0, <1>a, <1>b, <2>1, <2>2, <2>3 DEF OneHand, Waiting, Without
  <2>g. Gone'
    BY <1>0, <1>a, <1>b, <2>1, <2>2, <2>3 DEF OneHand, Gone, Waiting, Without
  <2>f. Faces'
    BY <1>0, <1>a, <1>b, <2>1, <2>2, <2>3
      DEF OneHand, Gone, Waiting, Faces, FaceMatches, InPoller, Without
  <2> QED BY <2>h, <2>g, <2>f
<1>29. CASE WorkQDe
  <2>1. /\ tasks' = <<>> /\ trackers' = <<>>
        /\ destroyed' = De(Range(trackers) \cup Range(tasks))
        /\ UNCHANGED <<pip, held, arg, face, born>>
    BY <1>29
      DEF WorkQDe, queVars, pipeVars, loopVars, workVars, taskVars, envVars
  <2>2. /\ Once(tasks') /\ \A t : t \notin Range(tasks')
        /\ Once(trackers') /\ \A t : t \notin Range(trackers')
    BY <2>1 DEF Once, Range
  <2>3. \A t \in Tasks : t \notin Range(trackers) /\ t \notin Range(tasks)
          => destroyed'[t] = destroyed[t]
    BY <2>1 DEF De
  <2>h. OneHand'
    BY <1>0, <1>a, <1>b, <2>1, <2>2, <2>3 DEF OneHand, Waiting, Without
  <2>g. Gone'
    BY <1>0, <1>a, <1>b, <2>1, <2>2, <2>3 DEF OneHand, Gone, Waiting, Without
  <2>f. Faces'
    BY <1>0, <1>a, <1>b, <2>1, <2>2, <2>3
      DEF OneHand, Gone, Waiting, Faces, FaceMatches, InPoller, Without
  <2> QED BY <2>h, <2>g, <2>f
<1>30. ASSUME NEW t \in Tasks, Event(t)
      PROVE  OneHand' /\ Gone' /\ Faces'
  <2>1. UNCHANGED <<pip, tasks, trackers, held, arg, face, destroyed, born>>
    BY <1>30
      DEF Event, queVars, pipeVars, loopVars, workVars, taskVars, envVars
  <2>2. Once(pip') /\ Range(pip') = Range(pip)
    BY <1>0, <2>1 DEF OneHand
  <2> QED BY <1>0, <1>a, <2>1, <2>2, HandsKept
<1>31. ASSUME NEW w \in Workers, Doze(w)
      PROVE  OneHand' /\ Gone' /\ Faces'
  <2>1. UNCHANGED <<pip, tasks, trackers, held, arg, face, destroyed, born>>
    BY <1>31
      DEF Doze, queVars, pipeVars, loopVars, workVars, taskVars, envVars
  <2>2. Once(pip') /\ Range(pip') = Range(pip)
    BY <1>0, <2>1 DEF OneHand
  <2> QED BY <1>0, <1>a, <2>1, <2>2, HandsKept
<1>32. ASSUME NEW w \in Workers, FallAsleep(w)
      PROVE  OneHand' /\ Gone' /\ Faces'
  <2>1. UNCHANGED <<pip, tasks, trackers, held, arg, face, destroyed, born>>
    BY <1>32
      DEF FallAsleep, queVars, pipeVars, loopVars, workVars, taskVars, envVars
  <2>2. Once(pip') /\ Range(pip') = Range(pip)
    BY <1>0, <2>1 DEF OneHand
  <2> QED BY <1>0, <1>a, <2>1, <2>2, HandsKept
<1>33. ASSUME NEW w \in Workers, WakeUp(w)
      PROVE  OneHand' /\ Gone' /\ Faces'
  <2>1. UNCHANGED <<pip, tasks, trackers, held, arg, face, destroyed, born>>
    BY <1>33
      DEF WakeUp, queVars, pipeVars, loopVars, workVars, taskVars, envVars
  <2>2. Once(pip') /\ Range(pip') = Range(pip)
    BY <1>0, <2>1 DEF OneHand
  <2> QED BY <1>0, <1>a, <2>1, <2>2, HandsKept
<1>34. ASSUME NEW a \in Workers \cup Signals, StopSignal(a)
      PROVE  OneHand' /\ Gone' /\ Faces'
  <2>1. UNCHANGED <<pip, tasks, trackers, held, arg, face, destroyed, born>>
    BY <1>34
      DEF StopSignal, queVars, pipeVars, loopVars, workVars, taskVars, envVars
  <2>2. Once(pip') /\ Range(pip') = Range(pip)
    BY <1>0, <2>1 DEF OneHand
  <2> QED BY <1>0, <1>a, <2>1, <2>2, HandsKept
<1>35. CASE UNCHANGED vars
  <2>1. UNCHANGED <<pip, tasks, trackers, held, arg, face, destroyed, born>>
    BY <1>35 DEF vars, queVars, pipeVars, loopVars, workVars, taskVars, envVars
  <2>2. Once(pip') /\ Range(pip') = Range(pip)
    BY <1>0, <2>1 DEF OneHand
  <2> QED BY <1>0, <1>a, <2>1, <2>2, HandsKept
<1> QED BY <1>1, <1>2, <1>3, <1>4, <1>5, <1>6, <1>7, <1>8, <1>9, <1>10, <1>11,
      <1>12, <1>13, <1>14, <1>15, <1>16, <1>17, <1>18, <1>19, <1>20, <1>21,
      <1>22, <1>23, <1>24, <1>25, <1>26, <1>27, <1>28, <1>29, <1>30, <1>31,
      <1>32, <1>33, <1>34, <1>35 DEF Next, Loop, Worker, Stopping

(* The initial states.                                                     *)
LEMMA InvInit ==
  ASSUME Init
  PROVE  IInv
<1> USE WorkQAssumption DEF Init
<1>1. /\ pip = <<First>> /\ tasks = <<>> /\ trackers = <<>> /\ born = {First}
      /\ pip \in Seq(born \cup {STOP}) /\ tasks \in Seq(born)
      /\ trackers \in Seq(born) /\ Len(pip) = 1
  OBVIOUS
<1>2. /\ \A t : t \in Range(pip) <=> t = First
      /\ Range(tasks) = {} /\ Range(trackers) = {}
      /\ Once(pip) /\ Once(tasks) /\ Once(trackers)
  BY <1>1 DEF Range, Once
<1>3. TypeOK
  <2>0. {tdone, wopen, pdone} \subseteq BOOLEAN
    BY Zenon
  <2>1. /\ Len(pip) <= PipeCap /\ pipetex \in Workers \cup {None}
        /\ rev \subseteq born
        /\ ready \subseteq born /\ born \subseteq Tasks
        /\ at \in Nat \ {0} /\ wakes \in 0 .. MaxWakes
    BY <1>1
  <2>2. /\ pc \in [Workers \cup Signals -> {"pop", "idle"}]
        /\ held \in [Workers -> born \cup {None}]
        /\ arg \in [Workers -> born \cup {None}]
        /\ face \in [Tasks -> {"own", "reface"}]
        /\ destroyed \in [Tasks -> 0 .. 2]
    OBVIOUS
  <2> QED BY <1>1, <2>0, <2>1, <2>2 DEF TypeOK, Places
<1>4. Duties
  BY DEF Duties
<1>5. OneHand
  BY <1>2 DEF OneHand, Waiting
<1>6. Gone
  BY DEF Gone
<1>7. Faces
  BY <1>1, <1>2 DEF Faces, FaceMatches, InPoller
<1> QED BY <1>3, <1>4, <1>5, <1>6, <1>7 DEF IInv

(* It holds in every reachable state.                                      *)
THEOREM Invariance == Spec => []IInv
<1>1. Init => IInv
  BY InvInit
<1>2. IInv /\ [Next]_vars => IInv'
  BY TypeStep, HandStep DEF IInv
<1> QED BY <1>1, <1>2, PTL DEF Spec

(* A set whose members are all equal has one, or none.                     *)
LEMMA OneOrNone ==
  ASSUME NEW S, \A x, y \in S : x = y
  PROVE  Cardinality(S) = IF S = {} THEN 0 ELSE 1
<1>1. CASE S = {}
  BY <1>1, FS_EmptySet
<1>2. CASE S # {}
  <2>1. PICK x \in S : S = {x}
    BY <1>2
  <2> QED BY <1>2, <2>1, FS_Singleton
<1> QED BY <1>1, <1>2

(* A task is with one worker, or once in the pipe, the trackers or the     *)
(* queue; one that was destroyed is with nobody; and who has it calls the  *)
(* callback that is meant for them.                                        *)
THEOREM NoTaskInTwoHands == Spec => []OneOwner
<1>1. ASSUME IInv, NEW t \in Tasks
      PROVE  Cardinality(Owners(t)) <= IF destroyed[t] = 0 THEN 1 ELSE 0
  <2>1. /\ Once(pip) /\ Once(trackers) /\ Once(tasks)
        /\ t # None /\ DOMAIN held = Workers /\ DOMAIN arg = Workers
    BY <1>1, WorkQAssumption DEF IInv, OneHand, TypeOK
  <2>2. /\ t \in Range(pip) <=> \E i \in DOMAIN pip : pip[i] = t
        /\ t \in Range(trackers) <=> \E i \in DOMAIN trackers : trackers[i] = t
        /\ t \in Range(tasks) <=> \E i \in DOMAIN tasks : tasks[i] = t
    BY DEF Range
  <2>3. \A p \in Owners(t) :
          \/ \E i \in DOMAIN pip : pip[i] = t /\ p = <<"pip", i>>
          \/ \E i \in DOMAIN trackers :
               trackers[i] = t /\ p = <<"trackers", i>>
          \/ \E i \in DOMAIN tasks : tasks[i] = t /\ p = <<"tasks", i>>
          \/ \E w \in Workers : held[w] = t /\ p = <<"held", w>>
          \/ \E w \in Workers : arg[w] = t /\ p = <<"arg", w>>
    BY DEF Owners
  <2>4. \A p, q \in Owners(t) : p = q
    <3> SUFFICES ASSUME NEW p \in Owners(t), NEW q \in Owners(t)
                 PROVE  p = q
      OBVIOUS
    <3>0. OneHand
      BY <1>1 DEF IInv
    <3>1. CASE \E i \in DOMAIN pip : pip[i] = t /\ p = <<"pip", i>>
      BY <2>1, <2>2, <2>3, <3>0, <3>1 DEF OneHand, Waiting, Once
    <3>2. CASE \E i \in DOMAIN trackers :
                 trackers[i] = t /\ p = <<"trackers", i>>
      BY <2>1, <2>2, <2>3, <3>0, <3>2 DEF OneHand, Waiting, Once
    <3>3. CASE \E i \in DOMAIN tasks : tasks[i] = t /\ p = <<"tasks", i>>
      BY <2>1, <2>2, <2>3, <3>0, <3>3 DEF OneHand, Waiting, Once
    <3>4. CASE \E w \in Workers : held[w] = t /\ p = <<"held", w>>
      BY <2>1, <2>2, <2>3, <3>0, <3>4 DEF OneHand, Waiting, Once
    <3>5. CASE \E w \in Workers : arg[w] = t /\ p = <<"arg", w>>
      BY <2>1, <2>2, <2>3, <3>0, <3>5 DEF OneHand, Waiting, Once
    <3> QED BY <2>3, <3>1, <3>2, <3>3, <3>4, <3>5
  <2>5. destroyed[t] # 0 => Owners(t) = {}
    <3>1. ASSUME destroyed[t] # 0
          PROVE  ~ Waiting(t) /\ \A w \in Workers : held[w] # t /\ arg[w] # t
      BY <1>1, <3>1 DEF IInv, Gone
    <3> QED BY <2>2, <2>3, <3>1 DEF Waiting
  <2>6. Cardinality(Owners(t)) = IF Owners(t) = {} THEN 0 ELSE 1
    BY <2>4, OneOrNone
  <2> QED BY <2>5, <2>6
<1>2. IInv => OneOwner
  BY <1>1 DEF IInv, Faces, OneOwner
<1> QED BY <1>2, Invariance, PTL
=============================================================================
