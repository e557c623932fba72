----------------------------- MODULE CVecProofs -----------------------------
(***************************************************************************)
(* For any number of threads and values: the queue is only touched under   *)
(* its mutex, no wakeup of a Push is lost, and no value is handed out      *)
(* twice.                                                                  *)
(***************************************************************************)
EXTENDS CVecRefinement, SequenceTheorems, FiniteSetTheorems, TLAPS

(* Which statements a thread can be at, and when it holds a value.         *)
Roles ==
  /\ \A t \in Producers : pc[t] \notin {"asleep", "stop"}
  /\ \A t \in Stoppers : pc[t] \in {"idle", "stop", "gone"}
  /\ \A t \in Producers : pc[t] \in {"enter", "check", "go"} => val[t] \in Vals
  /\ \A t \in Consumers : pc[t] = "signal" => val[t] = Null

LockInv == TypeOK /\ Roles /\ Exclusive

(* Signal moves the calling thread to `next' and at most one sleeper to    *)
(* the mutex, and nobody else.                                             *)
LEMMA SignalMoves ==
  ASSUME TypeOK, NEW t \in Threads, NEW next \in PCs, Signal(t, next),
         t \notin Sleeping
  PROVE  /\ pc' \in [Threads -> PCs]
         /\ pc'[t] = next
         /\ \E S \in SUBSET Sleeping :
              /\ \A s \in S : pc'[s] = "enter"
              /\ \A u \in Threads \ (S \cup {t}) : pc'[u] = pc[u]
              /\ Sleeping # {} => S # {}
<1>1. Sleeping \subseteq Threads /\ pc \in [Threads -> PCs] /\ "enter" \in PCs
  BY DEF Sleeping, Threads, Users, TypeOK, PCs
<1>2. CASE Sleeping = {} /\ pc' = [pc EXCEPT ![t] = next]
  <2>1. \A u \in Threads \ ({} \cup {t}) : pc'[u] = pc[u]
    BY <1>1, <1>2
  <2> QED BY <1>1, <1>2, <2>1
<1>3. ASSUME NEW s \in Sleeping, pc' = [pc EXCEPT ![t] = next, ![s] = "enter"]
      PROVE  /\ pc' \in [Threads -> PCs]
             /\ pc'[t] = next
             /\ \E S \in SUBSET Sleeping :
                  /\ \A x \in S : pc'[x] = "enter"
                  /\ \A u \in Threads \ (S \cup {t}) : pc'[u] = pc[u]
                  /\ Sleeping # {} => S # {}
  <2>1. {s} \in SUBSET Sleeping /\ s \in Threads
    BY <1>1
  <2>2. \A x \in {s} : pc'[x] = "enter"
    BY <1>1, <1>3, <2>1
  <2>3. \A u \in Threads \ ({s} \cup {t}) : pc'[u] = pc[u]
    BY <1>1, <1>3, <2>1
  <2>4. pc' \in [Threads -> PCs] /\ pc'[t] = next
    BY <1>1, <1>3, <2>1
  <2> QED BY <2>1, <2>2, <2>3, <2>4
<1> QED BY <1>2, <1>3 DEF Signal

(* LockInv holds before the first call.                                    *)
LEMMA LockInit ==
  ASSUME Init
  PROVE  LockInv
<1> USE CVecAssumption DEF Init
<1>1. TypeOK
  <2>1. vec \in Seq(Vals)
    <3>1. vec = <<>>
      BY Zenon
    <3> QED BY <3>1, EmptySeq
  <2>3. done \in BOOLEAN
    BY Zenon
  <2>2. pc \in [Threads -> PCs] /\ val \in [Users -> Vals \cup {Null}]
    BY DEF PCs
  <2> QED BY <2>1, <2>2, <2>3 DEF TypeOK
<1>2. Roles
  BY DEF Roles, Threads, Users
<1>3. Exclusive
  BY DEF Exclusive, Holding, Threads, Users
<1> QED BY <1>1, <1>2, <1>3 DEF LockInv

(* Every statement of Push, Pop and Stop keeps LockInv: only the holder of *)
(* the mutex writes the vector and leaves the guarded statements.          *)
LEMMA LockStep ==
  ASSUME LockInv, [Next]_vars
  PROVE  LockInv'
<1> USE CVecAssumption DEF LockInv
<1>1. ASSUME NEW t \in Users, Lock(t)
      PROVE  LockInv'
  BY <1>1 DEF Lock, TypeOK, Roles, Exclusive, PCs, Holding, Threads, Users
<1>2. ASSUME NEW t \in Users, Check(t)
      PROVE  LockInv'
  BY <1>2 DEF Check, TypeOK, Roles, Exclusive, PCs, Holding, Threads, Users
<1>3. ASSUME NEW t \in Users, Store(t)
      PROVE  LockInv'
  BY <1>3 DEF Store, TypeOK, Roles, Exclusive, PCs, Holding, Threads, Users
<1>4. ASSUME NEW t \in Users, Sleep(t)
      PROVE  LockInv'
  BY <1>4 DEF Sleep, TypeOK, Roles, Exclusive, PCs, Holding, Threads, Users
<1>5. ASSUME NEW t \in Users, Take(t)
      PROVE  LockInv'
  <2>1. vec[Len(vec)] \in Vals /\ vec' \in Seq(Vals)
    BY <1>5 DEF Take, TypeOK
  <2> QED BY <1>5, <2>1
          DEF Take, TypeOK, Roles, Exclusive, PCs, Holding, Threads, Users
<1>6. ASSUME NEW t \in Users, PassOn(t)
      PROVE  LockInv'
  <2>1. PICK S \in SUBSET Sleeping :
          /\ pc' \in [Threads -> PCs] /\ pc'[t] = "unlock"
          /\ \A s \in S : pc'[s] = "enter"
          /\ \A u \in Threads \ (S \cup {t}) : pc'[u] = pc[u]
    BY <1>6, SignalMoves DEF PassOn, PCs, Threads, Sleeping
  <2> QED BY <1>6, <2>1
          DEF PassOn, TypeOK, Roles, Exclusive, PCs, Holding, Threads, Users,
              Sleeping
<1>7. ASSUME NEW t \in Users, Unlock(t)
      PROVE  LockInv'
  BY <1>7 DEF Unlock, TypeOK, Roles, Exclusive, PCs, Holding, Threads, Users
<1>8. ASSUME NEW t \in Users, Return(t)
      PROVE  LockInv'
  BY <1>8 DEF Return, TypeOK, Roles, Exclusive, PCs, Holding, Threads, Users
<1>9. ASSUME NEW t \in Producers, NEW v \in Vals, CallPush(t, v)
      PROVE  LockInv'
  BY <1>9 DEF CallPush, TypeOK, Roles, Exclusive, PCs, Holding, Threads, Users
<1>10. ASSUME NEW t \in Consumers, CallPop(t)
       PROVE  LockInv'
  BY <1>10 DEF CallPop, TypeOK, Roles, Exclusive, PCs, Holding, Threads, Users
<1>11. ASSUME NEW t \in Consumers, WakeUp(t)
       PROVE  LockInv'
  BY <1>11
  DEF WakeUp, Sleeping, TypeOK, Roles, Exclusive, PCs, Holding, Threads, Users
<1>12. ASSUME NEW t \in Consumers \cup Stoppers, StopWrite(t)
       PROVE  LockInv'
  BY <1>12 DEF StopWrite, TypeOK, Roles, Exclusive, PCs, Holding, Threads, Users
<1>13. ASSUME NEW t \in Consumers \cup Stoppers, StopSignal(t)
       PROVE  LockInv'
  <2>1. PICK S \in SUBSET Sleeping :
          /\ pc' \in [Threads -> PCs]
          /\ pc'[t] = IF t \in Consumers THEN "quit" ELSE "gone"
          /\ \A s \in S : pc'[s] = "enter"
          /\ \A u \in Threads \ (S \cup {t}) : pc'[u] = pc[u]
    BY <1>13, SignalMoves, SMTT(60)
    DEF StopSignal, PCs, Threads, Users, Sleeping
  <2> QED BY <1>13, <2>1
          DEF StopSignal, TypeOK, Roles, Exclusive, PCs, Holding, Threads,
              Users, Sleeping
<1>14. ASSUME NEW t \in Consumers, Quit(t)
       PROVE  LockInv'
  BY <1>14 DEF Quit, TypeOK, Roles, Exclusive, PCs, Holding, Threads, Users
<1>15. CASE UNCHANGED vars
  BY <1>15 DEF vars, TypeOK, Roles, Exclusive
<1> QED BY <1>1, <1>2, <1>3, <1>4, <1>5, <1>6, <1>7, <1>8, <1>9, <1>10, <1>11,
           <1>12, <1>13, <1>14, <1>15
        DEF Next, Step

(* The inductive invariant, for any number of producers and consumers: who *)
(* is between lock and unlock holds the mutex, and nobody else does.       *)
THEOREM Locked == Spec => []LockInv
<1> QED BY LockInit, LockStep, PTL DEF Spec

(* Every variable of the queue keeps its type.                             *)
THEOREM Typed == Spec => []TypeOK
<1> QED BY Locked, PTL DEF LockInv

(* cvec/imp.h: between PMutexLock and PMutexUnlock a thread is alone, and  *)
(* PCondWait gives the mutex up and takes it back.                         *)
THEOREM MutualExclusion == Spec => []Exclusive
<1> QED BY Locked, PTL DEF LockInv

-----------------------------------------------------------------------------
(* VecPop: one element less, the others where they were.                   *)
LEMMA PopShortens ==
  ASSUME vec \in Seq(Vals), vec # <<>>
  PROVE  /\ Len(vec) \in Nat \ {0}
         /\ Len(SubSeq(vec, 1, Len(vec) - 1)) = Len(vec) - 1
         /\ \A i \in 1 .. Len(vec) - 1 : SubSeq(vec, 1, Len(vec) - 1)[i] = vec[i]
<1>1. Len(vec) \in Nat \ {0}
  BY EmptySeq, LenProperties
<1>2. \A i \in 1 .. Len(vec) - 1 : vec[i] \in Vals
  BY <1>1, ElementOfSeq
<1> DEFINE n == Len(vec) - 1
<1>3. /\ n \in Nat
      /\ Len(SubSeq(vec, 1, n)) = IF 1 <= n THEN n - 1 + 1 ELSE 0
      /\ \A i \in 1 .. n - 1 + 1 : SubSeq(vec, 1, n)[i] = vec[1 + i - 1]
  <2>1. n \in Nat /\ \A i \in 1 .. n : vec[i] \in Vals
    BY <1>1, <1>2
  <2> HIDE DEF n
  <2> QED BY <2>1, SubSeqProperties
<1>4. Len(SubSeq(vec, 1, n)) = n /\ \A i \in 1 .. n : SubSeq(vec, 1, n)[i] = vec[i]
  <2> HIDE DEF n
  <2>1. n - 1 + 1 = n /\ (~ (1 <= n) => n = 0) /\ \A i \in 1 .. n : 1 + i - 1 = i
    BY <1>3
  <2> QED BY <1>3, <2>1
<1> QED BY <1>1, <1>4

(* The sets WorkIsSeen counts are finite, and a larger one counts for no   *)
(* less.                                                                   *)
LEMMA Counted ==
  /\ IsFiniteSet(Coming) /\ Cardinality(Coming) \in Nat
  /\ IsFiniteSet(Signalling) /\ Cardinality(Signalling) \in Nat
<1>1. /\ IsFiniteSet(Consumers) /\ Coming \subseteq Consumers
      /\ IsFiniteSet(Producers) /\ Signalling \subseteq Producers
  BY CVecAssumption DEF Coming, Signalling
<1> QED BY <1>1, FS_Subset, FS_CardinalityType

LEMMA CountedNext ==
  /\ IsFiniteSet(Coming') /\ Cardinality(Coming)' = Cardinality(Coming')
  /\ IsFiniteSet(Signalling')
  /\ Cardinality(Signalling)' = Cardinality(Signalling')
  /\ Cardinality(Coming') \in Nat /\ Cardinality(Signalling') \in Nat
<1>1. /\ IsFiniteSet(Consumers) /\ Coming' \subseteq Consumers
      /\ IsFiniteSet(Producers) /\ Signalling' \subseteq Producers
  BY CVecAssumption DEF Coming, Signalling
<1>2. /\ IsFiniteSet(Coming') /\ Cardinality(Coming') \in Nat
      /\ IsFiniteSet(Signalling') /\ Cardinality(Signalling') \in Nat
  BY <1>1, FS_Subset, FS_CardinalityType
<1> QED BY <1>2

(* A step after which no more work is on the queue, nobody new sleeps and  *)
(* whoever was on the way still is keeps WorkIsSeen.                       *)
LEMMA NobodyLost ==
  ASSUME WorkIsSeen, UNCHANGED <<vec, done>>, Len(vec) \in Nat,
         Sleeping' \subseteq Sleeping,
         Coming \subseteq Coming', Signalling \subseteq Signalling'
  PROVE  WorkIsSeen'
<1>1. /\ Cardinality(Coming) <= Cardinality(Coming')
      /\ Cardinality(Signalling) <= Cardinality(Signalling')
  BY Counted, CountedNext, FS_Subset
<1>2. SUFFICES ASSUME ~done', Sleeping' # {}
               PROVE  Len(vec') <= Cardinality(Coming)' + Cardinality(Signalling)'
  BY DEF WorkIsSeen
<1>3. ~done /\ Sleeping # {}
  BY <1>2
<1>4. Len(vec) <= Cardinality(Coming) + Cardinality(Signalling)
  BY <1>3 DEF WorkIsSeen
<1> QED BY <1>1, <1>4, Counted, CountedNext

(* A thread that signals wakes somebody who then is on the way, if anybody *)
(* sleeps.                                                                 *)
LEMMA SignalWakes ==
  ASSUME TypeOK, NEW t \in Threads, NEW next \in PCs, Signal(t, next),
         t \notin Sleeping, t \notin Coming,
         next \notin {"asleep", "enter", "check", "go", "signal"}
  PROVE  /\ Sleeping' \subseteq Sleeping /\ Coming \subseteq Coming'
         /\ Signalling \ {t} = Signalling'
         /\ Sleeping # {} => \E s \in Coming' : s \notin Coming
<1>1. PICK S \in SUBSET Sleeping :
        /\ pc'[t] = next
        /\ \A s \in S : pc'[s] = "enter"
        /\ \A u \in Threads \ (S \cup {t}) : pc'[u] = pc[u]
        /\ Sleeping # {} => S # {}
  BY SignalMoves
<1>2. S \subseteq Consumers /\ \A s \in S : pc[s] = "asleep"
  BY DEF Sleeping
<1>3. Sleeping' \subseteq Sleeping
  BY <1>1, <1>2 DEF Sleeping, Threads, Users
<1>4. Coming \subseteq Coming'
  BY <1>1, <1>2 DEF Coming, Threads, Users
<1>5. Signalling \ {t} = Signalling'
  BY <1>1, <1>2, CVecAssumption DEF Signalling, Threads, Users
<1>6. ASSUME Sleeping # {}
      PROVE  \E s \in Coming' : s \notin Coming
  <2>1. PICK s \in S : TRUE
    BY <1>1, <1>6
  <2>2. s \in Coming' /\ s \notin Coming
    BY <1>1, <1>2, <2>1 DEF Coming
  <2> QED BY <2>2
<1> QED BY <1>3, <1>4, <1>5, <1>6

(* WorkIsSeen is inductive: Store adds one piece of work and one thread    *)
(* with a signal to send, a signal turns the one into a consumer on its    *)
(* way, Take takes one of each away, and only Sleep adds a sleeper, which  *)
(* sees the queue empty.                                                   *)
THEOREM NoLostWakeup == Spec => []WorkIsSeen
<1>1. Init => WorkIsSeen
  BY DEF Init, WorkIsSeen, Sleeping, Threads, Users
<1>2. LockInv /\ WorkIsSeen /\ [Next]_vars => WorkIsSeen'
  <2> SUFFICES ASSUME LockInv, WorkIsSeen, [Next]_vars
               PROVE  WorkIsSeen'
    OBVIOUS
  <2> USE CVecAssumption DEF LockInv
  <2>0. vec \in Seq(Vals) /\ Len(vec) \in Nat /\ pc \in [Threads -> PCs]
    BY DEF TypeOK
  <2>1. ASSUME NEW t \in Users, Lock(t) \/ Unlock(t) \/ Return(t)
        PROVE  WorkIsSeen'
    <3>1. /\ UNCHANGED <<vec, done>> /\ Sleeping' \subseteq Sleeping
          /\ Coming \subseteq Coming' /\ Signalling \subseteq Signalling'
      BY <2>0, <2>1
      DEF Lock, Unlock, Return, Sleeping, Coming, Signalling, Threads, Users
    <3> QED BY <2>0, <3>1, NobodyLost
  <2>2. ASSUME NEW t \in Users, Check(t)
        PROVE  WorkIsSeen'
    <3>1. CASE done
      BY <2>2, <3>1 DEF Check, WorkIsSeen
    <3>2. CASE ~done
      <4>1. /\ UNCHANGED <<vec, done>> /\ Sleeping' \subseteq Sleeping
            /\ Coming \subseteq Coming' /\ Signalling \subseteq Signalling'
        BY <2>0, <2>2, <3>2
        DEF Check, Sleeping, Coming, Signalling, Threads, Users
      <4> QED BY <2>0, <4>1, NobodyLost
    <3> QED BY <3>1, <3>2
  <2>3. ASSUME NEW t \in Users, Store(t)
        PROVE  WorkIsSeen'
    <3>1. /\ t \in Producers /\ Coming' = Coming /\ Sleeping' = Sleeping
          /\ Signalling' = Signalling \cup {t} /\ t \notin Signalling
          /\ UNCHANGED done /\ vec' = Append(vec, val[t]) /\ val[t] \in Vals
      BY <2>0, <2>3
      DEF Store, Roles, Sleeping, Coming, Signalling, Threads, Users
    <3>2. Cardinality(Signalling') = Cardinality(Signalling) + 1
      BY <3>1, Counted, FS_AddElement
    <3>3. Len(vec') = Len(vec) + 1
      BY <2>0, <3>1, AppendProperties
    <3> QED BY <2>0, <3>1, <3>2, <3>3, Counted, CountedNext DEF WorkIsSeen
  <2>4. ASSUME NEW t \in Users, Sleep(t)
        PROVE  WorkIsSeen'
    <3>1. vec' = <<>>
      BY <2>4 DEF Sleep
    <3>2. Len(vec') = 0
      BY <3>1, EmptySeq
    <3> QED BY <3>2, CountedNext DEF WorkIsSeen
  <2>5. ASSUME NEW t \in Users, Take(t)
        PROVE  WorkIsSeen'
    <3>1. /\ Coming' = Coming \ {t} /\ t \in Coming /\ Sleeping' = Sleeping
          /\ Signalling' = Signalling /\ UNCHANGED done /\ vec # <<>>
          /\ vec' = SubSeq(vec, 1, Len(vec) - 1)
      BY <2>0, <2>5
      DEF Take, Sleeping, Coming, Signalling, Threads, Users
    <3>2. Cardinality(Coming') = Cardinality(Coming) - 1
      BY <3>1, Counted, FS_RemoveElement
    <3>3. Len(vec') = Len(vec) - 1
      BY <2>0, <3>1, PopShortens
    <3> QED BY <2>0, <3>1, <3>2, <3>3, Counted, CountedNext DEF WorkIsSeen
  <2>6. ASSUME NEW t \in Users, PassOn(t)
        PROVE  WorkIsSeen'
    <3>0. UNCHANGED <<vec, done>>
      BY <2>6 DEF PassOn
    <3>1. /\ Sleeping' \subseteq Sleeping /\ Coming \subseteq Coming'
          /\ Signalling \ {t} = Signalling'
          /\ Sleeping # {} => \E s \in Coming' : s \notin Coming
      BY <2>6, SignalWakes
      DEF PassOn, PCs, Threads, Sleeping, Coming
    <3>2. CASE t \notin Signalling
      BY <2>0, <3>0, <3>1, <3>2, NobodyLost
    <3>3. CASE t \in Signalling /\ Sleeping # {}
      <4>1. Cardinality(Signalling') = Cardinality(Signalling) - 1
        BY <3>1, <3>3, Counted, FS_RemoveElement
      <4>2. PICK s \in Coming' : s \notin Coming
        BY <3>1, <3>3
      <4>3. Cardinality(Coming \cup {s}) = Cardinality(Coming) + 1
        BY <4>2, Counted, FS_AddElement
      <4>4. Cardinality(Coming \cup {s}) <= Cardinality(Coming')
        <5>1. Coming \cup {s} \subseteq Coming'
          BY <3>1, <4>2
        <5> QED BY <5>1, CountedNext, FS_Subset
      <4> QED BY <2>0, <3>0, <3>3, <4>1, <4>3, <4>4, Counted, CountedNext
              DEF WorkIsSeen
    <3>4. CASE Sleeping = {}
      BY <3>1, <3>4 DEF WorkIsSeen
    <3> QED BY <3>2, <3>3, <3>4
  <2>7. ASSUME NEW t \in Consumers \cup Stoppers, StopSignal(t)
        PROVE  WorkIsSeen'
    <3>1. UNCHANGED <<vec, done>> /\ t \notin Signalling
      BY <2>7 DEF StopSignal, Signalling
    <3>2. /\ Sleeping' \subseteq Sleeping /\ Coming \subseteq Coming'
          /\ Signalling \ {t} = Signalling'
      BY <2>7, SignalWakes
      DEF StopSignal, PCs, Threads, Users, Sleeping, Coming
    <3> QED BY <2>0, <3>1, <3>2, NobodyLost
  <2>8. ASSUME NEW t \in Producers, NEW v \in Vals, CallPush(t, v)
        PROVE  WorkIsSeen'
    <3>1. /\ UNCHANGED <<vec, done>> /\ Sleeping' \subseteq Sleeping
          /\ Coming \subseteq Coming' /\ Signalling \subseteq Signalling'
      BY <2>0, <2>8 DEF CallPush, Sleeping, Coming, Signalling, Threads, Users
    <3> QED BY <2>0, <3>1, NobodyLost
  <2>9. ASSUME NEW t \in Consumers, CallPop(t) \/ WakeUp(t) \/ Quit(t)
        PROVE  WorkIsSeen'
    <3>1. /\ UNCHANGED <<vec, done>> /\ Sleeping' \subseteq Sleeping
          /\ Coming \subseteq Coming' /\ Signalling \subseteq Signalling'
      BY <2>0, <2>9
      DEF CallPop, WakeUp, Quit, Sleeping, Coming, Signalling, Threads, Users
    <3> QED BY <2>0, <3>1, NobodyLost
  <2>10. ASSUME NEW t \in Consumers \cup Stoppers, StopWrite(t)
         PROVE  WorkIsSeen'
    BY <2>10 DEF StopWrite, WorkIsSeen
  <2>11. CASE UNCHANGED vars
    BY <2>11 DEF vars, WorkIsSeen, Sleeping, Coming, Signalling
  <2> QED BY <2>1, <2>2, <2>3, <2>4, <2>5, <2>6, <2>7, <2>8, <2>9, <2>10, <2>11
          DEF Next, Step
<1> QED BY <1>1, <1>2, Locked, PTL DEF Spec

-----------------------------------------------------------------------------
(* A step that leaves the queue and the fresh values alone and puts        *)
(* nothing new into anybody's hands keeps HandedOnce.                      *)
LEMMA NothingNewInHand ==
  ASSUME HandedOnce, UNCHANGED <<vec, fresh>>,
         \A u \in Users : InHand(u)' \subseteq InHand(u)
  PROVE  HandedOnce'
<1> HIDE DEF InHand
<1> QED BY Zenon DEF HandedOnce

(* What the hands hold after each kind of statement.                       *)
LEMMA HandsStep ==
  ASSUME LockInv, NEW t \in Users,
         \/ Lock(t) \/ Check(t) \/ Sleep(t) \/ Unlock(t) \/ Return(t)
         \/ (t \in Consumers /\ (CallPop(t) \/ WakeUp(t) \/ Quit(t)))
  PROVE  UNCHANGED <<vec, fresh>> /\ \A u \in Users : InHand(u)' \subseteq InHand(u)
<1> USE CVecAssumption DEF LockInv, TypeOK, Roles, Threads, Users, InHand
<1>1. CASE Lock(t)
  BY <1>1 DEF Lock
<1>2. CASE Check(t)
  BY <1>2 DEF Check
<1>3. CASE Sleep(t)
  BY <1>3 DEF Sleep
<1>4. CASE Unlock(t)
  BY <1>4 DEF Unlock
<1>5. CASE Return(t)
  BY <1>5 DEF Return
<1>6. CASE t \in Consumers /\ CallPop(t)
  BY <1>6 DEF CallPop
<1>7. CASE t \in Consumers /\ WakeUp(t)
  BY <1>7 DEF WakeUp, Sleeping
<1>8. CASE t \in Consumers /\ Quit(t)
  BY <1>8 DEF Quit
<1> QED BY <1>1, <1>2, <1>3, <1>4, <1>5, <1>6, <1>7, <1>8

(* cvec/imp.h: whatever the interleaving, Pop never returns a value twice, *)
(* nor one that is still in the vector or on its way into it.              *)
THEOREM NoDoubleHandOut == Spec => []HandedOnce
<1>1. Init => HandedOnce
  BY CVecAssumption DEF Init, HandedOnce, InHand, Users, Threads
<1>2. LockInv /\ HandedOnce /\ [Next]_vars => HandedOnce'
  <2> SUFFICES ASSUME LockInv, HandedOnce, [Next]_vars
               PROVE  HandedOnce'
    OBVIOUS
  <2> USE CVecAssumption
  <2>1. ASSUME NEW t \in Users,
               Lock(t) \/ Check(t) \/ Sleep(t) \/ Unlock(t) \/ Return(t)
        PROVE  HandedOnce'
    BY <2>1, HandsStep, NothingNewInHand
  <2>2. ASSUME NEW t \in Consumers, CallPop(t) \/ WakeUp(t) \/ Quit(t)
        PROVE  HandedOnce'
    BY <2>2, HandsStep, NothingNewInHand DEF Users
  <2>3. ASSUME NEW t \in Users, Store(t)
        PROVE  HandedOnce'
    <3>1. t \in Producers /\ pc[t] = "go" /\ val[t] \in Vals /\ vec \in Seq(Vals)
      BY <2>3 DEF Store, LockInv, Roles, TypeOK
    <3>2. InHand(t) = {val[t]}
      BY <3>1 DEF InHand
    <3>3. InHand(t)' = {} /\ \A u \in Users \ {t} : InHand(u)' = InHand(u)
      BY <2>3, <3>1 DEF Store, LockInv, TypeOK, Threads, Users, InHand
    <3>4. UNCHANGED fresh /\ vec' = Append(vec, val[t])
      BY <2>3 DEF Store
    <3>5. /\ Len(vec') = Len(vec) + 1 /\ Len(vec) \in Nat
          /\ \A i \in 1 .. Len(vec) : vec'[i] = vec[i]
          /\ vec'[Len(vec) + 1] = val[t]
      BY <3>1, <3>4, AppendProperties
    <3> HIDE DEF InHand
    <3> QED BY <3>2, <3>3, <3>4, <3>5 DEF HandedOnce
  <2>4. ASSUME NEW t \in Users, Take(t)
        PROVE  HandedOnce'
    <3>1. t \in Consumers /\ pc[t] = "go" /\ vec \in Seq(Vals) /\ vec # <<>>
      BY <2>4 DEF Take, LockInv, TypeOK
    <3>2. InHand(t)' \subseteq {vec[Len(vec)]} /\ UNCHANGED fresh
      BY <2>4, <3>1 DEF Take, LockInv, TypeOK, Threads, Users, InHand
    <3>3. \A u \in Users \ {t} : InHand(u)' = InHand(u)
      BY <2>4, <3>1 DEF Take, LockInv, TypeOK, Threads, Users, InHand
    <3>4. vec' = SubSeq(vec, 1, Len(vec) - 1)
      BY <2>4 DEF Take
    <3>5. /\ Len(vec) \in Nat \ {0} /\ Len(vec') = Len(vec) - 1
          /\ \A i \in 1 .. Len(vec) - 1 : vec'[i] = vec[i]
      BY <3>1, <3>4, PopShortens
    <3> HIDE DEF InHand
    <3> QED BY <3>2, <3>3, <3>5 DEF HandedOnce
  <2>5. ASSUME NEW t \in Threads, NEW next \in {"unlock", "gone", "quit"},
               Signal(t, next), t \notin Sleeping, UNCHANGED <<vec, val, fresh>>,
               next = "unlock" /\ t \in Consumers => val[t] = Null
        PROVE  HandedOnce'
    <3>1. PICK S \in SUBSET Sleeping :
            /\ pc'[t] = next
            /\ \A s \in S : pc'[s] = "enter"
            /\ \A u \in Threads \ (S \cup {t}) : pc'[u] = pc[u]
      <4>1. next \in PCs
        BY <2>5 DEF PCs
      <4> QED BY <2>5, <4>1, SignalMoves DEF LockInv
    <3>2. \A u \in Users : InHand(u)' \subseteq InHand(u)
      BY <2>5, <3>1 DEF InHand, Sleeping, Threads, Users
    <3> QED BY <2>5, <3>2, NothingNewInHand
  <2>6. ASSUME NEW t \in Users, PassOn(t)
        PROVE  HandedOnce'
    BY <2>5, <2>6 DEF PassOn, Threads, Sleeping, LockInv, Roles
  <2>7. ASSUME NEW t \in Consumers \cup Stoppers, StopSignal(t)
        PROVE  HandedOnce'
    BY <2>5, <2>7 DEF StopSignal, Threads, Users, Sleeping
  <2>8. ASSUME NEW t \in Producers, NEW v \in Vals, CallPush(t, v)
        PROVE  HandedOnce'
    <3>1. v \in fresh /\ fresh' = fresh \ {v} /\ UNCHANGED vec
      BY <2>8 DEF CallPush
    <3>2. InHand(t)' \subseteq {v} /\ \A u \in Users \ {t} : InHand(u)' = InHand(u)
      BY <2>8 DEF CallPush, LockInv, TypeOK, Threads, Users, InHand
    <3>3. t \in Users
      BY DEF Users
    <3> HIDE DEF InHand
    <3> QED BY <3>1, <3>2, <3>3 DEF HandedOnce
  <2>9. ASSUME NEW t \in Consumers \cup Stoppers, StopWrite(t)
        PROVE  HandedOnce'
    <3>1. \A u \in Users : InHand(u)' \subseteq InHand(u)
      BY <2>9 DEF StopWrite, LockInv, TypeOK, Threads, Users, InHand
    <3> QED BY <2>9, <3>1, NothingNewInHand DEF StopWrite
  <2>10. CASE UNCHANGED vars
    <3>1. \A u \in Users : InHand(u)' \subseteq InHand(u)
      BY <2>10 DEF vars, InHand
    <3> QED BY <2>10, <3>1, NothingNewInHand DEF vars
  <2> QED BY <2>1, <2>2, <2>3, <2>4, <2>6, <2>7, <2>8, <2>9, <2>10 DEF Next, Step
<1> QED BY <1>1, <1>2, Locked, PTL DEF Spec

-----------------------------------------------------------------------------
(* At most one thread is between its reading of `done' and its update.     *)
LEMMA OneCommits ==
  ASSUME LockInv
  PROVE  /\ \A t \in Users : pc[t] = "go" => Committed = {t}
         /\ (\A t \in Users : pc[t] # "go") => Committed = {} /\ Items = vec
         /\ \A t \in Producers : pc[t] = "go" => Items = Append(vec, val[t])
         /\ \A t \in Consumers : pc[t] = "go" =>
              Items = IF vec # <<>> THEN SubSeq(vec, 1, Len(vec) - 1) ELSE vec
<1> USE CVecAssumption
<1>1. \A t \in Users : pc[t] = "go" => Committed = {t}
  BY DEF LockInv, Exclusive, Holding, Committed
<1>2. (\A t \in Users : pc[t] # "go") => Committed = {}
  BY DEF Committed
<1>3. ASSUME NEW t \in Producers, pc[t] = "go"
      PROVE  Items = Append(vec, val[t])
  BY <1>1, <1>3 DEF Items, Users
<1>4. ASSUME NEW t \in Consumers, pc[t] = "go"
      PROVE  Items = IF vec # <<>> THEN SubSeq(vec, 1, Len(vec) - 1) ELSE vec
  BY <1>1, <1>4 DEF Items, Users
<1> QED BY <1>1, <1>2, <1>3, <1>4 DEF Items

(* What the call of thread t looks like decides the abstract step: nobody  *)
(* else's changes.                                                         *)
Calls == [u \in Threads |-> CallOf(u)]

(* A step that changes the call of t alone.                                *)
LEMMA OnlyOwnCall ==
  ASSUME NEW t \in Threads, \A u \in Threads \ {t} : CallOf(u)' = CallOf(u)
  PROVE  Calls' = [Calls EXCEPT ![t] = CallOf(t)']
BY Zenon DEF Calls

(* A step that changes nobody's call.                                      *)
LEMMA SameCalls ==
  ASSUME \A u \in Threads : CallOf(u)' = CallOf(u)
  PROVE  Calls' = Calls
BY Zenon DEF Calls

(* The abstract stack changes only with the vector, or when somebody comes *)
(* to the point of updating it or goes on from there.                      *)
LEMMA SameItems ==
  ASSUME UNCHANGED <<vec, val>>, \A u \in Users : pc'[u] = "go" <=> pc[u] = "go"
  PROVE  Items' = Items
<1>1. Committed' = Committed
  BY DEF Committed
<1> QED BY <1>1 DEF Items

(* A statement of a call under way is the abstract step, or a stutter.     *)
LEMMA StepRefines ==
  ASSUME LockInv, LockInv', NEW t \in Users, Step(t)
  PROVE  [Stack!Next]_Stack!vars
<1> USE CVecAssumption
<1>0. t \in Threads /\ (t \in Producers \/ t \in Consumers)
  BY DEF Threads, Users
<1>1. CASE Lock(t)
  <2>1. \A u \in Threads : CallOf(u)' = CallOf(u)
    BY <1>0, <1>1
    DEF Lock, CallOf, LockInv, TypeOK, Roles, Exclusive, Holding, Threads, Users
  <2>2. Items' = Items
    <3>1. \A u \in Users : pc'[u] = "go" <=> pc[u] = "go"
      BY <1>1 DEF Lock, LockInv, TypeOK, Roles, Exclusive, Holding, Threads, Users
    <3> QED BY <1>1, <3>1, SameItems DEF Lock
  <2>3. UNCHANGED done
    BY <1>1 DEF Lock
  <2> QED BY <2>1, <2>2, <2>3, SameCalls DEF Stack!vars, Calls
<1>2. CASE Check(t)
  <2>1. \A u \in Threads \ {t} : CallOf(u)' = CallOf(u)
    BY <1>0, <1>2
    DEF Check, CallOf, LockInv, TypeOK, Roles, Exclusive, Holding, Threads,
        Users
  <2>2. Calls' = [Calls EXCEPT ![t] = CallOf(t)']
    BY <1>0, <2>1, OnlyOwnCall
  <2>3. Items = vec /\ UNCHANGED <<vec, done>>
    <3>1. \A u \in Users : pc[u] # "go"
      BY <1>2
      DEF Check, LockInv, TypeOK, Roles, Exclusive, Holding, Threads, Users
    <3> QED BY <1>2, <3>1, OneCommits DEF Check
  <2>4. CASE ~done /\ pc' = [pc EXCEPT ![t] = "go"] /\ UNCHANGED val
    <3>0. Committed' = {t}
      BY <1>2, <2>4
      DEF Check, Committed, LockInv, TypeOK, Roles, Exclusive, Holding, Threads,
          Users
    <3>1. CASE t \in Producers
      <4>1. Items' = Append(vec, val[t])
        BY <2>3, <2>4, <3>0, <3>1 DEF Items
      <4>2. /\ val[t] \in Vals
            /\ CallOf(t) = [op |-> "push", val |-> val[t]]
            /\ CallOf(t)' = [op |-> "told", val |-> val[t]]
        BY <1>0, <1>2, <2>4, <3>1
        DEF Check, CallOf, LockInv, TypeOK, Roles, Exclusive, Holding, Threads,
            Users
      <4>3. Stack!Push(t, val[t])
        BY <1>0, <2>2, <2>3, <2>4, <4>1, <4>2
        DEF Stack!Push, Stack!Pushing, Stack!Told, Calls
      <4> QED BY <1>0, <4>2, <4>3 DEF Stack!Next
    <3>2. CASE t \in Consumers /\ vec = <<>>
      <4>1. Items' = vec
        BY <2>3, <2>4, <3>0, <3>2, CVecAssumption DEF Items
      <4>2. CallOf(t)' = CallOf(t)
        BY <1>0, <1>2, <2>4, <3>2
        DEF Check, CallOf, LockInv, TypeOK, Roles, Exclusive, Holding, Threads,
            Users
      <4> QED BY <2>1, <2>3, <4>1, <4>2, SameCalls DEF Stack!vars, Calls
    <3>3. CASE t \in Consumers /\ vec # <<>>
      <4>1. Items' = SubSeq(vec, 1, Len(vec) - 1)
        BY <2>3, <2>4, <3>0, <3>3, CVecAssumption DEF Items
      <4>2. /\ CallOf(t) = [op |-> "pop"]
            /\ CallOf(t)' = [op |-> "told", val |-> vec[Len(vec)]]
        BY <1>0, <1>2, <2>4, <3>3
        DEF Check, CallOf, LockInv, TypeOK, Roles, Exclusive, Holding, Threads,
            Users
      <4>3. Stack!Pop(t)
        BY <1>0, <2>2, <2>3, <2>4, <3>3, <4>1, <4>2
        DEF Stack!Pop, Stack!Popping, Stack!Told, Calls
      <4> QED BY <1>0, <4>3 DEF Stack!Next
    <3> QED BY <1>0, <3>1, <3>2, <3>3
  <2>5. CASE /\ done \/ (Oom /\ t \in Producers)
             /\ pc' = [pc EXCEPT ![t] = "signal"]
             /\ val' = [val EXCEPT ![t] = Null]
    <3>1. Items' = vec
      <4>1. \A u \in Users : pc'[u] # "go"
        BY <1>2, <2>5
        DEF Check, LockInv, TypeOK, Roles, Exclusive, Holding, Threads, Users
      <4> QED BY <2>3, <4>1 DEF Items, Committed
    <3>2. CallOf(t)' = [op |-> "told", val |-> Null]
      BY <1>0, <2>5
      DEF CallOf, LockInv, TypeOK, Roles, Exclusive, Holding, Threads, Users
    <3>3. CASE t \in Producers
      <4>1. val[t] \in Vals /\ CallOf(t) = [op |-> "push", val |-> val[t]]
        BY <1>0, <1>2, <3>3
        DEF Check, CallOf, LockInv, TypeOK, Roles, Exclusive, Holding, Threads,
            Users
      <4>2. Stack!Refuse(t, val[t])
        BY <1>0, <2>2, <2>3, <2>5, <3>1, <3>2, <4>1
        DEF Stack!Refuse, Stack!Pushing, Stack!Told, Calls
      <4> QED BY <1>0, <4>1, <4>2 DEF Stack!Next
    <3>4. CASE t \in Consumers
      <4>1. CallOf(t) = [op |-> "pop"] /\ done
        BY <1>0, <1>2, <2>5, <3>4
        DEF Check, CallOf, LockInv, TypeOK, Roles, Exclusive, Holding, Threads,
            Users
      <4>2. Stack!PopNothing(t)
        BY <1>0, <2>2, <2>3, <3>1, <3>2, <4>1
        DEF Stack!PopNothing, Stack!Popping, Stack!Told, Calls
      <4> QED BY <1>0, <4>2 DEF Stack!Next
    <3> QED BY <1>0, <3>3, <3>4
  <2> QED BY <1>2, <2>4, <2>5 DEF Check
<1>3. CASE Store(t)
  <2>1. \A u \in Threads : CallOf(u)' = CallOf(u)
    BY <1>0, <1>3
    DEF Store, CallOf, LockInv, TypeOK, Roles, Exclusive, Holding, Threads,
        Users
  <2>2. Items' = Items /\ UNCHANGED done
    <3>1. \A u \in Users : pc'[u] # "go"
      BY <1>3
      DEF Store, LockInv, TypeOK, Roles, Exclusive, Holding, Threads, Users
    <3>2. Items' = vec'
      BY <3>1 DEF Items, Committed
    <3> QED BY <1>3, <3>2, OneCommits DEF Store
  <2> QED BY <2>1, <2>2, SameCalls DEF Stack!vars, Calls
<1>4. CASE Sleep(t)
  <2>1. \A u \in Threads : CallOf(u)' = CallOf(u)
    BY <1>0, <1>4
    DEF Sleep, CallOf, LockInv, TypeOK, Roles, Exclusive, Holding, Threads,
        Users
  <2>2. Items' = Items /\ UNCHANGED done
    <3>1. \A u \in Users : pc'[u] # "go"
      BY <1>4
      DEF Sleep, LockInv, TypeOK, Roles, Exclusive, Holding, Threads, Users
    <3>2. Items' = vec'
      BY <3>1 DEF Items, Committed
    <3> QED BY <1>4, <3>2, OneCommits DEF Sleep
  <2> QED BY <2>1, <2>2, SameCalls DEF Stack!vars, Calls
<1>5. CASE Take(t)
  <2>1. \A u \in Threads : CallOf(u)' = CallOf(u)
    BY <1>0, <1>5
    DEF Take, CallOf, LockInv, TypeOK, Roles, Exclusive, Holding, Threads, Users
  <2>2. Items' = Items /\ UNCHANGED done
    <3>1. \A u \in Users : pc'[u] # "go"
      BY <1>5 DEF Take, LockInv, TypeOK, Roles, Exclusive, Holding, Threads, Users
    <3>2. Items' = vec'
      BY <3>1 DEF Items, Committed
    <3> QED BY <1>5, <3>2, OneCommits DEF Take
  <2> QED BY <2>1, <2>2, SameCalls DEF Stack!vars, Calls
<1>6. CASE PassOn(t)
  <2>1. PICK S \in SUBSET Sleeping :
          /\ pc'[t] = "unlock"
          /\ \A s \in S : pc'[s] = "enter"
          /\ \A u \in Threads \ (S \cup {t}) : pc'[u] = pc[u]
    BY <1>0, <1>6, SignalMoves DEF PassOn, PCs, Sleeping, LockInv
  <2>2. \A u \in Threads : CallOf(u)' = CallOf(u)
    BY <1>0, <1>6, <2>1
    DEF PassOn, CallOf, Sleeping, LockInv, TypeOK, Roles, Exclusive, Holding,
        Threads, Users
  <2>3. Items' = Items
    <3>1. \A u \in Users : pc'[u] = "go" <=> pc[u] = "go"
      BY <1>6, <2>1
      DEF PassOn, Sleeping, LockInv, TypeOK, Roles, Exclusive, Holding, Threads,
          Users
    <3> QED BY <1>6, <3>1, SameItems DEF PassOn
  <2>4. UNCHANGED done
    BY <1>6 DEF PassOn
  <2> QED BY <2>2, <2>3, <2>4, SameCalls DEF Stack!vars, Calls
<1>7. CASE Unlock(t)
  <2>1. \A u \in Threads : CallOf(u)' = CallOf(u)
    BY <1>0, <1>7
    DEF Unlock, CallOf, LockInv, TypeOK, Roles, Exclusive, Holding, Threads,
        Users
  <2>2. Items' = Items
    <3>1. \A u \in Users : pc'[u] = "go" <=> pc[u] = "go"
      BY <1>7
      DEF Unlock, LockInv, TypeOK, Roles, Exclusive, Holding, Threads, Users
    <3> QED BY <1>7, <3>1, SameItems DEF Unlock
  <2>3. UNCHANGED done
    BY <1>7 DEF Unlock
  <2> QED BY <2>1, <2>2, <2>3, SameCalls DEF Stack!vars, Calls
<1>8. CASE Return(t)
  <2>1. \A u \in Threads \ {t} : CallOf(u)' = CallOf(u)
    BY <1>0, <1>8
    DEF Return, CallOf, LockInv, TypeOK, Roles, Exclusive, Holding, Threads,
        Users
  <2>2. Calls' = [Calls EXCEPT ![t] = CallOf(t)']
    BY <1>0, <2>1, OnlyOwnCall
  <2>3. Items' = Items
    <3>1. \A u \in Users : pc'[u] = "go" <=> pc[u] = "go"
      BY <1>8
      DEF Return, LockInv, TypeOK, Roles, Exclusive, Holding, Threads, Users
    <3> QED BY <1>8, <3>1, SameItems DEF Return
  <2>4. CallOf(t).op = "told" /\ CallOf(t)' = [op |-> "idle"] /\ UNCHANGED done
    BY <1>0, <1>8
    DEF Return, CallOf, LockInv, TypeOK, Roles, Exclusive, Holding, Threads,
        Users
  <2>5. Stack!Return(t)
    BY <1>0, <2>2, <2>3, <2>4 DEF Stack!Return, Stack!Idle, Calls
  <2> QED BY <1>0, <2>5 DEF Stack!Next
<1> QED BY <1>1, <1>2, <1>3, <1>4, <1>5, <1>6, <1>7, <1>8 DEF Step

(* cvec is linearizable: the refinement CVecRefinement states, for any     *)
(* number of threads and values.                                           *)
THEOREM Refinement == Spec => ImplementsStack
<1> USE CVecAssumption
<1>1. Init => Stack!Init
  <2> SUFFICES ASSUME Init
               PROVE  Stack!Init
    OBVIOUS
  <2>1. Items = <<>>
    BY DEF Init, Items, Committed, Threads, Users
  <2>2. \A t \in Threads : CallOf(t) = [op |-> "idle"]
    BY DEF Init, CallOf
  <2>3. done = FALSE
    BY DEF Init
  <2> QED BY <2>1, <2>2, <2>3 DEF Stack!Init, Stack!Idle
<1>2. LockInv /\ LockInv' /\ [Next]_vars => [Stack!Next]_Stack!vars
  <2> SUFFICES ASSUME LockInv, LockInv', [Next]_vars
               PROVE  [Stack!Next]_Stack!vars
    OBVIOUS
  <2>1. ASSUME NEW t \in Users, Step(t)
        PROVE  [Stack!Next]_Stack!vars
    BY <2>1, StepRefines
  <2>2. ASSUME NEW t \in Producers, NEW v \in Vals, CallPush(t, v)
        PROVE  [Stack!Next]_Stack!vars
    <3>0. t \in Threads
      BY DEF Threads, Users
    <3>1. \A u \in Threads \ {t} : CallOf(u)' = CallOf(u)
      BY <2>2
      DEF CallPush, CallOf, LockInv, TypeOK, Roles, Exclusive, Holding, Threads,
          Users
    <3>2. Calls' = [Calls EXCEPT ![t] = CallOf(t)']
      BY <3>0, <3>1, OnlyOwnCall
    <3>3. CallOf(t) = [op |-> "idle"] /\ CallOf(t)' = [op |-> "push", val |-> v]
      BY <2>2, <3>0
      DEF CallPush, CallOf, LockInv, TypeOK, Roles, Exclusive, Holding, Threads,
          Users
    <3>4. Committed' = Committed /\ \A u \in Committed : u # t /\ val'[u] = val[u]
      BY <2>2, <3>0
      DEF CallPush, Committed, LockInv, TypeOK, Roles, Exclusive, Holding,
          Threads, Users
    <3>5. Items' = Items
      <4>1. CASE Committed = {}
        BY <2>2, <3>4, <4>1 DEF Items, CallPush
      <4>2. CASE Committed # {}
        <5>1. (CHOOSE u \in Committed : TRUE) \in Committed
          BY <4>2
        <5> QED BY <2>2, <3>4, <5>1 DEF Items, CallPush
      <4> QED BY <4>1, <4>2
    <3>6. Stack!Call(t, Stack!Pushing(v))
      BY <2>2, <3>0, <3>2, <3>3, <3>5
      DEF CallPush, Stack!Call, Stack!Idle, Stack!Pushing, Calls
    <3> QED BY <3>0, <3>6 DEF Stack!Next
  <2>3. ASSUME NEW t \in Consumers, CallPop(t)
        PROVE  [Stack!Next]_Stack!vars
    <3>0. t \in Threads
      BY DEF Threads, Users
    <3>1. \A u \in Threads \ {t} : CallOf(u)' = CallOf(u)
      BY <2>3
      DEF CallPop, CallOf, LockInv, TypeOK, Roles, Exclusive, Holding, Threads,
          Users
    <3>2. Calls' = [Calls EXCEPT ![t] = CallOf(t)']
      BY <3>0, <3>1, OnlyOwnCall
    <3>3. CallOf(t) = [op |-> "idle"] /\ CallOf(t)' = [op |-> "pop"]
      BY <2>3, <3>0
      DEF CallPop, CallOf, LockInv, TypeOK, Roles, Exclusive, Holding, Threads,
          Users
    <3>4. Items' = Items
      <4>1. \A u \in Users : pc'[u] = "go" <=> pc[u] = "go"
        BY <2>3
        DEF CallPop, LockInv, TypeOK, Roles, Exclusive, Holding, Threads, Users
      <4> QED BY <2>3, <4>1, SameItems DEF CallPop
    <3>5. Stack!Call(t, Stack!Popping)
      BY <2>3, <3>0, <3>2, <3>3, <3>4
      DEF CallPop, Stack!Call, Stack!Idle, Stack!Popping, Calls
    <3> QED BY <3>0, <3>5 DEF Stack!Next
  <2>4. ASSUME NEW t \in Consumers, WakeUp(t)
        PROVE  [Stack!Next]_Stack!vars
    <3>1. \A u \in Threads : CallOf(u)' = CallOf(u)
      BY <2>4
      DEF WakeUp, Sleeping, CallOf, LockInv, TypeOK, Roles, Exclusive, Holding,
          Threads, Users
    <3>2. Items' = Items
      <4>1. \A u \in Users : pc'[u] = "go" <=> pc[u] = "go"
        BY <2>4
        DEF WakeUp, Sleeping, LockInv, TypeOK, Roles, Exclusive, Holding,
            Threads, Users
      <4> QED BY <2>4, <4>1, SameItems DEF WakeUp
    <3> QED BY <2>4, <3>1, <3>2, SameCalls DEF WakeUp, Stack!vars, Calls
  <2>5. ASSUME NEW t \in Consumers \cup Stoppers, StopWrite(t)
        PROVE  [Stack!Next]_Stack!vars
    <3>1. \A u \in Threads : CallOf(u)' = CallOf(u)
      BY <2>5
      DEF StopWrite, CallOf, LockInv, TypeOK, Roles, Exclusive, Holding,
          Threads, Users
    <3>2. Items' = Items
      <4>1. \A u \in Users : pc'[u] = "go" <=> pc[u] = "go"
        BY <2>5
        DEF StopWrite, LockInv, TypeOK, Roles, Exclusive, Holding, Threads,
            Users
      <4> QED BY <2>5, <4>1, SameItems DEF StopWrite
    <3>3. Stack!Close
      BY <2>5, <3>1, <3>2, SameCalls DEF StopWrite, Stack!Close, Calls
    <3> QED BY <3>3 DEF Stack!Next
  <2>6. ASSUME NEW t \in Consumers \cup Stoppers, StopSignal(t)
        PROVE  [Stack!Next]_Stack!vars
    <3>1. PICK S \in SUBSET Sleeping :
            /\ pc'[t] = IF t \in Consumers THEN "quit" ELSE "gone"
            /\ \A s \in S : pc'[s] = "enter"
            /\ \A u \in Threads \ (S \cup {t}) : pc'[u] = pc[u]
      BY <2>6, SignalMoves, SMTT(60)
      DEF StopSignal, PCs, Threads, Users, Sleeping, LockInv
    <3>2. \A u \in Threads : CallOf(u)' = CallOf(u)
      BY <2>6, <3>1
      DEF StopSignal, CallOf, Sleeping, LockInv, TypeOK, Roles, Exclusive,
          Holding, Threads, Users
    <3>3. Items' = Items
      <4>1. \A u \in Users : pc'[u] = "go" <=> pc[u] = "go"
        BY <2>6, <3>1
        DEF StopSignal, Sleeping, LockInv, TypeOK, Roles, Exclusive, Holding,
            Threads, Users
      <4> QED BY <2>6, <4>1, SameItems DEF StopSignal
    <3> QED BY <2>6, <3>2, <3>3, SameCalls DEF StopSignal, Stack!vars, Calls
  <2>7. ASSUME NEW t \in Consumers, Quit(t)
        PROVE  [Stack!Next]_Stack!vars
    <3>1. \A u \in Threads : CallOf(u)' = CallOf(u)
      BY <2>7
      DEF Quit, CallOf, LockInv, TypeOK, Roles, Exclusive, Holding, Threads,
          Users
    <3>2. Items' = Items
      <4>1. \A u \in Users : pc'[u] = "go" <=> pc[u] = "go"
        BY <2>7
        DEF Quit, LockInv, TypeOK, Roles, Exclusive, Holding, Threads, Users
      <4> QED BY <2>7, <4>1, SameItems DEF Quit
    <3> QED BY <2>7, <3>1, <3>2, SameCalls DEF Quit, Stack!vars, Calls
  <2>8. CASE UNCHANGED vars
    <3>1. Items' = Items /\ \A u \in Threads : CallOf(u)' = CallOf(u)
      BY <2>8 DEF vars, Items, Committed, CallOf
    <3> QED BY <2>8, <3>1, SameCalls DEF vars, Stack!vars, Calls
  <2> QED BY <2>1, <2>2, <2>3, <2>4, <2>5, <2>6, <2>7, <2>8 DEF Next
<1> QED BY <1>1, <1>2, Locked, PTL DEF Spec, ImplementsStack, Stack!Spec
=============================================================================
