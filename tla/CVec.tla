-------------------------------- MODULE CVec --------------------------------
(***************************************************************************)
(* lib/cvec, the work queue of the server: a vector under a mutex, with a  *)
(* condition to wait on when it is empty and a `done' flag that ends it.   *)
(* Threads move one statement at a time.  Stop writes the flag and signals *)
(* without the mutex; everything else touches the vector while it holds    *)
(* it.                                                                     *)
(***************************************************************************)
EXTENDS Naturals, Sequences, FiniteSets

CONSTANTS Producers, Consumers, Stoppers,  (* the threads, by what they call *)
          Vals,       (* values pushed, each at most once                   *)
          Oom,        (* TRUE if VecPush may fail                           *)
          Null        (* the zeroed VAL_T, and no thread                    *)

ASSUME CVecAssumption ==
  /\ Producers \cap Consumers = {}
  /\ Producers \cap Stoppers = {} /\ Consumers \cap Stoppers = {}
  /\ Null \notin Vals
  /\ Null \notin Producers \cup Consumers
  /\ IsFiniteSet(Producers) /\ IsFiniteSet(Consumers)
  /\ Oom \in BOOLEAN

Users == Producers \cup Consumers
Threads == Users \cup Stoppers

VARIABLES
  vec,        (* cvec->vec                                                  *)
  done,       (* cvec->done                                                 *)
  lock,       (* who holds cvec->mutex, or Null                             *)
  pc,         (* where each thread is                                       *)
  val,        (* the argument of a Push, then the result of the call        *)
  fresh       (* values nobody has pushed yet                               *)

vars == <<vec, done, lock, pc, val, fresh>>

(* Threads in PCondWait.                                                   *)
Sleeping == {t \in Consumers : pc[t] = "asleep"}

(* PCondSignal: one of the waiting threads, if there is one, must get the  *)
(* mutex back before it goes on.                                           *)
Signal(t, next) ==
  \/ /\ Sleeping = {}
     /\ pc' = [pc EXCEPT ![t] = next]
  \/ \E s \in Sleeping : pc' = [pc EXCEPT ![t] = next, ![s] = "enter"]

-----------------------------------------------------------------------------
CallPush(t, v) ==
  /\ pc[t] = "idle" /\ v \in fresh
  /\ fresh' = fresh \ {v}
  /\ val' = [val EXCEPT ![t] = v]
  /\ pc' = [pc EXCEPT ![t] = "enter"]
  /\ UNCHANGED <<vec, done, lock>>

CallPop(t) ==
  /\ pc[t] = "idle"
  /\ pc' = [pc EXCEPT ![t] = "enter"]
  /\ UNCHANGED <<vec, done, lock, val, fresh>>

(* PMutexLock, or the way out of PCondWait.                                *)
Lock(t) ==
  /\ pc[t] = "enter" /\ lock = Null
  /\ lock' = t
  /\ pc' = [pc EXCEPT ![t] = "check"]
  /\ UNCHANGED <<vec, done, val, fresh>>

(* Arc8Read(&cvec->done).  Whether VecPush will find memory is settled     *)
(* here too: nothing it depends on changes before it is called.            *)
(* Mutant of Check: a stopped queue hands out what it holds.               *)
CheckDrainsFirst(t) ==
  /\ pc[t] = "check"
  /\ IF done /\ (t \in Producers \/ vec = <<>>)
     THEN pc' = [pc EXCEPT ![t] = "signal"] /\ val' = [val EXCEPT ![t] = Null]
     ELSE pc' = [pc EXCEPT ![t] = "go"] /\ UNCHANGED val
  /\ UNCHANGED <<vec, done, lock, fresh>>

Check(t) ==
  /\ pc[t] = "check"
  /\ \/ ~done /\ pc' = [pc EXCEPT ![t] = "go"] /\ UNCHANGED val
     \/ /\ done \/ (Oom /\ t \in Producers)
        /\ pc' = [pc EXCEPT ![t] = "signal"]
        /\ val' = [val EXCEPT ![t] = Null]
  /\ UNCHANGED <<vec, done, lock, fresh>>

(* Mutant of Store: Push does not signal.                                  *)
StoreQuietly(t) ==
  /\ t \in Producers /\ pc[t] = "go"
  /\ vec' = Append(vec, val[t])
  /\ pc' = [pc EXCEPT ![t] = "unlock"]
  /\ UNCHANGED <<done, lock, val, fresh>>

Store(t) ==
  /\ t \in Producers /\ pc[t] = "go"
  /\ vec' = Append(vec, val[t])
  /\ pc' = [pc EXCEPT ![t] = "signal"]
  /\ UNCHANGED <<done, lock, val, fresh>>

Sleep(t) ==
  /\ t \in Consumers /\ pc[t] = "go" /\ vec = <<>>
  /\ pc' = [pc EXCEPT ![t] = "asleep"]
  /\ lock' = Null
  /\ UNCHANGED <<vec, done, val, fresh>>

(* POSIX: PCondWait may return for no reason.                              *)
WakeUp(t) ==
  /\ t \in Sleeping
  /\ pc' = [pc EXCEPT ![t] = "enter"]
  /\ UNCHANGED <<vec, done, lock, val, fresh>>

(* Mutant of Take: the element taken stays in the vector.                  *)
TakeAndKeep(t) ==
  /\ t \in Consumers /\ pc[t] = "go" /\ vec # <<>>
  /\ val' = [val EXCEPT ![t] = vec[Len(vec)]]
  /\ pc' = [pc EXCEPT ![t] = "unlock"]
  /\ UNCHANGED <<vec, done, lock, fresh>>

Take(t) ==
  /\ t \in Consumers /\ pc[t] = "go" /\ vec # <<>>
  /\ val' = [val EXCEPT ![t] = vec[Len(vec)]]
  /\ vec' = SubSeq(vec, 1, Len(vec) - 1)
  /\ pc' = [pc EXCEPT ![t] = "unlock"]
  /\ UNCHANGED <<done, lock, fresh>>

(* Mutant of PassOn: a Pop that finds the queue done does not signal.      *)
PassOnPushes(t) ==
  /\ t \in Users /\ pc[t] = "signal"
  /\ IF t \in Producers THEN Signal(t, "unlock") ELSE pc' = [pc EXCEPT ![t] = "unlock"]
  /\ UNCHANGED <<vec, done, lock, val, fresh>>

(* A Push signals whatever happened; a Pop only when it found the queue    *)
(* done, to pass the news on to the next one waiting.                      *)
PassOn(t) ==
  /\ t \in Users /\ pc[t] = "signal"
  /\ Signal(t, "unlock")
  /\ UNCHANGED <<vec, done, lock, val, fresh>>

(* PMutexUnlock, and the return to the caller.                             *)
Unlock(t) ==
  /\ pc[t] = "unlock"
  /\ lock' = Null
  /\ pc' = [pc EXCEPT ![t] = "return"]
  /\ UNCHANGED <<vec, done, val, fresh>>

(* A worker leaves its loop when Pop returns NULL, and otherwise runs what *)
(* it got.                                                                 *)
Return(t) ==
  /\ pc[t] = "return"
  /\ pc' = [pc EXCEPT ![t] = IF t \in Consumers /\ val[t] = Null THEN "gone" ELSE "idle"]
  /\ UNCHANGED <<vec, done, lock, val, fresh>>

(* qRunner: a worker whose task could not be polled again leaves at once,  *)
(* without another Pop.                                                    *)
Quit(t) ==
  /\ pc[t] = "idle" /\ val[t] # Null
  /\ pc' = [pc EXCEPT ![t] = "quit"]
  /\ UNCHANGED <<vec, done, lock, val, fresh>>

(* Stop, which takes no mutex: by a thread of its own, or by a worker      *)
(* whose task failed, which then leaves without another Pop.               *)
StopWrite(t) ==
  /\ pc[t] = "idle" /\ (t \in Consumers => val[t] # Null)
  /\ done' = TRUE
  /\ pc' = [pc EXCEPT ![t] = "stop"]
  /\ UNCHANGED <<vec, lock, val, fresh>>

StopSignal(t) ==
  /\ pc[t] = "stop"
  /\ Signal(t, IF t \in Consumers THEN "quit" ELSE "gone")
  /\ UNCHANGED <<vec, done, lock, val, fresh>>

-----------------------------------------------------------------------------
Init ==
  /\ vec = <<>> /\ done = FALSE /\ lock = Null
  /\ pc = [t \in Threads |-> "idle"]
  /\ val = [t \in Users |-> Null]
  /\ fresh = Vals

(* The statements of a call under way.                                     *)
Step(t) ==
  \/ Lock(t) \/ Check(t) \/ Store(t) \/ Sleep(t) \/ Take(t)
  \/ PassOn(t) \/ Unlock(t) \/ Return(t)

Next ==
  \/ \E t \in Users : Step(t)
  \/ \E t \in Producers, v \in Vals : CallPush(t, v)
  \/ \E t \in Consumers : CallPop(t) \/ WakeUp(t) \/ Quit(t)
  \/ \E t \in Consumers \cup Stoppers : StopWrite(t) \/ StopSignal(t)

Spec == Init /\ [][Next]_vars

(* Every thread runs, the mutex starves nobody, and a consumer comes back  *)
(* for more (qRunner's loop) unless it leaves.  Nobody has to push, to     *)
(* stop or to leave.                                                       *)
FairSpec ==
  /\ Spec
  /\ \A t \in Users : WF_vars(Step(t)) /\ SF_vars(Lock(t))
  /\ \A t \in Consumers : WF_vars(CallPop(t))
  /\ \A t \in Consumers \cup Stoppers : WF_vars(StopSignal(t))

-----------------------------------------------------------------------------
PCs == {"idle", "enter", "check", "go", "asleep", "signal", "unlock",
        "return", "gone", "stop", "quit"}
Holding == {"check", "go", "signal", "unlock"}

TypeOK ==
  /\ vec \in Seq(Vals)
  /\ done \in BOOLEAN
  /\ lock \in Users \cup {Null}
  /\ pc \in [Threads -> PCs]
  /\ val \in [Users -> Vals \cup {Null}]
  /\ fresh \subseteq Vals

(* The vector is only touched under the mutex: a thread between PMutexLock *)
(* and PMutexUnlock, PCondWait included, is its one holder.                *)
Exclusive == \A t \in Users : pc[t] \in Holding <=> lock = t

(* Consumers on their way to the vector, and pushers about to signal.      *)
Coming == {t \in Consumers : pc[t] \in {"enter", "check", "go"}}
Signalling == {t \in Producers : pc[t] = "signal"}

(* While somebody sleeps on the queue, each piece of work on it has a      *)
(* consumer on its way or a pusher that has yet to signal: no wakeup of a  *)
(* Push is lost, and it does not matter that workers may leave.            *)
WorkIsSeen ==
  (~done /\ Sleeping # {}) =>
    Len(vec) <= Cardinality(Coming) + Cardinality(Signalling)

(* What a caller still has in its hands: pushed and not stored, or popped. *)
InHand(t) ==
  IF \/ t \in Producers /\ pc[t] \in {"enter", "check", "go"}
     \/ t \in Consumers /\ pc[t] \in {"unlock", "return"}
  THEN {val[t]} \ {Null} ELSE {}

(* A value is never handed out twice, nor handed out and still there.      *)
HandedOnce ==
  /\ \A i, j \in 1 .. Len(vec) : vec[i] = vec[j] => i = j
  /\ \A t \in Users : \A v \in InHand(t) :
       /\ v \notin fresh
       /\ \A i \in 1 .. Len(vec) : vec[i] # v
       /\ \A u \in Users \ {t} : v \notin InHand(u)
  /\ \A i \in 1 .. Len(vec) : vec[i] \notin fresh

-----------------------------------------------------------------------------
(* When the queue is left alone long enough, what is on it gets taken, as  *)
(* long as a worker is left.                                               *)
EventuallyTaken ==
  \A v \in Vals :
    (\E i \in 1 .. Len(vec) : vec[i] = v) ~>
      \/ ~ \E i \in 1 .. Len(vec) : vec[i] = v
      \/ done
      \/ \A t \in Consumers : pc[t] = "quit"

(* The one way for a stop to go unnoticed: a worker read `done' before it  *)
(* was written and went to sleep after the one signal, and every other     *)
(* worker left without the Pop that would pass the signal on.              *)
Stranded ==
  \E s \in Sleeping : \A t \in Consumers \ {s} : pc[t] = "quit"

(* WorkQDe joins the workers after WorkQStop: Stop reaches all of them but *)
(* in that case, the ones about to sleep when it signals too.  Each Pop    *)
(* that finds the queue done passes the signal on; the first link of the   *)
(* chain is the consumer Stop itself wakes, or one that was awake anyway.  *)
StopReachesAll ==
  done ~> (Stranded \/ \A t \in Consumers : pc[t] \in {"gone", "quit"})

(* Neither work nor the stop waits for ever on sleeping consumers.         *)
NobodyForgotten == EventuallyTaken /\ StopReachesAll
=============================================================================
