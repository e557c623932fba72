------------------------------- MODULE WorkQ --------------------------------
(***************************************************************************)
(* lib/workQ with lib/poller: who has a task and who may destroy it.       *)
(* Tasks wait in the poller for an event, are moved by its thread into the *)
(* queue, popped and run by a worker, and given back to the poller.  The   *)
(* queue is a CTaskVec (CVec has its statements one by one): its pushes    *)
(* and pops are one step each under its mutex, but a worker that finds it  *)
(* empty holds the mutex until it sleeps, and its Stop takes no mutex.     *)
(* The poller's pipe is read by one thread, PollerLoop, and written by     *)
(* all, and PollerStop takes no mutex either.                              *)
(***************************************************************************)
EXTENDS Naturals, Sequences, FiniteSets, SequencesExt

CONSTANTS Workers, Signals,   (* worker threads; deliveries of SIGINT        *)
          Tasks, First,       (* QTasks, and the one main starts (the listener) *)
          HasDe,              (* tasks whose PTask has a `de'                *)
          PipeCap,            (* packets the poller's pipe holds             *)
          MaxWakes,           (* bound: events, timeouts, spurious wakeups, requeues *)
          Oom,                (* TRUE if an allocation may fail              *)
          None

STOP == "stop"                (* PollerStop's one-byte packet                *)

ASSUME WorkQAssumption ==
  /\ First \in Tasks /\ HasDe \subseteq Tasks
  /\ Workers \cap Signals = {}
  /\ None \notin Tasks \cup Workers /\ STOP \notin Tasks
  /\ PipeCap \in Nat \ {0} /\ MaxWakes \in Nat /\ Oom \in BOOLEAN

VARIABLES
  tasks, tdone,    (* que->tasks and its `done'                             *)
  pip, wopen,      (* poller->pip, and whether its write end is open        *)
  pdone, pipetex,  (* poller->done, and who holds poller->pipetex           *)
  trackers,        (* poller->trackers (poller->fds goes with it)           *)
  rev, at, loop,   (* revents of the last poll, the scan's place, its pc    *)
  pc,              (* where each worker and each signal handler is          *)
  held, arg,       (* the task a worker runs, the one it is in WorkQPoll on *)
  face,            (* qtask->vptr: the task's own PTask or `reface'         *)
  born, destroyed, (* tasks made; how often each has been destroyed         *)
  ready, wakes     (* tasks with an event pending; wakeups so far           *)

queVars  == <<tasks, tdone>>
pipeVars == <<pip, wopen, pdone, pipetex>>
loopVars == <<trackers, rev, at, loop>>
workVars == <<pc, held, arg>>
taskVars == <<face, born, destroyed>>
envVars  == <<ready, wakes>>
vars == <<queVars, pipeVars, loopVars, workVars, taskVars, envVars>>

(* The counter is cut at two: destroyed more than once.                    *)
Twice(n) == IF n < 2 THEN n ELSE 2
(* PTaskDe, on the tasks of S: one without a `de' is left alone.           *)
De(S) == [t \in Tasks |->
            IF t \in S \cap HasDe THEN Twice(destroyed[t] + 1) ELSE destroyed[t]]

(* A worker between the test of `done' and PCondWait holds the mutex.      *)
QueueFree == \A w \in Workers : pc[w] # "doze"
Asleep    == {w \in Workers : pc[w] = "asleep"}

(* PCondSignal of tasks->cond, with the caller on its way to f: one of the *)
(* sleepers wakes, and a signal that finds none is lost.                   *)
PCondSignal(f) ==
  \/ Asleep = {} /\ pc' = f
  \/ \E x \in Asleep : pc' = [f EXCEPT ![x] = "pop"]

(* WorkQPush destroys the task it cannot queue; the push signals anyway.   *)
WorkQPush(t, f) ==
  /\ QueueFree
  /\ \/ /\ ~tdone
        /\ tasks' = Append(tasks, t)
        /\ UNCHANGED destroyed
     \/ /\ tdone \/ Oom
        /\ destroyed' = De({t})
        /\ UNCHANGED tasks
  /\ PCondSignal(f)

-----------------------------------------------------------------------------
(* Events of the tasks' descriptors.                                       *)
Event(t) ==
  /\ wakes < MaxWakes /\ t \in born \ ready
  /\ ready' = ready \cup {t} /\ wakes' = wakes + 1
  /\ UNCHANGED <<queVars, pipeVars, loopVars, workVars, taskVars>>

-----------------------------------------------------------------------------
(* qRunner.                                                                *)
Pop(w) ==
  /\ pc[w] = "pop" /\ QueueFree /\ ~tdone /\ tasks # <<>>
  /\ held' = [held EXCEPT ![w] = Last(tasks)]
  /\ tasks' = Front(tasks)
  /\ pc' = [pc EXCEPT ![w] = "run"]
  /\ UNCHANGED <<tdone, pipeVars, loopVars, arg, taskVars, envVars>>

(* CTaskVecPop finds nothing and, still with the mutex, begins to wait.    *)
Doze(w) ==
  /\ pc[w] = "pop" /\ QueueFree /\ ~tdone /\ tasks = <<>>
  /\ pc' = [pc EXCEPT ![w] = "doze"]
  /\ UNCHANGED <<queVars, pipeVars, loopVars, held, arg, taskVars, envVars>>

FallAsleep(w) ==
  /\ pc[w] = "doze"
  /\ pc' = [pc EXCEPT ![w] = "asleep"]
  /\ UNCHANGED <<queVars, pipeVars, loopVars, held, arg, taskVars, envVars>>

(* PCondWait may also return without a signal.                             *)
WakeUp(w) ==
  /\ pc[w] = "asleep" /\ wakes < MaxWakes
  /\ pc' = [pc EXCEPT ![w] = "pop"]
  /\ wakes' = wakes + 1
  /\ UNCHANGED <<queVars, pipeVars, loopVars, held, arg, taskVars, ready>>

(* Mutant of PopNothing: the signal is not passed on.                      *)
PopNothingSilent(w) ==
  /\ pc[w] = "pop" /\ QueueFree /\ tdone
  /\ pc' = [pc EXCEPT ![w] = "gone"]
  /\ UNCHANGED <<queVars, pipeVars, loopVars, held, arg, taskVars, envVars>>

(* A Pop after the stop returns NULL and passes the signal on.             *)
PopNothing(w) ==
  /\ pc[w] = "pop" /\ QueueFree /\ tdone
  /\ PCondSignal([pc EXCEPT ![w] = "gone"])
  /\ UNCHANGED <<queVars, pipeVars, loopVars, held, arg, taskVars, envVars>>

(* PTASK_RET_DONE, and PTASK_RET_SPARE of a task that has destroyed itself. *)
Finish(w) ==
  /\ pc[w] = "run"
  /\ destroyed' = [destroyed EXCEPT ![held[w]] = Twice(@ + 1)]
  /\ held' = [held EXCEPT ![w] = None]
  /\ pc' = [pc EXCEPT ![w] = "pop"]
  /\ UNCHANGED <<queVars, pipeVars, loopVars, arg, face, born, envVars>>

(* PTASK_RET_ERROR: WorkQStop, no `de', and the worker leaves.             *)
Fail(w) ==
  /\ pc[w] = "run"
  /\ held' = [held EXCEPT ![w] = None]
  /\ pc' = [pc EXCEPT ![w] = "stop"]
  /\ UNCHANGED <<queVars, pipeVars, loopVars, arg, taskVars, envVars>>

(* PTASK_RET_REPOLL: the callback has exhausted its descriptors; WorkQPoll *)
(* puts reface in front of the task.                                       *)
Repoll(w) ==
  /\ pc[w] = "run"
  /\ arg' = [arg EXCEPT ![w] = held[w]]
  /\ held' = [held EXCEPT ![w] = None]
  /\ face' = [face EXCEPT ![held[w]] = "reface"]
  /\ ready' = ready \ {held[w]}
  /\ pc' = [pc EXCEPT ![w] = "lock"]
  /\ UNCHANGED <<queVars, pipeVars, loopVars, born, destroyed, wakes>>

(* A callback pushes its own task again and returns PTASK_RET_SPARE.       *)
Requeue(w) ==
  /\ pc[w] = "run" /\ wakes < MaxWakes
  /\ WorkQPush(held[w], [pc EXCEPT ![w] = "pop"])
  /\ held' = [held EXCEPT ![w] = None]
  /\ wakes' = wakes + 1
  /\ UNCHANGED <<tdone, pipeVars, loopVars, arg, face, born, ready>>

(* A callback makes a task and polls it (clientDonate, giveChannelClient). *)
Spawn(w, t) ==
  /\ pc[w] = "run" /\ t \in Tasks \ born
  /\ born' = born \cup {t}
  /\ arg' = [arg EXCEPT ![w] = t]
  /\ face' = [face EXCEPT ![t] = "reface"]
  /\ pc' = [pc EXCEPT ![w] = "lock"]
  /\ UNCHANGED <<queVars, pipeVars, loopVars, held, destroyed, envVars>>

(* PollerPush.                                                             *)
PushLock(w) ==
  /\ pc[w] = "lock" /\ pipetex = None
  /\ pipetex' = w
  /\ pc' = [pc EXCEPT ![w] = "check"]
  /\ UNCHANGED <<queVars, pip, wopen, pdone, loopVars, held, arg, taskVars, envVars>>

PushCheck(w) ==
  /\ pc[w] = "check"
  /\ IF pdone
     THEN pc' = [pc EXCEPT ![w] = "failed"] /\ pipetex' = None
     ELSE pc' = [pc EXCEPT ![w] = "write"] /\ UNCHANGED pipetex
  /\ UNCHANGED <<queVars, pip, wopen, pdone, loopVars, held, arg, taskVars, envVars>>

(* Success: the poller has the task, and the worker goes on with what it   *)
(* was doing.                                                              *)
PushWrite(w) ==
  /\ pc[w] = "write" /\ wopen /\ Len(pip) < PipeCap
  /\ pip' = Append(pip, arg[w])
  /\ arg' = [arg EXCEPT ![w] = None]
  /\ pipetex' = None
  /\ pc' = [pc EXCEPT ![w] = IF held[w] = None THEN "pop" ELSE "run"]
  /\ UNCHANGED <<queVars, wopen, pdone, loopVars, held, taskVars, envVars>>

PushFull(w) ==
  /\ pc[w] = "write" /\ (~wopen \/ Len(pip) = PipeCap)
  /\ pc' = [pc EXCEPT ![w] = "failed"] /\ pipetex' = None
  /\ UNCHANGED <<queVars, pip, wopen, pdone, loopVars, held, arg, taskVars, envVars>>

(* PollerPush destroys the task, then WorkQPoll does, then a callback that *)
(* has just made it; a worker that wanted it polled again leaves by `goto  *)
(* DONE', without another Pop.                                             *)
PollFails(w) ==
  /\ pc[w] = "failed"
  /\ destroyed' = [destroyed EXCEPT ![arg[w]] =
       Twice(@ + (IF arg[w] \in HasDe THEN 2 ELSE 0) + (IF held[w] = None THEN 0 ELSE 1))]
  /\ arg' = [arg EXCEPT ![w] = None]
  /\ pc' = [pc EXCEPT ![w] = IF held[w] = None THEN "quit" ELSE "run"]
  /\ UNCHANGED <<queVars, pipeVars, loopVars, held, face, born, envVars>>

-----------------------------------------------------------------------------
(* WorkQStop, from a signal handler or a worker.                           *)
Interrupt(s) ==
  /\ pc[s] = "idle"
  /\ pc' = [pc EXCEPT ![s] = "stop"]
  /\ UNCHANGED <<queVars, pipeVars, loopVars, held, arg, taskVars, envVars>>

StopSwap(a) ==
  /\ pc[a] = "stop"
  /\ pdone' = TRUE
  /\ pc' = [pc EXCEPT ![a] = IF pdone THEN "stopTasks" ELSE "stopWrite"]
  /\ UNCHANGED <<queVars, pip, wopen, pipetex, loopVars, held, arg, taskVars, envVars>>

StopWrite(a) ==
  /\ pc[a] = "stopWrite"
  /\ pip' = IF Len(pip) < PipeCap THEN Append(pip, STOP) ELSE pip
  /\ pc' = [pc EXCEPT ![a] = "stopClose"]
  /\ UNCHANGED <<queVars, wopen, pdone, pipetex, loopVars, held, arg, taskVars, envVars>>

StopClose(a) ==
  /\ pc[a] = "stopClose"
  /\ wopen' = FALSE
  /\ pc' = [pc EXCEPT ![a] = "stopTasks"]
  /\ UNCHANGED <<queVars, pip, pdone, pipetex, loopVars, held, arg, taskVars, envVars>>

(* CTaskVecStop: the write and the signal, without the mutex.              *)
StopTasks(a) ==
  /\ pc[a] = "stopTasks"
  /\ tdone' = TRUE
  /\ pc' = [pc EXCEPT ![a] = "stopSignal"]
  /\ UNCHANGED <<tasks, pipeVars, loopVars, held, arg, taskVars, envVars>>

(* A worker that has stopped the queue itself leaves by `goto DONE'.       *)
StopSignal(a) ==
  /\ pc[a] = "stopSignal"
  /\ PCondSignal([pc EXCEPT ![a] = IF a \in Workers THEN "quit" ELSE "gone"])
  /\ UNCHANGED <<queVars, pipeVars, loopVars, held, arg, taskVars, envVars>>

-----------------------------------------------------------------------------
(* PollerLoop.                                                             *)
PipeReadable == pip # <<>> \/ ~wopen

(* Mutant of Poll: the scan starts one tracker late.                       *)
PollSkipsFirst ==
  /\ loop = "poll"
  /\ PipeReadable \/ ready \cap Range(trackers) # {}
  /\ rev' = ready \cap Range(trackers)
  /\ loop' = IF PipeReadable THEN "drain" ELSE "scan"
  /\ at' = 2
  /\ UNCHANGED <<queVars, pipeVars, trackers, workVars, taskVars, envVars>>

Poll ==
  /\ loop = "poll"
  /\ PipeReadable \/ ready \cap Range(trackers) # {}
  /\ rev' = ready \cap Range(trackers)
  /\ loop' = IF PipeReadable THEN "drain" ELSE "scan"
  /\ at' = 1
  /\ UNCHANGED <<queVars, pipeVars, trackers, workVars, taskVars, envVars>>

(* Mutant of Timeout: the trackers are dropped before they are called.     *)
TimeoutClears ==
  /\ loop = "poll" /\ wakes < MaxWakes
  /\ ~PipeReadable /\ ready \cap Range(trackers) = {}
  /\ wakes' = wakes + 1 /\ trackers' = <<>> /\ rev' = {} /\ loop' = "scan" /\ at' = 1
  /\ UNCHANGED <<queVars, pipeVars, workVars, taskVars, ready>>

(* Nothing happened for the poller's timeout: every callback is due.       *)
Timeout ==
  /\ loop = "poll" /\ wakes < MaxWakes
  /\ ~PipeReadable /\ ready \cap Range(trackers) = {}
  /\ wakes' = wakes + 1
  /\ rev' = Range(trackers) /\ loop' = "scan" /\ at' = 1
  /\ UNCHANGED <<queVars, pipeVars, trackers, workVars, taskVars, ready>>

DrainCheck ==
  /\ loop = "drain"
  /\ loop' = IF pdone THEN "left" ELSE "read"
  /\ UNCHANGED <<queVars, pipeVars, trackers, rev, at, workVars, taskVars, envVars>>

(* The revents of a descriptor just added have never been written: whether *)
(* the scan below finds the task ready is anybody's guess.                 *)
DrainTask ==
  /\ loop = "read" /\ pip # <<>> /\ Head(pip) # STOP
  /\ trackers' = Append(trackers, Head(pip))
  /\ pip' = Tail(pip)
  /\ \/ UNCHANGED <<rev, wakes>>
     \/ wakes < MaxWakes /\ wakes' = wakes + 1 /\ rev' = rev \cup {Head(pip)}
  /\ loop' = "drain"
  /\ UNCHANGED <<queVars, wopen, pdone, pipetex, at, workVars, taskVars, ready>>

DrainFails ==
  /\ Oom
  /\ loop = "read" /\ pip # <<>> /\ Head(pip) # STOP
  /\ destroyed' = De({Head(pip)})
  /\ pip' = Tail(pip)
  /\ loop' = "failed"
  /\ UNCHANGED <<queVars, wopen, pdone, pipetex, trackers, rev, at, workVars,
                 face, born, envVars>>

(* The assertion that a packet is as long as a pointer to a task.          *)
DrainStop ==
  /\ loop = "read" /\ pip # <<>> /\ Head(pip) = STOP
  /\ loop' = "aborted"
  /\ UNCHANGED <<queVars, pipeVars, trackers, rev, at, workVars, taskVars, envVars>>

(* EWOULDBLOCK ends the loop; the end of the file is a failure.            *)
DrainEmpty ==
  /\ loop = "read" /\ pip = <<>>
  /\ loop' = IF wopen THEN "scan" ELSE "failed"
  /\ UNCHANGED <<queVars, pipeVars, trackers, rev, at, workVars, taskVars, envVars>>

ScanIdle ==
  /\ loop = "scan" /\ at <= Len(trackers) /\ trackers[at] \notin rev
  /\ at' = at + 1
  /\ UNCHANGED <<queVars, pipeVars, trackers, rev, loop, workVars, taskVars, envVars>>

(* Mutant of ScanFires: refaceCB returns PTASK_RET_DONE.                   *)
ScanFiresDone ==
  /\ loop = "scan" /\ at <= Len(trackers) /\ trackers[at] \in rev
  /\ face' = [face EXCEPT ![trackers[at]] = "own"]
  /\ tasks' = Append(tasks, trackers[at])
  /\ destroyed' = De({trackers[at]})
  /\ trackers' = RemoveAt(trackers, at)
  /\ PCondSignal(pc)
  /\ UNCHANGED <<tdone, pipeVars, rev, at, loop, held, arg, born, envVars>>

(* refaceCB: the task gets its own face back and goes to the queue, or is  *)
(* destroyed there.  The tracker is cleared and compacted away.            *)
ScanFires ==
  /\ loop = "scan" /\ at <= Len(trackers) /\ trackers[at] \in rev
  /\ face' = [face EXCEPT ![trackers[at]] = "own"]
  /\ WorkQPush(trackers[at], pc)
  /\ trackers' = RemoveAt(trackers, at)
  /\ UNCHANGED <<tdone, pipeVars, rev, at, loop, held, arg, born, envVars>>

ScanDone ==
  /\ loop = "scan" /\ at > Len(trackers)
  /\ loop' = "poll"
  /\ UNCHANGED <<queVars, pipeVars, trackers, rev, at, workVars, taskVars, envVars>>

(* FAILED: whatever is in the pipe is destroyed, until a read returns      *)
(* something else than a task and the assertion stops the program.         *)
LoopFails ==
  /\ loop = "failed" /\ pipetex = None
  /\ pdone' = TRUE
  /\ destroyed' = De(Range(pip) \cap Tasks)
  /\ pip' = <<>>
  /\ loop' = "aborted"
  /\ UNCHANGED <<queVars, wopen, pipetex, trackers, rev, at, workVars, face, born, envVars>>

(* main, after WorkQLoop: WorkQDe joins the workers and destroys the tasks *)
(* of the trackers and the queue, but not the ones still in the pipe.      *)
WorkQDe ==
  /\ loop = "left" /\ \A w \in Workers : pc[w] \in {"gone", "quit"}
  /\ destroyed' = De(Range(trackers) \cup Range(tasks))
  /\ trackers' = <<>> /\ tasks' = <<>>
  /\ loop' = "over"
  /\ UNCHANGED <<tdone, pipeVars, rev, at, workVars, face, born, envVars>>

-----------------------------------------------------------------------------
(* main has polled the listener and calls WorkQLoop.                       *)
Init ==
  /\ tasks = <<>> /\ tdone = FALSE
  /\ pip = <<First>> /\ wopen = TRUE /\ pdone = FALSE /\ pipetex = None
  /\ trackers = <<>> /\ rev = {} /\ at = 1 /\ loop = "poll"
  /\ pc = [a \in Workers \cup Signals |-> IF a \in Workers THEN "pop" ELSE "idle"]
  /\ held = [w \in Workers |-> None]
  /\ arg = [w \in Workers |-> None]
  /\ face = [t \in Tasks |-> IF t = First THEN "reface" ELSE "own"]
  /\ born = {First}
  /\ destroyed = [t \in Tasks |-> 0]
  /\ ready = {} /\ wakes = 0

Stopping(a) == StopSwap(a) \/ StopWrite(a) \/ StopClose(a) \/ StopTasks(a) \/ StopSignal(a)

Worker(w) ==
  \/ Pop(w) \/ Doze(w) \/ FallAsleep(w) \/ PopNothing(w) \/ Finish(w) \/ Fail(w) \/ Repoll(w) \/ Requeue(w)
  \/ PushLock(w) \/ PushCheck(w) \/ PushWrite(w) \/ PushFull(w) \/ PollFails(w)
  \/ Stopping(w)

Loop ==
  \/ Poll \/ DrainCheck \/ DrainTask \/ DrainFails \/ DrainStop \/ DrainEmpty
  \/ ScanIdle \/ ScanFires \/ ScanDone \/ LoopFails \/ WorkQDe

Next ==
  /\ loop # "aborted"
  /\ \/ Loop \/ Timeout
     \/ \E w \in Workers : Worker(w) \/ WakeUp(w) \/ \E t \in Tasks : Spawn(w, t)
     \/ \E s \in Signals : Interrupt(s) \/ Stopping(s)
     \/ \E t \in Tasks : Event(t)

Spec == Init /\ [][Next]_vars

(* Every thread runs and callbacks return; events, timeouts, new tasks,    *)
(* spurious wakeups and signals may never come.                            *)
FairSpec ==
  /\ Spec
  /\ WF_vars(loop # "aborted" /\ Loop)
  /\ \A w \in Workers : WF_vars(loop # "aborted" /\ Worker(w))
  /\ \A s \in Signals : WF_vars(loop # "aborted" /\ Stopping(s))

-----------------------------------------------------------------------------
(* The threads and descriptors a task can be found at.                     *)
InPoller(t) == t \in Range(pip) \cup Range(trackers)
Owners(t) ==
  {<<"pip", i>> : i \in {j \in DOMAIN pip : pip[j] = t}}
  \cup {<<"trackers", i>> : i \in {j \in DOMAIN trackers : trackers[j] = t}}
  \cup {<<"tasks", i>> : i \in {j \in DOMAIN tasks : tasks[j] = t}}
  \cup {<<"held", w>> : w \in {x \in Workers : held[x] = t}}
  \cup {<<"arg", w>> : w \in {x \in Workers : arg[x] = t}}

(* Where a worker or a signal handler can be.                              *)
Places ==
  {"pop", "doze", "asleep", "run", "lock", "check", "write", "failed", "stop",
   "stopWrite", "stopClose", "stopTasks", "stopSignal", "gone", "quit", "idle"}

(* Every variable has its type: the pipe's packets are tasks or the stop   *)
(* byte, and everything else holds tasks only.                             *)
TypeOK ==
  /\ tasks \in Seq(born) /\ trackers \in Seq(born)
  /\ pip \in Seq(born \cup {STOP}) /\ Len(pip) <= PipeCap
  /\ {tdone, wopen, pdone} \subseteq BOOLEAN
  /\ pipetex \in Workers \cup {None}
  /\ rev \subseteq born /\ ready \subseteq born /\ born \subseteq Tasks
  /\ at \in Nat \ {0} /\ wakes \in 0..MaxWakes
  /\ loop \in {"poll", "drain", "read", "scan", "failed", "left", "over", "aborted"}
  /\ pc \in [Workers \cup Signals -> Places]
  /\ held \in [Workers -> born \cup {None}] /\ arg \in [Workers -> born \cup {None}]
  /\ face \in [Tasks -> {"own", "reface"}] /\ destroyed \in [Tasks -> 0..2]

(* A worker only ever runs the task's own callback, and the poller only    *)
(* refaceCB: neither calls a socket's callback on the poller's thread nor  *)
(* queues a task from a worker as if it were the poller.                   *)
FaceMatches ==
  \A t \in born :
    /\ (t \in Range(tasks) \/ \E w \in Workers : held[w] = t) => face[t] = "own"
    /\ InPoller(t) => face[t] = "reface"

(* A task is never in two hands (two workers, or a worker and the poller), *)
(* nobody still holds one that has been destroyed, and whoever has it sees *)
(* the face that is meant for them.                                        *)
OneOwner ==
  /\ TypeOK
  /\ \A t \in Tasks : Cardinality(Owners(t)) <= IF destroyed[t] = 0 THEN 1 ELSE 0
  /\ FaceMatches

(* While the queue is in use a task that was made is in somebody's hands   *)
(* or has been destroyed, exactly once: none is forgotten, none freed twice. *)
OwnedOrDestroyed ==
  (~pdone /\ \A w \in Workers : pc[w] # "stop")
    => \A t \in born : destroyed[t] = IF Owners(t) = {} THEN 1 ELSE 0

(* An event of a polled task is seen by the poller and the task run, or    *)
(* the queue is stopped.  A task is never left behind in the pipe.         *)
EventuallyRun ==
  \A t \in Tasks :
    (t \in ready /\ Owners(t) # {})
      ~> (destroyed[t] > 0 \/ pdone \/ \E w \in Workers : held[w] = t)

(* The one way CTaskVecStop's single signal is lost: a worker slept after  *)
(* it, and the others left by `goto DONE', where nobody signals again.     *)
Stranded ==
  \E w \in Workers :
    pc[w] = "asleep" /\ \A x \in Workers \ {w} : pc[x] = "quit"

(* Once someone stops the queue, wherever the poller, the workers and the  *)
(* other callers of WorkQStop are, WorkQDe runs to its end or the poller's *)
(* assertion ends the program, unless one worker is stranded: no other     *)
(* order of the stop and the workers' Pops makes the join wait for ever.   *)
StopEnds == pdone ~> (loop \in {"over", "aborted"} \/ Stranded)
=============================================================================
