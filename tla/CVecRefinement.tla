--------------------------- MODULE CVecRefinement ---------------------------
(***************************************************************************)
(* lib/cvec is linearizable: a call takes effect when it reads `done' (a   *)
(* Pop that has to wait: when it last reads it).  From then to the update  *)
(* of the vector its thread holds the mutex, and the abstract stack is     *)
(* already what the vector is about to become.                             *)
(***************************************************************************)
EXTENDS CVec

Committed == {t \in Users : pc[t] = "go"}

Items ==
  IF Committed \cap Producers # {}
  THEN Append(vec, val[CHOOSE t \in Committed : TRUE])
  ELSE IF Committed # {} /\ vec # <<>> THEN SubSeq(vec, 1, Len(vec) - 1) ELSE vec

(* What a thread is calling, or what it is going to be told.               *)
CallOf(t) ==
  CASE pc[t] \in {"idle", "gone", "stop", "quit"} -> [op |-> "idle"]
    [] t \in Producers /\ pc[t] \in {"enter", "check"} ->
         [op |-> "push", val |-> val[t]]
    [] \/ t \in Consumers /\ pc[t] \in {"enter", "check", "asleep"}
       \/ t \in Consumers /\ pc[t] = "go" /\ vec = <<>> ->
         [op |-> "pop"]
    [] t \in Consumers /\ pc[t] = "go" /\ vec # <<>> ->
         [op |-> "told", val |-> vec[Len(vec)]]
    [] OTHER -> [op |-> "told", val |-> val[t]]

Stack == INSTANCE CloseableStack
           WITH items <- Items,
                closed <- done,
                call <- [t \in Threads |-> CallOf(t)]

(* No interleaving of Push, Pop and Stop can be told from one in which     *)
(* each of them happens at once, with Stop as a clean cut.                 *)
ImplementsStack == Stack!Spec
=============================================================================
