--------------------------- MODULE CloseableStack ---------------------------
(***************************************************************************)
(* The object lib/cvec promises its callers: a stack that many threads     *)
(* share, every operation of which takes effect at one instant between its *)
(* call and its return.  Once it is closed, pushes are refused and pops    *)
(* return nothing, whatever is still on it.                                *)
(***************************************************************************)
EXTENDS Naturals, Sequences

CONSTANTS Threads, Vals, Null,
          Oom        (* TRUE if a push may find no memory                  *)

VARIABLES items,    (* what is on the stack, the top last                   *)
          closed,
          call      (* what each thread is calling, or about to be told     *)

vars == <<items, closed, call>>

Idle == [op |-> "idle"]
Pushing(v) == [op |-> "push", val |-> v]
Popping == [op |-> "pop"]
Told(r) == [op |-> "told", val |-> r]

Init ==
  /\ items = <<>>
  /\ closed = FALSE
  /\ call = [t \in Threads |-> Idle]

Call(t, op) ==
  /\ call[t] = Idle
  /\ call' = [call EXCEPT ![t] = op]
  /\ UNCHANGED <<items, closed>>

Push(t, v) ==
  /\ call[t] = Pushing(v) /\ ~closed
  /\ items' = Append(items, v)
  /\ call' = [call EXCEPT ![t] = Told(v)]
  /\ UNCHANGED closed

Refuse(t, v) ==
  /\ call[t] = Pushing(v) /\ (closed \/ Oom)
  /\ call' = [call EXCEPT ![t] = Told(Null)]
  /\ UNCHANGED <<items, closed>>

Pop(t) ==
  /\ call[t] = Popping /\ ~closed /\ items # <<>>
  /\ call' = [call EXCEPT ![t] = Told(items[Len(items)])]
  /\ items' = SubSeq(items, 1, Len(items) - 1)
  /\ UNCHANGED closed

PopNothing(t) ==
  /\ call[t] = Popping /\ closed
  /\ call' = [call EXCEPT ![t] = Told(Null)]
  /\ UNCHANGED <<items, closed>>

Return(t) ==
  /\ call[t].op = "told"
  /\ call' = [call EXCEPT ![t] = Idle]
  /\ UNCHANGED <<items, closed>>

Close ==
  /\ closed' = TRUE
  /\ UNCHANGED <<items, call>>

Next ==
  \/ \E t \in Threads :
       \/ Call(t, Popping) \/ Pop(t) \/ PopNothing(t) \/ Return(t)
       \/ \E v \in Vals : Call(t, Pushing(v)) \/ Push(t, v) \/ Refuse(t, v)
  \/ Close

Spec == Init /\ [][Next]_vars
=============================================================================
