------------------------------- MODULE Alloc -------------------------------
(***************************************************************************)
(* JC_ALLOC, the allocator of the client and the server (lib/alloc).       *)
(*                                                                         *)
(* A size is rounded up to a power of two; each such size has an index,    *)
(* and each index a bucket of free blocks in the arena of every thread and *)
(* one in the global arena, which a mutex guards.  A thread takes from its *)
(* own bucket; when that is empty it moves blocks up from the global one,  *)
(* unless somebody holds the mutex; when that fails too it cuts a new page *)
(* into blocks.  A block may be freed by another thread than the one that  *)
(* asked for it: it joins the bucket of the thread that frees it, and a    *)
(* bucket that is full is first emptied into the global one.  A thread     *)
(* that ends returns its whole arena.                                      *)
(*                                                                         *)
(* A bucket is a set: in what order blocks leave it tells no property      *)
(* apart.  What the arenas need for their own arrays they ask the kernel   *)
(* for again and again until they get it, some of them with the mutex in   *)
(* hand, and one such loop goes wrong: see ArenaLost, after which nothing  *)
(* is followed.  Blocks above the cutoff come from mmap and go back to it: *)
(* not here.                                                               *)
(***************************************************************************)
EXTENDS Integers, FiniteSets

CONSTANTS Thread,      \* the threads that allocate
          NBucket,     \* ALLOC_BUCKET_COUNT
          Count,       \* ALLOC_INDEX_TO_COUNT: blocks in a page
          MaxStored,   \* ALLOC_INDEX_TO_MAX_STORED: where a bucket is full
          MaxPages     \* bound: pages the kernel gives for an index

Index == 0 .. NBucket - 1

(* allocatorAssertions asks for MaxStored[0] > Count[0]; both are divided  *)
(* by the size of the block, so that no other index has less room.         *)
ASSUME AllocAssumption ==
    /\ NBucket \in Nat \ {0}
    /\ Count \in [Index -> Nat \ {0}]
    /\ MaxStored \in [Index -> Nat \ {0}]
    /\ MaxStored[0] > Count[0]
    /\ \A i \in Index : MaxStored[i] >= Count[i]
    /\ MaxPages \in Nat

VARIABLES local,     \* the buckets of each thread
          global,    \* the buckets of the global arena
          ready,     \* JCAllocGlobalArenaReady
          mutex,     \* who holds JCAllocGlobalMutex, if anybody
          live,      \* how often the program holds each block
          pages,     \* the pages cut up so far
          pc, ix,    \* where each thread is, and with which index (idle: 0)
          ptr,       \* the block a thread is freeing, or the page it cuts
          arena,     \* JCAllocLocalArena of each thread: none, built, freed
          refused    \* threads that sleep before they ask the kernel again

shared == <<global, ready, mutex>>
vars == <<shared, local, live, pages, pc, ix, ptr, arena, refused>>

None == "none"

ASSUME NobodyIsNone == None \notin Thread

Page(i, p) == {<<i, p * Count[i] + k>> : k \in 1 .. Count[i]}

Block == UNION {Page(i, p) : i \in Index, p \in 0 .. MaxPages - 1}

Made == UNION {UNION {Page(i, p) : p \in 0 .. pages[i] - 1} : i \in Index}

AllocInit ==
    /\ local = [t \in Thread |-> [i \in Index |-> {}]]
    /\ global = [i \in Index |-> {}]
    /\ ready = 0
    /\ mutex = None
    /\ live = [b \in Block |-> 0]
    /\ pages = [i \in Index |-> 0]
    /\ pc = [t \in Thread |-> "idle"]
    /\ ix = [t \in Thread |-> 0]
    /\ ptr = [t \in Thread |-> {}]
    /\ arena = [t \in Thread |-> "none"]
    /\ refused = {}

Goto(t, l) == pc' = [pc EXCEPT ![t] = l]

Return(t) == Goto(t, "idle") /\ ix' = [ix EXCEPT ![t] = 0]

(* Malloc returns b to its caller.                                         *)
Hand(b) == live' = [live EXCEPT ![b] = @ + 1]

(* A loop of t gets the memory it asks for.                                *)
Granted(t) == refused' = refused \ {t}

(* Where malloc asks until it is given: for an array or a bucket of an     *)
(* arena, or for room for one more block in a bucket.                      *)
InLoop(t) ==
    \/ pc[t] \in {"arena", "move", "cut"}
    \/ pc[t] = "init" /\ ready < NBucket

Refused(t) ==
    /\ InLoop(t)
    /\ t \notin refused
    /\ refused' = refused \union {t}
    /\ UNCHANGED <<shared, local, live, pages, pc, ix, ptr, arena>>

---------------------------------------------------------------------------
(* The arena of a thread, which its first call of malloc or free makes.    *)

ArenaInit(t) ==
    /\ pc[t] = "arena"
    /\ arena' = [arena EXCEPT ![t] = "built"]
    /\ Granted(t)
    /\ Goto(t, "try")
    /\ UNCHANGED <<shared, local, live, pages, ix, ptr>>

(* The arena is set as soon as its first bucket is there.  If the kernel   *)
(* refuses another bucket the arena is freed, and the next attempt finds   *)
(* and returns it: the thread works on memory it has given back.           *)
ArenaLost(t) ==
    /\ NBucket > 1
    /\ arena[t] = "none"
    /\ pc[t] = "arena" \/ (pc[t] = "idle" /\ \E b \in Block : live[b] > 0)
    /\ arena' = [arena EXCEPT ![t] = "freed"]
    /\ UNCHANGED <<shared, local, live, pages, pc, ix, ptr, refused>>

---------------------------------------------------------------------------
(* Malloc, which never waits.                                              *)

(* A block of the thread's own bucket, if there is one.                    *)
LocalGet(t, i) ==
    /\ pc[t] = "idle"
    /\ \E b \in local[t][i] :
         /\ local' = [local EXCEPT ![t][i] = @ \ {b}]
         /\ Hand(b)
    /\ UNCHANGED <<shared, pages, pc, ix, ptr, arena, refused>>

LocalEmpty(t, i) ==
    /\ pc[t] = "idle"
    /\ local[t][i] = {}
    /\ ix' = [ix EXCEPT ![t] = i]
    /\ Goto(t, IF arena[t] = "none" THEN "arena" ELSE "try")
    /\ UNCHANGED <<shared, local, live, pages, ptr, arena, refused>>

(* Mutant of TryLock: waits for the mutex.                                 *)
TryLockWaits(t) ==
    /\ pc[t] = "try"
    /\ mutex = None
    /\ mutex' = t
    /\ Goto(t, "init")
    /\ UNCHANGED <<local, global, ready, live, pages, ix, ptr, arena, refused>>

(* PMutexTryLock: with the mutex held, the thread makes a page instead.    *)
TryLock(t) ==
    /\ pc[t] = "try"
    /\ IF mutex = None THEN mutex' = t /\ Goto(t, "init")
                       ELSE mutex' = mutex /\ Goto(t, "make")
    /\ UNCHANGED <<local, global, ready, live, pages, ix, ptr, arena, refused>>

(* One more bucket of the global arena: who comes first builds it, and     *)
(* retries until the last is there.                                        *)
GlobalArenaInit(t) ==
    /\ pc[t] = "init"
    /\ IF ready < NBucket
         THEN ready' = ready + 1 /\ pc' = pc
         ELSE ready' = ready /\ Goto(t, "move")
    /\ Granted(t)
    /\ UNCHANGED <<local, global, mutex, live, pages, ix, ptr, arena>>

(* Up to a page's worth of blocks move to the thread's own bucket.         *)
GlobalGet(t) ==
    LET i == ix[t]
        n == IF Cardinality(global[i]) < Count[i]
               THEN Cardinality(global[i]) ELSE Count[i]
    IN  /\ pc[t] = "move"
        /\ \E up \in SUBSET global[i] :
             /\ Cardinality(up) = n
             /\ global' = [global EXCEPT ![i] = @ \ up]
             /\ local' = [local EXCEPT ![t][i] = @ \union up]
        /\ Granted(t)
        /\ Goto(t, "moved")
        /\ UNCHANGED <<ready, mutex, live, pages, ix, ptr, arena>>

(* The mutex is released, and the first of the blocks that moved, if any   *)
(* did, is the caller's.                                                   *)
GlobalGot(t) ==
    LET i == ix[t]
    IN  /\ pc[t] = "moved"
        /\ mutex' = None
        /\ IF local[t][i] = {}
             THEN Goto(t, "make") /\ UNCHANGED <<local, live, ix>>
             ELSE /\ \E b \in local[t][i] :
                       /\ local' = [local EXCEPT ![t][i] = @ \ {b}]
                       /\ Hand(b)
                  /\ Return(t)
        /\ UNCHANGED <<global, ready, pages, ptr, arena, refused>>

(* A new page.                                                             *)
LocalMake(t) ==
    LET i == ix[t]
    IN  /\ pc[t] = "make"
        /\ pages[i] < MaxPages
        /\ pages' = [pages EXCEPT ![i] = @ + 1]
        /\ ptr' = [ptr EXCEPT ![t] = Page(i, pages[i])]
        /\ Goto(t, "cut")
        /\ UNCHANGED <<shared, local, live, ix, arena, refused>>

FirstOf(page) == {b \in page : \A c \in page : b[2] <= c[2]}

(* Mutant of LocalCut: the loop over the page starts at its first block.   *)
LocalCutAll(t) ==
    /\ pc[t] = "cut"
    /\ \E first \in FirstOf(ptr[t]) : Hand(first)
    /\ local' = [local EXCEPT ![t][ix[t]] = @ \union ptr[t]]
    /\ ptr' = [ptr EXCEPT ![t] = {}]
    /\ Granted(t)
    /\ Return(t)
    /\ UNCHANGED <<shared, pages, arena>>

(* Its first block is the caller's, the others join the thread's own       *)
(* bucket.                                                                 *)
LocalCut(t) ==
    /\ pc[t] = "cut"
    /\ \E first \in FirstOf(ptr[t]) :
         /\ Hand(first)
         /\ local' = [local EXCEPT ![t][ix[t]] = @ \union (ptr[t] \ {first})]
    /\ ptr' = [ptr EXCEPT ![t] = {}]
    /\ Granted(t)
    /\ Return(t)
    /\ UNCHANGED <<shared, pages, arena>>

(* The kernel has no page: the caller gets 0.                              *)
MakeFails(t) ==
    /\ pc[t] = "make"
    /\ Return(t)
    /\ UNCHANGED <<shared, local, live, pages, ptr, arena, refused>>

---------------------------------------------------------------------------
(* Free, by any thread.  It asks in loops of its own, for an arena and for *)
(* room in both buckets: it may take for ever.                             *)

RetNode(t, b) ==
    /\ pc[t] = "idle"
    /\ live[b] > 0
    /\ live' = [live EXCEPT ![b] = @ - 1]
    /\ IF Cardinality(local[t][b[1]]) = MaxStored[b[1]]
         THEN /\ ptr' = [ptr EXCEPT ![t] = {b}]
              /\ ix' = [ix EXCEPT ![t] = b[1]]
              /\ Goto(t, "ret")
              /\ local' = local
         ELSE /\ local' = [local EXCEPT ![t][b[1]] = @ \union {b}]
              /\ UNCHANGED <<ptr, pc, ix>>
    /\ arena' = [arena EXCEPT ![t] = "built"]
    /\ UNCHANGED <<shared, pages, refused>>

RetLock(t) ==
    /\ pc[t] = "ret"
    /\ mutex = None
    /\ mutex' = t
    /\ Goto(t, "retpush")
    /\ UNCHANGED <<local, global, ready, live, pages, ix, ptr, arena, refused>>

(* The full bucket's blocks are copied to the global one and the mutex is  *)
(* released: anybody may take them from now on.                            *)
GlobalRet(t) ==
    /\ pc[t] = "retpush"
    /\ global' = [global EXCEPT ![ix[t]] = @ \union local[t][ix[t]]]
    /\ mutex' = None
    /\ Goto(t, "clear")
    /\ UNCHANGED <<local, ready, live, pages, ix, ptr, arena, refused>>

(* Mutant of RetClear: the bucket is not emptied.                          *)
RetClearNot(t) ==
    /\ pc[t] = "clear"
    /\ local' = [local EXCEPT ![t][ix[t]] = @ \union ptr[t]]
    /\ ptr' = [ptr EXCEPT ![t] = {}]
    /\ Return(t)
    /\ UNCHANGED <<shared, live, pages, arena, refused>>

(* Only then is the bucket emptied, and the freed block put in it.         *)
RetClear(t) ==
    /\ pc[t] = "clear"
    /\ local' = [local EXCEPT ![t][ix[t]] = ptr[t]]
    /\ ptr' = [ptr EXCEPT ![t] = {}]
    /\ Return(t)
    /\ UNCHANGED <<shared, live, pages, arena, refused>>

---------------------------------------------------------------------------
(* The end of a thread; another may start under its name.                  *)

ExitLock(t) ==
    /\ pc[t] = "idle"
    /\ mutex = None
    /\ \E i \in Index : local[t][i] /= {}
    /\ mutex' = t
    /\ Goto(t, "exit")
    /\ UNCHANGED <<local, global, ready, live, pages, ix, ptr, arena, refused>>

(* Every bucket from the first that is not empty is pushed and cleared.    *)
GlobalRetAll(t) ==
    /\ pc[t] = "exit"
    /\ global' = [i \in Index |-> global[i] \union local[t][i]]
    /\ local' = [local EXCEPT ![t] = [i \in Index |-> {}]]
    /\ arena' = [arena EXCEPT ![t] = "none"]
    /\ mutex' = None
    /\ Goto(t, "idle")
    /\ UNCHANGED <<ready, live, pages, ix, ptr, refused>>

(* With nothing to return it takes no mutex.                               *)
ExitEmpty(t) ==
    /\ pc[t] = "idle"
    /\ arena[t] = "built"
    /\ \A i \in Index : local[t][i] = {}
    /\ arena' = [arena EXCEPT ![t] = "none"]
    /\ UNCHANGED <<shared, local, live, pages, pc, ix, ptr, refused>>

---------------------------------------------------------------------------
Malloc(t) ==
    \/ ArenaInit(t) \/ TryLock(t) \/ GlobalArenaInit(t) \/ GlobalGet(t)
    \/ GlobalGot(t) \/ LocalMake(t) \/ LocalCut(t) \/ MakeFails(t)

Free(t) ==
    \/ \E b \in Block : RetNode(t, b)
    \/ RetLock(t) \/ GlobalRet(t) \/ RetClear(t)

Exit(t) == ExitLock(t) \/ GlobalRetAll(t) \/ ExitEmpty(t)

Dangling == \E t \in Thread : arena[t] = "freed"

AllocNext ==
    /\ ~Dangling
    /\ \E t \in Thread :
         \/ \E i \in Index : LocalGet(t, i) \/ LocalEmpty(t, i)
         \/ Malloc(t) \/ Refused(t) \/ ArenaLost(t)
         \/ Free(t) \/ Exit(t)

AllocSpec == AllocInit /\ [][AllocNext]_vars

(* Fair is only what a thread does inside a call of its own to malloc,     *)
(* while the kernel refuses it nothing: a thread that is refused may sleep *)
(* for ever, and one that frees may be preempted for ever, with the mutex  *)
(* in its hand.                                                            *)
FairAllocSpec ==
    /\ AllocSpec
    /\ \A t \in Thread : WF_vars(~Dangling /\ t \notin refused /\ Malloc(t))

---------------------------------------------------------------------------
(* The types; and no bucket is ever fuller than full, although the test in *)
(* RetNode is for equality and other steps fill buckets too.               *)
TypeOK ==
    /\ local \in [Thread -> [Index -> SUBSET Block]]
    /\ \A t \in Thread, i \in Index :
         Cardinality(local[t][i]) <= MaxStored[i]
    /\ global \in [Index -> SUBSET Block]
    /\ ready \in 0 .. NBucket
    /\ mutex \in Thread \union {None}
    /\ live \in [Block -> Nat]
    /\ pages \in [Index -> 0 .. MaxPages]
    /\ pc \in [Thread -> {"idle", "arena", "try", "init", "move", "moved",
                          "make", "cut", "ret", "retpush", "clear", "exit"}]
    /\ ix \in [Thread -> Index]
    /\ ptr \in [Thread -> SUBSET Block]
    /\ arena \in [Thread -> {"none", "built", "freed"}]
    /\ refused \subseteq Thread

(* The blocks a thread could hand out.  A bucket that has been copied to   *)
(* the global arena and not yet been cleared still lists them, but they    *)
(* are the thread's no more.                                               *)
Usable(t) == ptr[t] \union
    UNION {local[t][i] : i \in {j \in Index : ~(pc[t] = "clear" /\ ix[t] = j)}}

Live == {b \in Block : live[b] > 0}

GlobalFree == UNION {global[i] : i \in Index}

(* No block is lost: each block of each page is somewhere, also after the  *)
(* thread that cut the page has ended and while a full bucket is emptied.  *)
NoneLost ==
    Made = Live \union GlobalFree \union UNION {Usable(t) : t \in Thread}

(* The global arena is complete for everybody who pushes to it, though     *)
(* only malloc builds it: a free or an exit that took the mutex first      *)
(* would write through a null pointer.                                     *)
GlobalReady ==
    \A t \in Thread : pc[t] \in {"move", "retpush", "exit"} => ready = NBucket

(* A block is in one place: held by the program, in one thread's hands, or *)
(* in the global arena -- although GlobalRet lets go of the mutex before   *)
(* it clears the bucket whose blocks it has published -- and none is lost. *)
OnePlace ==
    /\ TypeOK /\ GlobalReady /\ NoneLost
    /\ Live \intersect GlobalFree = {}
    /\ \A t \in Thread :
         /\ Usable(t) \intersect (Live \union GlobalFree) = {}
         /\ \A u \in Thread \ {t} : Usable(t) \intersect Usable(u) = {}

Pool == INSTANCE BlockPool

(* What the callers see is a pool of blocks, none handed out twice.        *)
ImplementsPool == Pool!PoolSpec

(* A thread that asks for memory gets its answer, a block or 0, whatever   *)
(* the others do, even if one of them never lets go of the mutex or asks   *)
(* the kernel in vain with the mutex in hand -- unless the kernel refuses  *)
(* this thread the memory for its arenas' own arrays.                      *)
Asking(t) == pc[t] \in {"arena", "try", "init", "move", "moved", "make", "cut"}
MallocReturns ==
    \A t \in Thread : Asking(t) ~> (~Asking(t) \/ t \in refused \/ Dangling)
=============================================================================
