---------------------------- MODULE AllocProofs ----------------------------
(***************************************************************************)
(* For any number of threads, sizes and pages: a block is in one place, no *)
(* bucket is fuller than full, and what callers see is a BlockPool.        *)
(***************************************************************************)
EXTENDS Alloc, FiniteSetTheorems, TLAPS

(* The types, but for the sizes of the buckets; and the program holds no   *)
(* block twice.                                                            *)
Types ==
    /\ local \in [Thread -> [Index -> SUBSET Block]]
    /\ global \in [Index -> SUBSET Block]
    /\ ready \in 0 .. NBucket
    /\ mutex \in Thread \union {None}
    /\ live \in [Block -> 0 .. 1]
    /\ pages \in [Index -> 0 .. MaxPages]
    /\ pc \in [Thread -> {"idle", "arena", "try", "init", "move", "moved",
                          "make", "cut", "ret", "retpush", "clear", "exit"}]
    /\ ix \in [Thread -> Index]
    /\ ptr \in [Thread -> SUBSET Block]
    /\ arena \in [Thread -> {"none", "built", "freed"}]
    /\ refused \subseteq Thread

(* No bucket holds more than it may store.                                 *)
Room ==
    /\ \A t \in Thread, i \in Index :
         IsFiniteSet(local[t][i]) /\ Cardinality(local[t][i]) <= MaxStored[i]
    /\ \A i \in Index : IsFiniteSet(global[i])

(* The mutex is held by who is between its lock and its unlock.            *)
Locking ==
    \A t \in Thread :
      mutex = t <=> pc[t] \in {"init", "move", "moved", "retpush", "exit"}

(* The global arena is complete, or somebody who holds the mutex is at     *)
(* completing it, or nobody has come further than to ask for the mutex.    *)
ArenaReady ==
    /\ \A t \in Thread :
         pc[t] \in {"move", "moved", "retpush", "exit"} => ready = NBucket
    /\ \/ ready = NBucket
       \/ \E t \in Thread : mutex = t /\ pc[t] = "init"
       \/ /\ \A i \in Index : pages[i] = 0
          /\ \A t \in Thread : pc[t] \in {"idle", "arena", "try"}

(* A block lies in the buckets of its index.                               *)
Indexed ==
    /\ \A t \in Thread, i \in Index : \A b \in local[t][i] : b[1] = i
    /\ \A i \in Index : \A b \in global[i] : b[1] = i

(* Until malloc has moved blocks up or cut a page, the bucket it looked    *)
(* into is empty; and only a thread that cuts a page or has found a bucket *)
(* full has blocks in hand: no more than a page of them, or one that is    *)
(* not in that bucket.                                                     *)
Stages ==
    \A t \in Thread :
      /\ pc[t] \in {"arena", "try", "init", "move", "make", "cut"} =>
           local[t][ix[t]] = {}
      /\ pc[t] \notin {"cut", "ret", "retpush", "clear"} => ptr[t] = {}
      /\ pc[t] = "cut" =>
           /\ \A b \in ptr[t] : b[1] = ix[t]
           /\ IsFiniteSet(ptr[t]) /\ Cardinality(ptr[t]) <= Count[ix[t]]
      /\ pc[t] \in {"ret", "retpush", "clear"} =>
           \E b \in Block :
             /\ ptr[t] = {b} /\ b[1] = ix[t]
             /\ pc[t] \in {"ret", "retpush"} => b \notin local[t][ix[t]]

(* Whether thread t could hand out block b.                                *)
InHand(t, b) ==
    \/ b \in ptr[t]
    \/ b \in local[t][b[1]] /\ ~(pc[t] = "clear" /\ ix[t] = b[1])

(* OnePlace, one block at a time.                                          *)
Where ==
    \A b \in Block :
      /\ b \in global[b[1]] => live[b] = 0
      /\ \A t \in Thread : InHand(t, b) =>
           /\ live[b] = 0 /\ b \notin global[b[1]]
           /\ \A u \in Thread : InHand(u, b) => u = t
      /\ b \in Made <=> \/ live[b] = 1 \/ b \in global[b[1]]
                        \/ \E t \in Thread : InHand(t, b)

(* What is known but for where the blocks are.                             *)
Shape == Types /\ Room /\ Locking /\ ArenaReady /\ Indexed /\ Stages

(* The inductive invariant.                                                *)
IInv == Shape /\ Where

(* The blocks of a page are of its index, as many as Count says, and in no *)
(* other page.                                                             *)
LEMMA PageFacts ==
  ASSUME NEW i \in Index, NEW p \in Nat
  PROVE  /\ \A b \in Page(i, p) : b[1] = i
         /\ \A q \in 0 .. p - 1 : Page(i, q) \cap Page(i, p) = {}
         /\ IsFiniteSet(Page(i, p)) /\ Cardinality(Page(i, p)) <= Count[i]
<1>1. Count[i] \in Nat \ {0}
  BY AllocAssumption
<1>2. \A b \in Page(i, p) : b[1] = i
  BY DEF Page
<1>4. ASSUME NEW q \in 0 .. p - 1
      PROVE  Page(i, q) \cap Page(i, p) = {}
  <2> DEFINE C == Count[i]
  <2>1. C \in Nat /\ q * C + C <= p * C
    <3>1. PICK d \in Nat : p = q + 1 + d
      <4>1. p - q - 1 \in Nat /\ p = q + 1 + (p - q - 1)
        OBVIOUS
      <4> QED BY <4>1
    <3>2. C \in Nat /\ d * C >= 0 /\ q \in Nat
      BY <1>1, <3>1
    <3> HIDE DEF C
    <3>3. p * C = q * C + C + d * C
      BY <3>1, <3>2
    <3>4. q * C \in Nat /\ d * C \in Nat
      BY <3>2
    <3> QED BY <3>2, <3>3, <3>4
  <2>2. SUFFICES ASSUME NEW k \in 1 .. C, NEW l \in 1 .. C,
                        q * C + k = p * C + l
                 PROVE  FALSE
    BY DEF Page
  <2>3. q * C \in Nat /\ p * C \in Nat
    BY <2>1
  <2> HIDE DEF C
  <2> QED BY <2>1, <2>2, <2>3
<1>5. IsFiniteSet(Page(i, p)) /\ Cardinality(Page(i, p)) <= Count[i]
  <2> DEFINE f == [k \in 1 .. Count[i] |-> <<i, p * Count[i] + k>>]
  <2>1. f \in Surjection(1 .. Count[i], Page(i, p))
    BY DEF Page, Surjection
  <2>2. IsFiniteSet(1 .. Count[i]) /\ Cardinality(1 .. Count[i]) = Count[i]
    BY <1>1, FS_Interval, SMTT(60)
  <2> HIDE DEF f
  <2> QED BY <2>1, <2>2, FS_Surjection
<1> QED BY <1>2, <1>4, <1>5

(* A block has an index, and what was made is a block.                     *)
LEMMA BlockFacts ==
  ASSUME Types
  PROVE  /\ \A b \in Block : b[1] \in Index
         /\ Made \subseteq Block
<1>1. \A b \in Block : b[1] \in Index
  <2> SUFFICES ASSUME NEW b \in Block PROVE b[1] \in Index
    OBVIOUS
  <2>1. PICK i \in Index, p \in 0 .. MaxPages - 1 : b \in Page(i, p)
    BY DEF Block
  <2>2. p \in Nat
    BY AllocAssumption
  <2> QED BY <2>1, <2>2, PageFacts
<1>2. \A i \in Index : \A p \in 0 .. pages[i] - 1 : p \in 0 .. MaxPages - 1
  BY AllocAssumption DEF Types
<1>3. Made \subseteq Block
  <2> SUFFICES ASSUME NEW b \in Made PROVE b \in Block
    OBVIOUS
  <2>1. PICK i \in Index : \E p \in 0 .. pages[i] - 1 : b \in Page(i, p)
    BY DEF Made
  <2> QED BY <1>2, <2>1 DEF Block
<1> QED BY <1>1, <1>3

(* A new page is made of blocks that were not there.                       *)
LEMMA MadeGrows ==
  ASSUME Types, NEW i \in Index, pages[i] < MaxPages,
         pages' = [pages EXCEPT ![i] = @ + 1]
  PROVE  /\ Made' = Made \cup Page(i, pages[i])
         /\ Made \cap Page(i, pages[i]) = {}
         /\ Page(i, pages[i]) \subseteq Block
<1>1. /\ pages[i] \in Nat /\ pages'[i] = pages[i] + 1
      /\ \A j \in Index : pages[j] \in Nat
      /\ \A j \in Index \ {i} : pages'[j] = pages[j]
      /\ pages[i] \in 0 .. MaxPages - 1
  BY AllocAssumption DEF Types
<1>2. 0 .. pages'[i] - 1 = (0 .. pages[i] - 1) \cup {pages[i]}
  BY <1>1
<1>3. ASSUME NEW b
      PROVE  b \in Made' <=> b \in Made \/ b \in Page(i, pages[i])
  <2>1. b \in Made' <=>
          \E j \in Index : \E p \in 0 .. pages'[j] - 1 : b \in Page(j, p)
    BY DEF Made
  <2>2. b \in Made <=>
          \E j \in Index : \E p \in 0 .. pages[j] - 1 : b \in Page(j, p)
    BY DEF Made
  <2>3. (\E p \in 0 .. pages'[i] - 1 : b \in Page(i, p)) <=>
          \/ \E p \in 0 .. pages[i] - 1 : b \in Page(i, p)
          \/ b \in Page(i, pages[i])
    BY <1>2
  <2>4. \A j \in Index \ {i} : 0 .. pages'[j] - 1 = 0 .. pages[j] - 1
    BY <1>1
  <2> QED BY <2>1, <2>2, <2>3, <2>4
<1>4. ASSUME NEW b \in Made PROVE b \notin Page(i, pages[i])
  <2>0. PICK j \in Index : \E p \in 0 .. pages[j] - 1 : b \in Page(j, p)
    BY DEF Made
  <2>1. PICK p \in 0 .. pages[j] - 1 : b \in Page(j, p)
    BY <2>0
  <2>2. p \in Nat /\ b[1] = j
    <3>1. p \in Nat
      BY <1>1
    <3> QED BY <2>1, <3>1, PageFacts
  <2>3. CASE j = i
    BY <1>1, <2>1, <2>3, PageFacts
  <2>4. CASE j # i
    BY <1>1, <2>2, <2>4, PageFacts
  <2> QED BY <2>3, <2>4
<1>5. Page(i, pages[i]) \subseteq Block
  BY <1>1 DEF Block
<1> QED BY <1>3, <1>4, <1>5

(* One bucket of thread t becomes S; no other changes.                     *)
SetBucket(t, i, S) == local' = [local EXCEPT ![t][i] = S]

(* What it means for the buckets.                                          *)
OnlyBucket(t, i, S) ==
    /\ local' \in [Thread -> [Index -> SUBSET Block]]
    /\ \A u \in Thread, j \in Index :
         local'[u][j] = IF u = t /\ j = i THEN S ELSE local[u][j]

(* What the assignment does, bucket by bucket.                             *)
LEMMA BucketSet ==
  ASSUME Types, NEW t \in Thread, NEW i \in Index, NEW S \in SUBSET Block,
         SetBucket(t, i, S)
  PROVE  OnlyBucket(t, i, S)
BY DEF Types, SetBucket, OnlyBucket

(* Where no bucket but one changes, and that one has room, all have room.  *)
LEMMA RoomKept ==
  ASSUME Room, global' = global, NEW t \in Thread, NEW i \in Index, NEW S,
         OnlyBucket(t, i, S), IsFiniteSet(S), Cardinality(S) <= MaxStored[i]
  PROVE  Room'
BY Zenon DEF Room, OnlyBucket

(* A bucket has room when blocks are taken from it.                        *)
LEMMA Taken ==
  ASSUME NEW S, IsFiniteSet(S), NEW n \in Nat, Cardinality(S) <= n, NEW T
  PROVE  IsFiniteSet(S \ T) /\ Cardinality(S \ T) <= n
<1>1. /\ IsFiniteSet(S \ T) /\ Cardinality(S \ T) <= Cardinality(S)
  BY FS_Subset
<1>2. Cardinality(S \ T) \in Nat /\ Cardinality(S) \in Nat
  BY <1>1, FS_CardinalityType
<1> QED BY <1>1, <1>2

(* And so it has with one block more, if it was not full.                  *)
LEMMA Added ==
  ASSUME NEW S, IsFiniteSet(S), NEW n \in Nat, Cardinality(S) <= n,
         Cardinality(S) # n, NEW b
  PROVE  IsFiniteSet(S \union {b}) /\ Cardinality(S \union {b}) <= n
<1>1. /\ IsFiniteSet(S \union {b})
      /\ \/ Cardinality(S \union {b}) = Cardinality(S)
         \/ Cardinality(S \union {b}) = Cardinality(S) + 1
  BY FS_AddElement
<1>2. Cardinality(S) \in Nat
  BY FS_CardinalityType
<1> QED BY <1>1, <1>2

(* Every step keeps the types, the buckets' room and what is known of each *)
(* thread from where it is.                                                *)
LEMMA ShapeStep ==
  ASSUME IInv, [AllocNext]_vars
  PROVE  Shape'
<1>0. /\ Types /\ Room /\ Locking /\ ArenaReady /\ Indexed /\ Stages
      /\ Where
  BY DEF IInv, Shape
<1>a. None \notin Thread /\ NBucket \in Nat
  BY AllocAssumption, NobodyIsNone
<1>c. 0 \in Index
  BY AllocAssumption DEF Index
<1>b. \A i \in Index : /\ Count[i] \in Nat /\ MaxStored[i] \in Nat
                       /\ 1 <= MaxStored[i] /\ Count[i] <= MaxStored[i]
  BY AllocAssumption
<1> DEFINE Goal == /\ Types' /\ Room' /\ Locking' /\ ArenaReady' /\ Indexed'
                   /\ Stages'
<1> SUFFICES Goal
  BY DEF Shape
<1>1. ASSUME NEW t \in Thread, NEW i \in Index, LocalGet(t, i)
      PROVE  Goal
  <2>a. PICK b \in local[t][i] :
          /\ SetBucket(t, i, local[t][i] \ {b})
          /\ live' = [live EXCEPT ![b] = live[b] + 1]
    BY <1>1 DEF LocalGet, Hand, SetBucket
  <2>b. b \in Block /\ live[b] = 0
    <3>1. pc[t] = "idle" /\ b[1] = i /\ b \in Block
      BY <1>0, <1>1, <2>a DEF LocalGet, Indexed, Types
    <3> QED BY <1>0, <3>1, <2>a DEF Where, InHand
  <2>c. local[t][i] \ {b} \in SUBSET Block
    BY <1>0 DEF Types
  <2>d. OnlyBucket(t, i, local[t][i] \ {b})
    BY <1>0, <2>a, <2>c, BucketSet
  <2> USE <1>0, <1>a, <1>c, <1>1 DEF LocalGet, Goto, Return, Granted, Hand,
         shared
  <2>1. Types'
    BY <2>a, <2>b, <2>d DEF Types, OnlyBucket
  <2>2. Room'
    <3>1. /\ IsFiniteSet(local[t][i]) /\ MaxStored[i] \in Nat
          /\ Cardinality(local[t][i]) <= MaxStored[i]
      BY <1>b DEF Room
    <3>2. /\ IsFiniteSet(local[t][i] \ {b})
          /\ Cardinality(local[t][i] \ {b}) <= MaxStored[i]
      BY <3>1, Taken, Zenon
    <3> QED BY <2>d, <3>2, RoomKept
  <2>3. Locking'
    BY DEF Types, Locking
  <2>4. ArenaReady'
    BY DEF Types, Locking, ArenaReady
  <2>5. Indexed'
    BY DEF Types, Indexed
  <2>6. Stages'
    BY DEF Types, Stages
  <2> QED BY <2>1, <2>2, <2>3, <2>4, <2>5, <2>6
<1>2. ASSUME NEW t \in Thread, NEW i \in Index, LocalEmpty(t, i)
      PROVE  Goal
  <2> USE <1>0, <1>a, <1>c, <1>2 DEF LocalEmpty, Goto, Return, Granted, Hand,
         shared
  <2>1. Types'
    BY DEF Types
  <2>2. Room'
    BY DEF Types, Room
  <2>3. Locking'
    BY DEF Types, Locking
  <2>4. ArenaReady'
    BY DEF Types, Locking, ArenaReady
  <2>5. Indexed'
    BY DEF Types, Indexed
  <2>6. Stages'
    BY DEF Types, Stages
  <2> QED BY <2>1, <2>2, <2>3, <2>4, <2>5, <2>6
<1>3. ASSUME NEW t \in Thread, TryLock(t)
      PROVE  Goal
  <2> USE <1>0, <1>a, <1>c, <1>3 DEF TryLock, Goto, Return, Granted, Hand,
         shared
  <2>1. Types'
    BY DEF Types
  <2>2. Room'
    BY DEF Types, Room
  <2>3. Locking'
    BY DEF Types, Locking
  <2>4. ArenaReady'
    BY DEF Types, Locking, ArenaReady
  <2>5. Indexed'
    BY DEF Types, Indexed
  <2>6. Stages'
    BY DEF Types, Stages
  <2> QED BY <2>1, <2>2, <2>3, <2>4, <2>5, <2>6
<1>4. ASSUME NEW t \in Thread, GlobalArenaInit(t)
      PROVE  Goal
  <2> USE <1>0, <1>a, <1>c, <1>4
      DEF GlobalArenaInit, Goto, Return, Granted, Hand, shared
  <2>1. Types'
    <3>1. ready' \in 0 .. NBucket
      BY DEF Types
    <3> QED BY <3>1 DEF Types
  <2>2. Room'
    BY DEF Types, Room
  <2>3. Locking'
    BY DEF Types, Locking
  <2>4. ArenaReady'
    BY DEF Types, Locking, ArenaReady
  <2>5. Indexed'
    BY DEF Types, Indexed
  <2>6. Stages'
    BY DEF Types, Stages
  <2> QED BY <2>1, <2>2, <2>3, <2>4, <2>5, <2>6
<1>5. ASSUME NEW t \in Thread, GlobalGet(t)
      PROVE  Goal
  <2> DEFINE i == ix[t]
  <2>a. PICK up \in SUBSET global[i] :
          /\ Cardinality(up) = IF Cardinality(global[i]) < Count[i]
                                 THEN Cardinality(global[i]) ELSE Count[i]
          /\ global' = [global EXCEPT ![i] = global[i] \ up]
          /\ SetBucket(t, i, local[t][i] \union up)
    BY <1>5 DEF GlobalGet, SetBucket
  <2>b. /\ i \in Index /\ local[t][i] = {} /\ up \in SUBSET Block
        /\ Count[i] \in Nat /\ MaxStored[i] \in Nat /\ Count[i] <= MaxStored[i]
    BY <1>0, <1>b, <1>5 DEF GlobalGet, Stages, Types
  <2>c. OnlyBucket(t, i, up)
    <3>1. local[t][i] \union up = up
      BY <2>b
    <3> QED BY <1>0, <2>a, <2>b, <3>1, BucketSet
  <2>d. /\ global' \in [Index -> SUBSET Block]
        /\ \A j \in Index :
             global'[j] = IF j = i THEN global[i] \ up ELSE global[j]
    BY <1>0, <2>a, <2>b DEF Types
  <2> HIDE DEF i
  <2> USE <1>0, <1>a, <1>c, <1>5 DEF GlobalGet, Goto, Return, Granted, Hand,
         shared
  <2>1. Types'
    BY <2>c, <2>d DEF Types, OnlyBucket
  <2>2. Room'
    <3>1. IsFiniteSet(global[i])
      BY <1>0, <2>b DEF Room
    <3>2. /\ IsFiniteSet(up) /\ IsFiniteSet(global[i] \ up)
          /\ Cardinality(global[i]) \in Nat
      BY <3>1, FS_Subset, FS_CardinalityType
    <3>3. Cardinality(up) <= MaxStored[i]
      BY <2>a, <2>b, <3>2
    <3>4. \A j \in Index : IsFiniteSet(global'[j])
      BY <1>0, <2>d, <3>2, Zenon DEF Room
    <3> QED BY <1>0, <2>c, <3>2, <3>3, <3>4, ZenonT(60) DEF Room, OnlyBucket
  <2>3. Locking'
    BY DEF Types, Locking
  <2>4. ArenaReady'
    BY DEF Types, Locking, ArenaReady
  <2>5. Indexed'
    BY <1>0, <2>a, <2>b, <2>c, <2>d DEF Indexed, OnlyBucket
  <2>6. Stages'
    <3>1. pc' = [pc EXCEPT ![t] = "moved"] /\ ptr' = ptr /\ ix' = ix
          /\ pc[t] = "move"
      BY <1>5 DEF GlobalGet, Goto
    <3>2. \A u \in Thread \ {t}, j \in Index : local'[u][j] = local[u][j]
      BY <2>c DEF OnlyBucket
    <3> QED BY <1>0, <3>1, <3>2 DEF Types, Stages
  <2> QED BY <2>1, <2>2, <2>3, <2>4, <2>5, <2>6
<1>6. ASSUME NEW t \in Thread, GlobalGot(t)
      PROVE  Goal
  <2> DEFINE i == ix[t]
  <2>0. i \in Index /\ pc[t] = "moved"
    BY <1>0, <1>6 DEF GlobalGot, Types
  <2>a. \/ /\ local[t][i] = {} /\ Goto(t, "make") /\ UNCHANGED <<local, live>>
           /\ ix' = ix
        \/ /\ \E b \in local[t][i] :
                /\ SetBucket(t, i, local[t][i] \ {b})
                /\ live' = [live EXCEPT ![b] = live[b] + 1]
           /\ Return(t)
    BY <1>6 DEF GlobalGot, Hand, SetBucket
  <2>b. CASE /\ local[t][i] = {} /\ Goto(t, "make")
             /\ UNCHANGED <<local, live>> /\ ix' = ix
    <3> USE <1>0, <1>a, <1>c, <1>6, <2>0, <2>b DEF GlobalGot, Goto, Types
    <3>1. Types'
      OBVIOUS
    <3>2. Room'
      BY DEF Room
    <3>3. Locking'
      BY DEF Locking
    <3>4. ArenaReady'
      BY DEF Locking, ArenaReady
    <3>5. Indexed'
      BY DEF Indexed
    <3>6. Stages'
      BY DEF Stages
    <3> QED BY <3>1, <3>2, <3>3, <3>4, <3>5, <3>6
  <2> HIDE DEF i
  <2>c. ASSUME NEW b \in local[t][i],
               SetBucket(t, i, local[t][i] \ {b}),
               live' = [live EXCEPT ![b] = live[b] + 1],
               Return(t)
        PROVE  Goal
    <3>1. b \in Block /\ live[b] = 0
      <4>1. b[1] = i /\ b \in Block
        BY <1>0, <2>0, <2>c DEF Indexed, Types
      <4> QED BY <1>0, <2>0, <2>c, <4>1 DEF Where, InHand
    <3>2. local[t][i] \ {b} \in SUBSET Block
      BY <1>0, <2>0 DEF Types
    <3>3. OnlyBucket(t, i, local[t][i] \ {b})
      BY <1>0, <2>0, <2>c, <3>2, BucketSet
    <3>4. live' \in [Block -> 0 .. 1]
      BY <1>0, <2>c, <3>1 DEF Types
    <3>5. /\ UNCHANGED <<global, ready, pages, ptr, arena, refused>>
          /\ mutex' = None /\ pc' = [pc EXCEPT ![t] = "idle"]
          /\ ix' = [ix EXCEPT ![t] = 0]
      BY <1>6, <2>c DEF GlobalGot, Goto, Return
    <3>6. Types'
      <4>1. ix' \in [Thread -> Index]
        BY <1>0, <1>c, <3>5 DEF Types
      <4> QED BY <1>0, <3>3, <3>4, <3>5, <4>1 DEF Types, OnlyBucket
    <3>7. Room'
      <4>1. /\ IsFiniteSet(local[t][i])
            /\ Cardinality(local[t][i]) <= MaxStored[i]
            /\ MaxStored[i] \in Nat
        BY <1>0, <1>b, <2>0 DEF Room
      <4>2. /\ IsFiniteSet(local[t][i] \ {b})
            /\ Cardinality(local[t][i] \ {b}) <= MaxStored[i]
        BY <4>1, Taken, Zenon
      <4> QED BY <1>0, <2>0, <3>3, <3>5, <4>2, RoomKept
    <3>8. Locking'
      BY <1>0, <1>a, <2>0, <3>5 DEF Types, Locking
    <3>9. ArenaReady'
      BY <1>0, <1>a, <2>0, <3>5 DEF Types, Locking, ArenaReady
    <3>10. Indexed'
      BY <1>0, <3>3, <3>5 DEF Indexed, OnlyBucket
    <3>11. Stages'
      BY <1>0, <2>0, <3>3, <3>5 DEF Types, Stages, OnlyBucket
    <3> QED BY <3>6, <3>7, <3>8, <3>9, <3>10, <3>11
  <2> QED BY <2>a, <2>b, <2>c
<1>7. ASSUME NEW t \in Thread, LocalMake(t)
      PROVE  Goal
  <2> DEFINE i == ix[t]
             page == Page(i, pages[i])
  <2>0. /\ i \in Index /\ pc[t] = "make" /\ pages[i] < MaxPages
        /\ pages[i] \in Nat /\ local[t][i] = {}
    BY <1>0, <1>7 DEF LocalMake, Types, Stages
  <2>a. /\ pages' = [pages EXCEPT ![i] = @ + 1]
        /\ ptr' = [ptr EXCEPT ![t] = page]
        /\ UNCHANGED <<local, live, ix, arena, refused>>
        /\ UNCHANGED <<global, ready, mutex>>
        /\ pc' = [pc EXCEPT ![t] = "cut"]
    BY <1>7 DEF LocalMake, Goto, shared
  <2>c. /\ page \in SUBSET Block /\ \A b \in page : b[1] = i
        /\ IsFiniteSet(page) /\ Cardinality(page) <= Count[i]
    BY <1>0, <2>0, <2>a, MadeGrows, PageFacts
  <2> HIDE DEF page
  <2>1. Types'
    <3>1. pages' \in [Index -> 0 .. MaxPages]
      BY <1>0, <2>0, <2>a, AllocAssumption DEF Types
    <3>2. ptr' \in [Thread -> SUBSET Block]
      BY <1>0, <2>a, <2>c DEF Types
    <3> QED BY <1>0, <2>a, <3>1, <3>2 DEF Types
  <2>2. Room'
    BY <1>0, <2>a DEF Room
  <2>3. Locking'
    BY <1>0, <1>a, <2>0, <2>a DEF Types, Locking
  <2>4. ArenaReady'
    BY <1>0, <1>a, <2>0, <2>a DEF Types, Locking, ArenaReady
  <2>5. Indexed'
    BY <1>0, <2>a DEF Indexed
  <2>6. Stages'
    <3>1. /\ pc'[t] = "cut" /\ ptr'[t] = page
          /\ \A u \in Thread \ {t} : pc'[u] = pc[u] /\ ptr'[u] = ptr[u]
      BY <1>0, <2>a DEF Types
    <3> QED BY <1>0, <2>0, <2>a, <2>c, <3>1 DEF Stages
  <2> QED BY <2>1, <2>2, <2>3, <2>4, <2>5, <2>6
<1>8. ASSUME NEW t \in Thread, MakeFails(t)
      PROVE  Goal
  <2> USE <1>0, <1>a, <1>c, <1>8 DEF MakeFails, Goto, Return, Granted, Hand,
         shared
  <2>1. Types'
    BY DEF Types
  <2>2. Room'
    BY DEF Types, Room
  <2>3. Locking'
    BY DEF Types, Locking
  <2>4. ArenaReady'
    BY DEF Types, Locking, ArenaReady
  <2>5. Indexed'
    BY DEF Types, Indexed
  <2>6. Stages'
    BY DEF Types, Stages
  <2> QED BY <2>1, <2>2, <2>3, <2>4, <2>5, <2>6
<1>9. ASSUME NEW t \in Thread, NEW b \in Block, RetNode(t, b)
      PROVE  Goal
  <2> DEFINE i == b[1]
  <2>0. /\ i \in Index /\ pc[t] = "idle" /\ live[b] = 1 /\ ptr[t] = {}
        /\ b \notin local[t][i]
    <3>1. i \in Index /\ pc[t] = "idle" /\ live[b] = 1
      BY <1>0, <1>9, BlockFacts DEF RetNode, Types
    <3> QED BY <1>0, <3>1 DEF Where, InHand, Stages
  <2>a. /\ UNCHANGED <<global, ready, mutex, pages, refused>>
        /\ live' = [live EXCEPT ![b] = 0]
        /\ arena' = [arena EXCEPT ![t] = "built"]
    BY <1>0, <1>9, <2>0 DEF RetNode, Types, shared
  <2>b. \/ /\ ptr' = [ptr EXCEPT ![t] = {b}]
           /\ pc' = [pc EXCEPT ![t] = "ret"] /\ local' = local
           /\ ix' = [ix EXCEPT ![t] = i]
        \/ /\ Cardinality(local[t][i]) # MaxStored[i]
           /\ SetBucket(t, i, local[t][i] \union {b})
           /\ ptr' = ptr /\ pc' = pc /\ ix' = ix
    BY <1>9 DEF RetNode, Goto, SetBucket
  <2>c. b \in Made
    BY <1>0, <2>0 DEF Where
  <2>d. \/ ready = NBucket
        \/ \E u \in Thread : mutex = u /\ pc[u] = "init" /\ u # t
    <3>1. ~ \A j \in Index : pages[j] = 0
      BY <2>c DEF Made
    <3> QED BY <1>0, <2>0, <3>1 DEF ArenaReady
  <2> HIDE DEF i
  <2>e. CASE /\ ptr' = [ptr EXCEPT ![t] = {b}]
             /\ pc' = [pc EXCEPT ![t] = "ret"] /\ local' = local
             /\ ix' = [ix EXCEPT ![t] = i]
    <3>1. Types'
      <4>1. ptr' \in [Thread -> SUBSET Block]
        BY <1>0, <2>e DEF Types
      <4>2. /\ live' \in [Block -> 0 .. 1] /\ ix' \in [Thread -> Index]
            /\ arena' \in [Thread -> {"none", "built", "freed"}]
        BY <1>0, <2>0, <2>a, <2>e DEF Types
      <4> QED BY <1>0, <2>a, <2>e, <4>1, <4>2 DEF Types
    <3>2. Room'
      BY <1>0, <2>a, <2>e DEF Room
    <3>3. Locking'
      BY <1>0, <2>0, <2>a, <2>e DEF Types, Locking
    <3>4. ArenaReady'
      BY <1>0, <2>0, <2>a, <2>d, <2>e DEF Types, ArenaReady
    <3>5. Indexed'
      BY <1>0, <2>a, <2>e DEF Indexed
    <3>6. Stages'
      <4>1. /\ \A u \in Thread \ {t} : /\ pc'[u] = pc[u] /\ ptr'[u] = ptr[u]
                                       /\ ix'[u] = ix[u]
            /\ pc'[t] = "ret" /\ ptr'[t] = {b} /\ ix'[t] = i
            /\ local' = local
        BY <1>0, <2>a, <2>e DEF Types
      <4>2. b \in Block /\ b[1] = i /\ b \notin local[t][i]
        BY <2>0 DEF i
      <4> QED BY <1>0, <4>1, <4>2 DEF Stages
    <3> QED BY <3>1, <3>2, <3>3, <3>4, <3>5, <3>6
  <2>f. CASE /\ Cardinality(local[t][i]) # MaxStored[i]
             /\ SetBucket(t, i, local[t][i] \union {b})
             /\ ptr' = ptr /\ pc' = pc /\ ix' = ix
    <3>0. OnlyBucket(t, i, local[t][i] \union {b})
      <4>1. local[t][i] \union {b} \in SUBSET Block
        BY <1>0, <2>0 DEF Types
      <4> QED BY <1>0, <2>0, <2>f, <4>1, BucketSet
    <3>1. Types'
      <4>1. /\ live' \in [Block -> 0 .. 1]
            /\ arena' \in [Thread -> {"none", "built", "freed"}]
        BY <1>0, <2>0, <2>a DEF Types
      <4> QED BY <1>0, <2>a, <2>f, <3>0, <4>1 DEF Types, OnlyBucket
    <3>2. Room'
      <4>1. /\ IsFiniteSet(local[t][i]) /\ MaxStored[i] \in Nat
            /\ Cardinality(local[t][i]) <= MaxStored[i]
        BY <1>0, <1>b, <2>0 DEF Room
      <4>2. /\ IsFiniteSet(local[t][i] \union {b})
            /\ Cardinality(local[t][i] \union {b}) <= MaxStored[i]
        BY <2>f, <4>1, Added, Zenon
      <4> QED BY <1>0, <2>0, <2>a, <3>0, <4>2, RoomKept
    <3>3. Locking'
      BY <1>0, <2>a, <2>f DEF Locking
    <3>4. ArenaReady'
      BY <1>0, <2>a, <2>f DEF ArenaReady
    <3>5. Indexed'
      <4>1. \A c \in local[t][i] \union {b} : c[1] = i
        BY <1>0, <2>0 DEF Indexed, i
      <4>2. global' = global
        BY <2>a
      <4> QED BY <1>0, <3>0, <4>1, <4>2 DEF Indexed, OnlyBucket
    <3>6. Stages'
      <4>1. \A u \in Thread \ {t}, j \in Index : local'[u][j] = local[u][j]
        BY <1>0, <3>0 DEF Types, OnlyBucket
      <4>2. \A u \in Thread : ix[u] \in Index
        BY <1>0 DEF Types
      <4>3. /\ pc[t] = "idle" /\ ptr[t] = {}
            /\ pc' = pc /\ ptr' = ptr /\ ix' = ix
        BY <2>0, <2>f
      <4> QED BY <1>0, <4>1, <4>2, <4>3 DEF Stages
    <3> QED BY <3>1, <3>2, <3>3, <3>4, <3>5, <3>6
  <2> QED BY <2>b, <2>e, <2>f
<1>10. ASSUME NEW t \in Thread, RetLock(t)
      PROVE  Goal
  <2> USE <1>0, <1>a, <1>c, <1>10 DEF RetLock, Goto, Return, Granted, Hand,
         shared
  <2>1. Types'
    BY DEF Types
  <2>2. Room'
    BY DEF Types, Room
  <2>3. Locking'
    BY DEF Types, Locking
  <2>4. ArenaReady'
    BY DEF Types, Locking, ArenaReady
  <2>5. Indexed'
    BY DEF Types, Indexed
  <2>6. Stages'
    BY DEF Types, Stages
  <2> QED BY <2>1, <2>2, <2>3, <2>4, <2>5, <2>6
<1>11. ASSUME NEW t \in Thread, GlobalRet(t)
      PROVE  Goal
  <2> USE <1>0, <1>a, <1>c, <1>11 DEF GlobalRet, Goto, Return, Granted, Hand,
         shared
  <2>1. Types'
    BY DEF Types
  <2>2. Room'
    <3>1. /\ IsFiniteSet(global[ix[t]]) /\ IsFiniteSet(local[t][ix[t]])
          /\ global \in [Index -> SUBSET Block] /\ ix[t] \in Index
      BY DEF Types, Room
    <3>2. IsFiniteSet(global[ix[t]] \union local[t][ix[t]])
      BY <3>1, FS_Union
    <3>3. \A j \in Index : IsFiniteSet(global'[j])
      BY <3>1, <3>2 DEF Room
    <3> QED BY <3>3 DEF Room
  <2>3. Locking'
    BY DEF Types, Locking
  <2>4. ArenaReady'
    BY DEF Types, Locking, ArenaReady
  <2>5. Indexed'
    BY DEF Types, Indexed
  <2>6. Stages'
    BY DEF Types, Stages
  <2> QED BY <2>1, <2>2, <2>3, <2>4, <2>5, <2>6
<1>12. ASSUME NEW t \in Thread, RetClear(t)
      PROVE  Goal
  <2>a. PICK b \in Block : ptr[t] = {b} /\ b[1] = ix[t]
    BY <1>0, <1>12 DEF RetClear, Stages
  <2>b. OnlyBucket(t, ix[t], ptr[t])
    <3>1. /\ ix[t] \in Index /\ ptr[t] \in SUBSET Block
          /\ SetBucket(t, ix[t], ptr[t])
      BY <1>0, <1>12 DEF RetClear, Types, SetBucket
    <3> QED BY <1>0, <3>1, BucketSet
  <2> USE <1>0, <1>a, <1>c, <1>12 DEF RetClear, Goto, Return, Granted, Hand,
         shared
  <2>1. Types'
    BY <2>b DEF Types, OnlyBucket
  <2>2. Room'
    <3>1. IsFiniteSet(ptr[t]) /\ Cardinality(ptr[t]) = 1
      <4>1. IsFiniteSet({b}) /\ Cardinality({b}) = 1
        BY FS_Singleton, Zenon
      <4> QED BY <2>a, <4>1, Zenon
    <3>2. ix[t] \in Index /\ 1 <= MaxStored[ix[t]]
      BY <1>b DEF Types
    <3>3. Cardinality(ptr[t]) <= MaxStored[ix[t]]
      BY <3>1, <3>2
    <3> QED BY <2>b, <3>1, <3>2, <3>3, RoomKept
  <2>3. Locking'
    BY DEF Types, Locking
  <2>4. ArenaReady'
    BY DEF Types, Locking, ArenaReady
  <2>5. Indexed'
    BY <2>a, <2>b DEF Indexed, OnlyBucket
  <2>6. Stages'
    BY <2>b DEF Types, Stages, OnlyBucket
  <2> QED BY <2>1, <2>2, <2>3, <2>4, <2>5, <2>6
<1>13. ASSUME NEW t \in Thread, ExitLock(t)
      PROVE  Goal
  <2> USE <1>0, <1>a, <1>c, <1>13 DEF ExitLock, Goto, Return, Granted, Hand,
         shared
  <2>1. Types'
    BY DEF Types
  <2>2. Room'
    BY DEF Types, Room
  <2>3. Locking'
    BY DEF Types, Locking
  <2>4. ArenaReady'
    <3>1. PICK i \in Index, b \in Block : b \in local[t][i] /\ b[1] = i
      BY DEF Types, Indexed
    <3>2. b \in Made
      BY <3>1 DEF Where, InHand
    <3>3. ~ \A j \in Index : pages[j] = 0
      BY <3>2 DEF Made
    <3> QED BY <3>3 DEF Types, Locking, ArenaReady
  <2>5. Indexed'
    BY DEF Types, Indexed
  <2>6. Stages'
    BY DEF Types, Stages
  <2> QED BY <2>1, <2>2, <2>3, <2>4, <2>5, <2>6
<1>14. ASSUME NEW t \in Thread, GlobalRetAll(t)
      PROVE  Goal
  <2> USE <1>0, <1>a, <1>c, <1>14
      DEF GlobalRetAll, Goto, Return, Granted, Hand, shared
  <2>1. Types'
    BY DEF Types
  <2>2. Room'
    <3>1. \A j \in Index : IsFiniteSet(global'[j])
      <4> SUFFICES ASSUME NEW j \in Index PROVE IsFiniteSet(global'[j])
        OBVIOUS
      <4>1. IsFiniteSet(global[j]) /\ IsFiniteSet(local[t][j])
        BY DEF Room
      <4>2. global'[j] = global[j] \union local[t][j]
        OBVIOUS
      <4> QED BY <4>1, <4>2, FS_Union
    <3>2. \A u \in Thread, j \in Index :
            local'[u][j] = IF u = t THEN {} ELSE local[u][j]
      BY DEF Types
    <3>3. IsFiniteSet({}) /\ Cardinality({}) = 0
      BY FS_EmptySet, Zenon
    <3>4. \A j \in Index : Cardinality({}) <= MaxStored[j]
      BY <1>b, <3>3
    <3> QED BY <3>1, <3>2, <3>3, <3>4 DEF Room
  <2>3. Locking'
    BY DEF Types, Locking
  <2>4. ArenaReady'
    BY DEF Types, Locking, ArenaReady
  <2>5. Indexed'
    BY DEF Types, Indexed
  <2>6. Stages'
    BY DEF Types, Stages
  <2> QED BY <2>1, <2>2, <2>3, <2>4, <2>5, <2>6
<1>15. ASSUME NEW t \in Thread, ArenaInit(t)
      PROVE  Goal
  <2> USE <1>0, <1>a, <1>15 DEF ArenaInit, Goto, Granted, shared
  <2>1. Types'
    BY DEF Types
  <2>2. Room'
    BY DEF Types, Room
  <2>3. Locking'
    BY DEF Types, Locking
  <2>4. ArenaReady'
    BY DEF Types, Locking, ArenaReady
  <2>5. Indexed'
    BY DEF Types, Indexed
  <2>6. Stages'
    BY DEF Types, Stages
  <2> QED BY <2>1, <2>2, <2>3, <2>4, <2>5, <2>6
<1>16. ASSUME NEW t \in Thread, LocalCut(t)
      PROVE  Goal
  <2> DEFINE i == ix[t]
  <2>0. /\ i \in Index /\ pc[t] = "cut" /\ local[t][i] = {}
        /\ MaxStored[i] \in Nat /\ Count[i] \in Nat /\ Count[i] <= MaxStored[i]
        /\ ptr[t] \in SUBSET Block /\ \A b \in ptr[t] : b[1] = i
        /\ IsFiniteSet(ptr[t]) /\ Cardinality(ptr[t]) <= Count[i]
    BY <1>0, <1>b, <1>16 DEF LocalCut, Types, Stages
  <2>a. PICK first \in ptr[t] :
          /\ live' = [live EXCEPT ![first] = live[first] + 1]
          /\ SetBucket(t, i, local[t][i] \union (ptr[t] \ {first}))
    BY <1>16 DEF LocalCut, Hand, SetBucket, FirstOf
  <2> DEFINE S == ptr[t] \ {first}
  <2>b. /\ UNCHANGED <<global, ready, mutex>> /\ UNCHANGED <<pages, arena>>
        /\ pc' = [pc EXCEPT ![t] = "idle"] /\ ix' = [ix EXCEPT ![t] = 0]
        /\ ptr' = [ptr EXCEPT ![t] = {}] /\ refused' = refused \ {t}
    BY <1>16 DEF LocalCut, Goto, Return, Granted, shared
  <2>c. OnlyBucket(t, i, S)
    <3>1. local[t][i] \union S = S /\ S \in SUBSET Block
      BY <2>0
    <3> QED BY <1>0, <2>0, <2>a, <3>1, BucketSet
  <2>d. first \in Block /\ live[first] = 0
    <3>1. first \in Block /\ InHand(t, first)
      BY <2>0 DEF InHand
    <3> QED BY <1>0, <3>1 DEF Where
  <2> HIDE DEF i
  <2>1. Types'
    <3>1. live' \in [Block -> 0 .. 1]
      BY <1>0, <2>a, <2>d DEF Types
    <3>2. /\ ix' \in [Thread -> Index] /\ ptr' \in [Thread -> SUBSET Block]
          /\ refused' \subseteq Thread
      BY <1>0, <1>c, <2>b DEF Types
    <3> QED BY <1>0, <2>b, <2>c, <3>1, <3>2 DEF Types, OnlyBucket
  <2>2. Room'
    <3>1. Cardinality(ptr[t]) <= MaxStored[i]
      <4>1. Cardinality(ptr[t]) \in Nat
        BY <2>0, FS_CardinalityType
      <4> QED BY <2>0, <4>1
    <3>2. IsFiniteSet(S) /\ Cardinality(S) <= MaxStored[i]
      BY <2>0, <3>1, Taken, Zenon
    <3> QED BY <1>0, <2>0, <2>b, <2>c, <3>2, RoomKept
  <2>3. Locking'
    BY <1>0, <1>a, <1>16, <2>b DEF LocalCut, Types, Locking
  <2>4. ArenaReady'
    BY <1>0, <1>a, <1>16, <2>b DEF LocalCut, Types, Locking, ArenaReady
  <2>5. Indexed'
    BY <1>0, <2>0, <2>b, <2>c DEF Indexed, OnlyBucket
  <2>6. Stages'
    BY <1>0, <2>b, <2>c DEF Types, Stages, OnlyBucket
  <2> QED BY <2>1, <2>2, <2>3, <2>4, <2>5, <2>6
<1>17. ASSUME NEW t \in Thread, Refused(t)
      PROVE  Goal
  <2> USE <1>0, <1>a, <1>17 DEF Refused, Goto, Granted, shared
  <2>1. Types'
    BY DEF Types
  <2>2. Room'
    BY DEF Types, Room
  <2>3. Locking'
    BY DEF Types, Locking
  <2>4. ArenaReady'
    BY DEF Types, Locking, ArenaReady
  <2>5. Indexed'
    BY DEF Types, Indexed
  <2>6. Stages'
    BY DEF Types, Stages
  <2> QED BY <2>1, <2>2, <2>3, <2>4, <2>5, <2>6
<1>18. ASSUME NEW t \in Thread, ArenaLost(t)
      PROVE  Goal
  <2> USE <1>0, <1>a, <1>18 DEF ArenaLost, Goto, Granted, shared
  <2>1. Types'
    BY DEF Types
  <2>2. Room'
    BY DEF Types, Room
  <2>3. Locking'
    BY DEF Types, Locking
  <2>4. ArenaReady'
    BY DEF Types, Locking, ArenaReady
  <2>5. Indexed'
    BY DEF Types, Indexed
  <2>6. Stages'
    BY DEF Types, Stages
  <2> QED BY <2>1, <2>2, <2>3, <2>4, <2>5, <2>6
<1>19. ASSUME NEW t \in Thread, ExitEmpty(t)
      PROVE  Goal
  <2> USE <1>0, <1>a, <1>19 DEF ExitEmpty, Goto, Granted, shared
  <2>1. Types'
    BY DEF Types
  <2>2. Room'
    BY DEF Types, Room
  <2>3. Locking'
    BY DEF Types, Locking
  <2>4. ArenaReady'
    BY DEF Types, Locking, ArenaReady
  <2>5. Indexed'
    BY DEF Types, Indexed
  <2>6. Stages'
    BY DEF Types, Stages
  <2> QED BY <2>1, <2>2, <2>3, <2>4, <2>5, <2>6
<1>20. CASE UNCHANGED vars
  BY <1>0, <1>20
     DEF vars, shared, Types, Room, Locking, ArenaReady, Indexed, Stages
<1> QED BY <1>1, <1>2, <1>3, <1>4, <1>5, <1>6, <1>7, <1>8, <1>9, <1>10, <1>11,
      <1>12, <1>13, <1>14, <1>15, <1>16, <1>17, <1>18, <1>19, <1>20
      DEF AllocNext, Malloc, Free, Exit

(* Where neither the program nor the global arena nor a page is touched    *)
(* and everybody has the same blocks in hand, each block is where it was.  *)
LEMMA WhereKept ==
  ASSUME Where, UNCHANGED <<live, global, pages>>,
         \A u \in Thread, c \in Block : InHand(u, c)' <=> InHand(u, c)
  PROVE  Where'
<1>1. Made' = Made
  BY DEF Made
<1> QED BY <1>1, Zenon DEF Where

(* Who has a block in its bucket, and is not at freeing another, hands it  *)
(* to the program.                                                         *)
LEMMA WhereHanded ==
  ASSUME Where, Types, UNCHANGED <<global, pages>>, NEW t \in Thread,
         NEW b \in Block, InHand(t, b), live' = [live EXCEPT ![b] = @ + 1],
         \A u \in Thread, c \in Block :
           InHand(u, c)' <=> InHand(u, c) /\ ~(u = t /\ c = b)
  PROVE  Where'
<1>1. Made' = Made
  BY DEF Made
<1>2. /\ live'[b] = 1 /\ \A c \in Block \ {b} : live'[c] = live[c]
      /\ live[b] = 0 /\ b \notin global[b[1]]
      /\ \A u \in Thread : InHand(u, b) => u = t
  BY DEF Where, Types
<1>3. \A c \in Block \ {b}, u \in Thread : InHand(u, c)' <=> InHand(u, c)
  OBVIOUS
<1>4. \A u \in Thread : ~ InHand(u, b)'
  BY <1>2
<1>5. b \in Made
  BY DEF Where
<1> QED BY <1>1, <1>2, <1>3, <1>4, <1>5 DEF Where

(* Every step moves a block from one place to one place.                   *)
LEMMA WhereStep ==
  ASSUME IInv, [AllocNext]_vars
  PROVE  Where'
<1>0. Types /\ Indexed /\ Stages /\ Where
  BY DEF IInv, Shape
<1>b. \A b \in Block : b[1] \in Index
  BY <1>0, BlockFacts
<1>1. ASSUME NEW t \in Thread, NEW i \in Index, LocalGet(t, i)
      PROVE  Where'
  <2>1. PICK b \in local[t][i] :
          /\ SetBucket(t, i, local[t][i] \ {b})
          /\ live' = [live EXCEPT ![b] = @ + 1]
    BY <1>1 DEF LocalGet, Hand, SetBucket
  <2>2. b \in Block /\ b[1] = i /\ local[t][i] \ {b} \in SUBSET Block
    BY <1>0 DEF Types, Indexed
  <2>3. OnlyBucket(t, i, local[t][i] \ {b})
    BY <1>0, <2>1, <2>2, BucketSet
  <2>4. /\ UNCHANGED <<global, pages, pc, ix, ptr>>
        /\ pc[t] = "idle" /\ ptr[t] = {}
    BY <1>0, <1>1 DEF LocalGet, Stages, shared
  <2>5. InHand(t, b)
    BY <2>2, <2>4 DEF InHand
  <2>6. \A u \in Thread, c \in Block :
          InHand(u, c)' <=> InHand(u, c) /\ ~(u = t /\ c = b)
    BY <1>b, <2>2, <2>3, <2>4 DEF InHand, OnlyBucket
  <2> QED BY <1>0, <2>1, <2>2, <2>4, <2>5, <2>6, WhereHanded
<1>2. ASSUME NEW t \in Thread, NEW i \in Index, LocalEmpty(t, i)
      PROVE  Where'
  <2>1. /\ UNCHANGED <<local, live, global, pages, ptr>>
        /\ \A u \in Thread : /\ u # t => pc'[u] = pc[u] /\ ix'[u] = ix[u]
                             /\ pc'[u] = "clear" <=> pc[u] = "clear"
        /\ pc[t] # "clear"
    BY <1>0, <1>2 DEF LocalEmpty, Goto, Return, Types, shared
  <2>2. \A u \in Thread, c \in Block : InHand(u, c)' <=> InHand(u, c)
    BY <2>1 DEF InHand
  <2> QED BY <1>0, <2>1, <2>2, WhereKept
<1>3. ASSUME NEW t \in Thread, TryLock(t)
      PROVE  Where'
  <2>1. /\ UNCHANGED <<local, live, global, pages, ptr>>
        /\ \A u \in Thread : /\ u # t => pc'[u] = pc[u] /\ ix'[u] = ix[u]
                             /\ pc'[u] = "clear" <=> pc[u] = "clear"
        /\ pc[t] # "clear"
    BY <1>0, <1>3 DEF TryLock, Goto, Return, Types, shared
  <2>2. \A u \in Thread, c \in Block : InHand(u, c)' <=> InHand(u, c)
    BY <2>1 DEF InHand
  <2> QED BY <1>0, <2>1, <2>2, WhereKept
<1>4. ASSUME NEW t \in Thread, GlobalArenaInit(t)
      PROVE  Where'
  <2>1. /\ UNCHANGED <<local, live, global, pages, ptr>>
        /\ \A u \in Thread : /\ u # t => pc'[u] = pc[u] /\ ix'[u] = ix[u]
                             /\ pc'[u] = "clear" <=> pc[u] = "clear"
        /\ pc[t] # "clear"
    BY <1>0, <1>4 DEF GlobalArenaInit, Goto, Return, Types, shared
  <2>2. \A u \in Thread, c \in Block : InHand(u, c)' <=> InHand(u, c)
    BY <2>1 DEF InHand
  <2> QED BY <1>0, <2>1, <2>2, WhereKept
<1>5. ASSUME NEW t \in Thread, GlobalGet(t)
      PROVE  Where'
  <2> DEFINE i == ix[t]
  <2>1. PICK up \in SUBSET global[i] :
          /\ global' = [global EXCEPT ![i] = global[i] \ up]
          /\ SetBucket(t, i, local[t][i] \union up)
    BY <1>5 DEF GlobalGet, SetBucket
  <2>2. /\ i \in Index /\ up \in SUBSET Block
        /\ local[t][i] = {} /\ ptr[t] = {}
        /\ \A c \in up : c[1] = i
        /\ pc[t] = "move" /\ UNCHANGED <<live, pages, ix, ptr>>
    <3>1. /\ i \in Index /\ up \in SUBSET Block /\ \A c \in up : c[1] = i
      BY <1>0, <1>5 DEF Types, Indexed
    <3>2. pc[t] = "move" /\ UNCHANGED <<live, pages, ix, ptr>>
      BY <1>5 DEF GlobalGet
    <3> QED BY <1>0, <3>1, <3>2 DEF Stages
  <2>3. \A u \in Thread : pc'[u] = "clear" <=> pc[u] = "clear"
    BY <1>0, <1>5 DEF GlobalGet, Goto, Types
  <2>4. OnlyBucket(t, i, up)
    <3>1. local[t][i] \union up = up
      BY <2>2
    <3> QED BY <1>0, <2>1, <2>2, <3>1, BucketSet
  <2> HIDE DEF i
  <2>5. \A c \in Block :
          c \in global'[c[1]] <=> c \in global[c[1]] /\ c \notin up
    BY <1>0, <1>b, <2>1, <2>2 DEF Types
  <2>6. \A u \in Thread, c \in Block :
          InHand(u, c)' <=> InHand(u, c) \/ (u = t /\ c \in up)
    BY <1>b, <2>2, <2>3, <2>4 DEF InHand, OnlyBucket
  <2>7. Made' = Made
    BY <2>2 DEF Made
  <2>8. \A c \in up : c \in global[c[1]]
    BY <2>2
  <2> QED BY <1>0, <2>2, <2>5, <2>6, <2>7, <2>8 DEF Where
<1>6. ASSUME NEW t \in Thread, GlobalGot(t)
      PROVE  Where'
  <2> DEFINE i == ix[t]
  <2>1. /\ i \in Index /\ pc[t] = "moved" /\ ptr[t] = {}
        /\ UNCHANGED <<global, pages, ptr>>
        /\ \A u \in Thread \ {t} : ix'[u] = ix[u]
    BY <1>0, <1>6 DEF GlobalGot, Return, Types, Stages
  <2>2. \/ Goto(t, "make") /\ UNCHANGED <<local, live>>
        \/ \E b \in local[t][i] : /\ SetBucket(t, i, local[t][i] \ {b})
                                  /\ live' = [live EXCEPT ![b] = @ + 1]
                                  /\ Goto(t, "idle")
    BY <1>6 DEF GlobalGot, Return, Hand, SetBucket
  <2> HIDE DEF i
  <2>3. CASE Goto(t, "make") /\ UNCHANGED <<local, live>>
    <3>1. \A u \in Thread : pc'[u] = "clear" <=> pc[u] = "clear"
      BY <1>0, <2>1, <2>3 DEF Goto, Types
    <3>2. \A u \in Thread, c \in Block : InHand(u, c)' <=> InHand(u, c)
      BY <2>1, <2>3, <3>1 DEF InHand
    <3> QED BY <1>0, <2>1, <2>3, <3>2, WhereKept
  <2>4. ASSUME NEW b \in local[t][i], SetBucket(t, i, local[t][i] \ {b}),
               live' = [live EXCEPT ![b] = @ + 1], Goto(t, "idle")
        PROVE  Where'
    <3>1. b \in Block /\ b[1] = i /\ local[t][i] \ {b} \in SUBSET Block
      BY <1>0, <2>1 DEF Types, Indexed
    <3>2. OnlyBucket(t, i, local[t][i] \ {b})
      BY <1>0, <2>1, <2>4, <3>1, BucketSet
    <3>3. \A u \in Thread : pc'[u] = "clear" <=> pc[u] = "clear"
      BY <1>0, <2>1, <2>4 DEF Goto, Types
    <3>4. InHand(t, b)
      BY <2>1, <3>1 DEF InHand
    <3>5. \A u \in Thread, c \in Block :
            InHand(u, c)' <=> InHand(u, c) /\ ~(u = t /\ c = b)
      BY <1>b, <2>1, <3>1, <3>2, <3>3 DEF InHand, OnlyBucket
    <3> QED BY <1>0, <2>1, <2>4, <3>1, <3>4, <3>5, WhereHanded
  <2> QED BY <2>2, <2>3, <2>4
<1>7. ASSUME NEW t \in Thread, LocalMake(t)
      PROVE  Where'
  <2> DEFINE i == ix[t]
             page == Page(i, pages[i])
  <2>1. /\ i \in Index /\ pc[t] = "make" /\ pages[i] < MaxPages
        /\ pages[i] \in Nat /\ ptr[t] = {}
    <3>1. /\ i \in Index /\ pc[t] = "make" /\ pages[i] < MaxPages
          /\ pages[i] \in Nat
      BY <1>0, <1>7 DEF LocalMake, Types
    <3> QED BY <1>0, <3>1 DEF Stages
  <2>2. /\ pages' = [pages EXCEPT ![i] = @ + 1]
        /\ ptr' = [ptr EXCEPT ![t] = page]
        /\ UNCHANGED <<global, ix, local, live>> /\ Goto(t, "cut")
    BY <1>7 DEF LocalMake, shared
  <2>3. /\ Made' = Made \cup page /\ Made \cap page = {}
        /\ page \in SUBSET Block
    BY <1>0, <2>1, <2>2, MadeGrows
  <2> HIDE DEF i, page
  <2>5. /\ \A u \in Thread : pc'[u] = "clear" <=> pc[u] = "clear"
        /\ ptr'[t] = page /\ \A u \in Thread \ {t} : ptr'[u] = ptr[u]
    BY <1>0, <2>1, <2>2 DEF Goto, Types
  <2>6. \A u \in Thread, c \in Block :
          InHand(u, c)' <=> InHand(u, c) \/ (u = t /\ c \in page)
    BY <2>1, <2>2, <2>5 DEF InHand
  <2>7. \A c \in page : /\ live[c] = 0 /\ c \notin global[c[1]]
                        /\ \A u \in Thread : ~ InHand(u, c)
    <3>1. \A c \in page : live[c] # 1 /\ live[c] \in 0 .. 1
      BY <1>0, <2>3 DEF Where, Types
    <3> QED BY <1>0, <2>3, <3>1 DEF Where
  <2> QED BY <1>0, <2>2, <2>3, <2>6, <2>7 DEF Where
<1>8. ASSUME NEW t \in Thread, MakeFails(t)
      PROVE  Where'
  <2>1. /\ UNCHANGED <<local, live, global, pages, ptr>>
        /\ \A u \in Thread : /\ u # t => pc'[u] = pc[u] /\ ix'[u] = ix[u]
                             /\ pc'[u] = "clear" <=> pc[u] = "clear"
        /\ pc[t] # "clear"
    BY <1>0, <1>8 DEF MakeFails, Goto, Return, Types, shared
  <2>2. \A u \in Thread, c \in Block : InHand(u, c)' <=> InHand(u, c)
    BY <2>1 DEF InHand
  <2> QED BY <1>0, <2>1, <2>2, WhereKept
<1>9. ASSUME NEW t \in Thread, NEW b \in Block, RetNode(t, b)
      PROVE  Where'
  <2>1. /\ pc[t] = "idle" /\ live[b] = 1 /\ ptr[t] = {} /\ b[1] \in Index
        /\ b \in Made
    <3>1. pc[t] = "idle" /\ live[b] = 1
      BY <1>0, <1>9 DEF RetNode, Types
    <3> QED BY <1>0, <1>b, <3>1 DEF Where, Stages
  <2>2. UNCHANGED <<global, pages>> /\ live' = [live EXCEPT ![b] = 0]
    BY <1>0, <1>9, <2>1 DEF RetNode, Types, shared
  <2>3. \/ /\ ptr' = [ptr EXCEPT ![t] = {b}]
           /\ pc' = [pc EXCEPT ![t] = "ret"] /\ local' = local
           /\ ix' = [ix EXCEPT ![t] = b[1]]
        \/ /\ SetBucket(t, b[1], local[t][b[1]] \union {b})
           /\ ptr' = ptr /\ pc' = pc /\ ix' = ix
    BY <1>9 DEF RetNode, Goto, SetBucket
  <2>4. \A u \in Thread, c \in Block :
          InHand(u, c)' <=> InHand(u, c) \/ (u = t /\ c = b)
    <3>1. CASE /\ ptr' = [ptr EXCEPT ![t] = {b}]
               /\ pc' = [pc EXCEPT ![t] = "ret"] /\ local' = local
               /\ ix' = [ix EXCEPT ![t] = b[1]]
      <4>1. /\ ptr'[t] = {b} /\ pc'[t] = "ret"
            /\ \A u \in Thread \ {t} : /\ ptr'[u] = ptr[u] /\ pc'[u] = pc[u]
                                       /\ ix'[u] = ix[u]
        BY <1>0, <3>1 DEF Types
      <4> QED BY <2>1, <3>1, <4>1 DEF InHand
    <3>2. CASE /\ SetBucket(t, b[1], local[t][b[1]] \union {b})
               /\ ptr' = ptr /\ pc' = pc /\ ix' = ix
      <4>1. local[t][b[1]] \union {b} \in SUBSET Block
        BY <1>0, <2>1 DEF Types
      <4>2. OnlyBucket(t, b[1], local[t][b[1]] \union {b})
        BY <1>0, <2>1, <3>2, <4>1, BucketSet
      <4>4. \A u \in Thread, c \in Block : c \in local'[u][c[1]] <=>
              c \in local[u][c[1]] \/ (u = t /\ c = b)
        <5>1. ASSUME NEW c \in local[t][b[1]] PROVE c[1] = b[1]
          BY <1>0, <2>1 DEF Indexed
        <5> QED BY <1>b, <4>2, <5>1 DEF OnlyBucket
      <4> QED BY <2>1, <3>2, <4>4 DEF InHand
    <3> QED BY <2>3, <3>1, <3>2
  <2>5. Made' = Made
    BY <2>2 DEF Made
  <2>6. live'[b] = 0 /\ \A c \in Block \ {b} : live'[c] = live[c]
    BY <1>0, <2>2 DEF Types
  <2>7. b \notin global[b[1]] /\ \A u \in Thread : ~ InHand(u, b)
    BY <1>0, <2>1 DEF Where
  <2> QED BY <1>0, <2>1, <2>2, <2>4, <2>5, <2>6, <2>7 DEF Where
<1>10. ASSUME NEW t \in Thread, RetLock(t)
      PROVE  Where'
  <2>1. /\ UNCHANGED <<local, live, global, pages, ptr>>
        /\ \A u \in Thread : /\ u # t => pc'[u] = pc[u] /\ ix'[u] = ix[u]
                             /\ pc'[u] = "clear" <=> pc[u] = "clear"
        /\ pc[t] # "clear"
    BY <1>0, <1>10 DEF RetLock, Goto, Return, Types, shared
  <2>2. \A u \in Thread, c \in Block : InHand(u, c)' <=> InHand(u, c)
    BY <2>1 DEF InHand
  <2> QED BY <1>0, <2>1, <2>2, WhereKept
<1>11. ASSUME NEW t \in Thread, GlobalRet(t)
      PROVE  Where'
  <2> DEFINE i == ix[t]
             S == local[t][i]
  <2>1. /\ i \in Index /\ pc[t] = "retpush" /\ S \in SUBSET Block
        /\ UNCHANGED <<local, live, pages, ix, ptr>>
        /\ \A c \in S : c[1] = i /\ c \notin ptr[t]
    <3>1. /\ i \in Index /\ pc[t] = "retpush" /\ S \in SUBSET Block
          /\ UNCHANGED <<local, live, pages, ix, ptr>>
      BY <1>0, <1>11 DEF GlobalRet, Types
    <3> QED BY <1>0, <3>1 DEF Stages, Indexed
  <2>2. \A c \in Block : c \in global'[c[1]] <=> c \in global[c[1]] \/ c \in S
    <3>1. global' = [global EXCEPT ![i] = @ \union S]
      BY <1>11 DEF GlobalRet
    <3>2. \A c \in S : c[1] = i
      BY <2>1
    <3> HIDE DEF S, i
    <3> QED BY <1>0, <1>b, <2>1, <3>1, <3>2 DEF Types
  <2>3. pc'[t] = "clear" /\ \A u \in Thread \ {t} : pc'[u] = pc[u]
    BY <1>0, <1>11 DEF GlobalRet, Goto, Types
  <2>4. \A c \in S : InHand(t, c)
    BY <2>1 DEF InHand
  <2>5. \A u \in Thread, c \in Block :
          InHand(u, c)' <=> InHand(u, c) /\ ~(u = t /\ c \in S)
    BY <2>1, <2>3 DEF InHand
  <2>6. Made' = Made
    BY <2>1 DEF Made
  <2> HIDE DEF S
  <2> QED BY <1>0, <2>1, <2>2, <2>4, <2>5, <2>6 DEF Where
<1>12. ASSUME NEW t \in Thread, RetClear(t)
      PROVE  Where'
  <2>1. /\ ix[t] \in Index /\ ptr[t] \in SUBSET Block /\ pc[t] = "clear"
        /\ SetBucket(t, ix[t], ptr[t]) /\ UNCHANGED <<global, live, pages>>
        /\ \A c \in ptr[t] : c[1] = ix[t]
    <3>1. /\ ix[t] \in Index /\ ptr[t] \in SUBSET Block /\ pc[t] = "clear"
          /\ SetBucket(t, ix[t], ptr[t])
          /\ UNCHANGED <<global, live, pages>>
      BY <1>0, <1>12 DEF RetClear, Types, SetBucket, shared
    <3> QED BY <1>0, <3>1 DEF Stages
  <2>2. OnlyBucket(t, ix[t], ptr[t])
    BY <1>0, <2>1, BucketSet
  <2>3. /\ ptr'[t] = {} /\ pc'[t] = "idle"
        /\ \A u \in Thread \ {t} : /\ ptr'[u] = ptr[u] /\ pc'[u] = pc[u]
                                   /\ ix'[u] = ix[u]
    BY <1>0, <1>12 DEF RetClear, Goto, Return, Types
  <2>4. \A u \in Thread, c \in Block : InHand(u, c)' <=> InHand(u, c)
    BY <1>b, <2>1, <2>2, <2>3 DEF InHand, OnlyBucket
  <2> QED BY <1>0, <2>1, <2>4, WhereKept
<1>13. ASSUME NEW t \in Thread, ExitLock(t)
      PROVE  Where'
  <2>1. /\ UNCHANGED <<local, live, global, pages, ptr>>
        /\ \A u \in Thread : /\ u # t => pc'[u] = pc[u] /\ ix'[u] = ix[u]
                             /\ pc'[u] = "clear" <=> pc[u] = "clear"
        /\ pc[t] # "clear"
    BY <1>0, <1>13 DEF ExitLock, Goto, Return, Types, shared
  <2>2. \A u \in Thread, c \in Block : InHand(u, c)' <=> InHand(u, c)
    BY <2>1 DEF InHand
  <2> QED BY <1>0, <2>1, <2>2, WhereKept
<1>14. ASSUME NEW t \in Thread, GlobalRetAll(t)
      PROVE  Where'
  <2>1. /\ pc[t] = "exit" /\ ptr[t] = {} /\ UNCHANGED <<live, pages, ix, ptr>>
        /\ \A j \in Index : global'[j] = global[j] \union local[t][j]
        /\ \A j \in Index : local'[t][j] = {}
        /\ \A u \in Thread \ {t} : local'[u] = local[u] /\ pc'[u] = pc[u]
        /\ pc'[t] = "idle"
    BY <1>0, <1>14 DEF GlobalRetAll, Goto, Types, Stages
  <2>2. \A c \in Block :
          c \in global'[c[1]] <=> c \in global[c[1]] \/ InHand(t, c)
    BY <1>b, <2>1 DEF InHand
  <2>3. \A u \in Thread, c \in Block : InHand(u, c)' <=> InHand(u, c) /\ u # t
    BY <1>b, <2>1 DEF InHand
  <2>4. Made' = Made
    BY <2>1 DEF Made
  <2> QED BY <1>0, <2>1, <2>2, <2>3, <2>4 DEF Where
<1>15. ASSUME NEW t \in Thread, ArenaInit(t)
      PROVE  Where'
  <2>1. /\ UNCHANGED <<local, live, global, pages, ptr, ix>>
        /\ \A u \in Thread : pc'[u] = "clear" <=> pc[u] = "clear"
    BY <1>0, <1>15 DEF ArenaInit, Goto, Types, shared
  <2>2. \A u \in Thread, c \in Block : InHand(u, c)' <=> InHand(u, c)
    BY <2>1 DEF InHand
  <2> QED BY <1>0, <2>1, <2>2, WhereKept
<1>16. ASSUME NEW t \in Thread, LocalCut(t)
      PROVE  Where'
  <2> DEFINE i == ix[t]
  <2>1. /\ i \in Index /\ pc[t] = "cut" /\ local[t][i] = {}
        /\ ptr[t] \in SUBSET Block /\ \A c \in ptr[t] : c[1] = i
        /\ UNCHANGED <<global, pages>>
    BY <1>0, <1>16 DEF LocalCut, Types, Stages, shared
  <2>2. PICK first \in ptr[t] :
          /\ live' = [live EXCEPT ![first] = @ + 1]
          /\ SetBucket(t, i, local[t][i] \union (ptr[t] \ {first}))
    BY <1>16 DEF LocalCut, Hand, SetBucket, FirstOf
  <2> DEFINE S == ptr[t] \ {first}
  <2>3. OnlyBucket(t, i, S)
    <3>1. local[t][i] \union S = S /\ S \in SUBSET Block
      BY <2>1
    <3> QED BY <1>0, <2>1, <2>2, <3>1, BucketSet
  <2>4. /\ pc'[t] = "idle" /\ ptr'[t] = {}
        /\ \A u \in Thread \ {t} : /\ ptr'[u] = ptr[u] /\ pc'[u] = pc[u]
                                   /\ ix'[u] = ix[u]
    BY <1>0, <1>16 DEF LocalCut, Goto, Return, Types
  <2>5. first \in Block /\ InHand(t, first)
    BY <2>1 DEF InHand
  <2> HIDE DEF i
  <2>6. \A u \in Thread, c \in Block :
          InHand(u, c)' <=> InHand(u, c) /\ ~(u = t /\ c = first)
    BY <1>b, <2>1, <2>3, <2>4 DEF InHand, OnlyBucket
  <2> QED BY <1>0, <2>1, <2>2, <2>5, <2>6, WhereHanded
<1>17. ASSUME NEW t \in Thread, Refused(t)
      PROVE  Where'
  <2>1. /\ UNCHANGED <<local, live, global, pages, ptr, ix>>
        /\ \A u \in Thread : pc'[u] = "clear" <=> pc[u] = "clear"
    BY <1>0, <1>17 DEF Refused, Goto, Types, shared
  <2>2. \A u \in Thread, c \in Block : InHand(u, c)' <=> InHand(u, c)
    BY <2>1 DEF InHand
  <2> QED BY <1>0, <2>1, <2>2, WhereKept
<1>18. ASSUME NEW t \in Thread, ArenaLost(t)
      PROVE  Where'
  <2>1. /\ UNCHANGED <<local, live, global, pages, ptr, ix>>
        /\ \A u \in Thread : pc'[u] = "clear" <=> pc[u] = "clear"
    BY <1>0, <1>18 DEF ArenaLost, Goto, Types, shared
  <2>2. \A u \in Thread, c \in Block : InHand(u, c)' <=> InHand(u, c)
    BY <2>1 DEF InHand
  <2> QED BY <1>0, <2>1, <2>2, WhereKept
<1>19. ASSUME NEW t \in Thread, ExitEmpty(t)
      PROVE  Where'
  <2>1. /\ UNCHANGED <<local, live, global, pages, ptr, ix>>
        /\ \A u \in Thread : pc'[u] = "clear" <=> pc[u] = "clear"
    BY <1>0, <1>19 DEF ExitEmpty, Goto, Types, shared
  <2>2. \A u \in Thread, c \in Block : InHand(u, c)' <=> InHand(u, c)
    BY <2>1 DEF InHand
  <2> QED BY <1>0, <2>1, <2>2, WhereKept
<1>20. CASE UNCHANGED vars
  <2>1. \A u \in Thread, c \in Block : InHand(u, c)' <=> InHand(u, c)
    BY <1>20 DEF vars, shared, InHand
  <2> QED BY <1>0, <1>20, <2>1, WhereKept DEF vars, shared
<1> QED BY <1>1, <1>2, <1>3, <1>4, <1>5, <1>6, <1>7, <1>8, <1>9, <1>10, <1>11,
      <1>12, <1>13, <1>14, <1>15, <1>16, <1>17, <1>18, <1>19, <1>20
      DEF AllocNext, Malloc, Free, Exit

(* At the start nothing is made and nobody is inside.                      *)
LEMMA InvInit ==
  ASSUME AllocInit
  PROVE  IInv
<1>1. /\ NBucket \in Nat \ {0} /\ MaxPages \in Nat /\ None \notin Thread
      /\ \A i \in Index : MaxStored[i] \in Nat
  BY AllocAssumption, NobodyIsNone
<1>2. IsFiniteSet({}) /\ Cardinality({}) = 0
  BY FS_EmptySet, Zenon
<1> USE <1>1, <1>2 DEF AllocInit
<1>3. Types
  BY DEF Types, Index
<1>4. Room
  BY DEF Room
<1>5. Locking /\ ArenaReady
  BY DEF Locking, ArenaReady
<1>6. Indexed /\ Stages
  <2>1. \A t \in Thread : ix[t] \in Index
    BY <1>3 DEF Types
  <2> QED BY <2>1 DEF Indexed, Stages
<1>7. Made = {}
  BY DEF Made
<1>8. \A t \in Thread, b \in Block : ~ InHand(t, b)
  BY <1>3, BlockFacts DEF InHand
<1>9. \A b \in Block : b[1] \in Index
  BY <1>3, BlockFacts
<1>10. Where
  BY <1>7, <1>8, <1>9 DEF Where
<1> QED BY <1>3, <1>4, <1>5, <1>6, <1>10 DEF IInv, Shape

(* It holds at the start and every step keeps it.                          *)
THEOREM Invariance == AllocSpec => []IInv
<1>1. IInv /\ [AllocNext]_vars => IInv'
  BY ShapeStep, WhereStep DEF IInv
<1> QED BY <1>1, InvInit, PTL DEF AllocSpec

(* Block by block, a thread can hand out what OnePlace says it can.        *)
LEMMA UsableInHand ==
  ASSUME IInv, NEW t \in Thread
  PROVE  /\ Usable(t) \subseteq Block
         /\ \A b \in Block : b \in Usable(t) <=> InHand(t, b)
<1>1. Types /\ Indexed /\ \A b \in Block : b[1] \in Index
  BY BlockFacts DEF IInv, Shape
<1>2. Usable(t) \subseteq Block
  BY <1>1 DEF Usable, Types
<1>3. ASSUME NEW b \in Block
      PROVE  b \in Usable(t) <=> InHand(t, b)
  <2>1. b \in Usable(t) <=>
          \/ b \in ptr[t]
          \/ \E i \in Index : /\ ~(pc[t] = "clear" /\ ix[t] = i)
                              /\ b \in local[t][i]
    BY DEF Usable
  <2>2. \A i \in Index : b \in local[t][i] => b[1] = i
    BY <1>1 DEF Indexed
  <2> QED BY <1>1, <2>1, <2>2 DEF InHand
<1> QED BY <1>2, <1>3

(* A block is held by the program, or in one thread's hands, or in the     *)
(* global arena, and never lost; buckets keep their bounds; and the global *)
(* arena is built before anybody pushes to it.                             *)
THEOREM BlocksInOnePlace == AllocSpec => []OnePlace
<1>1. ASSUME IInv PROVE OnePlace
  <2>1. /\ Types /\ Room /\ ArenaReady /\ Indexed /\ Where
        /\ \A b \in Block : b[1] \in Index
        /\ Made \subseteq Block
    BY <1>1, BlockFacts DEF IInv, Shape
  <2>2. TypeOK
    BY <2>1 DEF TypeOK, Types, Room
  <2>3. GlobalReady
    BY <2>1 DEF GlobalReady, ArenaReady
  <2>4. /\ GlobalFree \subseteq Block
        /\ \A b \in Block : b \in GlobalFree <=> b \in global[b[1]]
    BY <2>1 DEF GlobalFree, Types, Indexed
  <2>5. Live = {b \in Block : live[b] = 1}
    BY <2>1 DEF Live, Types
  <2>6. \A t \in Thread :
          /\ Usable(t) \subseteq Block
          /\ \A b \in Block : b \in Usable(t) <=> InHand(t, b)
    BY <1>1, UsableInHand
  <2>7. NoneLost
    BY <2>1, <2>4, <2>5, <2>6 DEF NoneLost, Where
  <2>8. Live \intersect GlobalFree = {}
    BY <2>1, <2>4, <2>5 DEF Where
  <2>9. ASSUME NEW t \in Thread
        PROVE  /\ Usable(t) \intersect (Live \union GlobalFree) = {}
               /\ \A u \in Thread \ {t} : Usable(t) \intersect Usable(u) = {}
    BY <2>1, <2>4, <2>5, <2>6 DEF Where
  <2> QED BY <2>2, <2>3, <2>7, <2>8, <2>9 DEF OnePlace
<1> QED BY <1>1, Invariance, PTL

(* A step of the allocator is one of the pool, or none that it sees.       *)
LEMMA PoolStep ==
  ASSUME IInv, [AllocNext]_vars
  PROVE  [Pool!PoolNext]_live
<1>0. Types /\ Indexed /\ Stages /\ Where /\ \A b \in Block : b[1] \in Index
  BY BlockFacts DEF IInv, Shape
<1>1. ASSUME NEW b \in Block, live[b] = 0, Hand(b)
      PROVE  Pool!PoolNext
  <2>1. live' = [live EXCEPT ![b] = 1]
    BY <1>0, <1>1 DEF Hand, Types
  <2> QED BY <1>1, <2>1 DEF Pool!PoolNext, Pool!Get
<1>2. ASSUME NEW t \in Thread, NEW i \in Index, NEW b \in local[t][i],
             pc[t] # "clear"
      PROVE  b \in Block /\ live[b] = 0
  BY <1>0, <1>2 DEF Types, Indexed, Where, InHand
<1>3. ASSUME NEW t \in Thread, NEW i \in Index, LocalGet(t, i)
      PROVE  Pool!PoolNext
  BY <1>1, <1>2, <1>3 DEF LocalGet
<1>4. ASSUME NEW t \in Thread, GlobalGot(t)
      PROVE  [Pool!PoolNext]_live
  <2>1. ix[t] \in Index /\ pc[t] # "clear"
    BY <1>0, <1>4 DEF GlobalGot, Types
  <2>2. live' = live \/ \E b \in local[t][ix[t]] : Hand(b)
    BY <1>4 DEF GlobalGot
  <2> QED BY <1>1, <1>2, <2>1, <2>2
<1>5. ASSUME NEW t \in Thread, LocalCut(t)
      PROVE  Pool!PoolNext
  <2>1. PICK first \in ptr[t] : Hand(first)
    BY <1>5 DEF LocalCut, FirstOf
  <2>2. first \in Block
    BY <1>0, <1>5 DEF LocalCut, Types
  <2>3. live[first] = 0
    BY <1>0, <1>5, <2>2 DEF Where, InHand
  <2> QED BY <1>1, <2>1, <2>2, <2>3
<1>6. ASSUME NEW t \in Thread, NEW b \in Block, RetNode(t, b)
      PROVE  Pool!PoolNext
  <2>1. live[b] = 1
    BY <1>0, <1>6 DEF RetNode, Types
  <2>2. live' = [live EXCEPT ![b] = 0]
    BY <1>0, <1>6, <2>1 DEF RetNode, Types
  <2> QED BY <2>1, <2>2 DEF Pool!PoolNext, Pool!Return
<1>7. ASSUME NEW t \in Thread,
             \/ \E i \in Index : LocalEmpty(t, i)
             \/ ArenaInit(t) \/ TryLock(t) \/ GlobalArenaInit(t)
             \/ GlobalGet(t) \/ LocalMake(t) \/ MakeFails(t)
             \/ Refused(t) \/ ArenaLost(t)
             \/ RetLock(t) \/ GlobalRet(t) \/ RetClear(t)
             \/ ExitLock(t) \/ GlobalRetAll(t) \/ ExitEmpty(t)
      PROVE  live' = live
  BY <1>7 DEF LocalEmpty, ArenaInit, TryLock, GlobalArenaInit, GlobalGet,
       LocalMake, MakeFails, Refused, ArenaLost, RetLock, GlobalRet, RetClear,
       ExitLock, GlobalRetAll, ExitEmpty
<1>8. CASE UNCHANGED vars
  BY <1>8 DEF vars
<1> QED BY <1>3, <1>4, <1>5, <1>6, <1>7, <1>8
        DEF AllocNext, Malloc, Free, Exit

(* What callers see is a pool of blocks none of which is handed out twice, *)
(* however many threads allocate and whatever the kernel refuses.          *)
THEOREM AllocImplementsPool == AllocSpec => ImplementsPool
<1>1. AllocInit => Pool!PoolInit
  BY DEF AllocInit, Pool!PoolInit
<1>2. IInv /\ [AllocNext]_vars => [Pool!PoolNext]_live
  BY PoolStep
<1> QED BY <1>1, <1>2, Invariance, PTL
        DEF AllocSpec, ImplementsPool, Pool!PoolSpec
=============================================================================
