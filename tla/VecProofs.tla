----------------------------- MODULE VecProofs -----------------------------
(* What VecRm returns, for every vector and every set of selected elements. *)
EXTENDS Vec, Integers, FiniteSetTheorems, SequenceTheorems, TLAPS

(* Every non-empty set of naturals has a least element.                    *)
LEMMA LeastNatural ==
  ASSUME NEW T \in SUBSET Nat, T # {}
  PROVE  \E x \in T : \A y \in T : x <= y
<1> DEFINE R == {p \in Nat \X Nat : p[1] < p[2]}
<1>1. IsWellFoundedOn(R, Nat)
  <2>1. R = OpToRel(<, Nat)
    BY DEF OpToRel
  <2> QED BY <2>1, NatLessThanWellFounded
<1>2. \E x \in T : \A y \in T : ~ (<<y, x>> \in R)
  <2> HIDE DEF R
  <2> QED BY <1>1, WFMin
<1>3. ASSUME NEW x \in T, \A y \in T : ~ (<<y, x>> \in R), NEW y \in T
      PROVE  x <= y
  <2>1. x \in Nat /\ y \in Nat
    BY DEF R
  <2>2. <<y, x>> \in R <=> y < x
    BY <2>1 DEF R
  <2> QED BY <1>3, <2>1, <2>2
<1> HIDE DEF R
<1> QED BY <1>2, <1>3

(* The elements of K up to i, and how their number grows with i.           *)
UpTo(K, i) == {j \in K : j <= i}

(* From none at 0 to all of K at n, one position more at every element.    *)
LEMMA UpToGrows ==
  ASSUME NEW n \in Nat, NEW K \in SUBSET (1 .. n)
  PROVE  /\ IsFiniteSet(K) /\ Cardinality(K) \in 0 .. n
         /\ \A i \in 0 .. n : Cardinality(UpTo(K, i)) \in Nat
         /\ UpTo(K, n) = K
         /\ Cardinality(UpTo(K, 0)) = 0
         /\ \A i \in 1 .. n : Cardinality(UpTo(K, i)) =
               Cardinality(UpTo(K, i - 1)) + (IF i \in K THEN 1 ELSE 0)
<1>1. IsFiniteSet(1 .. n) /\ Cardinality(1 .. n) = n
  BY FS_Interval
<1>2. IsFiniteSet(K) /\ Cardinality(K) <= n
  BY <1>1, FS_Subset
<1>3. Cardinality(K) \in Nat
  BY <1>2, FS_CardinalityType
<1>4. \A i : IsFiniteSet(UpTo(K, i)) /\ Cardinality(UpTo(K, i)) \in Nat
  <2> TAKE i
  <2>1. UpTo(K, i) \in SUBSET K
    BY DEF UpTo
  <2> QED BY <2>1, <1>2, FS_Subset, FS_CardinalityType
<1>5. UpTo(K, n) = K /\ UpTo(K, 0) = {}
  <2>1. \A j \in K : j <= n /\ ~ (j <= 0)
    OBVIOUS
  <2> QED BY <2>1, Zenon DEF UpTo
<1>6. ASSUME NEW i \in 1 .. n
      PROVE  Cardinality(UpTo(K, i)) =
               Cardinality(UpTo(K, i - 1)) + (IF i \in K THEN 1 ELSE 0)
  <2>0. \A j \in K : j <= i <=> (j <= i - 1 \/ j = i)
    OBVIOUS
  <2>1. CASE i \in K
    <3>1. UpTo(K, i) = UpTo(K, i - 1) \cup {i}
      BY <2>0, <2>1, Zenon DEF UpTo
    <3>2. i \notin UpTo(K, i - 1)
      BY DEF UpTo
    <3> QED BY <3>1, <3>2, <2>1, <1>4, FS_AddElement
  <2>2. CASE i \notin K
    <3>1. UpTo(K, i) = UpTo(K, i - 1)
      BY <2>0, <2>2 DEF UpTo
    <3> QED BY <3>1, <2>2, <1>4
  <2> QED BY <2>1, <2>2
<1> QED BY <1>2, <1>3, <1>4, <1>5, <1>6, FS_EmptySet

(* Nth is well defined: a set of positions has a k-th smallest element for *)
(* every k up to its size, which is what the compaction of VecRm copies    *)
(* into slot k.                                                            *)
LEMMA NthIsMember ==
  ASSUME NEW n \in Nat, NEW K \in SUBSET (1 .. n),
         NEW k \in 1 .. Cardinality(K)
  PROVE  Nth(K, k) \in K /\ Cardinality(UpTo(K, Nth(K, k))) = k
<1> DEFINE T == {i \in 0 .. n : Cardinality(UpTo(K, i)) >= k}
<1>1. Cardinality(K) \in 0 .. n
  BY UpToGrows
<1>2. n \in T
  BY <1>1, UpToGrows
<1>3. PICK x \in T : \A y \in T : x <= y
  <2>1. T \in SUBSET Nat /\ T # {}
    BY <1>2
  <2> HIDE DEF T
  <2> QED BY <2>1, LeastNatural
<1>4. x \in 1 .. n /\ x - 1 \in 0 .. n /\ x - 1 \notin T
  BY <1>1, <1>3, UpToGrows
<1>5. Cardinality(UpTo(K, x - 1)) \in Nat /\ Cardinality(UpTo(K, x - 1)) < k
  BY <1>1, <1>4, UpToGrows
<1>6. Cardinality(UpTo(K, x)) >= k
  BY <1>3
<1>7. Cardinality(UpTo(K, x)) =
        Cardinality(UpTo(K, x - 1)) + (IF x \in K THEN 1 ELSE 0)
  <2>1. \A i \in 1 .. n : Cardinality(UpTo(K, i)) =
          Cardinality(UpTo(K, i - 1)) + (IF i \in K THEN 1 ELSE 0)
    BY UpToGrows
  <2>2. x \in 1 .. n
    BY <1>4
  <2> HIDE DEF T
  <2> QED BY <2>1, <2>2
<1>8. x \in K /\ Cardinality(UpTo(K, x)) = k
  <2> HIDE DEF T
  <2> QED BY <1>1, <1>5, <1>6, <1>7
<1>9. Nth(K, k) = CHOOSE i \in K : Cardinality(UpTo(K, i)) = k
  BY DEF Nth, UpTo
<1> QED BY <1>8, <1>9

(* Nth lists the elements of K in increasing order and leaves none out.    *)
LEMMA NthListsAll ==
  ASSUME NEW n \in Nat, NEW K \in SUBSET (1 .. n)
  PROVE  /\ \A k, l \in 1 .. Cardinality(K) : k < l => Nth(K, k) < Nth(K, l)
         /\ \A i \in K : \E k \in 1 .. Cardinality(K) : Nth(K, k) = i
<1>0. \A i \in K : i \in Nat
  OBVIOUS
<1>1. IsFiniteSet(K) /\ Cardinality(K) \in Nat
  BY UpToGrows
<1>2. ASSUME NEW i \in K, NEW j \in K, i <= j
      PROVE  /\ Cardinality(UpTo(K, i)) \in Nat /\ Cardinality(UpTo(K, j)) \in Nat
             /\ Cardinality(UpTo(K, i)) <= Cardinality(UpTo(K, j))
             /\ Cardinality(UpTo(K, i)) = Cardinality(UpTo(K, j)) => i = j
  <2>1. UpTo(K, j) \in SUBSET K
    BY DEF UpTo
  <2>2. \A k \in K : k <= i => k <= j
    BY <1>2
  <2>3. UpTo(K, i) \in SUBSET UpTo(K, j)
    BY <2>2 DEF UpTo
  <2>4. IsFiniteSet(UpTo(K, j))
    BY <1>1, <2>1, FS_Subset
  <2>5. /\ Cardinality(UpTo(K, i)) <= Cardinality(UpTo(K, j))
        /\ Cardinality(UpTo(K, i)) = Cardinality(UpTo(K, j)) => UpTo(K, i) = UpTo(K, j)
    BY <2>3, <2>4, FS_Subset
  <2>6. Cardinality(UpTo(K, i)) \in Nat /\ Cardinality(UpTo(K, j)) \in Nat
    BY <2>3, <2>4, FS_Subset, FS_CardinalityType
  <2>7. UpTo(K, i) = UpTo(K, j) => i = j
    BY <1>2 DEF UpTo
  <2> QED BY <2>5, <2>6, <2>7
<1>3. ASSUME NEW k \in 1 .. Cardinality(K), NEW l \in 1 .. Cardinality(K),
             k < l
      PROVE  Nth(K, k) < Nth(K, l)
  <2>1. /\ Nth(K, k) \in K /\ Cardinality(UpTo(K, Nth(K, k))) = k
        /\ Nth(K, l) \in K /\ Cardinality(UpTo(K, Nth(K, l))) = l
    BY NthIsMember
  <2>2. ASSUME Nth(K, l) <= Nth(K, k)
        PROVE  FALSE
    <3>1. l <= k
      BY <1>2, <2>1, <2>2
    <3> QED BY <3>1, <1>1, <1>3
  <2>3. Nth(K, k) \in Nat /\ Nth(K, l) \in Nat
    BY <1>0, <2>1
  <2> QED BY <2>2, <2>3
<1>4. ASSUME NEW i \in K
      PROVE  \E k \in 1 .. Cardinality(K) : Nth(K, k) = i
  <2> DEFINE k == Cardinality(UpTo(K, i))
  <2>1. UpTo(K, i) \in SUBSET K /\ i \in UpTo(K, i)
    BY DEF UpTo
  <2>2. k \in 1 .. Cardinality(K)
    BY <1>1, <2>1, FS_Subset, FS_CardinalityType, FS_EmptySet
  <2>3. Nth(K, k) \in K /\ Cardinality(UpTo(K, Nth(K, k))) = k
    BY <2>2, NthIsMember
  <2>4. CASE i <= Nth(K, k)
    BY <1>2, <2>2, <2>3, <2>4
  <2>5. CASE Nth(K, k) <= i
    BY <1>2, <2>2, <2>3, <2>5
  <2>6. i \in Nat /\ Nth(K, k) \in Nat
    BY <1>0, <2>3
  <2> QED BY <2>4, <2>5, <2>6
<1> QED BY <1>3, <1>4

(* Whatever range and elements are removed: the result is a vector of the  *)
(* same kind of elements, shorter by the number removed.                   *)
LEMMA VecRmShortens ==
  ASSUME NEW S, NEW s \in Seq(S), NEW f \in 0 .. Len(s),
         NEW D \in SUBSET (1 .. f)
  PROVE  /\ IsFiniteSet(D) /\ Cardinality(D) \in 0 .. f
         /\ VecRm(s, f, D) \in Seq(S)
         /\ Len(VecRm(s, f, D)) = Len(s) - Cardinality(D)
<1> DEFINE stay == (1 .. f) \ D
           e(k) == IF k <= Cardinality(stay) THEN s[Nth(stay, k)] ELSE s[k]
           m == Len(s) - Cardinality(D)
<1>1. Len(s) \in Nat /\ f \in Nat
  BY LenProperties
<1>2. IsFiniteSet(D) /\ Cardinality(D) \in 0 .. f
  BY <1>1, UpToGrows
<1>3. m \in Nat /\ m <= Len(s)
  BY <1>1, <1>2
<1>4. ASSUME NEW k \in 1 .. m
      PROVE  e(k) \in S
  <2>1. stay \in SUBSET (1 .. f) /\ Cardinality(stay) \in Nat
    BY <1>1, UpToGrows
  <2>2. CASE k <= Cardinality(stay)
    <3>1. k \in 1 .. Cardinality(stay)
      BY <2>1, <2>2, <1>3
    <3>2. Nth(stay, k) \in 1 .. f
      BY <1>1, <2>1, <3>1, NthIsMember
    <3>3. Nth(stay, k) \in 1 .. Len(s)
      BY <1>1, <3>2
    <3> QED BY <2>2, <3>3, ElementOfSeq
  <2>3. CASE ~ (k <= Cardinality(stay))
    <3>1. k \in 1 .. Len(s)
      BY <1>1, <1>3
    <3> QED BY <2>3, <3>1, ElementOfSeq
  <2> QED BY <2>2, <2>3
<1>5. VecRm(s, f, D) = [k \in 1 .. m |-> e(k)]
  BY DEF VecRm
<1>6. VecRm(s, f, D) \in Seq(S)
  <2> HIDE DEF e, m
  <2> QED BY <1>3, <1>4, <1>5, IsASeq
<1>7. Len(VecRm(s, f, D)) = m
  <2>1. DOMAIN VecRm(s, f, D) = 1 .. m
    BY <1>5
  <2>2. DOMAIN VecRm(s, f, D) = 1 .. Len(VecRm(s, f, D)) /\ Len(VecRm(s, f, D)) \in Nat
    BY <1>6, LenProperties
  <2> HIDE DEF m
  <2> QED BY <1>3, <2>1, <2>2
<1> QED BY <1>2, <1>6, <1>7

(* Whatever part of the vector is walked, every slot that is left holds an *)
(* element the vector held before.                                         *)
LEMMA VecRmTakes ==
  ASSUME NEW S, NEW s \in Seq(S), NEW f \in 0 .. Len(s),
         NEW D \in SUBSET (1 .. f)
  PROVE  \A k \in 1 .. Len(VecRm(s, f, D)) :
           \E i \in 1 .. Len(s) : VecRm(s, f, D)[k] = s[i]
<1> DEFINE T == {s[i] : i \in 1 .. Len(s)}
<1>1. s \in Seq(T)
  <2>1. Len(s) \in Nat /\ s = [i \in 1 .. Len(s) |-> s[i]]
    BY LenProperties
  <2>2. \A i \in 1 .. Len(s) : s[i] \in T
    OBVIOUS
  <2> HIDE DEF T
  <2> QED BY <2>1, <2>2, IsASeq
<1> HIDE DEF T
<1>2. VecRm(s, f, D) \in Seq(T)
  BY <1>1, VecRmShortens
<1>3. \A k \in 1 .. Len(VecRm(s, f, D)) : VecRm(s, f, D)[k] \in T
  BY <1>2, ElementOfSeq
<1> QED BY <1>3 DEF T

(* A removal that selects nothing leaves the vector alone, whatever part   *)
(* of it is walked.                                                        *)
LEMMA VecRmNothing ==
  ASSUME NEW S, NEW s \in Seq(S), NEW f \in 0 .. Len(s)
  PROVE  VecRm(s, f, {}) = s
<1>1. Len(s) \in Nat /\ f \in Nat /\ f <= Len(s)
  BY LenProperties
<1>2. /\ (1 .. f) \ {} = 1 .. f /\ Cardinality({}) = 0
      /\ \A i \in 0 .. f : IsFiniteSet(1 .. i) /\ Cardinality(1 .. i) = i
  <2>1. ASSUME NEW i \in 0 .. f
        PROVE  IsFiniteSet(1 .. i) /\ Cardinality(1 .. i) = i
    <3>1. 1 \in Int /\ i \in Int
      BY <1>1
    <3>2. /\ IsFiniteSet(1 .. i)
          /\ Cardinality(1 .. i) = IF 1 > i THEN 0 ELSE i - 1 + 1
      BY <3>1, FS_Interval
    <3> QED BY <1>1, <3>2
  <2> QED BY <2>1, FS_EmptySet
<1>3. ASSUME NEW k \in 1 .. f
      PROVE  Nth(1 .. f, k) = k
  <2>1. /\ k \in 1 .. Cardinality(1 .. f) /\ 1 .. f \in SUBSET (1 .. f)
        /\ f \in 0 .. f
    BY <1>1, <1>2
  <2>2. /\ Nth(1 .. f, k) \in 1 .. f
        /\ Cardinality(UpTo(1 .. f, Nth(1 .. f, k))) = k
    BY <1>1, <2>1, NthIsMember
  <2>3. \A i \in 1 .. f : UpTo(1 .. f, i) = 1 .. i
    BY <1>1 DEF UpTo
  <2>4. \A i \in 1 .. f : Cardinality(UpTo(1 .. f, i)) = i
    BY <1>1, <1>2, <2>3
  <2> QED BY <2>2, <2>4
<1>4. VecRm(s, f, {}) = [k \in 1 .. Len(s) |-> s[k]]
  <2>1. VecRm(s, f, {}) = [k \in 1 .. Len(s) - Cardinality({}) |->
           IF k <= Cardinality(1 .. f) THEN s[Nth(1 .. f, k)] ELSE s[k]]
    BY <1>2 DEF VecRm
  <2>2. f \in 0 .. f
    BY <1>1
  <2>3. Len(s) - Cardinality({}) = Len(s) /\ Cardinality(1 .. f) = f
    BY <1>1, <1>2, <2>2
  <2>4. \A k \in 1 .. Len(s) : k <= f => Nth(1 .. f, k) = k
    BY <1>1, <1>3
  <2>5. \A k \in 1 .. Len(s) :
          (IF k <= f THEN s[Nth(1 .. f, k)] ELSE s[k]) = s[k]
    BY <2>4
  <2> QED BY <2>1, <2>3, <2>5
<1> QED BY <1>4

(* A removal over the whole vector keeps exactly the elements it does not  *)
(* select, in their order: pos says which one each slot of the result      *)
(* holds.  (With finish < Size this is false: see Channel.)                *)
THEOREM VecRmWhole ==
  ASSUME NEW S, NEW s \in Seq(S), NEW D \in SUBSET (1 .. Len(s))
  PROVE  LET r    == VecRm(s, Len(s), D)
             stay == (1 .. Len(s)) \ D
         IN  \E pos \in [1 .. Len(r) -> stay] :
               /\ \A k, l \in 1 .. Len(r) : k < l => pos[k] < pos[l]
               /\ \A i \in stay : \E k \in 1 .. Len(r) : pos[k] = i
               /\ \A k \in 1 .. Len(r) : r[k] = s[pos[k]]
<1> DEFINE n == Len(s)
           r == VecRm(s, n, D)
           stay == (1 .. n) \ D
           pos == [k \in 1 .. Len(r) |-> Nth(stay, k)]
<1>1. n \in Nat
  BY LenProperties
<1>2. Len(r) = n - Cardinality(D) /\ Cardinality(D) \in 0 .. n
  BY <1>1, VecRmShortens
<1>3. Cardinality(stay) = n - Cardinality(D)
  <2>1. IsFiniteSet(1 .. n) /\ Cardinality(1 .. n) = n
    <3> HIDE DEF n
    <3> QED BY <1>1, FS_Interval
  <2>2. (1 .. n) \cap D = D
    OBVIOUS
  <2>3. Cardinality((1 .. n) \ D) = Cardinality(1 .. n) - Cardinality((1 .. n) \cap D)
    <3> HIDE DEF n
    <3> QED BY <2>1, FS_Difference
  <2> QED BY <2>1, <2>2, <2>3
<1>4. Len(r) = Cardinality(stay) /\ stay \in SUBSET (1 .. n)
  BY <1>2, <1>3
<1>5. pos \in [1 .. Len(r) -> stay]
  <2>1. \A k \in 1 .. Len(r) : Nth(stay, k) \in stay
    <3> HIDE DEF stay, r, n
    <3> QED BY <1>1, <1>4, NthIsMember
  <2> QED BY <2>1
<1>6. /\ \A k, l \in 1 .. Len(r) : k < l => pos[k] < pos[l]
      /\ \A i \in stay : \E k \in 1 .. Len(r) : pos[k] = i
  <2>1. /\ \A k, l \in 1 .. Len(r) : k < l => Nth(stay, k) < Nth(stay, l)
        /\ \A i \in stay : \E k \in 1 .. Len(r) : Nth(stay, k) = i
    <3> HIDE DEF stay, r, n
    <3> QED BY <1>1, <1>4, NthListsAll
  <2> HIDE DEF stay, r, n
  <2> QED BY <2>1
<1>7. ASSUME NEW k \in 1 .. Len(r)
      PROVE  r[k] = s[pos[k]]
  <2>1. k \in 1 .. Len(s) - Cardinality(D) /\ k <= Cardinality(stay)
    BY <1>2, <1>4
  <2>2. pos[k] = Nth(stay, k)
    OBVIOUS
  <2> QED BY <2>1, <2>2 DEF VecRm
<1> HIDE DEF pos
<1> QED BY <1>5, <1>6, <1>7

(* The slots of r hold the elements of s in their order, all but those of  *)
(* D: slot k has the one from place pos[k].                                *)
HoldsAllBut(pos, r, s, D) ==
  /\ pos \in [1 .. Len(r) -> (1 .. Len(s)) \ D]
  /\ \A k, l \in 1 .. Len(r) : k < l => pos[k] < pos[l]
  /\ \A i \in (1 .. Len(s)) \ D : \E k \in 1 .. Len(r) : pos[k] = i
  /\ \A k \in 1 .. Len(r) : r[k] = s[pos[k]]

(* VecRmWhole in those words.                                              *)
LEMMA VecRmHolds ==
  ASSUME NEW S, NEW s \in Seq(S), NEW D \in SUBSET (1 .. Len(s))
  PROVE  \E pos : HoldsAllBut(pos, VecRm(s, Len(s), D), s, D)
<1>1. PICK pos \in [1 .. Len(VecRm(s, Len(s), D)) -> (1 .. Len(s)) \ D] :
        /\ \A k, l \in 1 .. Len(VecRm(s, Len(s), D)) :
             k < l => pos[k] < pos[l]
        /\ \A i \in (1 .. Len(s)) \ D :
             \E k \in 1 .. Len(VecRm(s, Len(s), D)) : pos[k] = i
        /\ \A k \in 1 .. Len(VecRm(s, Len(s), D)) :
             VecRm(s, Len(s), D)[k] = s[pos[k]]
  BY VecRmWhole
<1>2. HoldsAllBut(pos, VecRm(s, Len(s), D), s, D)
  BY <1>1 DEF HoldsAllBut
<1> QED BY <1>2

(* Two removals in a row, of D from s and of E from the result r: t has    *)
(* each of the others once, and none of the removed.                       *)
HoldsRest(pos, t, s, D, r, E) ==
  /\ pos \in [1 .. Len(t) -> 1 .. Len(s)]
  /\ \A k, l \in 1 .. Len(t) : pos[k] = pos[l] => k = l
  /\ \A k \in 1 .. Len(t) : t[k] = s[pos[k]]
  /\ \A i \in 1 .. Len(s) : \/ i \in D
                            \/ \E j \in E : r[j] = s[i]
                            \/ \E k \in 1 .. Len(t) : pos[k] = i
  /\ \A i \in D : \A k \in 1 .. Len(t) : pos[k] # i
  /\ \A j \in E : \E i \in 1 .. Len(s) :
       r[j] = s[i] /\ \A k \in 1 .. Len(t) : pos[k] # i

(* That is what is left when both keep all but the removed.                *)
LEMMA HoldsTwice ==
  ASSUME NEW s, NEW D, NEW r, NEW E, NEW t, NEW f, NEW g,
         Len(s) \in Nat, Len(r) \in Nat, Len(t) \in Nat,
         D \subseteq 1 .. Len(s), E \subseteq 1 .. Len(r),
         HoldsAllBut(f, r, s, D), HoldsAllBut(g, t, r, E)
  PROVE  \E pos : HoldsRest(pos, t, s, D, r, E)
<1>1. \A k, l \in 1 .. Len(r) : f[k] = f[l] => k = l
  <2>1. \A k \in 1 .. Len(r) : f[k] \in Int
    <3>1. f \in [1 .. Len(r) -> (1 .. Len(s)) \ D]
      BY DEF HoldsAllBut
    <3>2. ASSUME NEW k \in 1 .. Len(r)
          PROVE  f[k] \in 1 .. Len(s)
      BY <3>1
    <3> QED BY <3>2
  <2>2. \A k, l \in 1 .. Len(r) : k < l => f[k] < f[l]
    BY DEF HoldsAllBut
  <2>3. \A k, l \in 1 .. Len(r) : k < l => f[k] # f[l]
    BY <2>1, <2>2
  <2>4. \A k, l \in 1 .. Len(r) : k < l \/ l < k \/ k = l
    OBVIOUS
  <2> QED BY <2>3, <2>4
<1>2. \A k, l \in 1 .. Len(t) : g[k] = g[l] => k = l
  <2>1. \A k \in 1 .. Len(t) : g[k] \in Int
    <3>1. g \in [1 .. Len(t) -> (1 .. Len(r)) \ E]
      BY DEF HoldsAllBut
    <3>2. ASSUME NEW k \in 1 .. Len(t)
          PROVE  g[k] \in 1 .. Len(r)
      BY <3>1
    <3> QED BY <3>2
  <2>2. \A k, l \in 1 .. Len(t) : k < l => g[k] < g[l]
    BY DEF HoldsAllBut
  <2>3. \A k, l \in 1 .. Len(t) : k < l => g[k] # g[l]
    BY <2>1, <2>2
  <2>4. \A k, l \in 1 .. Len(t) : k < l \/ l < k \/ k = l
    OBVIOUS
  <2> QED BY <2>3, <2>4
<1> DEFINE pos == [k \in 1 .. Len(t) |-> f[g[k]]]
<1>3. /\ pos \in [1 .. Len(t) -> 1 .. Len(s)]
      /\ \A k \in 1 .. Len(t) :
           /\ pos[k] = f[g[k]] /\ g[k] \in 1 .. Len(r) /\ g[k] \notin E
           /\ pos[k] \notin D
  BY DEF HoldsAllBut
<1> HIDE DEF pos
<1>4. \A k, l \in 1 .. Len(t) : pos[k] = pos[l] => k = l
  BY <1>1, <1>2, <1>3
<1>5. \A k \in 1 .. Len(t) : t[k] = s[pos[k]]
  BY <1>3 DEF HoldsAllBut
<1>6. ASSUME NEW i \in 1 .. Len(s)
      PROVE  \/ i \in D
             \/ \E j \in E : r[j] = s[i]
             \/ \E k \in 1 .. Len(t) : pos[k] = i
  <2> SUFFICES ASSUME i \notin D
               PROVE  \/ \E j \in E : r[j] = s[i]
                      \/ \E k \in 1 .. Len(t) : pos[k] = i
    OBVIOUS
  <2>1. PICK j \in 1 .. Len(r) : f[j] = i /\ r[j] = s[i]
    BY <1>6 DEF HoldsAllBut
  <2>2. CASE j \in E
    BY <2>1, <2>2
  <2>3. CASE j \notin E
    BY <1>3, <2>1, <2>3 DEF HoldsAllBut
  <2> QED BY <2>2, <2>3
<1>7. ASSUME NEW j \in E
       PROVE  \E i \in 1 .. Len(s) :
                r[j] = s[i] /\ \A k \in 1 .. Len(t) : pos[k] # i
  <2>1. /\ j \in 1 .. Len(r) /\ f[j] \in 1 .. Len(s)
        /\ r[j] = s[f[j]]
    BY <1>7 DEF HoldsAllBut
  <2>2. \A k \in 1 .. Len(t) : pos[k] # f[j]
    BY <1>1, <1>3, <1>7, <2>1
  <2> QED BY <2>1, <2>2
<1>8. HoldsRest(pos, t, s, D, r, E)
  <2>1. \A i \in D : \A k \in 1 .. Len(t) : pos[k] # i
    BY <1>3
  <2>2. pos \in [1 .. Len(t) -> 1 .. Len(s)]
    BY <1>3
  <2> QED BY <1>4, <1>5, <1>6, <1>7, <2>1, <2>2 DEF HoldsRest
<1> QED BY <1>8
=============================================================================
