---------------------------- MODULE HamsouProofs ----------------------------
(***************************************************************************)
(* Proofs, for every number of nodes, every workload and every conflict    *)
(* relation, of properties of module HamsouProperties.                     *)
(***************************************************************************)
EXTENDS HamsouProperties, ListLemmas, FiniteSetTheorems

-----------------------------------------------------------------------------
(***************************************************************************)
(* The queue of received calls stays a sequence of calls, push adds the    *)
(* call it is given, and pop removes the top and nothing is left twice,    *)
(* although the comparator is no order and the heap is not sorted.         *)
(***************************************************************************)

(* push_heap leaves a sequence of calls of the same length. *)
LEMMA SiftUpType ==
  ASSUME NEW S, NEW q \in Seq(S), NEW p, NEW c \in S
  PROVE  SiftUp(q, p, c) \in Seq(S) /\ Len(SiftUp(q, p, c)) = Len(q)
<1> DEFINE passes(i) == i # 1 /\ Less(q[i \div 2], c)
<1> DEFINE visited == {i \in PathUp(p) : \A r \in PathUp(p) : r > i => passes(r)}
<1> DEFINE elt(i) == IF i \notin visited THEN q[i]
                     ELSE IF passes(i) THEN q[i \div 2] ELSE c
<1>1. SiftUp(q, p, c) = [i \in 1..Len(q) |-> elt(i)]
  BY DEF SiftUp
<1>2. ASSUME NEW i \in 1..Len(q) PROVE elt(i) \in S
  <2>1. CASE passes(i)
    <3>1. i \div 2 \in 1..Len(q)
      BY <2>1
    <3> QED BY <3>1
  <2>2. CASE ~passes(i)
    BY <2>2
  <2> QED BY <2>1, <2>2
<1> HIDE DEF elt
<1>3. [i \in 1..Len(q) |-> elt(i)] \in [1..Len(q) -> S]
  BY <1>2
<1> QED BY <1>1, <1>3, LenProperties

(* Pushing a call. *)
LEMMA PushType ==
  ASSUME NEW S, NEW q \in Seq(S), NEW c \in S
  PROVE  Push(q, c) \in Seq(S) /\ Push(q, c) # <<>>
<1>1. Append(q, c) \in Seq(S) /\ Len(Append(q, c)) = Len(q) + 1 /\ Len(q) + 1 \in Nat
  OBVIOUS
<1>2. \A p : /\ SiftUp(Append(q, c), p, c) \in Seq(S)
             /\ Len(SiftUp(Append(q, c), p, c)) = Len(Append(q, c))
  <2> DEFINE t == Append(q, c)
  <2>1. t \in Seq(S) BY <1>1
  <2> HIDE DEF t
  <2>2. \A p : SiftUp(t, p, c) \in Seq(S) /\ Len(SiftUp(t, p, c)) = Len(t)
    BY <2>1, SiftUpType
  <2> QED BY <2>2 DEF t
<1> QED BY <1>2 DEF Push

(* Reading the top of a queue that is not empty. *)
LEMMA TopType ==
  ASSUME NEW S, NEW q \in Seq(S), q # <<>>
  PROVE  Top(q) \in S
BY DEF Top

-----------------------------------------------------------------------------
(* The paths through the heap.                                             *)

(* The path to the root contains its beginning and is closed under parents. *)
LEMMA PathUpClosed ==
  ASSUME NEW p \in Nat \ {0}
  PROVE  /\ PathUp(p) \subseteq 1..p /\ p \in PathUp(p)
         /\ \A i \in PathUp(p) : i # 1 => i \div 2 \in PathUp(p)
<1>1. PathUp(p) \subseteq 1..p /\ p \in PathUp(p)
  BY DEF PathUp
<1>2. ASSUME NEW i \in PathUp(p), i # 1 PROVE i \div 2 \in PathUp(p)
  <2>1. i \div 2 \in 1..p
    BY <1>1, <1>2
  <2>2. ASSUME NEW S \in SUBSET (1..p), p \in S, \A k \in S \ {1} : k \div 2 \in S
        PROVE  i \div 2 \in S
    <3>1. i \in S
      BY <2>2 DEF PathUp
    <3> QED BY <1>2, <2>2, <3>1
  <2> QED BY <2>1, <2>2 DEF PathUp
<1> QED BY <1>1, <1>2

(* It is contained in every set that has these two properties. *)
LEMMA PathUpLeast ==
  ASSUME NEW p \in Nat \ {0}, NEW S \in SUBSET PathUp(p), p \in S,
         \A k \in S : k # 1 => k \div 2 \in S
  PROVE  S = PathUp(p)
<1>1. S \in SUBSET (1..p)
  BY PathUpClosed
<1> QED BY <1>1 DEF PathUp

(* Between a position of the path and its parent there is no other. *)
LEMMA PathUpChain ==
  ASSUME NEW p \in Nat \ {0}
  PROVE  \A i, j \in PathUp(p) : j >= i \/ j <= i \div 2
<1> DEFINE P == PathUp(p)
           D == {i \in P : \A j \in P : j >= i \/ j <= i \div 2}
<1>1. /\ P \subseteq 1..p /\ p \in P
      /\ \A i \in P : i # 1 => i \div 2 \in P
  BY PathUpClosed
<1>1a. \A T \in SUBSET P : p \in T /\ (\A k \in T : k # 1 => k \div 2 \in T) => T = P
  BY PathUpLeast
<1> HIDE DEF P
<1>2. p \in D
  <2> DEFINE T == {p} \cup {j \in P : j <= p \div 2}
  <2>1. \A k \in T : k # 1 => k \div 2 \in T
    <3> SUFFICES ASSUME NEW k \in T, k # 1 PROVE k \div 2 \in T
      OBVIOUS
    <3>1. k \in P /\ k \in 1..p /\ k \div 2 \in P
      BY <1>1
    <3>2. k \div 2 <= p \div 2
      BY <3>1
    <3> QED BY <3>1, <3>2
  <2>2. T = P
    BY <1>1, <1>1a, <2>1
  <2> QED BY <1>1, <2>2
<1>3. ASSUME NEW i \in D, i # 1 PROVE i \div 2 \in D
  <2> DEFINE h == i \div 2
             T == {j \in P : j >= i} \cup {h} \cup {j \in P : j <= h \div 2}
  <2>1. i \in 1..p /\ h \in P /\ h \in 1..p
    BY <1>1, <1>3
  <2>2. \A k \in T : k # 1 => k \div 2 \in T
    <3> SUFFICES ASSUME NEW k \in T, k # 1 PROVE k \div 2 \in T
      OBVIOUS
    <3>1. k \in P /\ k \in 1..p /\ k \div 2 \in P /\ k \div 2 \in 1..p
      BY <1>1, <2>1
    <3>2. CASE k >= i
      <4>1. k \div 2 >= h
        BY <2>1, <3>1, <3>2
      <4>2. k \div 2 >= i \/ k \div 2 <= h
        BY <1>3, <3>1
      <4> QED BY <2>1, <3>1, <4>1, <4>2
    <3>3. CASE k = h
      BY <3>1, <3>3
    <3>4. CASE k <= h \div 2
      <4>1. k \div 2 <= h \div 2
        BY <2>1, <3>1, <3>4
      <4> QED BY <3>1, <4>1
    <3> QED BY <3>2, <3>3, <3>4
  <2>3. T = P
    <3>1. p \in T
      BY <1>1, <2>1
    <3>2. T \in SUBSET P
      BY <2>1
    <3> HIDE DEF T
    <3> QED BY <1>1a, <2>2, <3>1, <3>2
  <2>4. \A j \in P : j >= h \/ j <= h \div 2
    <3> SUFFICES ASSUME NEW j \in P PROVE j >= h \/ j <= h \div 2
      OBVIOUS
    <3>1. j \in T /\ j \in 1..p
      BY <1>1, <2>3
    <3> QED BY <2>1, <3>1
  <2> QED BY <2>1, <2>4
<1>4. D = P
  <2>1. D \in SUBSET P
    OBVIOUS
  <2> HIDE DEF D
  <2> QED BY <1>1a, <1>2, <1>3, <2>1
<1> QED BY <1>4 DEF P

(* The bigger child is one of the two children, inside the heap. *)
LEMMA BiggerChildIsChild ==
  ASSUME NEW r, Len(r) \in Nat, NEW i \in 1..Len(r), 2*i <= Len(r)
  PROVE  /\ BiggerChild(r, i) \in 1..Len(r)
         /\ BiggerChild(r, i) = 2*i \/ BiggerChild(r, i) = 2*i + 1
BY DEF BiggerChild

(* The path to a leaf begins at the root and is closed under bigger children. *)
LEMMA PathDownClosed ==
  ASSUME NEW r, Len(r) \in Nat \ {0}
  PROVE  /\ PathDown(r) \subseteq 1..Len(r) /\ 1 \in PathDown(r)
         /\ \A i \in PathDown(r) : 2*i <= Len(r) => BiggerChild(r, i) \in PathDown(r)
<1>1. PathDown(r) \subseteq 1..Len(r) /\ 1 \in PathDown(r)
  BY DEF PathDown
<1>2. ASSUME NEW i \in PathDown(r), 2*i <= Len(r) PROVE BiggerChild(r, i) \in PathDown(r)
  <2>1. BiggerChild(r, i) \in 1..Len(r)
    BY <1>1, <1>2, BiggerChildIsChild
  <2>2. ASSUME NEW S \in SUBSET (1..Len(r)), 1 \in S,
               \A k \in S : 2*k <= Len(r) => BiggerChild(r, k) \in S
        PROVE  BiggerChild(r, i) \in S
    <3>1. i \in S
      BY <2>2 DEF PathDown
    <3> QED BY <1>2, <2>2, <3>1
  <2> QED BY <2>1, <2>2 DEF PathDown
<1> QED BY <1>1, <1>2

(* It is contained in every set that has these two properties. *)
LEMMA PathDownLeast ==
  ASSUME NEW r, Len(r) \in Nat \ {0}, NEW S \in SUBSET PathDown(r), 1 \in S,
         \A k \in S : 2*k <= Len(r) => BiggerChild(r, k) \in S
  PROVE  S = PathDown(r)
<1>1. S \in SUBSET (1..Len(r))
  BY PathDownClosed
<1> QED BY <1>1 DEF PathDown

(* It has nothing between a position and its bigger child, or below a leaf. *)
LEMMA PathDownChain ==
  ASSUME NEW r, Len(r) \in Nat \ {0}
  PROVE  \A i, j \in PathDown(r) :
           j <= i \/ (2*i <= Len(r) /\ j >= BiggerChild(r, i))
<1> DEFINE m == Len(r)
           P == PathDown(r)
           next(i) == BiggerChild(r, i)
           D == {i \in P : \A j \in P : j <= i \/ (2*i <= m /\ j >= next(i))}
<1>1. /\ P \subseteq 1..m /\ 1 \in P /\ m \in Nat \ {0}
      /\ \A i \in P : 2*i <= m => next(i) \in P
      /\ \A i \in P : 2*i <= m => next(i) = 2*i \/ next(i) = 2*i + 1
  BY PathDownClosed, BiggerChildIsChild
<1>1a. \A T \in SUBSET P : 1 \in T /\ (\A k \in T : 2*k <= m => next(k) \in T) => T = P
  BY PathDownLeast
<1> HIDE DEF P, next, m
<1>2. 1 \in D
  <2> DEFINE T == {1} \cup {j \in P : 2 <= m /\ j >= next(1)}
  <2>1. \A k \in T : 2*k <= m => next(k) \in T
    <3> SUFFICES ASSUME NEW k \in T, 2*k <= m PROVE next(k) \in T
      OBVIOUS
    <3>1. k \in P /\ k \in 1..m /\ next(k) \in P /\ next(k) \in 1..m /\ next(k) >= 2*k
      BY <1>1
    <3> QED BY <1>1, <3>1
  <2>2. T \in SUBSET P /\ 1 \in T
    BY <1>1
  <2>3. T = P
    <3> HIDE DEF T
    <3> QED BY <1>1a, <2>1, <2>2
  <2> QED BY <1>1, <2>3
<1>3. ASSUME NEW i \in D, 2*i <= m PROVE next(i) \in D
  <2> DEFINE b == next(i)
             T == {j \in P : j <= i} \cup {b} \cup {j \in P : 2*b <= m /\ j >= next(b)}
  <2>1. i \in 1..m /\ b \in P /\ b \in 1..m /\ (b = 2*i \/ b = 2*i + 1)
    BY <1>1, <1>3
  <2>2. \A k \in T : 2*k <= m => next(k) \in T
    <3> SUFFICES ASSUME NEW k \in T, 2*k <= m PROVE next(k) \in T
      OBVIOUS
    <3>1. /\ k \in P /\ k \in 1..m /\ next(k) \in P /\ next(k) \in 1..m
          /\ next(k) = 2*k \/ next(k) = 2*k + 1
      BY <1>1, <2>1
    <3>2. CASE k < i
      <4>1. next(k) < b
        BY <2>1, <3>1, <3>2
      <4>2. next(k) <= i
        BY <1>3, <2>1, <3>1, <4>1
      <4> QED BY <3>1, <4>2
    <3>3. CASE k = i
      BY <3>3
    <3>4. CASE k = b
      BY <2>1, <3>1, <3>4
    <3>5. CASE 2*b <= m /\ k >= next(b)
      <4>1. next(k) >= next(b)
        BY <1>1, <2>1, <3>1, <3>5
      <4> QED BY <3>1, <3>5, <4>1
    <3> QED BY <2>1, <3>1, <3>2, <3>3, <3>4, <3>5
  <2>3. T \in SUBSET P /\ 1 \in T
    BY <1>1, <2>1
  <2>4. T = P
    <3> HIDE DEF T
    <3> QED BY <1>1a, <2>2, <2>3
  <2>5. \A j \in P : j <= b \/ (2*b <= m /\ j >= next(b))
    <3> SUFFICES ASSUME NEW j \in P PROVE j <= b \/ (2*b <= m /\ j >= next(b))
      OBVIOUS
    <3>1. j \in T /\ j \in 1..m
      BY <1>1, <2>4
    <3> QED BY <2>1, <3>1
  <2> QED BY <2>1, <2>5
<1>4. D = P
  <2>1. D \in SUBSET P
    OBVIOUS
  <2> HIDE DEF D
  <2> QED BY <1>1a, <1>2, <1>3, <2>1
<1> QED BY <1>4 DEF P, m, next

(* The path ends at one leaf. *)
LEMMA PathDownLeaf ==
  ASSUME NEW r, Len(r) \in Nat \ {0},
         NEW leaf, leaf = CHOOSE i \in PathDown(r) : 2*i > Len(r)
  PROVE  /\ leaf \in PathDown(r) /\ 2*leaf > Len(r)
         /\ \A i \in PathDown(r) \ {leaf} : 2*i <= Len(r)
<1> DEFINE m == Len(r)
           P == PathDown(r)
           below == {m - i : i \in P}
<1>1. P \subseteq 1..m /\ 1 \in P /\ m \in Nat
  BY PathDownClosed
<1>2. \E i \in P : 2*i > m
  <2>1. below \in SUBSET Nat /\ below # {}
    BY <1>1
  <2> HIDE DEF below
  <2>2. PICK d \in below : \A k \in below : d <= k
    BY <2>1, LeastNumber
  <2>3. PICK i \in P : d = m - i
    BY DEF below
  <2>4. \A k \in P : m - k \in below
    BY DEF below
  <2>5. \A k \in P : k <= i
    BY <1>1, <2>2, <2>3, <2>4
  <2>6. ASSUME 2*i <= m PROVE FALSE
    <3>1. BiggerChild(r, i) \in P
      BY <2>3, <2>6, PathDownClosed
    <3>2. BiggerChild(r, i) >= 2*i
      BY <1>1, <2>3, <2>6, BiggerChildIsChild
    <3> QED BY <1>1, <2>3, <2>5, <3>1, <3>2
  <2> QED BY <1>1, <2>3, <2>6
<1>3. leaf \in P /\ 2*leaf > m
  BY <1>2
<1>4. ASSUME NEW i \in P, i # leaf PROVE 2*i <= m
  <2>1. i <= leaf \/ 2*leaf <= m
    BY <1>3, PathDownChain
  <2>2. leaf <= i \/ 2*i <= m
    BY <1>3, PathDownChain
  <2>3. i \in 1..m /\ leaf \in 1..m
    BY <1>1, <1>3
  <2> QED BY <1>1, <1>3, <1>4, <2>1, <2>2, <2>3
<1> QED BY <1>3, <1>4

(* Removing the top of a queue that is not empty. *)
LEMMA PopType ==
  ASSUME NEW S, NEW q \in Seq(S), q # <<>>
  PROVE  Pop(q) \in Seq(S) /\ Len(Pop(q)) = Len(q) - 1
<1> DEFINE m == Len(q) - 1
           r == SubSeq(q, 1, m)
<1>1. m \in Nat /\ m + 1 \in 1..Len(q)
  OBVIOUS
<1>2. r \in Seq(S) /\ Len(r) = m
  <2>1. \A i \in 1..m : q[i] \in S
    OBVIOUS
  <2> HIDE DEF m
  <2> QED BY <1>1, <2>1, SubSeqProperties
<1> DEFINE path == PathDown(r)
           leaf == CHOOSE i \in path : 2*i > m
           elt(i) == IF i \in path \ {leaf} THEN r[BiggerChild(r, i)] ELSE r[i]
           shifted == [i \in 1..m |-> elt(i)]
<1>3. Pop(q) = IF m = 0 THEN <<>> ELSE SiftUp(shifted, leaf, q[m + 1])
  BY DEF Pop
<1> HIDE DEF m, r, leaf, path
<1>4. ASSUME NEW i \in 1..m PROVE elt(i) \in S
  <2>1. CASE i \in path \ {leaf}
    <3>1. 2*i <= Len(r)
      BY <1>1, <1>2, <2>1, PathDownLeaf DEF leaf, m
    <3>2. BiggerChild(r, i) \in 1..Len(r)
      BY <1>1, <1>2, <3>1, BiggerChildIsChild
    <3>3. r[BiggerChild(r, i)] \in S
      BY <1>2, <3>2
    <3> QED BY <2>1, <3>3
  <2>2. CASE i \notin path \ {leaf}
    BY <1>1, <1>2, <2>2
  <2> QED BY <2>1, <2>2
<1> HIDE DEF elt
<1>5. shifted \in Seq(S) /\ Len(shifted) = m
  BY <1>1, <1>4
<1> HIDE DEF shifted
<1>6. q[m + 1] \in S
  BY <1>1
<1>7. \A p : /\ SiftUp(shifted, p, q[m + 1]) \in Seq(S)
             /\ Len(SiftUp(shifted, p, q[m + 1])) = Len(shifted)
  BY <1>5, <1>6, SiftUpType
<1> QED BY <1>1, <1>3, <1>5, <1>7 DEF m

-----------------------------------------------------------------------------
(***************************************************************************)
(* What push and pop do with the elements: every place of the result is    *)
(* filled from another place of the old heap, or with the element that was *)
(* carried upwards.                                                        *)
(***************************************************************************)

(* new is list with the hole at p filled; place 0 stands for the carried call c. *)
Refills(new, list, p, c, source) ==
  /\ source \in [1..Len(list) -> 0..Len(list)] /\ IsInjective(source)
  /\ \A i \in 1..Len(list) :
       /\ source[i] # p
       /\ new[i] = IF source[i] = 0 THEN c ELSE list[source[i]]

(* SiftUp fills the hole. *)
LEMMA SiftUpSource ==
  ASSUME NEW S, NEW q \in Seq(S), NEW p \in 1..Len(q), NEW c
  PROVE  \E source : Refills(SiftUp(q, p, c), q, p, c, source)
<1> DEFINE P == PathUp(p)
           passes(i) == i # 1 /\ Less(q[i \div 2], c)
           visited == {i \in P : \A r \in P : r > i => passes(r)}
           from(i) == IF i \notin visited THEN i ELSE IF passes(i) THEN i \div 2 ELSE 0
           source == [i \in 1..Len(q) |-> from(i)]
<1>1. /\ p \in Nat \ {0} /\ P \subseteq 1..p /\ p \in P
      /\ \A i \in P : i # 1 => i \div 2 \in P
      /\ \A i, j \in P : j >= i \/ j <= i \div 2
  BY PathUpClosed, PathUpChain
<1>2. SiftUp(q, p, c) = [i \in 1..Len(q) |-> IF i \notin visited THEN q[i]
                                            ELSE IF passes(i) THEN q[i \div 2] ELSE c]
  BY DEF SiftUp
<1>3. \A i : passes(i) => i # 1
  OBVIOUS
<1> HIDE DEF P, passes
<1>4. p \in visited /\ visited \subseteq P
  BY <1>1
<1>5. ASSUME NEW i \in 1..Len(q) PROVE from(i) \in 0..Len(q) /\ from(i) # p
  BY <1>1, <1>3, <1>4
<1>6. ASSUME NEW i \in 1..Len(q), NEW j \in 1..Len(q), i < j PROVE from(i) # from(j)
  <2>1. CASE i \notin visited /\ j \notin visited
    BY <1>6, <2>1
  <2>2. CASE i \in visited /\ j \notin visited
    BY <1>6, <2>2
  <2>3. CASE i \notin visited /\ j \in visited
    <3>1. ASSUME passes(j), i = j \div 2 PROVE FALSE
      <4>1. i \in P
        BY <1>1, <1>3, <2>3, <3>1
      <4>2. \A r \in P : r > i => passes(r)
        <5> SUFFICES ASSUME NEW r \in P, r > i PROVE passes(r)
          OBVIOUS
        <5>1. r >= j
          BY <1>1, <2>3, <3>1
        <5> QED BY <1>1, <2>3, <3>1, <5>1
      <4> QED BY <2>3, <4>1, <4>2
    <3> QED BY <2>3, <3>1
  <2>4. CASE i \in visited /\ j \in visited
    <3>1. passes(j)
      BY <1>6, <2>4
    <3>2. i <= j \div 2
      BY <1>1, <1>6, <2>4
    <3>3. ASSUME passes(i) PROVE i \div 2 < i
      BY <1>1
    <3> QED BY <1>1, <2>4, <3>1, <3>2, <3>3
  <2> QED BY <2>1, <2>2, <2>3, <2>4
<1>7. source \in [1..Len(q) -> 0..Len(q)]
  BY <1>5
<1>8. IsInjective(source)
  <2> SUFFICES ASSUME NEW i \in 1..Len(q), NEW j \in 1..Len(q), from(i) = from(j) PROVE i = j
    BY DEF IsInjective
  <2> HIDE DEF from
  <2>1. ~(i < j) /\ ~(j < i)
    BY <1>6
  <2> QED BY <2>1
<1>9. ASSUME NEW i \in 1..Len(q)
      PROVE  SiftUp(q, p, c)[i] = IF source[i] = 0 THEN c ELSE q[source[i]]
  BY <1>1, <1>2, <1>3, <1>4
<1> QED BY <1>5, <1>7, <1>8, <1>9 DEF Refills

(* A function whose values are taken from different places of a list. *)
Rearranges(new, list, source) ==
  /\ DOMAIN source = DOMAIN new /\ IsInjective(source)
  /\ \A i \in DOMAIN new : source[i] \in DOMAIN list /\ new[i] = list[source[i]]

(* push_heap rearranges the queue with the new call at its end. *)
LEMMA PushRearranges ==
  ASSUME NEW S, NEW q \in Seq(S), NEW c \in S
  PROVE  \E source : Rearranges(Push(q, c), Append(q, c), source)
<1> DEFINE t == Append(q, c)
           p == Len(q) + 1
           new == SiftUp(t, p, c)
<1>1. t \in Seq(S) /\ Len(t) = p /\ p \in 1..Len(t) /\ t[p] = c
  OBVIOUS
<1>2. Push(q, c) = new
  BY DEF Push
<1> HIDE DEF t, p
<1>1a. t \in Seq(S) /\ p \in 1..Len(t)
  BY <1>1
<1>3. PICK up : Refills(new, t, p, c, up)
  BY <1>1a, SiftUpSource
<1>4. new \in Seq(S) /\ Len(new) = Len(t)
  BY <1>1, SiftUpType
<1> HIDE DEF new
<1> DEFINE source == [i \in 1..Len(t) |-> IF up[i] = 0 THEN p ELSE up[i]]
<1>5. DOMAIN new = 1..Len(t) /\ DOMAIN t = 1..Len(t)
  BY <1>1, <1>4
<1>6. IsInjective(source)
  BY <1>1, <1>3 DEF Refills, IsInjective
<1>7. \A i \in 1..Len(t) : source[i] \in 1..Len(t) /\ new[i] = t[source[i]]
  BY <1>1, <1>3 DEF Refills
<1> QED BY <1>2, <1>5, <1>6, <1>7 DEF Rearranges, t

(* pop_heap rearranges what is left without the top. *)
LEMMA PopRearranges ==
  ASSUME NEW S, NEW q \in Seq(S), q # <<>>
  PROVE  \E source : /\ Rearranges(Pop(q), q, source)
                     /\ \A i \in DOMAIN Pop(q) : source[i] # 1
<1> DEFINE m == Len(q) - 1
           r == SubSeq(q, 1, m)
           path == PathDown(r)
           leaf == CHOOSE i \in path : 2*i > m
           down(i) == IF i \in path \ {leaf} THEN BiggerChild(r, i) ELSE i
           shifted == [i \in 1..m |-> IF i \in path \ {leaf} THEN r[BiggerChild(r, i)] ELSE r[i]]
           new == SiftUp(shifted, leaf, q[m + 1])
<1>1. m \in Nat /\ m + 1 \in 1..Len(q) /\ Len(q) = m + 1
  OBVIOUS
<1>2. r \in Seq(S) /\ Len(r) = m /\ \A i \in 1..m : r[i] = q[i]
  <2>1. \A i \in 1..m : q[i] \in S
    OBVIOUS
  <2> HIDE DEF m
  <2> QED BY <1>1, <2>1, SubSeqProperties
<1>3. Pop(q) = IF m = 0 THEN <<>> ELSE new
  BY DEF Pop
<1>4. CASE m = 0
  <2>1. Pop(q) = <<>>
    BY <1>3, <1>4
  <2>2. Rearranges(<<>>, q, <<>>) /\ DOMAIN <<>> = {}
    BY DEF Rearranges, IsInjective
  <2> QED BY <2>1, <2>2
<1>5. CASE m # 0
  <2> HIDE DEF m, r
  <2>1. /\ path \subseteq 1..m /\ 1 \in path
        /\ \A i \in path : 2*i <= m => BiggerChild(r, i) \in path
    BY <1>1, <1>2, <1>5, PathDownClosed
  <2>2. leaf \in path /\ \A i \in path \ {leaf} : 2*i <= m
    BY <1>1, <1>2, <1>5, PathDownLeaf
  <2>3. \A i \in path \ {leaf} : /\ BiggerChild(r, i) \in path
                                 /\ BiggerChild(r, i) = 2*i \/ BiggerChild(r, i) = 2*i + 1
    BY <1>1, <1>2, <2>1, <2>2, BiggerChildIsChild
  <2> HIDE DEF path, leaf
  <2>4. \A i \in 1..m : /\ down(i) \in 1..m /\ shifted[i] = r[down(i)]
                        /\ i # leaf => down(i) # 1
    BY <1>1, <2>1, <2>2, <2>3
  <2>5. \A i, j \in 1..m \ {leaf} : down(i) = down(j) => i = j
    BY <1>1, <2>1, <2>2, <2>3
  <2> HIDE DEF down
  <2>6. shifted \in Seq(S) /\ Len(shifted) = m
    <3>1. \A i \in 1..m : shifted[i] \in S
      BY <1>1, <1>2, <2>4
    <3>2. shifted \in [1..m -> S]
      BY <3>1
    <3> QED BY <1>1, <3>2
  <2> HIDE DEF shifted
  <2>7. leaf \in 1..Len(shifted) /\ q[m + 1] \in S
    BY <1>1, <2>1, <2>2, <2>6
  <2>8. PICK up : Refills(new, shifted, leaf, q[m + 1], up)
    BY <2>6, <2>7, SiftUpSource
  <2>9. new \in Seq(S) /\ Len(new) = m
    BY <2>6, <2>7, SiftUpType
  <2>10. Pop(q) = new
    BY <1>3, <1>5
  <2> HIDE DEF new
  <2> DEFINE source == [i \in 1..m |-> IF up[i] = 0 THEN m + 1 ELSE down(up[i])]
  <2>11. \A i \in 1..m : /\ source[i] \in 1..m + 1 /\ source[i] # 1
                         /\ new[i] = q[source[i]]
    <3> SUFFICES ASSUME NEW i \in 1..m
                 PROVE  /\ source[i] \in 1..m + 1 /\ source[i] # 1
                        /\ new[i] = q[source[i]]
      OBVIOUS
    <3>1. CASE up[i] = 0
      BY <1>1, <1>5, <2>6, <2>8, <3>1 DEF Refills
    <3>2. CASE up[i] # 0
      <4>1. up[i] \in 1..m /\ up[i] # leaf
        BY <1>1, <2>6, <2>8, <3>2 DEF Refills
      <4> QED BY <1>1, <1>2, <2>4, <2>6, <2>8, <3>2, <4>1 DEF Refills
    <3> QED BY <3>1, <3>2
  <2>12. IsInjective(source)
    <3> SUFFICES ASSUME NEW i \in 1..m, NEW j \in 1..m, source[i] = source[j] PROVE i = j
      BY DEF IsInjective
    <3>1. up[i] \in 0..m /\ up[j] \in 0..m /\ up[i] # leaf /\ up[j] # leaf
      BY <2>6, <2>8 DEF Refills
    <3>2. \A k \in 1..m : down(k) # m + 1
      BY <1>1, <2>4
    <3>3. up[i] = up[j]
      BY <1>1, <2>5, <3>1, <3>2
    <3> QED BY <2>6, <2>8, <3>3 DEF Refills, IsInjective
  <2>13. DOMAIN new = 1..m /\ DOMAIN q = 1..m + 1
    BY <1>1, <2>9
  <2> QED BY <2>10, <2>11, <2>12, <2>13 DEF Rearranges
<1> QED BY <1>4, <1>5

(* As many places as are taken from hold the same elements. *)
LEMMA RearrangedElements ==
  ASSUME NEW S, NEW new \in Seq(S), NEW list \in Seq(S), NEW source,
         Rearranges(new, list, source),
         NEW a \in Int, 1..Len(list) # {}, a \in {1, 2}, Len(new) = Len(list) - a + 1,
         \A i \in DOMAIN new : source[i] >= a
  PROVE  /\ Range(new) = {list[k] : k \in a..Len(list)}
         /\ IsInjective(list) => IsInjective(new)
<1> DEFINE I == 1..Len(new)
           K == a..Len(list)
<1>1. /\ Len(new) \in Nat /\ Len(list) \in Nat /\ DOMAIN new = I
      /\ DOMAIN list = 1..Len(list)
  OBVIOUS
<1>2. IsFiniteSet(I) /\ IsFiniteSet(K) /\ Cardinality(I) = Cardinality(K)
  <2>1. IsFiniteSet(I) /\ Cardinality(I) = Len(new)
    <3>1. IsFiniteSet(I) /\ Cardinality(I) = IF 1 > Len(new) THEN 0 ELSE Len(new) - 1 + 1
      BY <1>1, 1 \in Int, Len(new) \in Int, FS_Interval
    <3> QED BY <1>1, <3>1
  <2>2. IsFiniteSet(K) /\ Cardinality(K) = Len(list) - a + 1
    BY <1>1, FS_Interval
  <2> QED BY <2>1, <2>2
<1>3. DOMAIN source = I /\ \A i \in I : source[i] \in K /\ new[i] = list[source[i]]
  <2>1. /\ DOMAIN source = I
        /\ \A i \in I : source[i] \in 1..Len(list) /\ new[i] = list[source[i]]
    BY <1>1 DEF Rearranges
  <2>2. \A i \in I : source[i] >= a
    BY <1>1
  <2>3. \A k \in 1..Len(list) : k >= a => k \in K
    BY <1>1
  <2> HIDE DEF I, K
  <2> QED BY <2>1, <2>2, <2>3
<1> HIDE DEF I, K
<1> DEFINE f == [i \in I |-> source[i]]
<1>4. f \in [I -> K] /\ IsInjective(f)
  BY <1>3 DEF Rearranges, IsInjective
<1>5. f \in Surjection(I, K)
  <2>1. f \in Injection(I, K)
    BY <1>4 DEF Injection
  <2> HIDE DEF f
  <2> QED BY <1>2, <2>1, FS_Injection
<1>6. \A k \in K : \E i \in I : source[i] = k
  BY <1>5 DEF Surjection
<1>7. Range(new) = {list[k] : k \in K}
  BY <1>1, <1>3, <1>6 DEF Range
<1>8. IsInjective(list) => IsInjective(new)
  <2> SUFFICES ASSUME IsInjective(list), NEW i \in I, NEW j \in I, new[i] = new[j] PROVE i = j
    BY <1>1 DEF IsInjective
  <2>1. source[i] = source[j]
    BY <1>1, <1>3 DEF IsInjective, Rearranges
  <2> QED BY <1>1, <2>1 DEF IsInjective, Rearranges
<1> QED BY <1>7, <1>8 DEF K

(* push adds the call and loses none. *)
LEMMA PushElements ==
  ASSUME NEW S, NEW q \in Seq(S), NEW c \in S
  PROVE  /\ Range(Push(q, c)) = Range(q) \cup {c}
         /\ IsInjective(q) /\ c \notin Range(q) => IsInjective(Push(q, c))
<1> DEFINE t == Append(q, c)
           new == Push(q, c)
<1>1. /\ t \in Seq(S) /\ Len(t) = Len(q) + 1 /\ Len(q) \in Nat
      /\ \A i \in 1..Len(t) : t[i] = IF i <= Len(q) THEN q[i] ELSE c
  OBVIOUS
<1>2. new \in Seq(S) /\ Len(new) = Len(t)
  <2>1. new = SiftUp(t, Len(q) + 1, c)
    BY DEF Push
  <2> HIDE DEF t, new
  <2> QED BY <1>1, <2>1, SiftUpType
<1>3. PICK source : Rearranges(new, t, source)
  BY PushRearranges
<1> HIDE DEF t, new
<1>4. /\ Range(new) = {t[k] : k \in 1..Len(t)}
      /\ IsInjective(t) => IsInjective(new)
  <2>1. DOMAIN new = 1..Len(new) /\ DOMAIN t = 1..Len(t) /\ 1..Len(t) # {}
    BY <1>1, <1>2
  <2>2. \A i \in DOMAIN new : source[i] >= 1
    BY <1>3, <2>1 DEF Rearranges
  <2>3. Len(new) = Len(t) - 1 + 1
    BY <1>1, <1>2
  <2> QED BY <1>1, <1>2, <1>3, <2>1, <2>2, <2>3, RearrangedElements
<1>5. DOMAIN q = 1..Len(q) /\ DOMAIN t = 1..Len(t) /\ Len(t) = Len(q) + 1
  BY <1>1
<1>6. {t[k] : k \in 1..Len(t)} = Range(q) \cup {c}
  BY <1>1, <1>5 DEF Range
<1>7. IsInjective(q) /\ c \notin Range(q) => IsInjective(t)
  BY <1>1, <1>5 DEF IsInjective, Range
<1> QED BY <1>4, <1>6, <1>7 DEF new

(* pop removes the top and nothing else. *)
LEMMA PopElements ==
  ASSUME NEW S, NEW q \in Seq(S), q # <<>>, IsInjective(q)
  PROVE  /\ Range(Pop(q)) = Range(q) \ {Top(q)}
         /\ IsInjective(Pop(q))
<1> DEFINE new == Pop(q)
<1>1. new \in Seq(S)
  BY PopType
<1>2. PICK source : /\ Rearranges(new, q, source)
                    /\ \A i \in DOMAIN new : source[i] # 1
  BY PopRearranges
<1>3. Len(new) = Len(q) - 1
  BY PopType
<1> HIDE DEF new
<1>4. Len(q) \in Nat /\ 1..Len(q) # {} /\ DOMAIN q = 1..Len(q)
  <2>1. Len(q) \in Nat /\ Len(q) # 0 /\ DOMAIN q = 1..Len(q)
    OBVIOUS
  <2> QED BY <2>1
<1>5. Range(new) = {q[k] : k \in 2..Len(q)} /\ IsInjective(new)
  <2>1. \A i \in DOMAIN new : source[i] >= 2
    BY <1>2, <1>4 DEF Rearranges
  <2>2. Len(new) = Len(q) - 2 + 1
    BY <1>3, <1>4
  <2> QED BY <1>1, <1>2, <1>4, <2>1, <2>2, RearrangedElements
<1>6. {q[k] : k \in 2..Len(q)} = Range(q) \ {Top(q)}
  BY <1>4 DEF Range, Top, IsInjective
<1> QED BY <1>5, <1>6 DEF new

-----------------------------------------------------------------------------
(***************************************************************************)
(* remoteHandler inserts a call after the stable prefix, and not beyond    *)
(* the end of the list.                                                    *)
(***************************************************************************)
LEMMA InsertPositionRange ==
  ASSUME NEW n, NEW c, Len(executionList[n]) \in Nat, stable_index[n] \in Nat,
         stable_index[n] <= Len(executionList[n])
  PROVE  InsertPosition(n, c) \in stable_index[n] + 1 .. Len(executionList[n]) + 1
<1> DEFINE conflicts == {i \in Unstable(n) : FastIsReachableRemote(c, executionList[n][i])}
<1>1. CASE conflicts = {}
  BY <1>1 DEF InsertPosition
<1>2. CASE conflicts # {}
  <2>1. conflicts \in SUBSET Nat
    BY DEF Unstable
  <2>2. \E i \in conflicts : \A k \in conflicts : i <= k
    BY <1>2, <2>1, LeastNumber
  <2>3. InsertPosition(n, c) \in conflicts
    BY <1>2, <2>2 DEF InsertPosition
  <2> QED BY <2>3 DEF Unstable
<1> QED BY <1>1, <1>2

(***************************************************************************)
(* stabilizerWithAck stops at a place between the old stable index and the *)
(* end of the list: before the first call short of acknowledgements.       *)
(***************************************************************************)
LEMMA StableUpToProperties ==
  ASSUME NEW n, NEW a, Len(executionList[n]) \in Nat, stable_index[n] \in Nat,
         stable_index[n] <= Len(executionList[n])
  PROVE  /\ StableUpTo(n, a) \in stable_index[n] .. Len(executionList[n])
         /\ \A k \in stable_index[n] + 1 .. StableUpTo(n, a) : Acked(n, a, k)
<1> DEFINE s == stable_index[n]
           l == Len(executionList[n])
           short == {i \in s + 1 .. l : ~Acked(n, a, i)}
           P(i) == /\ \A k \in s + 1 .. i : Acked(n, a, k)
                   /\ i < l => ~Acked(n, a, i + 1)
<1>1. \E i \in s .. l : P(i)
  <2>1. CASE short = {}
    <3>1. P(l)
      BY <2>1
    <3> QED BY <3>1
  <2>2. CASE short # {}
    <3>1. short \in SUBSET Nat
      OBVIOUS
    <3>2. PICK j \in short : \A k \in short : j <= k
      BY <2>2, <3>1, LeastNumber
    <3>3. j - 1 \in s .. l /\ (j - 1) + 1 = j
      BY <3>1
    <3>4. \A k \in s + 1 .. j - 1 : Acked(n, a, k)
      BY <3>2
    <3>5. P(j - 1)
      BY <3>2, <3>3, <3>4
    <3> QED BY <3>3, <3>5
  <2> QED BY <2>1, <2>2
<1>2. StableUpTo(n, a) = CHOOSE i \in s .. l : P(i)
  BY DEF StableUpTo
<1> HIDE DEF P
<1>3. StableUpTo(n, a) \in s .. l /\ P(StableUpTo(n, a))
  BY <1>1, <1>2
<1> QED BY <1>3 DEF P

-----------------------------------------------------------------------------
(***************************************************************************)
(* The induction.  Type correctness is not inductive by itself: stabilizer *)
(* and insertion need the stable index to stay inside the list, and the    *)
(* drain loop and the pop need a queue that has a top.                     *)
(***************************************************************************)
StableWithinList == \A n \in Node : stable_index[n] <= Len(executionList[n])

UsesQueue(n) ==
  \/ receiver[n] = Drain
  \/ receiver[n].pc \in {"insert", "ack"} /\ receiver[n].queued

QueueHasTop == \A n \in Node : UsesQueue(n) => priorityQueue[n] # <<>>

IInv == TypeOK /\ StableWithinList /\ QueueHasTop

(***************************************************************************)
(* The steps of module Hamsou are looked at with connections that may also *)
(* carry something else than calls and acknowledgements, for the sake of   *)
(* module HamsouFailure: M is what they may carry.                         *)
(***************************************************************************)
Carries(M) == Message \subseteq M /\ \A x \in M \ Message : x.kind \notin {"Call", "Ack"}

Typed(M) ==
  /\ workload \in Workloads
  /\ it \in [Node -> Nat \ {0}]
  /\ turn \in [Node -> {"ack", "call", "last"}]
  /\ waiting \in [Node -> Int]
  /\ executionList \in [Node -> Seq(Call)]
  /\ stable_index \in [Node -> Nat]
  /\ vector_clock \in [Node -> Clock]
  /\ priorityQueue \in [Node -> Seq(Call)]
  /\ acks \in [Node -> [Node -> [1..MaxCallId -> Nat]]]
  /\ unsent_acks \in [Node -> Seq(CallId)]
  /\ receiver \in [Node -> {Idle, Drain} \cup
                           [pc : {"insert", "ack"}, call : Call, queued : BOOLEAN]]
  /\ net \in [Node -> [Node -> Seq(M)]]

IInvOver(M) == Typed(M) /\ StableWithinList /\ QueueHasTop

(* In module Hamsou they carry calls and acknowledgements only. *)
LEMMA OnlyMessages ==
  /\ Carries(Message)
  /\ TypeOK => Typed(Message)
  /\ IInv <=> IInvOver(Message)
  /\ IInv' <=> IInvOver(Message)'
BY DEF Carries, TypeOK, Typed, IInv, IInvOver

(* The next call of a workload file is a call. *)
LEMMA NextCallType ==
  ASSUME NEW M, Carries(M), Typed(M), NEW n \in Node, HasCall(n)
  PROVE  NextCall(n) \in Call
<1>1. workload[n] \in Seq(Op) /\ Len(workload[n]) <= MaxCallId
  BY WorkloadsAssumption DEF Typed
<1>2. it[n] \in 1..Len(workload[n])
  BY <1>1 DEF Typed, HasCall
<1>3. it[n] \in 1..MaxCallId /\ workload[n][it[n]] \in Op
  BY <1>1, <1>2, MaxCallIdAssumption
<1>4. [vector_clock[n] EXCEPT ![n] = @ + 1] \in Clock
  BY DEF Typed, Clock
<1> QED BY <1>3, <1>4 DEF NextCall, Call

(* Sending a message to all others keeps the channels well-formed. *)
LEMMA BroadcastType ==
  ASSUME NEW M, Carries(M), Typed(M), NEW n \in Node, NEW m \in Message, Broadcast(n, m)
  PROVE  net' \in [Node -> [Node -> Seq(M)]]
<1>1. \A r \in Node : net[n][r] \in Seq(M) /\ Append(net[n][r], m) \in Seq(M)
  BY DEF Typed, Carries
<1>2. [r \in Node |-> IF r = n THEN net[n][r] ELSE Append(net[n][r], m)] \in [Node -> Seq(M)]
  BY <1>1
<1> QED BY <1>2 DEF Broadcast, Typed

(* Taking a message from a channel. *)
LEMMA TakeType ==
  ASSUME NEW M, Carries(M), Typed(M), NEW n \in Node, NEW m \in Node, net[m][n] # <<>>,
         net' = [net EXCEPT ![m][n] = Tail(@)]
  PROVE  /\ Head(net[m][n]) \in M
         /\ Head(net[m][n]).kind \in {"Call", "Ack"} => Head(net[m][n]) \in Message
         /\ net' \in [Node -> [Node -> Seq(M)]]
<1>1. net[m][n] \in Seq(M)
  BY DEF Typed
<1>2. Head(net[m][n]) \in M /\ Tail(net[m][n]) \in Seq(M)
  BY <1>1
<1> QED BY <1>2 DEF Typed, Carries

-----------------------------------------------------------------------------
(* The initial states. *)
LEMMA InitIInv == Init => IInv
<1> SUFFICES ASSUME Init PROVE IInv
  OBVIOUS
<1>1. TypeOK
  BY DEF Init, TypeOK, Clock, Idle
<1>2. StableWithinList
  BY DEF Init, StableWithinList
<1>3. QueueHasTop
  BY DEF Init, QueueHasTop, UsesQueue, Idle, Drain
<1> QED BY <1>1, <1>2, <1>3 DEF IInv

(* The main thread. *)
LEMMA SendAckIInv == ASSUME NEW M, Carries(M), IInvOver(M), NEW n \in Node, SendAck(n) PROVE IInvOver(M)'
<1>1. unsent_acks[n] \in Seq(CallId) /\ unsent_acks[n] # <<>>
  BY DEF IInvOver, Typed, SendAck
<1>2. Head(unsent_acks[n]) \in CallId /\ Tail(unsent_acks[n]) \in Seq(CallId)
  BY <1>1
<1>3. AckMessage(Head(unsent_acks[n])) \in Message
  BY <1>2 DEF AckMessage, Message
<1>4. net' \in [Node -> [Node -> Seq(M)]]
  BY <1>3, BroadcastType DEF IInvOver, SendAck
<1>5. Typed(M)'
  BY <1>2, <1>4 DEF IInvOver, Typed, SendAck, handlerVars, receiverVars
<1>6. StableWithinList' /\ QueueHasTop'
  BY DEF IInvOver, StableWithinList, QueueHasTop, UsesQueue, SendAck, handlerVars, receiverVars
<1> QED BY <1>5, <1>6 DEF IInvOver

(* localHandler and the broadcast keep IInv. *)
LEMMA ExecuteLocalIInv == ASSUME NEW M, Carries(M), IInvOver(M), NEW n \in Node, ExecuteLocal(n) PROVE IInvOver(M)'
<1> DEFINE c == NextCall(n)
<1>1. c \in Call
  BY NextCallType DEF IInvOver, ExecuteLocal, AtCall
<1>2. CallMessage(c) \in Message
  BY <1>1 DEF CallMessage, Message
<1>3. net' \in [Node -> [Node -> Seq(M)]]
  BY <1>2, BroadcastType DEF IInvOver, ExecuteLocal
<1>4. c.vc \in Clock
  BY <1>1 DEF Call
<1>5. /\ executionList' = [executionList EXCEPT ![n] = Append(@, c)]
      /\ vector_clock' = [vector_clock EXCEPT ![n] = c.vc]
  BY DEF ExecuteLocal
<1> HIDE DEF c
<1>6. /\ Append(executionList[n], c) \in Seq(Call)
      /\ Len(Append(executionList[n], c)) = Len(executionList[n]) + 1
  BY <1>1 DEF IInvOver, Typed
<1>7. executionList' \in [Node -> Seq(Call)] /\ vector_clock' \in [Node -> Clock]
  BY <1>4, <1>5, <1>6 DEF IInvOver, Typed
<1>8. Typed(M)'
  <2>1. /\ it' = [it EXCEPT ![n] = @ + 1]
        /\ waiting' = [waiting EXCEPT ![n] = -1]
        /\ turn' = [turn EXCEPT ![n] = "ack"]
        /\ UNCHANGED <<workload, stable_index, priorityQueue, acks, receiver, unsent_acks>>
    BY DEF ExecuteLocal, receiverVars
  <2>2. it' \in [Node -> Nat \ {0}] /\ waiting' \in [Node -> Int]
    BY <2>1 DEF IInvOver, Typed
  <2>3. turn' \in [Node -> {"ack", "call", "last"}]
    BY <2>1 DEF IInvOver, Typed
  <2> QED BY <1>3, <1>7, <2>1, <2>2, <2>3 DEF IInvOver, Typed
<1>9. StableWithinList'
  <2>1. \A m \in Node : Len(executionList[m]) \in Nat /\ stable_index[m] \in Nat
    BY DEF IInvOver, Typed
  <2>2. \A m \in Node : Len(executionList'[m]) >= Len(executionList[m])
    BY <1>5, <1>6, <2>1 DEF IInvOver, Typed
  <2>3. \A m \in Node : Len(executionList'[m]) \in Nat
    BY <1>7
  <2> QED BY <2>1, <2>2, <2>3 DEF IInvOver, StableWithinList, ExecuteLocal
<1>10. QueueHasTop'
  BY DEF IInvOver, QueueHasTop, UsesQueue, ExecuteLocal, receiverVars
<1> QED BY <1>8, <1>9, <1>10 DEF IInvOver

(* The other steps of the main thread keep IInv. *)
LEMMA OtherMainIInv ==
  ASSUME NEW M, Carries(M), IInvOver(M), NEW n \in Node, NoAckToSend(n) \/ RefuseLocal(n)
  PROVE  IInvOver(M)'
<1>1. turn' \in [Node -> {"ack", "call", "last"}]
  BY DEF IInvOver, Typed, NoAckToSend, RefuseLocal
<1>2. waiting' \in [Node -> Int]
  <2>1. CASE NoAckToSend(n)
    BY <2>1 DEF IInvOver, Typed, NoAckToSend
  <2>2. CASE RefuseLocal(n)
    BY <2>2 DEF IInvOver, Typed, RefuseLocal
  <2> QED BY <2>1, <2>2
<1>3. UNCHANGED <<workload, it, executionList, stable_index, vector_clock, priorityQueue,
                  acks, receiver, unsent_acks, net>>
  BY DEF NoAckToSend, RefuseLocal, handlerVars, receiverVars
<1>4. Typed(M)'
  BY <1>1, <1>2, <1>3 DEF IInvOver, Typed
<1>5. StableWithinList' /\ QueueHasTop'
  BY <1>3 DEF IInvOver, StableWithinList, QueueHasTop, UsesQueue
<1> QED BY <1>4, <1>5 DEF IInvOver

-----------------------------------------------------------------------------
(* The receiver thread. *)
ReceiverState == {Idle, Drain} \cup [pc : {"insert", "ack"}, call : Call, queued : BOOLEAN]

(* Receiving a call keeps IInv. *)
LEMMA ReceiveCallIInv ==
  ASSUME NEW M, Carries(M), IInvOver(M), NEW n \in Node, NEW m \in Node, ReceiveCall(n, m)
  PROVE  IInvOver(M)'
<1> DEFINE c == Head(net[m][n]).call
<1>1. Head(net[m][n]) \in Message /\ net' \in [Node -> [Node -> Seq(M)]]
  BY TakeType DEF IInvOver, ReceiveCall
<1>2. c \in Call
  BY <1>1 DEF Message, ReceiveCall
<1>3. IF MustQueue(n, c)
      THEN /\ priorityQueue' = [priorityQueue EXCEPT ![n] = Push(@, c)]
           /\ receiver' = [receiver EXCEPT ![n] = Drain]
      ELSE /\ receiver' = [receiver EXCEPT ![n] = Handling("insert", c, FALSE)]
           /\ priorityQueue' = priorityQueue
  BY DEF ReceiveCall
<1> HIDE DEF c
<1>4. Push(priorityQueue[n], c) \in Seq(Call) /\ Push(priorityQueue[n], c) # <<>>
  <2> DEFINE q == priorityQueue[n]
  <2>1. q \in Seq(Call)
    BY DEF IInvOver, Typed
  <2> HIDE DEF q
  <2>2. Push(q, c) \in Seq(Call) /\ Push(q, c) # <<>>
    BY <1>2, <2>1, PushType
  <2> QED BY <2>2 DEF q
<1>5. Drain \in ReceiverState /\ Handling("insert", c, FALSE) \in ReceiverState
  BY <1>2 DEF ReceiverState, Handling
<1>6. priorityQueue' \in [Node -> Seq(Call)]
  BY <1>3, <1>4 DEF IInvOver, Typed
<1>7. receiver' \in [Node -> ReceiverState]
  BY <1>3, <1>5 DEF IInvOver, Typed, ReceiverState
<1>8. Typed(M)'
  BY <1>1, <1>6, <1>7 DEF IInvOver, Typed, ReceiveCall, mainVars, handlerVars, ReceiverState
<1>9. StableWithinList'
  BY DEF IInvOver, StableWithinList, ReceiveCall, handlerVars
<1>10. QueueHasTop'
  <2> SUFFICES ASSUME NEW r \in Node, UsesQueue(r)' PROVE priorityQueue'[r] # <<>>
    BY DEF QueueHasTop
  <2>1. CASE r # n
    BY <1>3, <2>1 DEF IInvOver, Typed, QueueHasTop, UsesQueue
  <2>2. CASE r = n
    <3>1. CASE MustQueue(n, c)
      BY <1>3, <1>4, <2>2, <3>1 DEF IInvOver, Typed
    <3>2. CASE ~MustQueue(n, c)
      BY <1>3, <2>2, <3>2 DEF IInvOver, Typed, UsesQueue, Handling, Drain
    <3> QED BY <3>1, <3>2
  <2> QED BY <2>1, <2>2
<1> QED BY <1>8, <1>9, <1>10 DEF IInvOver

(* The insertion by remoteHandler is inside the list and keeps IInv. *)
LEMMA ExecuteRemoteIInv == ASSUME NEW M, Carries(M), IInvOver(M), NEW n \in Node, ExecuteRemote(n) PROVE IInvOver(M)'
<1> DEFINE c == receiver[n].call
           i == InsertPosition(n, c)
           list == executionList[n]
           new == InsertAt(list, i, c)
<1>1. receiver[n].pc = "insert" /\ receiver[n] \in [pc : {"insert", "ack"}, call : Call, queued : BOOLEAN]
  BY DEF IInvOver, Typed, ExecuteRemote, Idle, Drain
<1>2. c \in Call /\ c.node_id \in Node
  BY <1>1 DEF Call
<1>3. list \in Seq(Call) /\ Len(list) \in Nat /\ stable_index[n] \in Nat
      /\ stable_index[n] <= Len(list)
  BY DEF IInvOver, Typed, StableWithinList
<1>4. /\ executionList' = [executionList EXCEPT ![n] = new]
      /\ vector_clock' = [vector_clock EXCEPT ![n][c.node_id] = @ + 1]
      /\ receiver' = [receiver EXCEPT ![n].pc = "ack"]
  BY DEF ExecuteRemote
<1>5. UNCHANGED <<workload, it, turn, waiting, stable_index, priorityQueue, acks, unsent_acks, net>>
  BY DEF ExecuteRemote, mainVars
<1>6. i \in 1..Len(list) + 1
  <2>1. i \in stable_index[n] + 1 .. Len(list) + 1
    BY <1>3, InsertPositionRange
  <2> HIDE DEF i
  <2> QED BY <1>3, <2>1
<1> HIDE DEF i
<1>7. new \in Seq(Call) /\ Len(new) = Len(list) + 1
  BY <1>2, <1>3, <1>6, InsertAtList
<1> HIDE DEF new, c
<1>8. executionList' \in [Node -> Seq(Call)]
  BY <1>4, <1>7 DEF IInvOver, Typed
<1>9. vector_clock' \in [Node -> Clock]
  <2>1. vector_clock[n] \in [Node -> Nat]
    BY DEF IInvOver, Typed, Clock
  <2>2. [vector_clock[n] EXCEPT ![c.node_id] = @ + 1] \in [Node -> Nat]
    BY <1>2, <2>1
  <2>3. vector_clock' = [vector_clock EXCEPT ![n] = [vector_clock[n] EXCEPT ![c.node_id] = @ + 1]]
    BY <1>4
  <2> QED BY <2>2, <2>3 DEF IInvOver, Typed, Clock
<1>10. receiver' \in [Node -> ReceiverState]
  BY <1>1, <1>4 DEF IInvOver, Typed, ReceiverState
<1>11. Typed(M)'
  BY <1>5, <1>8, <1>9, <1>10 DEF IInvOver, Typed, ReceiverState
<1>12. StableWithinList'
  BY <1>3, <1>4, <1>5, <1>7 DEF IInvOver, Typed, StableWithinList
<1>13. QueueHasTop'
  BY <1>1, <1>4, <1>5 DEF IInvOver, Typed, QueueHasTop, UsesQueue, Drain
<1> QED BY <1>11, <1>12, <1>13 DEF IInvOver

(* Recording the acknowledgement, with the pop, keeps IInv. *)
LEMMA RecordAckIInv == ASSUME NEW M, Carries(M), IInvOver(M), NEW n \in Node, RecordAck(n) PROVE IInvOver(M)'
<1> DEFINE c == receiver[n].call
           rest == IF receiver[n].queued THEN Pop(priorityQueue[n]) ELSE priorityQueue[n]
<1>1. receiver[n].pc = "ack" /\ receiver[n] \in [pc : {"insert", "ack"}, call : Call, queued : BOOLEAN]
  BY DEF IInvOver, Typed, RecordAck, Idle, Drain
<1>2. IdOf(c) \in CallId
  BY <1>1 DEF Call, IdOf, CallId
<1>3. unsent_acks' \in [Node -> Seq(CallId)]
  BY <1>2 DEF IInvOver, Typed, RecordAck
<1>4. rest \in Seq(Call)
  <2> DEFINE q == priorityQueue[n]
  <2>1. q \in Seq(Call)
    BY DEF IInvOver, Typed
  <2>2. CASE receiver[n].queued
    <3>1. q # <<>>
      BY <1>1, <2>2 DEF IInvOver, QueueHasTop, UsesQueue
    <3> HIDE DEF q
    <3>2. Pop(q) \in Seq(Call)
      BY <2>1, <3>1, PopType
    <3> QED BY <2>2, <3>2 DEF q
  <2>3. CASE ~receiver[n].queued
    BY <2>1, <2>3
  <2> QED BY <2>2, <2>3
<1>5. priorityQueue' = [priorityQueue EXCEPT ![n] = rest]
  BY DEF RecordAck
<1>6. priorityQueue'[n] = rest /\ priorityQueue' \in [Node -> Seq(Call)]
  BY <1>4, <1>5 DEF IInvOver, Typed
<1>7. receiver' = [receiver EXCEPT ![n] = DrainOrIdle(rest)]
  BY <1>6 DEF RecordAck
<1>8. UNCHANGED <<workload, it, turn, waiting, executionList, stable_index, vector_clock, acks, net>>
  BY DEF RecordAck, mainVars, handlerVars
<1> HIDE DEF rest
<1>9. receiver' \in [Node -> ReceiverState]
  BY <1>7 DEF IInvOver, Typed, ReceiverState, DrainOrIdle
<1>10. Typed(M)'
  BY <1>3, <1>6, <1>8, <1>9 DEF IInvOver, Typed, ReceiverState
<1>11. StableWithinList'
  BY <1>8 DEF IInvOver, StableWithinList
<1>12. QueueHasTop'
  <2> SUFFICES ASSUME NEW r \in Node, UsesQueue(r)' PROVE priorityQueue'[r] # <<>>
    BY DEF QueueHasTop
  <2>1. CASE r # n
    BY <1>5, <1>7, <2>1 DEF IInvOver, Typed, QueueHasTop, UsesQueue
  <2>2. CASE r = n
    BY <1>6, <1>7, <2>2 DEF IInvOver, Typed, UsesQueue, DrainOrIdle, Idle, Drain
  <2> QED BY <2>1, <2>2
<1> QED BY <1>10, <1>11, <1>12 DEF IInvOver

(* internalDownstreamExecute looks at the top of a queue that has one. *)
LEMMA DrainQueueIInv == ASSUME NEW M, Carries(M), IInvOver(M), NEW n \in Node, DrainQueue(n) PROVE IInvOver(M)'
<1> DEFINE q == priorityQueue[n]
           next == IF MustQueue(n, Top(q)) THEN Idle ELSE Handling("insert", Top(q), TRUE)
<1>1. q \in Seq(Call) /\ q # <<>>
  BY DEF IInvOver, Typed, QueueHasTop, UsesQueue, DrainQueue
<1>2. Top(q) \in Call
  <2> HIDE DEF q
  <2> QED BY <1>1, TopType
<1>3. next \in ReceiverState
  BY <1>2 DEF ReceiverState, Handling
<1>4. receiver' = [receiver EXCEPT ![n] = next]
  BY DEF DrainQueue
<1>5. UNCHANGED <<workload, it, turn, waiting, executionList, stable_index, vector_clock,
                  priorityQueue, acks, unsent_acks, net>>
  BY DEF DrainQueue, mainVars, handlerVars
<1> HIDE DEF next
<1>6. receiver' \in [Node -> ReceiverState]
  BY <1>3, <1>4 DEF IInvOver, Typed, ReceiverState
<1>7. Typed(M)'
  BY <1>5, <1>6 DEF IInvOver, Typed, ReceiverState
<1>8. StableWithinList'
  BY <1>5 DEF IInvOver, StableWithinList
<1>9. QueueHasTop'
  BY <1>1, <1>4, <1>5 DEF IInvOver, Typed, QueueHasTop, UsesQueue
<1> QED BY <1>7, <1>8, <1>9 DEF IInvOver

(* stabilizerWithAck leaves the stable index inside the list. *)
LEMMA ReceiveAckIInv ==
  ASSUME NEW M, Carries(M), IInvOver(M), NEW n \in Node, NEW m \in Node, ReceiveAck(n, m)
  PROVE  IInvOver(M)'
<1> DEFINE a == Head(net[m][n]).ack
           counts == [acks[n] EXCEPT ![a.node_id][a.call_id] = @ + 1]
           last == IF counts[a.node_id][a.call_id] >= Quorum(n, a.node_id)
                   THEN StableUpTo(n, counts) ELSE stable_index[n]
           next == IF last > stable_index[n] THEN DrainOrIdle(priorityQueue[n]) ELSE Idle
<1>1. Head(net[m][n]) \in Message /\ net' \in [Node -> [Node -> Seq(M)]]
  BY TakeType DEF IInvOver, ReceiveAck
<1>2. a \in CallId
  BY <1>1 DEF Message, ReceiveAck
<1>3. /\ acks' = [acks EXCEPT ![n] = counts]
      /\ stable_index' = [stable_index EXCEPT ![n] = last]
      /\ receiver' = [receiver EXCEPT ![n] = next]
  BY DEF ReceiveAck
<1>4. UNCHANGED <<workload, it, waiting, executionList, vector_clock, priorityQueue, unsent_acks>>
  BY DEF ReceiveAck
<1>4a. turn' \in [Node -> {"ack", "call", "last"}]
  BY DEF ReceiveAck, IInvOver, Typed
<1>5. Len(executionList[n]) \in Nat /\ stable_index[n] \in Nat
      /\ stable_index[n] <= Len(executionList[n])
  BY DEF IInvOver, Typed, StableWithinList
<1>6. counts \in [Node -> [1..MaxCallId -> Nat]]
  <2>1. acks[n] \in [Node -> [1..MaxCallId -> Nat]]
    BY DEF IInvOver, Typed
  <2>2. a.node_id \in Node /\ a.call_id \in 1..MaxCallId
    BY <1>2 DEF CallId
  <2> HIDE DEF a
  <2>3. acks[n][a.node_id] \in [1..MaxCallId -> Nat]
    BY <2>1, <2>2
  <2> DEFINE row == [acks[n][a.node_id] EXCEPT ![a.call_id] = @ + 1]
  <2>4. row \in [1..MaxCallId -> Nat]
    <3> DEFINE r == acks[n][a.node_id]
               k == a.call_id
    <3> HIDE DEF r, k
    <3>1. r \in [1..MaxCallId -> Nat] /\ k \in 1..MaxCallId
      BY <2>2, <2>3 DEF r, k
    <3>2. [r EXCEPT ![k] = @ + 1] \in [1..MaxCallId -> Nat]
      BY <3>1
    <3> QED BY <3>2 DEF r, k
  <2>5. counts = [acks[n] EXCEPT ![a.node_id] = row]
    OBVIOUS
  <2> HIDE DEF counts, row
  <2> QED BY <2>1, <2>2, <2>4, <2>5
<1> HIDE DEF counts, a
<1>7. last \in stable_index[n] .. Len(executionList[n])
  <2>1. StableUpTo(n, counts) \in stable_index[n] .. Len(executionList[n])
    BY <1>5, StableUpToProperties
  <2> QED BY <1>5, <2>1
<1> HIDE DEF last
<1>8. next \in ReceiverState
  BY DEF ReceiverState, DrainOrIdle
<1>9. receiver' \in [Node -> ReceiverState]
  <2> HIDE DEF next
  <2> QED BY <1>3, <1>8 DEF IInvOver, Typed, ReceiverState
<1>10. acks' \in [Node -> [Node -> [1..MaxCallId -> Nat]]]
  BY <1>3, <1>6 DEF IInvOver, Typed
<1>11. stable_index' \in [Node -> Nat]
  BY <1>3, <1>5, <1>7 DEF IInvOver, Typed
<1>12. Typed(M)'
  BY <1>1, <1>4, <1>4a, <1>9, <1>10, <1>11 DEF IInvOver, Typed, ReceiverState
<1>13. StableWithinList'
  BY <1>3, <1>4, <1>5, <1>7 DEF IInvOver, Typed, StableWithinList
<1>14. QueueHasTop'
  <2> SUFFICES ASSUME NEW r \in Node, UsesQueue(r)' PROVE priorityQueue'[r] # <<>>
    BY DEF QueueHasTop
  <2>1. CASE r # n
    BY <1>3, <1>4, <2>1 DEF IInvOver, Typed, QueueHasTop, UsesQueue
  <2>2. CASE r = n
    BY <1>3, <1>4, <2>2 DEF IInvOver, Typed, UsesQueue, DrainOrIdle, Idle, Drain
  <2> QED BY <2>1, <2>2
<1> QED BY <1>12, <1>13, <1>14 DEF IInvOver

-----------------------------------------------------------------------------
(* Every step. *)
LEMMA NextIInv == IInv /\ [Next]_vars => IInv'
<1> SUFFICES ASSUME IInv, [Next]_vars PROVE IInv'
  OBVIOUS
<1>1. CASE UNCHANGED vars
  BY <1>1 DEF vars, mainVars, handlerVars, receiverVars, IInv, TypeOK, StableWithinList,
              QueueHasTop, UsesQueue
<1> USE OnlyMessages
<1>2. ASSUME NEW n \in Node, Main(n) PROVE IInv'
  BY <1>2, SendAckIInv, ExecuteLocalIInv, OtherMainIInv DEF Main
<1>3. ASSUME NEW n \in Node, Receive(n) PROVE IInv'
  BY <1>3, ReceiveCallIInv, ReceiveAckIInv DEF Receive
<1>4. ASSUME NEW n \in Node, ExecuteRemote(n) \/ RecordAck(n) \/ DrainQueue(n) PROVE IInv'
  BY <1>4, ExecuteRemoteIInv, RecordAckIInv, DrainQueueIInv
<1> QED BY <1>1, <1>2, <1>3, <1>4 DEF Next, Receiver

(* IInv is an invariant. *)
LEMMA Invariance == Spec => []IInv
BY InitIInv, NextIInv, PTL DEF Spec

(***************************************************************************)
(* The handler, both threads and the channels stay well-formed: in         *)
(* particular remoteHandler and stabilizerWithAck never leave the list,    *)
(* and top() is never read from an empty queue.                            *)
(***************************************************************************)
THEOREM TypeCorrect == Spec => []TypeOK
BY Invariance, PTL DEF IInv

-----------------------------------------------------------------------------
(***************************************************************************)
(* The stable prefix.  Only three actions change a list or its stable      *)
(* index: a local call is appended, a remote one is put behind the stable  *)
(* prefix, and an acknowledgement moves the index forward.                 *)
(***************************************************************************)
PrefixKept(n) ==
  /\ stable_index[n] <= stable_index'[n]
  /\ \A k \in 1..stable_index[n] : executionList'[n][k] = executionList[n][k]

(* A kept prefix, as a statement about sequences. *)
LEMMA KeptIsPrefix ==
  ASSUME NEW M, Carries(M), IInvOver(M), IInvOver(M)', NEW n \in Node, PrefixKept(n)
  PROVE  IsPrefix(StablePrefix(n), StablePrefix(n)')
<1> DEFINE s == executionList[n]
           t == executionList'[n]
           i == stable_index[n]
           j == stable_index'[n]
<1>1. s \in Seq(Call) /\ t \in Seq(Call) /\ i \in 0..Len(s) /\ j \in 0..Len(t)
  BY DEF IInvOver, Typed, StableWithinList
<1>2. i <= j /\ \A k \in 1..i : s[k] = t[k]
  BY DEF PrefixKept
<1> HIDE DEF s, t, i, j
<1>3. IsPrefix(SubSeq(s, 1, i), SubSeq(t, 1, j))
  BY <1>1, <1>2, BeginningsArePrefixes
<1> QED BY <1>3 DEF s, t, i, j, StablePrefix

(* A change of one list behind its stable index keeps every prefix. *)
LEMMA ListChangeKeeps ==
  ASSUME NEW M, Carries(M), IInvOver(M), NEW n \in Node, NEW new, NEW r \in Node,
         executionList' = [executionList EXCEPT ![n] = new], stable_index' = stable_index,
         \A k \in 1..stable_index[n] : new[k] = executionList[n][k]
  PROVE  PrefixKept(r)
<1>1. stable_index[r] <= stable_index'[r]
  BY DEF IInvOver, Typed
<1>2. ASSUME NEW k \in 1..stable_index[r] PROVE executionList'[r][k] = executionList[r][k]
  <2>1. CASE r = n
    BY <2>1 DEF IInvOver, Typed
  <2>2. CASE r # n
    BY <2>2 DEF IInvOver, Typed
  <2> QED BY <2>1, <2>2
<1> QED BY <1>1, <1>2 DEF PrefixKept

(* So does a step that touches no list. *)
LEMMA UntouchedKept ==
  ASSUME NEW M, Carries(M), IInvOver(M), UNCHANGED <<executionList, stable_index>>, NEW r \in Node
  PROVE  PrefixKept(r)
BY DEF PrefixKept, IInvOver, Typed

(* localHandler only appends. *)
LEMMA ExecuteLocalKeeps ==
  ASSUME NEW M, Carries(M), IInvOver(M), NEW n \in Node, ExecuteLocal(n), NEW r \in Node
  PROVE  PrefixKept(r)
<1> DEFINE c == NextCall(n)
<1>1. /\ executionList' = [executionList EXCEPT ![n] = Append(@, c)]
      /\ stable_index' = stable_index
  BY DEF ExecuteLocal
<1>2. /\ executionList[n] \in Seq(Call) /\ c \in Call
      /\ stable_index[n] \in Nat /\ stable_index[n] <= Len(executionList[n])
  BY NextCallType DEF IInvOver, Typed, StableWithinList, ExecuteLocal, AtCall
<1> HIDE DEF c
<1>3. ASSUME NEW k \in 1..stable_index[n]
      PROVE  Append(executionList[n], c)[k] = executionList[n][k]
  BY <1>2
<1> QED BY <1>1, <1>3, ListChangeKeeps

(* remoteHandler only inserts behind the stable index. *)
LEMMA ExecuteRemoteKeeps ==
  ASSUME NEW M, Carries(M), IInvOver(M), NEW n \in Node, ExecuteRemote(n), NEW r \in Node
  PROVE  PrefixKept(r)
<1> DEFINE c == receiver[n].call
           i == InsertPosition(n, c)
           list == executionList[n]
           new == InsertAt(list, i, c)
<1>1. executionList' = [executionList EXCEPT ![n] = new] /\ stable_index' = stable_index
  BY DEF ExecuteRemote
<1>2. c \in Call
  <2>1. receiver[n] \in [pc : {"insert", "ack"}, call : Call, queued : BOOLEAN]
    BY DEF IInvOver, Typed, ExecuteRemote, Idle, Drain
  <2> QED BY <2>1
<1>3. list \in Seq(Call) /\ Len(list) \in Nat /\ stable_index[n] \in Nat
      /\ stable_index[n] <= Len(list)
  BY DEF IInvOver, Typed, StableWithinList
<1>4. i \in stable_index[n] + 1 .. Len(list) + 1
  BY <1>3, InsertPositionRange
<1> HIDE DEF c, i
<1>5. i \in 1..Len(list) + 1
  BY <1>3, <1>4
<1>6. \A k \in 1..Len(list) + 1 : k < i => new[k] = list[k]
  <2> HIDE DEF list
  <2>1. \A k \in 1..Len(list) + 1 :
          new[k] = IF k < i THEN list[k] ELSE IF k = i THEN c ELSE list[k - 1]
    BY <1>2, <1>3, <1>5, InsertAtList
  <2> QED BY <2>1
<1>7. \A k \in 1..stable_index[n] : k < i /\ k \in 1..Len(list) + 1
  BY <1>3, <1>4
<1> HIDE DEF new
<1> QED BY <1>1, <1>6, <1>7, ListChangeKeeps

(* stabilizerWithAck only moves the stable index forward. *)
LEMMA ReceiveAckKeeps ==
  ASSUME IInv, NEW n \in Node, NEW m \in Node, ReceiveAck(n, m), NEW r \in Node
  PROVE  PrefixKept(r)
<1> DEFINE a == Head(net[m][n]).ack
           counts == [acks[n] EXCEPT ![a.node_id][a.call_id] = @ + 1]
           last == IF counts[a.node_id][a.call_id] >= Quorum(n, a.node_id)
                   THEN StableUpTo(n, counts) ELSE stable_index[n]
<1>1. stable_index' = [stable_index EXCEPT ![n] = last] /\ executionList' = executionList
  BY DEF ReceiveAck
<1>2. Len(executionList[n]) \in Nat /\ stable_index[n] \in Nat
      /\ stable_index[n] <= Len(executionList[n])
  BY DEF IInv, TypeOK, StableWithinList
<1> HIDE DEF counts, a
<1>3. StableUpTo(n, counts) \in stable_index[n] .. Len(executionList[n])
  BY <1>2, StableUpToProperties
<1>4. last >= stable_index[n]
  BY <1>2, <1>3
<1> HIDE DEF last
<1>5. stable_index[r] <= stable_index'[r]
  <2>1. CASE r = n
    BY <1>1, <1>4, <2>1 DEF IInv, TypeOK
  <2>2. CASE r # n
    BY <1>1, <2>2 DEF IInv, TypeOK
  <2> QED BY <2>1, <2>2
<1> QED BY <1>1, <1>5 DEF PrefixKept

(* Every step of the system keeps every stable prefix. *)
LEMMA StepKeepsPrefix ==
  ASSUME IInv, [Next]_vars, NEW r \in Node
  PROVE  PrefixKept(r)
<1> Carries(Message) /\ IInvOver(Message)
  BY OnlyMessages
<1>1. CASE UNCHANGED vars
  BY <1>1, UntouchedKept DEF vars, handlerVars
<1>2. ASSUME NEW n \in Node, Main(n) PROVE PrefixKept(r)
  <2>1. CASE ExecuteLocal(n)
    BY <2>1, ExecuteLocalKeeps
  <2>2. CASE SendAck(n) \/ NoAckToSend(n) \/ RefuseLocal(n)
    BY <2>2, UntouchedKept DEF SendAck, NoAckToSend, RefuseLocal, handlerVars
  <2> QED BY <1>2, <2>1, <2>2 DEF Main
<1>3. ASSUME NEW n \in Node, Receiver(n) PROVE PrefixKept(r)
  <2>1. CASE ExecuteRemote(n)
    BY <2>1, ExecuteRemoteKeeps
  <2>2. CASE \E m \in Node \ {n} : ReceiveAck(n, m)
    BY <2>2, ReceiveAckKeeps
  <2>3. CASE RecordAck(n) \/ DrainQueue(n) \/ \E m \in Node \ {n} : ReceiveCall(n, m)
    BY <2>3, UntouchedKept DEF RecordAck, DrainQueue, ReceiveCall, handlerVars
  <2> QED BY <1>3, <2>1, <2>2, <2>3 DEF Receiver, Receive
<1> QED BY <1>1, <1>2, <1>3 DEF Next

(***************************************************************************)
(* The stable part of the execution list is final: no step of either       *)
(* thread of any node reorders it, cuts it or inserts into it.             *)
(***************************************************************************)
THEOREM StablePrefixIsFinal == Spec => StablePrefixOnlyGrows
<1>1. IInv /\ IInv' /\ [Next]_vars
      => [\A n \in Node : IsPrefix(StablePrefix(n), StablePrefix(n)')]_vars
  BY StepKeepsPrefix, KeptIsPrefix, OnlyMessages
<1> QED BY <1>1, Invariance, PTL DEF Spec, StablePrefixOnlyGrows

-----------------------------------------------------------------------------
(***************************************************************************)
(* The queue.  What queueHandler says of the top of the queue changes only *)
(* when calls are executed, stabilized, queued or popped; the receiver     *)
(* thread does all of that but the execution of local calls, and those are *)
(* appended to the list.                                                   *)
(***************************************************************************)
LEMMA LocalCallKeepsQueued ==
  ASSUME IInv, NEW n \in Node, ExecuteLocal(n), NEW r \in Node,
         MustQueue(r, Top(priorityQueue[r]))
  PROVE  MustQueue(r, Top(priorityQueue[r]))'
<1> DEFINE c == NextCall(n)
           d == Top(priorityQueue[r])
<1>1. /\ executionList' = [executionList EXCEPT ![n] = Append(@, c)]
      /\ stable_index' = stable_index
      /\ priorityQueue' = priorityQueue
  BY DEF ExecuteLocal, receiverVars
<1>2. executionList[n] \in Seq(Call) /\ c \in Call
  BY NextCallType, OnlyMessages DEF IInv, TypeOK, ExecuteLocal, AtCall
<1> HIDE DEF c
<1>3. ASSUME NEW i \in Unstable(r)
      PROVE  i \in Unstable(r)' /\ executionList'[r][i] = executionList[r][i]
  <2>1. i \in stable_index[r] + 1 .. Len(executionList[r])
    BY DEF Unstable
  <2>2. stable_index[r] \in Nat /\ Len(executionList[r]) \in Nat
    BY DEF IInv, TypeOK
  <2>3. CASE r # n
    BY <1>1, <2>1, <2>3 DEF Unstable, IInv, TypeOK
  <2>4. CASE r = n
    <3>1. executionList'[r] = Append(executionList[r], c)
      BY <1>1, <2>4 DEF IInv, TypeOK
    <3>2. /\ Len(Append(executionList[r], c)) = Len(executionList[r]) + 1
          /\ Append(executionList[r], c)[i] = executionList[r][i]
      BY <1>2, <2>1, <2>2, <2>4
    <3>3. i \in stable_index[r] + 1 .. Len(executionList[r]) + 1
      BY <2>1, <2>2
    <3> QED BY <1>1, <3>1, <3>2, <3>3 DEF Unstable
  <2> QED BY <2>3, <2>4
<1> QED BY <1>1, <1>3 DEF MustQueue

(* Every step of the system keeps QueueNotForgotten. *)
LEMMA StepKeepsQueue ==
  ASSUME IInv, QueueNotForgotten, [Next]_vars
  PROVE  QueueNotForgotten'
<1> SUFFICES ASSUME NEW r \in Node, receiver'[r] = Idle, priorityQueue'[r] # <<>>
             PROVE  MustQueue(r, Top(priorityQueue[r]))'
  BY DEF QueueNotForgotten
<1> DEFINE Q == MustQueue(r, Top(priorityQueue[r]))
<1>1. CASE UNCHANGED <<receiver, priorityQueue, executionList, stable_index>>
  BY <1>1 DEF QueueNotForgotten, MustQueue, Unstable
<1>2. ASSUME NEW n \in Node, ExecuteLocal(n) PROVE Q'
  <2>1. UNCHANGED <<receiver, priorityQueue>>
    BY <1>2 DEF ExecuteLocal, receiverVars
  <2>2. Q
    BY <2>1 DEF QueueNotForgotten
  <2> QED BY <1>2, <2>2, LocalCallKeepsQueued
<1>3. ASSUME NEW n \in Node, Receiver(n), n # r PROVE Q'
  <2>1. /\ receiver'[r] = receiver[r] /\ priorityQueue'[r] = priorityQueue[r]
        /\ executionList'[r] = executionList[r] /\ stable_index'[r] = stable_index[r]
    <3>1. /\ DOMAIN receiver = Node /\ DOMAIN priorityQueue = Node
          /\ DOMAIN executionList = Node /\ DOMAIN stable_index = Node
      BY DEF IInv, TypeOK
    <3>2. ASSUME NEW m \in Node, ReceiveCall(n, m)
          PROVE  /\ receiver'[r] = receiver[r] /\ priorityQueue'[r] = priorityQueue[r]
                 /\ executionList'[r] = executionList[r] /\ stable_index'[r] = stable_index[r]
      BY <1>3, <3>1, <3>2 DEF ReceiveCall, handlerVars
    <3>3. ASSUME NEW m \in Node, ReceiveAck(n, m)
          PROVE  /\ receiver'[r] = receiver[r] /\ priorityQueue'[r] = priorityQueue[r]
                 /\ executionList'[r] = executionList[r] /\ stable_index'[r] = stable_index[r]
      BY <1>3, <3>1, <3>3 DEF ReceiveAck
    <3>4. CASE ExecuteRemote(n)
      BY <1>3, <3>1, <3>4 DEF ExecuteRemote
    <3>5. CASE RecordAck(n)
      BY <1>3, <3>1, <3>5 DEF RecordAck, handlerVars
    <3>6. CASE DrainQueue(n)
      BY <1>3, <3>1, <3>6 DEF DrainQueue, handlerVars
    <3> QED BY <1>3, <3>2, <3>3, <3>4, <3>5, <3>6 DEF Receiver, Receive
  <2>2. Q
    BY <2>1 DEF QueueNotForgotten
  <2> QED BY <2>1, <2>2 DEF MustQueue, Unstable
<1>4. ASSUME NEW m \in Node, ReceiveCall(r, m) PROVE Q'
  BY <1>4, SMTT(60) DEF ReceiveCall, IInv, TypeOK, Idle, Drain, Handling
<1>5. ASSUME NEW m \in Node, ReceiveAck(r, m) PROVE Q'
  <2> DEFINE a == Head(net[m][r]).ack
             counts == [acks[r] EXCEPT ![a.node_id][a.call_id] = @ + 1]
             last == IF counts[a.node_id][a.call_id] >= Quorum(r, a.node_id)
                     THEN StableUpTo(r, counts) ELSE stable_index[r]
  <2>1. /\ stable_index' = [stable_index EXCEPT ![r] = last]
        /\ receiver' = [receiver EXCEPT
             ![r] = IF last > stable_index[r] THEN DrainOrIdle(priorityQueue[r]) ELSE Idle]
        /\ priorityQueue' = priorityQueue /\ executionList' = executionList
        /\ receiver[r] = Idle
    BY <1>5 DEF ReceiveAck
  <2> HIDE DEF a, counts
  <2>2. last >= stable_index[r] /\ last \in Int
    BY StableUpToProperties DEF IInv, TypeOK, StableWithinList
  <2> HIDE DEF last
  <2>3. ~(last > stable_index[r])
    BY <2>1 DEF IInv, TypeOK, DrainOrIdle, Idle, Drain
  <2>4. stable_index'[r] = stable_index[r]
    BY <2>1, <2>2, <2>3 DEF IInv, TypeOK
  <2>5. Q
    BY <2>1 DEF QueueNotForgotten
  <2> QED BY <2>1, <2>4, <2>5 DEF MustQueue, Unstable
<1>6. CASE ExecuteRemote(r)
  BY <1>6 DEF ExecuteRemote, IInv, TypeOK, Idle, Drain
<1>7. CASE RecordAck(r)
  BY <1>7 DEF RecordAck, IInv, TypeOK, Idle, Drain, DrainOrIdle
<1>8. CASE DrainQueue(r)
  BY <1>8 DEF DrainQueue, handlerVars, IInv, TypeOK, Idle, Handling, MustQueue, Unstable
<1>9. ASSUME NEW n \in Node, SendAck(n) \/ NoAckToSend(n) \/ RefuseLocal(n) PROVE Q'
  BY <1>1, <1>9 DEF SendAck, NoAckToSend, RefuseLocal, handlerVars, receiverVars
<1>10. CASE UNCHANGED vars
  BY <1>1, <1>10 DEF vars, handlerVars, receiverVars
<1> QED BY <1>2, <1>3, <1>4, <1>5, <1>6, <1>7, <1>8, <1>9, <1>10
        DEF Next, Main, Receiver, Receive

(***************************************************************************)
(* No queued call is forgotten: whenever the receiver thread goes back to  *)
(* polling, the call on top of the queue still has to wait, so every event *)
(* that could let it go has been followed by a drain.                      *)
(***************************************************************************)
THEOREM QueueIsDrained == Spec => []QueueNotForgotten
<1>1. Init => QueueNotForgotten
  BY DEF Init, QueueNotForgotten
<1>2. IInv /\ QueueNotForgotten /\ [Next]_vars => QueueNotForgotten'
  BY StepKeepsQueue
<1> QED BY <1>1, <1>2, Invariance, PTL DEF Spec

-----------------------------------------------------------------------------
(***************************************************************************)
(* The wait of the main thread.  It looks at the stable index without the  *)
(* lock, and the reason to wait must not vanish while the index stands     *)
(* still.  No use case looks at clocks in fastisreachablelocal, so a call  *)
(* that is retried is in conflict with the same calls as before.           *)
(***************************************************************************)
LocalIgnoresClock ==
  \A c \in Call, d \in Call : \A v \in Clock :
    FastIsReachableLocal([c EXCEPT !.vc = v], d) = FastIsReachableLocal(c, d)

WaitInv == NoLostWakeup /\ \A n \in Node : waiting[n] <= stable_index[n]

WaitsRightly(n) ==
  /\ waiting[n] # -1 /\ waiting[n] = stable_index[n]
        => HasCall(n) /\ BlockedLocally(n, NextCall(n))
  /\ waiting[n] <= stable_index[n]

(* WaitInv, node by node. *)
LEMMA WaitInvByNode == WaitInv <=> \A n \in Node : WaitsRightly(n)
BY DEF WaitInv, NoLostWakeup, WaitsRightly

(* A main thread that starts to wait has a reason to. *)
LEMMA RefuseLocalWaits ==
  ASSUME IInv, NEW n \in Node, RefuseLocal(n)
  PROVE  WaitsRightly(n)'
<1>1. waiting'[n] = stable_index[n] /\ stable_index[n] \in Nat
  BY DEF RefuseLocal, IInv, TypeOK
<1>2. UNCHANGED <<it, workload, vector_clock, executionList, stable_index>>
  BY DEF RefuseLocal, handlerVars
<1>3. HasCall(n) /\ BlockedLocally(n, NextCall(n))
  BY DEF RefuseLocal, AtCall
<1> QED BY <1>1, <1>2, <1>3 DEF WaitsRightly, HasCall, BlockedLocally, NextCall, Unstable

(* An insertion may move the call in the way but does not remove it. *)
LEMMA ExecuteRemoteWaits ==
  ASSUME LocalIgnoresClock, IInv, IInv', NEW n \in Node, WaitsRightly(n), ExecuteRemote(n)
  PROVE  WaitsRightly(n)'
<1>1. UNCHANGED <<it, workload, waiting, stable_index>>
  BY DEF ExecuteRemote, mainVars
<1>2. CASE ~(waiting[n] # -1 /\ waiting[n] = stable_index[n])
  BY <1>1, <1>2 DEF WaitsRightly
<1>3. CASE waiting[n] # -1 /\ waiting[n] = stable_index[n]
  <2> DEFINE c == receiver[n].call
             p == InsertPosition(n, c)
             list == executionList[n]
             new == InsertAt(list, p, c)
             x == NextCall(n)
  <2>1. HasCall(n) /\ HasCall(n)' /\ BlockedLocally(n, x)
    BY <1>1, <1>3 DEF WaitsRightly, HasCall
  <2>2. x \in Call
    BY <2>1, NextCallType, OnlyMessages DEF IInv
  <2>3. x' = [x EXCEPT !.vc = x'.vc] /\ x'.vc \in Clock
    <3>1. x'.vc = [vector_clock'[n] EXCEPT ![n] = @ + 1]
      BY DEF NextCall
    <3>2. x'.vc \in Clock
      BY <3>1 DEF IInv, TypeOK, Clock
    <3> QED BY <1>1, <3>2 DEF NextCall
  <2>4. PICK i \in Unstable(n) : FastIsReachableLocal(x, list[i])
    BY <2>1 DEF BlockedLocally
  <2>5. list \in Seq(Call) /\ Len(list) \in Nat /\ stable_index[n] \in Nat
        /\ stable_index[n] <= Len(list) /\ i \in stable_index[n] + 1 .. Len(list)
    BY DEF IInv, TypeOK, StableWithinList, Unstable
  <2>6. c \in Call
    <3>1. receiver[n] \in [pc : {"insert", "ack"}, call : Call, queued : BOOLEAN]
      BY DEF IInv, TypeOK, ExecuteRemote, Idle, Drain
    <3> QED BY <3>1
  <2>7. p \in stable_index[n] + 1 .. Len(list) + 1
    BY <2>5, InsertPositionRange
  <2>8. executionList'[n] = new
    BY DEF ExecuteRemote, IInv, TypeOK
  <2>9. list[i] \in Call
    BY <2>5
  <2> HIDE DEF c, p, x, list
  <2>10. p \in 1..Len(list) + 1
    BY <2>5, <2>7
  <2>11. /\ Len(new) = Len(list) + 1
         /\ \A k \in 1..Len(list) + 1 :
              new[k] = IF k < p THEN list[k] ELSE IF k = p THEN c ELSE list[k - 1]
    BY <2>5, <2>6, <2>10, InsertAtList
  <2> HIDE DEF new
  <2>12. \E k \in stable_index[n] + 1 .. Len(list) + 1 : new[k] = list[i]
    <3>1. CASE i < p
      <4>1. i \in 1..Len(list) + 1 /\ i \in stable_index[n] + 1 .. Len(list) + 1
        BY <2>5
      <4> QED BY <2>11, <3>1, <4>1
    <3>2. CASE p <= i
      <4>1. /\ i + 1 \in 1..Len(list) + 1 /\ i + 1 \in stable_index[n] + 1 .. Len(list) + 1
            /\ ~(i + 1 < p) /\ i + 1 # p /\ (i + 1) - 1 = i
        BY <2>5, <2>7, <3>2
      <4>2. new[i + 1] = list[(i + 1) - 1]
        BY <2>11, <4>1
      <4> QED BY <4>1, <4>2
    <3>3. i < p \/ p <= i
      BY <2>5, <2>10
    <3> QED BY <3>1, <3>2, <3>3
  <2>13. PICK k \in stable_index[n] + 1 .. Len(list) + 1 : new[k] = list[i]
    BY <2>12
  <2>14. k \in Unstable(n)' /\ executionList'[n][k] = list[i]
    BY <1>1, <2>8, <2>11, <2>13 DEF Unstable
  <2>15. FastIsReachableLocal(x', list[i])
    BY <2>2, <2>3, <2>4, <2>9 DEF LocalIgnoresClock
  <2>16. BlockedLocally(n, x)'
    BY <2>14, <2>15 DEF BlockedLocally
  <2> QED BY <1>1, <2>1, <2>16 DEF WaitsRightly, x
<1> QED BY <1>2, <1>3

(* Stabilization ends the wait or leaves the call in the way unstable. *)
LEMMA ReceiveAckWaits ==
  ASSUME IInv, NEW n \in Node, NEW m \in Node, WaitsRightly(n), ReceiveAck(n, m)
  PROVE  WaitsRightly(n)'
<1>1. UNCHANGED <<it, workload, waiting, vector_clock, executionList>>
  BY DEF ReceiveAck
<1>2. stable_index[n] <= stable_index'[n]
  BY ReceiveAckKeeps DEF PrefixKept
<1>3. stable_index[n] \in Nat /\ stable_index'[n] \in Nat /\ waiting[n] \in Int
  BY ReceiveAckIInv, OnlyMessages DEF IInv, TypeOK
<1>4. CASE stable_index'[n] = stable_index[n]
  BY <1>1, <1>4 DEF WaitsRightly, HasCall, BlockedLocally, NextCall, Unstable
<1>5. CASE stable_index'[n] # stable_index[n]
  BY <1>1, <1>2, <1>3, <1>5 DEF WaitsRightly
<1> QED BY <1>4, <1>5

(* Every step of the system keeps the reasons of every wait. *)
LEMMA StepKeepsWaits ==
  ASSUME LocalIgnoresClock, IInv, IInv', [Next]_vars, NEW r \in Node, WaitsRightly(r)
  PROVE  WaitsRightly(r)'
<1>1. CASE /\ it'[r] = it[r] /\ workload' = workload /\ waiting'[r] = waiting[r]
           /\ vector_clock'[r] = vector_clock[r] /\ executionList'[r] = executionList[r]
           /\ stable_index'[r] = stable_index[r]
  BY <1>1 DEF WaitsRightly, HasCall, BlockedLocally, NextCall, Unstable
<1>2. CASE UNCHANGED vars
  BY <1>1, <1>2 DEF vars, mainVars, handlerVars
<1>3. ASSUME NEW n \in Node, Main(n) \/ Receiver(n), n # r PROVE WaitsRightly(r)'
  <2>1. UNCHANGED workload
    BY <1>3 DEF Main, SendAck, NoAckToSend, ExecuteLocal, RefuseLocal, Receiver, Receive,
       ReceiveCall, ReceiveAck, ExecuteRemote, RecordAck, DrainQueue
  <2>2. CASE Main(n)
    <3>1. /\ it \in [Node -> Nat] /\ waiting \in [Node -> Int] /\ vector_clock \in [Node -> Clock]
          /\ executionList \in [Node -> Seq(Call)] /\ stable_index \in [Node -> Nat]
      BY DEF IInv, TypeOK
    <3>2. CASE SendAck(n)
      <4>1. UNCHANGED <<it, waiting, vector_clock, executionList, stable_index>>
        BY <3>2 DEF SendAck, handlerVars
      <4> QED BY <1>1, <2>1, <4>1
    <3>3. CASE NoAckToSend(n)
      BY <1>1, <2>1, <3>3 DEF NoAckToSend, handlerVars
    <3>4. CASE ExecuteLocal(n)
      <4>1. it'[r] = it[r] /\ waiting'[r] = waiting[r]
        BY <1>3, <3>1, <3>4 DEF ExecuteLocal
      <4>2. vector_clock'[r] = vector_clock[r] /\ executionList'[r] = executionList[r]
        BY <1>3, <3>1, <3>4 DEF ExecuteLocal
      <4>3. stable_index'[r] = stable_index[r]
        BY <1>3, <3>1, <3>4 DEF ExecuteLocal
      <4> QED BY <1>1, <2>1, <4>1, <4>2, <4>3
    <3>5. CASE RefuseLocal(n)
      <4>1. it'[r] = it[r] /\ waiting'[r] = waiting[r]
        BY <1>3, <3>1, <3>5 DEF RefuseLocal
      <4>2. UNCHANGED <<vector_clock, executionList, stable_index>>
        BY <3>5 DEF RefuseLocal, handlerVars
      <4> QED BY <1>1, <2>1, <4>1, <4>2
    <3> QED BY <2>2, <3>2, <3>3, <3>4, <3>5 DEF Main
  <2>3. CASE Receiver(n)
    <3>1. CASE \E m \in Node \ {n} : ReceiveAck(n, m)
      <4>1. UNCHANGED <<it, waiting, vector_clock, executionList>>
        BY <3>1 DEF ReceiveAck
      <4>2. stable_index'[r] = stable_index[r]
        <5>1. stable_index \in [Node -> Nat]
          BY DEF IInv, TypeOK
        <5>2. PICK last : stable_index' = [stable_index EXCEPT ![n] = last]
          BY <3>1 DEF ReceiveAck
        <5> QED BY <1>3, <5>1, <5>2
      <4> QED BY <1>1, <2>1, <4>1, <4>2
    <3>2. CASE ExecuteRemote(n) \/ RecordAck(n) \/ DrainQueue(n)
               \/ \E m \in Node \ {n} : ReceiveCall(n, m)
      BY <1>1, <1>3, <2>1, <3>2 DEF IInv, TypeOK, ReceiveCall, ExecuteRemote, RecordAck,
         DrainQueue, handlerVars, mainVars
    <3> QED BY <2>3, <3>1, <3>2 DEF Receiver, Receive
  <2> QED BY <1>3, <2>2, <2>3
<1>4. CASE ExecuteLocal(r)
  <2>1. waiting'[r] = -1 /\ stable_index'[r] \in Nat
    BY <1>4 DEF ExecuteLocal, IInv, TypeOK
  <2> QED BY <2>1 DEF WaitsRightly
<1>5. CASE RefuseLocal(r)
  BY <1>5, RefuseLocalWaits
<1>6. CASE SendAck(r) \/ NoAckToSend(r) \/ RecordAck(r) \/ DrainQueue(r)
           \/ \E m \in Node : ReceiveCall(r, m)
  BY <1>1, <1>6 DEF SendAck, NoAckToSend, RecordAck, DrainQueue, ReceiveCall, handlerVars, mainVars
<1>7. CASE ExecuteRemote(r)
  BY <1>7, ExecuteRemoteWaits
<1>8. ASSUME NEW m \in Node, ReceiveAck(r, m) PROVE WaitsRightly(r)'
  BY <1>8, ReceiveAckWaits
<1> QED BY <1>2, <1>3, <1>4, <1>5, <1>6, <1>7, <1>8 DEF Next, Main, Receiver, Receive

(***************************************************************************)
(* A refused call is never forgotten: as long as the stable index has not  *)
(* moved, the conflicting call that the main thread waits for is still in  *)
(* the unstable part of the list.                                          *)
(***************************************************************************)
THEOREM WaitIsJustified ==
  ASSUME LocalIgnoresClock
  PROVE  Spec => []NoLostWakeup
<1>1. Init => WaitInv
  BY DEF Init, WaitInv, NoLostWakeup
<1>2. IInv /\ IInv' /\ WaitInv /\ [Next]_vars => WaitInv'
  <2> SUFFICES ASSUME IInv, IInv', WaitInv, [Next]_vars PROVE WaitInv'
    OBVIOUS
  <2>1. \A n \in Node : WaitsRightly(n)'
    BY StepKeepsWaits, WaitInvByNode
  <2> QED BY <2>1 DEF WaitInv, NoLostWakeup, WaitsRightly
<1>3. WaitInv => NoLostWakeup
  BY DEF WaitInv
<1> QED BY <1>1, <1>2, <1>3, Invariance, PTL DEF Spec
=============================================================================
