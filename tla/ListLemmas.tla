----------------------------- MODULE ListLemmas -----------------------------
(***************************************************************************)
(* Facts about numbers, lists and sums that the proofs about the handler's *)
(* execution list and about the counting objects rest on.                  *)
(***************************************************************************)
EXTENDS Integers, SequencesExt, SequenceTheorems, FiniteSetTheorems, WellFoundedInduction, TLAPS

(* A nonempty set of natural numbers has a least element. *)
LEMMA LeastNumber ==
  ASSUME NEW S \in SUBSET Nat, S # {}
  PROVE  \E i \in S : \A k \in S : i <= k
<1>1. PICK i \in S : \A k \in S : ~(<<k, i>> \in OpToRel(<, Nat))
  BY NatLessThanWellFounded, WFMin
<1>2. ASSUME NEW k \in S, k < i PROVE FALSE
  <2>1. <<k, i>> \in Nat \X Nat /\ <<k, i>>[1] < <<k, i>>[2]
    BY <1>2
  <2>2. <<k, i>> \in OpToRel(<, Nat)
    BY <2>1 DEF OpToRel
  <2> QED BY <1>1, <2>2
<1>3. \A k \in S : i <= k
  BY <1>2
<1> QED BY <1>3

(* A part of a list. *)
LEMMA SubSeqList ==
  ASSUME NEW S, NEW s \in Seq(S), NEW i \in 1 .. Len(s) + 1, NEW j \in i - 1 .. Len(s)
  PROVE  /\ SubSeq(s, i, j) \in Seq(S) /\ Len(SubSeq(s, i, j)) = j - i + 1
         /\ \A k \in 1 .. j - i + 1 : SubSeq(s, i, j)[k] = s[i + k - 1]
<1>1. \A k \in i .. j : s[k] \in S
  OBVIOUS
<1>2. i \in Int /\ j \in Int /\ i <= j + 1
  OBVIOUS
<1>3. IF i <= j THEN j - i + 1 = j - i + 1 ELSE j - i + 1 = 0
  BY <1>2
<1> QED BY <1>1, <1>2, <1>3, SubSeqProperties

(* Inserting a call into a list moves what follows by one. *)
LEMMA InsertAtList ==
  ASSUME NEW S, NEW s \in Seq(S), NEW i \in 1 .. Len(s) + 1, NEW e \in S
  PROVE  /\ InsertAt(s, i, e) \in Seq(S)
         /\ Len(InsertAt(s, i, e)) = Len(s) + 1
         /\ \A k \in 1 .. Len(s) + 1 :
              InsertAt(s, i, e)[k] = IF k < i THEN s[k] ELSE IF k = i THEN e ELSE s[k - 1]
<1> DEFINE a == SubSeq(s, 1, i - 1)
           b == <<e>>
           c == SubSeq(s, i, Len(s))
           l == Len(s)
<1>1. l \in Nat /\ i \in Nat /\ i >= 1 /\ i <= l + 1
  OBVIOUS
<1>2. /\ a \in Seq(S) /\ Len(a) = i - 1
      /\ \A k \in 1 .. i - 1 : a[k] = s[k]
  <2>1. 1 \in 1 .. Len(s) + 1 /\ i - 1 \in 1 - 1 .. Len(s) /\ i - 1 - 1 + 1 = i - 1
    BY <1>1
  <2>2. \A k \in 1 .. i - 1 : 1 + k - 1 = k
    BY <1>1
  <2> QED BY <2>1, <2>2, SubSeqList
<1>3. b \in Seq(S) /\ Len(b) = 1 /\ b[1] = e
  OBVIOUS
<1>4. /\ c \in Seq(S) /\ Len(c) = l - i + 1
      /\ \A k \in 1 .. l - i + 1 : c[k] = s[i + k - 1]
  <2>1. Len(s) \in i - 1 .. Len(s)
    BY <1>1
  <2> QED BY <2>1, SubSeqList
<1>5. InsertAt(s, i, e) = (a \o b) \o c
  BY DEF InsertAt
<1> HIDE DEF a, b, c, l
<1>6. /\ a \o b \in Seq(S) /\ Len(a \o b) = Len(a) + Len(b)
      /\ \A k \in 1 .. Len(a) + Len(b) :
           (a \o b)[k] = IF k <= Len(a) THEN a[k] ELSE b[k - Len(a)]
  BY <1>2, <1>3, ConcatProperties
<1> DEFINE d == a \o b
<1>7. d \in Seq(S) /\ Len(d) = i /\ \A k \in 1 .. i : d[k] = IF k < i THEN s[k] ELSE e
  <2>1. Len(a) + Len(b) = i
    BY <1>1, <1>2, <1>3
  <2>2. ASSUME NEW k \in 1 .. i PROVE (a \o b)[k] = IF k < i THEN s[k] ELSE e
    <3>1. CASE k < i
      <4>1. k \in 1 .. i - 1 /\ k <= Len(a)
        BY <1>1, <1>2, <3>1
      <4> QED BY <1>2, <1>6, <2>1, <3>1, <4>1
    <3>2. CASE k = i
      <4>1. ~(k <= Len(a)) /\ k - Len(a) = 1
        BY <1>1, <1>2, <3>2
      <4> QED BY <1>3, <1>6, <2>1, <3>2, <4>1
    <3>3. k < i \/ k = i
      BY <1>1
    <3> QED BY <3>1, <3>2, <3>3
  <2> QED BY <1>6, <2>1, <2>2
<1>8. InsertAt(s, i, e) = d \o c
  BY <1>5
<1> HIDE DEF d
<1>9. /\ d \o c \in Seq(S) /\ Len(d \o c) = Len(d) + Len(c)
      /\ \A k \in 1 .. Len(d) + Len(c) :
           (d \o c)[k] = IF k <= Len(d) THEN d[k] ELSE c[k - Len(d)]
  BY <1>4, <1>7, ConcatProperties
<1>10. Len(d) + Len(c) = l + 1
  BY <1>1, <1>4, <1>7
<1>11. ASSUME NEW k \in 1 .. l + 1
       PROVE  (d \o c)[k] = IF k < i THEN s[k] ELSE IF k = i THEN e ELSE s[k - 1]
  <2>1. CASE k <= i
    <3>1. k \in 1 .. i
      BY <1>1, <2>1
    <3> QED BY <1>1, <1>7, <1>9, <1>10, <2>1, <3>1
  <2>2. CASE k > i
    <3>1. k - i \in 1 .. l - i + 1 /\ i + (k - i) - 1 = k - 1
      BY <1>1, <2>2
    <3>2. ~(k <= Len(d))
      BY <1>1, <1>7, <2>2
    <3>3. (d \o c)[k] = c[k - i]
      BY <1>7, <1>9, <1>10, <3>2
    <3>4. c[k - i] = s[i + (k - i) - 1]
      BY <1>4, <3>1
    <3>5. ~(k < i) /\ k # i
      BY <1>1, <2>2
    <3> QED BY <3>1, <3>3, <3>4, <3>5
  <2>3. k <= i \/ k > i
    BY <1>1
  <2> QED BY <2>1, <2>2, <2>3
<1> QED BY <1>8, <1>9, <1>10, <1>11 DEF l

(* Beginnings of two lists that agree on the shorter one. *)
LEMMA BeginningsArePrefixes ==
  ASSUME NEW S, NEW s \in Seq(S), NEW t \in Seq(S), NEW i \in 0 .. Len(s), NEW j \in 0 .. Len(t),
         i <= j, \A k \in 1 .. i : s[k] = t[k]
  PROVE  IsPrefix(SubSeq(s, 1, i), SubSeq(t, 1, j))
<1> DEFINE u == SubSeq(s, 1, i)
           v == SubSeq(t, 1, j)
<1>1. u \in Seq(S) /\ Len(u) = i /\ \A k \in 1 .. i : u[k] = s[k]
  <2>1. 1 \in 1 .. Len(s) + 1 /\ i \in 1 - 1 .. Len(s) /\ i - 1 + 1 = i
    OBVIOUS
  <2>2. \A k \in 1 .. i : 1 + k - 1 = k
    OBVIOUS
  <2> QED BY <2>1, <2>2, SubSeqList
<1>2. v \in Seq(S) /\ Len(v) = j /\ \A k \in 1 .. j : v[k] = t[k]
  <2>1. 1 \in 1 .. Len(t) + 1 /\ j \in 1 - 1 .. Len(t) /\ j - 1 + 1 = j
    OBVIOUS
  <2>2. \A k \in 1 .. j : 1 + k - 1 = k
    OBVIOUS
  <2> QED BY <2>1, <2>2, SubSeqList
<1>3. i \in Nat /\ j \in Nat
  OBVIOUS
<1> HIDE DEF u, v
<1> DEFINE w == SubSeq(v, 1, i)
<1>4. w \in Seq(S) /\ Len(w) = i /\ \A k \in 1 .. i : w[k] = v[k]
  <2>1. 1 \in 1 .. Len(v) + 1 /\ i \in 1 - 1 .. Len(v) /\ i - 1 + 1 = i
    BY <1>2, <1>3
  <2>2. \A k \in 1 .. i : 1 + k - 1 = k
    BY <1>3
  <2> QED BY <1>2, <2>1, <2>2, SubSeqList
<1> HIDE DEF w
<1> DEFINE x == SubSeq(u, 1, i)
<1>5. x \in Seq(S) /\ Len(x) = i /\ \A k \in 1 .. i : x[k] = u[k]
  <2>1. 1 \in 1 .. Len(u) + 1 /\ i \in 1 - 1 .. Len(u) /\ i - 1 + 1 = i
    BY <1>1, <1>3
  <2>2. \A k \in 1 .. i : 1 + k - 1 = k
    BY <1>3
  <2> QED BY <1>1, <2>1, <2>2, SubSeqList
<1> HIDE DEF x
<1>6. \A k \in 1 .. i : k \in 1 .. j
  BY <1>3
<1>7. x = w
  <2>1. \A k \in 1 .. i : x[k] = s[k]
    BY <1>1, <1>5
  <2>2. \A k \in 1 .. i : w[k] = t[k]
    BY <1>2, <1>4, <1>6
  <2>3. Len(x) = Len(w) /\ \A k \in 1 .. Len(x) : x[k] = w[k]
    BY <1>4, <1>5, <2>1, <2>2
  <2> QED BY <1>4, <1>5, <2>3, SeqEqual
<1> QED BY <1>1, <1>2, <1>3, <1>7 DEF IsPrefix, x, w

-----------------------------------------------------------------------------
(* The elements of a list after a step on it.                              *)

(* Appending. *)
LEMMA AppendElements ==
  ASSUME NEW S, NEW s \in Seq(S), NEW e \in S
  PROVE  /\ Range(Append(s, e)) = Range(s) \cup {e}
         /\ IsInjective(s) /\ e \notin Range(s) => IsInjective(Append(s, e))
<1> DEFINE t == Append(s, e)
<1>1. /\ DOMAIN s = 1..Len(s) /\ DOMAIN t = 1..Len(s) + 1 /\ Len(s) \in Nat
      /\ \A i \in 1..Len(s) + 1 : t[i] = IF i <= Len(s) THEN s[i] ELSE e
  OBVIOUS
<1> HIDE DEF t
<1>2. Range(t) = Range(s) \cup {e}
  BY <1>1 DEF Range
<1>3. IsInjective(s) /\ e \notin Range(s) => IsInjective(t)
  BY <1>1 DEF Range, IsInjective
<1> QED BY <1>2, <1>3 DEF t

(* Taking the head. *)
LEMMA TailElements ==
  ASSUME NEW S, NEW s \in Seq(S), s # <<>>, IsInjective(s)
  PROVE  /\ Head(s) \in Range(s)
         /\ Range(Tail(s)) = Range(s) \ {Head(s)}
         /\ IsInjective(Tail(s))
<1> DEFINE t == Tail(s)
<1>1. /\ DOMAIN s = 1..Len(s) /\ DOMAIN t = 1..Len(s) - 1 /\ Len(s) \in Nat \ {0}
      /\ \A i \in 1..Len(s) - 1 : t[i] = s[i + 1]
      /\ Head(s) = s[1]
  OBVIOUS
<1> HIDE DEF t
<1>2. \A i \in 1..Len(s) : i # 1 => i - 1 \in 1..Len(s) - 1 /\ (i - 1) + 1 = i
  BY <1>1
<1>3. \A i \in 1..Len(s) - 1 : i + 1 \in 1..Len(s) /\ i + 1 # 1
  BY <1>1
<1>4. Head(s) \in Range(s)
  BY <1>1 DEF Range
<1>5. Range(t) = Range(s) \ {Head(s)}
  <2>1. ASSUME NEW x \in Range(t) PROVE x \in Range(s) \ {Head(s)}
    <3>1. PICK i \in 1..Len(s) - 1 : x = t[i]
      BY <1>1 DEF Range
    <3>2. x = s[i + 1] /\ i + 1 \in 1..Len(s) /\ i + 1 # 1 /\ 1 \in 1..Len(s)
      BY <1>1, <1>3, <3>1
    <3>3. s[i + 1] # s[1]
      BY <1>1, <3>2 DEF IsInjective
    <3> QED BY <1>1, <3>2, <3>3 DEF Range
  <2>2. ASSUME NEW x \in Range(s) \ {Head(s)} PROVE x \in Range(t)
    <3>1. PICK i \in 1..Len(s) : x = s[i]
      BY <1>1 DEF Range
    <3>2. i # 1
      BY <1>1, <2>2, <3>1
    <3>3. i - 1 \in 1..Len(s) - 1 /\ t[i - 1] = x
      BY <1>1, <1>2, <3>1, <3>2
    <3> QED BY <1>1, <3>3 DEF Range
  <2> QED BY <2>1, <2>2
<1>6. IsInjective(t)
  <2> SUFFICES ASSUME NEW i \in 1..Len(s) - 1, NEW k \in 1..Len(s) - 1, t[i] = t[k] PROVE i = k
    BY <1>1 DEF IsInjective
  <2>1. i + 1 = k + 1
    BY <1>1, <1>3 DEF IsInjective
  <2> QED BY <2>1
<1> QED BY <1>4, <1>5, <1>6 DEF t

(* Inserting. *)
LEMMA InsertElements ==
  ASSUME NEW S, NEW s \in Seq(S), NEW i \in 1 .. Len(s) + 1, NEW e \in S
  PROVE  /\ Range(InsertAt(s, i, e)) = Range(s) \cup {e}
         /\ IsInjective(s) /\ e \notin Range(s) => IsInjective(InsertAt(s, i, e))
<1> DEFINE t == InsertAt(s, i, e)
<1>1. /\ t \in Seq(S) /\ Len(t) = Len(s) + 1 /\ Len(s) \in Nat
      /\ \A k \in 1 .. Len(s) + 1 : t[k] = IF k < i THEN s[k] ELSE IF k = i THEN e ELSE s[k - 1]
  BY InsertAtList
<1> HIDE DEF t
<1>2. DOMAIN s = 1..Len(s) /\ DOMAIN t = 1..Len(s) + 1
  BY <1>1
<1>3. Range(t) = Range(s) \cup {e}
  <2>1. ASSUME NEW x \in Range(t) PROVE x \in Range(s) \cup {e}
    <3>1. PICK k \in 1 .. Len(s) + 1 : x = t[k]
      BY <1>2 DEF Range
    <3>2. (k < i => k \in 1..Len(s)) /\ (k > i => k - 1 \in 1..Len(s))
      BY <1>1
    <3> QED BY <1>1, <1>2, <3>1, <3>2 DEF Range
  <2>2. ASSUME NEW x \in Range(s) PROVE x \in Range(t)
    <3>1. PICK k \in 1 .. Len(s) : x = s[k]
      BY <1>2 DEF Range
    <3>2. CASE k < i
      BY <1>1, <1>2, <3>1, <3>2 DEF Range
    <3>3. CASE k >= i
      <4>1. /\ k + 1 \in 1..Len(s) + 1 /\ ~(k + 1 < i) /\ k + 1 # i
            /\ (k + 1) - 1 = k
        BY <1>1, <3>3
      <4>2. t[k + 1] = s[k]
        BY <1>1, <4>1
      <4> QED BY <1>2, <3>1, <4>1, <4>2 DEF Range
    <3>4. k < i \/ k >= i
      BY <1>1
    <3> QED BY <3>2, <3>3, <3>4
  <2>3. e \in Range(t)
    BY <1>1, <1>2 DEF Range
  <2> QED BY <2>1, <2>2, <2>3
<1>4. ASSUME IsInjective(s), e \notin Range(s) PROVE IsInjective(t)
  <2> SUFFICES ASSUME NEW k \in 1 .. Len(s) + 1, NEW l \in 1 .. Len(s) + 1, t[k] = t[l] PROVE k = l
    BY <1>2 DEF IsInjective
  <2> DEFINE old(j) == IF j < i THEN j ELSE j - 1
  <2>1. \A j \in 1 .. Len(s) + 1 : j # i => old(j) \in 1..Len(s) /\ t[j] = s[old(j)]
    BY <1>1
  <2>2. \A j \in 1 .. Len(s) : s[j] # e
    BY <1>2, <1>4 DEF Range
  <2>3. t[i] = e
    BY <1>1
  <2>4. CASE k = i \/ l = i
    BY <2>1, <2>2, <2>3, <2>4
  <2>5. CASE k # i /\ l # i
    <3>1. old(k) = old(l)
      BY <1>2, <1>4, <2>1, <2>5 DEF IsInjective
    <3> QED BY <1>1, <2>5, <3>1
  <2> QED BY <2>4, <2>5
<1> QED BY <1>3, <1>4 DEF t

-----------------------------------------------------------------------------
(* Lists as functions.                                                     *)

(* A function on a beginning of the numbers is a list. *)
LEMMA FunctionIsList ==
  ASSUME NEW S, NEW k \in Nat, NEW f \in [1..k -> S]
  PROVE  f \in Seq(S) /\ Len(f) = k
OBVIOUS

(* A list without repetitions is a permutation of some of its elements. *)
LEMMA ListIsPermutation ==
  ASSUME NEW S, NEW k \in Nat, NEW f \in [1..k -> S],
         \A i, j \in 1..k : i # j => f[i] # f[j]
  PROVE  f \in SetToAllKPermutations(S)
<1> DEFINE T == {f[i] : i \in 1..k}
<1>1. f \in [1..k -> T] /\ T \in SUBSET S
  OBVIOUS
<1>2. f \in Bijection(1..k, T)
  <2>1. f \in Injection(1..k, T)
    BY <1>1 DEF Injection, IsInjective
  <2>2. f \in Surjection(1..k, T)
    BY <1>1 DEF Surjection
  <2> QED BY <2>1, <2>2 DEF Bijection
<1>3. IsFiniteSet(1..k) /\ Cardinality(1..k) = k
  <2>1. 1 \in Int /\ k \in Int
    OBVIOUS
  <2> QED BY <2>1, FS_Interval
<1>4. Cardinality(T) = k
  <2>1. ExistsBijection(1..k, T)
    BY <1>2 DEF ExistsBijection
  <2> QED BY <1>3, <2>1, FS_Bijection
<1> HIDE DEF T
<1>5. f \in SetToSeqs(T)
  BY <1>1, <1>4 DEF SetToSeqs
<1> QED BY <1>1, <1>5 DEF SetToAllKPermutations

-----------------------------------------------------------------------------

(***************************************************************************)
(* What a list of calls does to a state.  u is the effect of a call as a   *)
(* function, x the state at the start.                                     *)
(***************************************************************************)
Effects(X, T) == [T -> [X -> X]]

IsRun(r, u, x, s) ==
  /\ DOMAIN r = 0..Len(s) /\ r[0] = x
  /\ \A i \in 1..Len(s) : r[i] = u[s[i]][r[i - 1]]

ApplyAll(u, x, s) == (CHOOSE r : IsRun(r, u, x, s))[Len(s)]

(* A property of 0 that every number passes on to the next one up to k. *)
LEMMA UpTo ==
  ASSUME NEW k \in Nat, NEW B \in SUBSET (0..k), 0 \in B,
         \A i \in 1..k : i - 1 \in B => i \in B
  PROVE  B = 0..k
<1> DEFINE bad == (0..k) \ B
<1>1. SUFFICES ASSUME bad # {} PROVE FALSE
  OBVIOUS
<1>2. PICK i \in bad : \A j \in bad : i <= j
  <2>1. bad \in SUBSET Nat
    OBVIOUS
  <2> QED BY <1>1, <2>1, LeastNumber
<1>3. i \in 1..k /\ i - 1 \in 0..k /\ ~(i <= i - 1)
  BY <1>2
<1>4. i - 1 \in B
  BY <1>2, <1>3
<1> QED BY <1>2, <1>3, <1>4

(* A run depends on the calls it has been through, and on nothing else. *)
LEMMA RunsAgree ==
  ASSUME NEW u, NEW x, NEW T, NEW s \in Seq(T), NEW t \in Seq(T), NEW r, NEW q,
         IsRun(r, u, x, s), IsRun(q, u, x, t),
         NEW k \in Nat, k <= Len(s), k <= Len(t), \A i \in 1..k : s[i] = t[i]
  PROVE  \A i \in 0..k : r[i] = q[i]
<1> DEFINE B == {i \in 0..k : r[i] = q[i]}
<1>1. 0 \in B
  BY DEF IsRun
<1>2. ASSUME NEW i \in 1..k, i - 1 \in B PROVE i \in B
  <2>1. i \in 1..Len(s) /\ i \in 1..Len(t) /\ i \in 0..k
    OBVIOUS
  <2> QED BY <1>2, <2>1 DEF IsRun
<1>3. B = 0..k
  <2>1. B \in SUBSET (0..k)
    OBVIOUS
  <2> QED BY <1>1, <1>2, <2>1, UpTo
<1> QED BY <1>3

(* Every list of calls has a run. *)
LEMMA RunExists ==
  ASSUME NEW X, NEW T, NEW u \in Effects(X, T), NEW x \in X, NEW s \in Seq(T)
  PROVE  \E r \in [0..Len(s) -> X] : IsRun(r, u, x, s)
<1> DEFINE l == Len(s)
           run(r, k) == /\ r \in [0..k -> X] /\ r[0] = x
                        /\ \A i \in 1..k : r[i] = u[s[i]][r[i - 1]]
           B == {k \in 0..l : \E r : run(r, k)}
<1>1. l \in Nat
  OBVIOUS
<1>2. 0 \in B
  <2> DEFINE r == [i \in 0..0 |-> x]
  <2>1. r \in [0..0 -> X] /\ r[0] = x /\ 1..0 = {} /\ 0 \in 0..l
    BY <1>1
  <2> HIDE DEF r
  <2>2. run(r, 0)
    BY <2>1
  <2> QED BY <2>1, <2>2
<1>3. ASSUME NEW k \in 1..l, k - 1 \in B PROVE k \in B
  <2>1. PICK r : run(r, k - 1)
    BY <1>3
  <2>2. k - 1 \in 0..k - 1 /\ s[k] \in T /\ k \in 0..l
    BY <1>1
  <2>3. u[s[k]][r[k - 1]] \in X
    BY <2>1, <2>2 DEF Effects
  <2> DEFINE q == [i \in 0..k |-> IF i = k THEN u[s[k]][r[k - 1]] ELSE r[i]]
  <2>4. q \in [0..k -> X]
    BY <2>1, <2>3
  <2>5. q[0] = x
    BY <2>1
  <2>6. ASSUME NEW i \in 1..k PROVE q[i] = u[s[i]][q[i - 1]]
    <3>1. q[i - 1] = r[i - 1]
      OBVIOUS
    <3>2. CASE i = k
      BY <3>1, <3>2
    <3>3. CASE i # k
      <4>1. i \in 1..k - 1 /\ i \in 0..k /\ q[i] = r[i]
        BY <3>3
      <4> QED BY <2>1, <3>1, <4>1
    <3> QED BY <3>2, <3>3
  <2>7. run(q, k)
    BY <2>4, <2>5, <2>6
  <2> QED BY <2>2, <2>7
<1>4. B = 0..l
  <2>1. B \in SUBSET (0..l)
    OBVIOUS
  <2> HIDE DEF B
  <2> QED BY <1>1, <1>2, <1>3, <2>1, UpTo
<1>5. l \in B
  BY <1>1, <1>4
<1>6. PICK r : run(r, l)
  BY <1>5
<1> QED BY <1>6 DEF IsRun

(* A run ends in what its list does. *)
LEMMA RunEnds ==
  ASSUME NEW u, NEW x, NEW T, NEW s \in Seq(T), NEW r, IsRun(r, u, x, s)
  PROVE  ApplyAll(u, x, s) = r[Len(s)]
<1> DEFINE q == CHOOSE p : IsRun(p, u, x, s)
<1>1. IsRun(q, u, x, s)
  OBVIOUS
<1> HIDE DEF q
<1>2. Len(s) \in Nat /\ Len(s) \in 0..Len(s) /\ Len(s) <= Len(s) /\ \A i \in 1..Len(s) : s[i] = s[i]
  OBVIOUS
<1>3. \A i \in 0..Len(s) : q[i] = r[i]
  BY <1>1, <1>2, RunsAgree
<1> QED BY <1>2, <1>3 DEF q, ApplyAll

(* The effect of the beginnings of a list is its run. *)
LEMMA BeginningOfRun ==
  ASSUME NEW X, NEW T, NEW u \in Effects(X, T), NEW x \in X, NEW s \in Seq(T), NEW t \in Seq(T),
         NEW r, IsRun(r, u, x, s), Len(t) <= Len(s), \A i \in 1..Len(t) : t[i] = s[i]
  PROVE  ApplyAll(u, x, t) = r[Len(t)]
<1>1. PICK q \in [0..Len(t) -> X] : IsRun(q, u, x, t)
  BY RunExists
<1>2. Len(t) \in Nat /\ Len(t) \in 0..Len(t) /\ Len(t) <= Len(t)
  OBVIOUS
<1>3. q[Len(t)] = r[Len(t)]
  BY <1>1, <1>2, RunsAgree
<1> QED BY <1>1, <1>3, RunEnds

(* The effect of a list is a state. *)
LEMMA ApplyAllType ==
  ASSUME NEW X, NEW T, NEW u \in Effects(X, T), NEW x \in X, NEW s \in Seq(T)
  PROVE  ApplyAll(u, x, s) \in X
<1>1. PICK r \in [0..Len(s) -> X] : IsRun(r, u, x, s)
  BY RunExists
<1>2. Len(s) \in 0..Len(s)
  OBVIOUS
<1> QED BY <1>1, <1>2, RunEnds

(* The empty list has no effect. *)
LEMMA ApplyNothing ==
  ASSUME NEW u, NEW x, NEW T
  PROVE  ApplyAll(u, x, <<>>) = x
<1> DEFINE r == [i \in 0..0 |-> x]
<1>1. <<>> \in Seq(T) /\ Len(<<>>) = 0
  OBVIOUS
<1>2. IsRun(r, u, x, <<>>)
  BY DEF IsRun
<1>3. r[0] = x
  OBVIOUS
<1> HIDE DEF r
<1> QED BY <1>1, <1>2, <1>3, RunEnds

(* s is t and one element more. *)
OneMore(s, t) == Len(s) = Len(t) + 1 /\ \A i \in 1..Len(t) : t[i] = s[i]

(* One call more. *)
LEMMA ApplyOneMore ==
  ASSUME NEW X, NEW T, NEW u \in Effects(X, T), NEW x \in X, NEW s \in Seq(T), NEW t \in Seq(T),
         OneMore(s, t)
  PROVE  ApplyAll(u, x, s) = u[s[Len(s)]][ApplyAll(u, x, t)]
<1>1. PICK r \in [0..Len(s) -> X] : IsRun(r, u, x, s)
  BY RunExists
<1>2. Len(t) \in Nat /\ Len(t) <= Len(s) /\ Len(s) \in 1..Len(s) /\ Len(s) - 1 = Len(t)
  BY DEF OneMore
<1>3. r[Len(s)] = u[s[Len(s)]][r[Len(t)]]
  BY <1>1, <1>2 DEF IsRun
<1>4. ApplyAll(u, x, t) = r[Len(t)]
  BY <1>1, <1>2, BeginningOfRun DEF OneMore
<1>5. ApplyAll(u, x, s) = r[Len(s)]
  BY <1>1, RunEnds
<1> QED BY <1>3, <1>4, <1>5

-----------------------------------------------------------------------------
(* FoldLeft goes through the sets of positions, from the greatest down.    *)

(* The greatest element of a nonempty set of positions. *)
LEMMA GreatestPosition ==
  ASSUME NEW k \in Nat, NEW S \in SUBSET (1..k), S # {}
  PROVE  Max(S) \in S /\ \A i \in S : i <= Max(S)
<1> DEFINE B == {d \in 0..k : k - d \in S}
<1>1. PICK i \in S : TRUE
  OBVIOUS
<1>2. k - i \in 0..k /\ k - (k - i) = i
  BY <1>1
<1>3. B # {} /\ B \in SUBSET Nat
  <2>1. k - i \in B
    BY <1>1, <1>2
  <2>2. B \in SUBSET Nat
    OBVIOUS
  <2> QED BY <2>1, <2>2
<1>4. PICK d \in B : \A e \in B : d <= e
  BY <1>3, LeastNumber
<1>5. \A j \in S : k - j \in B /\ k - (k - j) = j
  OBVIOUS
<1>6. k - d \in S /\ \A j \in S : k - d >= j
  <2>1. ASSUME NEW j \in S PROVE k - d >= j
    <3>1. d <= k - j
      BY <1>4, <1>5
    <3> QED BY <3>1
  <2> QED BY <1>4, <2>1
<1>7. Max(S) \in S /\ \A i_1 \in S : Max(S) >= i_1
  BY <1>6 DEF Max
<1> QED BY <1>7

(* The greatest of the first j positions. *)
LEMMA GreatestOfFirst ==
  ASSUME NEW j \in Nat \ {0}
  PROVE  Max(1..j) = j /\ (1..j) \ {j} = 1..(j - 1)
<1>1. 1..j \in SUBSET (1..j) /\ j \in 1..j
  OBVIOUS
<1>2. Max(1..j) \in 1..j /\ \A i \in 1..j : i <= Max(1..j)
  BY <1>1, GreatestPosition
<1>3. Max(1..j) = j
  <2>1. j <= Max(1..j) /\ Max(1..j) <= j
    BY <1>1, <1>2
  <2> QED BY <1>2, <2>1
<1> QED BY <1>3

(* p[S] is the effect of the elements of s at the positions S, for a set S of *)
(* them; the latter only has to be so where p is in X.                        *)
ArePartials(p, u, x, s) ==
  \A S \in SUBSET DOMAIN s : p[S] = IF S = {} THEN x ELSE u[s[Max(S)]][p[S \ {Max(S)}]]

ArePartialsIn(X, p, u, x, s) ==
  /\ p[{}] = x
  /\ \A S \in SUBSET DOMAIN s :
       S # {} /\ p[S \ {Max(S)}] \in X => p[S] = u[s[Max(S)]][p[S \ {Max(S)}]]

(* The function that FoldLeft chooses exists. *)
LEMMA PartialsExist ==
  ASSUME NEW X, NEW T, NEW u \in Effects(X, T), NEW x \in X, NEW s \in Seq(T)
  PROVE  \E p \in [SUBSET DOMAIN s -> X] : ArePartials(p, u, x, s)
<1> DEFINE l == Len(s)
           part(p, k) ==
             /\ p \in [SUBSET (1..k) -> X]
             /\ p[{}] = x
             /\ \A S \in SUBSET (1..k) : S # {} => p[S] = u[s[Max(S)]][p[S \ {Max(S)}]]
           B == {k \in 0..l : \E p : part(p, k)}
<1>1. l \in Nat /\ DOMAIN s = 1..l
  OBVIOUS
<1>2. 0 \in B
  <2> DEFINE p == [S \in SUBSET (1..0) |-> x]
  <2>1. p \in [SUBSET (1..0) -> X] /\ p[{}] = x /\ 1..0 = {} /\ 0 \in 0..l
    BY <1>1
  <2> HIDE DEF p
  <2>2. \A S \in SUBSET (1..0) : S = {}
    BY <2>1
  <2>3. part(p, 0)
    BY <2>1, <2>2
  <2> QED BY <2>1, <2>3
<1>3. ASSUME NEW k \in 1..l, k - 1 \in B PROVE k \in B
  <2>1. PICK p : part(p, k - 1)
    BY <1>3
  <2>2. k \in Nat \ {0} /\ s[k] \in T /\ k \in 0..l
    BY <1>1
  <2>3. \A S \in SUBSET (1..k) : S \ {k} \in SUBSET (1..(k - 1))
    BY <2>2
  <2> DEFINE q == [S \in SUBSET (1..k) |-> IF k \in S THEN u[s[k]][p[S \ {k}]] ELSE p[S]]
  <2>4. \A S \in SUBSET (1..k) : k \notin S => S \in SUBSET (1..(k - 1))
    BY <2>2
  <2>5. q \in [SUBSET (1..k) -> X]
    BY <2>1, <2>2, <2>3, <2>4 DEF Effects
  <2>6. \A S \in SUBSET (1..k) : q[S] = IF k \in S THEN u[s[k]][p[S \ {k}]] ELSE p[S]
    OBVIOUS
  <2> HIDE DEF q
  <2>7. q[{}] = x
    BY <2>1, <2>6
  <2>8. ASSUME NEW S \in SUBSET (1..k), S # {} PROVE q[S] = u[s[Max(S)]][q[S \ {Max(S)}]]
    <3>1. Max(S) \in S /\ \A i \in S : i <= Max(S)
      BY <2>2, <2>8, GreatestPosition
    <3>2. CASE k \in S
      <4>1. Max(S) = k
        <5>1. Max(S) \in 1..k /\ k <= Max(S)
          BY <3>1, <3>2
        <5> QED BY <2>2, <5>1
      <4>2. S \ {k} \in SUBSET (1..k) /\ k \notin S \ {k}
        OBVIOUS
      <4> QED BY <2>6, <3>2, <4>1, <4>2
    <3>3. CASE k \notin S
      <4>1. S \in SUBSET (1..(k - 1)) /\ S \ {Max(S)} \in SUBSET (1..k) /\ k \notin S \ {Max(S)}
        BY <2>4, <3>3
      <4>2. q[S] = p[S] /\ q[S \ {Max(S)}] = p[S \ {Max(S)}]
        BY <2>6, <3>3, <4>1
      <4> QED BY <2>1, <2>8, <4>1, <4>2
    <3> QED BY <3>2, <3>3
  <2>9. part(q, k)
    BY <2>5, <2>7, <2>8
  <2> QED BY <2>2, <2>9
<1>4. B = 0..l
  <2>1. B \in SUBSET (0..l)
    OBVIOUS
  <2> HIDE DEF B
  <2> QED BY <1>1, <1>2, <1>3, <2>1, UpTo
<1>5. l \in 0..l
  BY <1>1
<1>6. PICK p : part(p, l)
  <2>1. l \in B
    BY <1>4, <1>5
  <2> QED BY <2>1
<1>7. ArePartials(p, u, x, s)
  BY <1>1, <1>6 DEF ArePartials
<1> QED BY <1>1, <1>6, <1>7

(* What such a function has for all positions is the effect of the list. *)
LEMMA PartialsEnd ==
  ASSUME NEW X, NEW T, NEW u \in Effects(X, T), NEW x \in X, NEW s \in Seq(T), NEW p,
         ArePartialsIn(X, p, u, x, s)
  PROVE  p[DOMAIN s] = ApplyAll(u, x, s)
<1> DEFINE l == Len(s)
           B == {k \in 0..l : p[1..k] \in X}
<1>1. l \in Nat /\ DOMAIN s = 1..l /\ 1..0 = {}
  OBVIOUS
<1>0. /\ p[{}] = x
      /\ \A S \in SUBSET DOMAIN s :
           S # {} /\ p[S \ {Max(S)}] \in X => p[S] = u[s[Max(S)]][p[S \ {Max(S)}]]
  BY DEF ArePartialsIn
<1>2. ASSUME NEW k \in 1..l, p[1..(k - 1)] \in X
      PROVE  p[1..k] = u[s[k]][p[1..(k - 1)]] /\ p[1..k] \in X
  <2>1. Max(1..k) = k /\ (1..k) \ {k} = 1..(k - 1)
    BY GreatestOfFirst
  <2>2. k \in 1..k /\ s[k] \in T /\ \A i \in 1..k : i \in 1..l
    BY <1>1
  <2>3. p[1..k] = u[s[k]][p[1..(k - 1)]]
    <3>1. 1..k \in SUBSET DOMAIN s /\ 1..k # {}
      BY <1>1, <2>2
    <3> QED BY <1>0, <1>2, <2>1, <3>1
  <2> QED BY <1>2, <2>2, <2>3 DEF Effects
<1>3. B = 0..l
  <2>1. 0 \in B
    BY <1>0, <1>1
  <2>2. ASSUME NEW k \in 1..l, k - 1 \in B PROVE k \in B
    BY <1>1, <1>2, <2>2
  <2>3. B \in SUBSET (0..l)
    OBVIOUS
  <2> HIDE DEF B
  <2> QED BY <1>1, <2>1, <2>2, <2>3, UpTo
<1> DEFINE r == [k \in 0..l |-> p[1..k]]
<1>4. IsRun(r, u, x, s)
  <2>1. ASSUME NEW k \in 1..l PROVE r[k] = u[s[k]][r[k - 1]]
    <3>1. k - 1 \in 0..l /\ k \in 0..l
      BY <1>1
    <3>2. p[1..(k - 1)] \in X
      BY <1>3, <3>1
    <3> QED BY <1>2, <3>1, <3>2
  <2>2. DOMAIN r = 0..Len(s) /\ r[0] = x
    BY <1>0, <1>1
  <2> HIDE DEF r
  <2> QED BY <2>1, <2>2 DEF IsRun
<1>5. r[l] = p[DOMAIN s]
  BY <1>1
<1> HIDE DEF r
<1> QED BY <1>4, <1>5, RunEnds

-----------------------------------------------------------------------------
(* Calls that change places.                                               *)

(* s is a followed by b. *)
Joins(s, a, b) ==
  /\ Len(s) = Len(a) + Len(b)
  /\ \A i \in 1..Len(a) : a[i] = s[i]
  /\ \A i \in 1..Len(b) : b[i] = s[Len(a) + i]

(* v is t without its element j. *)
Without(v, t, j) ==
  /\ Len(v) = Len(t) - 1
  /\ \A i \in 1..Len(v) : v[i] = IF i < j THEN t[i] ELSE t[i + 1]

(* Calls c and d have the same effect in either order, in every state of X. *)
Swap(u, X, c, d) == \A y \in X : u[c][u[d][y]] = u[d][u[c][y]]

(* e commutes with every element of t; element j of t with all behind it. *)
SwapsWithAll(u, X, t, e) == \A i \in 1..Len(t) : Swap(u, X, t[i], e)

MayPass(u, X, t, j) == \A i \in 1..Len(t) : i > j => Swap(u, X, t[i], t[j])

(* Lists with the same first elements have the same beginning. *)
LEMMA SameBeginnings ==
  ASSUME NEW S, NEW s \in Seq(S), NEW t \in Seq(S), NEW i \in 0..Len(s), i \in 0..Len(t),
         \A k \in 1..i : t[k] = s[k]
  PROVE  SubSeq(s, 1, i) = SubSeq(t, 1, i)
<1> DEFINE p == SubSeq(s, 1, i)
           q == SubSeq(t, 1, i)
<1>1. /\ 1 \in 1..Len(s) + 1 /\ 1 \in 1..Len(t) + 1 /\ i \in 1 - 1..Len(s) /\ i \in 1 - 1..Len(t)
      /\ i - 1 + 1 = i /\ \A k \in 1..i : 1 + k - 1 = k
  OBVIOUS
<1>2. p \in Seq(S) /\ Len(p) = i - 1 + 1 /\ \A k \in 1..i - 1 + 1 : p[k] = s[1 + k - 1]
  BY <1>1, SubSeqList
<1>3. q \in Seq(S) /\ Len(q) = i - 1 + 1 /\ \A k \in 1..i - 1 + 1 : q[k] = t[1 + k - 1]
  BY <1>1, SubSeqList
<1> HIDE DEF p, q
<1>4. Len(p) = Len(q) /\ \A k \in 1..Len(p) : p[k] = q[k]
  BY <1>1, <1>2, <1>3
<1>5. p = q
  BY <1>2, <1>3, <1>4, SeqEqual
<1> QED BY <1>5 DEF p, q

(* The beginning of a list up to j is that up to i and what follows up to j. *)
LEMMA BeginningInTwoParts ==
  ASSUME NEW S, NEW s \in Seq(S), NEW i \in Nat, NEW j \in Nat, i <= j, j <= Len(s)
  PROVE  /\ SubSeq(s, 1, i) \in Seq(S) /\ SubSeq(s, 1, j) \in Seq(S)
         /\ SubSeq(s, i + 1, j) \in Seq(S)
         /\ Joins(SubSeq(s, 1, j), SubSeq(s, 1, i), SubSeq(s, i + 1, j))
<1>1. /\ 1 \in 1..Len(s) + 1 /\ i + 1 \in 1..Len(s) + 1
      /\ i \in 1 - 1..Len(s) /\ j \in 1 - 1..Len(s) /\ j \in (i + 1) - 1..Len(s)
  OBVIOUS
<1>2. /\ SubSeq(s, 1, i) \in Seq(S) /\ Len(SubSeq(s, 1, i)) = i - 1 + 1
      /\ \A k \in 1..i - 1 + 1 : SubSeq(s, 1, i)[k] = s[1 + k - 1]
  BY <1>1, SubSeqList
<1>3. /\ SubSeq(s, 1, j) \in Seq(S) /\ Len(SubSeq(s, 1, j)) = j - 1 + 1
      /\ \A k \in 1..j - 1 + 1 : SubSeq(s, 1, j)[k] = s[1 + k - 1]
  BY <1>1, SubSeqList
<1>4. /\ SubSeq(s, i + 1, j) \in Seq(S) /\ Len(SubSeq(s, i + 1, j)) = j - (i + 1) + 1
      /\ \A k \in 1..j - (i + 1) + 1 : SubSeq(s, i + 1, j)[k] = s[(i + 1) + k - 1]
  BY <1>1, SubSeqList
<1>5. /\ i - 1 + 1 = i /\ j - 1 + 1 = j /\ j - (i + 1) + 1 = j - i /\ j = i + (j - i)
      /\ \A k \in 1..i : k \in 1..j /\ 1 + k - 1 = k
      /\ \A k \in 1..j - i : i + k \in 1..j /\ (i + 1) + k - 1 = i + k /\ 1 + (i + k) - 1 = i + k
  OBVIOUS
<1> QED BY <1>2, <1>3, <1>4, <1>5 DEF Joins

(* The effect of a list in two parts. *)
LEMMA ApplyInTwoParts ==
  ASSUME NEW X, NEW T, NEW u \in Effects(X, T), NEW x \in X,
         NEW s \in Seq(T), NEW a \in Seq(T), NEW b \in Seq(T), Joins(s, a, b)
  PROVE  ApplyAll(u, x, s) = ApplyAll(u, ApplyAll(u, x, a), b)
<1>1. PICK r \in [0..Len(s) -> X] : IsRun(r, u, x, s)
  BY RunExists
<1>2. /\ Len(a) \in Nat /\ Len(b) \in Nat /\ Len(a) <= Len(s) /\ Len(s) = Len(a) + Len(b)
      /\ \A i \in 1..Len(a) : a[i] = s[i]
  BY DEF Joins
<1>3. ApplyAll(u, x, a) = r[Len(a)]
  BY <1>1, <1>2, BeginningOfRun
<1> DEFINE q == [i \in 0..Len(b) |-> r[Len(a) + i]]
<1>4. IsRun(q, u, r[Len(a)], b)
  <2>1. ASSUME NEW i \in 1..Len(b) PROVE q[i] = u[b[i]][q[i - 1]]
    <3>1. /\ i \in 0..Len(b) /\ i - 1 \in 0..Len(b)
          /\ Len(a) + i \in 1..Len(s) /\ Len(a) + (i - 1) = (Len(a) + i) - 1
      BY <1>2
    <3>2. q[i] = r[Len(a) + i] /\ q[i - 1] = r[(Len(a) + i) - 1]
      BY <3>1
    <3>3. r[Len(a) + i] = u[s[Len(a) + i]][r[(Len(a) + i) - 1]]
      BY <1>1, <3>1 DEF IsRun
    <3>4. b[i] = s[Len(a) + i]
      BY DEF Joins
    <3> HIDE DEF q
    <3> QED BY <3>2, <3>3, <3>4
  <2>2. DOMAIN q = 0..Len(b) /\ q[0] = r[Len(a)]
    BY <1>2
  <2> HIDE DEF q
  <2> QED BY <2>1, <2>2 DEF IsRun
<1>5. q[Len(b)] = r[Len(s)]
  BY <1>2
<1> HIDE DEF q
<1>6. ApplyAll(u, r[Len(a)], b) = r[Len(s)]
  BY <1>4, <1>5, RunEnds
<1>7. ApplyAll(u, x, s) = r[Len(s)]
  BY <1>1, RunEnds
<1> QED BY <1>3, <1>6, <1>7

(* A call that commutes with all of a list may come after it. *)
LEMMA CallPassesList ==
  ASSUME NEW X, NEW T, NEW u \in Effects(X, T), NEW x \in X, NEW t \in Seq(T), NEW e \in T,
         SwapsWithAll(u, X, t, e)
  PROVE  ApplyAll(u, u[e][x], t) = u[e][ApplyAll(u, x, t)]
<1>1. u[e][x] \in X
  BY DEF Effects
<1>2. PICK r \in [0..Len(t) -> X] : IsRun(r, u, x, t)
  BY RunExists
<1>3. PICK q \in [0..Len(t) -> X] : IsRun(q, u, u[e][x], t)
  BY <1>1, RunExists
<1> DEFINE B == {i \in 0..Len(t) : q[i] = u[e][r[i]]}
<1>4. B = 0..Len(t)
  <2>1. 0 \in B
    BY <1>2, <1>3 DEF IsRun
  <2>2. ASSUME NEW i \in 1..Len(t), i - 1 \in B PROVE i \in B
    <3>1. i \in 0..Len(t) /\ i - 1 \in 0..Len(t) /\ r[i - 1] \in X
      OBVIOUS
    <3>2. q[i] = u[t[i]][q[i - 1]] /\ r[i] = u[t[i]][r[i - 1]]
      BY <1>2, <1>3 DEF IsRun
    <3>3. q[i - 1] = u[e][r[i - 1]]
      BY <2>2
    <3>4. u[t[i]][u[e][r[i - 1]]] = u[e][u[t[i]][r[i - 1]]]
      BY <3>1 DEF Swap, SwapsWithAll
    <3> QED BY <3>1, <3>2, <3>3, <3>4
  <2>3. B \in SUBSET (0..Len(t)) /\ Len(t) \in Nat
    OBVIOUS
  <2> HIDE DEF B
  <2> QED BY <2>1, <2>2, <2>3, UpTo
<1>5. Len(t) \in 0..Len(t)
  OBVIOUS
<1>6. q[Len(t)] = u[e][r[Len(t)]]
  BY <1>4, <1>5
<1>7. ApplyAll(u, x, t) = r[Len(t)]
  BY <1>2, RunEnds
<1>8. ApplyAll(u, u[e][x], t) = q[Len(t)]
  BY <1>3, RunEnds
<1> QED BY <1>6, <1>7, <1>8

(* t up to its element j without it, a, and with it, c, and from there on, b. *)
SplitsAround(t, j, a, b, c) ==
  /\ Joins(t, c, b) /\ Len(a) = j - 1 /\ Len(c) = j /\ c[j] = t[j]
  /\ \A i \in 1..(j - 1) : a[i] = t[i] /\ c[i] = t[i]

(* Every list splits around each of its elements. *)
LEMMA SplitAround ==
  ASSUME NEW T, NEW t \in Seq(T), NEW j \in 1..Len(t)
  PROVE  \E a, b, c \in Seq(T) : SplitsAround(t, j, a, b, c)
<1> DEFINE l == Len(t)
           a == [i \in 1..(j - 1) |-> t[i]]
           c == [i \in 1..j |-> t[i]]
           b == [i \in 1..(l - j) |-> t[j + i]]
<1>1. l \in Nat /\ j \in Nat /\ j - 1 \in Nat /\ l - j \in Nat /\ l = j + (l - j)
  OBVIOUS
<1>2. \A i \in 1..l : t[i] \in T
  OBVIOUS
<1>3. a \in [1..(j - 1) -> T]
  BY <1>1, <1>2
<1>4. c \in [1..j -> T]
  BY <1>1, <1>2
<1>5. b \in [1..(l - j) -> T]
  <2>1. \A i \in 1..(l - j) : j + i \in 1..l
    BY <1>1
  <2> QED BY <1>2, <2>1
<1>6. a \in Seq(T) /\ Len(a) = j - 1
  BY <1>1, <1>3, FunctionIsList
<1>7. c \in Seq(T) /\ Len(c) = j
  BY <1>1, <1>4, FunctionIsList
<1>8. b \in Seq(T) /\ Len(b) = l - j
  BY <1>1, <1>5, FunctionIsList
<1>9. \A i \in 1..(j - 1) : a[i] = t[i] /\ i \in 1..j
  BY <1>1
<1>10. (\A i \in 1..j : c[i] = t[i]) /\ j \in 1..j
  BY <1>1
<1>11. \A i \in 1..(l - j) : b[i] = t[j + i]
  OBVIOUS
<1> HIDE DEF a, b, c
<1>12. Joins(t, c, b)
  BY <1>1, <1>7, <1>8, <1>10, <1>11 DEF Joins
<1>13. SplitsAround(t, j, a, b, c)
  BY <1>6, <1>7, <1>9, <1>10, <1>12 DEF SplitsAround
<1> QED BY <1>6, <1>7, <1>8, <1>13

(* The elements of a list, by their positions. *)
LEMMA InRange ==
  ASSUME NEW T, NEW s \in Seq(T)
  PROVE  /\ \A i \in 1..Len(s) : s[i] \in Range(s)
         /\ \A y \in Range(s) : \E i \in 1..Len(s) : s[i] = y
BY DEF Range

(* In a list without repetitions an element has one position. *)
LEMMA OnePosition ==
  ASSUME NEW T, NEW s \in Seq(T), IsInjective(s), NEW i \in 1..Len(s), NEW k \in 1..Len(s), s[i] = s[k]
  PROVE  i = k
BY DEF IsInjective

(* A call that commutes with those behind it may be taken out and put last. *)
LEMMA CallMovesLast ==
  ASSUME NEW X, NEW T, NEW u \in Effects(X, T), NEW x \in X,
         NEW t \in Seq(T), NEW j \in 1..Len(t), NEW v \in Seq(T), Without(v, t, j),
         MayPass(u, X, t, j)
  PROVE  ApplyAll(u, x, t) = u[t[j]][ApplyAll(u, x, v)]
<1> DEFINE l == Len(t)
<1>1. l \in Nat /\ j \in Nat /\ 1 <= j /\ j <= l /\ t[j] \in T
  OBVIOUS
<1>0. PICK a \in Seq(T), b \in Seq(T), c \in Seq(T) : SplitsAround(t, j, a, b, c)
  BY SplitAround
<1>2. /\ Joins(t, c, b) /\ Len(a) = j - 1 /\ Len(c) = j /\ c[j] = t[j]
      /\ \A i \in 1..(j - 1) : a[i] = t[i] /\ c[i] = t[i]
  BY <1>0 DEF SplitsAround
<1>3. Len(b) = l - j
  BY <1>1, <1>2 DEF Joins
<1>4. \A i \in 1..Len(b) : b[i] = t[j + i]
  BY <1>2 DEF Joins
<1>5. ApplyAll(u, x, t) = ApplyAll(u, ApplyAll(u, x, c), b)
  BY <1>2, ApplyInTwoParts
<1>6. ApplyAll(u, x, v) = ApplyAll(u, ApplyAll(u, x, a), b)
  <2>1. Len(v) = Len(a) + Len(b)
    BY <1>1, <1>2, <1>3 DEF Without
  <2>2. ASSUME NEW i \in 1..Len(a) PROVE a[i] = v[i]
    <3>0. Len(a) = j - 1 /\ Len(v) = (j - 1) + Len(b) /\ Len(b) \in Nat
      BY <1>2, <2>1
    <3>1. i \in 1..j - 1 /\ i < j /\ i \in 1..Len(v)
      BY <1>1, <3>0
    <3> QED BY <1>2, <3>1 DEF Without
  <2>3. ASSUME NEW i \in 1..Len(b) PROVE b[i] = v[Len(a) + i]
    <3>1. /\ Len(a) + i \in 1..Len(v)
          /\ ~(Len(a) + i < j) /\ (Len(a) + i) + 1 = j + i
      BY <1>1, <1>2, <1>3, <2>1
    <3> QED BY <1>4, <3>1 DEF Without
  <2>4. Joins(v, a, b)
    BY <2>1, <2>2, <2>3 DEF Joins
  <2> QED BY <2>4, ApplyInTwoParts
<1>7. ApplyAll(u, x, c) = u[t[j]][ApplyAll(u, x, a)]
  <2>1. OneMore(c, a) /\ c[Len(c)] = t[j]
    <3>1. Len(c) = Len(a) + 1 /\ 1..Len(a) = 1..(j - 1)
      BY <1>1, <1>2
    <3> QED BY <1>2, <3>1 DEF OneMore
  <2>2. ApplyAll(u, x, c) = u[c[Len(c)]][ApplyAll(u, x, a)]
    BY <2>1, ApplyOneMore
  <2> QED BY <2>1, <2>2
<1>8. ApplyAll(u, x, a) \in X
  BY ApplyAllType
<1>9. SwapsWithAll(u, X, b, t[j])
  <2> SUFFICES ASSUME NEW i \in 1..Len(b) PROVE Swap(u, X, b[i], t[j])
    BY DEF SwapsWithAll
  <2>1. j + i \in 1..Len(t) /\ j + i > j
    BY <1>1, <1>3
  <2>2. b[i] = t[j + i]
    BY <1>4, <2>1
  <2> QED BY <2>1, <2>2 DEF MayPass
<1>10. ApplyAll(u, u[t[j]][ApplyAll(u, x, a)], b) = u[t[j]][ApplyAll(u, ApplyAll(u, x, a), b)]
  BY <1>1, <1>8, <1>9, CallPassesList
<1> QED BY <1>5, <1>6, <1>7, <1>10

(* Two lists have every two elements that are related by D in the same order. *)
SameOrder(s, t, D) ==
  \A i, k \in 1..Len(s) : \A j, l \in 1..Len(t) :
    s[i] = t[j] /\ s[k] = t[l] /\ i < k /\ <<s[i], s[k]>> \in D => j < l

(* Two lists of the same elements, without repetitions, in the same order for D. *)
Alike(s, t, D) ==
  IsInjective(s) /\ IsInjective(t) /\ Range(s) = Range(t) /\ SameOrder(s, t, D)

(* Taking the last call of the first list out of both. *)
LEMMA AlikeWithoutLast ==
  ASSUME NEW T, NEW D, NEW s \in Seq(T), NEW t \in Seq(T), Alike(s, t, D), Len(s) # 0,
         NEW j \in 1..Len(t), t[j] = s[Len(s)],
         NEW w \in Seq(T), Len(w) = Len(s) - 1, \A i \in 1..Len(w) : w[i] = s[i],
         NEW v \in Seq(T), Without(v, t, j)
  PROVE  Alike(w, v, D)
<1> DEFINE old(i) == IF i < j THEN i ELSE i + 1
<1>1. Len(s) \in Nat \ {0} /\ Len(t) \in Nat /\ Len(s) \in 1..Len(s)
  OBVIOUS
<1>2. \A i \in 1..Len(w) : i \in 1..Len(s) /\ i # Len(s) /\ w[i] = s[i]
  BY <1>1
<1>3. /\ \A i \in 1..Len(v) : old(i) \in 1..Len(t) /\ old(i) # j /\ v[i] = t[old(i)]
      /\ Len(v) = Len(t) - 1
  BY <1>1 DEF Without
<1>4. \A i, k \in 1..Len(v) : (old(i) = old(k) => i = k) /\ (old(i) < old(k) => i < k)
  BY <1>1
<1>5. \A k \in 1..Len(t) : k # j => \E m \in 1..Len(v) : old(m) = k
  <2> SUFFICES ASSUME NEW k \in 1..Len(t), k # j PROVE \E m \in 1..Len(v) : old(m) = k
    OBVIOUS
  <2>1. CASE k < j
    <3>1. k \in 1..Len(v) /\ old(k) = k
      BY <1>1, <1>3, <2>1
    <3> QED BY <3>1
  <2>2. CASE k > j
    <3>1. k - 1 \in 1..Len(v) /\ old(k - 1) = k
      BY <1>1, <1>3, <2>2
    <3> QED BY <3>1
  <2> QED BY <2>1, <2>2
<1> HIDE DEF old
<1>6. IsInjective(s) /\ IsInjective(t) /\ Range(s) = Range(t) /\ SameOrder(s, t, D)
  BY DEF Alike
<1>7. IsInjective(w)
  <2>1. ASSUME NEW i \in 1..Len(w), NEW k \in 1..Len(w), w[i] = w[k] PROVE i = k
    <3>1. s[i] = s[k] /\ i \in 1..Len(s) /\ k \in 1..Len(s)
      BY <1>2, <2>1
    <3> QED BY <1>6, <3>1, OnePosition
  <2>2. DOMAIN w = 1..Len(w)
    OBVIOUS
  <2> QED BY <2>1, <2>2 DEF IsInjective
<1>8. IsInjective(v)
  <2>1. ASSUME NEW i \in 1..Len(v), NEW k \in 1..Len(v), v[i] = v[k] PROVE i = k
    <3>1. t[old(i)] = t[old(k)] /\ old(i) \in 1..Len(t) /\ old(k) \in 1..Len(t)
      BY <1>3, <2>1
    <3>2. old(i) = old(k)
      BY <1>6, <3>1, OnePosition
    <3> QED BY <1>4, <3>2
  <2>2. DOMAIN v = 1..Len(v)
    OBVIOUS
  <2> QED BY <2>1, <2>2 DEF IsInjective
<1>9. \A y \in Range(w) : y \in Range(v)
  <2> SUFFICES ASSUME NEW i \in 1..Len(w) PROVE w[i] \in Range(v)
    BY InRange
  <2>1. s[i] \in Range(t)
    BY <1>2, <1>6, InRange
  <2>2. PICK k \in 1..Len(t) : t[k] = s[i]
    BY <2>1, InRange
  <2>3. k # j
    <3>1. s[i] # s[Len(s)]
      BY <1>1, <1>2, <1>6, OnePosition
    <3> QED BY <2>2, <3>1
  <2>4. PICK m \in 1..Len(v) : old(m) = k
    BY <1>5, <2>3
  <2>5. v[m] = w[i]
    BY <1>2, <1>3, <2>2, <2>4
  <2>6. v[m] \in Range(v)
    BY InRange
  <2> QED BY <2>5, <2>6
<1>10. \A y \in Range(v) : y \in Range(w)
  <2> SUFFICES ASSUME NEW i \in 1..Len(v) PROVE v[i] \in Range(w)
    BY InRange
  <2>1. v[i] \in Range(s)
    BY <1>3, <1>6, InRange
  <2>2. PICK k \in 1..Len(s) : s[k] = v[i]
    BY <2>1, InRange
  <2>3. k # Len(s)
    <3>1. t[old(i)] # t[j]
      BY <1>3, <1>6, OnePosition
    <3> QED BY <1>3, <2>2, <3>1
  <2>4. k \in 1..Len(w)
    BY <1>1, <2>3
  <2>5. w[k] = v[i] /\ w[k] \in Range(w)
    BY <1>2, <2>2, <2>4, InRange
  <2> QED BY <2>5
<1>11. SameOrder(w, v, D)
  <2> SUFFICES ASSUME NEW i \in 1..Len(w), NEW k \in 1..Len(w), NEW m \in 1..Len(v), NEW n \in 1..Len(v),
                      w[i] = v[m], w[k] = v[n], i < k, <<w[i], w[k]>> \in D
               PROVE  m < n
    BY DEF SameOrder
  <2>1. /\ s[i] = t[old(m)] /\ s[k] = t[old(n)] /\ <<s[i], s[k]>> \in D
        /\ i \in 1..Len(s) /\ k \in 1..Len(s) /\ old(m) \in 1..Len(t) /\ old(n) \in 1..Len(t)
    BY <1>2, <1>3
  <2>2. old(m) < old(n)
    BY <1>6, <2>1 DEF SameOrder
  <2> QED BY <1>4, <2>2
<1> QED BY <1>7, <1>8, <1>9, <1>10, <1>11 DEF Alike

(***************************************************************************)
(* Two lists of the same calls, without repetitions, that agree on the     *)
(* order of every two calls that are related by D have the same effect,    *)
(* when all other calls commute.                                           *)
(***************************************************************************)
LEMMA AlikeSameEffect ==
  ASSUME NEW X, NEW T, NEW u \in Effects(X, T), NEW x \in X, NEW D,
         \A c, d \in T : <<c, d>> \notin D => Swap(u, X, c, d),
         NEW s \in Seq(T), NEW t \in Seq(T), Alike(s, t, D)
  PROVE  ApplyAll(u, x, s) = ApplyAll(u, x, t)
<1> DEFINE differ(p, q) == Alike(p, q, D) /\ ApplyAll(u, x, p) # ApplyAll(u, x, q)
           bad == {k \in Nat : \E p, q \in Seq(T) : Len(p) = k /\ differ(p, q)}
<1>1. SUFFICES ASSUME bad # {} PROVE FALSE
  <2>1. Len(s) \in Nat
    OBVIOUS
  <2> QED BY <2>1
<1>2. PICK k \in bad : \A i \in bad : k <= i
  <2>1. bad \in SUBSET Nat
    OBVIOUS
  <2> HIDE DEF bad
  <2> QED BY <1>1, <2>1, LeastNumber
<1>3. PICK p \in Seq(T), q \in Seq(T) : Len(p) = k /\ differ(p, q)
  BY <1>2
<1>4. k \in Nat /\ Len(p) = k /\ Len(q) \in Nat
  BY <1>3
<1>5. IsInjective(p) /\ IsInjective(q) /\ Range(p) = Range(q) /\ SameOrder(p, q, D)
  BY <1>3 DEF Alike
<1>6. CASE k = 0
  <2>1. \A i \in 1..Len(q) : FALSE
    <3> SUFFICES ASSUME NEW i \in 1..Len(q) PROVE FALSE
      OBVIOUS
    <3>1. q[i] \in Range(p)
      BY <1>5, InRange
    <3>2. PICK m \in 1..Len(p) : p[m] = q[i]
      BY <3>1, InRange
    <3> QED BY <1>4, <1>6, <3>2
  <2>2. Len(q) = 0
    <3>1. 1 \notin 1..Len(q)
      BY <2>1
    <3> QED BY <1>4, <3>1
  <2>3. p = <<>> /\ q = <<>>
    BY <1>4, <1>6, <2>2
  <2> QED BY <1>3, <2>3
<1>7. CASE k # 0
  <2>1. k \in 1..k /\ p[k] \in T /\ p[k] \in Range(q)
    <3>1. k \in 1..Len(p)
      BY <1>4, <1>7
    <3> QED BY <1>4, <1>5, <3>1, InRange
  <2>2. PICK j \in 1..Len(q) : q[j] = p[k]
    BY <2>1, InRange
  <2> DEFINE w == [i \in 1..(k - 1) |-> p[i]]
             v == [i \in 1..(Len(q) - 1) |-> IF i < j THEN q[i] ELSE q[i + 1]]
  <2>3. w \in Seq(T) /\ Len(w) = k - 1 /\ \A i \in 1..Len(w) : w[i] = p[i]
    <3>1. k - 1 \in Nat /\ \A i \in 1..(k - 1) : p[i] \in T
      BY <1>4, <1>7
    <3>2. w \in [1..(k - 1) -> T] /\ \A i \in 1..(k - 1) : w[i] = p[i]
      BY <3>1
    <3> HIDE DEF w
    <3> QED BY <3>1, <3>2, FunctionIsList
  <2>4. v \in Seq(T) /\ Without(v, q, j)
    <3>1. Len(q) - 1 \in Nat
      BY <1>4
    <3>2. ASSUME NEW i \in 1..(Len(q) - 1) PROVE (IF i < j THEN q[i] ELSE q[i + 1]) \in T
      BY <1>4
    <3>3. /\ v \in [1..(Len(q) - 1) -> T]
          /\ \A i \in 1..(Len(q) - 1) : v[i] = IF i < j THEN q[i] ELSE q[i + 1]
      BY <3>2
    <3> HIDE DEF v
    <3> DEFINE m == Len(q) - 1
    <3>5. m \in Nat /\ v \in [1..m -> T]
      BY <3>1, <3>3
    <3> HIDE DEF m
    <3>6. v \in Seq(T) /\ Len(v) = m
      BY <3>5, FunctionIsList
    <3>4. v \in Seq(T) /\ Len(v) = Len(q) - 1
      BY <3>6 DEF m
    <3> QED BY <3>3, <3>4 DEF Without
  <2> HIDE DEF w, v
  <2>5. Alike(w, v, D)
    <3>1. Alike(p, q, D) /\ Len(p) # 0 /\ q[j] = p[Len(p)] /\ Len(w) = Len(p) - 1
      BY <1>3, <1>4, <1>7, <2>2, <2>3
    <3> QED BY <2>3, <2>4, <3>1, AlikeWithoutLast
  <2>6. ApplyAll(u, x, w) = ApplyAll(u, x, v)
    <3>1. k - 1 \in Nat /\ ~(k <= k - 1)
      BY <1>4, <1>7
    <3>2. k - 1 \notin bad
      BY <1>2, <3>1
    <3> QED BY <2>3, <2>4, <2>5, <3>1, <3>2
  <2>7. MayPass(u, X, q, j)
    <3> SUFFICES ASSUME NEW i \in 1..Len(q), i > j PROVE Swap(u, X, q[i], q[j])
      BY DEF MayPass
    <3>1. q[i] \in Range(p) /\ q[i] \in T
      BY <1>5, InRange
    <3>2. PICK m \in 1..Len(p) : p[m] = q[i]
      BY <3>1, InRange
    <3>3. q[i] # q[j] /\ ~(i < j)
      BY <1>4, <1>5, OnePosition
    <3>4. m # k
      BY <2>2, <3>2, <3>3
    <3>5. m < k /\ k \in 1..Len(p)
      BY <1>4, <3>4
    <3>6. <<p[m], p[k]>> \notin D
      BY <1>5, <2>2, <3>2, <3>3, <3>5 DEF SameOrder
    <3> QED BY <2>1, <2>2, <3>1, <3>2, <3>6
  <2>8. ApplyAll(u, x, q) = u[q[j]][ApplyAll(u, x, v)]
    BY <2>4, <2>7, CallMovesLast
  <2>9. ApplyAll(u, x, p) = u[p[k]][ApplyAll(u, x, w)]
    <3>1. OneMore(p, w)
      BY <1>4, <2>3 DEF OneMore
    <3>2. ApplyAll(u, x, p) = u[p[Len(p)]][ApplyAll(u, x, w)]
      BY <2>3, <3>1, ApplyOneMore
    <3> QED BY <1>4, <3>2
  <2> QED BY <1>3, <2>2, <2>6, <2>8, <2>9
<1> QED BY <1>6, <1>7

-----------------------------------------------------------------------------
(* Sums over functions with a finite domain.                               *)

(* p[S] is the sum over the set S, where SumFunction takes the elements in *)
(* an order of its own.                                                    *)
Picked(S) == CHOOSE x \in S : TRUE

IsSum(p, f) ==
  \A S \in SUBSET DOMAIN f : p[S] = IF S = {} THEN 0 ELSE f[Picked(S)] + p[S \ {Picked(S)}]

(* An element is picked from every set with elements; without it one is left less. *)
LEMMA PickedIn ==
  ASSUME NEW D, IsFiniteSet(D), NEW S \in SUBSET D
  PROVE  /\ IsFiniteSet(S) /\ Cardinality(S) \in Nat /\ Cardinality(S) <= Cardinality(D)
         /\ Cardinality(S) = 0 <=> S = {}
         /\ S # {} => Picked(S) \in S
         /\ \A x \in S : Cardinality(S \ {x}) = Cardinality(S) - 1
<1>1. /\ IsFiniteSet(S) /\ Cardinality(S) \in Nat /\ Cardinality(S) <= Cardinality(D)
      /\ Cardinality(S) = 0 <=> S = {}
  BY FS_Subset, FS_CardinalityType, FS_EmptySet
<1>2. S # {} => Picked(S) \in S
  BY DEF Picked
<1>3. \A x \in S : Cardinality(S \ {x}) = Cardinality(S) - 1
  BY <1>1, FS_RemoveElement
<1> QED BY <1>1, <1>2, <1>3

(* The sums over all subsets exist. *)
LEMMA SumExists ==
  ASSUME NEW D, IsFiniteSet(D), NEW f \in [D -> Int]
  PROVE  \E p \in [SUBSET D -> Int] : IsSum(p, f)
<1> DEFINE l == Cardinality(D)
           small(k) == {S \in SUBSET D : Cardinality(S) <= k}
           part(p, k) ==
             /\ p \in [small(k) -> Int]
             /\ \A S \in small(k) : p[S] = IF S = {} THEN 0 ELSE f[Picked(S)] + p[S \ {Picked(S)}]
           B == {k \in 0..l : \E p : part(p, k)}
<1>1. l \in Nat
  BY FS_CardinalityType
<1>2. 0 \in B
  <2> DEFINE p == [S \in small(0) |-> 0]
  <2>1. \A S \in small(0) : S = {}
    <3> SUFFICES ASSUME NEW S \in SUBSET D, Cardinality(S) <= 0 PROVE S = {}
      OBVIOUS
    <3>1. Cardinality(S) \in Nat /\ (Cardinality(S) = 0 <=> S = {})
      BY PickedIn
    <3> QED BY <3>1
  <2>2. p \in [small(0) -> Int] /\ \A S \in small(0) : p[S] = 0
    OBVIOUS
  <2> HIDE DEF p
  <2>3. part(p, 0)
    BY <2>1, <2>2
  <2> HIDE DEF part
  <2>4. \E q : part(q, 0)
    BY <2>3
  <2> QED BY <1>1, <2>4
<1>3. ASSUME NEW k \in 1..l, k - 1 \in B PROVE k \in B
  <2>1. PICK p : part(p, k - 1)
    BY <1>3
  <2>2. k \in Nat \ {0} /\ k \in 0..l
    BY <1>1
  <2> DEFINE q == [S \in small(k) |->
                IF S \in small(k - 1) THEN p[S] ELSE f[Picked(S)] + p[S \ {Picked(S)}]]
  <2>3. ASSUME NEW S \in small(k), S # {}
        PROVE  S \ {Picked(S)} \in small(k - 1) /\ f[Picked(S)] \in Int
    <3>1. /\ Picked(S) \in S /\ Cardinality(S) \in Nat
          /\ Cardinality(S \ {Picked(S)}) = Cardinality(S) - 1
      BY <2>3, PickedIn
    <3>2. Cardinality(S) <= k /\ Picked(S) \in D
      BY <3>1
    <3> QED BY <2>2, <3>1, <3>2
  <2>4. \A S \in small(k) : S \notin small(k - 1) => S # {}
    BY <2>2, FS_EmptySet
  <2>5. small(k - 1) \subseteq small(k)
    <3> SUFFICES ASSUME NEW S \in SUBSET D, Cardinality(S) <= k - 1 PROVE Cardinality(S) <= k
      OBVIOUS
    <3>1. Cardinality(S) \in Nat
      BY PickedIn
    <3> QED BY <2>2, <3>1
  <2>6. q \in [small(k) -> Int]
    <3> SUFFICES ASSUME NEW S \in small(k)
                 PROVE  (IF S \in small(k - 1) THEN p[S]
                         ELSE f[Picked(S)] + p[S \ {Picked(S)}]) \in Int
      OBVIOUS
    <3>1. CASE S \in small(k - 1)
      BY <2>1, <3>1
    <3>2. CASE S \notin small(k - 1)
      <4>1. S \ {Picked(S)} \in small(k - 1) /\ f[Picked(S)] \in Int
        BY <2>3, <2>4, <3>2
      <4>2. p[S \ {Picked(S)}] \in Int
        BY <2>1, <4>1
      <4> QED BY <3>2, <4>1, <4>2
    <3> QED BY <3>1, <3>2
  <2>7. \A S \in small(k) : q[S] =
          IF S \in small(k - 1) THEN p[S] ELSE f[Picked(S)] + p[S \ {Picked(S)}]
    OBVIOUS
  <2> HIDE DEF q
  <2>8. ASSUME NEW S \in small(k)
        PROVE  q[S] = IF S = {} THEN 0 ELSE f[Picked(S)] + q[S \ {Picked(S)}]
    <3>1. CASE S = {}
      <4>1. S \in small(k - 1)
        BY <2>4, <3>1
      <4> QED BY <2>1, <2>7, <3>1, <4>1
    <3>2. CASE S # {}
      <4>1. S \ {Picked(S)} \in small(k - 1)
        BY <2>3, <3>2
      <4>2. q[S \ {Picked(S)}] = p[S \ {Picked(S)}]
        BY <2>5, <2>7, <4>1
      <4>3. S \in small(k - 1) => p[S] = f[Picked(S)] + p[S \ {Picked(S)}]
        BY <2>1, <3>2
      <4> QED BY <2>7, <3>2, <4>2, <4>3
    <3> QED BY <3>1, <3>2
  <2>9. part(q, k)
    BY <2>6, <2>8
  <2> QED BY <2>2, <2>9
<1>4. l \in B
  <2>1. B \in SUBSET (0..l)
    OBVIOUS
  <2> HIDE DEF B
  <2>2. B = 0..l
    BY <1>1, <1>2, <1>3, <2>1, UpTo
  <2> QED BY <1>1, <2>2
<1>5. PICK p : part(p, l)
  BY <1>4
<1>6. small(l) = SUBSET D
  BY PickedIn
<1>7. DOMAIN f = D
  OBVIOUS
<1> HIDE DEF small
<1>8. p \in [SUBSET D -> Int] /\ IsSum(p, f)
  BY <1>5, <1>6, <1>7 DEF IsSum
<1> QED BY <1>8

(* SumFunction is the sum over the whole domain. *)
LEMMA SumOfAll ==
  ASSUME NEW D, IsFiniteSet(D), NEW f \in [D -> Int]
  PROVE  \E p \in [SUBSET D -> Int] : IsSum(p, f) /\ SumFunction(f) = p[D]
<1> DEFINE p == CHOOSE p : p = [S \in SUBSET D |->
                  IF S = {} THEN 0 ELSE f[Picked(S)] + p[S \ {Picked(S)}]]
<1>1. DOMAIN f = D
  OBVIOUS
<1>2. SumFunction(f) = p[D]
  BY <1>1 DEF SumFunction, SumFunctionOnSet, FoldFunctionOnSet, MapThenFoldSet, Picked
<1>3. PICK q \in [SUBSET D -> Int] : IsSum(q, f)
  BY SumExists
<1>4. q = [S \in SUBSET D |-> IF S = {} THEN 0 ELSE f[Picked(S)] + q[S \ {Picked(S)}]]
  BY <1>1, <1>3 DEF IsSum
<1>5. p = [S \in SUBSET D |-> IF S = {} THEN 0 ELSE f[Picked(S)] + p[S \ {Picked(S)}]]
  BY <1>4
<1> HIDE DEF p
<1>6. IsSum(p, f)
  BY <1>1, <1>5 DEF IsSum
<1>7. p \in [SUBSET D -> Int]
  <2>1. ASSUME NEW S \in SUBSET D, p[S] # q[S] PROVE FALSE
    <3> DEFINE bad == {k \in Nat : \E R \in SUBSET D : Cardinality(R) = k /\ p[R] # q[R]}
    <3>1. Cardinality(S) \in bad
      BY <2>1, PickedIn
    <3>2. PICK k \in bad : \A i \in bad : k <= i
      <4>1. bad \in SUBSET Nat /\ bad # {}
        BY <3>1
      <4> HIDE DEF bad
      <4> QED BY <4>1, LeastNumber
    <3>3. PICK R \in SUBSET D : Cardinality(R) = k /\ p[R] # q[R]
      BY <3>2
    <3>4. p[R] = (IF R = {} THEN 0 ELSE f[Picked(R)] + p[R \ {Picked(R)}])
      BY <1>1, <1>6 DEF IsSum
    <3>5. q[R] = (IF R = {} THEN 0 ELSE f[Picked(R)] + q[R \ {Picked(R)}])
      BY <1>1, <1>3 DEF IsSum
    <3>6. R # {} /\ p[R \ {Picked(R)}] # q[R \ {Picked(R)}]
      BY <3>3, <3>4, <3>5
    <3>7. /\ Cardinality(R \ {Picked(R)}) = k - 1 /\ k \in Nat
          /\ Cardinality(R \ {Picked(R)}) \in Nat
      <4>1. Picked(R) \in R /\ Cardinality(R \ {Picked(R)}) = Cardinality(R) - 1
        BY <3>6, PickedIn
      <4>2. R \ {Picked(R)} \in SUBSET D
        OBVIOUS
      <4>3. Cardinality(R \ {Picked(R)}) \in Nat
        BY <4>2, PickedIn
      <4> QED BY <3>2, <3>3, <4>1, <4>3
    <3>8. k - 1 \in bad
      BY <3>6, <3>7
    <3> QED BY <3>2, <3>7, <3>8
  <2>2. DOMAIN p = SUBSET D
    BY <1>5
  <2>3. p = [S \in SUBSET D |-> p[S]]
    BY <1>5
  <2> QED BY <1>3, <2>1, <2>2, <2>3
<1> QED BY <1>2, <1>6, <1>7

(* The order does not matter: any element can be taken out first. *)
InAnyOrder(p, f) == \A S \in SUBSET DOMAIN f : \A x \in S : p[S] = f[x] + p[S \ {x}]

LEMMA SumInAnyOrder ==
  ASSUME NEW D, IsFiniteSet(D), NEW f \in [D -> Int]
  PROVE  \E p \in [SUBSET D -> Int] : IsSum(p, f) /\ InAnyOrder(p, f) /\ SumFunction(f) = p[D]
<1>1. PICK p \in [SUBSET D -> Int] : IsSum(p, f) /\ SumFunction(f) = p[D]
  BY SumOfAll
<1> SUFFICES ASSUME NEW S \in SUBSET D, NEW x \in S PROVE p[S] = f[x] + p[S \ {x}]
  BY <1>1 DEF InAnyOrder
<1> DEFINE bad == {k \in Nat : \E R \in SUBSET D : \E y \in R :
                     Cardinality(R) = k /\ p[R] # f[y] + p[R \ {y}]}
<1> SUFFICES ASSUME p[S] # f[x] + p[S \ {x}] PROVE FALSE
  OBVIOUS
<1>2. Cardinality(S) \in bad
  BY PickedIn
<1>3. PICK k \in bad : \A i \in bad : k <= i
  <2>1. bad \in SUBSET Nat /\ bad # {}
    BY <1>2
  <2> HIDE DEF bad
  <2> QED BY <2>1, LeastNumber
<1>4. PICK R \in SUBSET D : \E y \in R : Cardinality(R) = k /\ p[R] # f[y] + p[R \ {y}]
  BY <1>3
<1>5. PICK y \in R : Cardinality(R) = k /\ p[R] # f[y] + p[R \ {y}]
  BY <1>4
<1>6. PICK z : z = Picked(R)
  OBVIOUS
<1>7. /\ z \in R /\ Cardinality(R \ {z}) = k - 1 /\ Cardinality(R \ {y}) = k - 1
      /\ k - 1 \in Nat
  <2>1. /\ Picked(R) \in R /\ Cardinality(R \ {Picked(R)}) = Cardinality(R) - 1
        /\ Cardinality(R \ {y}) = Cardinality(R) - 1
    BY PickedIn
  <2>2. R \ {y} \in SUBSET D
    OBVIOUS
  <2>3. Cardinality(R \ {y}) \in Nat
    BY <2>2, PickedIn
  <2> QED BY <1>5, <1>6, <2>1, <2>3
<1>8. p[R] = f[z] + p[R \ {z}]
  BY <1>6, <1>7, <1>1 DEF IsSum
<1>9. z # y
  BY <1>5, <1>8
<1>10. \A T \in SUBSET D : \A w \in T : Cardinality(T) = k - 1 => p[T] = f[w] + p[T \ {w}]
  <2>1. k - 1 \notin bad
    <3>1. k \in Nat
      OBVIOUS
    <3> HIDE DEF bad
    <3> QED BY <1>3, <1>7, <3>1
  <2> QED BY <1>7, <2>1
<1>11. PICK T \in SUBSET D : T = (R \ {y}) \ {z} /\ T = (R \ {z}) \ {y}
  OBVIOUS
<1>12. p[R \ {z}] = f[y] + p[T] /\ p[R \ {y}] = f[z] + p[T]
  <2>1. /\ R \ {z} \in SUBSET D /\ R \ {y} \in SUBSET D
        /\ y \in R \ {z} /\ z \in R \ {y}
    BY <1>7, <1>9
  <2>2. p[R \ {z}] = f[y] + p[(R \ {z}) \ {y}]
    BY <1>7, <1>10, <2>1
  <2>3. p[R \ {y}] = f[z] + p[(R \ {y}) \ {z}]
    BY <1>7, <1>10, <2>1
  <2> QED BY <1>11, <2>2, <2>3
<1>13. f[z] \in Int /\ f[y] \in Int /\ p[T] \in Int
  BY <1>7
<1> HIDE DEF bad
<1>14. p[R] = f[y] + p[R \ {y}]
  BY <1>8, <1>12, <1>13
<1> QED BY <1>5, <1>14

(* h renames the arguments of f to those of g. *)
Renames(h, f, g) ==
  /\ h \in [DOMAIN f -> DOMAIN g]
  /\ \A x, y \in DOMAIN f : h[x] = h[y] => x = y
  /\ \A z \in DOMAIN g : \E x \in DOMAIN f : h[x] = z
  /\ \A x \in DOMAIN f : g[h[x]] = f[x]

(* A renaming of the domain does not change the sum. *)
LEMMA SumRenamed ==
  ASSUME NEW D, IsFiniteSet(D), NEW f \in [D -> Int],
         NEW E, IsFiniteSet(E), NEW g \in [E -> Int],
         NEW h, Renames(h, f, g)
  PROVE  SumFunction(f) = SumFunction(g)
<1>1. /\ h \in [D -> E] /\ \A x, y \in D : h[x] = h[y] => x = y
      /\ \A z \in E : \E x \in D : h[x] = z
      /\ \A x \in D : g[h[x]] = f[x]
  BY DEF Renames
<1>2. PICK p \in [SUBSET D -> Int] : IsSum(p, f) /\ InAnyOrder(p, f) /\ SumFunction(f) = p[D]
  BY SumInAnyOrder
<1>3. PICK q \in [SUBSET E -> Int] : IsSum(q, g) /\ InAnyOrder(q, g) /\ SumFunction(g) = q[E]
  BY SumInAnyOrder
<1>4. \A S \in SUBSET D : \A x \in S : p[S] = f[x] + p[S \ {x}]
  BY <1>2 DEF InAnyOrder
<1>5. \A S \in SUBSET E : \A x \in S : q[S] = g[x] + q[S \ {x}]
  BY <1>3 DEF InAnyOrder
<1> DEFINE image(S) == {h[x] : x \in S}
           bad == {k \in Nat : \E R \in SUBSET D : Cardinality(R) = k /\ p[R] # q[image(R)]}
<1>6. image(D) = E /\ \A S \in SUBSET D : image(S) \in SUBSET E
  BY <1>1
<1>7. bad = {}
  <2> SUFFICES ASSUME bad # {} PROVE FALSE
    OBVIOUS
  <2>1. PICK k \in bad : \A i \in bad : k <= i
    <3>1. bad \in SUBSET Nat
      OBVIOUS
    <3> HIDE DEF bad
    <3> QED BY <3>1, LeastNumber
  <2>2. PICK R \in SUBSET D : Cardinality(R) = k /\ p[R] # q[image(R)]
    BY <2>1
  <2>3. R # {}
    <3>1. p[{}] = 0 /\ q[{}] = 0
      BY <1>2, <1>3 DEF IsSum
    <3>2. image({}) = {}
      OBVIOUS
    <3> HIDE DEF image
    <3> QED BY <2>2, <3>1, <3>2
  <2>4. PICK x \in R : TRUE
    BY <2>3
  <2>5. /\ p[R] = f[x] + p[R \ {x}]
        /\ Cardinality(R \ {x}) = k - 1 /\ Cardinality(R \ {x}) \in Nat /\ k \in Nat
    <3>1. p[R] = f[x] + p[R \ {x}]
      BY <1>4
    <3>2. R \ {x} \in SUBSET D
      OBVIOUS
    <3> QED BY <2>2, <3>1, <3>2, PickedIn
  <2>6. q[image(R)] = g[h[x]] + q[image(R) \ {h[x]}]
    <3>1. h[x] \in image(R) /\ image(R) \in SUBSET E
      BY <1>6
    <3> HIDE DEF image
    <3> QED BY <1>5, <3>1
  <2>7. image(R) \ {h[x]} = image(R \ {x})
    BY <1>1
  <2>8. p[R \ {x}] = q[image(R \ {x})]
    <3>1. k - 1 \notin bad
      <4> HIDE DEF bad
      <4> QED BY <2>1, <2>5
    <3> QED BY <2>5, <3>1
  <2>9. p[R] = q[image(R)]
    <3> HIDE DEF image, bad
    <3>1. g[h[x]] = f[x]
      BY <1>1
    <3> QED BY <2>5, <2>6, <2>7, <2>8, <3>1
  <2> QED BY <2>2, <2>9
<1>8. p[D] = q[image(D)]
  <2>1. Cardinality(D) \in Nat
    BY FS_CardinalityType
  <2> QED BY <1>7, <2>1
<1> QED BY <1>2, <1>3, <1>6, <1>8

(* Sums are numbers, the empty one is zero. *)
LEMMA SumIsNumber ==
  ASSUME NEW D, IsFiniteSet(D), NEW f \in [D -> Int]
  PROVE  SumFunction(f) \in Int /\ (D = {} => SumFunction(f) = 0)
<1>1. PICK p \in [SUBSET D -> Int] : IsSum(p, f) /\ SumFunction(f) = p[D]
  BY SumOfAll
<1>2. D = {} => p[D] = 0
  BY <1>1 DEF IsSum
<1> QED BY <1>1, <1>2

(* g is f without x. *)
LeavesOut(g, f, x) ==
  /\ x \in DOMAIN f /\ DOMAIN g = DOMAIN f \ {x}
  /\ \A y \in DOMAIN g : g[y] = f[y]

(* A function with one more element. *)
LEMMA SumOneMore ==
  ASSUME NEW D, IsFiniteSet(D), NEW f \in [D -> Int], NEW x, NEW E, NEW g \in [E -> Int],
         LeavesOut(g, f, x)
  PROVE  SumFunction(f) = SumFunction(g) + f[x]
<1>1. DOMAIN f = D /\ DOMAIN g = E /\ x \in D /\ E = D \ {x} /\ \A y \in E : g[y] = f[y]
  BY DEF LeavesOut
<1>2. PICK p \in [SUBSET D -> Int] : IsSum(p, f) /\ InAnyOrder(p, f) /\ SumFunction(f) = p[D]
  BY SumInAnyOrder
<1>3. IsFiniteSet(E)
  BY <1>1, FS_Subset
<1>4. PICK q \in [SUBSET E -> Int] : IsSum(q, g) /\ SumFunction(g) = q[E]
  BY <1>3, SumOfAll
<1>5. p[D] = f[x] + p[E]
  <2>1. \A S \in SUBSET D : \A y \in S : p[S] = f[y] + p[S \ {y}]
    BY <1>2 DEF InAnyOrder
  <2> QED BY <1>1, <2>1
<1> DEFINE bad == {k \in Nat : \E R \in SUBSET E : Cardinality(R) = k /\ p[R] # q[R]}
<1>6. bad = {}
  <2> SUFFICES ASSUME bad # {} PROVE FALSE
    OBVIOUS
  <2>1. PICK k \in bad : \A i \in bad : k <= i
    <3>1. bad \in SUBSET Nat
      OBVIOUS
    <3> HIDE DEF bad
    <3> QED BY <3>1, LeastNumber
  <2>2. PICK R \in SUBSET E : Cardinality(R) = k /\ p[R] # q[R]
    BY <2>1
  <2>3. R \in SUBSET D
    BY <1>1
  <2>4. /\ p[R] = (IF R = {} THEN 0 ELSE f[Picked(R)] + p[R \ {Picked(R)}])
        /\ q[R] = (IF R = {} THEN 0 ELSE g[Picked(R)] + q[R \ {Picked(R)}])
    BY <1>1, <1>2, <1>4, <2>3 DEF IsSum
  <2>5. R # {}
    BY <2>2, <2>4
  <2>6. /\ Picked(R) \in R /\ Cardinality(R \ {Picked(R)}) = k - 1
        /\ Cardinality(R \ {Picked(R)}) \in Nat /\ k \in Nat
    <3>1. /\ Picked(R) \in R /\ Cardinality(R \ {Picked(R)}) = Cardinality(R) - 1
          /\ Cardinality(R) \in Nat
      BY <1>3, <2>5, PickedIn
    <3>2. R \ {Picked(R)} \in SUBSET E
      OBVIOUS
    <3>3. Cardinality(R \ {Picked(R)}) \in Nat
      BY <1>3, <3>2, PickedIn
    <3> QED BY <2>2, <3>1, <3>3
  <2>7. p[R \ {Picked(R)}] = q[R \ {Picked(R)}]
    <3>1. k - 1 \notin bad
      <4> HIDE DEF bad
      <4> QED BY <2>1, <2>6
    <3> QED BY <2>6, <3>1
  <2>8. g[Picked(R)] = f[Picked(R)]
    BY <1>1, <2>6
  <2> QED BY <2>2, <2>4, <2>5, <2>7, <2>8
<1>7. p[E] = q[E]
  <2>1. Cardinality(E) \in Nat
    BY <1>3, FS_CardinalityType
  <2> QED BY <1>6, <2>1
<1>8. p[E] \in Int /\ f[x] \in Int
  BY <1>1
<1> QED BY <1>2, <1>4, <1>5, <1>7, <1>8

(* The values of g are those of f, or those of f and v. *)
SameTotals(g, f) == SumFunction(g) = SumFunction(f) /\ Range(g) = Range(f)
Adds(g, f, v) == SumFunction(g) = SumFunction(f) + v /\ Range(g) = Range(f) \cup {v}

(* One element more. *)
LEMMA OneMoreValue ==
  ASSUME NEW D, IsFiniteSet(D), NEW f \in [D -> Int], NEW x, NEW E, NEW g \in [E -> Int],
         LeavesOut(g, f, x)
  PROVE  Adds(f, g, f[x]) /\ f[x] \in Int
<1>1. SumFunction(f) = SumFunction(g) + f[x]
  BY SumOneMore
<1>2. DOMAIN f = D /\ DOMAIN g = E /\ x \in D /\ E = D \ {x} /\ \A y \in E : g[y] = f[y]
  BY DEF LeavesOut
<1>3. Range(f) = Range(g) \cup {f[x]}
  BY <1>2 DEF Range
<1> QED BY <1>1, <1>2, <1>3 DEF Adds

(* A function that is empty or has one value. *)
LEMMA OneValue ==
  ASSUME NEW S, NEW f \in [S -> Int]
  PROVE  /\ S = {} => SumFunction(f) = 0 /\ Range(f) = {}
         /\ \A k : S = {k} => SumFunction(f) = f[k] /\ Range(f) = {f[k]}
<1>1. ASSUME S = {} PROVE SumFunction(f) = 0 /\ Range(f) = {}
  <2>1. IsFiniteSet(S) /\ DOMAIN f = {}
    BY <1>1, FS_EmptySet
  <2>2. SumFunction(f) = 0
    BY <1>1, <2>1, SumIsNumber
  <2> QED BY <2>1, <2>2 DEF Range
<1>2. ASSUME NEW k, S = {k} PROVE SumFunction(f) = f[k] /\ Range(f) = {f[k]}
  <2>1. PICK E, e : E = {} /\ e = [j \in E |-> 0]
    OBVIOUS
  <2>2. e \in [E -> Int] /\ IsFiniteSet(E) /\ IsFiniteSet(S) /\ f[k] \in Int /\ DOMAIN f = {k}
    BY <1>2, <2>1, FS_EmptySet, FS_Singleton
  <2>3. LeavesOut(e, f, k)
    BY <2>1, <2>2 DEF LeavesOut
  <2>4. SumFunction(f) = SumFunction(e) + f[k]
    BY <2>2, <2>3, SumOneMore
  <2>5. SumFunction(e) = 0
    BY <2>1, <2>2, SumIsNumber
  <2> QED BY <2>2, <2>4, <2>5 DEF Range
<1> QED BY <1>1, <1>2
=============================================================================
