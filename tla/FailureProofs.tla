--------------------------- MODULE FailureProofs ---------------------------
(***************************************************************************)
(* Proofs, for every number of nodes and of crashes, every workload and    *)
(* every conflict relation, of what module HamsouFailure promises: the     *)
(* handlers stay well-formed, the stable prefix is final, no call of a     *)
(* live node is lost or doubled, and nobody waits for the dead.            *)
(***************************************************************************)
EXTENDS HamsouFailure, StabilityProofs

-----------------------------------------------------------------------------
(***************************************************************************)
(* remove_if leaves the elements at the positions in kept, in their order; *)
(* a beginning of the list that is kept as a whole stays where it is.      *)
(***************************************************************************)
LEMMA OnlyProperties ==
  ASSUME NEW S, NEW s \in Seq(S), NEW kept \in SUBSET DOMAIN s
  PROVE  /\ Only(s, kept) \in Seq(S)
         /\ Range(Only(s, kept)) = {s[i] : i \in kept}
         /\ IsInjective(s) => IsInjective(Only(s, kept))
         /\ \A b \in Nat : 1..b \subseteq kept =>
              /\ b <= Len(Only(s, kept))
              /\ \A k \in 1..b : Only(s, kept)[k] = s[k]
<1> DEFINE upTo(i) == {x \in kept : x <= i}
           n == Cardinality(kept)
           rank == [i \in kept |-> Cardinality(upTo(i))]
           at(k) == CHOOSE i \in kept : Cardinality({x \in kept : x <= i}) = k
           t == Only(s, kept)
<1>1. IsFiniteSet(kept) /\ n \in Nat /\ kept \subseteq Nat \ {0}
  <2>1. Len(s) \in Nat /\ DOMAIN s = 1..Len(s)
    OBVIOUS
  <2>2. 1 \in Int /\ Len(s) \in Int
    BY <2>1
  <2>3. IsFiniteSet(1..Len(s))
    BY <2>2, FS_Interval
  <2>4. IsFiniteSet(kept)
    BY <2>1, <2>3, FS_Subset
  <2> QED BY <2>1, <2>4, FS_CardinalityType
<1>2. \A i : IsFiniteSet(upTo(i)) /\ Cardinality(upTo(i)) \in Nat /\ Cardinality(upTo(i)) <= n
  <2> SUFFICES ASSUME NEW i
               PROVE  IsFiniteSet(upTo(i)) /\ Cardinality(upTo(i)) \in Nat /\ Cardinality(upTo(i)) <= n
    OBVIOUS
  <2>1. upTo(i) \in SUBSET kept
    OBVIOUS
  <2>2. IsFiniteSet(upTo(i)) /\ Cardinality(upTo(i)) <= n
    BY <1>1, <2>1, FS_Subset
  <2> QED BY <2>2, FS_CardinalityType
<1>3. \A i \in kept : rank[i] \in 1..n
  <2> SUFFICES ASSUME NEW i \in kept PROVE Cardinality(upTo(i)) \in 1..n
    OBVIOUS
  <2>1. i \in upTo(i)
    BY <1>1
  <2>2. Cardinality(upTo(i)) # 0
    BY <1>2, <2>1, FS_EmptySet
  <2> QED BY <1>1, <1>2, <2>2
<1>4. \A i, j \in kept : i < j => rank[i] # rank[j]
  <2> SUFFICES ASSUME NEW i \in kept, NEW j \in kept, i < j,
                      Cardinality(upTo(i)) = Cardinality(upTo(j))
               PROVE  FALSE
    OBVIOUS
  <2>1. upTo(i) \in SUBSET upTo(j) /\ j \in upTo(j) /\ j \notin upTo(i)
    BY <1>1
  <2>2. upTo(i) = upTo(j)
    BY <1>2, <2>1, FS_Subset
  <2> QED BY <2>1, <2>2
<1>5. \A i, j \in kept : rank[i] = rank[j] => i = j
  <2> SUFFICES ASSUME NEW i \in kept, NEW j \in kept, rank[i] = rank[j] PROVE i = j
    OBVIOUS
  <2>1. i < j \/ j < i \/ i = j
    BY <1>1
  <2> QED BY <1>4, <2>1
<1>6. \A k \in 1..n : \E i \in kept : rank[i] = k
  <2>1. rank \in Injection(kept, 1..n)
    <3>1. rank \in [kept -> 1..n]
      BY <1>3
    <3> HIDE DEF rank, n
    <3> QED BY <1>5, <3>1 DEF Injection, IsInjective
  <2>2. IsFiniteSet(1..n) /\ Cardinality(1..n) = n
    <3>1. 1 \in Int /\ n \in Int
      BY <1>1
    <3>2. IsFiniteSet(1..n) /\ Cardinality(1..n) = IF 1 > n THEN 0 ELSE n - 1 + 1
      BY <3>1, FS_Interval
    <3> HIDE DEF n
    <3> QED BY <1>1, <3>2
  <2>3. rank \in Surjection(kept, 1..n)
    BY <2>1, <2>2, FS_Injection
  <2> HIDE DEF rank, n
  <2> QED BY <2>3 DEF Surjection
<1>7. \A k \in 1..n : at(k) \in kept /\ rank[at(k)] = k
  <2> SUFFICES ASSUME NEW k \in 1..n PROVE at(k) \in kept /\ Cardinality(upTo(at(k))) = k
    OBVIOUS
  <2>1. \E i \in kept : Cardinality(upTo(i)) = k
    <3>1. PICK i \in kept : rank[i] = k
      BY <1>6
    <3> QED BY <3>1
  <2> QED BY <2>1
<1>8. t = [k \in 1..n |-> s[at(k)]]
  BY DEF Only
<1>9. t \in [1..n -> S] /\ \A k \in 1..n : t[k] = s[at(k)]
  <2>1. \A i \in kept : s[i] \in S
    OBVIOUS
  <2> HIDE DEF at, n, t
  <2> QED BY <1>7, <1>8, <2>1
<1>10. \A i \in kept : at(rank[i]) = i
  <2> HIDE DEF at, rank, n
  <2> QED BY <1>3, <1>5, <1>7
<1> HIDE DEF t, at, n
<1>11. t \in Seq(S) /\ Len(t) = n /\ DOMAIN t = 1..n
  BY <1>1, <1>9, FunctionIsList
<1>12. Range(t) = {s[i] : i \in kept}
  <2>1. \A k \in 1..n : t[k] \in {s[i] : i \in kept}
    BY <1>7, <1>9
  <2>2. \A i \in kept : rank[i] \in 1..n /\ t[rank[i]] = s[i]
    <3> HIDE DEF rank
    <3> QED BY <1>3, <1>9, <1>10
  <2> HIDE DEF rank
  <2> QED BY <1>11, <2>1, <2>2 DEF Range
<1>13. IsInjective(s) => IsInjective(t)
  <2> SUFFICES ASSUME IsInjective(s), NEW j \in 1..n, NEW k \in 1..n, t[j] = t[k] PROVE j = k
    BY <1>11 DEF IsInjective
  <2>1. at(j) \in DOMAIN s /\ at(k) \in DOMAIN s /\ s[at(j)] = s[at(k)]
    <3>1. at(j) \in kept /\ at(k) \in kept
      BY <1>7
    <3>2. s[at(j)] = s[at(k)]
      BY <1>9
    <3> QED BY <3>1, <3>2
  <2>2. at(j) = at(k)
    BY <2>1 DEF IsInjective
  <2> HIDE DEF rank
  <2> QED BY <1>7, <2>2
<1>14. ASSUME NEW b \in Nat, 1..b \subseteq kept
       PROVE  b <= n /\ \A k \in 1..b : t[k] = s[k]
  <2>1. \A k \in 1..b : k \in kept /\ rank[k] = k
    <3> SUFFICES ASSUME NEW k \in 1..b PROVE k \in kept /\ Cardinality(upTo(k)) = k
      OBVIOUS
    <3>1. upTo(k) = 1..k
      BY <1>1, <1>14
    <3>2. k \in Int /\ 1 \in Int /\ k >= 1
      OBVIOUS
    <3>3. Cardinality(1..k) = IF 1 > k THEN 0 ELSE k - 1 + 1
      BY <3>2, FS_Interval
    <3> HIDE DEF upTo
    <3> QED BY <1>14, <3>1, <3>2, <3>3
  <2> HIDE DEF rank
  <2>2. \A k \in 1..b : k \in 1..n /\ t[k] = s[k]
    BY <1>3, <1>9, <1>10, <2>1
  <2>3. b <= n
    <3>1. CASE b = 0
      BY <1>1, <3>1
    <3>2. CASE b # 0
      <4>1. b \in 1..b
        BY <3>2
      <4> QED BY <1>1, <2>2, <4>1
    <3> QED BY <3>1, <3>2
  <2> QED BY <2>2, <2>3
<1> QED BY <1>11, <1>12, <1>13, <1>14 DEF t

-----------------------------------------------------------------------------
(***************************************************************************)
(* Well-formed handlers.  The invariants of module Hamsou over connections *)
(* that may also carry the shutdown message, and what is known of the      *)
(* failures: it is sent by nodes that were shut down, and only they are    *)
(* marked.                                                                 *)
(***************************************************************************)
FMessage == Message \cup {Shutdown}

Marked ==
  /\ crashed \in SUBSET Node
  /\ node_failed \in [Node -> SUBSET Node]
  /\ \A n \in Node : node_failed[n] \subseteq crashed
  /\ marking \in [Node -> {"no", "stabilize", "drain", "draining", "stabilize again"}]
  /\ \A m, n \in Node : Shutdown \in Sent(m, n) => m \in crashed

FIInv == IInvOver(FMessage) /\ Marked

(* The shutdown message is neither a call nor an acknowledgement. *)
LEMMA ShutdownIsDifferent ==
  /\ Carries(FMessage)
  /\ \A x \in Message : x # Shutdown
  /\ Shutdown.kind \notin {"Call", "Ack"} /\ Shutdown \in FMessage
<1>1. Shutdown.kind = "Shutdown"
  BY DEF Shutdown
<1>2. \A x \in Message : x.kind \in {"Call", "Ack"}
  BY Messages
<1> QED BY <1>1, <1>2 DEF Carries, FMessage

(* Only the receivers of FStep may change what is known of the failures. *)
LEMMA MarkedKept ==
  ASSUME FIInv, UNCHANGED failureVars,
         \A m, n \in Node : Shutdown \in Sent(m, n)' => Shutdown \in Sent(m, n)
  PROVE  Marked'
BY DEF FIInv, Marked, failureVars

(* With failures, too, stabilizerWithAck stops inside the list. *)
LEMMA FStableUpToRange ==
  ASSUME NEW n, NEW a, Len(executionList[n]) \in Nat, stable_index[n] \in Nat,
         stable_index[n] <= Len(executionList[n])
  PROVE  FStableUpTo(n, a) \in stable_index[n] .. Len(executionList[n])
<1> DEFINE s == stable_index[n]
           l == Len(executionList[n])
           short == {i \in s + 1 .. l : ~FAcked(n, a, i)}
           P(i) == /\ \A k \in s + 1 .. i : FAcked(n, a, k)
                   /\ i < l => ~FAcked(n, a, i + 1)
<1>1. \E i \in s .. l : P(i)
  <2>1. CASE short = {}
    <3>1. P(l)
      BY <2>1
    <3> QED BY <3>1
  <2>2. CASE short # {}
    <3>1. short \in SUBSET Nat
      OBVIOUS
    <3>2. PICK j \in short : \A k \in short : j <= k
      BY <2>2, <3>1, LeastNumber
    <3>3. j - 1 \in s .. l /\ (j - 1) + 1 = j
      BY <3>1
    <3>4. \A k \in s + 1 .. j - 1 : FAcked(n, a, k)
      BY <3>2
    <3>5. P(j - 1)
      BY <3>2, <3>3, <3>4
    <3> QED BY <3>3, <3>5
  <2> QED BY <2>1, <2>2
<1>2. FStableUpTo(n, a) = CHOOSE i \in s .. l : P(i)
  BY DEF FStableUpTo
<1> HIDE DEF P
<1> QED BY <1>1, <1>2

(* The critical section of stabilizerWithAck, whoever calls it. *)
LEMMA StabilizeToIInv ==
  ASSUME NEW M, IInvOver(M), NEW n \in Node,
         NEW last \in stable_index[n] .. Len(executionList[n]), StabilizeTo(n, last),
         UNCHANGED <<workload, it, waiting, executionList, vector_clock, priorityQueue, unsent_acks>>,
         acks' \in [Node -> [Node -> [1..MaxCallId -> Nat]]],
         net' \in [Node -> [Node -> Seq(M)]]
  PROVE  IInvOver(M)' /\ \A r \in Node : PrefixKept(r)
<1> DEFINE next == IF last > stable_index[n] THEN DrainOrIdle(priorityQueue[n]) ELSE Idle
<1>1. /\ stable_index' = [stable_index EXCEPT ![n] = last]
      /\ receiver' = [receiver EXCEPT ![n] = next]
      /\ turn' \in [Node -> {"ack", "call", "last"}]
  BY DEF StabilizeTo, IInvOver, Typed
<1>2. Len(executionList[n]) \in Nat /\ stable_index[n] \in Nat
  BY DEF IInvOver, Typed
<1>3. next \in ReceiverState
  BY DEF ReceiverState, DrainOrIdle
<1>4. receiver' \in [Node -> ReceiverState]
  <2> HIDE DEF next
  <2> QED BY <1>1, <1>3 DEF IInvOver, Typed, ReceiverState
<1>5. stable_index' \in [Node -> Nat]
  BY <1>1, <1>2 DEF IInvOver, Typed
<1>6. Typed(M)'
  BY <1>1, <1>4, <1>5 DEF IInvOver, Typed, ReceiverState
<1>7. StableWithinList'
  BY <1>1, <1>2 DEF IInvOver, Typed, StableWithinList
<1>8. QueueHasTop'
  <2> SUFFICES ASSUME NEW r \in Node, UsesQueue(r)' PROVE priorityQueue'[r] # <<>>
    BY DEF QueueHasTop
  <2>1. CASE r # n
    BY <1>1, <2>1 DEF IInvOver, Typed, QueueHasTop, UsesQueue
  <2>2. CASE r = n
    BY <1>1, <2>2 DEF IInvOver, Typed, UsesQueue, DrainOrIdle, Idle, Drain
  <2> QED BY <2>1, <2>2
<1>9. ASSUME NEW r \in Node PROVE PrefixKept(r)
  <2>1. stable_index[r] <= stable_index'[r]
    <3>1. CASE r = n
      BY <1>1, <1>2, <3>1 DEF IInvOver, Typed
    <3>2. CASE r # n
      BY <1>1, <3>2 DEF IInvOver, Typed
    <3> QED BY <3>1, <3>2
  <2> QED BY <2>1 DEF PrefixKept
<1> QED BY <1>6, <1>7, <1>8, <1>9 DEF IInvOver

-----------------------------------------------------------------------------
(* The steps of module Hamsou, at a node that is not shut down.            *)

(* What is in the connections to the others when the signal comes. *)
LEMMA UnderwayIsMessage ==
  ASSUME NEW M, Carries(M), Typed(M), NEW d \in Node
  PROVE  Underway(d) \subseteq Message
<1> SUFFICES ASSUME NEW x \in Underway(d) PROVE x \in Message
  OBVIOUS
<1>1. CASE unsent_acks[d] # <<>> /\ x = AckMessage(Head(unsent_acks[d]))
  <2>1. unsent_acks[d] \in Seq(CallId)
    BY DEF Typed
  <2>2. Head(unsent_acks[d]) \in CallId
    BY <1>1, <2>1
  <2> QED BY <1>1, <2>2 DEF Message, AckMessage
<1>2. CASE AtCall(d) /\ x = CallMessage(NextCall(d))
  <2>1. NextCall(d) \in Call
    BY <1>2, NextCallType DEF AtCall
  <2> QED BY <1>2, <2>1 DEF Message, CallMessage
<1> QED BY <1>1, <1>2 DEF Underway

(***************************************************************************)
(* What the shutdown puts into the connections: to some of the others a    *)
(* message that was underway, the same to all, and Shutdown after it.      *)
(***************************************************************************)
LEMMA CrashEffect ==
  ASSUME NEW M, Carries(M), Shutdown \in M, IInvOver(M), NEW d \in Node, Crash(d)
  PROVE  /\ IInvOver(M)'
         /\ UNCHANGED <<workload, mainVars, handlerVars, receiverVars, unsent_acks, node_failed, marking>>
         /\ d \notin crashed /\ crashed' = crashed \cup {d}
         /\ \A m, r \in Node : m # d \/ r = d => Sent(m, r)' = Sent(m, r)
         /\ \A r \in Node : \E new \in {{}, {Shutdown}} \cup {{x, Shutdown} : x \in Underway(d)} :
              /\ Sent(d, r)' = Sent(d, r) \cup new
              /\ \A kind \in {"Call", "Ack"} :
                   /\ OnceEach(net[d][r], kind)
                   /\ \A x \in new : x.kind = kind => x \notin Sent(d, r)
                   => OnceEach(net'[d][r], kind)
<1>1. PICK last \in {<<>>} \cup {<<m>> : m \in Underway(d)}, reached \in SUBSET (Node \ {d}) :
        /\ last = <<>> => reached = {}
        /\ net' = [net EXCEPT ![d] = [r \in Node |->
             IF r = d \/ r \in node_failed[d] THEN @[r]
             ELSE (IF r \in reached THEN @[r] \o last ELSE @[r]) \o <<Shutdown>>]]
  BY DEF Crash
<1>2. /\ d \notin crashed /\ crashed' = crashed \cup {d}
      /\ UNCHANGED <<workload, mainVars, handlerVars, receiverVars, unsent_acks, node_failed, marking>>
  BY DEF Crash, Live
<1>3. /\ \A m, r \in Node : net[m][r] \in Seq(M)
      /\ Shutdown \in M /\ Shutdown.kind \notin {"Call", "Ack"}
  BY ShutdownIsDifferent DEF IInvOver, Typed
<1>4. \A m, r \in Node : net'[m][r] =
        IF m # d \/ r = d \/ r \in node_failed[d] THEN net[m][r]
        ELSE (IF r \in reached THEN net[m][r] \o last ELSE net[m][r]) \o <<Shutdown>>
  BY <1>1 DEF IInvOver, Typed
<1>5. ASSUME NEW r \in Node
      PROVE  /\ net'[d][r] \in Seq(M)
             /\ \E new \in {{}, {Shutdown}} \cup {{x, Shutdown} : x \in Underway(d)} :
                  /\ Sent(d, r)' = Sent(d, r) \cup new
                  /\ \A kind \in {"Call", "Ack"} :
                       /\ OnceEach(net[d][r], kind)
                       /\ \A x \in new : x.kind = kind => x \notin Sent(d, r)
                       => OnceEach(net'[d][r], kind)
  <2> DEFINE s == net[d][r]
             closed == Append(s, Shutdown)
  <2>1. s \in Seq(M)
    BY <1>3
  <2>2. CASE net'[d][r] = s
    <3>1. Sent(d, r)' = Sent(d, r) \cup {}
      BY <2>2 DEF Sent
    <3> QED BY <2>1, <2>2, <3>1
  <2>3. CASE net'[d][r] = closed
    <3>1. closed \in Seq(M) /\ Range(closed) = Range(s) \cup {Shutdown}
      <4> HIDE DEF s
      <4> QED BY <1>3, <2>1, AppendElements
    <3>2. \A kind \in {"Call", "Ack"} : OnceEach(s, kind) => OnceEach(closed, kind)
      <4> SUFFICES ASSUME NEW kind \in {"Call", "Ack"}, OnceEach(s, kind)
                   PROVE  OnceEach(closed, kind)
        OBVIOUS
      <4>1. Shutdown.kind = kind => Shutdown \notin Range(s)
        BY <1>3
      <4> HIDE DEF s
      <4> QED BY <1>3, <2>1, <4>1, AppendOnce
    <3>3. Sent(d, r)' = Sent(d, r) \cup {Shutdown}
      BY <2>3, <3>1 DEF Sent
    <3> QED BY <2>3, <3>1, <3>2, <3>3
  <2>4. ASSUME NEW x \in Underway(d), net'[d][r] = Append(Append(s, x), Shutdown)
        PROVE  /\ net'[d][r] \in Seq(M)
               /\ Sent(d, r)' = Sent(d, r) \cup {x, Shutdown}
               /\ \A kind \in {"Call", "Ack"} :
                    OnceEach(net[d][r], kind) /\ (x.kind = kind => x \notin Sent(d, r))
                      => OnceEach(net'[d][r], kind)
    <3> DEFINE more == Append(s, x)
               all == Append(more, Shutdown)
    <3>1. x \in M
      BY UnderwayIsMessage DEF IInvOver, Carries
    <3>2. more \in Seq(M) /\ Range(more) = Range(s) \cup {x}
      <4> HIDE DEF s
      <4> QED BY <2>1, <3>1, AppendElements
    <3>3. all \in Seq(M) /\ Range(all) = Range(more) \cup {Shutdown}
      <4> HIDE DEF more
      <4> QED BY <1>3, <3>2, AppendElements
    <3>4. ASSUME NEW kind \in {"Call", "Ack"}, OnceEach(s, kind), x.kind = kind => x \notin Range(s)
          PROVE  OnceEach(all, kind)
      <4>1. OnceEach(more, kind)
        <5> HIDE DEF s
        <5> QED BY <2>1, <3>1, <3>4, AppendOnce
      <4>2. Shutdown.kind = kind => Shutdown \notin Range(more)
        BY <1>3
      <4> HIDE DEF more
      <4> QED BY <1>3, <3>2, <4>1, <4>2, AppendOnce
    <3>5. Sent(d, r)' = Sent(d, r) \cup {x, Shutdown}
      BY <2>4, <3>2, <3>3 DEF Sent
    <3>6. ASSUME NEW kind \in {"Call", "Ack"}, OnceEach(net[d][r], kind),
                 x.kind = kind => x \notin Sent(d, r)
          PROVE  OnceEach(net'[d][r], kind)
      <4>1. x.kind = kind => x \notin Range(s)
        BY <3>6 DEF Sent
      <4> QED BY <2>4, <3>4, <3>6, <4>1
    <3>7. net'[d][r] \in Seq(M)
      BY <2>4, <3>3
    <3> QED BY <3>5, <3>6, <3>7
  <2>5. CASE r = d \/ r \in node_failed[d]
    BY <1>4, <2>2, <2>5
  <2>6. CASE ~(r = d \/ r \in node_failed[d]) /\ ~(r \in reached /\ last # <<>>)
    <3>1. s \o <<>> = s /\ s \o <<Shutdown>> = closed
      BY <1>3, <2>1
    <3>2. net'[d][r] = closed
      BY <1>4, <2>6, <3>1
    <3> QED BY <2>3, <3>2
  <2>7. CASE ~(r = d \/ r \in node_failed[d]) /\ r \in reached /\ last # <<>>
    <3>1. PICK x \in Underway(d) : last = <<x>>
      BY <2>7
    <3>2. net'[d][r] = (s \o <<x>>) \o <<Shutdown>>
      BY <1>4, <2>7, <3>1
    <3>3. x \in M
      BY UnderwayIsMessage DEF IInvOver, Carries
    <3>4. s \o <<x>> = Append(s, x) /\ Append(s, x) \in Seq(M)
      BY <2>1, <3>3
    <3>5. Append(s, x) \o <<Shutdown>> = Append(Append(s, x), Shutdown)
      BY <1>3, <3>4
    <3>6. net'[d][r] = Append(Append(s, x), Shutdown)
      BY <3>2, <3>4, <3>5
    <3>7. /\ net'[d][r] \in Seq(M)
          /\ Sent(d, r)' = Sent(d, r) \cup {x, Shutdown}
          /\ \A kind \in {"Call", "Ack"} :
               OnceEach(net[d][r], kind) /\ (x.kind = kind => x \notin Sent(d, r))
                 => OnceEach(net'[d][r], kind)
      BY <2>4, <3>6
    <3> HIDE DEF s
    <3> QED BY <3>7
  <2> QED BY <2>5, <2>6, <2>7
<1>6. \A m, r \in Node : m # d \/ r = d => net'[m][r] = net[m][r]
  BY <1>4
<1>7. \A m, r \in Node : net'[m][r] \in Seq(M)
  <2> SUFFICES ASSUME NEW m \in Node, NEW r \in Node PROVE net'[m][r] \in Seq(M)
    OBVIOUS
  <2>1. CASE m = d
    BY <1>5, <2>1
  <2>2. CASE m # d
    BY <1>3, <1>6, <2>2
  <2> QED BY <2>1, <2>2
<1>8. net' \in [Node -> [Node -> Seq(M)]]
  <2>1. /\ DOMAIN net = Node /\ net = [m \in Node |-> net[m]]
        /\ \A m \in Node : net[m] = [r \in Node |-> net[m][r]]
    BY DEF IInvOver, Typed
  <2> DEFINE row == [r \in Node |->
               IF r = d \/ r \in node_failed[d] THEN net[d][r]
               ELSE (IF r \in reached THEN net[d][r] \o last ELSE net[d][r]) \o <<Shutdown>>]
  <2>2. net' = [net EXCEPT ![d] = row]
    BY <1>1
  <2>3. row = [r \in Node |-> row[r]]
    OBVIOUS
  <2> HIDE DEF row
  <2>4. net'[d] = row /\ \A m \in Node \ {d} : net'[m] = net[m]
    BY <2>1, <2>2
  <2>5. row \in [Node -> Seq(M)]
    BY <1>7, <2>3, <2>4
  <2> QED BY <2>2, <2>5 DEF IInvOver, Typed
<1>9. IInvOver(M)'
  BY <1>2, <1>8 DEF IInvOver, Typed, StableWithinList, QueueHasTop, UsesQueue, mainVars,
                    handlerVars, receiverVars
<1> QED BY <1>2, <1>5, <1>6, <1>9 DEF Sent

-----------------------------------------------------------------------------
(* The steps of markNodeFailed, and an acknowledgement with failures.      *)

(***************************************************************************)
(* The shutdown message is read, and unstable calls of the dead node d are *)
(* dropped: the list loses nothing else, and nothing of its stable prefix. *)
(***************************************************************************)
LEMMA ReceiveShutdownEffect ==
  ASSUME NEW M, Carries(M), IInvOver(M), NEW n \in Node, NEW d \in Node, ReceiveShutdown(n, d)
  PROVE  /\ UNCHANGED <<workload, mainVars, stable_index, vector_clock, receiverVars, unsent_acks, crashed>>
         /\ receiver[n] = Idle /\ Shutdown \in Sent(d, n)
         /\ IInvOver(M)' /\ \A r \in Node : PrefixKept(r)
         /\ \A r \in Node : /\ Executed(r)' \subseteq Executed(r)
                            /\ r # n => Executed(r)' = Executed(r)
         /\ \A c \in Executed(n) : c.node_id # d => c \in Executed(n)'
         /\ \A k, r \in Node : /\ Sent(k, r)' \subseteq Sent(k, r)
                               /\ Sent(k, r) \ Sent(k, r)' \subseteq {Shutdown}
         /\ CallsOnce => CallsOnce'
<1> DEFINE list == executionList[n]
           b == stable_index[n]
           kept == {i \in DOMAIN list : Survives(n, d, i)}
           new == Only(list, kept)
<1>1. /\ UNCHANGED <<workload, mainVars, stable_index, vector_clock, receiverVars, unsent_acks, crashed>>
      /\ receiver[n] = Idle /\ net[d][n] # <<>> /\ Head(net[d][n]) = Shutdown
      /\ net' = [net EXCEPT ![d][n] = Tail(@)]
      /\ executionList' = [executionList EXCEPT ![n] = new]
  BY DEF ReceiveShutdown
<1>2. /\ list \in Seq(Call) /\ kept \in SUBSET DOMAIN list /\ b \in Nat /\ b <= Len(list)
      /\ DOMAIN list = 1..Len(list) /\ Len(list) \in Nat
  BY DEF IInvOver, Typed, StableWithinList
<1>3. 1..b \subseteq kept
  BY <1>2 DEF Survives
<1>4. ASSUME NEW i \in DOMAIN list, list[i].node_id # d PROVE i \in kept
  BY <1>4 DEF Survives
<1> HIDE DEF kept
<1>5. /\ new \in Seq(Call) /\ Range(new) = {list[i] : i \in kept}
      /\ IsInjective(list) => IsInjective(new)
      /\ b <= Len(new) /\ \A k \in 1..b : new[k] = list[k]
  <2> HIDE DEF list, b
  <2> QED BY <1>2, <1>3, OnlyProperties
<1> HIDE DEF new
<1>6. /\ executionList'[n] = new
      /\ \A r \in Node \ {n} : executionList'[r] = executionList[r]
      /\ executionList' \in [Node -> Seq(Call)]
  BY <1>1, <1>5 DEF IInvOver, Typed
<1>7. net' \in [Node -> [Node -> Seq(M)]]
  BY <1>1, TakeType DEF IInvOver
<1>8. IInvOver(M)'
  <2>1. Typed(M)'
    BY <1>1, <1>6, <1>7 DEF IInvOver, Typed, mainVars, receiverVars
  <2>2. StableWithinList'
    BY <1>1, <1>5, <1>6 DEF IInvOver, StableWithinList
  <2>3. QueueHasTop'
    BY <1>1 DEF IInvOver, QueueHasTop, UsesQueue, receiverVars
  <2> QED BY <2>1, <2>2, <2>3 DEF IInvOver
<1>9. \A r \in Node : PrefixKept(r)
  BY <1>1, <1>5, ListChangeKeeps
<1>10. /\ \A r \in Node : /\ Executed(r)' \subseteq Executed(r)
                          /\ r # n => Executed(r)' = Executed(r)
       /\ \A c \in Executed(n) : c.node_id # d => c \in Executed(n)'
  <2>1. \A r \in Node \ {n} : Executed(r)' = Executed(r)
    BY <1>6 DEF Executed
  <2>2. Executed(n)' = {list[i] : i \in kept} /\ Executed(n) = {list[i] : i \in DOMAIN list}
    BY <1>5, <1>6 DEF Executed, Range
  <2> HIDE DEF list
  <2> QED BY <1>2, <1>4, <2>1, <2>2
<1>11. \A k, r \in Node : /\ Sent(k, r)' \subseteq Sent(k, r)
                          /\ Sent(k, r) \ Sent(k, r)' \subseteq {Shutdown}
                          /\ \A kind : OnceEach(net[k][r], kind) => OnceEach(net'[k][r], kind)
  BY <1>1, TakeEffect DEF IInvOver
<1>12. Shutdown \in Sent(d, n)
  BY <1>1, TakeEffect DEF IInvOver
<1>13. CallsOnce => CallsOnce'
  BY <1>1, <1>5, <1>6, <1>11 DEF CallsOnce, receiverVars
<1> QED BY <1>1, <1>8, <1>9, <1>10, <1>11, <1>12, <1>13

(* A round of the forced drain leaves the handler well-formed. *)
LEMMA ForceTopIInv ==
  ASSUME NEW M, IInvOver(M), NEW n \in Node, ForceTop(n)
  PROVE  IInvOver(M)'
<1> DEFINE q == priorityQueue[n]
           c == Top(q)
           i == InsertPosition(n, c)
           list == executionList[n]
           new == InsertAt(list, i, c)
<1>1. /\ receiver[n] = Idle /\ q # <<>>
      /\ executionList' = [executionList EXCEPT ![n] = new]
      /\ vector_clock' = [vector_clock EXCEPT ![n][c.node_id] = @ + 1]
      /\ unsent_acks' = [unsent_acks EXCEPT ![n] = Append(@, IdOf(c))]
      /\ priorityQueue' = [priorityQueue EXCEPT ![n] = Pop(@)]
      /\ UNCHANGED <<workload, it, turn, waiting, stable_index, acks, receiver, net>>
  BY DEF ForceTop, mainVars
<1>2. q \in Seq(Call) /\ c \in Call /\ Pop(q) \in Seq(Call)
  <2>1. q \in Seq(Call)
    BY DEF IInvOver, Typed
  <2> HIDE DEF q
  <2> QED BY <1>1, <2>1, TopType, PopType
<1>3. c.node_id \in Node /\ IdOf(c) \in CallId
  BY <1>2 DEF Call, IdOf, CallId
<1>4. list \in Seq(Call) /\ Len(list) \in Nat /\ stable_index[n] \in Nat
      /\ stable_index[n] <= Len(list)
  BY DEF IInvOver, Typed, StableWithinList
<1>5. i \in 1..Len(list) + 1
  <2>1. i \in stable_index[n] + 1 .. Len(list) + 1
    BY <1>4, InsertPositionRange
  <2> HIDE DEF i
  <2> QED BY <1>4, <2>1
<1> HIDE DEF i
<1>6. new \in Seq(Call) /\ Len(new) = Len(list) + 1
  <2> HIDE DEF c, list
  <2> QED BY <1>2, <1>4, <1>5, InsertAtList
<1> HIDE DEF new, c
<1>7. executionList' \in [Node -> Seq(Call)]
  BY <1>1, <1>6 DEF IInvOver, Typed
<1>8. vector_clock' \in [Node -> Clock]
  <2>1. vector_clock[n] \in [Node -> Nat]
    BY DEF IInvOver, Typed, Clock
  <2>2. [vector_clock[n] EXCEPT ![c.node_id] = @ + 1] \in [Node -> Nat]
    BY <1>3, <2>1
  <2>3. vector_clock' = [vector_clock EXCEPT ![n] = [vector_clock[n] EXCEPT ![c.node_id] = @ + 1]]
    BY <1>1
  <2> QED BY <2>2, <2>3 DEF IInvOver, Typed, Clock
<1>9. unsent_acks' \in [Node -> Seq(CallId)] /\ priorityQueue' \in [Node -> Seq(Call)]
  BY <1>1, <1>2, <1>3 DEF IInvOver, Typed
<1>10. Typed(M)'
  BY <1>1, <1>7, <1>8, <1>9 DEF IInvOver, Typed
<1>11. StableWithinList'
  BY <1>1, <1>4, <1>6 DEF IInvOver, Typed, StableWithinList
<1>12. QueueHasTop'
  <2> SUFFICES ASSUME NEW r \in Node, UsesQueue(r) PROVE priorityQueue'[r] # <<>>
    BY <1>1 DEF QueueHasTop, UsesQueue
  <2>1. r # n
    BY <1>1 DEF UsesQueue, Idle, Drain
  <2> QED BY <1>1, <2>1 DEF IInvOver, Typed, QueueHasTop
<1> QED BY <1>10, <1>11, <1>12 DEF IInvOver

(* It inserts behind the stable prefix. *)
LEMMA ForceTopKeeps ==
  ASSUME NEW M, Carries(M), IInvOver(M), NEW n \in Node, ForceTop(n), NEW r \in Node
  PROVE  PrefixKept(r)
<1> DEFINE q == priorityQueue[n]
           c == Top(q)
           i == InsertPosition(n, c)
           list == executionList[n]
           new == InsertAt(list, i, c)
<1>1. executionList' = [executionList EXCEPT ![n] = new] /\ stable_index' = stable_index
  BY DEF ForceTop
<1>2. c \in Call
  <2>1. q \in Seq(Call) /\ q # <<>>
    BY DEF IInvOver, Typed, ForceTop
  <2> HIDE DEF q
  <2> QED BY <2>1, TopType
<1>3. list \in Seq(Call) /\ Len(list) \in Nat /\ stable_index[n] \in Nat
      /\ stable_index[n] <= Len(list)
  BY DEF IInvOver, Typed, StableWithinList
<1>4. i \in stable_index[n] + 1 .. Len(list) + 1
  BY <1>3, InsertPositionRange
<1> HIDE DEF c, i
<1>5. i \in 1..Len(list) + 1
  BY <1>3, <1>4
<1>6. \A k \in 1..Len(list) + 1 : k < i => new[k] = list[k]
  <2> HIDE DEF list
  <2>1. \A k \in 1..Len(list) + 1 :
          new[k] = IF k < i THEN list[k] ELSE IF k = i THEN c ELSE list[k - 1]
    BY <1>2, <1>3, <1>5, InsertAtList
  <2> QED BY <2>1
<1>7. \A k \in 1..stable_index[n] : k < i /\ k \in 1..Len(list) + 1
  BY <1>3, <1>4
<1> HIDE DEF new
<1> QED BY <1>1, <1>6, <1>7, ListChangeKeeps

(* Node n executes the call c on top of its queue, and acknowledges it. *)
Forces(n, c) ==
  /\ receiver[n] = Idle /\ c \in Queued(n) /\ c \notin Executed(n)
  /\ UNCHANGED <<it, acks, receiver, net, stable_index>>
  /\ \A m \in Node \ {n} :
       /\ Executed(m)' = Executed(m) /\ Queued(m)' = Queued(m) /\ Unsent(m)' = Unsent(m)
       /\ priorityQueue'[m] = priorityQueue[m]
  /\ Executed(n)' = Executed(n) \cup {c}
  /\ Queued(n)' = Queued(n) \ {c}
  /\ Unsent(n)' = Unsent(n) \cup {IdOf(c)}

(* A round of the forced drain executes a call that was not executed yet. *)
LEMMA ForceTopEffect ==
  ASSUME NEW M, IInvOver(M), NEW D, CallsOnce, CallParts(D), NEW n \in Node, ForceTop(n)
  PROVE  CallsOnce' /\ \E c \in Call : Forces(n, c)
<1> DEFINE q == priorityQueue[n]
           c == Top(q)
           i == InsertPosition(n, c)
           list == executionList[n]
           u == unsent_acks[n]
<1>1. /\ receiver[n] = Idle /\ q # <<>>
      /\ executionList' = [executionList EXCEPT ![n] = InsertAt(list, i, c)]
      /\ unsent_acks' = [unsent_acks EXCEPT ![n] = Append(u, IdOf(c))]
      /\ priorityQueue' = [priorityQueue EXCEPT ![n] = Pop(q)]
      /\ UNCHANGED <<it, acks, receiver, net, stable_index>>
  BY DEF ForceTop, mainVars
<1>2. /\ q \in Seq(Call) /\ IsInjective(q) /\ list \in Seq(Call) /\ IsInjective(list)
      /\ u \in Seq(CallId)
  BY DEF IInvOver, Typed, CallsOnce
<1>3. c \in Call /\ c \in Range(q) /\ Range(Pop(q)) = Range(q) \ {c} /\ IsInjective(Pop(q))
  <2>1. Top(q) \in Range(q)
    BY <1>1, <1>2 DEF Top, Range
  <2> HIDE DEF q
  <2> QED BY <1>1, <1>2, <2>1, TopType, PopElements
<1>4. c \notin Executed(n)
  <2>1. receiver[n].pc # "ack"
    BY <1>1 DEF Idle
  <2>2. c \in Queued(n)
    BY <1>3 DEF Queued
  <2> HIDE DEF c
  <2> QED BY <2>1, <2>2 DEF CallParts, HandledOnce
<1>5. i \in 1..Len(list) + 1
  <2>1. Len(list) \in Nat /\ stable_index[n] \in Nat /\ stable_index[n] <= Len(list)
    BY DEF IInvOver, Typed, StableWithinList
  <2>2. i \in stable_index[n] + 1 .. Len(list) + 1
    BY <2>1, InsertPositionRange
  <2> HIDE DEF i
  <2> QED BY <2>1, <2>2
<1> HIDE DEF i
<1>6. /\ Range(InsertAt(list, i, c)) = Range(list) \cup {c}
      /\ IsInjective(InsertAt(list, i, c))
  <2>1. c \notin Range(list)
    BY <1>4 DEF Executed
  <2> HIDE DEF c, list
  <2> QED BY <1>2, <1>3, <1>5, <2>1, InsertElements
<1>7. Range(Append(u, IdOf(c))) = Range(u) \cup {IdOf(c)}
  <2>1. IdOf(c) \in CallId
    BY <1>3 DEF Call, IdOf, CallId
  <2> HIDE DEF c, u
  <2> QED BY <1>2, <2>1, AppendElements
<1> HIDE DEF c
<1>8. /\ executionList'[n] = InsertAt(list, i, c) /\ unsent_acks'[n] = Append(u, IdOf(c))
      /\ priorityQueue'[n] = Pop(q)
      /\ \A m \in Node \ {n} : /\ executionList'[m] = executionList[m]
                               /\ unsent_acks'[m] = unsent_acks[m]
                               /\ priorityQueue'[m] = priorityQueue[m]
  BY <1>1 DEF IInvOver, Typed
<1>9. CallsOnce'
  BY <1>1, <1>3, <1>6, <1>8 DEF CallsOnce
<1>10. Forces(n, c)
  BY <1>1, <1>3, <1>4, <1>6, <1>7, <1>8 DEF Forces, Executed, Queued, Unsent
<1> QED BY <1>3, <1>9, <1>10

(* It does not change where the other calls are. *)
LEMMA ForcesCalls ==
  ASSUME NEW M, Carries(M), IInvOver(M), NEW D, CallParts(D), NEW n \in Node, NEW c \in Call,
         Forces(n, c)
  PROVE  CallParts(D)'
<1>1. /\ receiver[n] = Idle /\ c \in Queued(n) /\ c \notin Executed(n)
      /\ it' = it /\ receiver' = receiver
      /\ Executed(n)' = Executed(n) \cup {c} /\ Queued(n)' = Queued(n) \ {c}
      /\ \A m \in Node \ {n} :
           /\ Executed(m)' = Executed(m) /\ Queued(m)' = Queued(m)
           /\ priorityQueue'[m] = priorityQueue[m]
      /\ \A m, r \in Node : Sent(m, r)' = Sent(m, r)
  BY DEF Forces, Sent
<1>2. \A r \in Node : Hand(r)' = Hand(r)
  BY <1>1, SameHand
<1>3. c.node_id # n /\ c.node_id \in Node /\ (c.node_id \notin D => c \in Executed(c.node_id))
  BY <1>1 DEF CallParts, Origins, Call
<1>4. receiver[n].pc \notin {"insert", "ack"}
  BY <1>1 DEF Idle
<1>5. \A r \in Node : Executed(r)' \cup Queued(r)' = Executed(r) \cup Queued(r)
  BY <1>1
<1>6. \A r \in Node : Executed(r) \subseteq Executed(r)'
  BY <1>1
<1>7. OwnNumbers'
  <2> SUFFICES ASSUME NEW r \in Node, NEW x \in Executed(r)', x.node_id = r
               PROVE  /\ x.call_id < it[r]
                      /\ \A y \in Executed(r)' : y.node_id = r /\ y.call_id = x.call_id => y = x
    BY <1>1 DEF OwnNumbers
  <2>1. \A y \in Executed(r)' : y.node_id = r => y \in Executed(r)
    BY <1>1, <1>3
  <2> QED BY <2>1 DEF CallParts, OwnNumbers
<1>8. Origins(D)'
  <2>1. \A r \in Node : \A x \in Executed(r) \cup Queued(r) \cup Hand(r) : x.node_id \in Node
    BY SetTypes DEF IInvOver, Call
  <2>2. \A r \in Node : Queued(r)' \subseteq Queued(r)
    BY <1>1
  <2> QED BY <1>2, <1>5, <1>6, <2>1, <2>2 DEF CallParts, Origins
<1>9. HandledOnce'
  <2> SUFFICES ASSUME NEW r \in Node
               PROVE  /\ \A x \in Queued(r)' :
                           x \in Executed(r)' => receiver[r].pc = "ack" /\ receiver[r].queued /\ receiver[r].call = x
                      /\ receiver[r].pc = "insert" => receiver[r].call \notin Executed(r)'
                      /\ receiver[r].pc = "ack" => receiver[r].call \in Executed(r)'
                      /\ receiver[r].pc \in {"insert", "ack"} =>
                           IF receiver[r].queued THEN receiver[r].call = Top(priorityQueue'[r])
                                                 ELSE receiver[r].call \notin Queued(r)'
    BY <1>1 DEF HandledOnce
  <2>1. CASE r = n
    BY <1>1, <1>4, <2>1 DEF CallParts, HandledOnce
  <2>2. CASE r # n
    BY <1>1, <2>2 DEF CallParts, HandledOnce
  <2> QED BY <2>1, <2>2
<1>10. CallsUnderway(D)'
  <2>1. \A m \in Node : \A x : x \in Executed(m) => x \in Executed(m)'
    BY <1>6
  <2> QED BY <1>1, <1>2, <1>5, <2>1 DEF CallParts, CallsUnderway
<1>11. NothingLost(D)'
  <2> SUFFICES ASSUME NEW m \in Node \ D, NEW r \in Node, NEW x \in Executed(m)', x.node_id = m, m # r
               PROVE  \/ x \in Executed(r)' \cup Queued(r)' \cup Hand(r)'
                      \/ CallMessage(x) \in Sent(m, r)'
    BY DEF NothingLost
  <2>1. x \in Executed(m)
    BY <1>1, <1>3
  <2> QED BY <1>1, <1>2, <1>5, <2>1 DEF CallParts, NothingLost
<1> QED BY <1>7, <1>8, <1>9, <1>10, <1>11 DEF CallParts

(* An acknowledgement is taken from its channel and counted. *)
LEMMA FReceiveAckEffect ==
  ASSUME NEW M, Carries(M), IInvOver(M), NEW n \in Node, NEW m \in Node, FReceiveAck(n, m)
  PROVE  /\ IInvOver(M)' /\ \A r \in Node : PrefixKept(r)
         /\ UNCHANGED <<it, executionList, priorityQueue, unsent_acks, failureVars>>
         /\ receiver[n] = Idle /\ receiver'[n] \in {Idle, Drain}
         /\ \A r \in Node \ {n} : receiver'[r] = receiver[r]
         /\ CallsOnce => CallsOnce'
         /\ \E a \in CallId :
              /\ AckMessage(a) \in Sent(m, n)
              /\ \A k, r \in Node : /\ Sent(k, r)' \subseteq Sent(k, r)
                                    /\ Sent(k, r) \ Sent(k, r)' \subseteq {AckMessage(a)}
                                    /\ ~(k = m /\ r = n) => Sent(k, r)' = Sent(k, r)
              /\ \A r, j \in Node : \A k \in 1..MaxCallId :
                   acks'[r][j][k] = IF r = n /\ j = a.node_id /\ k = a.call_id
                                    THEN acks[r][j][k] + 1 ELSE acks[r][j][k]
<1> DEFINE h == Head(net[m][n])
           a == h.ack
           counts == [acks[n] EXCEPT ![a.node_id][a.call_id] = @ + 1]
           last == IF counts[a.node_id][a.call_id] >= FQuorum(n, a.node_id)
                   THEN FStableUpTo(n, counts) ELSE stable_index[n]
<1>1. /\ receiver[n] = Idle /\ net[m][n] # <<>> /\ h.kind = "Ack"
      /\ net' = [net EXCEPT ![m][n] = Tail(@)]
      /\ acks' = [acks EXCEPT ![n] = counts]
      /\ StabilizeTo(n, last)
      /\ UNCHANGED <<workload, it, waiting, executionList, vector_clock, priorityQueue,
                     unsent_acks, failureVars>>
  BY DEF FReceiveAck
<1>2. net' \in [Node -> [Node -> Seq(M)]] /\ h \in M
  BY <1>1, TakeType DEF IInvOver
<1>3. h = AckMessage(a) /\ a \in CallId
  <2> HIDE DEF h
  <2> QED BY <1>1, <1>2, KindsOfMessages
<1>4. Len(executionList[n]) \in Nat /\ stable_index[n] \in Nat
      /\ stable_index[n] <= Len(executionList[n])
  BY DEF IInvOver, Typed, StableWithinList
<1>5. /\ \A k, r \in Node : /\ Sent(k, r)' \subseteq Sent(k, r)
                            /\ Sent(k, r) \ Sent(k, r)' \subseteq {h}
                            /\ ~(k = m /\ r = n) => Sent(k, r)' = Sent(k, r)
                            /\ \A kind : OnceEach(net[k][r], kind) => OnceEach(net'[k][r], kind)
      /\ h \in Sent(m, n)
  BY <1>1, TakeEffect DEF IInvOver
<1> HIDE DEF a, h
<1>6. /\ counts \in [Node -> [1..MaxCallId -> Nat]]
      /\ \A j \in Node : \A k \in 1..MaxCallId :
           counts[j][k] = IF j = a.node_id /\ k = a.call_id THEN acks[n][j][k] + 1 ELSE acks[n][j][k]
  <2>1. acks[n] \in [Node -> [1..MaxCallId -> Nat]]
    BY DEF IInvOver, Typed
  <2>2. a.node_id \in Node /\ a.call_id \in 1..MaxCallId
    BY <1>3 DEF CallId
  <2> DEFINE table == acks[n]
             j0 == a.node_id
             k0 == a.call_id
             row == [table[j0] EXCEPT ![k0] = @ + 1]
  <2> HIDE DEF j0, k0, table
  <2>3. table \in [Node -> [1..MaxCallId -> Nat]] /\ j0 \in Node /\ k0 \in 1..MaxCallId
    BY <2>1, <2>2 DEF table, j0, k0
  <2>4. table[j0] \in [1..MaxCallId -> Nat]
    BY <2>3
  <2>5. /\ row \in [1..MaxCallId -> Nat]
        /\ \A k \in 1..MaxCallId : row[k] = IF k = k0 THEN table[j0][k] + 1 ELSE table[j0][k]
    <3> DEFINE old == table[j0]
    <3> HIDE DEF old
    <3>1. old \in [1..MaxCallId -> Nat]
      BY <2>4 DEF old
    <3>2. /\ [old EXCEPT ![k0] = @ + 1] \in [1..MaxCallId -> Nat]
          /\ \A k \in 1..MaxCallId :
               [old EXCEPT ![k0] = @ + 1][k] = IF k = k0 THEN old[k] + 1 ELSE old[k]
      BY <2>3, <3>1
    <3> QED BY <3>2 DEF old
  <2>6. counts = [table EXCEPT ![j0] = row]
    BY DEF table, j0, k0
  <2> HIDE DEF counts, row
  <2>7. /\ counts \in [Node -> [1..MaxCallId -> Nat]]
        /\ \A j \in Node : counts[j] = IF j = j0 THEN row ELSE table[j]
    BY <2>3, <2>5, <2>6
  <2>8. ASSUME NEW j \in Node, NEW k \in 1..MaxCallId
        PROVE  counts[j][k] = IF j = j0 /\ k = k0 THEN table[j][k] + 1 ELSE table[j][k]
    <3>1. CASE j = j0
      BY <2>5, <2>7, <3>1
    <3>2. CASE j # j0
      BY <2>7, <3>2
    <3> QED BY <3>1, <3>2
  <2> QED BY <2>7, <2>8 DEF table, j0, k0
<1> HIDE DEF counts
<1>7. last \in stable_index[n] .. Len(executionList[n])
  <2>1. FStableUpTo(n, counts) \in stable_index[n] .. Len(executionList[n])
    BY <1>4, FStableUpToRange
  <2> QED BY <1>4, <2>1
<1> HIDE DEF last
<1>8. acks' \in [Node -> [Node -> [1..MaxCallId -> Nat]]]
  BY <1>1, <1>6 DEF IInvOver, Typed
<1>9. IInvOver(M)' /\ \A r \in Node : PrefixKept(r)
  BY <1>1, <1>2, <1>7, <1>8, StabilizeToIInv
<1>10. receiver'[n] \in {Idle, Drain} /\ \A r \in Node \ {n} : receiver'[r] = receiver[r]
  BY <1>1 DEF StabilizeTo, DrainOrIdle, IInvOver, Typed
<1>11. \A r, j \in Node : \A k \in 1..MaxCallId :
         acks'[r][j][k] = IF r = n /\ j = a.node_id /\ k = a.call_id
                          THEN acks[r][j][k] + 1 ELSE acks[r][j][k]
  <2> SUFFICES ASSUME NEW r \in Node, NEW j \in Node, NEW k \in 1..MaxCallId
               PROVE  acks'[r][j][k] = IF r = n /\ j = a.node_id /\ k = a.call_id
                                       THEN acks[r][j][k] + 1 ELSE acks[r][j][k]
    OBVIOUS
  <2>1. acks'[n] = counts /\ (r # n => acks'[r] = acks[r])
    BY <1>1 DEF IInvOver, Typed
  <2>2. CASE r = n
    BY <1>6, <2>1, <2>2
  <2>3. CASE r # n
    BY <2>1, <2>3
  <2> QED BY <2>2, <2>3
<1>12. CallsOnce => CallsOnce'
  BY <1>1, <1>5 DEF CallsOnce
<1> QED BY <1>1, <1>3, <1>5, <1>9, <1>10, <1>11, <1>12

(* The stabilizations of markNodeFailed. *)
LEMMA StabilizeAfterFailureEffect ==
  ASSUME NEW M, IInvOver(M), NEW n \in Node, StabilizeAfterFailure(n)
  PROVE  /\ IInvOver(M)' /\ \A r \in Node : PrefixKept(r)
         /\ UNCHANGED <<it, executionList, priorityQueue, acks, unsent_acks, net, crashed, node_failed>>
         /\ receiver[n] = Idle /\ receiver'[n] \in {Idle, Drain}
         /\ \A r \in Node \ {n} : receiver'[r] = receiver[r]
<1> DEFINE last == FStableUpTo(n, acks[n])
<1>1. /\ receiver[n] = Idle /\ StabilizeTo(n, last)
      /\ UNCHANGED <<workload, it, waiting, executionList, vector_clock, priorityQueue, acks,
                     unsent_acks, net, crashed, node_failed>>
  BY DEF StabilizeAfterFailure
<1>2. Len(executionList[n]) \in Nat /\ stable_index[n] \in Nat
      /\ stable_index[n] <= Len(executionList[n])
  BY DEF IInvOver, Typed, StableWithinList
<1>3. last \in stable_index[n] .. Len(executionList[n])
  BY <1>2, FStableUpToRange
<1> HIDE DEF last
<1>4. acks' \in [Node -> [Node -> [1..MaxCallId -> Nat]]] /\ net' \in [Node -> [Node -> Seq(M)]]
  BY <1>1 DEF IInvOver, Typed
<1>5. IInvOver(M)' /\ \A r \in Node : PrefixKept(r)
  BY <1>1, <1>3, <1>4, StabilizeToIInv
<1>6. receiver'[n] \in {Idle, Drain} /\ \A r \in Node \ {n} : receiver'[r] = receiver[r]
  BY <1>1 DEF StabilizeTo, DrainOrIdle, IInvOver, Typed
<1> QED BY <1>1, <1>5, <1>6

-----------------------------------------------------------------------------
(* Every step leaves the handlers well-formed and keeps stable prefixes.   *)

(* Initially. *)
LEMMA InitFIInv == FInit => FIInv
<1> SUFFICES ASSUME FInit PROVE FIInv
  OBVIOUS
<1>1. IInvOver(FMessage)
  <2>1. IInvOver(Message)
    BY InitIInv, OnlyMessages DEF FInit
  <2>2. net \in [Node -> [Node -> Seq(FMessage)]]
    BY DEF FInit, Init
  <2> QED BY <2>1, <2>2 DEF IInvOver, Typed
<1>2. \A m, n \in Node : Sent(m, n) = {}
  BY DEF FInit, Init, Sent, Range
<1>3. Marked
  BY <1>2 DEF FInit, Marked
<1> QED BY <1>1, <1>3 DEF FIInv

(* The main thread. *)
LEMMA FMainKeeps ==
  ASSUME FIInv, NEW n \in Node, FMain(n)
  PROVE  FIInv' /\ \A r \in Node : PrefixKept(r)
<1>1. Carries(FMessage) /\ IInvOver(FMessage)
  BY ShutdownIsDifferent DEF FIInv
<1>2. UNCHANGED failureVars
  BY DEF FMain
<1>3. CASE SendAck(n)
  <2>1. IInvOver(FMessage)'
    BY <1>1, <1>3, SendAckIInv
  <2>2. \A r \in Node : PrefixKept(r)
    BY <1>1, <1>3, UntouchedKept DEF SendAck, handlerVars
  <2>3. AckMessage(Head(unsent_acks[n])) \in Message
    <3>1. unsent_acks[n] \in Seq(CallId) /\ unsent_acks[n] # <<>>
      BY <1>1, <1>3 DEF IInvOver, Typed, SendAck
    <3>2. Head(unsent_acks[n]) \in CallId
      BY <3>1
    <3> QED BY <3>2 DEF Message, AckMessage
  <2> DEFINE x == AckMessage(Head(unsent_acks[n]))
  <2>4. Broadcast(n, x)
    BY <1>3 DEF SendAck
  <2> HIDE DEF x
  <2>5. x \in Message
    BY <2>3 DEF x
  <2>6. \A m, r \in Node : Shutdown \in Sent(m, r)' => Shutdown \in Sent(m, r)
    <3>1. \A m, r \in Node : Sent(m, r)' = IF m = n /\ r # n THEN Sent(m, r) \cup {x} ELSE Sent(m, r)
      BY <1>1, <2>4, <2>5, BroadcastEffect DEF IInvOver
    <3>2. x # Shutdown
      BY <2>5, ShutdownIsDifferent
    <3> QED BY <3>1, <3>2
  <2> QED BY <1>2, <2>1, <2>2, <2>6, MarkedKept DEF FIInv
<1>4. CASE ExecuteLocal(n)
  <2>1. IInvOver(FMessage)'
    BY <1>1, <1>4, ExecuteLocalIInv
  <2>2. \A r \in Node : PrefixKept(r)
    BY <1>1, <1>4, ExecuteLocalKeeps
  <2> DEFINE x == CallMessage(NextCall(n))
  <2>4. Broadcast(n, x)
    BY <1>4 DEF ExecuteLocal
  <2>5. x \in Message
    <3>1. NextCall(n) \in Call
      BY <1>1, <1>4, NextCallType DEF IInvOver, ExecuteLocal, AtCall
    <3> QED BY <3>1 DEF Message, CallMessage
  <2> HIDE DEF x
  <2>6. \A m, r \in Node : Shutdown \in Sent(m, r)' => Shutdown \in Sent(m, r)
    <3>1. \A m, r \in Node : Sent(m, r)' = IF m = n /\ r # n THEN Sent(m, r) \cup {x} ELSE Sent(m, r)
      BY <1>1, <2>4, <2>5, BroadcastEffect DEF IInvOver
    <3>2. x # Shutdown
      BY <2>5, ShutdownIsDifferent
    <3> QED BY <3>1, <3>2
  <2> QED BY <1>2, <2>1, <2>2, <2>6, MarkedKept DEF FIInv
<1>5. CASE NoAckToSend(n) \/ RefuseLocal(n)
  <2>1. IInvOver(FMessage)'
    BY <1>1, <1>5, OtherMainIInv
  <2>2. UNCHANGED <<executionList, stable_index, net>>
    BY <1>5 DEF NoAckToSend, RefuseLocal, handlerVars
  <2>3. \A r \in Node : PrefixKept(r)
    BY <1>1, <2>2, UntouchedKept
  <2>4. \A m, r \in Node : Sent(m, r)' = Sent(m, r)
    BY <2>2 DEF Sent
  <2> QED BY <1>2, <2>1, <2>3, <2>4, MarkedKept DEF FIInv
<1> QED BY <1>3, <1>4, <1>5 DEF FMain

(* The receiver thread outside markNodeFailed. *)
LEMMA FReceiverKeeps ==
  ASSUME FIInv, NEW n \in Node,
         FExecute(n) \/ \E m \in Node : FReceiveCall(n, m) \/ FReceiveAck(n, m)
  PROVE  FIInv' /\ \A r \in Node : PrefixKept(r)
<1>1. Carries(FMessage) /\ IInvOver(FMessage)
  BY ShutdownIsDifferent DEF FIInv
<1>2. CASE FExecute(n)
  <2>1. IInvOver(FMessage)'
    BY <1>1, <1>2, ExecuteRemoteIInv, RecordAckIInv, DrainQueueIInv DEF FExecute
  <2>2. \A r \in Node : PrefixKept(r)
    <3>1. CASE ExecuteRemote(n)
      BY <1>1, <3>1, ExecuteRemoteKeeps
    <3>2. CASE RecordAck(n) \/ DrainQueue(n)
      BY <1>1, <3>2, UntouchedKept DEF RecordAck, DrainQueue, handlerVars
    <3> QED BY <1>2, <3>1, <3>2 DEF FExecute
  <2>3. UNCHANGED failureVars /\ UNCHANGED net
    BY <1>2 DEF FExecute, ExecuteRemote, RecordAck, DrainQueue
  <2>4. \A m, r \in Node : Sent(m, r)' = Sent(m, r)
    BY <2>3 DEF Sent
  <2> QED BY <2>1, <2>2, <2>3, <2>4, MarkedKept DEF FIInv
<1>3. ASSUME NEW m \in Node, FReceiveCall(n, m) PROVE FIInv' /\ \A r \in Node : PrefixKept(r)
  <2>1. IInvOver(FMessage)'
    BY <1>1, <1>3, ReceiveCallIInv DEF FReceiveCall
  <2>2. \A r \in Node : PrefixKept(r)
    BY <1>1, <1>3, UntouchedKept DEF FReceiveCall, ReceiveCall, handlerVars
  <2>3. net[m][n] # <<>> /\ net' = [net EXCEPT ![m][n] = Tail(@)]
    BY <1>3 DEF FReceiveCall, ReceiveCall
  <2>4. \A k, r \in Node : Sent(k, r)' \subseteq Sent(k, r)
    BY <1>1, <2>3, TakeEffect DEF IInvOver
  <2>5. UNCHANGED failureVars
    BY <1>3 DEF FReceiveCall
  <2> QED BY <2>1, <2>2, <2>4, <2>5, MarkedKept DEF FIInv
<1>4. ASSUME NEW m \in Node, FReceiveAck(n, m) PROVE FIInv' /\ \A r \in Node : PrefixKept(r)
  <2>1. /\ IInvOver(FMessage)' /\ \A r \in Node : PrefixKept(r)
        /\ UNCHANGED failureVars
        /\ \A k, r \in Node : Sent(k, r)' \subseteq Sent(k, r)
    BY <1>1, <1>4, FReceiveAckEffect
  <2> QED BY <2>1, MarkedKept DEF FIInv
<1> QED BY <1>2, <1>3, <1>4

(* markNodeFailed. *)
LEMMA MarkFailedKeeps ==
  ASSUME FIInv, NEW n \in Node, MarkFailed(n) \/ \E d \in Node : ReceiveShutdown(n, d)
  PROVE  FIInv' /\ \A r \in Node : PrefixKept(r)
<1>1. Carries(FMessage) /\ IInvOver(FMessage)
  BY ShutdownIsDifferent DEF FIInv
<1>2. CASE StabilizeAfterFailure(n)
  <2>1. /\ IInvOver(FMessage)' /\ \A r \in Node : PrefixKept(r)
        /\ UNCHANGED <<net, crashed, node_failed>>
    BY <1>1, <1>2, StabilizeAfterFailureEffect
  <2>2. marking' \in [Node -> {"no", "stabilize", "drain", "draining", "stabilize again"}]
    BY <1>2 DEF StabilizeAfterFailure, FIInv, Marked
  <2>3. \A m, r \in Node : Sent(m, r)' = Sent(m, r)
    BY <2>1 DEF Sent
  <2>4. Marked'
    BY <2>1, <2>2, <2>3 DEF FIInv, Marked
  <2> QED BY <2>1, <2>4 DEF FIInv
<1>3. CASE ForceTop(n)
  <2>1. IInvOver(FMessage)' /\ \A r \in Node : PrefixKept(r)
    BY <1>1, <1>3, ForceTopIInv, ForceTopKeeps
  <2>2. marking' \in [Node -> {"no", "stabilize", "drain", "draining", "stabilize again"}]
    BY <1>3 DEF ForceTop, FIInv, Marked
  <2>3. \A m, r \in Node : Sent(m, r)' = Sent(m, r)
    BY <1>3 DEF Sent, ForceTop
  <2>4. Marked'
    BY <1>3, <2>2, <2>3 DEF FIInv, Marked, ForceTop
  <2> QED BY <2>1, <2>4 DEF FIInv
<1>4. CASE EndForcedDrain(n)
  <2>1. UNCHANGED <<workload, it, turn, waiting, executionList, stable_index, vector_clock,
                    priorityQueue, acks, receiver, unsent_acks, net, crashed, node_failed>>
    BY <1>4 DEF EndForcedDrain, vars, mainVars, handlerVars, receiverVars
  <2>2. IInvOver(FMessage)'
    BY <1>1, <2>1 DEF IInvOver, Typed, StableWithinList, QueueHasTop, UsesQueue
  <2>3. \A r \in Node : PrefixKept(r)
    BY <1>1, <2>1, UntouchedKept
  <2>4. marking' \in [Node -> {"no", "stabilize", "drain", "draining", "stabilize again"}]
    BY <1>4 DEF EndForcedDrain, FIInv, Marked
  <2>5. \A m, r \in Node : Sent(m, r)' = Sent(m, r)
    BY <2>1 DEF Sent
  <2>6. Marked'
    BY <2>1, <2>4, <2>5 DEF FIInv, Marked
  <2> QED BY <2>2, <2>3, <2>6 DEF FIInv
<1>5. ASSUME NEW d \in Node, ReceiveShutdown(n, d) PROVE FIInv' /\ \A r \in Node : PrefixKept(r)
  <2>1. /\ IInvOver(FMessage)' /\ \A r \in Node : PrefixKept(r)
        /\ crashed' = crashed /\ Shutdown \in Sent(d, n)
        /\ \A k, r \in Node : Sent(k, r)' \subseteq Sent(k, r)
    BY <1>1, <1>5, ReceiveShutdownEffect
  <2>2. d \in crashed
    BY <2>1 DEF FIInv, Marked
  <2>3. /\ node_failed' = [node_failed EXCEPT ![n] = @ \cup {d}]
        /\ marking' = [marking EXCEPT ![n] = "stabilize"]
    BY <1>5 DEF ReceiveShutdown
  <2>4. marking' \in [Node -> {"no", "stabilize", "drain", "draining", "stabilize again"}]
    BY <2>3 DEF FIInv, Marked
  <2>5. node_failed' \in [Node -> SUBSET Node] /\ \A r \in Node : node_failed'[r] \subseteq crashed
    BY <2>2, <2>3 DEF FIInv, Marked
  <2>6. Marked'
    BY <2>1, <2>4, <2>5 DEF FIInv, Marked
  <2> QED BY <2>1, <2>6 DEF FIInv
<1> QED BY <1>2, <1>3, <1>4, <1>5 DEF MarkFailed

(* The signal. *)
LEMMA CrashKeeps ==
  ASSUME FIInv, NEW d \in Node, Crash(d)
  PROVE  FIInv' /\ \A r \in Node : PrefixKept(r)
<1>1. Carries(FMessage) /\ IInvOver(FMessage) /\ Shutdown \in FMessage
  BY ShutdownIsDifferent DEF FIInv
<1>2. /\ IInvOver(FMessage)'
      /\ UNCHANGED <<handlerVars, node_failed, marking>>
      /\ crashed' = crashed \cup {d}
      /\ \A m, r \in Node : m # d => Sent(m, r)' = Sent(m, r)
  BY <1>1, CrashEffect
<1>3. \A r \in Node : PrefixKept(r)
  BY <1>1, <1>2, UntouchedKept DEF handlerVars
<1>4. Marked'
  BY <1>2 DEF FIInv, Marked
<1> QED BY <1>2, <1>3, <1>4 DEF FIInv

(* Every step. *)
LEMMA FStepKeeps ==
  ASSUME FIInv, [FNext]_allVars
  PROVE  FIInv' /\ \A r \in Node : PrefixKept(r)
<1>1. CASE UNCHANGED allVars
  <2>1. UNCHANGED <<workload, it, turn, waiting, executionList, stable_index, vector_clock,
                    priorityQueue, acks, receiver, unsent_acks, net, crashed, node_failed, marking>>
    BY <1>1 DEF allVars, failureVars, vars, mainVars, handlerVars, receiverVars
  <2>2. FIInv'
    BY <2>1 DEF FIInv, IInvOver, Typed, StableWithinList, QueueHasTop, UsesQueue, Marked, Sent
  <2>3. \A r \in Node : PrefixKept(r)
    BY <2>1, UntouchedKept, ShutdownIsDifferent DEF FIInv
  <2> QED BY <2>2, <2>3
<1>2. ASSUME NEW n \in Node, FStep(n) PROVE FIInv' /\ \A r \in Node : PrefixKept(r)
  <2>1. CASE FMain(n)
    BY <2>1, FMainKeeps
  <2>2. CASE FExecute(n) \/ \E m \in Node : FReceiveCall(n, m) \/ FReceiveAck(n, m)
    BY <2>2, FReceiverKeeps
  <2>3. CASE MarkFailed(n) \/ \E d \in Node : ReceiveShutdown(n, d)
    BY <2>3, MarkFailedKeeps
  <2> QED BY <1>2, <2>1, <2>2, <2>3 DEF FStep, FReceive
<1> QED BY <1>1, <1>2, CrashKeeps DEF FNext

(* FIInv is an invariant. *)
LEMMA FInvariance == FSpec => []FIInv
BY InitFIInv, FStepKeeps, PTL DEF FSpec

(***************************************************************************)
(* Handlers and channels stay well-formed when nodes are shut down at any  *)
(* moment and markNodeFailed erases, stabilizes and drains.                *)
(***************************************************************************)
THEOREM CrashTypeCorrect == FSpec => []FTypeOK
<1>1. FIInv => FTypeOK
  <2> SUFFICES ASSUME FIInv PROVE FTypeOK
    OBVIOUS
  <2>1. \A n \in Node : stable_index[n] \in 0..Len(executionList[n])
    BY DEF FIInv, IInvOver, Typed, StableWithinList
  <2> QED BY <2>1 DEF FTypeOK, FIInv, IInvOver, Typed, Marked, FMessage
<1> QED BY <1>1, FInvariance, PTL

(***************************************************************************)
(* A failure does not touch what is stable: the erasure of the dead node's *)
(* calls and the forced drain work behind the stable prefix.               *)
(***************************************************************************)
THEOREM CrashKeepsStablePrefix == FSpec => StablePrefixOnlyGrows
<1>1. FIInv /\ FIInv' /\ [FNext]_allVars
      => [\A n \in Node : IsPrefix(StablePrefix(n), StablePrefix(n)')]_vars
  BY FStepKeeps, KeptIsPrefix, ShutdownIsDifferent DEF FIInv
<1> QED BY <1>1, FInvariance, PTL DEF FSpec, StablePrefixOnlyGrows

-----------------------------------------------------------------------------
(***************************************************************************)
(* Where the calls are.  The invariant of module StabilityProofs holds for *)
(* the nodes that were not shut down: a node may die between the two       *)
(* halves of a broadcast, and have sent a call that it has not executed.   *)
(***************************************************************************)
CrashInv == FIInv /\ CallsOnce /\ CallParts(crashed)

(* The invariant speaks of the nodes that are shut down at the moment. *)
LEMMA SameCrashed ==
  ASSUME NEW D, CallParts(D)', crashed' = D
  PROVE  CallParts(crashed)'
BY DEF CallParts, Origins, CallsUnderway, NothingLost

(* A call that a node is about to send is nowhere yet. *)
LEMMA NextCallIsNew ==
  ASSUME CrashInv, NEW d \in Node \ crashed, NEW x \in Underway(d), x.kind = "Call"
  PROVE  /\ x.call.node_id = d
         /\ \A r \in Node : /\ x \notin Sent(d, r)
                            /\ x.call \notin Executed(r) \cup Queued(r) \cup Hand(r)
<1>1. x = CallMessage(NextCall(d))
  <2>1. \A a : AckMessage(a).kind # "Call"
    BY Messages
  <2> QED BY <2>1 DEF Underway
<1> DEFINE c == NextCall(d)
<1>2. x.call = c /\ c.node_id = d /\ c.call_id = it[d] /\ it[d] \in Nat
  BY <1>1, Messages DEF NextCall, CrashInv, FIInv, IInvOver, Typed
<1> HIDE DEF c
<1>3. c \notin Executed(d)
  BY <1>2 DEF CrashInv, CallParts, OwnNumbers
<1>4. ASSUME NEW r \in Node
      PROVE  /\ x \notin Sent(d, r)
             /\ x.call \notin Executed(r) \cup Queued(r) \cup Hand(r)
  <2>1. x \notin Sent(d, r)
    BY <1>2, <1>3 DEF CrashInv, CallParts, CallsUnderway
  <2>2. c \notin Executed(r) \cup Queued(r) \cup Hand(r)
    BY <1>2, <1>3 DEF CrashInv, CallParts, Origins
  <2> QED BY <1>2, <2>1, <2>2
<1> QED BY <1>2, <1>4

(* The signal. *)
LEMMA CrashCalls ==
  ASSUME CrashInv, NEW d \in Node, Crash(d)
  PROVE  CallsOnce' /\ CallParts(crashed)'
<1>1. Carries(FMessage) /\ IInvOver(FMessage) /\ Shutdown \in FMessage
      /\ Shutdown.kind \notin {"Call", "Ack"}
  BY ShutdownIsDifferent DEF CrashInv, FIInv
<1>2. /\ UNCHANGED <<workload, mainVars, handlerVars, receiverVars, unsent_acks, node_failed, marking>>
      /\ d \notin crashed /\ crashed' = crashed \cup {d}
      /\ \A m, r \in Node : m # d \/ r = d => Sent(m, r)' = Sent(m, r)
  BY <1>1, CrashEffect
<1>3. /\ UNCHANGED <<it, executionList, priorityQueue, receiver>>
      /\ \A r \in Node : Executed(r)' = Executed(r) /\ Queued(r)' = Queued(r) /\ Hand(r)' = Hand(r)
  BY <1>2 DEF mainVars, handlerVars, receiverVars, Executed, Queued, Hand
<1>4. ASSUME NEW r \in Node
      PROVE  /\ Sent(d, r) \subseteq Sent(d, r)'
             /\ \A x \in Sent(d, r)' : x.kind = "Call" => x \in Sent(d, r) \/ (r # d /\ x \in Underway(d))
             /\ OnceEach(net'[d][r], "Call")
  <2>1. PICK new \in {{}, {Shutdown}} \cup {{x, Shutdown} : x \in Underway(d)} :
          /\ Sent(d, r)' = Sent(d, r) \cup new
          /\ \A kind \in {"Call", "Ack"} :
               /\ OnceEach(net[d][r], kind)
               /\ \A x \in new : x.kind = kind => x \notin Sent(d, r)
               => OnceEach(net'[d][r], kind)
    BY <1>1, CrashEffect
  <2>2. \A x \in new : x.kind = "Call" => x \in Underway(d)
    BY <1>1, <2>1
  <2>3. \A x \in new : x.kind = "Call" => x \notin Sent(d, r)
    BY <1>2, <2>2, NextCallIsNew
  <2>4. OnceEach(net[d][r], "Call")
    BY DEF CrashInv, CallsOnce
  <2>5. OnceEach(net'[d][r], "Call")
    BY <2>1, <2>3, <2>4
  <2>6. r = d => Sent(d, r)' = Sent(d, r)
    BY <1>2
  <2> QED BY <2>1, <2>2, <2>5, <2>6
<1>5. \A m, r \in Node : m # d => net'[m][r] = net[m][r]
  BY <1>1 DEF Crash, IInvOver, Typed
<1>6. CallsOnce'
  <2>1. \A m, r \in Node : OnceEach(net'[m][r], "Call")
    BY <1>4, <1>5 DEF CrashInv, CallsOnce
  <2> QED BY <1>3, <2>1 DEF CrashInv, CallsOnce
<1>7. OwnNumbers' /\ HandledOnce'
  BY <1>3 DEF CrashInv, CallParts, OwnNumbers, HandledOnce
<1>8. Origins(crashed)'
  <2>1. \A r \in Node : \A x \in Executed(r) \cup Queued(r) \cup Hand(r) : x.node_id \in Node
    BY <1>1, SetTypes DEF IInvOver, Call
  <2> QED BY <1>2, <1>3, <2>1 DEF CrashInv, CallParts, Origins
<1>9. CallsUnderway(crashed)'
  <2> SUFFICES ASSUME NEW m \in Node, NEW r \in Node, NEW x \in Sent(m, r)', x.kind = "Call"
               PROVE  /\ m # r /\ x.call.node_id = m /\ (m \notin crashed' => x.call \in Executed(m)')
                      /\ x.call \notin Executed(r)' \cup Queued(r)' \cup Hand(r)'
    BY DEF CallsUnderway
  <2>1. CASE x \in Sent(m, r)
    BY <1>2, <1>3, <2>1 DEF CrashInv, CallParts, CallsUnderway
  <2>2. CASE x \notin Sent(m, r)
    <3>1. m = d /\ r # d /\ x \in Underway(d)
      BY <1>2, <1>4, <2>2
    <3>2. /\ x.call.node_id = d
          /\ x.call \notin Executed(r) \cup Queued(r) \cup Hand(r)
      BY <1>2, <3>1, NextCallIsNew
    <3> QED BY <1>2, <1>3, <3>1, <3>2
  <2> QED BY <2>1, <2>2
<1>10. NothingLost(crashed)'
  <2>1. \A m, r \in Node : Sent(m, r) \subseteq Sent(m, r)'
    BY <1>2, <1>4
  <2> QED BY <1>2, <1>3, <2>1 DEF CrashInv, CallParts, NothingLost
<1> QED BY <1>6, <1>7, <1>8, <1>9, <1>10 DEF CallParts

(* The erasure of the calls of a dead node. *)
LEMMA ReceiveShutdownCalls ==
  ASSUME CrashInv, NEW n \in Node \ crashed, NEW d \in Node, ReceiveShutdown(n, d)
  PROVE  CallsOnce' /\ CallParts(crashed)'
<1>1. Carries(FMessage) /\ IInvOver(FMessage) /\ Shutdown.kind \notin {"Call", "Ack"}
  BY ShutdownIsDifferent DEF CrashInv, FIInv
<1>2. /\ UNCHANGED <<workload, mainVars, stable_index, vector_clock, receiverVars, unsent_acks, crashed>>
      /\ receiver[n] = Idle /\ Shutdown \in Sent(d, n)
      /\ \A r \in Node : /\ Executed(r)' \subseteq Executed(r)
                         /\ r # n => Executed(r)' = Executed(r)
      /\ \A c \in Executed(n) : c.node_id # d => c \in Executed(n)'
      /\ \A k, r \in Node : /\ Sent(k, r)' \subseteq Sent(k, r)
                            /\ Sent(k, r) \ Sent(k, r)' \subseteq {Shutdown}
      /\ CallsOnce => CallsOnce'
  BY <1>1, ReceiveShutdownEffect
<1>3. d \in crashed /\ d # n
  BY <1>2 DEF CrashInv, FIInv, Marked
<1>4. /\ UNCHANGED <<it, priorityQueue, receiver>>
      /\ \A r \in Node : Queued(r)' = Queued(r) /\ Hand(r)' = Hand(r)
  BY <1>2 DEF mainVars, receiverVars, Queued, Hand
<1>5. receiver[n].pc \notin {"insert", "ack"}
  BY <1>2 DEF Idle
<1>6. \A r \in Node : \A c \in Executed(r) : c.node_id \notin crashed => c \in Executed(r)'
  BY <1>2, <1>3
<1>7. \A r \in Node \ crashed : \A c \in Executed(r) : c.node_id = r => c \in Executed(r)'
  BY <1>6
<1>8. OwnNumbers'
  BY <1>2, <1>4 DEF CrashInv, CallParts, OwnNumbers
<1>9. Origins(crashed)'
  <2>1. \A r \in Node : \A x \in Executed(r) \cup Queued(r) \cup Hand(r) : x.node_id \in Node
    BY <1>1, SetTypes DEF IInvOver, Call
  <2>2. \A r \in Node : \A x \in Executed(r) \cup Queued(r) \cup Hand(r) :
          x.node_id \notin crashed => x \in Executed(x.node_id)'
    BY <1>6, <2>1 DEF CrashInv, CallParts, Origins
  <2> QED BY <1>2, <1>4, <2>2 DEF CrashInv, CallParts, Origins
<1>10. HandledOnce'
  <2> SUFFICES ASSUME NEW r \in Node
               PROVE  /\ \A x \in Queued(r) :
                           x \in Executed(r)' => receiver[r].pc = "ack" /\ receiver[r].queued /\ receiver[r].call = x
                      /\ receiver[r].pc = "insert" => receiver[r].call \notin Executed(r)'
                      /\ receiver[r].pc = "ack" => receiver[r].call \in Executed(r)'
                      /\ receiver[r].pc \in {"insert", "ack"} =>
                           IF receiver[r].queued THEN receiver[r].call = Top(priorityQueue[r])
                                                 ELSE receiver[r].call \notin Queued(r)
    BY <1>4 DEF HandledOnce
  <2>1. CASE r = n
    BY <1>2, <1>5, <2>1 DEF CrashInv, CallParts, HandledOnce
  <2>2. CASE r # n
    BY <1>2, <2>2 DEF CrashInv, CallParts, HandledOnce
  <2> QED BY <2>1, <2>2
<1>11. CallsUnderway(crashed)'
  <2> SUFFICES ASSUME NEW m \in Node, NEW r \in Node, NEW x \in Sent(m, r), x.kind = "Call"
               PROVE  /\ m # r /\ x.call.node_id = m /\ (m \notin crashed => x.call \in Executed(m)')
                      /\ x.call \notin Executed(r)' \cup Queued(r) \cup Hand(r)
    BY <1>2, <1>4 DEF CallsUnderway
  <2> QED BY <1>2, <1>7 DEF CrashInv, CallParts, CallsUnderway
<1>12. NothingLost(crashed)'
  <2> SUFFICES ASSUME NEW m \in Node \ crashed, NEW r \in Node, NEW x \in Executed(m)', x.node_id = m, m # r
               PROVE  \/ x \in Executed(r)' \cup Queued(r) \cup Hand(r)
                      \/ CallMessage(x) \in Sent(m, r)'
    BY <1>2, <1>4 DEF NothingLost
  <2>1. x \in Executed(m)
    BY <1>2
  <2>2. x \in Executed(r) \cup Queued(r) \cup Hand(r) \/ CallMessage(x) \in Sent(m, r)
    BY <2>1 DEF CrashInv, CallParts, NothingLost
  <2>3. x \in Executed(r) => x \in Executed(r)'
    BY <1>6
  <2>4. CallMessage(x) # Shutdown
    BY <1>1, Messages
  <2> QED BY <1>2, <2>2, <2>3, <2>4
<1> QED BY <1>2, <1>8, <1>9, <1>10, <1>11, <1>12 DEF CrashInv, CallParts

(* The steps that do not touch the calls. *)
LEMMA SparingSteps ==
  ASSUME CrashInv, NEW n \in Node,
         \/ SendAck(n) \/ NoAckToSend(n) \/ RefuseLocal(n)
         \/ \E m \in Node : FReceiveAck(n, m)
         \/ StabilizeAfterFailure(n) \/ EndForcedDrain(n)
  PROVE  CallsOnce' /\ SparesCalls
<1>1. Carries(FMessage) /\ IInvOver(FMessage) /\ CallsOnce
  BY ShutdownIsDifferent DEF CrashInv, FIInv
<1>2. CASE SendAck(n)
  <2> DEFINE x == AckMessage(Head(unsent_acks[n]))
  <2>1. /\ UNCHANGED <<it, priorityQueue, executionList, receiver>>
        /\ Broadcast(n, x)
    BY <1>2 DEF SendAck, handlerVars, receiverVars
  <2>2. x \in Message /\ x.kind = "Ack"
    <3>1. unsent_acks[n] \in Seq(CallId) /\ unsent_acks[n] # <<>>
      BY <1>1, <1>2 DEF IInvOver, Typed, SendAck
    <3>2. Head(unsent_acks[n]) \in CallId
      BY <3>1
    <3> QED BY <3>2 DEF Message, AckMessage
  <2> HIDE DEF x
  <2>3. \A m, r \in Node :
          /\ Sent(m, r)' = IF m = n /\ r # n THEN Sent(m, r) \cup {x} ELSE Sent(m, r)
          /\ \A kind : OnceEach(net[m][r], kind) /\ (x.kind = kind => x \notin Sent(n, r))
                        => OnceEach(net'[m][r], kind)
    BY <1>1, <2>1, <2>2, BroadcastEffect DEF IInvOver
  <2>4. \A m, r \in Node : OnceEach(net'[m][r], "Call")
    <3>1. x.kind # "Call"
      BY <2>2
    <3> QED BY <1>1, <2>3, <3>1 DEF CallsOnce
  <2>5. CallsOnce'
    BY <1>1, <2>1, <2>4 DEF CallsOnce
  <2>6. SparesCalls
    BY <2>1, <2>2, <2>3 DEF SparesCalls
  <2> QED BY <2>5, <2>6
<1>3. ASSUME UNCHANGED <<it, priorityQueue, executionList, net>>,
             \A r \in Node : \/ receiver'[r] = receiver[r]
                             \/ receiver'[r] \in {Idle, Drain} /\ receiver[r] \in {Idle, Drain}
      PROVE  CallsOnce' /\ SparesCalls
  BY <1>1, <1>3 DEF CallsOnce, SparesCalls, Sent
<1>4. CASE NoAckToSend(n) \/ RefuseLocal(n)
  <2>1. UNCHANGED <<it, priorityQueue, executionList, net, receiver>>
    BY <1>4 DEF NoAckToSend, RefuseLocal, handlerVars, receiverVars
  <2> QED BY <1>3, <2>1
<1>5. ASSUME NEW m \in Node, FReceiveAck(n, m) PROVE CallsOnce' /\ SparesCalls
  <2>1. /\ UNCHANGED <<it, executionList, priorityQueue>>
        /\ receiver[n] = Idle /\ receiver'[n] \in {Idle, Drain}
        /\ \A r \in Node \ {n} : receiver'[r] = receiver[r]
        /\ CallsOnce'
        /\ \E a \in CallId :
             \A k, r \in Node : /\ Sent(k, r)' \subseteq Sent(k, r)
                                /\ Sent(k, r) \ Sent(k, r)' \subseteq {AckMessage(a)}
    BY <1>1, <1>5, FReceiveAckEffect
  <2>2. PICK a \in CallId :
             \A k, r \in Node : /\ Sent(k, r)' \subseteq Sent(k, r)
                                /\ Sent(k, r) \ Sent(k, r)' \subseteq {AckMessage(a)}
    BY <2>1
  <2>3. AckMessage(a).kind # "Call"
    BY Messages
  <2>4. \A k, r \in Node : \A x : x.kind = "Call" => (x \in Sent(k, r)' <=> x \in Sent(k, r))
    BY <2>2, <2>3
  <2> QED BY <2>1, <2>4 DEF SparesCalls
<1>6. CASE StabilizeAfterFailure(n)
  <2>1. /\ UNCHANGED <<it, executionList, priorityQueue, net>>
        /\ receiver[n] = Idle /\ receiver'[n] \in {Idle, Drain}
        /\ \A r \in Node \ {n} : receiver'[r] = receiver[r]
    BY <1>1, <1>6, StabilizeAfterFailureEffect
  <2> QED BY <1>3, <2>1
<1>7. CASE EndForcedDrain(n)
  <2>1. UNCHANGED <<it, priorityQueue, executionList, net, receiver>>
    BY <1>7 DEF EndForcedDrain, vars, mainVars, handlerVars, receiverVars
  <2> QED BY <1>3, <2>1
<1> QED BY <1>2, <1>4, <1>5, <1>6, <1>7

(* Only the signal changes who is shut down. *)
LEMMA SameDead ==
  ASSUME NEW n, FStep(n) PROVE crashed' = crashed
<1>1. CASE FMain(n) \/ FExecute(n) \/ \E m \in Node : FReceiveCall(n, m)
  BY <1>1 DEF FMain, FExecute, FReceiveCall, failureVars
<1>2. CASE \E m \in Node : FReceiveAck(n, m) \/ ReceiveShutdown(n, m)
  BY <1>2 DEF FReceiveAck, ReceiveShutdown, failureVars
<1>3. CASE MarkFailed(n)
  BY <1>3 DEF MarkFailed, StabilizeAfterFailure, ForceTop, EndForcedDrain
<1> QED BY <1>1, <1>2, <1>3 DEF FStep, FReceive

(* Every step of a live node. *)
LEMMA LiveStepCalls ==
  ASSUME CrashInv, NEW n \in Node \ crashed, FStep(n)
  PROVE  CallsOnce' /\ CallParts(crashed)'
<1>1. PICK D : D = crashed
  OBVIOUS
<1>2. /\ Carries(FMessage) /\ IInvOver(FMessage) /\ CallsOnce /\ CallParts(D)
      /\ n \in Node /\ n \in Node \ D
  BY <1>1, ShutdownIsDifferent DEF CrashInv, FIInv
<1>3. CallParts(D)' => CallParts(crashed)'
  <2>1. crashed' = D
    BY <1>1, SameDead
  <2> QED BY <2>1, SameCrashed
<1>4. CASE \/ SendAck(n) \/ NoAckToSend(n) \/ RefuseLocal(n)
           \/ \E m \in Node : FReceiveAck(n, m)
           \/ StabilizeAfterFailure(n) \/ EndForcedDrain(n)
  <2>1. CallsOnce' /\ SparesCalls
    BY <1>4, SparingSteps
  <2>2. CallParts(D)'
    BY <1>2, <2>1, SparesCallsKeeps
  <2> QED BY <1>3, <2>1, <2>2
<1>5. CASE ExecuteLocal(n)
  <2>1. CallsOnce' /\ \E c \in Call : Issues(n, c)
    BY <1>2, <1>5, ExecuteLocalEffect
  <2>2. PICK c \in Call : Issues(n, c)
    BY <2>1
  <2>3. CallParts(D)'
    BY <1>2, <2>2, IssuesCalls
  <2> QED BY <1>3, <2>1, <2>3
<1>6. ASSUME NEW m \in Node, ReceiveCall(n, m) PROVE CallsOnce' /\ CallParts(crashed)'
  <2>1. CallsOnce' /\ \E c \in Call : Arrives(n, m, c)
    BY <1>2, <1>6, ReceiveCallEffect
  <2>2. PICK c \in Call : Arrives(n, m, c)
    BY <2>1
  <2>3. CallParts(D)'
    BY <1>2, <2>2, ArrivesCalls
  <2> QED BY <1>3, <2>1, <2>3
<1>7. CASE ExecuteRemote(n)
  <2>1. CallsOnce' /\ \E c \in Call : Performs(n, c)
    BY <1>2, <1>7, ExecuteRemoteEffect
  <2>2. PICK c \in Call : Performs(n, c)
    BY <2>1
  <2>3. CallParts(D)'
    BY <1>2, <2>2, PerformsCalls
  <2> QED BY <1>3, <2>1, <2>3
<1>8. CASE RecordAck(n)
  <2>1. CallsOnce' /\ \E c \in Call : Records(n, c)
    BY <1>2, <1>8, RecordAckEffect
  <2>2. PICK c \in Call : Records(n, c)
    BY <2>1
  <2>3. CallParts(D)'
    BY <1>2, <2>2, RecordsCalls
  <2> QED BY <1>3, <2>1, <2>3
<1>9. CASE DrainQueue(n)
  <2>1. CallsOnce' /\ LooksAtQueue(n)
    BY <1>2, <1>9, DrainQueueEffect
  <2>2. CallParts(D)'
    BY <1>2, <2>1, LooksAtQueueCalls
  <2> QED BY <1>3, <2>1, <2>2
<1>10. CASE ForceTop(n)
  <2>1. CallsOnce' /\ \E c \in Call : Forces(n, c)
    BY <1>2, <1>10, ForceTopEffect
  <2>2. PICK c \in Call : Forces(n, c)
    BY <2>1
  <2>3. CallParts(D)'
    BY <1>2, <2>2, ForcesCalls
  <2> QED BY <1>3, <2>1, <2>3
<1>11. ASSUME NEW d \in Node, ReceiveShutdown(n, d) PROVE CallsOnce' /\ CallParts(crashed)'
  BY <1>11, ReceiveShutdownCalls
<1> QED BY <1>4, <1>5, <1>6, <1>7, <1>8, <1>9, <1>10, <1>11
        DEF FStep, FMain, FExecute, FReceive, FReceiveCall, MarkFailed

(* CrashInv is an invariant. *)
LEMMA CrashInvariance == FSpec => []CrashInv
<1>1. FInit => CrashInv
  <2> SUFFICES ASSUME FInit PROVE CrashInv
    OBVIOUS
  <2>1. CallInv /\ crashed = {}
    BY InitStability DEF FInit, StabilityInv
  <2> QED BY <2>1, InitFIInv DEF CallInv, CrashInv
<1>2. CrashInv /\ [FNext]_allVars => CrashInv'
  <2> SUFFICES ASSUME CrashInv, [FNext]_allVars PROVE CrashInv'
    OBVIOUS
  <2>1. FIInv'
    BY FStepKeeps DEF CrashInv
  <2>2. CASE UNCHANGED allVars
    <3>1. UNCHANGED <<it, receiver, priorityQueue, executionList, net, crashed>>
      BY <2>2 DEF allVars, failureVars, vars, mainVars, handlerVars, receiverVars
    <3>2. CallsOnce' /\ CallParts(crashed)'
      BY <3>1 DEF CrashInv, CallsOnce, CallParts, OwnNumbers, Origins, HandledOnce,
         CallsUnderway, NothingLost, Executed, Queued, Hand, Sent
    <3> QED BY <2>1, <3>2 DEF CrashInv
  <2>3. CASE FNext
    <3>1. CallsOnce' /\ CallParts(crashed)'
      BY <2>3, CrashCalls, LiveStepCalls DEF FNext, Live
    <3> QED BY <2>1, <3>1 DEF CrashInv
  <2> QED BY <2>2, <2>3
<1> QED BY <1>1, <1>2, PTL DEF FSpec

(***************************************************************************)
(* No call of a live node is lost or executed twice, whatever was erased   *)
(* and drained by force: at every live node it is in one of the channel,   *)
(* the receiver's hands, the queue and the list (LiveCallsOnce).           *)
(***************************************************************************)
THEOREM CrashLosesNoLiveCall == FSpec => []LiveCallsOnce
<1>1. CrashInv => LiveCallsOnce
  <2> SUFFICES ASSUME CrashInv PROVE LiveCallsOnce
    OBVIOUS
  <2>1. PICK D : D = crashed
    OBVIOUS
  <2>2. /\ Carries(FMessage) /\ IInvOver(FMessage) /\ CallsOnce /\ CallParts(D)
        /\ \A n \in Live : n \in Node /\ n \notin D
    BY <2>1, ShutdownIsDifferent DEF CrashInv, FIInv, Live
  <2> QED BY <2>2, PlaceOfCall DEF LiveCallsOnce
<1> QED BY <1>1, CrashInvariance, PTL

-----------------------------------------------------------------------------
(***************************************************************************)
(* Nobody waits for the dead.  A live node that no longer owes n its       *)
(* acknowledgement of c has been counted by n; nothing but counting makes  *)
(* a debt disappear, and the dead are owed for by nobody.                  *)
(***************************************************************************)
Owes(m, n, c) ==
  \/ c \notin Executed(m)
  \/ receiver[m].pc = "ack" /\ receiver[m].call = c
  \/ IdOf(c) \in Unsent(m)
  \/ AckMessage(IdOf(c)) \in Sent(m, n)

Paid(n, c) == {m \in Live \ {n, c.node_id} : ~Owes(m, n, c)}

PaidFor ==
  \A n \in Node : \A c \in Call :
    acks[n][c.node_id][c.call_id] >= Cardinality(Paid(n, c))

(* Debts remain: nobody is counted, and nobody stops to owe. *)
DebtsRemain ==
  /\ acks' = acks /\ crashed \subseteq crashed'
  /\ \A n, m \in Node : \A c \in Call :
       m # n /\ m # c.node_id /\ Owes(m, n, c) => Owes(m, n, c)'

(* The nodes that have paid are finitely many. *)
LEMMA PaidFinite ==
  ASSUME NEW n \in Node, NEW c \in Call
  PROVE  IsFiniteSet(Paid(n, c)) /\ Cardinality(Paid(n, c)) \in Nat
<1>1. IsFiniteSet(Node)
  BY NAssumption, FS_Interval DEF Node
<1>2. Paid(n, c) \subseteq Node
  BY DEF Paid, Live
<1>3. IsFiniteSet(Paid(n, c))
  BY <1>1, <1>2, FS_Subset
<1> QED BY <1>3, FS_CardinalityType

(* What is counted is a number. *)
LEMMA CountIsNumber ==
  ASSUME FIInv, NEW n \in Node, NEW c \in Call
  PROVE  acks[n][c.node_id][c.call_id] \in Nat
<1>1. c.node_id \in Node /\ c.call_id \in 1..MaxCallId
  BY DEF Call
<1>2. acks \in [Node -> [Node -> [1..MaxCallId -> Nat]]]
  BY DEF FIInv, IInvOver, Typed
<1>3. \A j \in Node : \A k \in 1..MaxCallId : acks[n][j][k] \in Nat
  <2> SUFFICES ASSUME NEW j \in Node, NEW k \in 1..MaxCallId PROVE acks[n][j][k] \in Nat
    OBVIOUS
  <2>1. acks[n] \in [Node -> [1..MaxCallId -> Nat]]
    BY <1>2
  <2>2. acks[n][j] \in [1..MaxCallId -> Nat]
    BY <2>1
  <2> QED BY <2>2
<1> QED BY <1>1, <1>3

(* Then the counts are still covered. *)
LEMMA DebtsRemainPaid ==
  ASSUME FIInv, PaidFor, DebtsRemain
  PROVE  PaidFor'
<1> SUFFICES ASSUME NEW n \in Node, NEW c \in Call
             PROVE  acks[n][c.node_id][c.call_id] >= Cardinality(Paid(n, c)')
  BY DEF PaidFor, DebtsRemain
<1>1. Paid(n, c)' \subseteq Paid(n, c)
  BY DEF Paid, Live, DebtsRemain
<1>2. PICK P : P = Paid(n, c)'
  OBVIOUS
<1>3. /\ IsFiniteSet(Paid(n, c)) /\ Cardinality(Paid(n, c)) \in Nat
      /\ acks[n][c.node_id][c.call_id] >= Cardinality(Paid(n, c))
  BY PaidFinite DEF PaidFor
<1>4. P \in SUBSET Paid(n, c)
  BY <1>1, <1>2
<1>5. IsFiniteSet(P) /\ Cardinality(P) <= Cardinality(Paid(n, c))
  BY <1>3, <1>4, FS_Subset
<1>6. Cardinality(P) \in Nat
  BY <1>5, FS_CardinalityType
<1>7. acks[n][c.node_id][c.call_id] \in Nat
  BY CountIsNumber
<1>8. acks[n][c.node_id][c.call_id] >= Cardinality(P)
  BY <1>3, <1>5, <1>6, <1>7
<1> QED BY <1>2, <1>8

(* Counting an acknowledgement pays one debt, and adds one to the count. *)
LEMMA CountedPaid ==
  ASSUME FIInv, PaidFor, NEW n \in Node, NEW m \in Node, FReceiveAck(n, m)
  PROVE  PaidFor'
<1>1. Carries(FMessage) /\ IInvOver(FMessage)
  BY ShutdownIsDifferent DEF FIInv
<1>2. /\ UNCHANGED <<executionList, unsent_acks, crashed>>
      /\ receiver[n] = Idle /\ receiver'[n] \in {Idle, Drain}
      /\ \A r \in Node \ {n} : receiver'[r] = receiver[r]
  BY <1>1, FReceiveAckEffect DEF failureVars
<1>3. PICK a \in CallId :
        /\ \A k, r \in Node : /\ Sent(k, r) \ Sent(k, r)' \subseteq {AckMessage(a)}
                              /\ ~(k = m /\ r = n) => Sent(k, r)' = Sent(k, r)
        /\ \A r, j \in Node : \A k \in 1..MaxCallId :
             acks'[r][j][k] = IF r = n /\ j = a.node_id /\ k = a.call_id
                              THEN acks[r][j][k] + 1 ELSE acks[r][j][k]
  BY <1>1, FReceiveAckEffect
<1> SUFFICES ASSUME NEW r \in Node, NEW c \in Call
             PROVE  acks'[r][c.node_id][c.call_id] >= Cardinality(Paid(r, c)')
  BY DEF PaidFor
<1>4. c.node_id \in Node /\ c.call_id \in 1..MaxCallId
  BY DEF Call
<1>5. /\ IsFiniteSet(Paid(r, c)) /\ Cardinality(Paid(r, c)) \in Nat
      /\ acks[r][c.node_id][c.call_id] >= Cardinality(Paid(r, c))
      /\ acks[r][c.node_id][c.call_id] \in Nat
  BY PaidFinite, CountIsNumber DEF PaidFor
<1>6. ASSUME NEW k \in Node, Owes(k, r, c), AckMessage(IdOf(c)) \in Sent(k, r) => AckMessage(IdOf(c)) \in Sent(k, r)'
      PROVE  Owes(k, r, c)'
  <2>1. Executed(k)' = Executed(k) /\ Unsent(k)' = Unsent(k)
    BY <1>2 DEF Executed, Unsent
  <2>2. receiver[k].pc = "ack" => receiver'[k] = receiver[k]
    BY <1>2 DEF Idle
  <2> QED BY <1>6, <2>1, <2>2 DEF Owes
<1>7. PICK P : P = Paid(r, c)'
  OBVIOUS
<1>8. CASE r = n /\ IdOf(c) = a
  <2>1. P \subseteq Paid(r, c) \cup {m}
    BY <1>2, <1>3, <1>6, <1>7, <1>8 DEF Paid, Live
  <2>2. /\ IsFiniteSet(Paid(r, c) \cup {m})
        /\ Cardinality(Paid(r, c) \cup {m}) \in Nat
        /\ Cardinality(Paid(r, c) \cup {m}) <= Cardinality(Paid(r, c)) + 1
    <3>1. /\ IsFiniteSet(Paid(r, c) \cup {m})
          /\ Cardinality(Paid(r, c) \cup {m}) =
               IF m \in Paid(r, c) THEN Cardinality(Paid(r, c)) ELSE Cardinality(Paid(r, c)) + 1
      BY <1>5, FS_AddElement
    <3> QED BY <1>5, <3>1
  <2>3. P \in SUBSET (Paid(r, c) \cup {m})
    BY <2>1
  <2>4. Cardinality(P) <= Cardinality(Paid(r, c) \cup {m}) /\ IsFiniteSet(P)
    BY <2>2, <2>3, FS_Subset
  <2>5. Cardinality(P) \in Nat
    BY <2>4, FS_CardinalityType
  <2>6. acks'[r][c.node_id][c.call_id] = acks[r][c.node_id][c.call_id] + 1
    BY <1>3, <1>4, <1>8 DEF IdOf
  <2>7. acks'[r][c.node_id][c.call_id] >= Cardinality(P)
    BY <1>5, <2>2, <2>4, <2>5, <2>6
  <2> QED BY <1>7, <2>7
<1>9. CASE ~(r = n /\ IdOf(c) = a)
  <2>1. \A k \in Node : AckMessage(IdOf(c)) \in Sent(k, r) => AckMessage(IdOf(c)) \in Sent(k, r)'
    <3>1. CASE r # n
      BY <1>3, <3>1
    <3>2. CASE IdOf(c) # a
      <4>1. AckMessage(IdOf(c)) # AckMessage(a)
        BY <3>2, Messages
      <4> QED BY <1>3, <4>1
    <3> QED BY <1>9, <3>1, <3>2
  <2>2. P \subseteq Paid(r, c)
    BY <1>2, <1>6, <1>7, <2>1 DEF Paid, Live
  <2>3. P \in SUBSET Paid(r, c)
    BY <2>2
  <2>4. Cardinality(P) <= Cardinality(Paid(r, c)) /\ IsFiniteSet(P)
    BY <1>5, <2>3, FS_Subset
  <2>5. Cardinality(P) \in Nat
    BY <2>4, FS_CardinalityType
  <2>6. acks'[r][c.node_id][c.call_id] \in {acks[r][c.node_id][c.call_id], acks[r][c.node_id][c.call_id] + 1}
    BY <1>3, <1>4
  <2>7. acks'[r][c.node_id][c.call_id] >= Cardinality(P)
    BY <1>5, <2>4, <2>5, <2>6
  <2> QED BY <1>7, <2>7
<1> QED BY <1>8, <1>9

(* The steps of the two threads and of markNodeFailed that count nothing. *)
LEMMA OtherStepsRemain ==
  ASSUME CrashInv, NEW n \in Node \ crashed, FStep(n), \A m \in Node : ~FReceiveAck(n, m)
  PROVE  DebtsRemain
<1>1. PICK D : D = crashed
  OBVIOUS
<1>2. /\ Carries(FMessage) /\ IInvOver(FMessage) /\ CallsOnce /\ CallParts(D)
      /\ n \in Node /\ n \in Node \ D
  BY <1>1, ShutdownIsDifferent DEF CrashInv, FIInv
<1>3. crashed' = crashed
  BY SameDead
<1>4. ASSUME acks' = acks,
             \A m, r \in Node : \A c \in Call : m # r /\ m # c.node_id /\ Owes(m, r, c) => Owes(m, r, c)'
      PROVE  DebtsRemain
  BY <1>3, <1>4 DEF DebtsRemain
<1>5. CASE SendAck(n)
  <2> DEFINE a == Head(unsent_acks[n])
             x == AckMessage(a)
  <2>1. /\ UNCHANGED <<acks, executionList, receiver>>
        /\ Broadcast(n, x)
        /\ unsent_acks' = [unsent_acks EXCEPT ![n] = Tail(@)]
    BY <1>5 DEF SendAck, handlerVars, receiverVars
  <2>2. unsent_acks[n] \in Seq(CallId) /\ unsent_acks[n] # <<>>
    BY <1>2, <1>5 DEF IInvOver, Typed, SendAck
  <2>3. x \in Message
    <3>1. a \in CallId
      BY <2>2
    <3> HIDE DEF a
    <3> QED BY <3>1 DEF Message, AckMessage
  <2>4. Unsent(n) \ {a} \subseteq Unsent(n)' /\ \A m \in Node \ {n} : Unsent(m)' = Unsent(m)
    <3>1. Range(unsent_acks[n]) \ {a} \subseteq Range(Tail(unsent_acks[n]))
      BY <2>2, TailOnce
    <3>2. /\ unsent_acks'[n] = Tail(unsent_acks[n])
          /\ \A m \in Node \ {n} : unsent_acks'[m] = unsent_acks[m]
      BY <1>2, <2>1 DEF IInvOver, Typed
    <3> HIDE DEF a
    <3> QED BY <3>1, <3>2 DEF Unsent
  <2> HIDE DEF a
  <2>5. \A m, r \in Node : Sent(m, r)' = IF m = n /\ r # n THEN Sent(m, r) \cup {x} ELSE Sent(m, r)
    <3> HIDE DEF x
    <3> QED BY <1>2, <2>1, <2>3, BroadcastEffect DEF IInvOver
  <2>6. ASSUME NEW m \in Node, NEW r \in Node, NEW c \in Call, m # r, Owes(m, r, c)
        PROVE  Owes(m, r, c)'
    <3>1. Executed(m)' = Executed(m) /\ receiver' = receiver
      BY <2>1 DEF Executed
    <3>2. IdOf(c) \in Unsent(m) => IdOf(c) \in Unsent(m)' \/ AckMessage(IdOf(c)) \in Sent(m, r)'
      BY <2>4, <2>5, <2>6
    <3>3. Sent(m, r) \subseteq Sent(m, r)'
      BY <2>5
    <3> QED BY <2>6, <3>1, <3>2, <3>3 DEF Owes
  <2> QED BY <1>4, <2>1, <2>6
<1>6. CASE NoAckToSend(n) \/ RefuseLocal(n) \/ EndForcedDrain(n)
  <2>1. UNCHANGED <<acks, executionList, receiver, unsent_acks, net>>
    BY <1>6 DEF NoAckToSend, RefuseLocal, EndForcedDrain, vars, handlerVars, receiverVars
  <2>2. \A m, r \in Node : \A c \in Call : Owes(m, r, c) => Owes(m, r, c)'
    BY <2>1 DEF Owes, Executed, Unsent, Sent
  <2> QED BY <1>4, <2>1, <2>2
<1>7. CASE StabilizeAfterFailure(n)
  <2>1. /\ UNCHANGED <<acks, executionList, unsent_acks, net>>
        /\ receiver[n] = Idle
        /\ \A r \in Node \ {n} : receiver'[r] = receiver[r]
    BY <1>2, <1>7, StabilizeAfterFailureEffect
  <2>2. \A m \in Node : receiver[m].pc = "ack" => receiver'[m] = receiver[m]
    BY <2>1 DEF Idle
  <2>3. \A m, r \in Node : \A c \in Call : Owes(m, r, c) => Owes(m, r, c)'
    BY <2>1, <2>2 DEF Owes, Executed, Unsent, Sent
  <2> QED BY <1>4, <2>1, <2>3
<1>8. CASE ExecuteLocal(n)
  <2>1. PICK c \in Call : Issues(n, c)
    BY <1>2, <1>8, ExecuteLocalEffect
  <2>2. /\ UNCHANGED <<acks, receiver, unsent_acks>> /\ c.node_id = n
        /\ \A m, r \in Node : /\ Executed(m)' = IF m = n THEN Executed(m) \cup {c} ELSE Executed(m)
                              /\ Sent(m, r) \subseteq Sent(m, r)'
    BY <2>1 DEF Issues
  <2>3. ASSUME NEW m \in Node, NEW r \in Node, NEW d \in Call, m # d.node_id, Owes(m, r, d)
        PROVE  Owes(m, r, d)'
    <3>1. d \notin Executed(m) => d \notin Executed(m)'
      BY <2>2, <2>3
    <3>2. Unsent(m)' = Unsent(m) /\ receiver' = receiver
      BY <2>2 DEF Unsent
    <3> QED BY <2>2, <2>3, <3>1, <3>2 DEF Owes
  <2> QED BY <1>4, <2>2, <2>3
<1>9. ASSUME NEW k \in Node, ReceiveCall(n, k) PROVE DebtsRemain
  <2>1. PICK c \in Call : Arrives(n, k, c)
    BY <1>2, <1>9, ReceiveCallEffect
  <2>2. /\ UNCHANGED <<acks, unsent_acks, executionList>> /\ receiver[n] = Idle
        /\ \A m, r \in Node : Sent(m, r) \ {CallMessage(c)} \subseteq Sent(m, r)'
    BY <2>1 DEF Arrives
  <2>3. \A m \in Node : receiver[m].pc = "ack" => receiver'[m] = receiver[m]
    <3>1. \A m \in Node \ {n} : receiver'[m] = receiver[m]
      BY <1>2, <2>1 DEF Arrives, IInvOver, Typed
    <3> QED BY <2>2, <3>1 DEF Idle
  <2>4. \A m, r \in Node : \A d \in Call : Owes(m, r, d) => Owes(m, r, d)'
    BY <2>2, <2>3, MessageKinds DEF Owes, Executed, Unsent
  <2> QED BY <1>4, <2>2, <2>4
<1>10. CASE ExecuteRemote(n)
  <2>1. PICK c \in Call : Performs(n, c)
    BY <1>2, <1>10, ExecuteRemoteEffect
  <2>2. /\ UNCHANGED <<acks, unsent_acks, net>> /\ receiver[n].pc = "insert"
        /\ receiver'[n].pc = "ack" /\ receiver'[n].call = c
        /\ \A m \in Node \ {n} : receiver'[m] = receiver[m]
        /\ \A m \in Node : Executed(m)' = IF m = n THEN Executed(m) \cup {c} ELSE Executed(m)
    BY <2>1 DEF Performs
  <2>3. ASSUME NEW m \in Node, NEW r \in Node, NEW d \in Call, Owes(m, r, d)
        PROVE  Owes(m, r, d)'
    <3>1. Unsent(m)' = Unsent(m) /\ Sent(m, r)' = Sent(m, r)
      BY <2>2 DEF Unsent, Sent
    <3>2. CASE m = n
      BY <2>2, <2>3, <3>1, <3>2 DEF Owes
    <3>3. CASE m # n
      BY <2>2, <2>3, <3>1, <3>3 DEF Owes
    <3> QED BY <3>2, <3>3
  <2> QED BY <1>4, <2>2, <2>3
<1>11. CASE RecordAck(n)
  <2>1. PICK c \in Call : Records(n, c)
    BY <1>2, <1>11, RecordAckEffect
  <2>2. /\ UNCHANGED <<acks, executionList, net>> /\ receiver[n].call = c
        /\ \A m \in Node \ {n} : receiver'[m] = receiver[m]
        /\ \A m \in Node : Unsent(m)' = IF m = n THEN Unsent(m) \cup {IdOf(c)} ELSE Unsent(m)
    BY <2>1 DEF Records
  <2>3. ASSUME NEW m \in Node, NEW r \in Node, NEW d \in Call, Owes(m, r, d)
        PROVE  Owes(m, r, d)'
    <3>1. Executed(m)' = Executed(m) /\ Sent(m, r)' = Sent(m, r)
      BY <2>2 DEF Executed, Sent
    <3>2. CASE m = n
      BY <2>2, <2>3, <3>1, <3>2 DEF Owes
    <3>3. CASE m # n
      BY <2>2, <2>3, <3>1, <3>3 DEF Owes
    <3> QED BY <3>2, <3>3
  <2> QED BY <1>4, <2>2, <2>3
<1>12. CASE DrainQueue(n)
  <2>1. /\ UNCHANGED <<acks, executionList, net, unsent_acks>> /\ receiver[n] = Drain
        /\ \A m \in Node \ {n} : receiver'[m] = receiver[m]
    BY <1>2, <1>12 DEF DrainQueue, handlerVars, IInvOver, Typed
  <2>2. \A m \in Node : receiver[m].pc = "ack" => receiver'[m] = receiver[m]
    BY <2>1 DEF Drain
  <2>3. \A m, r \in Node : \A c \in Call : Owes(m, r, c) => Owes(m, r, c)'
    BY <2>1, <2>2 DEF Owes, Executed, Unsent, Sent
  <2> QED BY <1>4, <2>1, <2>3
<1>13. CASE ForceTop(n)
  <2>1. PICK c \in Call : Forces(n, c)
    BY <1>2, <1>13, ForceTopEffect
  <2>2. /\ UNCHANGED <<acks, receiver, net>>
        /\ \A m \in Node \ {n} : Executed(m)' = Executed(m) /\ Unsent(m)' = Unsent(m)
        /\ Executed(n)' = Executed(n) \cup {c} /\ Unsent(n)' = Unsent(n) \cup {IdOf(c)}
    BY <2>1 DEF Forces
  <2>3. ASSUME NEW m \in Node, NEW r \in Node, NEW d \in Call, Owes(m, r, d)
        PROVE  Owes(m, r, d)'
    <3>1. Sent(m, r)' = Sent(m, r)
      BY <2>2 DEF Sent
    <3>2. CASE m = n
      BY <2>2, <2>3, <3>1, <3>2 DEF Owes
    <3>3. CASE m # n
      BY <2>2, <2>3, <3>1, <3>3 DEF Owes
    <3> QED BY <3>2, <3>3
  <2> QED BY <1>4, <2>2, <2>3
<1>14. ASSUME NEW k \in Node, ReceiveShutdown(n, k) PROVE DebtsRemain
  <2>1. /\ UNCHANGED <<receiverVars, unsent_acks>>
        /\ \A m \in Node : Executed(m)' \subseteq Executed(m)
        /\ \A m, r \in Node : Sent(m, r) \ Sent(m, r)' \subseteq {Shutdown}
    BY <1>2, <1>14, ReceiveShutdownEffect
  <2>2. \A a : AckMessage(a) # Shutdown
    BY Messages, ShutdownIsDifferent
  <2>3. ASSUME NEW m \in Node, NEW r \in Node, NEW d \in Call, Owes(m, r, d)
        PROVE  Owes(m, r, d)'
    <3>1. Unsent(m)' = Unsent(m) /\ receiver' = receiver
      BY <2>1 DEF Unsent, receiverVars
    <3>2. AckMessage(IdOf(d)) \in Sent(m, r) => AckMessage(IdOf(d)) \in Sent(m, r)'
      BY <2>1, <2>2
    <3> QED BY <2>1, <2>3, <3>1, <3>2 DEF Owes
  <2> QED BY <1>4, <2>1, <2>3 DEF receiverVars
<1> QED BY <1>5, <1>6, <1>7, <1>8, <1>9, <1>10, <1>11, <1>12, <1>13, <1>14
        DEF FStep, FMain, FExecute, FReceive, FReceiveCall, MarkFailed

(* The signal pays no debt of a live node. *)
LEMMA CrashRemains ==
  ASSUME CrashInv, NEW d \in Node, Crash(d)
  PROVE  DebtsRemain
<1>1. Carries(FMessage) /\ IInvOver(FMessage) /\ Shutdown \in FMessage
  BY ShutdownIsDifferent DEF CrashInv, FIInv
<1>2. /\ UNCHANGED <<handlerVars, receiverVars, unsent_acks>>
      /\ crashed' = crashed \cup {d}
      /\ \A m, r \in Node : m # d \/ r = d => Sent(m, r)' = Sent(m, r)
      /\ \A r \in Node : Sent(d, r) \subseteq Sent(d, r)'
  <2>1. \A r \in Node : \E new : Sent(d, r)' = Sent(d, r) \cup new
    <3> SUFFICES ASSUME NEW r \in Node PROVE \E new : Sent(d, r)' = Sent(d, r) \cup new
      OBVIOUS
    <3>1. \E new \in {{}, {Shutdown}} \cup {{x, Shutdown} : x \in Underway(d)} :
            Sent(d, r)' = Sent(d, r) \cup new
      BY <1>1, CrashEffect
    <3> QED BY <3>1
  <2> QED BY <1>1, <2>1, CrashEffect
<1>3. \A m, r \in Node : Sent(m, r) \subseteq Sent(m, r)'
  BY <1>2
<1>4. \A m, r \in Node : \A c \in Call : Owes(m, r, c) => Owes(m, r, c)'
  BY <1>2, <1>3 DEF Owes, Executed, Unsent, handlerVars, receiverVars
<1> QED BY <1>2, <1>4 DEF DebtsRemain, receiverVars

(* The counts are covered in every state. *)
LEMMA PaidInvariance == FSpec => []PaidFor
<1>1. FInit => PaidFor
  <2> SUFFICES ASSUME FInit, NEW n \in Node, NEW c \in Call
               PROVE  acks[n][c.node_id][c.call_id] >= Cardinality(Paid(n, c))
    BY DEF PaidFor
  <2>1. Paid(n, c) = {}
    <3>1. \A m \in Node : Executed(m) = {}
      BY DEF FInit, Init, Executed, Range
    <3> QED BY <3>1 DEF Paid, Owes, Live
  <2>2. Cardinality(Paid(n, c)) = 0
    BY <2>1, FS_EmptySet
  <2>3. acks[n][c.node_id][c.call_id] \in Nat
    BY InitFIInv, CountIsNumber
  <2> QED BY <2>2, <2>3
<1>2. CrashInv /\ PaidFor /\ [FNext]_allVars => PaidFor'
  <2> SUFFICES ASSUME CrashInv, PaidFor, [FNext]_allVars PROVE PaidFor'
    OBVIOUS
  <2>1. FIInv
    BY DEF CrashInv
  <2>2. CASE UNCHANGED allVars
    <3>1. UNCHANGED <<acks, receiver, executionList, unsent_acks, net, crashed>>
      BY <2>2 DEF allVars, failureVars, vars, handlerVars, receiverVars
    <3>2. DebtsRemain
      BY <3>1 DEF DebtsRemain, Owes, Executed, Unsent, Sent
    <3> QED BY <2>1, <3>2, DebtsRemainPaid
  <2>3. ASSUME NEW d \in Node, Crash(d) PROVE PaidFor'
    BY <2>1, <2>3, CrashRemains, DebtsRemainPaid
  <2>4. ASSUME NEW n \in Node \ crashed, FStep(n) PROVE PaidFor'
    <3>1. CASE \E m \in Node : FReceiveAck(n, m)
      BY <2>1, <3>1, CountedPaid
    <3>2. CASE \A m \in Node : ~FReceiveAck(n, m)
      BY <2>1, <2>4, <3>2, OtherStepsRemain, DebtsRemainPaid
    <3> QED BY <3>1, <3>2
  <2> QED BY <2>2, <2>3, <2>4 DEF FNext, Live
<1> QED BY <1>1, <1>2, CrashInvariance, PTL DEF FSpec

(***************************************************************************)
(* The arithmetic of the threshold: the live nodes other than the one that *)
(* counts and the one that issued the call are the Quorum without the dead.*)
(***************************************************************************)
LEMMA LiveQuorum ==
  ASSUME FIInv, NEW n \in Live, NEW j \in Live
  PROVE  /\ IsFiniteSet(Live \ {n, j})
         /\ Cardinality(Live \ {n, j}) = FQuorum(n, j) - Cardinality(crashed \ node_failed[n])
<1>1. /\ crashed \in SUBSET Node /\ node_failed[n] \in SUBSET crashed
      /\ n \in Node \ crashed /\ j \in Node \ crashed
  BY DEF FIInv, Marked, Live
<1>2. IsFiniteSet(Node) /\ Cardinality(Node) = N
  BY NAssumption, FS_Interval DEF Node
<1>3. IsFiniteSet(crashed) /\ Cardinality(crashed) \in Nat
  BY <1>1, <1>2, FS_Subset, FS_CardinalityType
<1>4. IsFiniteSet(Live) /\ Cardinality(Live) = N - Cardinality(crashed)
  <2>1. Node \cap crashed = crashed
    BY <1>1
  <2>2. /\ IsFiniteSet(Node \ crashed)
        /\ Cardinality(Node \ crashed) = Cardinality(Node) - Cardinality(Node \cap crashed)
    BY <1>2, FS_Difference
  <2> QED BY <1>2, <2>1, <2>2 DEF Live
<1>5. /\ Cardinality(node_failed[n]) \in Nat
      /\ Cardinality(crashed \ node_failed[n]) = Cardinality(crashed) - Cardinality(node_failed[n])
  <2>1. crashed \cap node_failed[n] = node_failed[n]
    BY <1>1
  <2>2. Cardinality(crashed \ node_failed[n]) = Cardinality(crashed) - Cardinality(crashed \cap node_failed[n])
    BY <1>3, FS_Difference
  <2>3. Cardinality(node_failed[n]) \in Nat
    BY <1>1, <1>3, FS_Subset, FS_CardinalityType
  <2> QED BY <2>1, <2>2, <2>3
<1>6. IsFiniteSet(Live \ {n}) /\ Cardinality(Live \ {n}) = Cardinality(Live) - 1
  BY <1>4, FS_RemoveElement
<1>7. N \in Nat
  BY NAssumption
<1>8. CASE j = n
  <2>1. Live \ {n, j} = Live \ {n}
    BY <1>8
  <2>2. Cardinality(Live \ {n}) = FQuorum(n, j) - Cardinality(crashed \ node_failed[n])
    BY <1>3, <1>4, <1>5, <1>6, <1>7, <1>8 DEF FQuorum, Quorum
  <2> QED BY <1>6, <2>1, <2>2
<1>9. CASE j # n
  <2>1. Live \ {n, j} = (Live \ {n}) \ {j} /\ j \in Live \ {n}
    BY <1>9
  <2>2. /\ IsFiniteSet((Live \ {n}) \ {j})
        /\ Cardinality((Live \ {n}) \ {j}) = Cardinality(Live \ {n}) - 1
    BY <1>6, <2>1, FS_RemoveElement
  <2>3. Cardinality((Live \ {n}) \ {j}) = FQuorum(n, j) - Cardinality(crashed \ node_failed[n])
    BY <1>3, <1>4, <1>5, <1>6, <1>7, <1>9, <2>2 DEF FQuorum, Quorum
  <2> QED BY <2>1, <2>2, <2>3
<1> QED BY <1>8, <1>9

(***************************************************************************)
(* No survivor depends on the dead: what a live node has counted for an    *)
(* unstable call and what live nodes still owe for it reach the threshold  *)
(* of updateAcksTable once all the dead are marked.                        *)
(***************************************************************************)
THEOREM NobodyWaitsForTheDead == FSpec => []NoWaitForTheDead
<1>1. CrashInv /\ PaidFor => NoWaitForTheDead
  <2> SUFFICES ASSUME CrashInv, PaidFor, NEW n \in Live,
                      NEW c \in {executionList[n][i] : i \in Unstable(n)}, c.node_id \in Live
               PROVE  LET owing == {m \in Live \ {n, c.node_id} :
                            \/ c \notin Executed(m)
                            \/ receiver[m].pc = "ack" /\ receiver[m].call = c
                            \/ IdOf(c) \in Range(unsent_acks[m])
                            \/ AckMessage(IdOf(c)) \in Range(net[m][n])}
                          toMark == Cardinality(crashed \ node_failed[n])
                      IN acks[n][c.node_id][c.call_id] + Cardinality(owing)
                           >= FQuorum(n, c.node_id) - toMark
    BY DEF NoWaitForTheDead
  <2> DEFINE owing == {m \in Live \ {n, c.node_id} : Owes(m, n, c)}
             others == Live \ {n, c.node_id}
             count == acks[n][c.node_id][c.call_id]
  <2>1. n \in Node /\ c \in Call
    <3>1. /\ n \in Node /\ executionList[n] \in Seq(Call) /\ stable_index[n] \in Nat
      BY DEF CrashInv, FIInv, IInvOver, Typed, Live
    <3>2. Unstable(n) \subseteq 1..Len(executionList[n])
      BY <3>1 DEF Unstable
    <3> QED BY <3>1, <3>2
  <2>2. /\ count \in Nat /\ count >= Cardinality(Paid(n, c))
        /\ IsFiniteSet(Paid(n, c)) /\ Cardinality(Paid(n, c)) \in Nat
    BY <2>1, CountIsNumber, PaidFinite DEF CrashInv, PaidFor
  <2>3. /\ IsFiniteSet(others)
        /\ Cardinality(others) = FQuorum(n, c.node_id) - Cardinality(crashed \ node_failed[n])
    BY LiveQuorum DEF CrashInv
  <2>4. owing = others \ Paid(n, c) /\ others \cap Paid(n, c) = Paid(n, c)
    BY DEF Paid
  <2>5. Cardinality(owing) = Cardinality(others) - Cardinality(Paid(n, c))
    <3>1. Cardinality(others \ Paid(n, c)) = Cardinality(others) - Cardinality(others \cap Paid(n, c))
      BY <2>3, FS_Difference
    <3> QED BY <2>4, <3>1
  <2>6. Cardinality(others) \in Nat
    BY <2>3, FS_CardinalityType
  <2>7. owing = {m \in Live \ {n, c.node_id} :
                   \/ c \notin Executed(m)
                   \/ receiver[m].pc = "ack" /\ receiver[m].call = c
                   \/ IdOf(c) \in Range(unsent_acks[m])
                   \/ AckMessage(IdOf(c)) \in Range(net[m][n])}
    BY DEF Owes, Unsent, Sent
  <2> HIDE DEF owing, others, count
  <2>8. count + Cardinality(owing) >= Cardinality(others)
    BY <2>2, <2>5, <2>6
  <2> QED BY <2>3, <2>7, <2>8 DEF count
<1> QED BY <1>1, CrashInvariance, PaidInvariance, PTL
=============================================================================
