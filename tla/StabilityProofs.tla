--------------------------- MODULE StabilityProofs ---------------------------
(***************************************************************************)
(* Proofs, for every number of nodes, every workload and every conflict    *)
(* relation, that the acknowledgements which a node counts are about other *)
(* nodes what the node takes them for: a call that is stable somewhere has *)
(* been executed everywhere, no call is lost or executed twice, and every  *)
(* step of the handlers is one of UniformStability or a stutter.           *)
(***************************************************************************)
EXTENDS HamsouProofs

-----------------------------------------------------------------------------
(* What the nodes hold, as sets.                                           *)

Queued(n) == Range(priorityQueue[n])
Hand(n) == IF receiver[n].pc \in {"insert", "ack"} THEN {receiver[n].call} ELSE {}
Unsent(n) == Range(unsent_acks[n])
Sent(m, n) == Range(net[m][n])

IdsExecuted(n) == {IdOf(c) : c \in Executed(n)}

(* The receiver of n has executed the call a and not recorded it yet. *)
Recording(n, a) == receiver[n].pc = "ack" /\ IdOf(receiver[n].call) = a

(* The nodes whose acknowledgement of a has been counted by n. *)
Counted(n, a) ==
  {m \in Node \ {n, a.node_id} :
     /\ a \in IdsExecuted(m) /\ ~Recording(m, a)
     /\ a \notin Unsent(m) /\ AckMessage(a) \notin Sent(m, n)}

-----------------------------------------------------------------------------
(***************************************************************************)
(* The inductive invariant.  Every call a node holds has been executed by  *)
(* the node that issued it, under a number that is used once, and it is    *)
(* held in one place.  The same is true of acknowledgements, so that they  *)
(* can be counted.  D are the nodes that need not have executed what they  *)
(* sent: none here, the ones that were shut down in module HamsouFailure.  *)
(***************************************************************************)
OnceEach(s, kind) == \A i, j \in DOMAIN s : s[i].kind = kind /\ s[i] = s[j] => i = j

CallsOnce ==
  \A n \in Node :
    /\ IsInjective(executionList[n])
    /\ IsInjective(priorityQueue[n])
    /\ \A m \in Node : OnceEach(net[m][n], "Call")

AcksOnce ==
  \A n \in Node :
    /\ IsInjective(unsent_acks[n])
    /\ \A m \in Node : OnceEach(net[m][n], "Ack")

OwnNumbers ==
  \A n \in Node : \A c \in Executed(n) :
    c.node_id = n => /\ c.call_id < it[n]
                     /\ \A d \in Executed(n) : d.node_id = n /\ d.call_id = c.call_id => d = c

Origins(D) ==
  \A n \in Node :
    /\ \A c \in Executed(n) \cup Queued(n) \cup Hand(n) :
         c.node_id \notin D => c \in Executed(c.node_id)
    /\ \A c \in Queued(n) \cup Hand(n) : c.node_id # n

HandledOnce ==
  \A n \in Node :
    /\ \A c \in Queued(n) :
         c \in Executed(n) => receiver[n].pc = "ack" /\ receiver[n].queued /\ receiver[n].call = c
    /\ receiver[n].pc = "insert" => receiver[n].call \notin Executed(n)
    /\ receiver[n].pc = "ack" => receiver[n].call \in Executed(n)
    /\ receiver[n].pc \in {"insert", "ack"} =>
         IF receiver[n].queued THEN receiver[n].call = Top(priorityQueue[n])
                               ELSE receiver[n].call \notin Queued(n)

CallsUnderway(D) ==
  \A m, n \in Node : \A x \in Sent(m, n) :
    x.kind = "Call" =>
      /\ m # n /\ x.call.node_id = m /\ (m \notin D => x.call \in Executed(m))
      /\ x.call \notin Executed(n) \cup Queued(n) \cup Hand(n)

AcksUnderway ==
  \A m \in Node :
    /\ \A a \in Unsent(m) : a \in IdsExecuted(m) /\ a.node_id # m /\ ~Recording(m, a)
    /\ \A n \in Node : \A x \in Sent(m, n) :
         x.kind = "Ack" =>
           /\ m # n /\ x.ack \in IdsExecuted(m) /\ x.ack.node_id # m
           /\ ~Recording(m, x.ack) /\ x.ack \notin Unsent(m)

NothingLost(D) ==
  \A m \in Node \ D, n \in Node : \A c \in Executed(m) :
    c.node_id = m /\ m # n =>
      c \in Executed(n) \cup Queued(n) \cup Hand(n) \/ CallMessage(c) \in Sent(m, n)

AcksCounted ==
  \A n \in Node : \A a \in CallId :
    acks[n][a.node_id][a.call_id] = Cardinality(Counted(n, a))

CallParts(D) ==
  OwnNumbers /\ Origins(D) /\ HandledOnce /\ CallsUnderway(D) /\ NothingLost(D)

CallInv == CallsOnce /\ CallParts({})
AckInv == AcksOnce /\ AcksUnderway /\ AcksCounted

-----------------------------------------------------------------------------
(* The messages. *)
LEMMA Messages ==
  /\ \A x \in Message : \/ x.kind = "Call" /\ x = CallMessage(x.call) /\ x.call \in Call
                        \/ x.kind = "Ack" /\ x = AckMessage(x.ack) /\ x.ack \in CallId
  /\ \A c : CallMessage(c).kind = "Call" /\ CallMessage(c).call = c
  /\ \A a : AckMessage(a).kind = "Ack" /\ AckMessage(a).ack = a
<1>1. ASSUME NEW x \in Message
      PROVE  \/ x.kind = "Call" /\ x = CallMessage(x.call) /\ x.call \in Call
             \/ x.kind = "Ack" /\ x = AckMessage(x.ack) /\ x.ack \in CallId
  <2>1. CASE x \in [kind : {"Call"}, call : Call]
    BY <2>1 DEF CallMessage
  <2>2. CASE x \in [kind : {"Ack"}, ack : CallId]
    BY <2>2 DEF AckMessage
  <2> QED BY <2>1, <2>2 DEF Message
<1>2. \A c : CallMessage(c).kind = "Call" /\ CallMessage(c).call = c
  BY DEF CallMessage
<1>3. \A a : AckMessage(a).kind = "Ack" /\ AckMessage(a).ack = a
  BY DEF AckMessage
<1> QED BY <1>1, <1>2, <1>3

(* What is a call or an acknowledgement is one of those that are sent. *)
LEMMA KindsOfMessages ==
  ASSUME NEW M, Carries(M), NEW x \in M
  PROVE  /\ x.kind = "Call" => x = CallMessage(x.call) /\ x.call \in Call
         /\ x.kind = "Ack" => x = AckMessage(x.ack) /\ x.ack \in CallId
<1>1. CASE x \in Message
  BY <1>1, Messages
<1>2. CASE x \notin Message
  BY <1>2 DEF Carries
<1> QED BY <1>1, <1>2

(* The sets have the types of the lists. *)
LEMMA SetTypes ==
  ASSUME NEW M, Carries(M), Typed(M)
  PROVE  \A n \in Node : /\ Executed(n) \subseteq Call /\ Queued(n) \subseteq Call
                         /\ Unsent(n) \subseteq CallId
                         /\ Hand(n) \subseteq Call
                         /\ \A m \in Node : Sent(m, n) \subseteq M
<1> SUFFICES ASSUME NEW n \in Node, NEW m \in Node
             PROVE  /\ Executed(n) \subseteq Call /\ Queued(n) \subseteq Call
                    /\ Unsent(n) \subseteq CallId
                    /\ Hand(n) \subseteq Call
                    /\ Sent(m, n) \subseteq M
  OBVIOUS
<1>1. \A S : \A s \in Seq(S) : Range(s) \subseteq S
  BY DEF Range
<1>2. /\ executionList[n] \in Seq(Call) /\ priorityQueue[n] \in Seq(Call)
      /\ unsent_acks[n] \in Seq(CallId) /\ net[m][n] \in Seq(M)
  BY DEF Typed
<1>3. Hand(n) \subseteq Call
  <2>1. CASE receiver[n] \in {Idle, Drain}
    BY <2>1 DEF Hand, Idle, Drain
  <2>2. CASE receiver[n] \in [pc : {"insert", "ack"}, call : Call, queued : BOOLEAN]
    BY <2>2 DEF Hand
  <2> QED BY <2>1, <2>2 DEF Typed
<1> QED BY <1>1, <1>2, <1>3 DEF Executed, Queued, Unsent, Sent

(* In module Hamsou. *)
LEMMA SetTypesOfMessages ==
  ASSUME IInv
  PROVE  \A n \in Node : /\ Executed(n) \subseteq Call /\ Queued(n) \subseteq Call
                         /\ Unsent(n) \subseteq CallId
                         /\ Hand(n) \subseteq Call
                         /\ \A m \in Node : Sent(m, n) \subseteq Message
BY OnlyMessages, SetTypes DEF IInvOver

-----------------------------------------------------------------------------
(* The effect of each action on the sets.                                  *)

(* Appending something that is new among its kind. *)
LEMMA AppendOnce ==
  ASSUME NEW S, NEW s \in Seq(S), NEW x \in S, NEW kind, OnceEach(s, kind),
         x.kind = kind => x \notin Range(s)
  PROVE  OnceEach(Append(s, x), kind)
<1> DEFINE t == Append(s, x)
<1>1. /\ t \in Seq(S) /\ Len(t) = Len(s) + 1 /\ Len(s) \in Nat
      /\ \A i \in 1..Len(s) + 1 : t[i] = IF i <= Len(s) THEN s[i] ELSE x
  OBVIOUS
<1>2. DOMAIN t = 1..Len(s) + 1 /\ DOMAIN s = 1..Len(s)
  BY <1>1
<1>3. x.kind = kind => \A i \in 1..Len(s) : s[i] # x
  BY <1>2 DEF Range
<1> HIDE DEF t
<1>4. ASSUME NEW i \in DOMAIN t, NEW j \in DOMAIN t, t[i].kind = kind, t[i] = t[j]
      PROVE  i = j
  <2>1. i \in 1..Len(s) + 1 /\ j \in 1..Len(s) + 1
    BY <1>2
  <2>2. CASE i <= Len(s) /\ j <= Len(s)
    BY <1>1, <1>2, <1>4, <2>1, <2>2 DEF OnceEach
  <2>3. CASE ~(i <= Len(s) /\ j <= Len(s))
    BY <1>1, <1>3, <1>4, <2>1, <2>3
  <2> QED BY <2>2, <2>3
<1>5. OnceEach(t, kind)
  BY <1>4 DEF OnceEach
<1> QED BY <1>5 DEF t

(* Taking the first element. *)
LEMMA TailOnce ==
  ASSUME NEW S, NEW s \in Seq(S), s # <<>>
  PROVE  /\ Head(s) \in Range(s)
         /\ Range(Tail(s)) \subseteq Range(s)
         /\ Range(s) \ {Head(s)} \subseteq Range(Tail(s))
         /\ \A kind : OnceEach(s, kind) =>
              /\ OnceEach(Tail(s), kind)
              /\ Head(s).kind = kind => Head(s) \notin Range(Tail(s))
<1> DEFINE t == Tail(s)
<1>1. /\ Len(s) \in Nat /\ Len(s) >= 1 /\ DOMAIN s = 1..Len(s)
      /\ DOMAIN t = 1..Len(s) - 1
      /\ \A i \in 1..Len(s) - 1 : t[i] = s[i + 1]
      /\ Head(s) = s[1]
  OBVIOUS
<1> HIDE DEF t
<1>2. Head(s) \in Range(s)
  BY <1>1 DEF Range
<1>3. Range(t) \subseteq Range(s)
  <2> SUFFICES ASSUME NEW i \in DOMAIN t PROVE t[i] \in Range(s)
    BY DEF Range
  <2>1. i + 1 \in DOMAIN s /\ t[i] = s[i + 1]
    BY <1>1
  <2> QED BY <2>1 DEF Range
<1>4. Range(s) \ {Head(s)} \subseteq Range(t)
  <2> SUFFICES ASSUME NEW i \in DOMAIN s, s[i] # s[1] PROVE s[i] \in Range(t)
    BY <1>1 DEF Range
  <2>1. i - 1 \in DOMAIN t /\ t[i - 1] = s[i]
    BY <1>1
  <2> QED BY <2>1 DEF Range
<1>5. ASSUME NEW kind, OnceEach(s, kind)
      PROVE  OnceEach(t, kind) /\ (s[1].kind = kind => s[1] \notin Range(t))
  <2>1. \A i \in DOMAIN t : i + 1 \in DOMAIN s /\ i \in Nat /\ t[i] = s[i + 1] /\ 1 \in DOMAIN s
    BY <1>1
  <2>2. ASSUME NEW i \in DOMAIN t, NEW j \in DOMAIN t, t[i].kind = kind, t[i] = t[j]
        PROVE  i = j
    <3>1. i + 1 = j + 1
      BY <1>5, <2>1, <2>2 DEF OnceEach
    <3> QED BY <2>1, <3>1
  <2>3. ASSUME NEW i \in DOMAIN t, s[1].kind = kind, t[i] = s[1] PROVE FALSE
    <3>1. i + 1 = 1
      BY <1>5, <2>1, <2>3 DEF OnceEach
    <3> QED BY <2>1, <3>1, <1>1
  <2> QED BY <2>2, <2>3 DEF OnceEach, Range
<1> QED BY <1>1, <1>2, <1>3, <1>4, <1>5 DEF t

(* A message to all others. *)
LEMMA BroadcastEffect ==
  ASSUME NEW M, Carries(M), Typed(M), NEW n \in Node, NEW x \in Message, Broadcast(n, x)
  PROVE  \A m, r \in Node :
           /\ Sent(m, r)' = IF m = n /\ r # n THEN Sent(m, r) \cup {x} ELSE Sent(m, r)
           /\ \A kind : OnceEach(net[m][r], kind) /\ (x.kind = kind => x \notin Sent(n, r))
                         => OnceEach(net'[m][r], kind)
<1> SUFFICES ASSUME NEW m \in Node, NEW r \in Node
             PROVE  /\ Sent(m, r)' = IF m = n /\ r # n THEN Sent(m, r) \cup {x} ELSE Sent(m, r)
                    /\ \A kind : OnceEach(net[m][r], kind) /\ (x.kind = kind => x \notin Sent(n, r))
                                  => OnceEach(net'[m][r], kind)
  OBVIOUS
<1>1. net'[m][r] = IF m = n /\ r # n THEN Append(net[m][r], x) ELSE net[m][r]
  BY DEF Typed, Broadcast
<1>2. net[m][r] \in Seq(M) /\ x \in M
  BY DEF Typed, Carries
<1>3. Range(Append(net[m][r], x)) = Range(net[m][r]) \cup {x}
  BY <1>2, AppendElements
<1>4. ASSUME NEW kind, OnceEach(net[m][r], kind), x.kind = kind => x \notin Sent(n, r)
      PROVE  OnceEach(net'[m][r], kind)
  <2>1. CASE m = n /\ r # n
    <3>1. OnceEach(Append(net[m][r], x), kind)
      BY <1>2, <1>4, <2>1, AppendOnce DEF Sent
    <3> QED BY <1>1, <2>1, <3>1
  <2>2. CASE ~(m = n /\ r # n)
    BY <1>1, <1>4, <2>2
  <2> QED BY <2>1, <2>2
<1> QED BY <1>1, <1>3, <1>4 DEF Sent

(* Taking a message. *)
LEMMA TakeEffect ==
  ASSUME NEW M, Carries(M), Typed(M), NEW n \in Node, NEW m \in Node, net[m][n] # <<>>,
         net' = [net EXCEPT ![m][n] = Tail(@)]
  PROVE  /\ Head(net[m][n]) \in Sent(m, n)
         /\ \A k, r \in Node :
              /\ Sent(k, r)' \subseteq Sent(k, r)
              /\ Sent(k, r) \ Sent(k, r)' \subseteq {Head(net[m][n])}
              /\ ~(k = m /\ r = n) => Sent(k, r)' = Sent(k, r)
              /\ \A kind : OnceEach(net[k][r], kind) => OnceEach(net'[k][r], kind)
<1>1. net[m][n] \in Seq(M)
  BY DEF Typed
<1> DEFINE h == Head(net[m][n])
           t == Tail(net[m][n])
<1>2. /\ h \in Range(net[m][n])
      /\ Range(t) \subseteq Range(net[m][n])
      /\ Range(net[m][n]) \ {h} \subseteq Range(t)
      /\ \A kind : OnceEach(net[m][n], kind) =>
            OnceEach(t, kind) /\ (h.kind = kind => h \notin Range(t))
  BY <1>1, TailOnce
<1>3. \A k, r \in Node : net'[k][r] = IF k = m /\ r = n THEN t ELSE net[k][r]
  BY DEF Typed
<1> HIDE DEF h, t
<1>4. ASSUME NEW k \in Node, NEW r \in Node
      PROVE  /\ Sent(k, r)' \subseteq Sent(k, r)
             /\ Sent(k, r) \ Sent(k, r)' \subseteq {h}
             /\ ~(k = m /\ r = n) => Sent(k, r)' = Sent(k, r)
             /\ \A kind : OnceEach(net[k][r], kind) => OnceEach(net'[k][r], kind)
  <2>1. CASE k = m /\ r = n
    BY <1>2, <1>3, <2>1 DEF Sent
  <2>2. CASE ~(k = m /\ r = n)
    BY <1>3, <2>2 DEF Sent
  <2> QED BY <2>1, <2>2
<1> QED BY <1>2, <1>4 DEF Sent, h

(* The message that is taken was there once. *)
LEMMA TakeOnce ==
  ASSUME NEW M, Carries(M), Typed(M), NEW n \in Node, NEW m \in Node, net[m][n] # <<>>,
         net' = [net EXCEPT ![m][n] = Tail(@)],
         NEW h, h = Head(net[m][n]), h \notin Range(Tail(net[m][n]))
  PROVE  /\ Sent(m, n)' = Sent(m, n) \ {h}
         /\ \A k, r \in Node : ~(k = m /\ r = n) => Sent(k, r)' = Sent(k, r)
<1>1. /\ \A k, r \in Node : ~(k = m /\ r = n) => Sent(k, r)' = Sent(k, r)
      /\ Sent(m, n)' \subseteq Sent(m, n) /\ Sent(m, n) \ Sent(m, n)' \subseteq {h}
  BY TakeEffect
<1>3. net'[m][n] = Tail(net[m][n])
  BY DEF Typed
<1>4. Sent(m, n)' = Sent(m, n) \ {h}
  <2>1. h \notin Sent(m, n)'
    BY <1>3 DEF Sent
  <2> QED BY <1>1, <2>1
<1> QED BY <1>1, <1>4

(* Two calls with the same number and issuer are the same call. *)
LEMMA SameId ==
  ASSUME OwnNumbers, NEW c \in Call, NEW d \in Call,
         c \in Executed(c.node_id), d \in Executed(d.node_id), IdOf(c) = IdOf(d)
  PROVE  c = d
<1>1. c.node_id = d.node_id /\ c.call_id = d.call_id /\ c.node_id \in Node
  BY DEF IdOf, Call
<1> QED BY <1>1 DEF OwnNumbers

(* A call that a node has not executed is not under its ids either. *)
LEMMA NotExecutedById ==
  ASSUME IInv, OwnNumbers, Origins({}), NEW c \in Call, c \in Executed(c.node_id),
         NEW n \in Node, c \notin Executed(n)
  PROVE  IdOf(c) \notin IdsExecuted(n)
<1> SUFFICES ASSUME NEW d \in Executed(n), IdOf(c) = IdOf(d) PROVE FALSE
  BY DEF IdsExecuted
<1>1. d \in Call /\ d \in Executed(d.node_id)
  BY SetTypesOfMessages DEF Origins
<1> QED BY <1>1, SameId

-----------------------------------------------------------------------------
(* What the steps do to the sets.                                          *)

(* Node n sends its acknowledgement of a to the others. *)
SendsAck(n, a) ==
  /\ a \in Unsent(n)
  /\ UNCHANGED <<it, receiver, acks, priorityQueue, executionList, stable_index>>
  /\ \A m, r \in Node :
       /\ Unsent(m)' = IF m = n THEN Unsent(m) \ {a} ELSE Unsent(m)
       /\ Sent(m, r)' = IF m = n /\ r # n THEN Sent(m, r) \cup {AckMessage(a)} ELSE Sent(m, r)

(* Node n executes its next call c and sends it to the others. *)
Issues(n, c) ==
  /\ c.node_id = n /\ c.call_id = it[n] /\ c \notin Executed(n)
  /\ UNCHANGED <<receiver, acks, priorityQueue, unsent_acks, stable_index>>
  /\ it' = [it EXCEPT ![n] = @ + 1]
  /\ \A m, r \in Node :
       /\ Executed(m)' = IF m = n THEN Executed(m) \cup {c} ELSE Executed(m)
       /\ Sent(m, r)' = IF m = n /\ r # n THEN Sent(m, r) \cup {CallMessage(c)} ELSE Sent(m, r)

(* Call c comes from m to the queue or to the hand of n. *)
Arrives(n, m, c) ==
  /\ receiver[n] = Idle /\ CallMessage(c) \in Sent(m, n)
  /\ UNCHANGED <<it, acks, unsent_acks, executionList, stable_index>>
  /\ \A k, r \in Node :
       Sent(k, r)' = IF k = m /\ r = n THEN Sent(k, r) \ {CallMessage(c)} ELSE Sent(k, r)
  /\ \/ /\ receiver' = [receiver EXCEPT ![n] = Drain]
        /\ \A k \in Node : Queued(k)' = IF k = n THEN Queued(k) \cup {c} ELSE Queued(k)
        /\ \A k \in Node \ {n} : priorityQueue'[k] = priorityQueue[k]
     \/ /\ receiver' = [receiver EXCEPT ![n] = Handling("insert", c, FALSE)]
        /\ priorityQueue' = priorityQueue

(* Node n executes the call c in its hand. *)
Performs(n, c) ==
  /\ receiver[n].pc = "insert" /\ receiver[n].call = c /\ c \notin Executed(n)
  /\ UNCHANGED <<it, acks, unsent_acks, priorityQueue, net, stable_index>>
  /\ receiver'[n].pc = "ack" /\ receiver'[n].call = c
  /\ receiver'[n].queued = receiver[n].queued
  /\ \A m \in Node \ {n} : receiver'[m] = receiver[m]
  /\ \A m \in Node : Executed(m)' = IF m = n THEN Executed(m) \cup {c} ELSE Executed(m)

(* Node n records that it has executed c, and takes it from its queue. *)
Records(n, c) ==
  /\ receiver[n].pc = "ack" /\ receiver[n].call = c
  /\ UNCHANGED <<it, acks, net, executionList, stable_index>>
  /\ receiver'[n] \in {Idle, Drain}
  /\ \/ receiver[n].queued /\ Queued(n)' = Queued(n) \ {c}
     \/ ~receiver[n].queued /\ Queued(n)' = Queued(n)
  /\ \A m \in Node \ {n} : /\ receiver'[m] = receiver[m]
                           /\ priorityQueue'[m] = priorityQueue[m] /\ Queued(m)' = Queued(m)
  /\ \A m \in Node : Unsent(m)' = IF m = n THEN Unsent(m) \cup {IdOf(c)} ELSE Unsent(m)

(* Node n looks at its queue, and may take the top of it in hand. *)
LooksAtQueue(n) ==
  /\ receiver[n] = Drain
  /\ UNCHANGED <<it, acks, net, executionList, stable_index, priorityQueue, unsent_acks>>
  /\ \/ receiver' = [receiver EXCEPT ![n] = Idle]
     \/ /\ receiver' = [receiver EXCEPT ![n] = Handling("insert", Top(priorityQueue[n]), TRUE)]
        /\ Top(priorityQueue[n]) \in Queued(n)

(* Node n counts the acknowledgement of a that m has sent. *)
Counts(n, m, a) ==
  /\ receiver[n] = Idle /\ AckMessage(a) \in Sent(m, n)
  /\ UNCHANGED <<it, executionList, priorityQueue, unsent_acks>>
  /\ \E next \in {Idle, Drain} : receiver' = [receiver EXCEPT ![n] = next]
  /\ acks' = [acks EXCEPT ![n][a.node_id][a.call_id] = @ + 1]
  /\ \A k, r \in Node :
       Sent(k, r)' = IF k = m /\ r = n THEN Sent(k, r) \ {AckMessage(a)} ELSE Sent(k, r)

(* SendAck moves an acknowledgement to the channels. *)
LEMMA SendAckEffect ==
  ASSUME IInv, CallInv, AckInv, NEW n \in Node, SendAck(n)
  PROVE  CallsOnce' /\ AcksOnce' /\ \E a \in CallId : SendsAck(n, a)
<1> DEFINE a == Head(unsent_acks[n])
<1>1. unsent_acks[n] \in Seq(CallId) /\ unsent_acks[n] # <<>> /\ IsInjective(unsent_acks[n])
  BY DEF IInv, TypeOK, SendAck, AckInv, AcksOnce
<1>2. /\ a \in Range(unsent_acks[n])
      /\ Range(Tail(unsent_acks[n])) = Range(unsent_acks[n]) \ {a}
      /\ IsInjective(Tail(unsent_acks[n]))
  BY <1>1, TailElements
<1>3. /\ UNCHANGED <<it, executionList, stable_index, priorityQueue, acks, receiver>>
      /\ unsent_acks' = [unsent_acks EXCEPT ![n] = Tail(@)]
      /\ Broadcast(n, AckMessage(a))
  BY DEF SendAck, handlerVars, receiverVars
<1> HIDE DEF a
<1>4. a \in Unsent(n) /\ a \in CallId /\ AckMessage(a) \in Message
  BY <1>2, SetTypesOfMessages DEF Unsent, AckMessage, Message
<1>5. \A m \in Node : AckMessage(a) \notin Sent(n, m)
  BY <1>4, Messages DEF AckInv, AcksUnderway
<1>6. \A m, r \in Node :
        /\ Sent(m, r)' = IF m = n /\ r # n THEN Sent(m, r) \cup {AckMessage(a)} ELSE Sent(m, r)
        /\ \A kind : OnceEach(net[m][r], kind) => OnceEach(net'[m][r], kind)
  BY <1>3, <1>4, <1>5, BroadcastEffect, OnlyMessages DEF IInvOver
<1>7. \A m \in Node : unsent_acks'[m] = IF m = n THEN Tail(unsent_acks[n]) ELSE unsent_acks[m]
  BY <1>3 DEF IInv, TypeOK
<1>8. \A m \in Node : /\ Unsent(m)' = IF m = n THEN Unsent(m) \ {a} ELSE Unsent(m)
                      /\ IsInjective(unsent_acks'[m])
  BY <1>2, <1>7 DEF Unsent, AckInv, AcksOnce
<1>9. CallsOnce' /\ AcksOnce'
  BY <1>3, <1>6, <1>8 DEF CallInv, CallsOnce, AckInv, AcksOnce
<1>10. SendsAck(n, a)
  BY <1>3, <1>4, <1>6, <1>8 DEF SendsAck
<1> QED BY <1>4, <1>9, <1>10

(* Passing by the acknowledgements and being refused change none of the sets. *)
LEMMA OtherMainEffect ==
  ASSUME NEW n \in Node, NoAckToSend(n) \/ RefuseLocal(n)
  PROVE  /\ UNCHANGED <<it, receiver, acks, priorityQueue, executionList, stable_index,
                        unsent_acks, net>>
         /\ (CallsOnce => CallsOnce') /\ (AcksOnce => AcksOnce')
<1>1. UNCHANGED <<it, receiver, acks, priorityQueue, executionList, stable_index, unsent_acks, net>>
  BY DEF NoAckToSend, RefuseLocal, handlerVars, receiverVars
<1> QED BY <1>1 DEF CallsOnce, AcksOnce

(* localHandler adds a new call to the list and to the channels. *)
LEMMA ExecuteLocalEffect ==
  ASSUME NEW M, Carries(M), IInvOver(M), NEW D, CallsOnce, CallParts(D),
         NEW n \in Node \ D, ExecuteLocal(n)
  PROVE  CallsOnce' /\ (AcksOnce => AcksOnce') /\ \E c \in Call : Issues(n, c)
<1> DEFINE c == NextCall(n)
<1>1. c \in Call
  BY NextCallType DEF IInvOver, ExecuteLocal, AtCall
<1>2. c.node_id = n /\ c.call_id = it[n] /\ it[n] \in Nat
  BY DEF NextCall, IInvOver, Typed
<1>3. /\ UNCHANGED <<receiver, acks, priorityQueue, unsent_acks, stable_index>>
      /\ it' = [it EXCEPT ![n] = @ + 1]
      /\ executionList' = [executionList EXCEPT ![n] = Append(@, c)]
      /\ Broadcast(n, CallMessage(c))
  BY DEF ExecuteLocal, receiverVars
<1> HIDE DEF c
<1>4. c \notin Executed(n)
  BY <1>2 DEF CallParts, OwnNumbers
<1>5. \A m \in Node : CallMessage(c) \notin Sent(n, m)
  BY <1>4, Messages DEF CallParts, CallsUnderway
<1>6. CallMessage(c) \in Message
  BY <1>1 DEF CallMessage, Message
<1>7. \A m, r \in Node :
        /\ Sent(m, r)' = IF m = n /\ r # n THEN Sent(m, r) \cup {CallMessage(c)} ELSE Sent(m, r)
        /\ \A kind : OnceEach(net[m][r], kind) => OnceEach(net'[m][r], kind)
  BY <1>3, <1>5, <1>6, BroadcastEffect DEF IInvOver
<1>8. executionList[n] \in Seq(Call)
  BY DEF IInvOver, Typed
<1>9. /\ Range(Append(executionList[n], c)) = Executed(n) \cup {c}
      /\ IsInjective(Append(executionList[n], c))
  BY <1>1, <1>4, <1>8, AppendElements DEF Executed, CallsOnce
<1>10. \A m \in Node : executionList'[m] = IF m = n THEN Append(executionList[n], c)
                                                    ELSE executionList[m]
  BY <1>3 DEF IInvOver, Typed
<1>11. \A m \in Node : /\ Executed(m)' = IF m = n THEN Executed(m) \cup {c} ELSE Executed(m)
                       /\ IsInjective(executionList'[m])
  BY <1>9, <1>10 DEF Executed, CallsOnce
<1>12. CallsOnce' /\ (AcksOnce => AcksOnce')
  BY <1>3, <1>7, <1>11 DEF CallsOnce, AcksOnce
<1>13. Issues(n, c)
  BY <1>2, <1>3, <1>4, <1>7, <1>11 DEF Issues
<1> QED BY <1>1, <1>12, <1>13

(* A received call comes to the queue or to the hand. *)
LEMMA ReceiveCallEffect ==
  ASSUME NEW M, Carries(M), IInvOver(M), NEW D, CallsOnce, CallParts(D),
         NEW n \in Node, NEW m \in Node, ReceiveCall(n, m)
  PROVE  CallsOnce' /\ (AcksOnce => AcksOnce') /\ \E c \in Call : Arrives(n, m, c)
<1> DEFINE c == Head(net[m][n]).call
<1>1. /\ UNCHANGED <<it, acks, unsent_acks, executionList, stable_index>> /\ receiver[n] = Idle
      /\ net[m][n] # <<>> /\ net' = [net EXCEPT ![m][n] = Tail(@)]
      /\ Head(net[m][n]).kind = "Call"
  BY DEF ReceiveCall, mainVars, handlerVars
<1>2. \/ /\ priorityQueue' = [priorityQueue EXCEPT ![n] = Push(@, c)]
         /\ receiver' = [receiver EXCEPT ![n] = Drain]
      \/ /\ receiver' = [receiver EXCEPT ![n] = Handling("insert", c, FALSE)]
         /\ priorityQueue' = priorityQueue
  BY DEF ReceiveCall
<1>3. Head(net[m][n]) \in Message
  BY <1>1, TakeType DEF IInvOver
<1>4. c \in Call /\ Head(net[m][n]) = CallMessage(c)
  BY <1>1, <1>3, Messages
<1> HIDE DEF c
<1>5. /\ CallMessage(c) \in Sent(m, n)
      /\ \A k, r \in Node :
           /\ Sent(k, r)' = IF k = m /\ r = n THEN Sent(k, r) \ {CallMessage(c)} ELSE Sent(k, r)
           /\ \A kind : OnceEach(net[k][r], kind) => OnceEach(net'[k][r], kind)
  <2> DEFINE h == Head(net[m][n])
  <2>1. /\ h \in Sent(m, n)
        /\ \A k, r \in Node :
             /\ Sent(k, r)' = IF k = m /\ r = n THEN Sent(k, r) \ {h} ELSE Sent(k, r)
             /\ \A kind : OnceEach(net[k][r], kind) => OnceEach(net'[k][r], kind)
    <3>1. h \notin Range(Tail(net[m][n]))
      <4>1. OnceEach(net[m][n], "Call") /\ net[m][n] \in Seq(M)
        BY DEF CallsOnce, IInvOver, Typed
      <4> QED BY <1>1, <4>1, TailOnce
    <3>2. \A k, r \in Node :
            Sent(k, r)' = IF k = m /\ r = n THEN Sent(k, r) \ {h} ELSE Sent(k, r)
      <4> HIDE DEF h
      <4>1. /\ h = Head(net[m][n]) /\ Typed(M)
            /\ net[m][n] # <<>> /\ net' = [net EXCEPT ![m][n] = Tail(@)]
        BY <1>1 DEF h, IInvOver
      <4>2. /\ Sent(m, n)' = Sent(m, n) \ {h}
            /\ \A k, r \in Node : ~(k = m /\ r = n) => Sent(k, r)' = Sent(k, r)
        BY <3>1, <4>1, TakeOnce
      <4> QED BY <4>2
    <3> QED BY <1>1, <3>2, TakeEffect DEF IInvOver
  <2>2. h = CallMessage(c)
    BY <1>4
  <2> HIDE DEF h
  <2> QED BY <2>1, <2>2
<1>7. CASE /\ priorityQueue' = [priorityQueue EXCEPT ![n] = Push(@, c)]
           /\ receiver' = [receiver EXCEPT ![n] = Drain]
  <2> DEFINE q == priorityQueue[n]
  <2>1. q \in Seq(Call) /\ IsInjective(q) /\ c \notin Range(q)
    <3>1. c \notin Queued(n)
      BY <1>5, Messages DEF CallParts, CallsUnderway
    <3> QED BY <3>1 DEF IInvOver, Typed, CallsOnce, Queued
  <2>2. \A k \in Node : priorityQueue'[k] = IF k = n THEN Push(q, c) ELSE priorityQueue[k]
    BY <1>7 DEF IInvOver, Typed
  <2>3. Range(Push(q, c)) = Range(q) \cup {c} /\ IsInjective(Push(q, c))
    <3> HIDE DEF q
    <3> QED BY <1>4, <2>1, PushElements
  <2>4. \A k \in Node : /\ Queued(k)' = IF k = n THEN Queued(k) \cup {c} ELSE Queued(k)
                        /\ IsInjective(priorityQueue'[k])
    BY <2>2, <2>3 DEF Queued, CallsOnce
  <2>5. CallsOnce' /\ (AcksOnce => AcksOnce')
    BY <1>1, <1>5, <2>4 DEF CallsOnce, AcksOnce
  <2>6. \A k \in Node \ {n} : priorityQueue'[k] = priorityQueue[k]
    BY <2>2
  <2>7. Arrives(n, m, c)
    BY <1>1, <1>5, <1>7, <2>4, <2>6 DEF Arrives
  <2> QED BY <1>4, <2>5, <2>7
<1>8. CASE /\ receiver' = [receiver EXCEPT ![n] = Handling("insert", c, FALSE)]
           /\ priorityQueue' = priorityQueue
  <2>1. Arrives(n, m, c)
    BY <1>1, <1>5, <1>8 DEF Arrives
  <2>2. CallsOnce' /\ (AcksOnce => AcksOnce')
    BY <1>1, <1>5, <1>8 DEF CallsOnce, AcksOnce
  <2> QED BY <1>4, <2>1, <2>2
<1> QED BY <1>2, <1>7, <1>8

(* remoteHandler puts the call in hand into the list. *)
LEMMA ExecuteRemoteEffect ==
  ASSUME NEW M, Carries(M), IInvOver(M), NEW D, CallsOnce, CallParts(D),
         NEW n \in Node, ExecuteRemote(n)
  PROVE  CallsOnce' /\ (AcksOnce => AcksOnce') /\ \E c \in Call : Performs(n, c)
<1> DEFINE c == receiver[n].call
           i == InsertPosition(n, c)
           list == executionList[n]
<1>1. /\ receiver[n] \in [pc : {"insert", "ack"}, call : Call, queued : BOOLEAN]
      /\ receiver[n].pc = "insert"
  BY DEF IInvOver, Typed, ExecuteRemote, Idle, Drain
<1>2. c \in Call
  BY <1>1
<1>3. /\ receiver'[n].pc = "ack" /\ receiver'[n].call = c
      /\ receiver'[n].queued = receiver[n].queued
      /\ \A m \in Node \ {n} : receiver'[m] = receiver[m]
  <2>1. /\ receiver'[n] = [receiver[n] EXCEPT !.pc = "ack"]
        /\ \A m \in Node \ {n} : receiver'[m] = receiver[m]
    BY DEF ExecuteRemote, IInvOver, Typed
  <2> QED BY <1>1, <2>1
<1>4. /\ UNCHANGED <<it, acks, unsent_acks, priorityQueue, net, stable_index>>
      /\ executionList' = [executionList EXCEPT ![n] = InsertAt(list, i, c)]
  BY DEF ExecuteRemote, mainVars
<1>5. c \notin Executed(n)
  BY <1>1 DEF CallParts, HandledOnce
<1>6. list \in Seq(Call) /\ IsInjective(list) /\ c \notin Range(list)
  BY <1>5 DEF IInvOver, Typed, CallsOnce, Executed
<1>7. i \in 1 .. Len(list) + 1
  <2>1. /\ Len(list) \in Nat /\ stable_index[n] \in Nat
        /\ stable_index[n] <= Len(list)
    BY DEF IInvOver, Typed, StableWithinList
  <2>2. i \in stable_index[n] + 1 .. Len(list) + 1
    BY <2>1, InsertPositionRange
  <2> HIDE DEF i, list
  <2> QED BY <2>1, <2>2
<1>8. \A m \in Node : executionList'[m] = IF m = n THEN InsertAt(list, i, c) ELSE executionList[m]
  BY <1>4 DEF IInvOver, Typed
<1>9. Range(InsertAt(list, i, c)) = Range(list) \cup {c} /\ IsInjective(InsertAt(list, i, c))
  <2> HIDE DEF list, i, c
  <2> QED BY <1>2, <1>6, <1>7, InsertElements
<1>10. \A m \in Node : /\ Executed(m)' = IF m = n THEN Executed(m) \cup {c} ELSE Executed(m)
                       /\ IsInjective(executionList'[m])
  <2> HIDE DEF c, i
  <2> QED BY <1>8, <1>9 DEF Executed, CallsOnce
<1>11. CallsOnce' /\ (AcksOnce => AcksOnce')
  BY <1>4, <1>10 DEF CallsOnce, AcksOnce
<1>12. Performs(n, c)
  BY <1>1, <1>3, <1>4, <1>5, <1>10 DEF Performs
<1> QED BY <1>2, <1>11, <1>12

(* The acknowledgement is recorded, and a call from the queue leaves it. *)
LEMMA RecordAckEffect ==
  ASSUME NEW M, Carries(M), IInvOver(M), NEW D, CallsOnce, CallParts(D),
         NEW n \in Node, RecordAck(n)
  PROVE  CallsOnce' /\ (AcksOnce /\ AcksUnderway => AcksOnce') /\ \E c \in Call : Records(n, c)
<1> DEFINE c == receiver[n].call
           q == priorityQueue[n]
           rest == IF receiver[n].queued THEN Pop(q) ELSE q
           u == unsent_acks[n]
<1>1. /\ receiver[n] \in [pc : {"insert", "ack"}, call : Call, queued : BOOLEAN]
      /\ receiver[n].pc = "ack"
  BY DEF IInvOver, Typed, RecordAck, Idle, Drain
<1>2. c \in Call
  BY <1>1
<1>3. priorityQueue' = [priorityQueue EXCEPT ![n] = rest]
  BY DEF RecordAck
<1>4. priorityQueue'[n] = rest
  BY <1>3 DEF IInvOver, Typed
<1>5. /\ unsent_acks' = [unsent_acks EXCEPT ![n] = Append(@, IdOf(c))]
      /\ receiver' = [receiver EXCEPT ![n] = DrainOrIdle(priorityQueue'[n])]
      /\ UNCHANGED <<it, acks, net, executionList, stable_index>>
  BY DEF RecordAck, mainVars, handlerVars
<1>6. \E next \in {Idle, Drain} : receiver' = [receiver EXCEPT ![n] = next]
  BY <1>5 DEF DrainOrIdle
<1>7. q \in Seq(Call) /\ IsInjective(q) /\ u \in Seq(CallId)
  BY DEF IInvOver, Typed, CallsOnce
<1>8. IdOf(c) \in CallId /\ (AcksUnderway => IdOf(c) \notin Range(u))
  <2>1. IdOf(c) \in CallId
    BY <1>2 DEF IdOf, Call, CallId
  <2>2. Recording(n, IdOf(c))
    BY <1>1 DEF Recording
  <2>3. AcksUnderway => IdOf(c) \notin Unsent(n)
    BY <2>2 DEF AcksUnderway
  <2> QED BY <2>1, <2>3 DEF Unsent
<1>9. /\ Range(Append(u, IdOf(c))) = Range(u) \cup {IdOf(c)}
      /\ AcksUnderway /\ IsInjective(u) => IsInjective(Append(u, IdOf(c)))
  <2> HIDE DEF u, c
  <2> QED BY <1>7, <1>8, AppendElements
<1>10. /\ \/ receiver[n].queued /\ Range(rest) = Range(q) \ {c}
          \/ ~receiver[n].queued /\ Range(rest) = Range(q)
       /\ IsInjective(rest)
  <2>1. CASE receiver[n].queued
    <3>1. c = Top(q) /\ q # <<>>
      BY <1>1, <2>1 DEF CallParts, HandledOnce, IInvOver, QueueHasTop, UsesQueue
    <3>2. Range(Pop(q)) = Range(q) \ {Top(q)} /\ IsInjective(Pop(q))
      <4> HIDE DEF q
      <4> QED BY <1>7, <3>1, PopElements
    <3>3. rest = Pop(q)
      BY <2>1
    <3> HIDE DEF q, c, rest
    <3> QED BY <2>1, <3>1, <3>2, <3>3
  <2>2. CASE ~receiver[n].queued
    BY <1>7, <2>2
  <2> QED BY <2>1, <2>2
<1>11. \A m \in Node : /\ priorityQueue'[m] = IF m = n THEN rest ELSE priorityQueue[m]
                       /\ unsent_acks'[m] = IF m = n THEN Append(u, IdOf(c)) ELSE unsent_acks[m]
  BY <1>3, <1>5 DEF IInvOver, Typed
<1> HIDE DEF rest, c
<1>12. /\ \/ receiver[n].queued /\ Queued(n)' = Queued(n) \ {c}
          \/ ~receiver[n].queued /\ Queued(n)' = Queued(n)
       /\ \A m \in Node : /\ m # n => priorityQueue'[m] = priorityQueue[m]
                          /\ m # n => Queued(m)' = Queued(m)
                          /\ Unsent(m)' = IF m = n THEN Unsent(m) \cup {IdOf(c)} ELSE Unsent(m)
                          /\ IsInjective(priorityQueue'[m])
                          /\ AcksUnderway /\ AcksOnce => IsInjective(unsent_acks'[m])
  BY <1>9, <1>10, <1>11 DEF Queued, Unsent, CallsOnce, AcksOnce
<1>13. CallsOnce' /\ (AcksOnce /\ AcksUnderway => AcksOnce')
  BY <1>5, <1>12 DEF CallsOnce, AcksOnce
<1>14. receiver'[n] \in {Idle, Drain} /\ \A m \in Node \ {n} : receiver'[m] = receiver[m]
  BY <1>6 DEF IInvOver, Typed
<1>15. Records(n, c)
  BY <1>1, <1>5, <1>12, <1>14 DEF Records, c
<1> QED BY <1>2, <1>13, <1>15

(* The receiver takes the top of the queue in hand, or stops. *)
LEMMA DrainQueueEffect ==
  ASSUME NEW M, Carries(M), IInvOver(M), CallsOnce, NEW n \in Node, DrainQueue(n)
  PROVE  CallsOnce' /\ (AcksOnce => AcksOnce') /\ LooksAtQueue(n)
<1>1. /\ UNCHANGED <<it, acks, net, executionList, stable_index, priorityQueue, unsent_acks>>
      /\ receiver[n] = Drain
      /\ \/ receiver' = [receiver EXCEPT ![n] = Idle]
         \/ receiver' = [receiver EXCEPT ![n] = Handling("insert", Top(priorityQueue[n]), TRUE)]
  BY DEF DrainQueue, mainVars, handlerVars
<1>2. CallsOnce' /\ (AcksOnce => AcksOnce')
  BY <1>1 DEF CallsOnce, AcksOnce
<1>3. priorityQueue[n] # <<>> /\ priorityQueue[n] \in Seq(Call)
  BY <1>1 DEF IInvOver, Typed, QueueHasTop, UsesQueue
<1>4. Top(priorityQueue[n]) \in Queued(n)
  BY <1>3 DEF Top, Queued, Range
<1> QED BY <1>1, <1>2, <1>4 DEF LooksAtQueue

(* An acknowledgement is taken from its channel and counted. *)
LEMMA ReceiveAckEffect ==
  ASSUME IInv, CallInv, AckInv, NEW n \in Node, NEW m \in Node, ReceiveAck(n, m)
  PROVE  CallsOnce' /\ AcksOnce' /\ \E a \in CallId : Counts(n, m, a)
<1> DEFINE h == Head(net[m][n])
           a == h.ack
<1>1. /\ UNCHANGED <<it, executionList, priorityQueue, unsent_acks>> /\ receiver[n] = Idle
      /\ net[m][n] # <<>> /\ net' = [net EXCEPT ![m][n] = Tail(@)]
      /\ h.kind = "Ack"
      /\ acks' = [acks EXCEPT ![n] = [acks[n] EXCEPT ![a.node_id][a.call_id] = @ + 1]]
  BY DEF ReceiveAck
<1>2. \E next \in {Idle, Drain} : receiver' = [receiver EXCEPT ![n] = next]
  BY DEF ReceiveAck, DrainOrIdle
<1>3. h \in Message
  BY <1>1, TakeType, OnlyMessages DEF IInvOver
<1>4. a \in CallId /\ h = AckMessage(a)
  BY <1>1, <1>3, Messages
<1>5. acks' = [acks EXCEPT ![n][a.node_id][a.call_id] = @ + 1]
  BY <1>1
<1>6. /\ h \in Sent(m, n)
      /\ \A k, r \in Node :
           /\ Sent(k, r)' = IF k = m /\ r = n THEN Sent(k, r) \ {h} ELSE Sent(k, r)
           /\ \A kind : OnceEach(net[k][r], kind) => OnceEach(net'[k][r], kind)
  <2>1. h \notin Range(Tail(net[m][n]))
    <3>1. OnceEach(net[m][n], "Ack") /\ net[m][n] \in Seq(Message)
      BY DEF AckInv, AcksOnce, IInv, TypeOK
    <3> QED BY <1>1, <3>1, TailOnce
  <2>2. Typed(Message) /\ Carries(Message)
    BY OnlyMessages DEF IInvOver
  <2>3. \A k, r \in Node :
          Sent(k, r)' = IF k = m /\ r = n THEN Sent(k, r) \ {h} ELSE Sent(k, r)
    <3> HIDE DEF h, a
    <3>1. h = Head(net[m][n])
      BY DEF h
    <3>2. /\ Sent(m, n)' = Sent(m, n) \ {h}
          /\ \A k, r \in Node : ~(k = m /\ r = n) => Sent(k, r)' = Sent(k, r)
      BY <1>1, <2>1, <2>2, <3>1, TakeOnce
    <3> QED BY <3>2
  <2> QED BY <1>1, <2>2, <2>3, TakeEffect
<1>7. CallsOnce' /\ AcksOnce'
  BY <1>1, <1>6 DEF CallInv, CallsOnce, AckInv, AcksOnce
<1> HIDE DEF h, a
<1>8. Counts(n, m, a)
  BY <1>1, <1>2, <1>4, <1>5, <1>6 DEF Counts
<1> QED BY <1>4, <1>7, <1>8

-----------------------------------------------------------------------------
(* No step loses a call or brings it anywhere twice.                       *)

(* The two kinds of messages are different. *)
LEMMA MessageKinds == \A c, a : CallMessage(c) # AckMessage(a)
BY Messages

(* The hand of a receiver. *)
LEMMA HandOf ==
  /\ \A n \in Node : receiver[n] \in {Idle, Drain} =>
        Hand(n) = {} /\ receiver[n].pc \notin {"insert", "ack"}
  /\ \A n \in Node : receiver'[n] \in {Idle, Drain} =>
        Hand(n)' = {} /\ receiver'[n].pc \notin {"insert", "ack"}
  /\ \A n \in Node, pc \in {"insert", "ack"} : \A c, b :
        receiver[n] = Handling(pc, c, b) =>
          /\ Hand(n) = {c} /\ receiver[n].pc = pc
          /\ receiver[n].call = c /\ receiver[n].queued = b
  /\ \A n \in Node, pc \in {"insert", "ack"} : \A c, b :
        receiver'[n] = Handling(pc, c, b) =>
          /\ Hand(n)' = {c} /\ receiver'[n].pc = pc
          /\ receiver'[n].call = c /\ receiver'[n].queued = b
BY DEF Hand, Handling, Idle, Drain

(* What is in the hand depends on the receiver only. *)
LEMMA SameHand ==
  ASSUME NEW n \in Node, receiver'[n] = receiver[n] PROVE Hand(n)' = Hand(n)
BY DEF Hand

(* A new call is in the channels to all others and nowhere else. *)
LEMMA IssuesCalls ==
  ASSUME NEW M, Carries(M), IInvOver(M), NEW D, CallParts(D),
         NEW n \in Node \ D, NEW c \in Call, Issues(n, c)
  PROVE  CallParts(D)'
<1>1. /\ c.node_id = n /\ c.call_id = it[n] /\ c \notin Executed(n)
      /\ \A m, r \in Node :
           /\ Executed(m)' = IF m = n THEN Executed(m) \cup {c} ELSE Executed(m)
           /\ Sent(m, r)' = IF m = n /\ r # n THEN Sent(m, r) \cup {CallMessage(c)}
                                              ELSE Sent(m, r)
  BY DEF Issues
<1>2. /\ receiver' = receiver /\ priorityQueue' = priorityQueue
      /\ \A m \in Node : Queued(m)' = Queued(m) /\ Hand(m)' = Hand(m)
  BY DEF Issues, Queued, Hand
<1>3. \A m \in Node : /\ it[m] \in Nat
                      /\ it'[m] = IF m = n THEN it[m] + 1 ELSE it[m]
  BY DEF IInvOver, Typed, Issues
<1>4. \A r \in Node : /\ \A x \in Executed(r) \cup Queued(r) \cup Hand(r) :
                            /\ x \in Call /\ x.node_id \in Node
                            /\ x.node_id \notin D => x \in Executed(x.node_id)
                      /\ \A x \in Queued(r) \cup Hand(r) : x.node_id # r
  BY SetTypes DEF CallParts, Origins, IInvOver, Call
<1>5. OwnNumbers'
  <2> SUFFICES ASSUME NEW r \in Node, NEW x \in Executed(r)', x.node_id = r
               PROVE  /\ x.call_id < it'[r]
                      /\ \A d \in Executed(r)' :
                            d.node_id = r /\ d.call_id = x.call_id => d = x
    BY DEF OwnNumbers
  <2>1. \A y \in Executed(r) : y.node_id = r => y.call_id < it[r] /\ y.call_id \in Nat
    BY SetTypes DEF CallParts, OwnNumbers, IInvOver, Call
  <2>2. CASE r = n
    BY <1>1, <1>3, <2>1, <2>2 DEF CallParts, OwnNumbers
  <2>3. CASE r # n
    BY <1>1, <1>3, <2>3 DEF CallParts, OwnNumbers
  <2> QED BY <2>2, <2>3
<1>6. Origins(D)'
  BY <1>1, <1>2, <1>4 DEF Origins
<1>7. HandledOnce'
  <2>1. \A r \in Node : \A x \in Queued(r) \cup Hand(r) : x \in Executed(r)' <=> x \in Executed(r)
    BY <1>1, <1>4
  <2>2. \A r \in Node : receiver[r].pc \in {"insert", "ack"} => receiver[r].call \in Hand(r)
    BY DEF Hand
  <2> QED BY <1>2, <2>1, <2>2 DEF CallParts, HandledOnce
<1>8. CallsUnderway(D)'
  <2> SUFFICES ASSUME NEW m \in Node, NEW r \in Node, NEW x \in Sent(m, r)', x.kind = "Call"
               PROVE  /\ m # r /\ x.call.node_id = m /\ (m \notin D => x.call \in Executed(m)')
                      /\ x.call \notin Executed(r)' \cup Queued(r)' \cup Hand(r)'
    BY DEF CallsUnderway
  <2>1. CASE x \in Sent(m, r)
    BY <1>1, <1>2, <2>1 DEF CallParts, CallsUnderway
  <2>2. CASE x = CallMessage(c) /\ m = n /\ r # n
    BY <1>1, <1>2, <1>4, <2>2, Messages
  <2> QED BY <1>1, <2>1, <2>2
<1>9. NothingLost(D)'
  BY <1>1, <1>2 DEF CallParts, NothingLost
<1> QED BY <1>5, <1>6, <1>7, <1>8, <1>9 DEF CallParts

(* A received call leaves the channel and is queued or in the hand. *)
LEMMA ArrivesCalls ==
  ASSUME NEW M, Carries(M), IInvOver(M), NEW D, CallParts(D),
         NEW n \in Node, NEW m \in Node, NEW c \in Call, Arrives(n, m, c)
  PROVE  CallParts(D)'
<1>1. /\ receiver[n] = Idle /\ CallMessage(c) \in Sent(m, n) /\ it' = it
      /\ \A r \in Node : Executed(r)' = Executed(r)
      /\ \A k, r \in Node :
           Sent(k, r)' = IF k = m /\ r = n THEN Sent(k, r) \ {CallMessage(c)} ELSE Sent(k, r)
  BY DEF Arrives, Executed
<1>2. Hand(n) = {} /\ receiver[n].pc \notin {"insert", "ack"}
  BY <1>1, HandOf
<1>3. m # n /\ c.node_id = m /\ (m \notin D => c \in Executed(m)) /\ c \notin Executed(n) \cup Queued(n)
  BY <1>1, Messages DEF CallParts, CallsUnderway
<1>4. \A r \in Node \ {n} : /\ receiver'[r] = receiver[r] /\ priorityQueue'[r] = priorityQueue[r]
                            /\ Queued(r)' = Queued(r) /\ Hand(r)' = Hand(r)
  <2>1. \A r \in Node \ {n} : receiver'[r] = receiver[r] /\ priorityQueue'[r] = priorityQueue[r]
    BY DEF Arrives, IInvOver, Typed
  <2> QED BY <2>1, SameHand DEF Queued
<1>5. \/ /\ receiver'[n].pc \notin {"insert", "ack"} /\ Hand(n)' = {}
         /\ Queued(n)' = Queued(n) \cup {c}
      \/ /\ receiver'[n].pc = "insert" /\ receiver'[n].call = c /\ receiver'[n].queued = FALSE
         /\ Hand(n)' = {c} /\ Queued(n)' = Queued(n)
  <2>1. CASE /\ receiver' = [receiver EXCEPT ![n] = Drain]
             /\ \A k \in Node : Queued(k)' = IF k = n THEN Queued(k) \cup {c} ELSE Queued(k)
    <3>1. receiver'[n] = Drain
      BY <2>1 DEF IInvOver, Typed
    <3> QED BY <2>1, <3>1, HandOf
  <2>2. CASE /\ receiver' = [receiver EXCEPT ![n] = Handling("insert", c, FALSE)]
             /\ priorityQueue' = priorityQueue
    <3>1. receiver'[n] = Handling("insert", c, FALSE)
      BY <2>2 DEF IInvOver, Typed
    <3>2. Queued(n)' = Queued(n)
      BY <2>2 DEF Queued
    <3>3. /\ receiver'[n].pc = "insert" /\ receiver'[n].call = c /\ receiver'[n].queued = FALSE
          /\ Hand(n)' = {c}
      BY <3>1 DEF Handling, Hand
    <3> QED BY <3>2, <3>3
  <2> QED BY <2>1, <2>2 DEF Arrives
<1>6. Queued(n)' \cup Hand(n)' = Queued(n) \cup {c}
  BY <1>5
<1>7. OwnNumbers'
  BY <1>1 DEF CallParts, OwnNumbers
<1>8. Origins(D)'
  <2>1. \A r \in Node : \A x \in Executed(r) \cup Queued(r) \cup Hand(r) : x.node_id \in Node
    BY SetTypes DEF IInvOver, Call
  <2>2. ASSUME NEW r \in Node
        PROVE  /\ \A x \in Executed(r)' \cup Queued(r)' \cup Hand(r)' :
                    x.node_id \notin D => x \in Executed(x.node_id)'
               /\ \A x \in Queued(r)' \cup Hand(r)' : x.node_id # r
    <3>1. CASE r = n
      BY <1>1, <1>3, <1>6, <2>1, <3>1 DEF CallParts, Origins
    <3>2. CASE r # n
      BY <1>1, <1>4, <2>1, <3>2 DEF CallParts, Origins
    <3> QED BY <3>1, <3>2
  <2> QED BY <2>2 DEF Origins
<1>9. HandledOnce'
  <2> SUFFICES ASSUME NEW r \in Node
               PROVE  /\ \A x \in Queued(r)' : x \in Executed(r)' =>
                            /\ receiver'[r].pc = "ack" /\ receiver'[r].queued
                            /\ receiver'[r].call = x
                      /\ receiver'[r].pc = "insert" => receiver'[r].call \notin Executed(r)'
                      /\ receiver'[r].pc = "ack" => receiver'[r].call \in Executed(r)'
                      /\ receiver'[r].pc \in {"insert", "ack"} =>
                           IF receiver'[r].queued THEN receiver'[r].call = Top(priorityQueue'[r])
                                                  ELSE receiver'[r].call \notin Queued(r)'
    BY DEF HandledOnce
  <2>1. CASE r = n
    BY <1>1, <1>2, <1>3, <1>5, <2>1 DEF CallParts, HandledOnce
  <2>2. CASE r # n
    BY <1>1, <1>4, <2>2 DEF CallParts, HandledOnce
  <2> QED BY <2>1, <2>2
<1>10. CallsUnderway(D)'
  <2> SUFFICES ASSUME NEW k \in Node, NEW r \in Node, NEW x \in Sent(k, r)', x.kind = "Call"
               PROVE  /\ k # r /\ x.call.node_id = k /\ (k \notin D => x.call \in Executed(k)')
                      /\ x.call \notin Executed(r)' \cup Queued(r)' \cup Hand(r)'
    BY DEF CallsUnderway
  <2>1. /\ x \in Sent(k, r) /\ k # r /\ x.call.node_id = k /\ (k \notin D => x.call \in Executed(k))
        /\ x.call \notin Executed(r) \cup Queued(r) \cup Hand(r)
    BY <1>1 DEF CallParts, CallsUnderway
  <2>2. ~(k = m /\ r = n /\ x = CallMessage(c))
    BY <1>1
  <2>3. x = CallMessage(x.call)
    BY <2>1, SetTypes, KindsOfMessages DEF IInvOver
  <2>4. r = n => x.call # c
    BY <1>3, <2>1, <2>2, <2>3
  <2>5. CASE r = n
    BY <1>1, <1>6, <2>1, <2>4, <2>5
  <2>6. CASE r # n
    BY <1>1, <1>4, <2>1, <2>6
  <2> QED BY <2>5, <2>6
<1>11. NothingLost(D)'
  <2> SUFFICES ASSUME NEW k \in Node \ D, NEW r \in Node, NEW x \in Executed(k)',
                      x.node_id = k, k # r
               PROVE  \/ x \in Executed(r)' \cup Queued(r)' \cup Hand(r)'
                      \/ CallMessage(x) \in Sent(k, r)'
    BY DEF NothingLost
  <2>1. \/ x \in Executed(r) \cup Queued(r) \cup Hand(r)
        \/ CallMessage(x) \in Sent(k, r)
    BY <1>1 DEF CallParts, NothingLost
  <2>2. CASE r = n
    <3>1. x \in Executed(r) \cup Queued(r) \cup Hand(r) \/ x = c \/ CallMessage(x) \in Sent(k, r)'
      BY <1>1, <2>1, Messages
    <3> QED BY <1>1, <1>2, <1>6, <2>2, <3>1
  <2>3. CASE r # n
    BY <1>1, <1>4, <2>1, <2>3
  <2> QED BY <2>2, <2>3
<1> QED BY <1>7, <1>8, <1>9, <1>10, <1>11 DEF CallParts

(* The call in the hand becomes an executed one. *)
LEMMA PerformsCalls ==
  ASSUME NEW M, Carries(M), IInvOver(M), NEW D, CallParts(D),
         NEW n \in Node, NEW c \in Call, Performs(n, c)
  PROVE  CallParts(D)'
<1>1. /\ it' = it /\ priorityQueue' = priorityQueue
      /\ c \notin Executed(n)
      /\ \A m \in Node : /\ Executed(m)' = IF m = n THEN Executed(m) \cup {c} ELSE Executed(m)
                         /\ Queued(m)' = Queued(m)
                         /\ \A r \in Node : Sent(m, r)' = Sent(m, r)
  BY DEF Performs, Queued, Sent
<1>2. \A r \in Node \ {n} : receiver'[r] = receiver[r]
  BY DEF Performs
<1>3. /\ Hand(n) = {c} /\ Hand(n)' = {c}
      /\ receiver[n].pc = "insert" /\ receiver[n].call = c
      /\ receiver'[n].pc = "ack" /\ receiver'[n].call = c
      /\ receiver'[n].queued = receiver[n].queued
  BY DEF Performs, Hand
<1>4. \A r \in Node : Hand(r)' = Hand(r)
  BY <1>2, <1>3, SameHand
<1>5. \A r \in Node : /\ \A x \in Executed(r) \cup Queued(r) \cup Hand(r) :
                            /\ x.node_id \in Node
                            /\ x.node_id \notin D => x \in Executed(x.node_id)
                      /\ \A x \in Queued(r) \cup Hand(r) : x.node_id # r
  BY SetTypes DEF CallParts, Origins, IInvOver, Call
<1>6. c.node_id # n
  BY <1>3, <1>5
<1>7. OwnNumbers'
  BY <1>1, <1>6 DEF CallParts, OwnNumbers
<1>8. Origins(D)'
  <2>1. \A r \in Node : Executed(r) \subseteq Executed(r)'
    BY <1>1
  <2>2. \A r \in Node : /\ Executed(r)' \subseteq Executed(r) \cup Hand(r)
                        /\ Queued(r)' = Queued(r) /\ Hand(r)' = Hand(r)
    BY <1>1, <1>3, <1>4
  <2> QED BY <1>5, <2>1, <2>2 DEF Origins
<1>9. HandledOnce'
  <2> SUFFICES ASSUME NEW r \in Node
               PROVE  /\ \A x \in Queued(r)' : x \in Executed(r)' =>
                            /\ receiver'[r].pc = "ack" /\ receiver'[r].queued
                            /\ receiver'[r].call = x
                      /\ receiver'[r].pc = "insert" => receiver'[r].call \notin Executed(r)'
                      /\ receiver'[r].pc = "ack" => receiver'[r].call \in Executed(r)'
                      /\ receiver'[r].pc \in {"insert", "ack"} =>
                           IF receiver'[r].queued THEN receiver'[r].call = Top(priorityQueue'[r])
                                                  ELSE receiver'[r].call \notin Queued(r)'
    BY DEF HandledOnce
  <2>1. CASE r = n
    <3>1. \A x \in Queued(n) : x \notin Executed(n)
      BY <1>3 DEF CallParts, HandledOnce
    <3>2. IF receiver[n].queued THEN c = Top(priorityQueue[n]) ELSE c \notin Queued(n)
      BY <1>3 DEF CallParts, HandledOnce
    <3>3. CASE receiver[n].queued
      BY <1>1, <1>3, <2>1, <3>1, <3>2, <3>3
    <3>4. CASE ~receiver[n].queued
      BY <1>1, <1>3, <2>1, <3>1, <3>2, <3>4
    <3> QED BY <3>3, <3>4
  <2>2. CASE r # n
    BY <1>1, <1>2, <2>2 DEF CallParts, HandledOnce
  <2> QED BY <2>1, <2>2
<1>10. CallsUnderway(D)'
  <2> SUFFICES ASSUME NEW m \in Node, NEW r \in Node, NEW x \in Sent(m, r)', x.kind = "Call"
               PROVE  /\ m # r /\ x.call.node_id = m /\ (m \notin D => x.call \in Executed(m)')
                      /\ x.call \notin Executed(r)' \cup Queued(r)' \cup Hand(r)'
    BY DEF CallsUnderway
  <2>1. /\ m # r /\ x.call.node_id = m /\ (m \notin D => x.call \in Executed(m))
        /\ x.call \notin Executed(r) \cup Queued(r) \cup Hand(r)
    BY <1>1 DEF CallParts, CallsUnderway
  <2> QED BY <1>1, <1>3, <1>4, <2>1
<1>11. NothingLost(D)'
  <2> SUFFICES ASSUME NEW m \in Node \ D, NEW r \in Node, NEW x \in Executed(m)',
                      x.node_id = m, m # r
               PROVE  \/ x \in Executed(r)' \cup Queued(r)' \cup Hand(r)'
                      \/ CallMessage(x) \in Sent(m, r)'
    BY DEF NothingLost
  <2>1. x \in Executed(m)
    BY <1>1, <1>6
  <2> QED BY <1>1, <1>4, <2>1 DEF CallParts, NothingLost
<1> QED BY <1>7, <1>8, <1>9, <1>10, <1>11 DEF CallParts

(* A call leaves hand and queue only when it has been executed. *)
LEMMA RecordsCalls ==
  ASSUME NEW M, Carries(M), IInvOver(M), NEW D, CallParts(D),
         NEW n \in Node, NEW c \in Call, Records(n, c)
  PROVE  CallParts(D)'
<1>1. /\ it' = it
      /\ \A m \in Node : /\ Executed(m)' = Executed(m)
                         /\ m # n => Queued(m)' = Queued(m)
                         /\ \A r \in Node : Sent(m, r)' = Sent(m, r)
  BY DEF Records, Executed, Sent
<1>2. \A r \in Node \ {n} : receiver'[r] = receiver[r] /\ priorityQueue'[r] = priorityQueue[r]
  BY DEF Records
<1>3. /\ Hand(n) = {c} /\ receiver[n].pc = "ack" /\ receiver[n].call = c
      /\ \/ receiver[n].queued /\ Queued(n)' = Queued(n) \ {c}
         \/ ~receiver[n].queued /\ Queued(n)' = Queued(n)
  BY DEF Records, Hand
<1>4. Hand(n)' = {} /\ receiver'[n].pc \notin {"insert", "ack"}
  BY HandOf DEF Records
<1>5. \A r \in Node : /\ Queued(r)' \subseteq Queued(r) /\ Hand(r)' \subseteq Hand(r)
                      /\ Queued(r) \cup Hand(r) \subseteq Queued(r)' \cup Hand(r)' \cup Executed(r)'
  <2>1. c \in Executed(n)
    BY <1>3 DEF CallParts, HandledOnce
  <2>2. \A r \in Node \ {n} : Hand(r)' = Hand(r)
    BY <1>2, SameHand
  <2> QED BY <1>1, <1>3, <1>4, <2>1, <2>2
<1>6. OwnNumbers'
  BY <1>1 DEF CallParts, OwnNumbers
<1>7. Origins(D)'
  <2>1. \A r \in Node : \A x \in Executed(r) \cup Queued(r) \cup Hand(r) : x.node_id \in Node
    BY SetTypes DEF IInvOver, Call
  <2> QED BY <1>1, <1>5, <2>1 DEF CallParts, Origins
<1>8. HandledOnce'
  <2> SUFFICES ASSUME NEW r \in Node
               PROVE  /\ \A x \in Queued(r)' : x \in Executed(r)' =>
                            /\ receiver'[r].pc = "ack" /\ receiver'[r].queued
                            /\ receiver'[r].call = x
                      /\ receiver'[r].pc = "insert" => receiver'[r].call \notin Executed(r)'
                      /\ receiver'[r].pc = "ack" => receiver'[r].call \in Executed(r)'
                      /\ receiver'[r].pc \in {"insert", "ack"} =>
                           IF receiver'[r].queued THEN receiver'[r].call = Top(priorityQueue'[r])
                                                  ELSE receiver'[r].call \notin Queued(r)'
    BY DEF HandledOnce
  <2>1. CASE r = n
    <3>1. \A x \in Queued(n) : x \in Executed(n) => receiver[n].queued /\ x = c
      BY <1>3 DEF CallParts, HandledOnce
    <3>2. \A x \in Queued(n)' : x \notin Executed(n)
      BY <1>3, <3>1
    <3> QED BY <1>1, <1>4, <2>1, <3>2
  <2>2. CASE r # n
    BY <1>1, <1>2, <2>2 DEF CallParts, HandledOnce
  <2> QED BY <2>1, <2>2
<1>9. CallsUnderway(D)'
  BY <1>1, <1>5 DEF CallParts, CallsUnderway
<1>10. NothingLost(D)'
  BY <1>1, <1>5 DEF CallParts, NothingLost
<1> QED BY <1>6, <1>7, <1>8, <1>9, <1>10 DEF CallParts

(* The top of the queue is taken in hand without leaving the queue. *)
LEMMA LooksAtQueueCalls ==
  ASSUME NEW M, Carries(M), IInvOver(M), NEW D, CallParts(D),
         NEW n \in Node, LooksAtQueue(n)
  PROVE  CallParts(D)'
<1> DEFINE c == Top(priorityQueue[n])
<1>1. /\ it' = it /\ priorityQueue' = priorityQueue
      /\ \A m \in Node : /\ Executed(m)' = Executed(m) /\ Queued(m)' = Queued(m)
                         /\ \A r \in Node : Sent(m, r)' = Sent(m, r)
  BY DEF LooksAtQueue, Executed, Queued, Sent
<1>2. \A r \in Node \ {n} : receiver'[r] = receiver[r] /\ Hand(r)' = Hand(r)
  <2>1. \A r \in Node \ {n} : receiver'[r] = receiver[r]
    BY DEF LooksAtQueue, IInvOver, Typed
  <2> QED BY <2>1, SameHand
<1>3. Hand(n) = {} /\ receiver[n].pc \notin {"insert", "ack"}
  BY HandOf DEF LooksAtQueue
<1>4. \/ receiver'[n].pc \notin {"insert", "ack"} /\ Hand(n)' = {}
      \/ /\ receiver'[n].pc = "insert" /\ receiver'[n].call = c /\ receiver'[n].queued = TRUE
         /\ Hand(n)' = {c} /\ c \in Queued(n)
  <2>1. CASE receiver' = [receiver EXCEPT ![n] = Idle]
    <3>1. receiver'[n] = Idle
      BY <2>1 DEF IInvOver, Typed
    <3> QED BY <3>1, HandOf
  <2>2. CASE receiver' = [receiver EXCEPT ![n] = Handling("insert", c, TRUE)] /\ c \in Queued(n)
    <3>1. receiver'[n] = Handling("insert", c, TRUE)
      BY <2>2 DEF IInvOver, Typed
    <3>2. /\ receiver'[n].pc = "insert" /\ receiver'[n].call = c /\ receiver'[n].queued = TRUE
          /\ Hand(n)' = {c}
      BY <3>1 DEF Handling, Hand
    <3> QED BY <2>2, <3>2
  <2> QED BY <2>1, <2>2 DEF LooksAtQueue
<1> HIDE DEF c
<1>5. \A r \in Node : Queued(r)' \cup Hand(r)' = Queued(r) \cup Hand(r)
  BY <1>1, <1>2, <1>3, <1>4
<1>6. \A r \in Node : \A x \in Queued(r)' : x \in Queued(r)
  BY <1>1
<1>7. OwnNumbers'
  BY <1>1 DEF CallParts, OwnNumbers
<1>8. Origins(D)'
  <2>1. \A r \in Node : \A x \in Executed(r) \cup Queued(r) \cup Hand(r) : x.node_id \in Node
    BY SetTypes DEF IInvOver, Call
  <2>2. \A r \in Node : /\ Executed(r)' \cup Queued(r)' \cup Hand(r)'
                             = Executed(r) \cup Queued(r) \cup Hand(r)
                        /\ Executed(r)' = Executed(r)
    BY <1>1, <1>5
  <2> QED BY <1>5, <2>1, <2>2 DEF CallParts, Origins
<1>9. HandledOnce'
  <2> SUFFICES ASSUME NEW r \in Node
               PROVE  /\ \A x \in Queued(r)' : x \in Executed(r)' =>
                            /\ receiver'[r].pc = "ack" /\ receiver'[r].queued
                            /\ receiver'[r].call = x
                      /\ receiver'[r].pc = "insert" => receiver'[r].call \notin Executed(r)'
                      /\ receiver'[r].pc = "ack" => receiver'[r].call \in Executed(r)'
                      /\ receiver'[r].pc \in {"insert", "ack"} =>
                           IF receiver'[r].queued THEN receiver'[r].call = Top(priorityQueue'[r])
                                                  ELSE receiver'[r].call \notin Queued(r)'
    BY DEF HandledOnce
  <2>1. CASE r = n
    <3>1. \A x \in Queued(n) : x \notin Executed(n)
      BY <1>3 DEF CallParts, HandledOnce
    <3>2. c = Top(priorityQueue'[n])
      BY <1>1 DEF c
    <3> QED BY <1>1, <1>4, <2>1, <3>1, <3>2
  <2>2. CASE r # n
    BY <1>1, <1>2, <2>2 DEF CallParts, HandledOnce
  <2> QED BY <2>1, <2>2
<1>10. CallsUnderway(D)'
  <2>1. \A r \in Node : Executed(r)' \cup Queued(r)' \cup Hand(r)'
                             = Executed(r) \cup Queued(r) \cup Hand(r)
    BY <1>1, <1>5
  <2> QED BY <1>1, <2>1 DEF CallParts, CallsUnderway
<1>11. NothingLost(D)'
  <2>1. \A r \in Node : Executed(r)' \cup Queued(r)' \cup Hand(r)'
                             = Executed(r) \cup Queued(r) \cup Hand(r)
    BY <1>1, <1>5
  <2> QED BY <1>1, <2>1 DEF CallParts, NothingLost
<1> QED BY <1>7, <1>8, <1>9, <1>10, <1>11 DEF CallParts

(* Nothing happens to the calls, although messages that are not calls may move. *)
SparesCalls ==
  /\ UNCHANGED <<it, priorityQueue, executionList>>
  /\ \A m, r \in Node : \A x : x.kind = "Call" => (x \in Sent(m, r)' <=> x \in Sent(m, r))
  /\ \A r \in Node : \/ receiver'[r] = receiver[r]
                     \/ receiver'[r] \in {Idle, Drain} /\ receiver[r] \in {Idle, Drain}

(* Such a step does not change where the calls are. *)
LEMMA SparesCallsKeeps ==
  ASSUME NEW M, Carries(M), IInvOver(M), NEW D, CallParts(D), SparesCalls
  PROVE  CallParts(D)'
<1>1. /\ it' = it /\ priorityQueue' = priorityQueue
      /\ \A m \in Node : /\ Executed(m)' = Executed(m) /\ Queued(m)' = Queued(m)
  BY DEF SparesCalls, Executed, Queued
<1>2. \A m, r \in Node : \A x : x.kind = "Call" => (x \in Sent(m, r)' <=> x \in Sent(m, r))
  BY DEF SparesCalls
<1>3. \A r \in Node : /\ Hand(r)' = Hand(r)
                      /\ \/ receiver'[r] = receiver[r]
                         \/ receiver'[r].pc \notin {"insert", "ack"} /\ receiver[r].pc \notin {"insert", "ack"}
  BY HandOf, SameHand DEF SparesCalls
<1>4. OwnNumbers'
  BY <1>1 DEF CallParts, OwnNumbers
<1>5. Origins(D)'
  <2>1. \A r \in Node : \A x \in Executed(r) \cup Queued(r) \cup Hand(r) : x.node_id \in Node
    BY SetTypes DEF IInvOver, Call
  <2> QED BY <1>1, <1>3, <2>1 DEF CallParts, Origins
<1>6. HandledOnce'
  BY <1>1, <1>3 DEF CallParts, HandledOnce
<1>7. CallsUnderway(D)'
  BY <1>1, <1>2, <1>3 DEF CallParts, CallsUnderway
<1>8. NothingLost(D)'
  <2>1. \A c : CallMessage(c).kind = "Call"
    BY Messages
  <2> QED BY <1>1, <1>2, <1>3, <2>1 DEF CallParts, NothingLost
<1> QED BY <1>4, <1>5, <1>6, <1>7, <1>8 DEF CallParts

(* An acknowledgement on its way does not change where the calls are. *)
LEMMA AckStepsCalls ==
  ASSUME NEW M, Carries(M), IInvOver(M), NEW D, CallParts(D), NEW n \in Node, NEW a \in CallId,
         SendsAck(n, a) \/ \E m \in Node : Counts(n, m, a)
  PROVE  CallParts(D)'
<1>1. UNCHANGED <<it, priorityQueue, executionList>>
  BY DEF SendsAck, Counts
<1>2. \A m, r \in Node : \A x : x.kind = "Call" => (x \in Sent(m, r)' <=> x \in Sent(m, r))
  <2>1. AckMessage(a).kind # "Call"
    BY Messages
  <2> QED BY <2>1 DEF SendsAck, Counts
<1>3. \A r \in Node : \/ receiver'[r] = receiver[r]
                      \/ receiver'[r] \in {Idle, Drain} /\ receiver[r] \in {Idle, Drain}
  <2>1. CASE SendsAck(n, a)
    BY <2>1 DEF SendsAck
  <2>2. CASE \E m \in Node : Counts(n, m, a)
    <3>1. receiver[n] \in {Idle, Drain} /\ receiver'[n] \in {Idle, Drain}
      BY <2>2 DEF Counts, IInvOver, Typed
    <3>2. \A r \in Node \ {n} : receiver'[r] = receiver[r]
      BY <2>2 DEF Counts, IInvOver, Typed
    <3> QED BY <3>1, <3>2
  <2> QED BY <2>1, <2>2
<1>4. SparesCalls
  BY <1>1, <1>2, <1>3 DEF SparesCalls
<1> QED BY <1>4, SparesCallsKeeps

-----------------------------------------------------------------------------
(* No acknowledgement is sent or counted twice.                            *)

(* What a count is made of depends on who executed, recorded and sent what. *)
LEMMA SameCounts ==
  ASSUME AckInv, acks' = acks,
         \A n, m \in Node : \A a \in CallId :
           m \in Counted(n, a)' <=> m \in Counted(n, a)
  PROVE  AcksCounted'
<1>1. ASSUME NEW n \in Node, NEW a \in CallId PROVE Counted(n, a)' = Counted(n, a)
  <2>1. Counted(n, a) \subseteq Node /\ Counted(n, a)' \subseteq Node
    BY DEF Counted
  <2> QED BY <2>1
<1> QED BY <1>1 DEF AckInv, AcksCounted

(* A sent acknowledgement was unsent before: it is counted neither way. *)
LEMMA SendsAckAcks ==
  ASSUME AckInv, NEW n \in Node, NEW a \in CallId, SendsAck(n, a), AcksOnce'
  PROVE  AckInv'
<1>1. /\ acks' = acks
      /\ \A m \in Node : IdsExecuted(m)' = IdsExecuted(m)
      /\ \A m \in Node : \A b : Recording(m, b)' <=> Recording(m, b)
  BY DEF SendsAck, IdsExecuted, Executed, Recording
<1>2. /\ a \in Unsent(n)
      /\ \A m, r \in Node :
           /\ Unsent(m)' = IF m = n THEN Unsent(m) \ {a} ELSE Unsent(m)
           /\ Sent(m, r)' = IF m = n /\ r # n THEN Sent(m, r) \cup {AckMessage(a)} ELSE Sent(m, r)
  BY DEF SendsAck
<1>3. a \in IdsExecuted(n) /\ a.node_id # n /\ ~Recording(n, a)
  BY <1>2 DEF AckInv, AcksUnderway
<1>4. AcksUnderway'
  <2>1. ASSUME NEW m \in Node, NEW b \in Unsent(m)'
        PROVE  b \in IdsExecuted(m)' /\ b.node_id # m /\ ~Recording(m, b)'
    BY <1>1, <1>2 DEF AckInv, AcksUnderway
  <2>2. ASSUME NEW m \in Node, NEW r \in Node, NEW x \in Sent(m, r)', x.kind = "Ack"
        PROVE  /\ m # r /\ x.ack \in IdsExecuted(m)' /\ x.ack.node_id # m
               /\ ~Recording(m, x.ack)' /\ x.ack \notin Unsent(m)'
    <3>1. CASE x \in Sent(m, r)
      BY <1>1, <1>2, <2>2, <3>1 DEF AckInv, AcksUnderway
    <3>2. CASE x = AckMessage(a) /\ m = n /\ r # n
      BY <1>1, <1>2, <1>3, <3>2, Messages
    <3> QED BY <1>2, <3>1, <3>2
  <2> QED BY <2>1, <2>2 DEF AcksUnderway
<1>5. ASSUME NEW r \in Node, NEW m \in Node, NEW b \in CallId
      PROVE  m \in Counted(r, b)' <=> m \in Counted(r, b)
  <2>1. AckMessage(b) = AckMessage(a) => b = a
    BY Messages
  <2>2. CASE m = n /\ b = a
    BY <1>1, <1>2, <2>2 DEF Counted
  <2>3. CASE ~(m = n /\ b = a)
    BY <1>1, <1>2, <2>1, <2>3 DEF Counted
  <2> QED BY <2>2, <2>3
<1>6. AcksCounted'
  BY <1>1, <1>5, SameCounts
<1> QED BY <1>4, <1>6 DEF AckInv

(* A new call has no acknowledgements: its issuer does not send any. *)
LEMMA IssuesAcks ==
  ASSUME AckInv, NEW n \in Node, NEW c \in Call, Issues(n, c), AcksOnce'
  PROVE  AckInv'
<1>1. /\ acks' = acks
      /\ \A m \in Node : IdsExecuted(m) \subseteq IdsExecuted(m)'
      /\ \A m \in Node : \A b : b.node_id # m /\ b \in IdsExecuted(m)' => b \in IdsExecuted(m)
  BY DEF Issues, IdsExecuted, IdOf
<1>2. \A m \in Node : /\ Unsent(m)' = Unsent(m)
                      /\ \A b : Recording(m, b)' <=> Recording(m, b)
  BY DEF Issues, Unsent, Recording
<1>3. \A m, r \in Node : \A x : x.kind = "Ack" => (x \in Sent(m, r)' <=> x \in Sent(m, r))
  <2>1. CallMessage(c).kind # "Ack"
    BY Messages
  <2> QED BY <2>1 DEF Issues
<1>4. AcksUnderway'
  BY <1>1, <1>2, <1>3 DEF AckInv, AcksUnderway
<1>5. ASSUME NEW r \in Node, NEW m \in Node, NEW b \in CallId
      PROVE  m \in Counted(r, b)' <=> m \in Counted(r, b)
  <2>1. AckMessage(b).kind = "Ack"
    BY Messages
  <2> QED BY <1>1, <1>2, <1>3, <2>1 DEF Counted
<1>6. AcksCounted'
  BY <1>1, <1>5, SameCounts
<1> QED BY <1>4, <1>6 DEF AckInv

(* Steps that change neither lists nor acknowledgements nor their channels. *)
LEMMA OtherStepsAcks ==
  ASSUME IInv, AckInv, NEW n \in Node,
         LooksAtQueue(n) \/ \E m \in Node, c \in Call : Arrives(n, m, c), AcksOnce'
  PROVE  AckInv'
<1>1. /\ acks' = acks
      /\ \A m \in Node : IdsExecuted(m)' = IdsExecuted(m) /\ Unsent(m)' = Unsent(m)
  BY DEF LooksAtQueue, Arrives, IdsExecuted, Executed, Unsent
<1>2. \A m, r \in Node : \A x : x.kind = "Ack" => (x \in Sent(m, r)' <=> x \in Sent(m, r))
  <2>1. CASE LooksAtQueue(n)
    BY <2>1 DEF LooksAtQueue, Sent
  <2>2. CASE \E m \in Node, c \in Call : Arrives(n, m, c)
    BY <2>2, Messages DEF Arrives
  <2> QED BY <2>1, <2>2
<1>3. \A m \in Node : \A b : Recording(m, b)' <=> Recording(m, b)
  <2>1. receiver[n].pc # "ack"
    <3>1. receiver[n] \in {Idle, Drain}
      BY DEF LooksAtQueue, Arrives
    <3> QED BY <3>1 DEF Idle, Drain
  <2>3. receiver'[n].pc # "ack"
    <3>1. CASE receiver' = [receiver EXCEPT ![n] = Idle] \/ receiver' = [receiver EXCEPT ![n] = Drain]
      BY <3>1 DEF IInv, TypeOK, Idle, Drain
    <3>2. ASSUME NEW c, NEW b, receiver' = [receiver EXCEPT ![n] = Handling("insert", c, b)]
          PROVE  receiver'[n].pc # "ack"
      <4>1. receiver'[n] = Handling("insert", c, b)
        BY <3>2 DEF IInv, TypeOK
      <4> QED BY <4>1 DEF Handling
    <3>3. CASE LooksAtQueue(n)
      BY <3>1, <3>2, <3>3 DEF LooksAtQueue
    <3>4. CASE \E m \in Node, c \in Call : Arrives(n, m, c)
      BY <3>1, <3>2, <3>4 DEF Arrives
    <3> QED BY <3>3, <3>4
  <2>2. \A m \in Node \ {n} : receiver'[m] = receiver[m]
    BY DEF LooksAtQueue, Arrives, IInv, TypeOK
  <2> QED BY <2>1, <2>2, <2>3 DEF Recording
<1>4. AcksUnderway'
  BY <1>1, <1>2, <1>3 DEF AckInv, AcksUnderway
<1>5. ASSUME NEW r \in Node, NEW m \in Node, NEW b \in CallId
      PROVE  m \in Counted(r, b)' <=> m \in Counted(r, b)
  <2>1. AckMessage(b).kind = "Ack"
    BY Messages
  <2> QED BY <1>1, <1>2, <1>3, <2>1 DEF Counted
<1>6. AcksCounted'
  BY <1>1, <1>5, SameCounts
<1> QED BY <1>4, <1>6 DEF AckInv

(* An executed call that is not recorded yet counts as not executed. *)
LEMMA PerformsAcks ==
  ASSUME IInv, CallParts({}), AckInv, NEW n \in Node, NEW c \in Call, Performs(n, c), AcksOnce'
  PROVE  AckInv'
<1> DEFINE a == IdOf(c)
<1>1. acks' = acks /\ \A m, r \in Node : Unsent(m)' = Unsent(m) /\ Sent(m, r)' = Sent(m, r)
  BY DEF Performs, Unsent, Sent
<1>2. \A m \in Node : IdsExecuted(m)' = IF m = n THEN IdsExecuted(m) \cup {a} ELSE IdsExecuted(m)
  <2>1. ASSUME NEW m \in Node
        PROVE  IdsExecuted(m)' = IF m = n THEN IdsExecuted(m) \cup {a} ELSE IdsExecuted(m)
    <3>1. Executed(m)' = IF m = n THEN Executed(m) \cup {c} ELSE Executed(m)
      BY DEF Performs
    <3> QED BY <3>1 DEF IdsExecuted
  <2> QED BY <2>1
<1>3. a \notin IdsExecuted(n)
  <2>1. c \in Hand(n) /\ c \notin Executed(n)
    BY DEF Performs, Hand
  <2>2. c \in Executed(c.node_id)
    BY <2>1 DEF CallParts, Origins
  <2> QED BY <2>1, <2>2, NotExecutedById DEF CallParts, IInv
<1>4. \A m \in Node : \A b : Recording(m, b)' <=> (Recording(m, b) \/ (m = n /\ b = a))
  <2>1. \A b : ~Recording(n, b) /\ (Recording(n, b)' <=> b = a)
    BY DEF Performs, Recording
  <2>2. \A m \in Node \ {n} : \A b : Recording(m, b)' <=> Recording(m, b)
    BY DEF Performs, Recording
  <2> QED BY <2>1, <2>2 DEF Recording
<1> HIDE DEF a
<1>5. AcksUnderway'
  <2>1. ASSUME NEW m \in Node, NEW b, b \in IdsExecuted(m), ~Recording(m, b)
        PROVE  b \in IdsExecuted(m)' /\ ~Recording(m, b)'
    BY <1>2, <1>3, <1>4, <2>1
  <2> QED BY <1>1, <2>1 DEF AckInv, AcksUnderway
<1>6. ASSUME NEW r \in Node, NEW m \in Node, NEW b \in CallId
      PROVE  m \in Counted(r, b)' <=> m \in Counted(r, b)
  <2>1. CASE m = n /\ b = a
    BY <1>3, <1>4, <2>1 DEF Counted
  <2>2. CASE ~(m = n /\ b = a)
    <3>1. /\ b \in IdsExecuted(m)' <=> b \in IdsExecuted(m)
          /\ Recording(m, b)' <=> Recording(m, b)
      <4>1. CASE m = n
        BY <1>2, <1>4, <2>2, <4>1 DEF Recording
      <4>2. CASE m # n
        BY <1>2, <1>4, <2>2, <4>2 DEF Recording
      <4> QED BY <4>1, <4>2
    <3> QED BY <1>1, <3>1 DEF Counted
  <2> QED BY <2>1, <2>2
<1>7. AcksCounted'
  BY <1>1, <1>6, SameCounts
<1> QED BY <1>5, <1>7 DEF AckInv

(* Recording a call makes its acknowledgement an unsent one. *)
LEMMA RecordsAcks ==
  ASSUME IInv, CallParts({}), AckInv, NEW n \in Node, NEW c \in Call, Records(n, c), AcksOnce'
  PROVE  AckInv'
<1> DEFINE a == IdOf(c)
<1>1. /\ acks' = acks
      /\ \A m, r \in Node : /\ IdsExecuted(m)' = IdsExecuted(m) /\ Sent(m, r)' = Sent(m, r)
                            /\ Unsent(m)' = IF m = n THEN Unsent(m) \cup {a} ELSE Unsent(m)
  BY DEF Records, IdsExecuted, Executed, Sent
<1>2. \A m \in Node : \A b : Recording(m, b)' <=> Recording(m, b) /\ ~(m = n /\ b = a)
  <2>1. receiver'[n].pc # "ack"
    BY DEF Records, Idle, Drain
  <2> QED BY <2>1 DEF Records, Recording
<1>3. Recording(n, a)
  BY DEF Records, Recording
<1>4. a \in IdsExecuted(n) /\ a.node_id # n
  <2>1. c \in Executed(n) /\ c \in Hand(n)
    BY DEF Records, Hand, CallParts, HandledOnce
  <2> QED BY <2>1 DEF IdsExecuted, IdOf, CallParts, Origins
<1>5. \A r \in Node : AckMessage(a) \notin Sent(n, r)
  BY <1>3, Messages DEF AckInv, AcksUnderway
<1>6. AcksUnderway'
  <2> HIDE DEF a
  <2>1. ASSUME NEW m \in Node, NEW b \in Unsent(m)'
        PROVE  b \in IdsExecuted(m)' /\ b.node_id # m /\ ~Recording(m, b)'
    BY <1>1, <1>2, <1>4 DEF AckInv, AcksUnderway
  <2>2. ASSUME NEW m \in Node, NEW r \in Node, NEW x \in Sent(m, r)', x.kind = "Ack"
        PROVE  /\ m # r /\ x.ack \in IdsExecuted(m)' /\ x.ack.node_id # m
               /\ ~Recording(m, x.ack)' /\ x.ack \notin Unsent(m)'
    <3>1. /\ m # r /\ x.ack \in IdsExecuted(m) /\ x.ack.node_id # m
          /\ ~Recording(m, x.ack) /\ x.ack \notin Unsent(m)
      BY <1>1, <2>2 DEF AckInv, AcksUnderway
    <3>2. ~(m = n /\ x.ack = a)
      BY <1>3, <3>1
    <3> QED BY <1>1, <1>2, <3>1, <3>2
  <2> QED BY <2>1, <2>2 DEF AcksUnderway
<1> HIDE DEF a
<1>7. ASSUME NEW r \in Node, NEW m \in Node, NEW b \in CallId
      PROVE  m \in Counted(r, b)' <=> m \in Counted(r, b)
  <2>1. CASE m = n /\ b = a
    BY <1>1, <1>3, <2>1 DEF Counted
  <2>2. CASE ~(m = n /\ b = a)
    BY <1>1, <1>2, <2>2 DEF Counted
  <2> QED BY <2>1, <2>2
<1>8. AcksCounted'
  BY <1>1, <1>7, SameCounts
<1> QED BY <1>6, <1>8 DEF AckInv

(* The sets of nodes that are counted are finite. *)
LEMMA CountedFinite ==
  ASSUME NEW n \in Node, NEW a
  PROVE  IsFiniteSet(Counted(n, a)) /\ Cardinality(Counted(n, a)) \in Nat
<1>1. 1 \in Int /\ N \in Int
  BY NAssumption
<1>2. IsFiniteSet(Node)
  BY <1>1, FS_Interval DEF Node
<1>3. Counted(n, a) \subseteq Node
  BY DEF Counted
<1>4. IsFiniteSet(Counted(n, a))
  BY <1>2, <1>3, FS_Subset
<1> QED BY <1>4, FS_CardinalityType

(* An acknowledgement that is received is counted for one node more. *)
LEMMA CountsAcks ==
  ASSUME IInv, AckInv, NEW n \in Node, NEW m \in Node, NEW a \in CallId, Counts(n, m, a), AcksOnce'
  PROVE  AckInv'
<1>1. /\ \A k \in Node : /\ IdsExecuted(k)' = IdsExecuted(k) /\ Unsent(k)' = Unsent(k)
      /\ \A k, r \in Node :
           Sent(k, r)' = IF k = m /\ r = n THEN Sent(k, r) \ {AckMessage(a)} ELSE Sent(k, r)
      /\ AckMessage(a) \in Sent(m, n)
  BY DEF Counts, IdsExecuted, Executed, Unsent
<1>2. \A k \in Node : \A b : Recording(k, b)' <=> Recording(k, b)
  <2>1. receiver[n].pc # "ack" /\ receiver'[n].pc # "ack"
    BY DEF Counts, IInv, TypeOK, Idle, Drain
  <2>2. \A k \in Node \ {n} : receiver'[k] = receiver[k]
    BY DEF Counts, IInv, TypeOK
  <2> QED BY <2>1, <2>2 DEF Recording
<1>3. /\ m # n /\ a \in IdsExecuted(m) /\ a.node_id # m
      /\ ~Recording(m, a) /\ a \notin Unsent(m)
  BY <1>1, Messages DEF AckInv, AcksUnderway
<1>4. AcksUnderway'
  BY <1>1, <1>2 DEF AckInv, AcksUnderway
<1>5. ASSUME NEW r \in Node, NEW b \in CallId
      PROVE  /\ acks[r][b.node_id][b.call_id] \in Nat
             /\ acks'[r][b.node_id][b.call_id] = IF r = n /\ b = a
                  THEN acks[r][b.node_id][b.call_id] + 1 ELSE acks[r][b.node_id][b.call_id]
  <2>1. /\ a.node_id \in Node /\ a.call_id \in 1..MaxCallId
        /\ b.node_id \in Node /\ b.call_id \in 1..MaxCallId
        /\ a = [node_id |-> a.node_id, call_id |-> a.call_id]
        /\ b = [node_id |-> b.node_id, call_id |-> b.call_id]
    BY DEF CallId
  <2>2. b = a <=> b.node_id = a.node_id /\ b.call_id = a.call_id
    BY <2>1
  <2> DEFINE i == a.node_id
             k == a.call_id
             j == b.node_id
             l == b.call_id
  <2>3. acks \in [Node -> [Node -> [1..MaxCallId -> Nat]]]
    BY DEF IInv, TypeOK
  <2>4. acks' = [acks EXCEPT ![n][i][k] = @ + 1]
    BY DEF Counts
  <2>5. /\ i \in Node /\ k \in 1..MaxCallId /\ j \in Node /\ l \in 1..MaxCallId
        /\ (b = a <=> j = i /\ l = k)
    BY <2>1, <2>2
  <2> HIDE DEF i, k, j, l
  <2>6. acks[r][j][l] \in Nat
    BY <2>3, <2>5, MaxCallIdAssumption
  <2>7. acks'[r] = IF r = n THEN [acks[n] EXCEPT ![i][k] = @ + 1] ELSE acks[r]
    BY <2>3, <2>4
  <2>8. acks'[r][j] = IF r = n /\ j = i THEN [acks[n][i] EXCEPT ![k] = @ + 1] ELSE acks[r][j]
    BY <2>3, <2>5, <2>7
  <2>9. acks'[r][j][l] = IF r = n /\ j = i /\ l = k THEN acks[r][j][l] + 1 ELSE acks[r][j][l]
    <3>1. acks[n][i] \in [1..MaxCallId -> Nat]
      BY <2>3, <2>5
    <3>2. CASE r = n /\ j = i
      <4>1. acks'[r][j] = [acks[n][i] EXCEPT ![k] = @ + 1]
        BY <2>8, <3>2
      <4>2. acks'[r][j][l] = IF l = k THEN acks[n][i][l] + 1 ELSE acks[n][i][l]
        BY <2>5, <3>1, <4>1
      <4> QED BY <3>2, <4>2
    <3>3. CASE ~(r = n /\ j = i)
      BY <2>8, <3>3
    <3> QED BY <3>2, <3>3
  <2> QED BY <2>5, <2>6, <2>9 DEF j, l
<1>6. ASSUME NEW r \in Node, NEW b \in CallId
      PROVE  acks'[r][b.node_id][b.call_id] = Cardinality(Counted(r, b)')
  <2>1. acks[r][b.node_id][b.call_id] = Cardinality(Counted(r, b))
    BY DEF AckInv, AcksCounted
  <2>2. CASE r = n /\ b = a
    <3>1. Counted(n, a)' = Counted(n, a) \cup {m}
      <4>1. ASSUME NEW k \in Node PROVE k \in Counted(n, a)' <=> k \in Counted(n, a) \/ k = m
        <5>1. CASE k = m
          BY <1>1, <1>2, <1>3, <5>1 DEF Counted
        <5>2. CASE k # m
          BY <1>1, <1>2, <5>2 DEF Counted
        <5> QED BY <5>1, <5>2
      <4>2. Counted(n, a) \subseteq Node /\ Counted(n, a)' \subseteq Node
        BY DEF Counted
      <4> QED BY <4>1, <4>2
    <3>2. m \notin Counted(n, a)
      BY <1>1 DEF Counted
    <3>3. Cardinality(Counted(n, a) \cup {m}) = Cardinality(Counted(n, a)) + 1
      BY <3>2, CountedFinite, FS_AddElement
    <3> QED BY <1>5, <2>1, <2>2, <3>1, <3>3
  <2>3. CASE ~(r = n /\ b = a)
    <3>1. Counted(r, b)' = Counted(r, b)
      <4>1. \A k \in Node : AckMessage(b) \in Sent(k, r)' <=> AckMessage(b) \in Sent(k, r)
        <5>1. AckMessage(b) = AckMessage(a) => b = a
          BY Messages
        <5> QED BY <1>1, <2>3, <5>1
      <4>2. \A k \in Node : k \in Counted(r, b)' <=> k \in Counted(r, b)
        BY <1>1, <1>2, <4>1 DEF Counted
      <4>3. Counted(r, b) \subseteq Node /\ Counted(r, b)' \subseteq Node
        BY DEF Counted
      <4> QED BY <4>2, <4>3
    <3> QED BY <1>5, <2>1, <2>3, <3>1
  <2> QED BY <2>2, <2>3
<1>7. AcksCounted'
  BY <1>6 DEF AcksCounted
<1> QED BY <1>4, <1>7 DEF AckInv

-----------------------------------------------------------------------------
(* The invariant holds.                                                    *)

StabilityInv == IInv /\ CallInv /\ AckInv

(* At first there are no calls and no acknowledgements. *)
LEMMA InitStability == Init => StabilityInv
<1> SUFFICES ASSUME Init PROVE CallInv /\ AckInv
  BY InitIInv DEF StabilityInv
<1>1. /\ \A n \in Node : /\ executionList[n] = <<>> /\ priorityQueue[n] = <<>>
                         /\ unsent_acks[n] = <<>> /\ receiver[n] = Idle
                         /\ \A m \in Node : net[m][n] = <<>>
      /\ acks = [n \in Node |-> [j \in Node |-> [k \in 1..MaxCallId |-> 0]]]
  BY DEF Init
<1>2. Range(<<>>) = {} /\ IsInjective(<<>>) /\ \A kind : OnceEach(<<>>, kind)
  BY DEF Range, IsInjective, OnceEach
<1>3. \A n \in Node : /\ Executed(n) = {} /\ Queued(n) = {} /\ Unsent(n) = {}
                      /\ \A m \in Node : Sent(m, n) = {}
  BY <1>1, <1>2 DEF Executed, Queued, Unsent, Sent
<1>4. \A n \in Node : Hand(n) = {} /\ receiver[n].pc \notin {"insert", "ack"}
  BY <1>1, HandOf
<1>5. CallsOnce /\ AcksOnce
  BY <1>1, <1>2 DEF CallsOnce, AcksOnce
<1>6. OwnNumbers /\ Origins({}) /\ CallsUnderway({}) /\ NothingLost({})
  BY <1>3, <1>4 DEF OwnNumbers, Origins, CallsUnderway, NothingLost
<1>7. HandledOnce
  BY <1>3, <1>4 DEF HandledOnce
<1>8. AcksUnderway
  BY <1>3 DEF AcksUnderway
<1>9. AcksCounted
  <2> SUFFICES ASSUME NEW n \in Node, NEW a \in CallId
               PROVE  acks[n][a.node_id][a.call_id] = Cardinality(Counted(n, a))
    BY DEF AcksCounted
  <2>1. Counted(n, a) = {}
    BY <1>3 DEF Counted, IdsExecuted
  <2>2. a.node_id \in Node /\ a.call_id \in 1..MaxCallId
    BY DEF CallId
  <2>3. acks[n][a.node_id][a.call_id] = 0
    BY <1>1, <2>2
  <2> QED BY <2>1, <2>3, FS_EmptySet
<1> QED BY <1>5, <1>6, <1>7, <1>8, <1>9 DEF CallInv, CallParts, AckInv

(* Steps of the main thread. *)
LEMMA MainStability ==
  ASSUME StabilityInv, NEW n \in Node, Main(n)
  PROVE  CallInv' /\ AckInv'
<1> USE DEF StabilityInv
<1>1. /\ Carries(Message) /\ IInvOver(Message) /\ CallsOnce /\ CallParts({})
      /\ n \in Node \ {}
  BY OnlyMessages DEF CallInv
<1>2. CASE SendAck(n)
  <2>1. PICK a \in CallId : SendsAck(n, a)
    BY <1>2, SendAckEffect
  <2>2. CallsOnce' /\ AckInv'
    BY <1>2, <2>1, SendAckEffect, SendsAckAcks
  <2>3. CallParts({})'
    BY <1>1, <2>1, AckStepsCalls
  <2> QED BY <2>2, <2>3 DEF CallInv
<1>3. CASE ExecuteLocal(n)
  <2>1. CallsOnce' /\ \E c \in Call : Issues(n, c)
    BY <1>1, <1>3, ExecuteLocalEffect
  <2>4. AcksOnce'
    BY <1>1, <1>3, ExecuteLocalEffect DEF AckInv
  <2>2. PICK c \in Call : Issues(n, c)
    BY <2>1
  <2>3. CallParts({})'
    BY <1>1, <2>2, IssuesCalls
  <2> QED BY <2>1, <2>2, <2>3, <2>4, IssuesAcks DEF CallInv
<1>4. CASE NoAckToSend(n) \/ RefuseLocal(n)
  <2>1. /\ UNCHANGED <<it, receiver, acks, priorityQueue, executionList, stable_index,
                       unsent_acks, net>>
        /\ CallsOnce' /\ AcksOnce'
    BY <1>1, <1>4, OtherMainEffect DEF AckInv
  <2>2. CallParts({})'
    <3>1. SparesCalls
      BY <2>1 DEF SparesCalls, Sent
    <3> QED BY <1>1, <3>1, SparesCallsKeeps
  <2>3. AcksUnderway' /\ AcksCounted'
    <3>1. \A m, r \in Node : \A a :
            /\ IdsExecuted(m)' = IdsExecuted(m) /\ Unsent(m)' = Unsent(m)
            /\ Sent(m, r)' = Sent(m, r) /\ (Recording(m, a)' <=> Recording(m, a))
      BY <2>1 DEF IdsExecuted, Executed, Unsent, Sent, Recording
    <3>2. \A r, m \in Node : \A a \in CallId : m \in Counted(r, a)' <=> m \in Counted(r, a)
      BY <3>1 DEF Counted
    <3>3. AcksCounted'
      BY <2>1, <3>2, SameCounts
    <3> QED BY <3>1, <3>3 DEF AckInv, AcksUnderway
  <2> QED BY <2>1, <2>2, <2>3 DEF CallInv, AckInv
<1> QED BY <1>2, <1>3, <1>4 DEF Main

(* Steps of the receiver thread. *)
LEMMA ReceiverStability ==
  ASSUME StabilityInv, NEW n \in Node, Receiver(n)
  PROVE  CallInv' /\ AckInv'
<1> USE DEF StabilityInv
<1>1. Carries(Message) /\ IInvOver(Message) /\ CallsOnce /\ CallParts({})
  BY OnlyMessages DEF CallInv
<1>2. ASSUME NEW m \in Node \ {n}, ReceiveCall(n, m) PROVE CallInv' /\ AckInv'
  <2>1. CallsOnce' /\ AcksOnce' /\ \E c \in Call : Arrives(n, m, c)
    BY <1>1, <1>2, ReceiveCallEffect DEF AckInv
  <2>2. PICK c \in Call : Arrives(n, m, c)
    BY <2>1
  <2>3. CallParts({})'
    BY <1>1, <2>2, ArrivesCalls
  <2> QED BY <2>1, <2>2, <2>3, OtherStepsAcks DEF CallInv
<1>3. ASSUME NEW m \in Node \ {n}, ReceiveAck(n, m) PROVE CallInv' /\ AckInv'
  <2>1. CallsOnce' /\ AcksOnce' /\ \E a \in CallId : Counts(n, m, a)
    BY <1>3, ReceiveAckEffect
  <2>2. PICK a \in CallId : Counts(n, m, a)
    BY <2>1
  <2>3. CallParts({})'
    BY <1>1, <2>2, AckStepsCalls
  <2> QED BY <2>1, <2>2, <2>3, CountsAcks DEF CallInv
<1>4. CASE ExecuteRemote(n)
  <2>1. CallsOnce' /\ AcksOnce' /\ \E c \in Call : Performs(n, c)
    BY <1>1, <1>4, ExecuteRemoteEffect DEF AckInv
  <2>2. PICK c \in Call : Performs(n, c)
    BY <2>1
  <2>3. CallParts({})'
    BY <1>1, <2>2, PerformsCalls
  <2> QED BY <1>1, <2>1, <2>2, <2>3, PerformsAcks DEF CallInv
<1>5. CASE RecordAck(n)
  <2>1. CallsOnce' /\ AcksOnce' /\ \E c \in Call : Records(n, c)
    BY <1>1, <1>5, RecordAckEffect DEF AckInv
  <2>2. PICK c \in Call : Records(n, c)
    BY <2>1
  <2>3. CallParts({})'
    BY <1>1, <2>2, RecordsCalls
  <2> QED BY <1>1, <2>1, <2>2, <2>3, RecordsAcks DEF CallInv
<1>6. CASE DrainQueue(n)
  <2>1. CallsOnce' /\ AcksOnce' /\ LooksAtQueue(n)
    BY <1>1, <1>6, DrainQueueEffect DEF AckInv
  <2>2. CallParts({})'
    BY <1>1, <2>1, LooksAtQueueCalls
  <2> QED BY <2>1, <2>2, OtherStepsAcks DEF CallInv
<1> QED BY <1>2, <1>3, <1>4, <1>5, <1>6 DEF Receiver, Receive

(* StabilityInv is an invariant. *)
LEMMA StabilityInvariance == Spec => []StabilityInv
<1>1. StabilityInv /\ [Next]_vars => StabilityInv'
  <2> SUFFICES ASSUME StabilityInv, [Next]_vars PROVE StabilityInv'
    OBVIOUS
  <2>1. IInv'
    BY NextIInv DEF StabilityInv
  <2>2. CASE Next
    BY <2>1, <2>2, MainStability, ReceiverStability DEF Next, StabilityInv
  <2>3. CASE UNCHANGED vars
    <3>1. UNCHANGED <<it, receiver, acks, priorityQueue, executionList, unsent_acks, net>>
      BY <2>3 DEF vars, mainVars, handlerVars, receiverVars
    <3>2. CallInv'
      BY <3>1 DEF StabilityInv, CallInv, CallsOnce, CallParts, OwnNumbers, Origins, HandledOnce,
         CallsUnderway, NothingLost, Executed, Queued, Hand, Sent
    <3>3. AckInv'
      BY <3>1 DEF StabilityInv, AckInv, AcksOnce, AcksUnderway, AcksCounted, Counted, IdsExecuted,
         Recording, Executed, Unsent, Sent
    <3> QED BY <2>1, <3>2, <3>3 DEF StabilityInv
  <2> QED BY <2>2, <2>3
<1> QED BY InitStability, <1>1, PTL DEF Spec

-----------------------------------------------------------------------------
(***************************************************************************)
(* Every acknowledgement is accounted for: what a node has counted for a   *)
(* call, with what is on its way, are the other nodes that have executed   *)
(* and recorded the call, and none is counted twice.                       *)
(***************************************************************************)
LEMMA CountsAreRight == StabilityInv => AcksAccountedFor
<1> SUFFICES ASSUME StabilityInv, NEW n \in Node, NEW c \in Issued
             PROVE  LET others == Node \ {n, c.node_id}
                        recorded == {m \in others :
                          /\ c \in Executed(m)
                          /\ ~(receiver[m].pc = "ack" /\ receiver[m].call = c)}
                        underway == {m \in others :
                          \/ IdOf(c) \in Range(unsent_acks[m])
                          \/ AckMessage(IdOf(c)) \in Range(net[m][n])}
                    IN /\ underway \subseteq recorded
                       /\ acks[n][c.node_id][c.call_id] = Cardinality(recorded \ underway)
  BY DEF AcksAccountedFor
<1> DEFINE a == IdOf(c)
           others == Node \ {n, c.node_id}
           recorded == {m \in others :
             c \in Executed(m) /\ ~(receiver[m].pc = "ack" /\ receiver[m].call = c)}
           underway == {m \in others : a \in Unsent(m) \/ AckMessage(a) \in Sent(m, n)}
<1>1. c \in Call /\ c \in Executed(c.node_id)
  BY SetTypesOfMessages DEF Issued, StabilityInv
<1>2. a \in CallId /\ a.node_id = c.node_id /\ a.call_id = c.call_id
  BY <1>1 DEF IdOf, Call, CallId
<1>3. \A m \in Node : c \in Executed(m) <=> a \in IdsExecuted(m)
  <2>1. \A m \in Node : c \notin Executed(m) => a \notin IdsExecuted(m)
    BY <1>1, NotExecutedById DEF StabilityInv, CallInv, CallParts
  <2> QED BY <2>1 DEF IdsExecuted
<1>4. \A m \in Node : (receiver[m].pc = "ack" /\ receiver[m].call = c) <=> Recording(m, a)
  <2> SUFFICES ASSUME NEW m \in Node, Recording(m, a) PROVE receiver[m].call = c
    BY DEF Recording
  <2> DEFINE d == receiver[m].call
  <2>1. d \in Hand(m) /\ IdOf(d) = IdOf(c)
    BY DEF Recording, Hand
  <2>2. d \in Call /\ d \in Executed(d.node_id)
    BY <2>1, SetTypesOfMessages DEF StabilityInv, CallInv, CallParts, Origins
  <2> HIDE DEF d
  <2>3. d = c
    BY <1>1, <2>1, <2>2, SameId DEF StabilityInv, CallInv, CallParts
  <2> QED BY <2>3 DEF d
<1>5. \A m \in others : a \in Unsent(m) \/ AckMessage(a) \in Sent(m, n) =>
                          a \in IdsExecuted(m) /\ ~Recording(m, a)
  BY Messages DEF StabilityInv, AckInv, AcksUnderway
<1>6. underway \subseteq recorded
  BY <1>3, <1>4, <1>5
<1>7. recorded \ underway = Counted(n, a)
  <2>1. \A m \in Node : m \in recorded \ underway <=> m \in Counted(n, a)
    BY <1>2, <1>3, <1>4 DEF Counted
  <2>2. Counted(n, a) \subseteq Node
    BY DEF Counted
  <2> QED BY <2>1, <2>2
<1>8. acks[n][c.node_id][c.call_id] = Cardinality(Counted(n, a))
  BY <1>2 DEF StabilityInv, AckInv, AcksCounted
<1>9. underway = {m \in others : a \in Range(unsent_acks[m]) \/ AckMessage(a) \in Range(net[m][n])}
  BY DEF Unsent, Sent
<1> QED BY <1>6, <1>7, <1>8, <1>9

(***************************************************************************)
(* Every acknowledgement is accounted for in every state (see              *)
(* AcksAccountedFor): updateAcksTable counts each other node that executed *)
(* the call once, and no node that did not.                                *)
(***************************************************************************)
THEOREM AcksAreCountedOnce == Spec => []AcksAccountedFor
BY StabilityInvariance, CountsAreRight, PTL

-----------------------------------------------------------------------------
(* An element occurs once in a list without repetitions. *)
LEMMA OccursOnce ==
  ASSUME NEW S, NEW s \in Seq(S), IsInjective(s), NEW e
  PROVE  Occurrences(s, e) = IF e \in Range(s) THEN 1 ELSE 0
<1>1. CASE e \in Range(s)
  <2>1. PICK i \in DOMAIN s : s[i] = e
    BY <1>1 DEF Range
  <2>2. {k \in DOMAIN s : s[k] = e} = {i}
    BY <2>1 DEF IsInjective
  <2> QED BY <1>1, <2>2, FS_Singleton DEF Occurrences
<1>2. CASE e \notin Range(s)
  <2>1. {k \in DOMAIN s : s[k] = e} = {}
    BY <1>2 DEF Range
  <2> QED BY <1>2, <2>1, FS_EmptySet DEF Occurrences
<1> QED BY <1>1, <1>2

(* The same of a kind of messages. *)
LEMMA OccursOnceOfKind ==
  ASSUME NEW S, NEW s \in Seq(S), NEW x, OnceEach(s, x.kind)
  PROVE  Occurrences(s, x) = IF x \in Range(s) THEN 1 ELSE 0
<1>1. CASE x \in Range(s)
  <2>1. PICK i \in DOMAIN s : s[i] = x
    BY <1>1 DEF Range
  <2>2. {k \in DOMAIN s : s[k] = x} = {i}
    BY <2>1 DEF OnceEach
  <2> QED BY <1>1, <2>2, FS_Singleton DEF Occurrences
<1>2. CASE x \notin Range(s)
  <2>1. {k \in DOMAIN s : s[k] = x} = {}
    BY <1>2 DEF Range
  <2> QED BY <1>2, <2>1, FS_EmptySet DEF Occurrences
<1> QED BY <1>1, <1>2

(* The places where a call can be, at one node. *)
LEMMA PlaceOfCall ==
  ASSUME NEW M, Carries(M), IInvOver(M), NEW D, CallsOnce, CallParts(D),
         NEW n \in Node, NEW c \in Issued, c.node_id \notin D
  PROVE  LET held == IF receiver[n].pc = "insert" /\ receiver[n].call = c
                        /\ ~receiver[n].queued THEN 1 ELSE 0
             beingPopped == IF receiver[n].pc = "ack" /\ receiver[n].queued
                               /\ receiver[n].call = c THEN 1 ELSE 0
         IN Occurrences(executionList[n], c) + Occurrences(priorityQueue[n], c) + held
              + Occurrences(net[c.node_id][n], CallMessage(c)) = 1 + beingPopped
<1> DEFINE inHand == receiver[n].pc = "insert" /\ receiver[n].call = c /\ ~receiver[n].queued
           popped == receiver[n].pc = "ack" /\ receiver[n].queued /\ receiver[n].call = c
           m == c.node_id
<1>1. c \in Call /\ c.node_id \in Node /\ c \in Executed(m)
  BY SetTypes DEF Issued, IInvOver, Call
<1>2. /\ Occurrences(executionList[n], c) = IF c \in Executed(n) THEN 1 ELSE 0
      /\ Occurrences(priorityQueue[n], c) = IF c \in Queued(n) THEN 1 ELSE 0
      /\ Occurrences(net[m][n], CallMessage(c)) = IF CallMessage(c) \in Sent(m, n) THEN 1 ELSE 0
  <2>1. /\ executionList[n] \in Seq(Call) /\ IsInjective(executionList[n])
        /\ priorityQueue[n] \in Seq(Call) /\ IsInjective(priorityQueue[n])
        /\ net[m][n] \in Seq(M) /\ OnceEach(net[m][n], CallMessage(c).kind)
    BY <1>1, Messages DEF IInvOver, Typed, CallsOnce
  <2> HIDE DEF m
  <2> QED BY <2>1, OccursOnce, OccursOnceOfKind DEF Executed, Queued, Sent
<1>3. \A d \in Queued(n) \cup Hand(n) : d.node_id # n
  BY DEF CallParts, Origins
<1>4. CallMessage(c) \in Sent(m, n) => m # n /\ c \notin Executed(n) \cup Queued(n) \cup Hand(n)
  BY <1>1, Messages DEF CallParts, CallsUnderway
<1>5. m # n => c \in Executed(n) \cup Queued(n) \cup Hand(n) \/ CallMessage(c) \in Sent(m, n)
  BY <1>1 DEF CallParts, NothingLost
<1>6. inHand => c \in Hand(n) /\ c \notin Executed(n) /\ c \notin Queued(n)
  BY DEF Hand, CallParts, HandledOnce
<1>7. popped => c \in Hand(n) /\ c \in Executed(n) /\ c \in Queued(n)
  <2> SUFFICES ASSUME popped PROVE c \in Hand(n) /\ c \in Executed(n) /\ c \in Queued(n)
    OBVIOUS
  <2>1. c \in Hand(n) /\ c \in Executed(n) /\ c = Top(priorityQueue[n])
    BY DEF Hand, CallParts, HandledOnce
  <2>2. priorityQueue[n] # <<>> /\ priorityQueue[n] \in Seq(Call)
    BY DEF IInvOver, Typed, QueueHasTop, UsesQueue
  <2>3. Top(priorityQueue[n]) \in Queued(n)
    BY <2>2 DEF Top, Queued, Range
  <2> QED BY <2>1, <2>3
<1>8. c \in Queued(n) /\ c \in Executed(n) => popped
  BY DEF CallParts, HandledOnce
<1>9. c \in Hand(n) /\ c \notin Executed(n) /\ c \notin Queued(n) => inHand
  <2> SUFFICES ASSUME c \in Hand(n), c \notin Executed(n), c \notin Queued(n) PROVE inHand
    OBVIOUS
  <2>1. receiver[n].pc = "insert" /\ receiver[n].call = c
    BY DEF Hand, CallParts, HandledOnce
  <2>2. receiver[n].queued => c = Top(priorityQueue[n])
    BY <2>1 DEF CallParts, HandledOnce
  <2>3. receiver[n].queued => c \in Queued(n)
    <3>1. receiver[n].queued => priorityQueue[n] # <<>> /\ priorityQueue[n] \in Seq(Call)
      BY <2>1 DEF IInvOver, Typed, QueueHasTop, UsesQueue
    <3> QED BY <2>2, <3>1 DEF Top, Queued, Range
  <2> QED BY <2>1, <2>3
<1>10. m = n => c \in Executed(n)
  BY <1>1
<1> HIDE DEF inHand, popped, m
<1>11. Occurrences(executionList[n], c) + Occurrences(priorityQueue[n], c)
         + (IF inHand THEN 1 ELSE 0) + Occurrences(net[m][n], CallMessage(c))
         = 1 + (IF popped THEN 1 ELSE 0)
  <2>1. CASE c \in Executed(n)
    <3>1. CallMessage(c) \notin Sent(m, n) /\ ~inHand /\ (c \in Queued(n) <=> popped)
      BY <2>1, <1>4, <1>6, <1>7, <1>8
    <3> QED BY <1>2, <2>1, <3>1
  <2>2. CASE c \notin Executed(n) /\ c \in Queued(n)
    <3>1. CallMessage(c) \notin Sent(m, n) /\ ~inHand /\ ~popped
      BY <2>2, <1>4, <1>6, <1>7
    <3> QED BY <1>2, <2>2, <3>1
  <2>3. CASE c \notin Executed(n) /\ c \notin Queued(n)
    <3>1. ~popped /\ (inHand <=> CallMessage(c) \notin Sent(m, n))
      BY <2>3, <1>4, <1>5, <1>6, <1>7, <1>9, <1>10
    <3> QED BY <1>2, <2>3, <3>1
  <2> QED BY <2>1, <2>2, <2>3
<1> QED BY <1>11 DEF inHand, popped, m

(***************************************************************************)
(* No call is lost or executed twice, whatever the threads and the         *)
(* connections do: at every node but its own a call is in one of the       *)
(* channel, the receiver's hands, the queue and the list (ExactlyOnce).    *)
(***************************************************************************)
THEOREM CallsAreHandledOnce == Spec => []ExactlyOnce
<1>1. StabilityInv => ExactlyOnce
  <2> SUFFICES ASSUME StabilityInv PROVE ExactlyOnce
    OBVIOUS
  <2>1. Carries(Message) /\ IInvOver(Message) /\ CallsOnce /\ CallParts({})
    BY OnlyMessages DEF StabilityInv, CallInv
  <2> QED BY <2>1, PlaceOfCall DEF ExactlyOnce
<1> QED BY <1>1, StabilityInvariance, PTL

-----------------------------------------------------------------------------
(***************************************************************************)
(* The stable calls have their acknowledgements, and counts never fall.    *)
(***************************************************************************)
StableAcked == \A n \in Node : \A k \in 1..stable_index[n] : Acked(n, acks[n], k)

(* stabilizerWithAck goes only as far as the acknowledgements reach. *)
LEMMA ReceiveAckStable ==
  ASSUME IInv, StableAcked, NEW n \in Node, NEW m \in Node, ReceiveAck(n, m)
  PROVE  StableAcked'
<1> DEFINE a == Head(net[m][n]).ack
           counts == [acks[n] EXCEPT ![a.node_id][a.call_id] = @ + 1]
           last == IF counts[a.node_id][a.call_id] >= Quorum(n, a.node_id)
                   THEN StableUpTo(n, counts) ELSE stable_index[n]
<1>1. /\ acks' = [acks EXCEPT ![n] = counts]
      /\ stable_index' = [stable_index EXCEPT ![n] = last]
      /\ executionList' = executionList
  BY DEF ReceiveAck
<1>2. /\ executionList[n] \in Seq(Call) /\ stable_index[n] \in Nat
      /\ stable_index[n] <= Len(executionList[n]) /\ Len(executionList[n]) \in Nat
      /\ acks[n] \in [Node -> [1..MaxCallId -> Nat]]
  BY DEF IInv, TypeOK, StableWithinList
<1>3. \A j \in Node, k \in 1..MaxCallId : acks[n][j][k] \in Nat /\ counts[j][k] >= acks[n][j][k]
  <2> SUFFICES ASSUME NEW j \in Node, NEW k \in 1..MaxCallId
               PROVE  acks[n][j][k] \in Nat /\ counts[j][k] >= acks[n][j][k]
    OBVIOUS
  <2> HIDE DEF a
  <2>1. acks[n][j] \in [1..MaxCallId -> Nat]
    BY <1>2
  <2>2. acks[n][j][k] \in Nat
    BY <2>1
  <2>3. CASE j = a.node_id
    <3>1. counts[j] = [acks[n][j] EXCEPT ![a.call_id] = @ + 1]
      BY <1>2, <2>3
    <3>2. CASE k = a.call_id
      BY <2>1, <2>2, <3>1, <3>2
    <3>3. CASE k # a.call_id
      BY <2>1, <2>2, <3>1, <3>3
    <3> QED BY <3>2, <3>3
  <2>4. CASE j # a.node_id
    BY <1>2, <2>2, <2>4
  <2> QED BY <2>3, <2>4
<1> HIDE DEF a, counts
<1>4. /\ last \in stable_index[n] .. Len(executionList[n])
      /\ \A k \in stable_index[n] + 1 .. last : Acked(n, counts, k)
  <2>1. CASE last = StableUpTo(n, counts)
    <3>1. /\ StableUpTo(n, counts) \in stable_index[n] .. Len(executionList[n])
          /\ \A k \in stable_index[n] + 1 .. StableUpTo(n, counts) : Acked(n, counts, k)
      BY <1>2, StableUpToProperties
    <3> QED BY <2>1, <3>1
  <2>2. CASE last = stable_index[n]
    BY <1>2, <2>2
  <2> QED BY <2>1, <2>2
<1> HIDE DEF last
<1>5. ASSUME NEW k \in 1..last PROVE Acked(n, counts, k)
  <2>1. CASE k \in 1..stable_index[n]
    <3>1. executionList[n][k] \in Call
      BY <1>2, <2>1
    <3>2. acks[n][executionList[n][k].node_id][executionList[n][k].call_id]
            >= Quorum(n, executionList[n][k].node_id)
      BY <2>1 DEF StableAcked, Acked
    <3>3. Quorum(n, executionList[n][k].node_id) \in Int
      BY NAssumption DEF Quorum
    <3>4. /\ executionList[n][k].node_id \in Node /\ executionList[n][k].call_id \in 1..MaxCallId
      BY <3>1 DEF Call
    <3>5. counts[executionList[n][k].node_id][executionList[n][k].call_id] \in Nat
      <4>1. acks' \in [Node -> [Node -> [1..MaxCallId -> Nat]]]
        BY ReceiveAckIInv, OnlyMessages DEF IInvOver, Typed
      <4>2. counts = acks'[n]
        BY <1>1 DEF IInv, TypeOK
      <4>3. counts[executionList[n][k].node_id] \in [1..MaxCallId -> Nat]
        BY <3>4, <4>1, <4>2
      <4> QED BY <3>4, <4>3
    <3> QED BY <1>3, <3>2, <3>3, <3>4, <3>5 DEF Acked
  <2>2. CASE k \in stable_index[n] + 1 .. last
    BY <1>4, <2>2
  <2> QED BY <1>2, <1>4, <2>1, <2>2
<1>6. ASSUME NEW r \in Node, NEW k \in 1..stable_index'[r] PROVE Acked(r, acks[r], k)'
  <2>1. CASE r = n
    <3>1. acks'[n] = counts /\ stable_index'[n] = last
      BY <1>1 DEF IInv, TypeOK
    <3> QED BY <1>1, <1>5, <2>1, <3>1 DEF Acked
  <2>2. CASE r # n
    <3>1. acks'[r] = acks[r] /\ stable_index'[r] = stable_index[r]
      BY <1>1, <2>2 DEF IInv, TypeOK
    <3> QED BY <1>1, <3>1 DEF Acked, StableAcked
  <2> QED BY <2>1, <2>2
<1> QED BY <1>6 DEF StableAcked

(* Every step of the system keeps StableAcked. *)
LEMMA StepKeepsStable ==
  ASSUME IInv, StableAcked, [Next]_vars
  PROVE  StableAcked'
<1>1. CASE stable_index' = stable_index /\ acks' = acks
  <2> SUFFICES ASSUME NEW n \in Node, NEW k \in 1..stable_index[n]
               PROVE  Acked(n, acks[n], k)'
    BY <1>1 DEF StableAcked
  <2>1. executionList'[n][k] = executionList[n][k]
    BY StepKeepsPrefix DEF PrefixKept
  <2> QED BY <1>1, <2>1 DEF StableAcked, Acked
<1>2. CASE \E n \in Node : \E m \in Node \ {n} : ReceiveAck(n, m)
  BY <1>2, ReceiveAckStable
<1>3. \/ stable_index' = stable_index /\ acks' = acks
      \/ \E n \in Node : \E m \in Node \ {n} : ReceiveAck(n, m)
  BY DEF Next, Main, Receiver, Receive, SendAck, NoAckToSend, ExecuteLocal, RefuseLocal,
     ReceiveCall, ExecuteRemote, RecordAck, DrainQueue, vars, handlerVars, receiverVars
<1> QED BY <1>1, <1>2, <1>3

(* A full count is the count of all others. *)
LEMMA FullCount ==
  ASSUME NEW n \in Node, NEW a, a.node_id \in Node,
         Cardinality(Counted(n, a)) >= Quorum(n, a.node_id)
  PROVE  Counted(n, a) = Node \ {n, a.node_id}
<1> DEFINE others == Node \ {n, a.node_id}
<1>1. IsFiniteSet(Node) /\ Cardinality(Node) = N
  BY NAssumption, FS_Interval DEF Node
<1>2. IsFiniteSet(Node \ {n}) /\ Cardinality(Node \ {n}) = N - 1
  BY <1>1, FS_RemoveElement
<1>3. IsFiniteSet(others) /\ Cardinality(others) = Quorum(n, a.node_id)
  <2>1. CASE a.node_id = n
    <3>1. others = Node \ {n}
      BY <2>1
    <3> QED BY <1>2, <2>1, <3>1 DEF Quorum
  <2>2. CASE a.node_id # n
    <3>1. others = (Node \ {n}) \ {a.node_id} /\ a.node_id \in Node \ {n}
      BY <2>2
    <3>2. /\ IsFiniteSet((Node \ {n}) \ {a.node_id})
          /\ Cardinality((Node \ {n}) \ {a.node_id}) = Cardinality(Node \ {n}) - 1
      BY <1>2, <3>1, FS_RemoveElement
    <3>3. Cardinality(others) = N - 2
      BY <1>2, <3>1, <3>2, NAssumption
    <3> QED BY <2>2, <3>1, <3>2, <3>3 DEF Quorum
  <2> QED BY <2>1, <2>2
<1>4. Counted(n, a) \in SUBSET others
  BY DEF Counted
<1> HIDE DEF others
<1>5. /\ Cardinality(Counted(n, a)) <= Cardinality(others)
      /\ Cardinality(others) = Cardinality(Counted(n, a)) => others = Counted(n, a)
  BY <1>3, <1>4, FS_Subset
<1>6. Cardinality(Counted(n, a)) \in Nat /\ Quorum(n, a.node_id) \in Int
  BY CountedFinite, NAssumption DEF Quorum
<1> QED BY <1>3, <1>5, <1>6 DEF others

(* A call with enough acknowledgements has been executed everywhere. *)
LEMMA AckedEverywhere ==
  ASSUME StabilityInv, NEW n \in Node, NEW k \in 1..Len(executionList[n]),
         Acked(n, acks[n], k), NEW m \in Node
  PROVE  executionList[n][k] \in Executed(m)
<1> DEFINE c == executionList[n][k]
           a == IdOf(c)
<1>1. c \in Call /\ c \in Executed(n)
  BY DEF StabilityInv, IInv, TypeOK, Executed, Range
<1>2. a \in CallId /\ a.node_id = c.node_id /\ a.call_id = c.call_id /\ c.node_id \in Node
  BY <1>1 DEF IdOf, Call, CallId
<1>3. c \in Executed(c.node_id)
  BY <1>1 DEF StabilityInv, CallInv, CallParts, Origins
<1>4. acks[n][a.node_id][a.call_id] >= Quorum(n, a.node_id)
  BY <1>2 DEF Acked
<1> HIDE DEF c, a
<1>5. Cardinality(Counted(n, a)) >= Quorum(n, a.node_id)
  BY <1>2, <1>4 DEF StabilityInv, AckInv, AcksCounted
<1>6. Counted(n, a) = Node \ {n, c.node_id}
  BY <1>2, <1>5, FullCount
<1>7. CASE m \in {n, c.node_id}
  BY <1>1, <1>3, <1>7 DEF c
<1>8. CASE m \notin {n, c.node_id}
  <2>1. a \in IdsExecuted(m)
    BY <1>6, <1>8 DEF Counted
  <2>2. c \in Executed(m)
    BY <1>1, <1>3, <2>1, NotExecutedById DEF StabilityInv, CallInv, CallParts, a
  <2> QED BY <2>2 DEF c
<1> QED BY <1>7, <1>8

(* Stable calls have enough acknowledgements, so all have executed them. *)
LEMMA StableEverywhere == StabilityInv /\ StableAcked => StableExecutedEverywhere
<1> SUFFICES ASSUME StabilityInv, StableAcked, NEW n \in Node, NEW m \in Node, NEW c \in Stable(n)
             PROVE  c \in Executed(m)
  BY DEF StableExecutedEverywhere
<1>1. /\ executionList[n] \in Seq(Call) /\ stable_index[n] \in Nat
      /\ stable_index[n] <= Len(executionList[n])
  BY DEF StabilityInv, IInv, TypeOK, StableWithinList
<1>2. PICK k \in 1..stable_index[n] : c = executionList[n][k]
  <2>1. /\ Len(StablePrefix(n)) = stable_index[n] /\ StablePrefix(n) \in Seq(Call)
        /\ \A k \in 1..stable_index[n] : StablePrefix(n)[k] = executionList[n][k]
    BY <1>1, SubSeqList DEF StablePrefix
  <2>2. DOMAIN StablePrefix(n) = 1..stable_index[n]
    BY <2>1
  <2> QED BY <2>1, <2>2 DEF Stable, Range
<1>3. k \in 1..Len(executionList[n]) /\ Acked(n, acks[n], k)
  BY <1>1 DEF StableAcked
<1> QED BY <1>2, <1>3, AckedEverywhere

(***************************************************************************)
(* A call that is stable at some node has been executed by every node:     *)
(* the quorums N - 1 and N - 2 of updateAcksTable are right for every      *)
(* number of nodes, although no node ever sees another node's list.        *)
(***************************************************************************)
THEOREM StableMeansEverywhere == Spec => []StableExecutedEverywhere
<1>1. Init => StableAcked
  BY DEF Init, StableAcked
<1>2. IInv /\ StableAcked /\ [Next]_vars => StableAcked'
  BY StepKeepsStable
<1>3. Spec => []StableAcked
  BY <1>1, <1>2, Invariance, PTL DEF Spec
<1> QED BY <1>3, StabilityInvariance, StableEverywhere, PTL

-----------------------------------------------------------------------------
(***************************************************************************)
(* The handlers, the threads and the connections implement uniform         *)
(* stability: initial states map to the initial state, every step maps to  *)
(* the execution of one call, to a stabilization or to a stutter.  This is *)
(* the refinement mapping of HamsouProperties.                             *)
(***************************************************************************)

ExecutedIds == [n \in Node |-> {IdOf(c) : c \in Executed(n)}]
StableLog == [n \in Node |-> [i \in 1..stable_index[n] |-> IdOf(executionList[n][i])]]

(* A step that adds one call at one node and no stable call is an Execute. *)
LEMMA ExecutesOne ==
  ASSUME NEW n \in Node, NEW c \in Call,
         \A m \in Node : Executed(m)' = IF m = n THEN Executed(m) \cup {c} ELSE Executed(m),
         IdOf(c) \notin IdsExecuted(n),
         c.node_id # n => IdOf(c) \in IdsExecuted(c.node_id),
         StableLog' = StableLog
  PROVE  Stability!Next
<1> DEFINE a == IdOf(c)
<1>1. a \in CallId /\ a.node_id = c.node_id /\ c.node_id \in Node
  BY DEF IdOf, Call, CallId
<1>2. \A m \in Node : ExecutedIds[m] = IdsExecuted(m)
  BY DEF ExecutedIds, IdsExecuted
<1>3. ExecutedIds' = [ExecutedIds EXCEPT ![n] = @ \cup {a}]
  <2>1. \A m \in Node : {IdOf(d) : d \in Executed(m)'}
          = IF m = n THEN {IdOf(d) : d \in Executed(m)} \cup {a} ELSE {IdOf(d) : d \in Executed(m)}
    <3> SUFFICES ASSUME NEW m \in Node
                 PROVE  {IdOf(d) : d \in Executed(m)'}
                          = IF m = n THEN {IdOf(d) : d \in Executed(m)} \cup {a}
                                     ELSE {IdOf(d) : d \in Executed(m)}
      OBVIOUS
    <3>1. CASE m = n
      BY <3>1
    <3>2. CASE m # n
      BY <3>2
    <3> QED BY <3>1, <3>2
  <2> HIDE DEF a
  <2> QED BY <2>1 DEF ExecutedIds
<1> HIDE DEF a
<1>4. a \in CallId \ ExecutedIds[n] /\ (a.node_id # n => a \in ExecutedIds[a.node_id])
  BY <1>1, <1>2 DEF a
<1>5. Stability!Execute(n)
  BY <1>3, <1>4 DEF Stability!Execute, ExecutedIds, StableLog
<1> QED BY <1>5 DEF Stability!Next

(* The log is kept by a step that keeps the stable index. *)
LEMMA LogKept ==
  ASSUME IInv, [Next]_vars, stable_index' = stable_index
  PROVE  StableLog' = StableLog
<1>1. ASSUME NEW n \in Node
      PROVE  [i \in 1..stable_index'[n] |-> IdOf(executionList'[n][i])]
               = [i \in 1..stable_index[n] |-> IdOf(executionList[n][i])]
  <2>1. \A i \in 1..stable_index[n] : executionList'[n][i] = executionList[n][i]
    BY StepKeepsPrefix DEF PrefixKept
  <2> QED BY <2>1
<1> QED BY <1>1 DEF StableLog

(* Nothing happens to the logs and the lists. *)
LEMMA NothingHappens ==
  ASSUME IInv, [Next]_vars, stable_index' = stable_index,
         \A n \in Node : Executed(n)' = Executed(n)
  PROVE  UNCHANGED Stability!vars
<1>1. StableLog' = StableLog
  BY LogKept
<1>2. ExecutedIds' = ExecutedIds
  BY DEF ExecutedIds
<1> QED BY <1>1, <1>2 DEF Stability!vars, ExecutedIds, StableLog

-----------------------------------------------------------------------------
(* The two steps that execute a call.                                      *)

(* localHandler executes a call of the node's own. *)
LEMMA ExecuteLocalRefines ==
  ASSUME StabilityInv, NEW n \in Node, ExecuteLocal(n)
  PROVE  Stability!Next
<1>1. PICK c \in Call : Issues(n, c)
  <2>1. Carries(Message) /\ IInvOver(Message) /\ CallsOnce /\ CallParts({}) /\ n \in Node \ {}
    BY OnlyMessages DEF StabilityInv, CallInv
  <2> QED BY <2>1, ExecuteLocalEffect
<1>2. IdOf(c) \notin IdsExecuted(n)
  <2> SUFFICES ASSUME NEW d \in Executed(n), IdOf(d) = IdOf(c) PROVE FALSE
    BY DEF IdsExecuted
  <2>1. d.node_id = n /\ d.call_id = it[n]
    BY <1>1 DEF IdOf, Issues
  <2>2. it[n] \in Nat /\ d.call_id < it[n]
    BY <2>1 DEF StabilityInv, IInv, TypeOK, CallInv, CallParts, OwnNumbers
  <2> QED BY <2>1, <2>2
<1>3. stable_index' = stable_index /\ Next
  BY <1>1 DEF Issues, Next, Main
<1>4. StableLog' = StableLog
  BY <1>3, LogKept DEF StabilityInv
<1> QED BY <1>1, <1>2, <1>4, ExecutesOne DEF Issues

(* remoteHandler executes a call that its issuer has executed. *)
LEMMA ExecuteRemoteRefines ==
  ASSUME StabilityInv, NEW n \in Node, ExecuteRemote(n)
  PROVE  Stability!Next
<1>1. PICK c \in Call : Performs(n, c)
  <2>1. Carries(Message) /\ IInvOver(Message) /\ CallsOnce /\ CallParts({})
    BY OnlyMessages DEF StabilityInv, CallInv
  <2> QED BY <2>1, ExecuteRemoteEffect
<1>2. c \in Executed(c.node_id) /\ c \notin Executed(n)
  <2>1. c \in Hand(n)
    BY <1>1 DEF Performs, Hand
  <2> QED BY <1>1, <2>1 DEF Performs, StabilityInv, CallInv, CallParts, Origins
<1>3. IdOf(c) \notin IdsExecuted(n)
  BY <1>2, NotExecutedById DEF StabilityInv, CallInv, CallParts
<1>4. IdOf(c) \in IdsExecuted(c.node_id)
  BY <1>2 DEF IdsExecuted
<1>5. stable_index' = stable_index /\ Next
  BY <1>1 DEF Performs, Next, Receiver
<1>6. StableLog' = StableLog
  BY <1>5, LogKept DEF StabilityInv
<1> QED BY <1>1, <1>3, <1>4, <1>6, ExecutesOne DEF Performs

(***************************************************************************)
(* stabilizerWithAck: the calls between the old and the new stable index   *)
(* are appended to the log.                                                *)
(***************************************************************************)
LEMMA ReceiveAckRefines ==
  ASSUME StabilityInv, StableExecutedEverywhere', IInv', NEW n \in Node,
         NEW m \in Node \ {n}, ReceiveAck(n, m)
  PROVE  Stability!Next
<1> DEFINE list == executionList[n]
           old == stable_index[n]
           new == stable_index'[n]
           log == [i \in 1..old |-> IdOf(list[i])]
           more == [i \in 1..new - old |-> IdOf(list[old + i])]
           rest == {c \in CallId : \A r \in Node : c \in ExecutedIds[r]} \ Range(log)
<1>1. executionList' = executionList /\ Next
  BY DEF ReceiveAck, Next, Receiver, Receive
<1>2. \A r \in Node \ {n} : stable_index'[r] = stable_index[r]
  <2>1. stable_index \in [Node -> Nat]
    BY DEF IInv, StabilityInv, TypeOK
  <2>2. PICK last : stable_index' = [stable_index EXCEPT ![n] = last]
    BY DEF ReceiveAck
  <2> QED BY <2>1, <2>2
<1>3. /\ list \in Seq(Call) /\ Len(list) \in Nat /\ old \in Nat /\ new \in Nat
      /\ old <= new /\ new <= Len(list)
  <2>1. executionList'[n] = list
    BY <1>1
  <2>2. old <= new
    BY ReceiveAckKeeps DEF PrefixKept, StabilityInv
  <2> QED BY <2>1, <2>2 DEF StabilityInv, IInv, TypeOK, StableWithinList
<1>4. \A i \in 1..Len(list) : list[i] \in Call /\ IdOf(list[i]) \in CallId
  <2> HIDE DEF list
  <2>1. \A i \in 1..Len(list) : list[i] \in Call
    BY <1>3
  <2>2. \A c \in Call : IdOf(c) \in CallId
    BY DEF IdOf, Call, CallId
  <2> QED BY <2>1, <2>2
<1>5. \A i, j \in 1..Len(list) : IdOf(list[i]) = IdOf(list[j]) => i = j
  <2> SUFFICES ASSUME NEW i \in 1..Len(list), NEW j \in 1..Len(list), IdOf(list[i]) = IdOf(list[j])
               PROVE  i = j
    OBVIOUS
  <2>1. list[i] \in Executed(n) /\ list[j] \in Executed(n)
    BY <1>3 DEF Executed, Range
  <2>2. /\ list[i] \in Call /\ list[i] \in Executed(list[i].node_id)
        /\ list[j] \in Call /\ list[j] \in Executed(list[j].node_id)
    BY <1>4, <2>1 DEF StabilityInv, CallInv, CallParts, Origins
  <2>3. list[i] = list[j]
    BY <2>2, SameId DEF StabilityInv, CallInv, CallParts
  <2>4. IsInjective(list) /\ DOMAIN list = 1..Len(list)
    BY <1>3 DEF StabilityInv, CallInv, CallsOnce
  <2> QED BY <2>3, <2>4 DEF IsInjective
<1>6. \A i \in 1..new : \A r \in Node : IdOf(list[i]) \in ExecutedIds[r]
  <2> SUFFICES ASSUME NEW i \in 1..new, NEW r \in Node PROVE IdOf(list[i]) \in ExecutedIds[r]
    OBVIOUS
  <2>1. list[i] \in Stable(n)'
    <3>1. StablePrefix(n)' = SubSeq(list, 1, new)
      BY <1>1 DEF StablePrefix
    <3> HIDE DEF list, new
    <3>2. SubSeq(list, 1, new) \in Seq(Call) /\ Len(SubSeq(list, 1, new)) = new
          /\ SubSeq(list, 1, new)[i] = list[i]
      BY <1>3, SubSeqList
    <3>3. i \in DOMAIN SubSeq(list, 1, new)
      BY <3>2
    <3> QED BY <3>1, <3>2, <3>3 DEF Stable, Range
  <2>2. list[i] \in Executed(r)'
    BY <2>1 DEF StableExecutedEverywhere
  <2>3. Executed(r)' = Executed(r)
    BY <1>1 DEF Executed
  <2> HIDE DEF list
  <2> QED BY <2>2, <2>3 DEF ExecutedIds
<1> HIDE DEF list, old, new
<1>7. log \in [1..old -> CallId] /\ log \in Seq(CallId) /\ Len(log) = old
  <2>1. log \in [1..old -> CallId]
    BY <1>3, <1>4
  <2> HIDE DEF log
  <2> QED BY <1>3, <2>1, FunctionIsList
<1>8. more \in [1..new - old -> rest]
  <2> SUFFICES ASSUME NEW i \in 1..new - old PROVE IdOf(list[old + i]) \in rest
    OBVIOUS
  <2>1. old + i \in 1..new /\ old + i \in 1..Len(list) /\ old + i \notin 1..old
    BY <1>3
  <2>2. IdOf(list[old + i]) \notin Range(log)
    <3> SUFFICES ASSUME NEW j \in 1..old, IdOf(list[old + i]) = IdOf(list[j]) PROVE FALSE
      BY DEF Range
    <3>1. j \in 1..Len(list)
      BY <1>3
    <3>2. j = old + i
      BY <1>5, <2>1, <3>1
    <3> QED BY <2>1, <3>2
  <2> QED BY <1>4, <1>6, <2>1, <2>2
<1>9. more \in SetToAllKPermutations(rest)
  <2>1. new - old \in Nat
    BY <1>3
  <2>2. ASSUME NEW i \in 1..new - old, NEW j \in 1..new - old, i # j PROVE more[i] # more[j]
    <3>1. old + i \in 1..Len(list) /\ old + j \in 1..Len(list) /\ old + i # old + j
      BY <1>3, <2>2
    <3> QED BY <1>5, <3>1
  <2> HIDE DEF more, rest
  <2> QED BY <1>8, <2>1, <2>2, ListIsPermutation
<1>10. more \in Seq(CallId) /\ Len(more) = new - old
  <2>1. new - old \in Nat /\ rest \subseteq CallId
    BY <1>3
  <2> HIDE DEF more, rest
  <2>2. more \in [1..new - old -> CallId]
    BY <1>8, <2>1
  <2> QED BY <2>1, <2>2, FunctionIsList
<1>11. [i \in 1..new |-> IdOf(list[i])] = log \o more
  <2> DEFINE all == [i \in 1..new |-> IdOf(list[i])]
  <2>1. all \in Seq(CallId) /\ Len(all) = new
    <3>1. all \in [1..new -> CallId]
      BY <1>3, <1>4
    <3> HIDE DEF all
    <3> QED BY <1>3, <3>1, FunctionIsList
  <2>2. /\ log \o more \in Seq(CallId) /\ Len(log \o more) = old + (new - old)
        /\ \A i \in 1..old + (new - old) :
             (log \o more)[i] = IF i <= old THEN log[i] ELSE more[i - old]
    <3> HIDE DEF log, more
    <3> QED BY <1>7, <1>10, ConcatProperties
  <2>3. ASSUME NEW i \in 1..new PROVE all[i] = (log \o more)[i]
    <3>1. i \in 1..old + (new - old) /\ (i > old => i - old \in 1..new - old /\ old + (i - old) = i)
      BY <1>3
    <3>2. (log \o more)[i] = IF i <= old THEN log[i] ELSE more[i - old]
      BY <2>2, <3>1
    <3>3. CASE i <= old
      BY <1>3, <3>2, <3>3
    <3>4. CASE i > old
      BY <1>3, <3>1, <3>2, <3>4
    <3> QED BY <1>3, <3>3, <3>4
  <2>4. Len(all) = Len(log \o more)
    BY <1>3, <2>1, <2>2
  <2> HIDE DEF all, log, more
  <2>5. all = log \o more
    BY <2>1, <2>2, <2>3, <2>4, SeqEqual
  <2> QED BY <2>5 DEF all
<1>12. StableLog[n] = log /\ StableLog'[n] = log \o more
  BY <1>1, <1>11 DEF StableLog, list, old, new
<1>13. StableLog' = [StableLog EXCEPT ![n] = @ \o more]
  <2>1. \A r \in Node \ {n} : StableLog'[r] = StableLog[r]
    BY <1>1, <1>2 DEF StableLog
  <2>2. DOMAIN StableLog = Node /\ StableLog' = [r \in Node |-> StableLog'[r]]
    BY DEF StableLog
  <2> HIDE DEF log, more
  <2> QED BY <1>12, <2>1, <2>2
<1>14. ExecutedIds' = ExecutedIds
  BY <1>1 DEF ExecutedIds, Executed
<1>15. rest = Stability!ExecutedEverywhere \ Range(StableLog[n])
  BY <1>12 DEF Stability!ExecutedEverywhere, ExecutedIds
<1>16. Stability!Stabilize(n)
  <2>1. \A f : Stability!Range(f) = Range(f)
    BY DEF Stability!Range, Range
  <2>2. \A S : Stability!SetToAllKPermutations(S) = SetToAllKPermutations(S)
    <3>1. \A S : Stability!Cardinality(S) = Cardinality(S)
      BY DEF Stability!Cardinality, Cardinality
    <3>2. \A S : Stability!SetToSeqs(S) = SetToSeqs(S)
      BY <3>1 DEF Stability!SetToSeqs, SetToSeqs
    <3> QED BY <3>2 DEF Stability!SetToAllKPermutations, SetToAllKPermutations
  <2> HIDE DEF rest, more, log
  <2>3. more \in Stability!SetToAllKPermutations(
                   Stability!ExecutedEverywhere \ Stability!Range(StableLog[n]))
    BY <1>9, <1>15, <2>1, <2>2
  <2> QED BY <1>13, <1>14, <2>3 DEF Stability!Stabilize, ExecutedIds, StableLog
<1> QED BY <1>16 DEF Stability!Next

-----------------------------------------------------------------------------
(* All steps. *)
LEMMA StepRefines ==
  ASSUME StabilityInv, StableExecutedEverywhere', IInv', [Next]_vars
  PROVE  [Stability!Next]_(Stability!vars)
<1>1. ASSUME NEW n \in Node, ExecuteLocal(n) PROVE Stability!Next
  BY <1>1, ExecuteLocalRefines
<1>2. ASSUME NEW n \in Node, ExecuteRemote(n) PROVE Stability!Next
  BY <1>2, ExecuteRemoteRefines
<1>3. ASSUME NEW n \in Node, NEW m \in Node \ {n}, ReceiveAck(n, m) PROVE Stability!Next
  BY <1>3, ReceiveAckRefines
<1>4. CASE executionList' = executionList /\ stable_index' = stable_index
  <2>1. \A n \in Node : Executed(n)' = Executed(n)
    BY <1>4 DEF Executed
  <2> QED BY <1>4, <2>1, NothingHappens DEF StabilityInv
<1>5. \/ \E n \in Node : ExecuteLocal(n) \/ ExecuteRemote(n)
      \/ \E n \in Node : \E m \in Node \ {n} : ReceiveAck(n, m)
      \/ executionList' = executionList /\ stable_index' = stable_index
  BY DEF Next, Main, Receiver, Receive, SendAck, NoAckToSend, RefuseLocal, ReceiveCall,
     RecordAck, DrainQueue, vars, handlerVars
<1> QED BY <1>1, <1>2, <1>3, <1>4, <1>5

(* The empty handlers are the empty logs. *)
LEMMA InitRefines == Init => Stability!Init
<1> SUFFICES ASSUME Init PROVE Stability!Init
  OBVIOUS
<1>1. \A n \in Node : executionList[n] = <<>> /\ stable_index[n] = 0
  BY DEF Init
<1>2. \A n \in Node : Executed(n) = {}
  BY <1>1 DEF Executed, Range
<1>3. \A n \in Node : [i \in 1..stable_index[n] |-> IdOf(executionList[n][i])] = <<>>
  BY <1>1
<1> QED BY <1>2, <1>3 DEF Stability!Init

(***************************************************************************)
(* Counting acknowledgements implements uniform stability: under the       *)
(* mapping of HamsouProperties a call becomes final at a node only after   *)
(* every node has executed it, and the final calls are only appended to.   *)
(***************************************************************************)
THEOREM CountingImplementsStability == Spec => ImplementsStability
<1>1. StabilityInv /\ StableExecutedEverywhere' /\ IInv' /\ [Next]_vars
        => [Stability!Next]_(Stability!vars)
  BY StepRefines
<1> QED BY <1>1, InitRefines, StabilityInvariance, StableMeansEverywhere, Invariance, PTL
        DEF Spec, ImplementsStability, Stability!Spec
=============================================================================
