---------------------------- MODULE EcrosProofs -----------------------------
(***************************************************************************)
(* Proofs about the ECROS protocol, for every number of nodes, every       *)
(* workload and every one of its five objects: the nodes build the same    *)
(* graph of calls, a call is committed only when every node has it, and    *)
(* calls that commute leave the same object at every node.                 *)
(***************************************************************************)
EXTENDS EcrosProperties, ListLemmas

-----------------------------------------------------------------------------
(* Type correctness, without the object: no guard of the graph reads it.   *)

Message == [kind : {"Call"}, call : Call] \cup [kind : {"Ack"}, ack : CallId]

TypeInv ==
  /\ workload \in Workloads
  /\ it \in [Node -> 1..(MaxCallId + 1)]
  /\ turn \in [Node -> {"ack", "call", "run", "last"}]
  /\ \A n \in Node : turn[n] = "run" => HasCall(n)
  /\ vc \in [Node -> Clock]
  /\ calls \in [Node -> SUBSET Call]
  /\ edges \in [Node -> SUBSET (Call \X Call)]
  /\ ackCounts \in [Node -> [CallId -> Nat]]
  /\ committed \in [Node -> Seq(CallId)]
  /\ unsent_acks \in [Node -> Seq(CallId)]
  /\ net \in [Node -> [Node -> Seq(Message)]]

(* The number of a call and what identifies it. *)
LEMMA IdOfCall ==
  ASSUME NEW c \in Call
  PROVE  /\ IdOf(c) \in CallId /\ IdOf(c).node_id = c.node_id /\ IdOf(c).call_id = c.call_id
         /\ c.node_id \in Node /\ c.call_id \in Nat /\ c.vc \in Clock
BY MaxCallIdAssumption DEF IdOf, Call, CallId

(* The messages. *)
LEMMA Messages ==
  /\ \A c \in Call : CallMessage(c) \in Message
  /\ \A a \in CallId : AckMessage(a) \in Message
  /\ \A x \in Message : \/ x.kind = "Call" /\ x = CallMessage(x.call) /\ x.call \in Call
                        \/ x.kind = "Ack" /\ x = AckMessage(x.ack) /\ x.ack \in CallId
  /\ \A c : CallMessage(c).kind = "Call" /\ CallMessage(c).call = c
  /\ \A a : AckMessage(a).kind = "Ack" /\ AckMessage(a).ack = a
<1>1. ASSUME NEW x \in Message
      PROVE  \/ x.kind = "Call" /\ x = CallMessage(x.call) /\ x.call \in Call
             \/ x.kind = "Ack" /\ x = AckMessage(x.ack) /\ x.ack \in CallId
  <2>1. CASE x \in [kind : {"Call"}, call : Call]
    BY <2>1 DEF CallMessage
  <2>2. CASE x \in [kind : {"Ack"}, ack : CallId]
    BY <2>2 DEF AckMessage
  <2> QED BY <2>1, <2>2 DEF Message
<1>2. \A c : CallMessage(c).kind = "Call" /\ CallMessage(c).call = c
  BY DEF CallMessage
<1>3. \A a : AckMessage(a).kind = "Ack" /\ AckMessage(a).ack = a
  BY DEF AckMessage
<1>4. (\A c \in Call : CallMessage(c) \in Message) /\ (\A a \in CallId : AckMessage(a) \in Message)
  BY DEF CallMessage, AckMessage, Message
<1> QED BY <1>1, <1>2, <1>3, <1>4

(***************************************************************************)
(* The next call of a file is a call; its clock is the node's, counted on  *)
(* at the node's own place if the clock has one.                           *)
(***************************************************************************)
LEMMA NextCallType ==
  ASSUME TypeInv, NEW n \in Node, HasCall(n)
  PROVE  /\ NextCall(n) \in Call
         /\ NextCall(n).node_id = n /\ NextCall(n).call_id = it[n]
         /\ it[n] + 1 \in 1..(MaxCallId + 1)
         /\ \A i \in 0..(N - 1) : NextCall(n).vc[i] >= vc[n][i]
         /\ [NextCall(n) EXCEPT !.vc = Zero] \in Call
<1>1. file[n] \in Seq(Op) /\ Len(file[n]) <= MaxCallId
  BY WorkloadsAssumption DEF TypeInv, file
<1>2. it[n] \in 1..Len(file[n])
  BY <1>1 DEF TypeInv, HasCall
<1>3. it[n] \in 1..MaxCallId /\ it[n] + 1 \in 1..(MaxCallId + 1) /\ file[n][it[n]] \in Op
  BY <1>1, <1>2, MaxCallIdAssumption
<1> DEFINE w == IF n \in DOMAIN vc[n] THEN [vc[n] EXCEPT ![n] = @ + 1] ELSE vc[n]
<1>4. vc[n] \in [0..(N - 1) -> Nat] /\ \A i \in 0..(N - 1) : vc[n][i] \in Nat
  <2>1. vc \in [Node -> Clock]
    BY DEF TypeInv
  <2>2. vc[n] \in Clock
    BY <2>1
  <2> QED BY <2>2 DEF Clock
<1>5. w \in Clock /\ \A i \in 0..(N - 1) : w[i] >= vc[n][i]
  <2>1. CASE n \in DOMAIN vc[n]
    <3>1. DOMAIN vc[n] = 0..(N - 1) /\ w = [vc[n] EXCEPT ![n] = @ + 1]
      BY <1>4, <2>1
    <3>2. \A i \in 0..(N - 1) : w[i] = IF i = n THEN vc[n][i] + 1 ELSE vc[n][i]
      BY <1>4, <3>1
    <3>3. w = [i \in 0..(N - 1) |-> w[i]]
      BY <3>1
    <3> HIDE DEF w
    <3>4. \A i \in 0..(N - 1) : w[i] \in Nat /\ w[i] >= vc[n][i]
      BY <1>4, <3>2
    <3> QED BY <3>3, <3>4 DEF Clock
  <2>2. CASE n \notin DOMAIN vc[n]
    <3>1. w = vc[n]
      BY <2>2
    <3> HIDE DEF w
    <3> QED BY <1>4, <3>1 DEF Clock
  <2> QED BY <2>1, <2>2
<1>6. Zero \in Clock
  BY DEF Zero, Clock
<1>7. NextCall(n) = [op |-> file[n][it[n]], node_id |-> n, call_id |-> it[n], vc |-> w]
  BY DEF NextCall
<1> HIDE DEF w
<1> QED BY <1>3, <1>5, <1>6, <1>7 DEF Call

(* Sending a message to all others keeps the channels well-formed. *)
LEMMA BroadcastType ==
  ASSUME TypeInv, NEW n \in Node, NEW x \in Message, Broadcast(n, x)
  PROVE  net' \in [Node -> [Node -> Seq(Message)]]
<1>1. \A r \in Node : net[n][r] \in Seq(Message) /\ Append(net[n][r], x) \in Seq(Message)
  BY DEF TypeInv
<1>2. [r \in Node |-> IF r = n THEN net[n][r] ELSE Append(net[n][r], x)] \in [Node -> Seq(Message)]
  BY <1>1
<1> QED BY <1>2 DEF Broadcast, TypeInv

(* Taking a message from a channel. *)
LEMMA TakeType ==
  ASSUME TypeInv, NEW n \in Node, NEW m \in Node, net[m][n] # <<>>,
         net' = [net EXCEPT ![m][n] = Tail(@)]
  PROVE  /\ Head(net[m][n]) \in Message
         /\ net' \in [Node -> [Node -> Seq(Message)]]
<1>1. net[m][n] \in Seq(Message)
  BY DEF TypeInv
<1>2. Head(net[m][n]) \in Message /\ Tail(net[m][n]) \in Seq(Message)
  BY <1>1
<1> QED BY <1>2 DEF TypeInv

(* The edges of a new call are edges between calls. *)
LEMMA EdgesType ==
  ASSUME NEW C \in SUBSET Call, NEW c \in Call
  PROVE  /\ CausalEdges(c, C) \subseteq (C \cup {c}) \X (C \cup {c})
         /\ ResolvedEdges(c, C) \subseteq (C \cup {c}) \X (C \cup {c})
         /\ CausalEdges(c, C) \subseteq Call \X Call
         /\ ResolvedEdges(c, C) \subseteq Call \X Call
BY DEF CausalEdges, ResolvedEdges

-----------------------------------------------------------------------------
(* The type invariant, action by action.                                   *)

LEMMA SendAckTypes ==
  ASSUME TypeInv, NEW n \in Node, SendAck(n)
  PROVE  TypeInv'
<1>1. Head(unsent_acks[n]) \in CallId /\ Tail(unsent_acks[n]) \in Seq(CallId)
  BY DEF TypeInv, SendAck
<1>2. net' \in [Node -> [Node -> Seq(Message)]]
  BY <1>1, Messages, BroadcastType DEF SendAck
<1>3. turn' \in [Node -> {"ack", "call", "run", "last"}] /\ \A k \in Node : turn'[k] = "run" => turn[k] = "run"
  BY DEF TypeInv, SendAck
<1>4. unsent_acks' \in [Node -> Seq(CallId)]
  BY <1>1 DEF TypeInv, SendAck
<1> QED BY <1>2, <1>3, <1>4 DEF TypeInv, SendAck, HasCall, file, graphVars, commitVars

LEMMA TurnTypes ==
  ASSUME TypeInv, NEW n \in Node, NoAckToSend(n) \/ TestLocal(n)
  PROVE  TypeInv'
<1>1. turn' \in [Node -> {"ack", "call", "run", "last"}]
  BY DEF TypeInv, NoAckToSend, TestLocal
<1>2. \A k \in Node : turn'[k] = "run" => HasCall(k)
  BY DEF TypeInv, NoAckToSend, TestLocal
<1>3. /\ UNCHANGED <<workload, it, graphVars, commitVars, unsent_acks, net>>
  BY DEF NoAckToSend, TestLocal
<1> QED BY <1>1, <1>2, <1>3 DEF TypeInv, HasCall, file, graphVars, commitVars

LEMMA SkipLocalTypes ==
  ASSUME TypeInv, NEW n \in Node, SkipLocal(n)
  PROVE  TypeInv'
<1>1. net' \in [Node -> [Node -> Seq(Message)]]
  BY NextCallType, Messages, BroadcastType DEF SkipLocal
<1>2. turn' \in [Node -> {"ack", "call", "run", "last"}] /\ it' \in [Node -> 1..(MaxCallId + 1)]
  <2>1. it[n] + 1 \in 1..(MaxCallId + 1)
    BY NextCallType DEF SkipLocal
  <2> QED BY <2>1 DEF TypeInv, SkipLocal
<1>3. ASSUME NEW k \in Node, turn'[k] = "run" PROVE HasCall(k)'
  <2>1. k # n /\ turn[k] = "run" /\ it'[k] = it[k]
    BY <1>3 DEF TypeInv, SkipLocal
  <2> QED BY <2>1 DEF TypeInv, SkipLocal, HasCall, file
<1> QED BY <1>1, <1>2, <1>3 DEF TypeInv, SkipLocal, graphVars, commitVars

LEMMA ExecuteLocalTypes ==
  ASSUME TypeInv, NEW n \in Node, ExecuteLocal(n)
  PROVE  TypeInv'
<1> DEFINE c == NextCall(n)
<1>1. c \in Call /\ c.vc \in Clock
  BY NextCallType, IdOfCall DEF ExecuteLocal, TypeInv
<1>2. net' \in [Node -> [Node -> Seq(Message)]]
  BY <1>1, Messages, BroadcastType DEF ExecuteLocal
<1>3. turn' \in [Node -> {"ack", "call", "run", "last"}] /\ it' \in [Node -> 1..(MaxCallId + 1)]
  <2>1. it[n] + 1 \in 1..(MaxCallId + 1)
    BY NextCallType DEF ExecuteLocal, TypeInv
  <2> QED BY <2>1 DEF TypeInv, ExecuteLocal
<1>4. ASSUME NEW k \in Node, turn'[k] = "run" PROVE HasCall(k)'
  <2>1. k # n /\ turn[k] = "run" /\ it'[k] = it[k]
    BY <1>4 DEF TypeInv, ExecuteLocal
  <2> QED BY <2>1 DEF TypeInv, ExecuteLocal, HasCall, file
<1>5. /\ vc' = [vc EXCEPT ![n] = c.vc]
      /\ calls' = [calls EXCEPT ![n] = @ \cup {c}]
      /\ edges' = [edges EXCEPT ![n] = @ \cup CausalEdges(c, calls[n])]
  BY DEF ExecuteLocal
<1> HIDE DEF c
<1>6. vc' \in [Node -> Clock] /\ calls' \in [Node -> SUBSET Call]
  BY <1>1, <1>5 DEF TypeInv
<1>7. edges' \in [Node -> SUBSET (Call \X Call)]
  <2>1. calls[n] \in SUBSET Call /\ edges[n] \in SUBSET (Call \X Call)
    BY DEF TypeInv
  <2>2. CausalEdges(c, calls[n]) \subseteq Call \X Call
    BY <1>1, <2>1, EdgesType
  <2> QED BY <1>5, <2>1, <2>2 DEF TypeInv
<1> QED BY <1>2, <1>3, <1>4, <1>6, <1>7 DEF TypeInv, ExecuteLocal, commitVars

LEMMA ReceiveCallTypes ==
  ASSUME TypeInv, NEW n \in Node, NEW m \in Node, ReceiveCall(n, m)
  PROVE  TypeInv'
<1> DEFINE c == Head(net[m][n]).call
<1>1. c \in Call /\ net' \in [Node -> [Node -> Seq(Message)]]
  BY TakeType, Messages DEF ReceiveCall
<1>2. /\ vc' = [vc EXCEPT ![n] = Merge(@, c.vc)]
      /\ calls' = [calls EXCEPT ![n] = @ \cup {c}]
      /\ edges' = [edges EXCEPT ![n] = @ \cup CausalEdges(c, calls[n]) \cup ResolvedEdges(c, calls[n])]
      /\ unsent_acks' = [unsent_acks EXCEPT ![n] = Append(@, IdOf(c))]
      /\ UNCHANGED <<workload, it, turn, commitVars>>
  BY DEF ReceiveCall, TypeInv
<1> HIDE DEF c
<1>3. IdOf(c) \in CallId /\ c.vc \in Clock
  BY <1>1, IdOfCall
<1>4. vc' \in [Node -> Clock]
  <2>1. vc[n] \in Clock
    BY DEF TypeInv
  <2>2. Merge(vc[n], c.vc) \in Clock
    BY <1>3, <2>1 DEF Merge, Clock
  <2> QED BY <1>2, <2>2 DEF TypeInv
<1>5. calls' \in [Node -> SUBSET Call] /\ unsent_acks' \in [Node -> Seq(CallId)]
  BY <1>1, <1>2, <1>3 DEF TypeInv
<1>6. edges' \in [Node -> SUBSET (Call \X Call)]
  <2>1. calls[n] \in SUBSET Call /\ edges[n] \in SUBSET (Call \X Call)
    BY DEF TypeInv
  <2>2. /\ CausalEdges(c, calls[n]) \subseteq Call \X Call
        /\ ResolvedEdges(c, calls[n]) \subseteq Call \X Call
    BY <1>1, <2>1, EdgesType
  <2> QED BY <1>2, <2>1, <2>2 DEF TypeInv
<1>7. \A k \in Node : turn'[k] = "run" => HasCall(k)'
  BY <1>2 DEF TypeInv, HasCall, file
<1> QED BY <1>1, <1>2, <1>4, <1>5, <1>6, <1>7 DEF TypeInv, commitVars

LEMMA ReceiveAckTypes ==
  ASSUME TypeInv, NEW n \in Node, NEW m \in Node, ReceiveAck(n, m)
  PROVE  TypeInv'
<1> DEFINE a == Head(net[m][n]).ack
           count == ackCounts[n][a] + 1
           stable == {c \in calls[n] : IdOf(c) = a /\ count >= Required(n, a)}
<1>1. a \in CallId /\ net' \in [Node -> [Node -> Seq(Message)]]
  BY TakeType, Messages DEF ReceiveAck
<1>2. /\ ackCounts' = [ackCounts EXCEPT ![n][a] = count]
      /\ calls' = [calls EXCEPT ![n] = @ \ stable]
      /\ edges' = [edges EXCEPT ![n] = {e \in @ : e[1] \notin stable /\ e[2] \notin stable}]
      /\ committed' = [committed EXCEPT ![n] = IF stable = {} THEN @ ELSE Append(@, a)]
      /\ UNCHANGED <<workload, it, vc, object, applied, unsent_acks>>
  BY DEF ReceiveAck
<1>3. turn' \in [Node -> {"ack", "call", "run", "last"}] /\ \A k \in Node : turn'[k] = "run" => turn[k] = "run"
  BY DEF TypeInv, ReceiveAck
<1>4. count \in Nat
  <2>1. ackCounts \in [Node -> [CallId -> Nat]]
    BY DEF TypeInv
  <2>2. ackCounts[n][a] \in Nat
    BY <1>1, <2>1
  <2> QED BY <2>2
<1> HIDE DEF a, count, stable
<1>5. ackCounts' \in [Node -> [CallId -> Nat]]
  BY <1>1, <1>2, <1>4 DEF TypeInv
<1>6. calls' \in [Node -> SUBSET Call] /\ edges' \in [Node -> SUBSET (Call \X Call)]
  BY <1>2 DEF TypeInv
<1>7. committed' \in [Node -> Seq(CallId)]
  BY <1>1, <1>2 DEF TypeInv
<1>8. \A k \in Node : turn'[k] = "run" => HasCall(k)'
  BY <1>2, <1>3 DEF TypeInv, HasCall, file
<1> QED BY <1>1, <1>2, <1>3, <1>5, <1>6, <1>7, <1>8 DEF TypeInv

LEMMA StepTypes == TypeInv /\ [Next]_vars => TypeInv'
<1> SUFFICES ASSUME TypeInv, [Next]_vars PROVE TypeInv'
  OBVIOUS
<1>1. CASE UNCHANGED vars
  BY <1>1 DEF TypeInv, HasCall, file, vars, graphVars, commitVars
<1>2. ASSUME NEW n \in Node, Main(n) PROVE TypeInv'
  BY <1>2, SendAckTypes, TurnTypes, SkipLocalTypes, ExecuteLocalTypes DEF Main
<1>3. ASSUME NEW n \in Node, NEW m \in Node, Receive(n, m) PROVE TypeInv'
  BY <1>3, ReceiveCallTypes, ReceiveAckTypes DEF Receive
<1> QED BY <1>1, <1>2, <1>3 DEF Next

LEMMA InitTypes == Init => TypeInv
<1> SUFFICES ASSUME Init PROVE TypeInv
  OBVIOUS
<1>1. \A S : <<>> \in Seq(S)
  OBVIOUS
<1>2. Zero \in Clock /\ 1 \in 1..(MaxCallId + 1)
  BY MaxCallIdAssumption DEF Zero, Clock
<1> QED BY <1>1, <1>2 DEF Init, TypeInv

-----------------------------------------------------------------------------
(***************************************************************************)
(* The graph.  Whatever order the calls came in, the edges at a node are   *)
(* a function of its calls.  exeLocal does not ask for resolution, because *)
(* a new call is concurrent to nothing at its own node: the clock of the   *)
(* node covers all calls there.                                            *)
(***************************************************************************)
Edge(c, d) == Causes(c, d) \/ (concurrent(c, d) /\ resolution(c, d) = "<")

ClockCovers ==
  \A n \in Node : \A c \in calls[n] : \A i \in 0..(N - 1) : c.vc[i] <= vc[n][i]

(* E holds the edges between the calls of C. *)
EdgesOf(E, C) ==
  /\ E \subseteq C \X C
  /\ \A c, d \in C : <<c, d>> \in E <=> Edge(c, d)

EdgesDetermined == \A n \in Node : EdgesOf(edges[n], calls[n])

GraphInv == TypeInv /\ ClockCovers /\ EdgesDetermined

(* The workload is constant, and with it what edges depend on. *)
LEMMA EdgesFixed ==
  ASSUME workload' = workload, NEW n \in Node
  PROVE  EdgesOf(edges[n], calls[n])' <=> EdgesOf(edges'[n], calls'[n])
<1>1. \A c, d : Edge(c, d)' <=> Edge(c, d)
  BY DEF Edge, Causes, useCase
<1> QED BY <1>1 DEF EdgesOf

(* Concurrency is symmetric, and resolution is its own opposite. *)
LEMMA ResolvedOnce ==
  ASSUME NEW c \in Call, NEW d \in Call
  PROVE  /\ concurrent(c, d) <=> concurrent(d, c)
         /\ resolution(c, d) = ">" <=> resolution(d, c) = "<"
<1>1. DOMAIN c.vc = DOMAIN d.vc
  BY IdOfCall DEF Clock
<1>2. ~(c.op.type \in Deletes /\ c.op.type \in Relates)
      /\ ~(d.op.type \in Deletes /\ d.op.type \in Relates)
  BY DEF Deletes, Relates
<1>3. resolution(c, d) = ">" <=> c.op.type \in Relates /\ d.op.type \in Deletes
  <2>1. CASE c.op.type \in Deletes /\ d.op.type \in Relates
    <3>1. resolution(c, d) = "<"
      BY <2>1, <1>2 DEF resolution
    <3> QED BY <1>2, <2>1, <3>1
  <2>2. CASE c.op.type \in Relates /\ d.op.type \in Deletes
    <3>1. resolution(c, d) = ">"
      BY <2>2, <1>2 DEF resolution
    <3> QED BY <2>2, <3>1
  <2>3. CASE /\ ~(c.op.type \in Deletes /\ d.op.type \in Relates)
             /\ ~(c.op.type \in Relates /\ d.op.type \in Deletes)
    <3>1. resolution(c, d) = "none"
      BY <2>3 DEF resolution
    <3> QED BY <2>3, <3>1
  <2> QED BY <2>1, <2>2, <2>3
<1>4. resolution(d, c) = "<" <=> d.op.type \in Deletes /\ c.op.type \in Relates
  <2>1. CASE d.op.type \in Deletes /\ c.op.type \in Relates
    <3>1. resolution(d, c) = "<"
      BY <2>1, <1>2 DEF resolution
    <3> QED BY <2>1, <3>1
  <2>2. CASE d.op.type \in Relates /\ c.op.type \in Deletes
    <3>1. resolution(d, c) = ">"
      BY <2>2, <1>2 DEF resolution
    <3> QED BY <1>2, <2>2, <3>1
  <2>3. CASE /\ ~(d.op.type \in Deletes /\ c.op.type \in Relates)
             /\ ~(d.op.type \in Relates /\ c.op.type \in Deletes)
    <3>1. resolution(d, c) = "none"
      BY <2>3 DEF resolution
    <3> QED BY <2>3, <3>1
  <2> QED BY <2>1, <2>2, <2>3
<1>5. concurrent(c, d) <=> concurrent(d, c)
  BY <1>1 DEF concurrent
<1> QED BY <1>3, <1>4, <1>5

(* The edges that a new call brings. *)
LEMMA NewEdges ==
  ASSUME NEW C \in SUBSET Call, NEW c \in Call, NEW v \in Call, NEW w \in Call
  PROVE  /\ <<v, w>> \in CausalEdges(c, C) <=>
              \/ w = c /\ v \in C /\ Causes(v, c)
              \/ v = c /\ w \in C /\ Causes(c, w)
         /\ <<v, w>> \in ResolvedEdges(c, C) <=>
              \/ w = c /\ v \in C /\ concurrent(v, c) /\ resolution(v, c) = "<"
              \/ v = c /\ w \in C /\ concurrent(c, w) /\ resolution(c, w) = "<"
<1>1. <<v, w>> \in CausalEdges(c, C) <=>
        \/ w = c /\ v \in C /\ Causes(v, c)
        \/ v = c /\ w \in C /\ Causes(c, w)
  BY DEF CausalEdges
<1>2. <<v, w>> \in ResolvedEdges(c, C) <=>
        \/ w = c /\ v \in C /\ concurrent(v, c) /\ resolution(c, v) = ">"
        \/ v = c /\ w \in C /\ concurrent(w, c) /\ resolution(c, w) = "<"
  BY DEF ResolvedEdges
<1>3. /\ concurrent(w, c) <=> concurrent(c, w)
      /\ resolution(c, v) = ">" <=> resolution(v, c) = "<"
  BY ResolvedOnce
<1> QED BY <1>1, <1>2, <1>3

(* No edge from a call to itself. *)
LEMMA NoLoops ==
  ASSUME NEW c \in Call
  PROVE  ~Edge(c, c)
<1>1. \A i \in DOMAIN c.vc : c.vc[i] \in Nat
  BY IdOfCall DEF Clock
<1> QED BY <1>1 DEF Edge, Causes, happenedBefore, concurrent

(* The edges F of a call c that is inserted among the calls C. *)
InsertedWith(F, C, c) ==
  /\ F \subseteq (C \cup {c}) \X (C \cup {c})
  /\ \A v, w \in C \cup {c} : <<v, w>> \in F => Edge(v, w)
  /\ \A v \in C : (Edge(v, c) => <<v, c>> \in F) /\ (Edge(c, v) => <<c, v>> \in F)

(* A call that is inserted with its edges leaves the edges determined. *)
LEMMA InsertionDetermined ==
  ASSUME NEW C \in SUBSET Call, NEW E, EdgesOf(E, C), NEW c \in Call, NEW F, InsertedWith(F, C, c)
  PROVE  EdgesOf(E \cup F, C \cup {c})
<1>1. E \cup F \subseteq (C \cup {c}) \X (C \cup {c})
  BY DEF EdgesOf, InsertedWith
<1>2. ASSUME NEW v \in C \cup {c}, NEW w \in C \cup {c}
      PROVE  <<v, w>> \in E \cup F <=> Edge(v, w)
  <2>1. <<v, w>> \in E => v \in C /\ w \in C
    BY DEF EdgesOf
  <2>2. CASE v \in C /\ w \in C
    BY <2>2 DEF EdgesOf, InsertedWith
  <2>3. CASE v = c /\ w = c
    BY <2>1, <2>3, NoLoops DEF EdgesOf, InsertedWith
  <2>4. CASE v \in C /\ w = c
    BY <2>1, <2>4 DEF EdgesOf, InsertedWith
  <2>5. CASE v = c /\ w \in C
    BY <2>1, <2>5 DEF EdgesOf, InsertedWith
  <2> QED BY <2>2, <2>3, <2>4, <2>5
<1> QED BY <1>1, <1>2 DEF EdgesOf

LEMMA ExecuteLocalGraph ==
  ASSUME GraphInv, NEW n \in Node, ExecuteLocal(n)
  PROVE  ClockCovers' /\ EdgesDetermined'
<1> DEFINE c == NextCall(n)
<1>1. c \in Call /\ c.vc \in Clock /\ \A i \in 0..(N - 1) : c.vc[i] >= vc[n][i]
  BY NextCallType, IdOfCall DEF ExecuteLocal, GraphInv, TypeInv
<1>2. /\ vc' = [vc EXCEPT ![n] = c.vc]
      /\ calls' = [calls EXCEPT ![n] = @ \cup {c}]
      /\ edges' = [edges EXCEPT ![n] = @ \cup CausalEdges(c, calls[n])]
      /\ workload' = workload
  BY DEF ExecuteLocal
<1> HIDE DEF c
<1>3. calls[n] \in SUBSET Call /\ vc[n] \in Clock
  BY DEF GraphInv, TypeInv
<1>4. ASSUME NEW v \in calls[n], NEW i \in 0..(N - 1) PROVE v.vc[i] <= c.vc[i]
  <2>1. v.vc[i] \in Nat /\ vc[n][i] \in Nat /\ c.vc[i] \in Nat
    BY <1>1, <1>3, IdOfCall DEF Clock
  <2>2. v.vc[i] <= vc[n][i] /\ c.vc[i] >= vc[n][i]
    BY <1>1 DEF GraphInv, ClockCovers
  <2> QED BY <2>1, <2>2
<1>5. ASSUME NEW v \in calls[n] PROVE ~concurrent(v, c) /\ ~concurrent(c, v)
  <2>1. v \in Call /\ DOMAIN v.vc = 0..(N - 1)
    BY <1>3, IdOfCall DEF Clock
  <2>2. \A i \in 0..(N - 1) : ~(c.vc[i] < v.vc[i])
    <3>1. \A i \in 0..(N - 1) : v.vc[i] \in Nat /\ c.vc[i] \in Nat
      BY <1>1, <2>1, IdOfCall DEF Clock
    <3> QED BY <1>4, <3>1
  <2>3. ~concurrent(v, c)
    BY <2>1, <2>2 DEF concurrent
  <2> QED BY <1>1, <2>1, <2>3, ResolvedOnce
<1>6. ClockCovers'
  <2> SUFFICES ASSUME NEW k \in Node, NEW v \in calls'[k], NEW i \in 0..(N - 1)
               PROVE  v.vc[i] <= vc'[k][i]
    BY DEF ClockCovers
  <2>1. CASE k # n
    BY <1>2, <2>1 DEF GraphInv, ClockCovers, TypeInv
  <2>2. CASE k = n /\ v \in calls[n]
    BY <1>2, <1>4, <2>2 DEF GraphInv, TypeInv
  <2>3. CASE k = n /\ v = c
    <3>1. c.vc[i] \in Nat
      BY <1>1 DEF Clock
    <3> QED BY <1>2, <2>3, <3>1 DEF GraphInv, TypeInv
  <2> QED BY <1>2, <2>1, <2>2, <2>3 DEF GraphInv, TypeInv
<1>7. ASSUME NEW k \in Node PROVE EdgesOf(edges'[k], calls'[k])
  <2>1. EdgesOf(edges[k], calls[k]) /\ EdgesOf(edges[n], calls[n])
    BY DEF GraphInv, EdgesDetermined
  <2>2. CASE k # n
    BY <1>2, <2>1, <2>2 DEF GraphInv, TypeInv
  <2>3. CASE k = n
    <3> DEFINE F == CausalEdges(c, calls[n])
    <3>1. calls'[n] = calls[n] \cup {c} /\ edges'[n] = edges[n] \cup F
      BY <1>2 DEF GraphInv, TypeInv
    <3>2. F \subseteq (calls[n] \cup {c}) \X (calls[n] \cup {c})
      BY <1>1, <1>3, EdgesType
    <3>3. \A v, w \in calls[n] \cup {c} : <<v, w>> \in F => Edge(v, w)
      BY <1>1, <1>3, NewEdges DEF Edge
    <3>4. \A v \in calls[n] : (Edge(v, c) => <<v, c>> \in F) /\ (Edge(c, v) => <<c, v>> \in F)
      BY <1>1, <1>3, <1>5, NewEdges DEF Edge
    <3> HIDE DEF F
    <3>5. InsertedWith(F, calls[n], c)
      BY <3>2, <3>3, <3>4 DEF InsertedWith
    <3>6. EdgesOf(edges[n] \cup F, calls[n] \cup {c})
      BY <1>1, <1>3, <2>1, <3>5, InsertionDetermined
    <3> QED BY <2>3, <3>1, <3>6
  <2> QED BY <2>2, <2>3
<1>8. EdgesDetermined'
  BY <1>2, <1>7, EdgesFixed DEF EdgesDetermined
<1> QED BY <1>6, <1>8

LEMMA ReceiveCallGraph ==
  ASSUME GraphInv, NEW n \in Node, NEW m \in Node, ReceiveCall(n, m)
  PROVE  ClockCovers' /\ EdgesDetermined'
<1> DEFINE c == Head(net[m][n]).call
           F == CausalEdges(c, calls[n]) \cup ResolvedEdges(c, calls[n])
<1>1. c \in Call /\ c.vc \in Clock
  BY TakeType, Messages, IdOfCall DEF ReceiveCall, GraphInv
<1>2. /\ vc' = [vc EXCEPT ![n] = Merge(@, c.vc)]
      /\ calls' = [calls EXCEPT ![n] = @ \cup {c}]
      /\ edges' = [edges EXCEPT ![n] = @ \cup F]
      /\ workload' = workload
  BY DEF ReceiveCall, GraphInv, TypeInv
<1> HIDE DEF c
<1>3. calls[n] \in SUBSET Call /\ vc[n] \in Clock
  BY DEF GraphInv, TypeInv
<1>4. \A i \in 0..(N - 1) : /\ vc[n][i] \in Nat /\ c.vc[i] \in Nat
                            /\ vc'[n][i] \in Nat /\ vc[n][i] <= vc'[n][i] /\ c.vc[i] <= vc'[n][i]
  <2>1. \A i \in 0..(N - 1) : vc[n][i] \in Nat /\ c.vc[i] \in Nat
    BY <1>1, <1>3 DEF Clock
  <2>2. \A i \in 0..(N - 1) : vc'[n][i] = IF vc[n][i] < c.vc[i] THEN c.vc[i] ELSE vc[n][i]
    BY <1>2, <1>3 DEF Merge, Clock, GraphInv, TypeInv
  <2> QED BY <2>1, <2>2
<1>5. ClockCovers'
  <2> SUFFICES ASSUME NEW k \in Node, NEW v \in calls'[k], NEW i \in 0..(N - 1)
               PROVE  v.vc[i] <= vc'[k][i]
    BY DEF ClockCovers
  <2>1. CASE k # n
    BY <1>2, <2>1 DEF GraphInv, ClockCovers, TypeInv
  <2>2. CASE k = n /\ v \in calls[n]
    <3>1. v.vc[i] \in Nat /\ v.vc[i] <= vc[n][i]
      BY <1>3, <2>2, IdOfCall DEF GraphInv, ClockCovers, Clock
    <3> QED BY <1>4, <2>2, <3>1
  <2>3. CASE k = n /\ v = c
    BY <1>4, <2>3
  <2> QED BY <1>2, <2>1, <2>2, <2>3 DEF GraphInv, TypeInv
<1>6. ASSUME NEW k \in Node PROVE EdgesOf(edges'[k], calls'[k])
  <2>1. EdgesOf(edges[k], calls[k]) /\ EdgesOf(edges[n], calls[n])
    BY DEF GraphInv, EdgesDetermined
  <2>2. CASE k # n
    BY <1>2, <2>1, <2>2 DEF GraphInv, TypeInv
  <2>3. CASE k = n
    <3>1. calls'[n] = calls[n] \cup {c} /\ edges'[n] = edges[n] \cup F
      BY <1>2 DEF GraphInv, TypeInv
    <3>2. F \subseteq (calls[n] \cup {c}) \X (calls[n] \cup {c})
      BY <1>1, <1>3, EdgesType
    <3>3. \A v, w \in calls[n] \cup {c} : <<v, w>> \in F => Edge(v, w)
      BY <1>1, <1>3, NewEdges DEF Edge
    <3>4. \A v \in calls[n] : (Edge(v, c) => <<v, c>> \in F) /\ (Edge(c, v) => <<c, v>> \in F)
      BY <1>1, <1>3, NewEdges DEF Edge
    <3> HIDE DEF F
    <3>5. InsertedWith(F, calls[n], c)
      BY <3>2, <3>3, <3>4 DEF InsertedWith
    <3>6. EdgesOf(edges[n] \cup F, calls[n] \cup {c})
      BY <1>1, <1>3, <2>1, <3>5, InsertionDetermined
    <3> QED BY <2>3, <3>1, <3>6
  <2> QED BY <2>2, <2>3
<1>7. EdgesDetermined'
  BY <1>2, <1>6, EdgesFixed DEF EdgesDetermined
<1> QED BY <1>5, <1>7

(* A commitment takes calls and their edges out of the graph. *)
LEMMA ReceiveAckGraph ==
  ASSUME GraphInv, NEW n \in Node, NEW m \in Node, ReceiveAck(n, m)
  PROVE  ClockCovers' /\ EdgesDetermined'
<1>1. PICK stable :
        /\ calls' = [calls EXCEPT ![n] = @ \ stable]
        /\ edges' = [edges EXCEPT ![n] = {e \in @ : e[1] \notin stable /\ e[2] \notin stable}]
        /\ vc' = vc /\ workload' = workload
  BY DEF ReceiveAck
<1>2. ClockCovers'
  BY <1>1 DEF GraphInv, ClockCovers, TypeInv
<1>3. ASSUME NEW k \in Node PROVE EdgesOf(edges'[k], calls'[k])
  <2>1. EdgesOf(edges[k], calls[k]) /\ EdgesOf(edges[n], calls[n])
    BY DEF GraphInv, EdgesDetermined
  <2>2. CASE k # n
    BY <1>1, <2>1, <2>2 DEF GraphInv, TypeInv
  <2>3. CASE k = n
    <3>1. /\ calls'[n] = calls[n] \ stable
          /\ edges'[n] = {e \in edges[n] : e[1] \notin stable /\ e[2] \notin stable}
      BY <1>1 DEF GraphInv, TypeInv
    <3> QED BY <2>1, <2>3, <3>1 DEF EdgesOf
  <2> QED BY <2>2, <2>3
<1>4. EdgesDetermined'
  BY <1>1, <1>3, EdgesFixed DEF EdgesDetermined
<1> QED BY <1>2, <1>4

LEMMA StepGraph == GraphInv /\ [Next]_vars => GraphInv'
<1> SUFFICES ASSUME GraphInv, [Next]_vars PROVE ClockCovers' /\ EdgesDetermined'
  BY StepTypes DEF GraphInv
<1>1. CASE UNCHANGED <<workload, vc, calls, edges>>
  BY <1>1, EdgesFixed DEF GraphInv, ClockCovers, EdgesDetermined
<1>2. \/ UNCHANGED <<workload, vc, calls, edges>>
      \/ \E n \in Node : ExecuteLocal(n)
      \/ \E n \in Node, m \in Node : ReceiveCall(n, m) \/ ReceiveAck(n, m)
  BY DEF Next, Main, Receive, SendAck, NoAckToSend, TestLocal, SkipLocal, vars, graphVars
<1> QED BY <1>1, <1>2, ExecuteLocalGraph, ReceiveCallGraph, ReceiveAckGraph

LEMMA InitGraph == Init => GraphInv
BY InitTypes DEF Init, GraphInv, ClockCovers, EdgesDetermined, EdgesOf

(***************************************************************************)
(* exeLocal and exeRemote build the same graph at every node: two calls    *)
(* that two nodes both hold have the same edges between them at both, in   *)
(* whatever order and by whichever of the two they were inserted.          *)
(***************************************************************************)
THEOREM GraphsAlwaysAgree == Spec => []GraphsAgree
<1>1. GraphInv => GraphsAgree
  BY DEF GraphInv, EdgesDetermined, EdgesOf, GraphsAgree
<1> QED BY <1>1, InitGraph, StepGraph, PTL DEF Spec

-----------------------------------------------------------------------------
(* What the nodes hold, as sets.                                           *)

Unsent(n) == Range(unsent_acks[n])
Sent(m, n) == Range(net[m][n])

(* The nodes whose acknowledgement of a has been counted by n. *)
Counted(n, a) ==
  {m \in Node \ {n, a.node_id} :
     a \in Handled(m) /\ a \notin Unsent(m) /\ AckMessage(a) \notin Sent(m, n)}

(***************************************************************************)
(* The inductive invariant behind commitment: every call a node has been   *)
(* through was issued by its issuer, a call on its way is new to the node  *)
(* it goes to, and every acknowledgement is in one place.                  *)
(***************************************************************************)
NoRepeats ==
  \A n \in Node : /\ IsInjective(unsent_acks[n])
                  /\ \A m \in Node : IsInjective(net[m][n])

Origins == \A n \in Node : \A a \in Handled(n) : a.call_id < it[a.node_id]

CommittedOnce == \A n \in Node : IdsOf(calls[n]) \cap Range(committed[n]) = {}

CallsUnderway ==
  \A m, n \in Node : \A x \in Sent(m, n) :
    x.kind = "Call" =>
      /\ m # n /\ x.call.node_id = m /\ x.call.call_id < it[m]
      /\ IdOf(x.call) \notin Handled(n)
      /\ \A y \in Sent(m, n) : y.kind = "Call" /\ IdOf(y.call) = IdOf(x.call) => y = x

AcksUnderway ==
  \A m \in Node :
    /\ \A a \in Unsent(m) : a \in Handled(m) /\ a.node_id # m
    /\ \A n \in Node : \A x \in Sent(m, n) :
         x.kind = "Ack" => m # n /\ x.ack \in Handled(m) /\ x.ack.node_id # m /\ x.ack \notin Unsent(m)

AcksCounted ==
  \A n \in Node : \A a \in CallId : ackCounts[n][a] = Cardinality(Counted(n, a))

CallInv == NoRepeats /\ Origins /\ CommittedOnce /\ CallsUnderway
AckInv == AcksUnderway /\ AcksCounted
CommitInv == TypeInv /\ CallInv /\ AckInv

(* The sets have the types of the lists. *)
LEMMA SetTypes ==
  ASSUME TypeInv, NEW n \in Node
  PROVE  /\ Handled(n) \subseteq CallId
         /\ Unsent(n) \subseteq CallId
         /\ \A m \in Node : Sent(m, n) \subseteq Message
         /\ it[n] \in Nat
<1>1. \A S : \A s \in Seq(S) : Range(s) \subseteq S
  BY DEF Range
<1>2. /\ unsent_acks[n] \in Seq(CallId) /\ committed[n] \in Seq(CallId)
      /\ \A m \in Node : net[m][n] \in Seq(Message)
  BY DEF TypeInv
<1>3. IdsOf(calls[n]) \subseteq CallId
  BY IdOfCall DEF TypeInv, IdsOf
<1>4. it[n] \in 1..(MaxCallId + 1)
  BY DEF TypeInv
<1>5. [node_id : {n}, call_id : 1..(it[n] - 1)] \subseteq CallId
  <2>1. 1..(it[n] - 1) \subseteq 1..MaxCallId
    BY <1>4, MaxCallIdAssumption
  <2> QED BY <2>1 DEF CallId
<1> QED BY <1>1, <1>2, <1>3, <1>4, <1>5 DEF Handled, Unsent, Sent

(* A node has been through all of its own calls up to the next. *)
LEMMA OwnHandled ==
  ASSUME TypeInv, NEW a \in CallId, a.call_id < it[a.node_id]
  PROVE  a \in Handled(a.node_id)
<1>1. /\ a.node_id \in Node /\ a.call_id \in 1..MaxCallId
      /\ a = [node_id |-> a.node_id, call_id |-> a.call_id]
  BY DEF CallId
<1>2. it[a.node_id] \in Nat
  BY <1>1, SetTypes
<1>3. a.call_id \in 1..(it[a.node_id] - 1)
  BY <1>1, <1>2, MaxCallIdAssumption
<1> QED BY <1>1, <1>3 DEF Handled

(* What is in Handled depends on three variables. *)
LEMMA SameHandled ==
  ASSUME NEW n \in Node, it'[n] = it[n], calls'[n] = calls[n], committed'[n] = committed[n]
  PROVE  Handled(n)' = Handled(n)
BY DEF Handled, IdsOf

-----------------------------------------------------------------------------
(* What the steps do to the sets.                                          *)

(* A message to all others. *)
LEMMA BroadcastEffect ==
  ASSUME TypeInv, NEW n \in Node, NEW x \in Message, Broadcast(n, x),
         \A m \in Node \ {n} : x \notin Sent(n, m)
  PROVE  \A m, r \in Node :
           /\ Sent(m, r)' = IF m = n /\ r # n THEN Sent(m, r) \cup {x} ELSE Sent(m, r)
           /\ IsInjective(net[m][r]) => IsInjective(net'[m][r])
<1> SUFFICES ASSUME NEW m \in Node, NEW r \in Node
             PROVE  /\ Sent(m, r)' = IF m = n /\ r # n THEN Sent(m, r) \cup {x} ELSE Sent(m, r)
                    /\ IsInjective(net[m][r]) => IsInjective(net'[m][r])
  OBVIOUS
<1>1. net'[m][r] = IF m = n /\ r # n THEN Append(net[m][r], x) ELSE net[m][r]
  BY DEF TypeInv, Broadcast
<1>2. net[m][r] \in Seq(Message)
  BY DEF TypeInv
<1>3. /\ Range(Append(net[m][r], x)) = Range(net[m][r]) \cup {x}
      /\ IsInjective(net[m][r]) /\ x \notin Range(net[m][r]) => IsInjective(Append(net[m][r], x))
  BY <1>2, AppendElements
<1> QED BY <1>1, <1>3 DEF Sent

(* Taking a message. *)
LEMMA TakeEffect ==
  ASSUME TypeInv, NoRepeats, NEW n \in Node, NEW m \in Node, net[m][n] # <<>>,
         net' = [net EXCEPT ![m][n] = Tail(@)]
  PROVE  /\ Head(net[m][n]) \in Sent(m, n)
         /\ \A k, r \in Node :
              /\ Sent(k, r)' = IF k = m /\ r = n THEN Sent(k, r) \ {Head(net[m][n])} ELSE Sent(k, r)
              /\ IsInjective(net'[k][r])
<1>1. net[m][n] \in Seq(Message) /\ IsInjective(net[m][n])
  BY DEF TypeInv, NoRepeats
<1>2. /\ Head(net[m][n]) \in Range(net[m][n])
      /\ Range(Tail(net[m][n])) = Range(net[m][n]) \ {Head(net[m][n])}
      /\ IsInjective(Tail(net[m][n]))
  BY <1>1, TailElements
<1>3. \A k, r \in Node : net'[k][r] = IF k = m /\ r = n THEN Tail(net[m][n]) ELSE net[k][r]
  BY DEF TypeInv
<1>4. ASSUME NEW k \in Node, NEW r \in Node
      PROVE  /\ Sent(k, r)' = IF k = m /\ r = n THEN Sent(k, r) \ {Head(net[m][n])} ELSE Sent(k, r)
             /\ IsInjective(net'[k][r])
  <2>1. CASE k = m /\ r = n
    BY <1>2, <1>3, <2>1 DEF Sent
  <2>2. CASE ~(k = m /\ r = n)
    BY <1>3, <2>2 DEF Sent, NoRepeats
  <2> QED BY <2>1, <2>2
<1> QED BY <1>2, <1>4 DEF Sent

(* Node n sends its acknowledgement of a to the others. *)
SendsAck(n, a) ==
  /\ a \in Unsent(n)
  /\ UNCHANGED <<it, calls, committed, ackCounts>>
  /\ \A m, r \in Node :
       /\ Unsent(m)' = IF m = n THEN Unsent(m) \ {a} ELSE Unsent(m)
       /\ Sent(m, r)' = IF m = n /\ r # n THEN Sent(m, r) \cup {AckMessage(a)} ELSE Sent(m, r)

(* Node n is through with its next call c, executed or not, and sends it. *)
Issues(n, c) ==
  /\ c.node_id = n /\ c.call_id = it[n]
  /\ it' = [it EXCEPT ![n] = @ + 1]
  /\ UNCHANGED <<committed, ackCounts, unsent_acks>>
  /\ \A m, r \in Node :
       /\ IdsOf(calls'[m]) \subseteq IF m = n THEN IdsOf(calls[m]) \cup {IdOf(c)} ELSE IdsOf(calls[m])
       /\ Handled(m)' = IF m = n THEN Handled(m) \cup {IdOf(c)} ELSE Handled(m)
       /\ Sent(m, r)' = IF m = n /\ r # n THEN Sent(m, r) \cup {CallMessage(c)} ELSE Sent(m, r)

(* Call c comes from m to n, which executes it and owes an acknowledgement. *)
Arrives(n, m, c) ==
  /\ CallMessage(c) \in Sent(m, n)
  /\ UNCHANGED <<it, committed, ackCounts>>
  /\ \A k, r \in Node :
       /\ IdsOf(calls'[r]) = IF r = n THEN IdsOf(calls[r]) \cup {IdOf(c)} ELSE IdsOf(calls[r])
       /\ Handled(r)' = IF r = n THEN Handled(r) \cup {IdOf(c)} ELSE Handled(r)
       /\ Unsent(r)' = IF r = n THEN Unsent(r) \cup {IdOf(c)} ELSE Unsent(r)
       /\ Sent(k, r)' = IF k = m /\ r = n THEN Sent(k, r) \ {CallMessage(c)} ELSE Sent(k, r)

(* Node n counts the acknowledgement of a that m has sent. *)
Counts(n, m, a) ==
  /\ AckMessage(a) \in Sent(m, n)
  /\ UNCHANGED <<it, unsent_acks>>
  /\ ackCounts' = [ackCounts EXCEPT ![n][a] = @ + 1]
  /\ \A k, r \in Node :
       /\ Handled(r)' = Handled(r)
       /\ Sent(k, r)' = IF k = m /\ r = n THEN Sent(k, r) \ {AckMessage(a)} ELSE Sent(k, r)

(* SendAck moves an acknowledgement to the channels. *)
LEMMA SendAckEffect ==
  ASSUME CommitInv, NEW n \in Node, SendAck(n)
  PROVE  NoRepeats' /\ \E a \in CallId : SendsAck(n, a)
<1> USE DEF CommitInv
<1> DEFINE a == Head(unsent_acks[n])
<1>1. unsent_acks[n] \in Seq(CallId) /\ unsent_acks[n] # <<>> /\ IsInjective(unsent_acks[n])
  BY DEF TypeInv, SendAck, CallInv, NoRepeats
<1>2. /\ a \in Range(unsent_acks[n])
      /\ Range(Tail(unsent_acks[n])) = Range(unsent_acks[n]) \ {a}
      /\ IsInjective(Tail(unsent_acks[n]))
  BY <1>1, TailElements
<1>3. /\ UNCHANGED <<it, calls, committed, ackCounts>>
      /\ unsent_acks' = [unsent_acks EXCEPT ![n] = Tail(@)]
      /\ Broadcast(n, AckMessage(a))
  BY DEF SendAck, graphVars, commitVars
<1> HIDE DEF a
<1>4. a \in Unsent(n) /\ a \in CallId /\ AckMessage(a) \in Message
  BY <1>2, SetTypes, Messages DEF Unsent
<1>5. \A m \in Node : AckMessage(a) \notin Sent(n, m)
  BY <1>4, Messages DEF AckInv, AcksUnderway
<1>6. \A m, r \in Node :
        /\ Sent(m, r)' = IF m = n /\ r # n THEN Sent(m, r) \cup {AckMessage(a)} ELSE Sent(m, r)
        /\ IsInjective(net[m][r]) => IsInjective(net'[m][r])
  BY <1>3, <1>4, <1>5, BroadcastEffect
<1>7. \A m \in Node : unsent_acks'[m] = IF m = n THEN Tail(unsent_acks[n]) ELSE unsent_acks[m]
  BY <1>3 DEF TypeInv
<1>8. \A m \in Node : /\ Unsent(m)' = IF m = n THEN Unsent(m) \ {a} ELSE Unsent(m)
                      /\ IsInjective(unsent_acks'[m])
  BY <1>2, <1>7 DEF Unsent, CallInv, NoRepeats
<1>9. NoRepeats'
  BY <1>6, <1>8 DEF CallInv, NoRepeats
<1>10. SendsAck(n, a)
  BY <1>3, <1>4, <1>6, <1>8 DEF SendsAck
<1> QED BY <1>4, <1>9, <1>10

(* A new call has a number of its own, so no channel holds it. *)
LEMMA NewCallUnsent ==
  ASSUME CommitInv, NEW n \in Node, NEW c \in Call, c.node_id = n, c.call_id = it[n]
  PROVE  \A m \in Node : CallMessage(c) \notin Sent(n, m)
<1> SUFFICES ASSUME NEW m \in Node, CallMessage(c) \in Sent(n, m) PROVE FALSE
  OBVIOUS
<1>1. c.call_id < it[n]
  BY Messages DEF CommitInv, CallInv, CallsUnderway
<1>2. it[n] \in Nat
  BY SetTypes DEF CommitInv
<1> QED BY <1>1, <1>2

(* Issuing a call, executed or skipped. *)
LEMMA IssueEffect ==
  ASSUME CommitInv, NEW n \in Node, NEW c \in Call,
         c.node_id = n, c.call_id = it[n], it' = [it EXCEPT ![n] = @ + 1],
         UNCHANGED <<committed, ackCounts, unsent_acks>>, Broadcast(n, CallMessage(c)),
         calls' = calls \/ calls' = [calls EXCEPT ![n] = @ \cup {c}]
  PROVE  NoRepeats' /\ Issues(n, c)
<1> USE DEF CommitInv
<1>1. \A m, r \in Node :
        /\ Sent(m, r)' = IF m = n /\ r # n THEN Sent(m, r) \cup {CallMessage(c)} ELSE Sent(m, r)
        /\ IsInjective(net[m][r]) => IsInjective(net'[m][r])
  BY NewCallUnsent, Messages, BroadcastEffect
<1>2. NoRepeats'
  BY <1>1 DEF CallInv, NoRepeats
<1>3. \A m \in Node : /\ it[m] \in Nat \ {0}
                      /\ it'[m] = IF m = n THEN it[m] + 1 ELSE it[m]
  BY MaxCallIdAssumption DEF TypeInv
<1>4. \A m \in Node : \/ calls'[m] = calls[m]
                      \/ m = n /\ calls'[m] = calls[m] \cup {c}
  BY DEF TypeInv
<1>5. \A m \in Node : \/ IdsOf(calls'[m]) = IdsOf(calls[m])
                      \/ m = n /\ IdsOf(calls'[m]) = IdsOf(calls[m]) \cup {IdOf(c)}
  BY <1>4 DEF IdsOf
<1>6. [node_id : {n}, call_id : 1..(it'[n] - 1)]
        = [node_id : {n}, call_id : 1..(it[n] - 1)] \cup {IdOf(c)}
  <2>1. IdOf(c) = [node_id |-> n, call_id |-> it[n]]
    BY DEF IdOf
  <2>2. it'[n] = it[n] + 1 /\ it[n] \in Nat \ {0}
    BY <1>3
  <2>3. 1..(it'[n] - 1) = (1..(it[n] - 1)) \cup {it[n]}
    BY <2>2
  <2> DEFINE S == 1..(it[n] - 1)
             i == it[n]
  <2> HIDE DEF S, i
  <2>4. [node_id : {n}, call_id : S \cup {i}]
          = [node_id : {n}, call_id : S] \cup {[node_id |-> n, call_id |-> i]}
    <3>1. \A x \in [node_id : {n}, call_id : S \cup {i}] :
            /\ x.node_id = n /\ x.call_id \in S \cup {i}
            /\ x = [node_id |-> x.node_id, call_id |-> x.call_id]
      OBVIOUS
    <3>2. \A k \in S : [node_id |-> n, call_id |-> k] \in [node_id : {n}, call_id : S]
      OBVIOUS
    <3>3. \A x \in [node_id : {n}, call_id : S \cup {i}] :
            x \in [node_id : {n}, call_id : S] \cup {[node_id |-> n, call_id |-> i]}
      BY <3>1, <3>2
    <3>4. [node_id |-> n, call_id |-> i] \in [node_id : {n}, call_id : S \cup {i}]
      OBVIOUS
    <3>5. [node_id : {n}, call_id : S] \subseteq [node_id : {n}, call_id : S \cup {i}]
      OBVIOUS
    <3> QED BY <3>3, <3>4, <3>5
  <2> QED BY <2>1, <2>3, <2>4 DEF S, i
<1>7. \A m \in Node : Handled(m)' = IF m = n THEN Handled(m) \cup {IdOf(c)} ELSE Handled(m)
  <2> SUFFICES ASSUME NEW m \in Node
               PROVE  Handled(m)' = IF m = n THEN Handled(m) \cup {IdOf(c)} ELSE Handled(m)
    OBVIOUS
  <2>1. CASE m = n
    <3>1. Handled(n)' = [node_id : {n}, call_id : 1..(it'[n] - 1)] \cup IdsOf(calls'[n])
                          \cup Range(committed[n])
      BY DEF Handled, IdsOf
    <3> QED BY <1>5, <1>6, <2>1, <3>1 DEF Handled
  <2>2. CASE m # n
    BY <1>3, <1>4, <2>2, SameHandled
  <2> QED BY <2>1, <2>2
<1>8. Issues(n, c)
  BY <1>1, <1>5, <1>7 DEF Issues
<1> QED BY <1>2, <1>8

(* Call c is one of the files. *)
FromFile(c) ==
  c.call_id \in DOMAIN file[c.node_id] /\ c.op = file[c.node_id][c.call_id]

(* Node n executes its call c, or leaves all as it is. *)
Executes(n, c) ==
  /\ calls' = [calls EXCEPT ![n] = @ \cup {c}]
  /\ object' = [object EXCEPT ![n] = ApplyCall(useCase, @, c)]
  /\ applied' = [applied EXCEPT ![n] = IF useCase \in MarksApplied THEN @ \cup {IdOf(c)} ELSE @]

Skips == UNCHANGED <<calls, object, applied>>

(* The next call comes from the file. *)
LEMMA NextFromFile ==
  ASSUME TypeInv, NEW n \in Node, HasCall(n)
  PROVE  it[n] \in DOMAIN file[n]
<1>1. file[n] \in Seq(Op)
  BY WorkloadsAssumption DEF TypeInv, file
<1>2. it[n] \in 1..Len(file[n])
  BY <1>1 DEF TypeInv, HasCall
<1> QED BY <1>1, <1>2

(* exeLocal, whether it executes the call or returns at its first test. *)
LEMMA LocalEffect ==
  ASSUME CommitInv, NEW n \in Node, SkipLocal(n) \/ ExecuteLocal(n)
  PROVE  /\ NoRepeats'
         /\ \E c \in Call : /\ Issues(n, c) /\ FromFile(c)
                            /\ Skips \/ Executes(n, c)
<1>1. CASE SkipLocal(n)
  <2> DEFINE c == [NextCall(n) EXCEPT !.vc = Zero]
  <2>1. c \in Call /\ NextCall(n).node_id = n /\ NextCall(n).call_id = it[n]
    BY <1>1, NextCallType DEF CommitInv, SkipLocal
  <2>2. c.node_id = n /\ c.call_id = it[n] /\ c.op = file[n][it[n]]
    BY <2>1 DEF NextCall
  <2>3. /\ it' = [it EXCEPT ![n] = @ + 1] /\ Broadcast(n, CallMessage(c))
        /\ UNCHANGED <<committed, ackCounts, unsent_acks>> /\ calls' = calls
        /\ Skips
    BY <1>1 DEF SkipLocal, graphVars, commitVars, Skips
  <2>4. FromFile(c)
    <3>1. it[n] \in DOMAIN file[n]
      BY <1>1, NextFromFile DEF CommitInv, SkipLocal
    <3> HIDE DEF c
    <3> QED BY <2>2, <3>1 DEF FromFile
  <2> HIDE DEF c
  <2> QED BY <2>1, <2>2, <2>3, <2>4, IssueEffect
<1>2. CASE ExecuteLocal(n)
  <2> DEFINE c == NextCall(n)
  <2>1. c \in Call /\ c.node_id = n /\ c.call_id = it[n] /\ c.op = file[n][it[n]]
    <3>1. c.op = file[n][it[n]]
      BY DEF NextCall
    <3> QED BY <1>2, <3>1, NextCallType DEF CommitInv, TypeInv, ExecuteLocal
  <2>2. /\ it' = [it EXCEPT ![n] = @ + 1] /\ Broadcast(n, CallMessage(c))
        /\ UNCHANGED <<committed, ackCounts, unsent_acks>>
        /\ calls' = [calls EXCEPT ![n] = @ \cup {c}]
        /\ Executes(n, c)
    BY <1>2 DEF ExecuteLocal, commitVars, Executes
  <2>3. FromFile(c)
    <3>1. it[n] \in DOMAIN file[n]
      BY <1>2, NextFromFile DEF CommitInv, TypeInv, ExecuteLocal
    <3> HIDE DEF c
    <3> QED BY <2>1, <3>1 DEF FromFile
  <2> HIDE DEF c
  <2> QED BY <2>1, <2>2, <2>3, IssueEffect
<1> QED BY <1>1, <1>2

(* Node n inserts c into its graph, sorts it and replays the calls. *)
Replays(n, c) ==
  /\ calls' = [calls EXCEPT ![n] = @ \cup {c}]
  /\ \E t \in TopoOrders(calls[n] \cup {c}, edges'[n]) :
       /\ object' = [object EXCEPT ![n] = Replay(@, applied[n], t)]
       /\ applied' = [applied EXCEPT ![n] = @ \cup IdsOf(Range(t))]

(* exeRemote. *)
LEMMA ReceiveCallEffect ==
  ASSUME CommitInv, NEW n \in Node, NEW m \in Node, ReceiveCall(n, m)
  PROVE  NoRepeats' /\ \E c \in Call : Arrives(n, m, c) /\ Replays(n, c)
<1> USE DEF CommitInv
<1> DEFINE h == Head(net[m][n])
           c == h.call
<1>1. /\ UNCHANGED <<it, committed, ackCounts>>
      /\ net[m][n] # <<>> /\ net' = [net EXCEPT ![m][n] = Tail(@)]
      /\ h.kind = "Call"
      /\ calls' = [calls EXCEPT ![n] = @ \cup {c}]
      /\ unsent_acks' = [unsent_acks EXCEPT ![n] = Append(@, IdOf(c))]
      /\ Replays(n, c)
  BY DEF ReceiveCall, commitVars, TypeInv, Replays
<1>2. h \in Message
  BY <1>1, TakeType
<1>3. c \in Call /\ h = CallMessage(c) /\ IdOf(c) \in CallId
  BY <1>1, <1>2, Messages, IdOfCall
<1>4. /\ h \in Sent(m, n)
      /\ \A k, r \in Node :
           /\ Sent(k, r)' = IF k = m /\ r = n THEN Sent(k, r) \ {h} ELSE Sent(k, r)
           /\ IsInjective(net'[k][r])
  BY <1>1, TakeEffect DEF CallInv
<1> HIDE DEF h, c
<1>5. IdOf(c) \notin Handled(n) /\ IdOf(c) \notin Unsent(n)
  <2>1. IdOf(c) \notin Handled(n)
    BY <1>3, <1>4, Messages DEF CallInv, CallsUnderway
  <2> QED BY <2>1 DEF AckInv, AcksUnderway
<1>6. \A r \in Node : /\ Unsent(r)' = IF r = n THEN Unsent(r) \cup {IdOf(c)} ELSE Unsent(r)
                      /\ IsInjective(unsent_acks'[r])
  <2>1. unsent_acks[n] \in Seq(CallId) /\ IsInjective(unsent_acks[n])
    BY DEF TypeInv, CallInv, NoRepeats
  <2>2. /\ Range(Append(unsent_acks[n], IdOf(c))) = Range(unsent_acks[n]) \cup {IdOf(c)}
        /\ IsInjective(Append(unsent_acks[n], IdOf(c)))
    BY <1>3, <1>5, <2>1, AppendElements DEF Unsent
  <2>3. \A r \in Node : unsent_acks'[r] = IF r = n THEN Append(unsent_acks[n], IdOf(c))
                                                   ELSE unsent_acks[r]
    BY <1>1 DEF TypeInv
  <2> QED BY <2>2, <2>3 DEF Unsent, CallInv, NoRepeats
<1>7. NoRepeats'
  BY <1>4, <1>6 DEF NoRepeats
<1>8. \A r \in Node :
        /\ IdsOf(calls'[r]) = IF r = n THEN IdsOf(calls[r]) \cup {IdOf(c)} ELSE IdsOf(calls[r])
        /\ Handled(r)' = IF r = n THEN Handled(r) \cup {IdOf(c)} ELSE Handled(r)
  <2> SUFFICES ASSUME NEW r \in Node
        PROVE  /\ IdsOf(calls'[r]) = IF r = n THEN IdsOf(calls[r]) \cup {IdOf(c)} ELSE IdsOf(calls[r])
               /\ Handled(r)' = IF r = n THEN Handled(r) \cup {IdOf(c)} ELSE Handled(r)
    OBVIOUS
  <2>1. calls'[r] = IF r = n THEN calls[r] \cup {c} ELSE calls[r]
    BY <1>1 DEF TypeInv
  <2>2. IdsOf(calls'[r]) = IF r = n THEN IdsOf(calls[r]) \cup {IdOf(c)} ELSE IdsOf(calls[r])
    BY <2>1 DEF IdsOf
  <2>3. Handled(r)' = [node_id : {r}, call_id : 1..(it[r] - 1)] \cup IdsOf(calls'[r])
                        \cup Range(committed[r])
    BY <1>1 DEF Handled, IdsOf
  <2> QED BY <2>2, <2>3 DEF Handled
<1>9. Arrives(n, m, c)
  BY <1>1, <1>3, <1>4, <1>6, <1>8 DEF Arrives
<1> QED BY <1>1, <1>3, <1>7, <1>9


(* Node n commits a: it leaves the calls in flight for the log. *)
Commits(n, a) ==
  /\ a \in IdsOf(calls[n]) /\ ackCounts[n][a] + 1 >= Required(n, a)
  /\ committed' = [committed EXCEPT ![n] = Append(@, a)]

(* handleAckAndMaybeStabilize. *)
LEMMA ReceiveAckEffect ==
  ASSUME CommitInv, NEW n \in Node, NEW m \in Node, ReceiveAck(n, m)
  PROVE  /\ NoRepeats' /\ CommittedOnce'
         /\ \E a \in CallId : /\ Counts(n, m, a)
                              /\ Commits(n, a) \/ committed' = committed
<1> USE DEF CommitInv
<1> DEFINE h == Head(net[m][n])
           a == h.ack
           stable == {c \in calls[n] : IdOf(c) = a /\ ackCounts[n][a] + 1 >= Required(n, a)}
<1>1. /\ UNCHANGED <<it, unsent_acks>>
      /\ net[m][n] # <<>> /\ net' = [net EXCEPT ![m][n] = Tail(@)]
      /\ h.kind = "Ack"
      /\ ackCounts' = [ackCounts EXCEPT ![n][a] = ackCounts[n][a] + 1]
      /\ calls' = [calls EXCEPT ![n] = @ \ stable]
      /\ committed' = [committed EXCEPT ![n] = IF stable = {} THEN @ ELSE Append(@, a)]
  BY DEF ReceiveAck
<1>2. h \in Message
  BY <1>1, TakeType
<1>3. a \in CallId /\ h = AckMessage(a)
  BY <1>1, <1>2, Messages
<1>4. /\ h \in Sent(m, n)
      /\ \A k, r \in Node :
           /\ Sent(k, r)' = IF k = m /\ r = n THEN Sent(k, r) \ {h} ELSE Sent(k, r)
           /\ IsInjective(net'[k][r])
  BY <1>1, TakeEffect DEF CallInv
<1>5. NoRepeats'
  BY <1>1, <1>4 DEF NoRepeats, CallInv
<1>6. \A r \in Node : /\ calls'[r] = IF r = n THEN calls[r] \ stable ELSE calls[r]
                      /\ committed'[r] = IF r = n /\ stable # {} THEN Append(committed[r], a)
                                                                 ELSE committed[r]
  <2> HIDE DEF a, stable
  <2> QED BY <1>1 DEF TypeInv
<1>7. CASE stable = {}
  <2>1. \A r \in Node : calls'[r] = calls[r] /\ committed'[r] = committed[r]
    BY <1>6, <1>7
  <2>2. committed' = committed
    <3>1. committed' = [committed EXCEPT ![n] = @]
      BY <1>1, <1>7
    <3> QED BY <3>1 DEF TypeInv
  <2>3. \A r \in Node : Handled(r)' = Handled(r) /\ IdsOf(calls'[r]) = IdsOf(calls[r])
    BY <1>1, <2>1, SameHandled
  <2>4. CommittedOnce'
    BY <2>1 DEF CallInv, CommittedOnce, IdsOf
  <2>5. Counts(n, m, a)
    <3> HIDE DEF a, h, stable
    <3> QED BY <1>1, <1>3, <1>4, <2>3 DEF Counts
  <2> QED BY <1>3, <1>5, <2>2, <2>4, <2>5
<1>8. CASE stable # {}
  <2>1. a \in IdsOf(calls[n]) /\ ackCounts[n][a] + 1 >= Required(n, a)
    BY <1>8 DEF IdsOf
  <2>2. committed' = [committed EXCEPT ![n] = Append(@, a)]
    BY <1>1, <1>8
  <2>3. IdsOf(calls[n] \ stable) = IdsOf(calls[n]) \ {a}
    <3>1. stable = {c \in calls[n] : IdOf(c) = a}
      BY <2>1
    <3> HIDE DEF a, stable
    <3> QED BY <3>1 DEF IdsOf
  <2> HIDE DEF a, stable, h
  <2>4. Range(Append(committed[n], a)) = Range(committed[n]) \cup {a}
    <3>1. committed[n] \in Seq(CallId)
      BY DEF TypeInv
    <3> QED BY <1>3, <3>1, AppendElements
  <2>5. ASSUME NEW r \in Node
        PROVE  /\ Handled(r)' = Handled(r)
               /\ IdsOf(calls'[r]) \cap Range(committed'[r]) = {}
    <3>1. CASE r = n
      <4>1. /\ IdsOf(calls'[n]) = IdsOf(calls[n]) \ {a}
            /\ Range(committed'[n]) = Range(committed[n]) \cup {a}
        BY <1>6, <1>8, <2>3, <2>4
      <4>2. Handled(n)' = [node_id : {n}, call_id : 1..(it[n] - 1)]
                            \cup IdsOf(calls'[n]) \cup Range(committed'[n])
        BY <1>1 DEF Handled, IdsOf
      <4>3. Handled(n)' = Handled(n)
        BY <2>1, <4>1, <4>2 DEF Handled
      <4>4. IdsOf(calls'[n]) \cap Range(committed'[n]) = {}
        BY <4>1 DEF CallInv, CommittedOnce
      <4> QED BY <3>1, <4>3, <4>4
    <3>2. CASE r # n
      <4>1. calls'[r] = calls[r] /\ committed'[r] = committed[r]
        BY <1>6, <3>2
      <4>2. Handled(r)' = Handled(r)
        BY <1>1, <4>1, SameHandled
      <4> QED BY <4>1, <4>2 DEF CallInv, CommittedOnce
    <3> QED BY <3>1, <3>2
  <2>6. CommittedOnce'
    BY <2>5 DEF CommittedOnce, IdsOf
  <2>7. Counts(n, m, a)
    BY <1>1, <1>3, <1>4, <2>5 DEF Counts
  <2>8. Commits(n, a)
    BY <2>1, <2>2 DEF Commits
  <2> QED BY <1>3, <1>5, <2>6, <2>7, <2>8
<1> QED BY <1>7, <1>8

-----------------------------------------------------------------------------
(* The steps and where the calls are.                                      *)

(* A new call is in the channels to all others and nowhere else. *)
LEMMA IssuesCalls ==
  ASSUME CommitInv, NEW n \in Node, NEW c \in Call, Issues(n, c)
  PROVE  Origins' /\ CommittedOnce' /\ CallsUnderway'
<1> USE DEF CommitInv
<1>1. /\ c.node_id = n /\ c.call_id = it[n] /\ committed' = committed
      /\ \A m, r \in Node :
           /\ IdsOf(calls'[m]) \subseteq IF m = n THEN IdsOf(calls[m]) \cup {IdOf(c)} ELSE IdsOf(calls[m])
           /\ Handled(m)' = IF m = n THEN Handled(m) \cup {IdOf(c)} ELSE Handled(m)
           /\ Sent(m, r)' = IF m = n /\ r # n THEN Sent(m, r) \cup {CallMessage(c)} ELSE Sent(m, r)
  BY DEF Issues
<1>2. IdOf(c) \in CallId /\ IdOf(c).node_id = n /\ IdOf(c).call_id = it[n]
  BY <1>1, IdOfCall
<1>3. \A m \in Node : /\ it[m] \in Nat /\ it[m] < it[m] + 1
                      /\ it'[m] = IF m = n THEN it[m] + 1 ELSE it[m]
  <2>1. it' = [it EXCEPT ![n] = @ + 1]
    BY DEF Issues
  <2> QED BY <2>1, SetTypes DEF TypeInv
<1>4. \A m \in Node : Handled(m) \subseteq CallId
  BY SetTypes
<1>5. \A a \in CallId : a.node_id \in Node /\ a.call_id \in Nat
  BY MaxCallIdAssumption DEF CallId
<1>6. \A a \in CallId : a.call_id < it[a.node_id] => a.call_id < it'[a.node_id]
  <2> SUFFICES ASSUME NEW a \in CallId, a.call_id < it[a.node_id] PROVE a.call_id < it'[a.node_id]
    OBVIOUS
  <2> DEFINE r == a.node_id
             k == a.call_id
  <2>1. r \in Node /\ k \in Nat /\ k < it[r]
    BY <1>5
  <2> HIDE DEF r, k
  <2>2. k < it'[r]
    BY <1>3, <2>1
  <2> QED BY <2>2 DEF r, k
<1>7. Origins'
  <2> SUFFICES ASSUME NEW m \in Node, NEW a \in Handled(m)' PROVE a.call_id < it'[a.node_id]
    BY DEF Origins
  <2>1. CASE a \in Handled(m)
    BY <1>4, <1>6, <2>1 DEF CallInv, Origins
  <2>2. CASE a = IdOf(c)
    BY <1>2, <1>3, <2>2
  <2> QED BY <1>1, <2>1, <2>2
<1>8. \A m \in Node : IdOf(c) \notin Handled(m)
  <2> SUFFICES ASSUME NEW m \in Node, IdOf(c) \in Handled(m) PROVE FALSE
    OBVIOUS
  <2>1. it[n] < it[n]
    BY <1>2 DEF CallInv, Origins
  <2> QED BY <1>3, <2>1
<1>9. CommittedOnce'
  <2> SUFFICES ASSUME NEW m \in Node PROVE IdsOf(calls'[m]) \cap Range(committed[m]) = {}
    BY <1>1 DEF CommittedOnce, IdsOf
  <2>1. IdOf(c) \notin Range(committed[m])
    BY <1>8 DEF Handled
  <2>2. IdsOf(calls[m]) \cap Range(committed[m]) = {}
    BY DEF CallInv, CommittedOnce
  <2> QED BY <1>1, <2>1, <2>2
<1>10. CallsUnderway'
  <2> SUFFICES ASSUME NEW m \in Node, NEW r \in Node, NEW x \in Sent(m, r)', x.kind = "Call"
               PROVE  /\ m # r /\ x.call.node_id = m /\ x.call.call_id < it'[m]
                      /\ IdOf(x.call) \notin Handled(r)'
                      /\ \A y \in Sent(m, r)' : y.kind = "Call" /\ IdOf(y.call) = IdOf(x.call) => y = x
    BY DEF CallsUnderway
  <2>1. ASSUME NEW y \in Sent(m, r), y.kind = "Call"
        PROVE  /\ m # r /\ y.call.node_id = m /\ y.call.call_id < it[m]
               /\ y.call \in Call /\ y.call.call_id \in Nat
               /\ IdOf(y.call) \notin Handled(r) /\ IdOf(y.call) # IdOf(c)
    <3>1. /\ m # r /\ y.call.node_id = m /\ y.call.call_id < it[m]
          /\ IdOf(y.call) \notin Handled(r)
      BY <2>1 DEF CallInv, CallsUnderway
    <3>2. y \in Message
      BY SetTypes
    <3>3. y.call \in Call
      BY <2>1, <3>2, Messages
    <3>4. /\ IdOf(y.call).node_id = m /\ IdOf(y.call).call_id = y.call.call_id
          /\ y.call.call_id \in Nat
      BY <3>1, <3>3, IdOfCall
    <3>5. ASSUME IdOf(y.call) = IdOf(c) PROVE FALSE
      <4>1. m = n /\ y.call.call_id = it[n]
        BY <1>2, <3>4, <3>5
      <4> QED BY <1>3, <3>1, <4>1
    <3> QED BY <3>1, <3>3, <3>4, <3>5
  <2>2. CASE x \in Sent(m, r)
    <3>1. x.call.call_id < it'[m]
      <4>1. it'[m] \in Nat /\ it[m] \in Nat /\ it[m] <= it'[m]
        BY <1>3
      <4> QED BY <2>1, <2>2, <4>1
    <3>2. IdOf(x.call) \notin Handled(r)'
      BY <1>1, <2>1, <2>2
    <3>3. ASSUME NEW y \in Sent(m, r)', y.kind = "Call", IdOf(y.call) = IdOf(x.call) PROVE y = x
      <4>1. y \in Sent(m, r) \/ y = CallMessage(c)
        BY <1>1
      <4>2. y # CallMessage(c)
        BY <2>1, <2>2, <3>3, Messages
      <4> QED BY <2>2, <3>3, <4>1, <4>2 DEF CallInv, CallsUnderway
    <3> QED BY <2>1, <2>2, <3>1, <3>2, <3>3
  <2>3. CASE x = CallMessage(c) /\ m = n /\ r # n
    <3>1. x.call = c
      BY <2>3, Messages
    <3>2. IdOf(c) \notin Handled(r)'
      BY <1>1, <1>8, <2>3
    <3>3. ASSUME NEW y \in Sent(m, r)', y.kind = "Call", IdOf(y.call) = IdOf(x.call) PROVE y = x
      BY <1>1, <2>1, <2>3, <3>1, <3>3
    <3> QED BY <1>1, <1>3, <2>3, <3>1, <3>2, <3>3
  <2> QED BY <1>1, <2>2, <2>3
<1> QED BY <1>7, <1>9, <1>10

(* A call that arrives is the only one of its name in the channel. *)
LEMMA ArrivesCalls ==
  ASSUME CommitInv, NEW n \in Node, NEW m \in Node, NEW c \in Call, Arrives(n, m, c)
  PROVE  /\ Origins' /\ CommittedOnce' /\ CallsUnderway'
         /\ c.node_id = m /\ m # n /\ IdOf(c) \notin Handled(n) /\ IdOf(c) \in Handled(m)
<1> USE DEF CommitInv
<1>1. /\ it' = it /\ committed' = committed /\ CallMessage(c) \in Sent(m, n)
      /\ \A k, r \in Node :
           /\ IdsOf(calls'[r]) = IF r = n THEN IdsOf(calls[r]) \cup {IdOf(c)} ELSE IdsOf(calls[r])
           /\ Handled(r)' = IF r = n THEN Handled(r) \cup {IdOf(c)} ELSE Handled(r)
           /\ Sent(k, r)' = IF k = m /\ r = n THEN Sent(k, r) \ {CallMessage(c)} ELSE Sent(k, r)
  BY DEF Arrives
<1>2. /\ m # n /\ c.node_id = m /\ c.call_id < it[m] /\ IdOf(c) \notin Handled(n)
      /\ \A y \in Sent(m, n) : y.kind = "Call" /\ IdOf(y.call) = IdOf(c) => y = CallMessage(c)
  BY <1>1, Messages DEF CallInv, CallsUnderway
<1>3. /\ IdOf(c) \in CallId /\ IdOf(c).node_id = m /\ IdOf(c).call_id = c.call_id
  BY <1>2, IdOfCall
<1>4. IdOf(c) \in Handled(m)
  BY <1>2, <1>3, OwnHandled
<1>5. Origins'
  BY <1>1, <1>2, <1>3 DEF CallInv, Origins
<1>6. CommittedOnce'
  <2> SUFFICES ASSUME NEW r \in Node PROVE IdsOf(calls'[r]) \cap Range(committed[r]) = {}
    BY <1>1 DEF CommittedOnce, IdsOf
  <2>1. IdOf(c) \notin Range(committed[n])
    BY <1>2 DEF Handled
  <2>2. IdsOf(calls[r]) \cap Range(committed[r]) = {}
    BY DEF CallInv, CommittedOnce
  <2> QED BY <1>1, <2>1, <2>2
<1>7. CallsUnderway'
  <2> SUFFICES ASSUME NEW k \in Node, NEW r \in Node, NEW x \in Sent(k, r)', x.kind = "Call"
               PROVE  /\ k # r /\ x.call.node_id = k /\ x.call.call_id < it[k]
                      /\ IdOf(x.call) \notin Handled(r)'
                      /\ \A y \in Sent(k, r)' : y.kind = "Call" /\ IdOf(y.call) = IdOf(x.call) => y = x
    BY <1>1 DEF CallsUnderway
  <2>1. x \in Sent(k, r) /\ Sent(k, r)' \subseteq Sent(k, r)
    BY <1>1
  <2>2. /\ k # r /\ x.call.node_id = k /\ x.call.call_id < it[k]
        /\ IdOf(x.call) \notin Handled(r)
        /\ \A y \in Sent(k, r) : y.kind = "Call" /\ IdOf(y.call) = IdOf(x.call) => y = x
    BY <2>1 DEF CallInv, CallsUnderway
  <2>3. ASSUME r = n, IdOf(x.call) = IdOf(c) PROVE FALSE
    <3>1. x.call \in Call
      <4>1. x \in Message
        BY <2>1, SetTypes
      <4> QED BY <4>1, Messages
    <3>2. k = m
      BY <1>3, <2>2, <2>3, <3>1, IdOfCall
    <3>3. x = CallMessage(c)
      BY <1>2, <2>1, <2>3, <3>2
    <3> QED BY <1>1, <2>3, <3>2, <3>3
  <2>4. IdOf(x.call) \notin Handled(r)'
    BY <1>1, <2>2, <2>3
  <2> QED BY <2>1, <2>2, <2>4
<1> QED BY <1>2, <1>4, <1>5, <1>6, <1>7

(* Steps about acknowledgements move no call. *)
LEMMA AckStepsCalls ==
  ASSUME CommitInv, NEW n \in Node, NEW m \in Node, NEW a \in CallId,
         SendsAck(n, a) \/ Counts(n, m, a)
  PROVE  Origins' /\ CallsUnderway' /\ (SendsAck(n, a) => CommittedOnce')
<1>1. it' = it /\ \A r \in Node : Handled(r)' = Handled(r)
  BY SameHandled DEF SendsAck, Counts
<1>2. \A k, r \in Node : \A x : x.kind = "Call" => (x \in Sent(k, r)' <=> x \in Sent(k, r))
  <2>1. AckMessage(a).kind # "Call"
    BY Messages
  <2> QED BY <2>1 DEF SendsAck, Counts
<1>3. Origins'
  BY <1>1 DEF CommitInv, CallInv, Origins
<1>4. CallsUnderway'
  BY <1>1, <1>2 DEF CommitInv, CallInv, CallsUnderway
<1>5. SendsAck(n, a) => CommittedOnce'
  BY DEF SendsAck, CommitInv, CallInv, CommittedOnce, IdsOf
<1> QED BY <1>3, <1>4, <1>5

-----------------------------------------------------------------------------
(* The steps and what is counted.                                          *)

(* The sets of nodes that are counted are finite. *)
LEMMA CountedFinite ==
  ASSUME NEW n \in Node, NEW a
  PROVE  IsFiniteSet(Counted(n, a)) /\ Cardinality(Counted(n, a)) \in Nat
<1>1. 1 \in Int /\ N \in Int
  BY NAssumption
<1>2. IsFiniteSet(Node)
  BY <1>1, FS_Interval DEF Node
<1>3. Counted(n, a) \subseteq Node
  BY DEF Counted
<1>4. IsFiniteSet(Counted(n, a))
  BY <1>2, <1>3, FS_Subset
<1> QED BY <1>4, FS_CardinalityType

(* Whatever leaves the sets of counted nodes alone keeps the counts right. *)
LEMMA SameCounts ==
  ASSUME AckInv, ackCounts' = ackCounts,
         \A r, m \in Node : \A b \in CallId : m \in Counted(r, b)' <=> m \in Counted(r, b)
  PROVE  AcksCounted'
<1>1. ASSUME NEW r \in Node, NEW b \in CallId PROVE Counted(r, b)' = Counted(r, b)
  <2>1. Counted(r, b) \subseteq Node /\ Counted(r, b)' \subseteq Node
    BY DEF Counted
  <2> QED BY <2>1
<1> QED BY <1>1 DEF AckInv, AcksCounted

(* A sent acknowledgement was unsent before: it is counted neither way. *)
LEMMA SendsAckAcks ==
  ASSUME CommitInv, NEW n \in Node, NEW a \in CallId, SendsAck(n, a)
  PROVE  AckInv'
<1> USE DEF CommitInv
<1>1. /\ ackCounts' = ackCounts /\ a \in Unsent(n)
      /\ \A m \in Node : Handled(m)' = Handled(m)
      /\ \A m, r \in Node :
           /\ Unsent(m)' = IF m = n THEN Unsent(m) \ {a} ELSE Unsent(m)
           /\ Sent(m, r)' = IF m = n /\ r # n THEN Sent(m, r) \cup {AckMessage(a)} ELSE Sent(m, r)
  BY SameHandled DEF SendsAck
<1>2. a \in Handled(n) /\ a.node_id # n
  BY <1>1 DEF AckInv, AcksUnderway
<1>3. AcksUnderway'
  <2>1. ASSUME NEW m \in Node, NEW b \in Unsent(m)' PROVE b \in Handled(m)' /\ b.node_id # m
    BY <1>1 DEF AckInv, AcksUnderway
  <2>2. ASSUME NEW m \in Node, NEW r \in Node, NEW x \in Sent(m, r)', x.kind = "Ack"
        PROVE  m # r /\ x.ack \in Handled(m)' /\ x.ack.node_id # m /\ x.ack \notin Unsent(m)'
    <3>1. CASE x \in Sent(m, r)
      BY <1>1, <2>2, <3>1 DEF AckInv, AcksUnderway
    <3>2. CASE x = AckMessage(a) /\ m = n /\ r # n
      BY <1>1, <1>2, <3>2, Messages
    <3> QED BY <1>1, <3>1, <3>2
  <2> QED BY <2>1, <2>2 DEF AcksUnderway
<1>4. ASSUME NEW r \in Node, NEW m \in Node, NEW b \in CallId
      PROVE  m \in Counted(r, b)' <=> m \in Counted(r, b)
  <2>1. AckMessage(b) = AckMessage(a) => b = a
    BY Messages
  <2>2. CASE m = n /\ b = a
    BY <1>1, <2>2 DEF Counted
  <2>3. CASE ~(m = n /\ b = a)
    BY <1>1, <2>1, <2>3 DEF Counted
  <2> QED BY <2>2, <2>3
<1>5. AcksCounted'
  BY <1>1, <1>4, SameCounts
<1> QED BY <1>3, <1>5 DEF AckInv

(* A new call has no acknowledgements: its issuer does not send any. *)
LEMMA IssuesAcks ==
  ASSUME CommitInv, NEW n \in Node, NEW c \in Call, Issues(n, c)
  PROVE  AckInv'
<1> USE DEF CommitInv
<1>1. /\ ackCounts' = ackCounts
      /\ \A m \in Node : Handled(m) \subseteq Handled(m)'
      /\ \A m \in Node : \A b : b.node_id # m /\ b \in Handled(m)' => b \in Handled(m)
  BY DEF Issues, IdOf
<1>2. \A m \in Node : Unsent(m)' = Unsent(m)
  BY DEF Issues, Unsent
<1>3. \A m, r \in Node : \A x : x.kind = "Ack" => (x \in Sent(m, r)' <=> x \in Sent(m, r))
  <2>1. CallMessage(c).kind # "Ack"
    BY Messages
  <2> QED BY <2>1 DEF Issues
<1>4. AcksUnderway'
  BY <1>1, <1>2, <1>3 DEF AckInv, AcksUnderway
<1>5. ASSUME NEW r \in Node, NEW m \in Node, NEW b \in CallId
      PROVE  m \in Counted(r, b)' <=> m \in Counted(r, b)
  <2>1. AckMessage(b).kind = "Ack"
    BY Messages
  <2> QED BY <1>1, <1>2, <1>3, <2>1 DEF Counted
<1>6. AcksCounted'
  BY <1>1, <1>5, SameCounts
<1> QED BY <1>4, <1>6 DEF AckInv

(* A call that arrives owes its acknowledgement. *)
LEMMA ArrivesAcks ==
  ASSUME CommitInv, NEW n \in Node, NEW m \in Node, NEW c \in Call, Arrives(n, m, c)
  PROVE  AckInv'
<1> USE DEF CommitInv
<1> DEFINE a == IdOf(c)
<1>1. /\ ackCounts' = ackCounts
      /\ \A r \in Node : /\ Handled(r)' = IF r = n THEN Handled(r) \cup {a} ELSE Handled(r)
                         /\ Unsent(r)' = IF r = n THEN Unsent(r) \cup {a} ELSE Unsent(r)
  BY DEF Arrives
<1>2. \A k, r \in Node : \A x : x.kind = "Ack" => (x \in Sent(k, r)' <=> x \in Sent(k, r))
  <2>1. CallMessage(c).kind # "Ack"
    BY Messages
  <2> QED BY <2>1 DEF Arrives
<1>3. a.node_id # n /\ a \notin Handled(n)
  BY ArrivesCalls, IdOfCall
<1> HIDE DEF a
<1>4. AcksUnderway'
  <2>1. ASSUME NEW r \in Node, NEW b \in Unsent(r)' PROVE b \in Handled(r)' /\ b.node_id # r
    BY <1>1, <1>3 DEF AckInv, AcksUnderway
  <2>2. ASSUME NEW k \in Node, NEW r \in Node, NEW x \in Sent(k, r)', x.kind = "Ack"
        PROVE  k # r /\ x.ack \in Handled(k)' /\ x.ack.node_id # k /\ x.ack \notin Unsent(k)'
    <3>1. k # r /\ x.ack \in Handled(k) /\ x.ack.node_id # k /\ x.ack \notin Unsent(k)
      BY <1>2, <2>2 DEF AckInv, AcksUnderway
    <3> QED BY <1>1, <1>3, <3>1
  <2> QED BY <2>1, <2>2 DEF AcksUnderway
<1>5. ASSUME NEW r \in Node, NEW k \in Node, NEW b \in CallId
      PROVE  k \in Counted(r, b)' <=> k \in Counted(r, b)
  <2>1. AckMessage(b).kind = "Ack"
    BY Messages
  <2>2. CASE k = n /\ b = a
    BY <1>1, <1>3, <2>2 DEF Counted
  <2>3. CASE ~(k = n /\ b = a)
    BY <1>1, <1>2, <2>1, <2>3 DEF Counted
  <2> QED BY <2>2, <2>3
<1>6. AcksCounted'
  BY <1>1, <1>5, SameCounts
<1> QED BY <1>4, <1>6 DEF AckInv

(* An acknowledgement that is received is counted for one node more. *)
LEMMA CountsAcks ==
  ASSUME CommitInv, NEW n \in Node, NEW m \in Node, NEW a \in CallId, Counts(n, m, a)
  PROVE  AckInv'
<1> USE DEF CommitInv
<1>1. /\ AckMessage(a) \in Sent(m, n)
      /\ \A k, r \in Node :
           /\ Handled(r)' = Handled(r) /\ Unsent(r)' = Unsent(r)
           /\ Sent(k, r)' = IF k = m /\ r = n THEN Sent(k, r) \ {AckMessage(a)} ELSE Sent(k, r)
  BY DEF Counts, Unsent
<1>2. m # n /\ a \in Handled(m) /\ a.node_id # m /\ a \notin Unsent(m)
  BY <1>1, Messages DEF AckInv, AcksUnderway
<1>3. AcksUnderway'
  BY <1>1 DEF AckInv, AcksUnderway
<1>4. ASSUME NEW r \in Node, NEW b \in CallId
      PROVE  /\ ackCounts[r][b] \in Nat
             /\ ackCounts'[r][b] = IF r = n /\ b = a THEN ackCounts[r][b] + 1 ELSE ackCounts[r][b]
  <2>1. ackCounts \in [Node -> [CallId -> Nat]]
    BY DEF TypeInv
  <2>2. ackCounts' = [ackCounts EXCEPT ![n][a] = @ + 1]
    BY DEF Counts
  <2>3. ackCounts'[r] = IF r = n THEN [ackCounts[n] EXCEPT ![a] = @ + 1] ELSE ackCounts[r]
    BY <2>1, <2>2
  <2>4. ackCounts[n] \in [CallId -> Nat] /\ ackCounts[r] \in [CallId -> Nat]
    BY <2>1
  <2> QED BY <2>3, <2>4
<1>5. ASSUME NEW r \in Node, NEW b \in CallId
      PROVE  ackCounts'[r][b] = Cardinality(Counted(r, b)')
  <2>1. ackCounts[r][b] = Cardinality(Counted(r, b))
    BY DEF AckInv, AcksCounted
  <2>2. CASE r = n /\ b = a
    <3>1. Counted(n, a)' = Counted(n, a) \cup {m}
      <4>1. ASSUME NEW k \in Node PROVE k \in Counted(n, a)' <=> k \in Counted(n, a) \/ k = m
        <5>1. CASE k = m
          BY <1>1, <1>2, <5>1 DEF Counted
        <5>2. CASE k # m
          BY <1>1, <5>2 DEF Counted
        <5> QED BY <5>1, <5>2
      <4>2. Counted(n, a) \subseteq Node /\ Counted(n, a)' \subseteq Node
        BY DEF Counted
      <4> QED BY <4>1, <4>2
    <3>2. m \notin Counted(n, a)
      BY <1>1 DEF Counted
    <3>3. Cardinality(Counted(n, a) \cup {m}) = Cardinality(Counted(n, a)) + 1
      BY <3>2, CountedFinite, FS_AddElement
    <3> QED BY <1>4, <2>1, <2>2, <3>1, <3>3
  <2>3. CASE ~(r = n /\ b = a)
    <3>1. Counted(r, b)' = Counted(r, b)
      <4>1. \A k \in Node : AckMessage(b) \in Sent(k, r)' <=> AckMessage(b) \in Sent(k, r)
        <5>1. AckMessage(b) = AckMessage(a) => b = a
          BY Messages
        <5> QED BY <1>1, <2>3, <5>1
      <4>2. \A k \in Node : k \in Counted(r, b)' <=> k \in Counted(r, b)
        BY <1>1, <4>1 DEF Counted
      <4>3. Counted(r, b) \subseteq Node /\ Counted(r, b)' \subseteq Node
        BY DEF Counted
      <4> QED BY <4>2, <4>3
    <3> QED BY <1>4, <2>1, <2>3, <3>1
  <2> QED BY <2>2, <2>3
<1>6. AcksCounted'
  BY <1>5 DEF AcksCounted
<1> QED BY <1>3, <1>6 DEF AckInv

-----------------------------------------------------------------------------
(* CommitInv is an invariant.                                              *)

(* At first there are no calls and no acknowledgements. *)
LEMMA InitCommit == Init => CommitInv
<1> SUFFICES ASSUME Init PROVE CallInv /\ AckInv
  BY InitTypes DEF CommitInv
<1>1. /\ \A n \in Node : /\ it[n] = 1 /\ calls[n] = {} /\ committed[n] = <<>>
                         /\ unsent_acks[n] = <<>>
                         /\ \A m \in Node : net[m][n] = <<>>
      /\ ackCounts = [n \in Node |-> [a \in CallId |-> 0]]
  BY DEF Init
<1>2. Range(<<>>) = {} /\ IsInjective(<<>>)
  BY DEF Range, IsInjective
<1>3. \A n \in Node : /\ Handled(n) = {} /\ Unsent(n) = {}
                      /\ \A m \in Node : Sent(m, n) = {}
  <2>1. ASSUME NEW n \in Node PROVE Handled(n) = {}
    <3>1. [node_id : {n}, call_id : 1..(1 - 1)] = {}
      OBVIOUS
    <3> QED BY <1>1, <1>2, <3>1 DEF Handled, IdsOf
  <2> QED BY <1>1, <1>2, <2>1 DEF Unsent, Sent
<1>4. NoRepeats
  BY <1>1, <1>2 DEF NoRepeats
<1>5. Origins /\ CallsUnderway /\ AcksUnderway
  BY <1>3 DEF Origins, CallsUnderway, AcksUnderway
<1>6. CommittedOnce
  BY <1>1 DEF CommittedOnce, IdsOf
<1>7. AcksCounted
  <2> SUFFICES ASSUME NEW n \in Node, NEW a \in CallId PROVE ackCounts[n][a] = Cardinality(Counted(n, a))
    BY DEF AcksCounted
  <2>1. Counted(n, a) = {}
    BY <1>3 DEF Counted
  <2> QED BY <1>1, <2>1, FS_EmptySet
<1> QED BY <1>4, <1>5, <1>6, <1>7 DEF CallInv, AckInv

(* What CommitInv reads stays as it is. *)
LEMMA SameCommit ==
  ASSUME CommitInv, UNCHANGED <<it, calls, committed, ackCounts, unsent_acks, net>>
  PROVE  CallInv' /\ AckInv'
<1>1. \A n \in Node : /\ Handled(n)' = Handled(n) /\ Unsent(n)' = Unsent(n)
                      /\ \A m \in Node : Sent(m, n)' = Sent(m, n)
  BY SameHandled DEF Unsent, Sent
<1>2. NoRepeats' /\ CommittedOnce'
  BY DEF CommitInv, CallInv, NoRepeats, CommittedOnce, IdsOf
<1>3. Origins' /\ CallsUnderway'
  BY <1>1 DEF CommitInv, CallInv, Origins, CallsUnderway
<1>4. AcksUnderway'
  BY <1>1 DEF CommitInv, AckInv, AcksUnderway
<1>5. AcksCounted'
  BY <1>1, SameCounts DEF CommitInv, Counted
<1> QED BY <1>2, <1>3, <1>4, <1>5 DEF CallInv, AckInv

(* Every step keeps the invariant. *)
LEMMA StepCommit == CommitInv /\ [Next]_vars => CommitInv'
<1> SUFFICES ASSUME CommitInv, [Next]_vars PROVE CallInv' /\ AckInv'
  BY StepTypes DEF CommitInv
<1>1. CASE UNCHANGED vars
  BY <1>1, SameCommit DEF vars, graphVars, commitVars
<1>2. ASSUME NEW n \in Node, SendAck(n) PROVE CallInv' /\ AckInv'
  <2>1. PICK a \in CallId : SendsAck(n, a)
    BY <1>2, SendAckEffect
  <2>2. NoRepeats'
    BY <1>2, SendAckEffect
  <2>3. Origins' /\ CallsUnderway' /\ CommittedOnce'
    BY <2>1, AckStepsCalls
  <2>4. AckInv'
    BY <2>1, SendsAckAcks
  <2> QED BY <2>2, <2>3, <2>4 DEF CallInv
<1>3. ASSUME NEW n \in Node, NoAckToSend(n) \/ TestLocal(n) PROVE CallInv' /\ AckInv'
  BY <1>3, SameCommit DEF NoAckToSend, TestLocal, graphVars, commitVars
<1>4. ASSUME NEW n \in Node, SkipLocal(n) \/ ExecuteLocal(n) PROVE CallInv' /\ AckInv'
  <2>1. PICK c \in Call : Issues(n, c)
    BY <1>4, LocalEffect
  <2>2. NoRepeats'
    BY <1>4, LocalEffect
  <2> QED BY <2>1, <2>2, IssuesCalls, IssuesAcks DEF CallInv
<1>5. ASSUME NEW n \in Node, NEW m \in Node, ReceiveCall(n, m) PROVE CallInv' /\ AckInv'
  <2>1. PICK c \in Call : Arrives(n, m, c)
    BY <1>5, ReceiveCallEffect
  <2>2. NoRepeats'
    BY <1>5, ReceiveCallEffect
  <2> QED BY <2>1, <2>2, ArrivesCalls, ArrivesAcks DEF CallInv
<1>6. ASSUME NEW n \in Node, NEW m \in Node, ReceiveAck(n, m) PROVE CallInv' /\ AckInv'
  <2>1. PICK a \in CallId : Counts(n, m, a)
    BY <1>6, ReceiveAckEffect
  <2>2. NoRepeats' /\ CommittedOnce'
    BY <1>6, ReceiveAckEffect
  <2>3. Origins' /\ CallsUnderway'
    BY <2>1, AckStepsCalls
  <2>4. AckInv'
    BY <2>1, CountsAcks
  <2> QED BY <2>2, <2>3, <2>4 DEF CallInv
<1> QED BY <1>1, <1>2, <1>3, <1>4, <1>5, <1>6 DEF Next, Main, Receive

LEMMA CommitInvariance == Spec => []CommitInv
BY InitCommit, StepCommit, PTL DEF Spec

-----------------------------------------------------------------------------
(***************************************************************************)
(* Commitment implements stabilization.                                    *)
(***************************************************************************)

(* A full count is the count of all others. *)
LEMMA FullCount ==
  ASSUME NEW n \in Node, NEW a, a.node_id \in Node,
         NEW C \in SUBSET (Node \ {n, a.node_id}), Cardinality(C) >= Required(n, a)
  PROVE  C = Node \ {n, a.node_id}
<1> DEFINE others == Node \ {n, a.node_id}
<1>1. IsFiniteSet(Node) /\ Cardinality(Node) = N
  BY NAssumption, FS_Interval DEF Node
<1>2. IsFiniteSet(Node \ {n}) /\ Cardinality(Node \ {n}) = N - 1
  BY <1>1, FS_RemoveElement
<1>3. IsFiniteSet(others) /\ Cardinality(others) = Required(n, a)
  <2>1. CASE a.node_id = n
    <3>1. others = Node \ {n}
      BY <2>1
    <3> QED BY <1>2, <2>1, <3>1 DEF Required
  <2>2. CASE a.node_id # n
    <3>1. others = (Node \ {n}) \ {a.node_id} /\ a.node_id \in Node \ {n}
      BY <2>2
    <3>2. /\ IsFiniteSet((Node \ {n}) \ {a.node_id})
          /\ Cardinality((Node \ {n}) \ {a.node_id}) = Cardinality(Node \ {n}) - 1
      BY <1>2, <3>1, FS_RemoveElement
    <3>3. Cardinality(others) = N - 2
      BY <1>2, <3>1, <3>2, NAssumption
    <3> QED BY <2>2, <3>1, <3>2, <3>3 DEF Required
  <2> QED BY <2>1, <2>2
<1>4. C \in SUBSET others
  OBVIOUS
<1> HIDE DEF others
<1>5. /\ IsFiniteSet(C) /\ Cardinality(C) <= Cardinality(others)
      /\ Cardinality(others) = Cardinality(C) => others = C
  BY <1>3, <1>4, FS_Subset
<1>6. Cardinality(C) \in Nat /\ Required(n, a) \in Int
  BY <1>5, FS_CardinalityType, NAssumption DEF Required
<1> QED BY <1>3, <1>5, <1>6 DEF others

(* A call that is committed has been executed everywhere. *)
LEMMA CommitsEverywhere ==
  ASSUME CommitInv, CommitInv', NEW n \in Node, NEW m \in Node, NEW a \in CallId,
         Counts(n, m, a), Commits(n, a), NEW r \in Node
  PROVE  a \in Handled(r)
<1>1. \A k \in Node : Handled(k)' = Handled(k)
  BY DEF Counts
<1>2. a \in Handled(n)
  BY DEF Commits, Handled
<1>3. a.node_id \in Node
  BY DEF CallId
<1>4. a \in Handled(a.node_id)
  BY <1>2, OwnHandled DEF CommitInv, CallInv, Origins
<1>5. ackCounts'[n][a] >= Required(n, a)
  <2>1. ackCounts \in [Node -> [CallId -> Nat]]
    BY DEF CommitInv, TypeInv
  <2>2. ackCounts'[n] = [ackCounts[n] EXCEPT ![a] = @ + 1]
    BY <2>1 DEF Counts
  <2>3. ackCounts'[n][a] = ackCounts[n][a] + 1
    BY <2>1, <2>2
  <2> QED BY <2>3 DEF Commits
<1>6. Cardinality(Counted(n, a)') >= Required(n, a)
  BY <1>5 DEF CommitInv, AckInv, AcksCounted
<1>7. Counted(n, a)' = Node \ {n, a.node_id}
  <2>1. Counted(n, a)' \in SUBSET (Node \ {n, a.node_id})
    BY DEF Counted
  <2> QED BY <1>3, <1>6, <2>1, FullCount
<1>8. CASE r \in {n, a.node_id}
  BY <1>2, <1>4, <1>8
<1>9. CASE r \notin {n, a.node_id}
  BY <1>1, <1>7, <1>9 DEF Counted
<1> QED BY <1>8, <1>9

(* The refinement mapping of EcrosProperties. *)
HandledIds == [n \in Node |-> Handled(n)]

(* A call that a node is through with for the first time is an Execute. *)
LEMMA ExecutesOne ==
  ASSUME NEW n \in Node, NEW a \in CallId, committed' = committed,
         \A m \in Node : Handled(m)' = IF m = n THEN Handled(m) \cup {a} ELSE Handled(m),
         a \notin Handled(n), a.node_id # n => a \in Handled(a.node_id)
  PROVE  Stability!Next
<1>1. a.node_id \in Node
  BY DEF CallId
<1>2. HandledIds' = [HandledIds EXCEPT ![n] = @ \cup {a}]
  BY DEF HandledIds
<1>3. a \in CallId \ HandledIds[n] /\ (a.node_id # n => a \in HandledIds[a.node_id])
  BY <1>1 DEF HandledIds
<1>4. Stability!Execute(n)
  BY <1>2, <1>3 DEF Stability!Execute, HandledIds
<1> QED BY <1>4 DEF Stability!Next

(* exeLocal: the next call has not been seen before. *)
LEMMA LocalRefines ==
  ASSUME CommitInv, NEW n \in Node, SkipLocal(n) \/ ExecuteLocal(n)
  PROVE  Stability!Next
<1>1. PICK c \in Call : Issues(n, c)
  BY LocalEffect
<1>2. IdOf(c) \in CallId /\ IdOf(c).node_id = n /\ IdOf(c).call_id = it[n]
  BY <1>1, IdOfCall DEF Issues
<1>3. IdOf(c) \notin Handled(n)
  <2>1. it[n] \in Nat
    BY SetTypes DEF CommitInv
  <2> QED BY <1>2, <2>1 DEF CommitInv, CallInv, Origins
<1> QED BY <1>1, <1>2, <1>3, ExecutesOne DEF Issues

(* exeRemote of a call: its issuer is through with it. *)
LEMMA ReceiveCallRefines ==
  ASSUME CommitInv, NEW n \in Node, NEW m \in Node, ReceiveCall(n, m)
  PROVE  Stability!Next
<1>1. PICK c \in Call : Arrives(n, m, c)
  BY ReceiveCallEffect
<1>2. IdOf(c) \in CallId /\ IdOf(c).node_id = m
  BY <1>1, IdOfCall, ArrivesCalls
<1>3. IdOf(c) \notin Handled(n) /\ IdOf(c) \in Handled(m)
  BY <1>1, ArrivesCalls
<1> QED BY <1>1, <1>2, <1>3, ExecutesOne DEF Arrives

(* handleAckAndMaybeStabilize: nothing, or one call becomes final. *)
LEMMA ReceiveAckRefines ==
  ASSUME CommitInv, CommitInv', NEW n \in Node, NEW m \in Node, ReceiveAck(n, m)
  PROVE  Stability!Next \/ UNCHANGED Stability!vars
<1>1. PICK a \in CallId : Counts(n, m, a) /\ (Commits(n, a) \/ committed' = committed)
  BY ReceiveAckEffect
<1>2. HandledIds' = HandledIds
  BY <1>1 DEF Counts, HandledIds
<1>3. CASE committed' = committed
  BY <1>2, <1>3 DEF Stability!vars, HandledIds
<1>4. CASE Commits(n, a)
  <2> DEFINE rest == {c \in CallId : \A r \in Node : c \in HandledIds[r]} \ Range(committed[n])
  <2>1. a \in rest
    <3>1. a \in IdsOf(calls[n]) /\ a \notin Range(committed[n])
      BY <1>4 DEF Commits, CommitInv, CallInv, CommittedOnce
    <3>2. \A r \in Node : a \in Handled(r)
      BY <1>1, <1>4, CommitsEverywhere
    <3> QED BY <3>1, <3>2 DEF HandledIds
  <2>2. committed[n] \in Seq(CallId) /\ rest \subseteq CallId
    BY DEF CommitInv, TypeInv
  <2>3. rest = Stability!ExecutedEverywhere \ Range(committed[n])
    BY DEF Stability!ExecutedEverywhere, HandledIds
  <2> HIDE DEF rest
  <2>4. <<a>> \in SetToAllKPermutations(rest)
    <3>1. 1 \in Nat /\ <<a>> \in [1..1 -> rest]
      BY <2>1
    <3>2. \A i, j \in 1..1 : i # j => <<a>>[i] # <<a>>[j]
      OBVIOUS
    <3> QED BY <3>1, <3>2, ListIsPermutation
  <2>5. Append(committed[n], a) = committed[n] \o <<a>>
    BY <2>2
  <2>6. committed' = [committed EXCEPT ![n] = @ \o <<a>>]
    BY <1>4, <2>5 DEF Commits
  <2>7. <<a>> \in Stability!SetToAllKPermutations(
                    Stability!ExecutedEverywhere \ Stability!Range(committed[n]))
    <3>1. \A f : Stability!Range(f) = Range(f)
      BY DEF Stability!Range, Range
    <3>2. \A S : Stability!SetToAllKPermutations(S) = SetToAllKPermutations(S)
      <4>1. \A S : Stability!Cardinality(S) = Cardinality(S)
        BY DEF Stability!Cardinality, Cardinality
      <4>2. \A S : Stability!SetToSeqs(S) = SetToSeqs(S)
        BY <4>1 DEF Stability!SetToSeqs, SetToSeqs
      <4> QED BY <4>2 DEF Stability!SetToAllKPermutations, SetToAllKPermutations
    <3> QED BY <2>3, <2>4, <3>1, <3>2
  <2>8. Stability!Stabilize(n)
    BY <1>2, <2>6, <2>7 DEF Stability!Stabilize, HandledIds
  <2> QED BY <2>8 DEF Stability!Next
<1> QED BY <1>1, <1>3, <1>4

(* All steps. *)
LEMMA StepRefines ==
  ASSUME CommitInv, CommitInv', [Next]_vars
  PROVE  [Stability!Next]_(Stability!vars)
<1>1. CASE UNCHANGED <<it, calls, committed>>
  <2>1. HandledIds' = HandledIds
    BY <1>1, SameHandled DEF HandledIds
  <2> QED BY <1>1, <2>1 DEF Stability!vars, HandledIds
<1>2. \/ UNCHANGED <<it, calls, committed>>
      \/ \E n \in Node : SkipLocal(n) \/ ExecuteLocal(n)
      \/ \E n, m \in Node : ReceiveCall(n, m) \/ ReceiveAck(n, m)
  BY DEF Next, Main, Receive, SendAck, NoAckToSend, TestLocal, vars, graphVars, commitVars
<1> QED BY <1>1, <1>2, LocalRefines, ReceiveCallRefines, ReceiveAckRefines

(* The empty nodes are the empty logs. *)
LEMMA InitRefines == Init => Stability!Init
<1> SUFFICES ASSUME Init PROVE Stability!Init
  OBVIOUS
<1>1. /\ \A n \in Node : it[n] = 1 /\ calls[n] = {} /\ committed[n] = <<>>
      /\ committed = [n \in Node |-> <<>>]
  BY DEF Init
<1>2. \A n \in Node : Handled(n) = {}
  <2>1. \A n \in Node : [node_id : {n}, call_id : 1..(1 - 1)] = {}
    OBVIOUS
  <2>2. Range(<<>>) = {}
    BY DEF Range
  <2> QED BY <1>1, <2>1, <2>2 DEF Handled, IdsOf
<1> QED BY <1>1, <1>2 DEF Stability!Init

(***************************************************************************)
(* Commitment in ECROS implements uniform stability: commitStableCalls     *)
(* removes a call from the graph only after every node has been through    *)
(* it, never twice, and the log of committed calls is only appended to.    *)
(***************************************************************************)
THEOREM CommitmentImplementsStability == Spec => ImplementsStability
<1>1. CommitInv /\ CommitInv' /\ [Next]_vars => [Stability!Next]_(Stability!vars)
  BY StepRefines
<1> QED BY <1>1, InitRefines, CommitInvariance, PTL DEF Spec, ImplementsStability, Stability!Spec

-----------------------------------------------------------------------------
(* The objects: the rows they can have, and what a call does to them.      *)

Values ==
  (0..(InitialRows - 1)) \cup {o.value1 : o \in Op} \cup {<<o.value1, o.value2>> : o \in Op}

Tables(u) == DOMAIN InitialObject(u, InitialRows)

States(u) ==
  IF u = "stack" THEN [Tables(u) -> Seq(Values)] ELSE [Tables(u) -> SUBSET Values]

(* The calls that can come from a file of use case u. *)
CallsOf(u) == {c \in Call : c.op.type \in Methods(u)}

(* The table a call is about, the row of it, and whether it inserts the row. *)
TableOf == [
  Add |-> "elements", Remove |-> "elements",
  AddMovie |-> "movie_ids", DeleteMovie |-> "movie_ids",
  AddCustomer |-> "customer_ids", DeleteCustomer |-> "customer_ids",
  AddEmployee |-> "employee_ids", DeleteEmployee |-> "employee_ids",
  AddProject |-> "project_ids", DeleteProject |-> "project_ids", WorksOn |-> "works",
  AddCourse |-> "course_ids", DeleteCourse |-> "course_ids",
  AddStudent |-> "student_ids", DeleteStudent |-> "student_ids", Enroll |-> "enroll"]

RowOf(c) == IF c.op.type \in Relates THEN PairOf(c) ELSE c.op.value1

Inserts == {"Add", "AddMovie", "AddCustomer", "AddEmployee", "AddProject", "WorksOn",
            "AddCourse", "AddStudent", "Enroll"}

(* The types of calls and the tables of an object. *)
LEMMA MethodsAndTables ==
  /\ Methods("set") = {"Add", "Remove"} /\ Tables("set") = {"elements"}
  /\ Methods("stack") = {"Push", "Pop"} /\ Tables("stack") = {"elements"}
  /\ Methods("movie") = {"AddMovie", "AddCustomer", "DeleteMovie", "DeleteCustomer"}
  /\ Tables("movie") = {"movie_ids", "customer_ids"}
  /\ Methods("project") = {"AddEmployee", "AddProject", "DeleteEmployee", "DeleteProject", "WorksOn"}
  /\ Tables("project") = {"project_ids", "employee_ids", "works"}
  /\ Methods("courseware") = {"AddCourse", "AddStudent", "DeleteCourse", "DeleteStudent", "Enroll"}
  /\ Tables("courseware") = {"student_ids", "course_ids", "enroll"}
<1>1. /\ Methods("set") = {"Add", "Remove"}
      /\ Methods("stack") = {"Push", "Pop"}
      /\ Methods("movie") = {"AddMovie", "AddCustomer", "DeleteMovie", "DeleteCustomer"}
      /\ Methods("project") = {"AddEmployee", "AddProject", "DeleteEmployee", "DeleteProject", "WorksOn"}
      /\ Methods("courseware") = {"AddCourse", "AddStudent", "DeleteCourse", "DeleteStudent", "Enroll"}
  BY DEF Methods, CommutesWith
<1>2. /\ InitialObject("set", InitialRows) = [elements |-> 0..(InitialRows - 1)]
      /\ InitialObject("stack", InitialRows) = [elements |-> [i \in 1..InitialRows |-> i - 1]]
      /\ InitialObject("movie", InitialRows)
           = [movie_ids |-> 0..(InitialRows - 1), customer_ids |-> 0..(InitialRows - 1)]
      /\ InitialObject("project", InitialRows)
           = [project_ids |-> 0..(InitialRows - 1), employee_ids |-> 0..(InitialRows - 1),
              works |-> {}]
      /\ InitialObject("courseware", InitialRows)
           = [student_ids |-> 0..(InitialRows - 1), course_ids |-> 0..(InitialRows - 1),
              enroll |-> {}]
  BY DEF InitialObject
<1> QED BY <1>1, <1>2 DEF Tables

(* The object of setVars. *)
LEMMA InitialState ==
  ASSUME NEW u \in UseCase
  PROVE  InitialObject(u, InitialRows) \in States(u)
<1> DEFINE rows == 0..(InitialRows - 1)
<1>1. rows \in SUBSET Values /\ {} \in SUBSET Values
  BY DEF Values
<1>2. CASE u = "stack"
  <2>1. InitialObject(u, InitialRows) = [elements |-> [i \in 1..InitialRows |-> i - 1]]
    BY <1>2 DEF InitialObject
  <2>2. \A i \in 1..InitialRows : i - 1 \in rows
    BY InitialRowsAssumption
  <2> DEFINE f == [i \in 1..InitialRows |-> i - 1]
  <2>3. f \in [1..InitialRows -> Values]
    BY <1>1, <2>2
  <2> HIDE DEF f
  <2>4. f \in Seq(Values)
    BY <2>3, InitialRowsAssumption, FunctionIsList
  <2>5. States(u) = [{"elements"} -> Seq(Values)]
    BY <1>2, MethodsAndTables DEF States
  <2>6. InitialObject(u, InitialRows) = [elements |-> f]
    BY <2>1 DEF f
  <2> QED BY <2>4, <2>5, <2>6
<1>3. CASE u # "stack"
  <2> DEFINE s == InitialObject(u, InitialRows)
  <2>1. \A t \in DOMAIN s : s[t] \in {rows, {}}
    <3>1. CASE u = "set"
      BY <3>1 DEF InitialObject
    <3>2. CASE u = "movie"
      BY <3>2 DEF InitialObject
    <3>3. CASE u = "project"
      BY <3>3 DEF InitialObject
    <3>4. CASE u = "courseware"
      BY <3>4 DEF InitialObject
    <3> QED BY <1>3, <3>1, <3>2, <3>3, <3>4 DEF UseCase
  <2>2. s = [t \in DOMAIN s |-> s[t]]
    <3>1. CASE u = "set"
      BY <3>1 DEF InitialObject
    <3>2. CASE u = "movie"
      BY <3>2 DEF InitialObject
    <3>3. CASE u = "project"
      BY <3>3 DEF InitialObject
    <3>4. CASE u = "courseware"
      BY <3>4 DEF InitialObject
    <3> QED BY <1>3, <3>1, <3>2, <3>3, <3>4 DEF UseCase
  <2> HIDE DEF s, rows
  <2>3. s \in [DOMAIN s -> SUBSET Values]
    BY <1>1, <2>1, <2>2
  <2> QED BY <1>3, <2>3 DEF States, Tables, s
<1> QED BY <1>2, <1>3

(* A call on an object made of tables inserts or erases one row of one table. *)
LEMMA PlainReplay ==
  ASSUME NEW u \in UseCase, u # "stack", NEW c, c.op.type \in Methods(u), NEW s
  PROVE  /\ TableOf[c.op.type] \in Tables(u)
         /\ ReplayCall(u, s, c) = IF c.op.type \in Inserts
                                  THEN Insert(s, TableOf[c.op.type], RowOf(c))
                                  ELSE Erase(s, TableOf[c.op.type], RowOf(c))
<1>1. CASE u = "set"
  <2>1. c.op.type \in {"Add", "Remove"} /\ Tables(u) = {"elements"}
    BY <1>1, MethodsAndTables
  <2>2. ReplayCall(u, s, c) = SetUpdate(s, c)
    BY <1>1 DEF ReplayCall
  <2> QED BY <2>1, <2>2 DEF SetUpdate, TableOf, RowOf, Inserts, Relates
<1>2. CASE u = "movie"
  <2>1. /\ c.op.type \in {"AddMovie", "AddCustomer", "DeleteMovie", "DeleteCustomer"}
        /\ Tables(u) = {"movie_ids", "customer_ids"}
    BY <1>2, MethodsAndTables
  <2>2. ReplayCall(u, s, c) = MovieUpdate(s, c)
    BY <1>2 DEF ReplayCall
  <2> QED BY <2>1, <2>2 DEF MovieUpdate, TableOf, RowOf, Inserts, Relates
<1>3. CASE u = "project"
  <2>1. /\ c.op.type \in {"AddEmployee", "AddProject", "DeleteEmployee", "DeleteProject", "WorksOn"}
        /\ Tables(u) = {"project_ids", "employee_ids", "works"}
    BY <1>3, MethodsAndTables
  <2>2. ReplayCall(u, s, c) = ProjectUpdate(s, c)
    BY <1>3 DEF ReplayCall
  <2> QED BY <2>1, <2>2 DEF ProjectUpdate, TableOf, RowOf, Inserts, Relates
<1>4. CASE u = "courseware"
  <2>1. /\ c.op.type \in {"AddCourse", "AddStudent", "DeleteCourse", "DeleteStudent", "Enroll"}
        /\ Tables(u) = {"student_ids", "course_ids", "enroll"}
    BY <1>4, MethodsAndTables
  <2>2. ReplayCall(u, s, c) = CoursewareUpdateStable(s, c)
    BY <1>4 DEF ReplayCall
  <2> QED BY <2>1, <2>2 DEF CoursewareUpdateStable, TableOf, RowOf, Inserts, Relates
<1> QED BY <1>1, <1>2, <1>3, <1>4 DEF UseCase

(* The row of a call is among the values. *)
LEMMA RowType ==
  ASSUME NEW c \in Call
  PROVE  RowOf(c) \in Values /\ c.op.value1 \in Values
<1>1. c.op \in Op
  BY DEF Call
<1> QED BY <1>1 DEF RowOf, PairOf, Values

(* Calls make states of states. *)
LEMMA ReplayType ==
  ASSUME NEW u \in UseCase, NEW s \in States(u), NEW c \in CallsOf(u)
  PROVE  ReplayCall(u, s, c) \in States(u) /\ ApplyCall(u, s, c) \in States(u)
<1>1. c \in Call /\ c.op.type \in Methods(u)
  BY DEF CallsOf
<1>2. RowOf(c) \in Values /\ c.op.value1 \in Values
  BY <1>1, RowType
<1>3. CASE u = "stack"
  <2>1. s \in [{"elements"} -> Seq(Values)] /\ States(u) = [{"elements"} -> Seq(Values)]
        /\ c.op.type \in {"Push", "Pop"}
    BY <1>1, <1>3, MethodsAndTables DEF States
  <2>2. s.elements \in Seq(Values)
    BY <2>1
  <2>3. Append(s.elements, c.op.value1) \in Seq(Values)
    BY <1>2, <2>2
  <2>4. s.elements # <<>> => SubSeq(s.elements, 1, Len(s.elements) - 1) \in Seq(Values)
    <3>1. s.elements # <<>> => Len(s.elements) - 1 \in 0..Len(s.elements)
      BY <2>2
    <3> QED BY <2>2, <3>1, SubSeqList
  <2>5. StackUpdate(s, c) \in [{"elements"} -> Seq(Values)]
    BY <2>1, <2>3, <2>4 DEF StackUpdate
  <2>6. ReplayCall(u, s, c) = StackUpdate(s, c)
    BY <1>3 DEF ReplayCall
  <2> QED BY <2>1, <2>5, <2>6 DEF ApplyCall
<1>4. CASE u # "stack"
  <2>1. /\ TableOf[c.op.type] \in Tables(u)
        /\ ReplayCall(u, s, c) = IF c.op.type \in Inserts
                                 THEN Insert(s, TableOf[c.op.type], RowOf(c))
                                 ELSE Erase(s, TableOf[c.op.type], RowOf(c))
    BY <1>1, <1>4, PlainReplay
  <2>2. States(u) = [Tables(u) -> SUBSET Values]
    BY <1>4 DEF States
  <2>3. \A t \in Tables(u), v \in Values : /\ Insert(s, t, v) \in [Tables(u) -> SUBSET Values]
                                           /\ Erase(s, t, v) \in [Tables(u) -> SUBSET Values]
    BY <2>2 DEF Insert, Erase
  <2>4. ReplayCall(u, s, c) \in States(u)
    BY <1>2, <2>1, <2>2, <2>3
  <2> QED BY <2>4 DEF ApplyCall
<1> QED BY <1>3, <1>4

-----------------------------------------------------------------------------
(* A replay applies the calls of a list in turn, those done before excepted. *)

ReplayEffect(u, done) ==
  [c \in CallsOf(u) |->
     [s \in States(u) |-> IF IdOf(c) \in done THEN s ELSE ReplayCall(u, s, c)]]

(* What it does to a state. *)
LEMMA ReplayOfCall ==
  ASSUME NEW u \in UseCase, NEW done
  PROVE  /\ ReplayEffect(u, done) \in Effects(States(u), CallsOf(u))
         /\ \A c \in CallsOf(u), s \in States(u) :
              ReplayEffect(u, done)[c][s] = IF IdOf(c) \in done THEN s ELSE ReplayCall(u, s, c)
<1>1. \A c \in CallsOf(u) :
        [s \in States(u) |-> IF IdOf(c) \in done THEN s ELSE ReplayCall(u, s, c)]
          \in [States(u) -> States(u)]
  BY ReplayType
<1>2. ReplayEffect(u, done) \in [CallsOf(u) -> [States(u) -> States(u)]]
  BY <1>1 DEF ReplayEffect
<1> QED BY <1>2 DEF Effects, ReplayEffect

(* recomputeState. *)
LEMMA ReplayIsApplyAll ==
  ASSUME NEW u \in UseCase, u = useCase, NEW done, NEW x \in States(u), NEW t \in Seq(CallsOf(u))
  PROVE  Replay(x, done, t) = ApplyAll(ReplayEffect(u, done), x, t)
<1> DEFINE D == DOMAIN t
           step(y, c) == IF IdOf(c) \in done THEN y ELSE ReplayCall(u, y, c)
           p == CHOOSE p : p = [S \in SUBSET D |->
                  IF S = {} THEN x ELSE step(p[S \ {Max(S)}], t[Max(S)])]
           e == ReplayEffect(u, done)
<1>1. Replay(x, done, t) = p[D]
  BY DEF Replay, FoldLeft, MapThenFoldSet
<1>2. /\ e \in Effects(States(u), CallsOf(u))
      /\ \A c \in CallsOf(u), y \in States(u) : e[c][y] = step(y, c)
  BY ReplayOfCall
<1> HIDE DEF e, step
<1>3. D = 1..Len(t) /\ Len(t) \in Nat
  OBVIOUS
<1>4. ASSUME NEW S \in SUBSET D, S # {} PROVE t[Max(S)] \in CallsOf(u) /\ S \ {Max(S)} \in SUBSET D
  <2>1. Max(S) \in S
    BY <1>3, <1>4, GreatestPosition
  <2> QED BY <1>3, <2>1
<1>5. PICK q \in [SUBSET D -> States(u)] : ArePartials(q, e, x, t)
  BY <1>2, PartialsExist
<1>6. \A S \in SUBSET D : q[S] = IF S = {} THEN x ELSE e[t[Max(S)]][q[S \ {Max(S)}]]
  BY <1>5 DEF ArePartials
<1>7. ASSUME NEW S \in SUBSET D
      PROVE  q[S] = IF S = {} THEN x ELSE step(q[S \ {Max(S)}], t[Max(S)])
  BY <1>2, <1>4, <1>6
<1>8. q = [S \in SUBSET D |-> IF S = {} THEN x ELSE step(q[S \ {Max(S)}], t[Max(S)])]
  BY <1>6, <1>7
<1>9. p = [S \in SUBSET D |-> IF S = {} THEN x ELSE step(p[S \ {Max(S)}], t[Max(S)])]
  BY <1>8
<1> HIDE DEF p
<1>10. p[{}] = x
  BY <1>9
<1>11. ASSUME NEW S \in SUBSET D, S # {}, p[S \ {Max(S)}] \in States(u)
       PROVE  p[S] = e[t[Max(S)]][p[S \ {Max(S)}]]
  <2>1. p[S] = step(p[S \ {Max(S)}], t[Max(S)])
    BY <1>9, <1>11
  <2> QED BY <1>2, <1>4, <1>11, <2>1
<1>12. ArePartialsIn(States(u), p, e, x, t)
  BY <1>10, <1>11 DEF ArePartialsIn
<1>13. p[D] = ApplyAll(e, x, t)
  BY <1>2, <1>12, PartialsEnd
<1> QED BY <1>1, <1>13 DEF e

(* What fullTopoSort returns is a list of calls in flight. *)
LEMMA SortedType ==
  ASSUME NEW C, IsFiniteSet(C), NEW E, NEW t \in TopoOrders(C, E)
  PROVE  t \in Seq(C) /\ Range(t) \subseteq C
<1>1. t \in SetToAllKPermutations(C)
  BY DEF TopoOrders
<1>2. PICK S \in SUBSET C : t \in SetToSeqs(S)
  BY <1>1 DEF SetToAllKPermutations
<1>3. Cardinality(S) \in Nat
  BY FS_Subset, FS_CardinalityType
<1>4. t \in [1..Cardinality(S) -> S]
  BY <1>2 DEF SetToSeqs
<1>5. t \in Seq(S)
  BY <1>3, <1>4, FunctionIsList
<1> QED BY <1>5 DEF Range

-----------------------------------------------------------------------------
(* Commuting operations: each has its effect, whatever the order.          *)

OpsFor(u) == {q \in [op : Op] : q.op.type \in Methods(u)}

Commuting(u, Q) == \A q, r \in Q : seqCommutative(u, q, r)

(* The rows that the operations in Q insert into table t or erase from it. *)
RowsIn(Q, t) == {RowOf(q) : q \in {q \in Q : TableOf[q.op.type] = t /\ q.op.type \in Inserts}}
RowsOut(Q, t) == {RowOf(q) : q \in {q \in Q : TableOf[q.op.type] = t /\ q.op.type \notin Inserts}}

(* What the operations in Q make of the initial object. *)
Outcome(u, Q) ==
  [t \in Tables(u) |-> (InitialObject(u, InitialRows)[t] \cup RowsIn(Q, t)) \ RowsOut(Q, t)]

(* seqCommutative never holds for an insertion and an erasure in one table. *)
LEMMA OneTableConflicts ==
  ASSUME NEW u \in UseCase, u # "stack", NEW q \in OpsFor(u), NEW r \in OpsFor(u),
         q.op.type \in Inserts, r.op.type \notin Inserts,
         TableOf[q.op.type] = TableOf[r.op.type]
  PROVE  ~seqCommutative(u, q, r)
<1>1. q.op.type \in Methods(u) /\ r.op.type \in Methods(u)
  BY DEF OpsFor
<1>2. CASE u = "set"
  <2>1. q.op.type = "Add" /\ r.op.type = "Remove"
    BY <1>1, <1>2, MethodsAndTables DEF Inserts
  <2> QED BY <1>2, <2>1 DEF seqCommutative, CommutesWith
<1>3. CASE u = "movie"
  <2>1. /\ q.op.type \in {"AddMovie", "AddCustomer"}
        /\ r.op.type \in {"DeleteMovie", "DeleteCustomer"}
    BY <1>1, <1>3, MethodsAndTables DEF Inserts
  <2>2. \/ q.op.type = "AddMovie" /\ r.op.type = "DeleteMovie"
        \/ q.op.type = "AddCustomer" /\ r.op.type = "DeleteCustomer"
    BY <2>1 DEF TableOf
  <2> QED BY <1>3, <2>2 DEF seqCommutative, CommutesWith
<1>4. CASE u = "project"
  <2>1. /\ q.op.type \in {"AddEmployee", "AddProject", "WorksOn"}
        /\ r.op.type \in {"DeleteEmployee", "DeleteProject"}
    BY <1>1, <1>4, MethodsAndTables DEF Inserts
  <2>2. \/ q.op.type = "AddEmployee" /\ r.op.type = "DeleteEmployee"
        \/ q.op.type = "AddProject" /\ r.op.type = "DeleteProject"
    BY <2>1 DEF TableOf
  <2> QED BY <1>4, <2>2 DEF seqCommutative, CommutesWith
<1>5. CASE u = "courseware"
  <2>1. /\ q.op.type \in {"AddCourse", "AddStudent", "Enroll"}
        /\ r.op.type \in {"DeleteCourse", "DeleteStudent"}
    BY <1>1, <1>5, MethodsAndTables DEF Inserts
  <2>2. \/ q.op.type = "AddCourse" /\ r.op.type = "DeleteCourse"
        \/ q.op.type = "AddStudent" /\ r.op.type = "DeleteStudent"
    BY <2>1 DEF TableOf
  <2> QED BY <1>5, <2>2 DEF seqCommutative, CommutesWith
<1> QED BY <1>2, <1>3, <1>4, <1>5 DEF UseCase

(* The outcome is a state of the object. *)
LEMMA OutcomeType ==
  ASSUME NEW u \in UseCase, u # "stack", NEW Q \in SUBSET OpsFor(u)
  PROVE  Outcome(u, Q) \in States(u)
<1>1. States(u) = [Tables(u) -> SUBSET Values]
  BY DEF States
<1>2. InitialObject(u, InitialRows) \in [Tables(u) -> SUBSET Values]
  BY <1>1, InitialState
<1>3. \A q \in Q : RowOf(q) \in Values
  BY DEF OpsFor, RowOf, PairOf, Values
<1>4. \A t : RowsIn(Q, t) \subseteq Values
  BY <1>3 DEF RowsIn
<1>5. \A t \in Tables(u) :
        (InitialObject(u, InitialRows)[t] \cup RowsIn(Q, t)) \ RowsOut(Q, t) \in SUBSET Values
  BY <1>2, <1>4
<1> QED BY <1>1, <1>5 DEF Outcome

(* At first there are no operations. *)
LEMMA NoOutcome ==
  ASSUME NEW u \in UseCase, u # "stack"
  PROVE  Outcome(u, {}) = InitialObject(u, InitialRows)
<1>1. InitialObject(u, InitialRows) \in [Tables(u) -> SUBSET Values]
  BY InitialState DEF States
<1>2. \A t : RowsIn({}, t) = {} /\ RowsOut({}, t) = {}
  BY DEF RowsIn, RowsOut
<1> QED BY <1>1, <1>2 DEF Outcome

(* One operation more. *)
LEMMA OutcomeStep ==
  ASSUME NEW u \in UseCase, u # "stack", NEW Q \in SUBSET OpsFor(u), NEW c \in CallsOf(u),
         Commuting(u, Q \cup {[op |-> c.op]})
  PROVE  /\ [op |-> c.op] \in OpsFor(u)
         /\ ReplayCall(u, Outcome(u, Q), c) = Outcome(u, Q \cup {[op |-> c.op]})
<1> DEFINE q == [op |-> c.op]
           s == Outcome(u, Q)
           t == TableOf[c.op.type]
           v == RowOf(c)
<1>1. q \in OpsFor(u) /\ c.op.type \in Methods(u) /\ q.op = c.op /\ RowOf(q) = v
  BY DEF OpsFor, CallsOf, Call, RowOf, PairOf
<1>2. /\ t \in Tables(u)
      /\ ReplayCall(u, s, c) = IF c.op.type \in Inserts THEN Insert(s, t, v) ELSE Erase(s, t, v)
  BY <1>1, PlainReplay
<1>3. Outcome(u, Q \cup {q})
        = [x \in Tables(u) |-> (InitialObject(u, InitialRows)[x] \cup RowsIn(Q \cup {q}, x))
                                  \ RowsOut(Q \cup {q}, x)]
  BY DEF Outcome
<1>4. /\ s = [x \in Tables(u) |-> s[x]]
      /\ \A x \in Tables(u) : s[x] = (InitialObject(u, InitialRows)[x] \cup RowsIn(Q, x)) \ RowsOut(Q, x)
  BY DEF Outcome
<1>5. Commuting(u, Q \cup {q})
  OBVIOUS
<1>6. /\ \A x : x # t => RowsIn(Q \cup {q}, x) = RowsIn(Q, x) /\ RowsOut(Q \cup {q}, x) = RowsOut(Q, x)
      /\ c.op.type \in Inserts =>
           RowsIn(Q \cup {q}, t) = RowsIn(Q, t) \cup {v} /\ RowsOut(Q \cup {q}, t) = RowsOut(Q, t)
      /\ c.op.type \notin Inserts =>
           RowsIn(Q \cup {q}, t) = RowsIn(Q, t) /\ RowsOut(Q \cup {q}, t) = RowsOut(Q, t) \cup {v}
  <2> DEFINE w == q.op.type
  <2>1. w = c.op.type /\ TableOf[w] = t /\ RowOf(q) = v
    BY <1>1
  <2> HIDE DEF q, t, v, s
  <2> QED BY <2>1 DEF RowsIn, RowsOut
<1> HIDE DEF q, t, v, s
<1>7. CASE c.op.type \in Inserts
  <2>1. RowsOut(Q, t) = {}
    <3> SUFFICES ASSUME NEW r \in Q, TableOf[r.op.type] = t, r.op.type \notin Inserts PROVE FALSE
      BY DEF RowsOut
    <3>1. seqCommutative(u, q, r)
      BY <1>5 DEF Commuting
    <3>2. TableOf[q.op.type] = TableOf[r.op.type] /\ q.op.type \in Inserts
      BY <1>1, <1>7 DEF t
    <3>3. r \in OpsFor(u) /\ q \in OpsFor(u)
      BY <1>1
    <3> QED BY <3>1, <3>2, <3>3, OneTableConflicts
  <2>2. Insert(s, t, v) = [x \in Tables(u) |-> IF x = t THEN s[x] \cup {v} ELSE s[x]]
    BY <1>2, <1>4 DEF Insert
  <2>3. ASSUME NEW x \in Tables(u)
        PROVE  (IF x = t THEN s[x] \cup {v} ELSE s[x])
                 = (InitialObject(u, InitialRows)[x] \cup RowsIn(Q \cup {q}, x)) \ RowsOut(Q \cup {q}, x)
    <3>1. CASE x = t
      BY <1>4, <1>6, <1>7, <2>1, <3>1
    <3>2. CASE x # t
      BY <1>4, <1>6, <3>2
    <3> QED BY <3>1, <3>2
  <2> QED BY <1>1, <1>2, <1>3, <1>7, <2>2, <2>3 DEF q, s
<1>8. CASE c.op.type \notin Inserts
  <2>1. Erase(s, t, v) = [x \in Tables(u) |-> IF x = t THEN s[x] \ {v} ELSE s[x]]
    BY <1>2, <1>4 DEF Erase
  <2>2. ASSUME NEW x \in Tables(u)
        PROVE  (IF x = t THEN s[x] \ {v} ELSE s[x])
                 = (InitialObject(u, InitialRows)[x] \cup RowsIn(Q \cup {q}, x)) \ RowsOut(Q \cup {q}, x)
    <3>1. CASE x = t
      BY <1>4, <1>6, <1>8, <3>1
    <3>2. CASE x # t
      BY <1>4, <1>6, <3>2
    <3> QED BY <3>1, <3>2
  <2> QED BY <1>1, <1>2, <1>3, <1>8, <2>1, <2>2 DEF q, s
<1> QED BY <1>7, <1>8

-----------------------------------------------------------------------------
(* A replay of commuting calls.                                            *)

(* The operations that files f have under the ids in A. *)
OpsIn(f, A) == {[op |-> f[a.node_id][a.call_id]] : a \in A}

(* The calls of t are those of files f. *)
AsInFiles(f, t) == \A i \in DOMAIN t : t[i].op = f[t[i].node_id][t[i].call_id]

(* Ids that are added add their operations. *)
LEMMA MoreOps ==
  ASSUME NEW f, NEW A, NEW B
  PROVE  /\ OpsIn(f, A \cup B) = OpsIn(f, A) \cup OpsIn(f, B)
         /\ \A c : c.op = f[c.node_id][c.call_id] => OpsIn(f, {IdOf(c)}) = {[op |-> c.op]}
<1>1. OpsIn(f, A \cup B) = OpsIn(f, A) \cup OpsIn(f, B)
  BY DEF OpsIn
<1>2. ASSUME NEW c, c.op = f[c.node_id][c.call_id] PROVE OpsIn(f, {IdOf(c)}) = {[op |-> c.op]}
  <2>1. IdOf(c).node_id = c.node_id /\ IdOf(c).call_id = c.call_id
    BY DEF IdOf
  <2> QED BY <1>2, <2>1 DEF OpsIn
<1> QED BY <1>1, <1>2

(* The calls of t and those with ids in A are of the files, and commute. *)
AllCommute(u, f, A, t) ==
  /\ AsInFiles(f, t)
  /\ OpsIn(f, A \cup IdsOf(Range(t))) \in SUBSET OpsFor(u)
  /\ Commuting(u, OpsIn(f, A \cup IdsOf(Range(t))))

(* A replay of calls that commute with each other and with what was done   *)
(* before has the effect of each operation, done before or not.            *)
LEMMA ReplayOutcome ==
  ASSUME NEW u \in UseCase, u # "stack", NEW f, NEW A, NEW done \in SUBSET A,
         NEW t \in Seq(CallsOf(u)), AllCommute(u, f, A, t)
  PROVE  ApplyAll(ReplayEffect(u, done), Outcome(u, OpsIn(f, A)), t)
           = Outcome(u, OpsIn(f, A \cup IdsOf(Range(t))))
<1> DEFINE e == ReplayEffect(u, done)
           first(i) == A \cup {IdOf(t[k]) : k \in 1..i}
           x == Outcome(u, OpsIn(f, A))
           l == Len(t)
<1>1. l \in Nat /\ DOMAIN t = 1..l /\ \A i \in 1..l : t[i] \in CallsOf(u)
  OBVIOUS
<1>2. first(l) = A \cup IdsOf(Range(t))
  BY <1>1 DEF IdsOf, Range
<1>3. \A i \in 0..l : first(i) \subseteq first(l)
  BY <1>1
<1>4. ASSUME NEW i \in 0..l
      PROVE  OpsIn(f, first(i)) \in SUBSET OpsFor(u) /\ Commuting(u, OpsIn(f, first(i)))
  <2>1. OpsIn(f, first(i)) \subseteq OpsIn(f, first(l))
    <3> HIDE DEF first
    <3> QED BY <1>3 DEF OpsIn
  <2> QED BY <1>2, <2>1 DEF AllCommute, Commuting
<1>5. first(0) = A
  OBVIOUS
<1>6. x \in States(u)
  <2>1. 0 \in 0..l
    BY <1>1
  <2> HIDE DEF first
  <2> QED BY <1>4, <1>5, <2>1, OutcomeType
<1>7. ASSUME NEW i \in 1..l
      PROVE  e[t[i]][Outcome(u, OpsIn(f, first(i - 1)))] = Outcome(u, OpsIn(f, first(i)))
  <2>1. t[i] \in CallsOf(u) /\ i \in 0..l /\ i - 1 \in 0..l
    BY <1>1
  <2>2. first(i) = first(i - 1) \cup {IdOf(t[i])}
    <3>1. 1..i = (1..(i - 1)) \cup {i}
      BY <1>1
    <3> QED BY <3>1
  <2>3. A \subseteq first(i - 1)
    OBVIOUS
  <2> DEFINE F == first(i - 1)
             Q == OpsIn(f, F)
             s == Outcome(u, Q)
             c == t[i]
  <2> HIDE DEF first
  <2>4. Q \in SUBSET OpsFor(u)
    BY <1>4, <2>1
  <2>5. s \in States(u)
    BY <2>4, OutcomeType
  <2>6. c.op = f[c.node_id][c.call_id]
    BY <1>1 DEF AllCommute, AsInFiles
  <2>7. OpsIn(f, first(i)) = Q \cup {[op |-> c.op]}
    <3> HIDE DEF c, F
    <3>1. OpsIn(f, {IdOf(c)}) = {[op |-> c.op]}
      BY <2>6, MoreOps
    <3>2. OpsIn(f, F \cup {IdOf(c)}) = OpsIn(f, F) \cup OpsIn(f, {IdOf(c)})
      BY MoreOps
    <3>3. first(i) = F \cup {IdOf(c)}
      BY <2>2 DEF c, F
    <3> QED BY <3>1, <3>2, <3>3
  <2>8. e[c][s] = IF IdOf(c) \in done THEN s ELSE ReplayCall(u, s, c)
    BY <2>1, <2>5, ReplayOfCall
  <2>9. CASE IdOf(c) \in done
    <3>1. IdOf(c) \in F
      BY <2>3, <2>9
    <3>2. first(i) = F
      BY <2>2, <3>1
    <3> QED BY <2>8, <2>9, <3>2
  <2>10. CASE IdOf(c) \notin done
    <3>1. Commuting(u, Q \cup {[op |-> c.op]})
      BY <1>4, <2>1, <2>7
    <3>2. ReplayCall(u, Outcome(u, Q), c) = Outcome(u, Q \cup {[op |-> c.op]})
      BY <2>1, <2>4, <3>1, OutcomeStep
    <3> QED BY <2>7, <2>8, <2>10, <3>2
  <2> QED BY <2>9, <2>10
<1> DEFINE r == [i \in 0..l |-> Outcome(u, OpsIn(f, first(i)))]
<1>8. IsRun(r, e, x, t)
  <2>1. r[0] = x /\ DOMAIN r = 0..Len(t)
    <3>1. 0 \in 0..l
      BY <1>1
    <3> HIDE DEF first
    <3> QED BY <1>5, <3>1
  <2>2. ASSUME NEW i \in 1..Len(t) PROVE r[i] = e[t[i]][r[i - 1]]
    <3>1. i \in 0..l /\ i - 1 \in 0..l /\ i \in 1..l
      BY <1>1
    <3> HIDE DEF first, e
    <3>2. r[i] = Outcome(u, OpsIn(f, first(i))) /\ r[i - 1] = Outcome(u, OpsIn(f, first(i - 1)))
      BY <3>1
    <3> QED BY <1>7, <3>1, <3>2
  <2> HIDE DEF r, e, x
  <2> QED BY <2>1, <2>2 DEF IsRun
<1>9. ApplyAll(e, x, t) = r[l]
  <2> HIDE DEF e, x, r
  <2> QED BY <1>8, RunEnds
<1>10. r[l] = Outcome(u, OpsIn(f, first(l)))
  <2> HIDE DEF first
  <2> QED BY <1>1
<1> QED BY <1>2, <1>9, <1>10

-----------------------------------------------------------------------------
(***************************************************************************)
(* The inductive invariant behind the objects: the calls are those of the  *)
(* files, what a node has applied it has been through, and its object is   *)
(* what the operations make of the initial object, as long as they commute.*)
(***************************************************************************)
ObjectTypes ==
  /\ object \in [Node -> States(useCase)]
  /\ applied \in [Node -> SUBSET CallId]

CallsFromFiles ==
  /\ \A n \in Node : IsFiniteSet(calls[n]) /\ \A c \in calls[n] : FromFile(c)
  /\ \A m, n \in Node : \A x \in Sent(m, n) : x.kind = "Call" => FromFile(x.call)

WithinFiles == \A n \in Node : it[n] <= Len(file[n]) + 1

AppliedHandled == \A n \in Node : applied[n] \subseteq Handled(n)

Clean(n) ==
  /\ useCase # "stack"
  /\ Commute(OpsOf(Handled(n)))
  /\ \A a \in Handled(n) : a \notin Skipped(a.node_id)
  /\ \A o \in OpsOf(Handled(n)) : o.op.type # "DeleteCustomer"

OutcomeReached == \A n \in Node : Clean(n) => object[n] = Outcome(useCase, OpsOf(Handled(n)))

ObjectInv == ObjectTypes /\ CallsFromFiles /\ WithinFiles /\ AppliedHandled /\ OutcomeReached

(* A step that moves no call and touches no object. *)
Quiet ==
  /\ UNCHANGED <<it, object, applied>>
  /\ \A r \in Node :
       /\ calls'[r] \subseteq calls[r] /\ Handled(r)' = Handled(r)
       /\ IdsOf(calls'[r]) \cup Range(committed'[r]) \subseteq IdsOf(calls[r]) \cup Range(committed[r])
       /\ \A m \in Node : \A x \in Sent(m, r)' : x.kind = "Call" => x \in Sent(m, r)

(* Every other step issues a call or lets one arrive. *)
LEMMA StepKinds ==
  ASSUME CommitInv, [Next]_vars
  PROVE  /\ workload' = workload
         /\ \/ Quiet
            \/ \E n \in Node, c \in Call : Issues(n, c) /\ FromFile(c) /\ (Skips \/ Executes(n, c))
            \/ \E n, m \in Node, c \in Call : Arrives(n, m, c) /\ Replays(n, c)
<1>1. workload' = workload
  <2>1. CASE UNCHANGED vars
    BY <2>1 DEF vars
  <2>2. ASSUME NEW n \in Node, Main(n) PROVE workload' = workload
    BY <2>2 DEF Main, SendAck, NoAckToSend, TestLocal, SkipLocal, ExecuteLocal
  <2>3. ASSUME NEW n \in Node, NEW m \in Node, Receive(n, m) PROVE workload' = workload
    BY <2>3 DEF Receive, ReceiveCall, ReceiveAck
  <2> QED BY <2>1, <2>2, <2>3 DEF Next
<1>2. CASE UNCHANGED vars
  <2>1. \A r \in Node : Handled(r)' = Handled(r)
    BY <1>2, SameHandled DEF vars, graphVars, commitVars
  <2> QED BY <1>1, <1>2, <2>1 DEF Quiet, vars, graphVars, commitVars, IdsOf, Sent
<1>3. ASSUME NEW n \in Node, SendAck(n) PROVE Quiet
  <2>1. PICK a \in CallId : SendsAck(n, a)
    BY <1>3, SendAckEffect
  <2>2. UNCHANGED <<it, calls, committed, object, applied>>
    BY <1>3 DEF SendAck, graphVars, commitVars
  <2>3. \A r \in Node : Handled(r)' = Handled(r)
    BY <2>2, SameHandled
  <2>4. \A m, r \in Node : \A x \in Sent(m, r)' : x.kind = "Call" => x \in Sent(m, r)
    <3>1. AckMessage(a).kind # "Call"
      BY Messages
    <3> QED BY <2>1, <3>1 DEF SendsAck
  <2> QED BY <2>2, <2>3, <2>4 DEF Quiet, IdsOf
<1>4. ASSUME NEW n \in Node, NoAckToSend(n) \/ TestLocal(n) PROVE Quiet
  <2>1. UNCHANGED <<it, calls, committed, object, applied, net>>
    BY <1>4 DEF NoAckToSend, TestLocal, graphVars, commitVars
  <2>2. \A r \in Node : Handled(r)' = Handled(r)
    BY <2>1, SameHandled
  <2> QED BY <2>1, <2>2 DEF Quiet, IdsOf, Sent
<1>5. ASSUME NEW n \in Node, NEW m \in Node, ReceiveAck(n, m) PROVE Quiet
  <2>1. PICK a \in CallId : Counts(n, m, a) /\ (Commits(n, a) \/ committed' = committed)
    BY <1>5, ReceiveAckEffect
  <2>2. UNCHANGED <<it, object, applied>> /\ \A r \in Node : calls'[r] \subseteq calls[r]
    BY <1>5 DEF ReceiveAck, CommitInv, TypeInv
  <2>3. \A r \in Node : IdsOf(calls'[r]) \subseteq IdsOf(calls[r])
    BY <2>2 DEF IdsOf
  <2>4. ASSUME NEW r \in Node
        PROVE  Range(committed'[r]) \subseteq IdsOf(calls[r]) \cup Range(committed[r])
    <3>1. CASE committed' = committed
      BY <3>1
    <3>2. CASE Commits(n, a)
      <4>1. committed[r] \in Seq(CallId) /\ committed'[r] \in {committed[r], Append(committed[r], a)}
        BY <3>2 DEF Commits, CommitInv, TypeInv
      <4>2. Range(Append(committed[r], a)) = Range(committed[r]) \cup {a}
        BY <4>1, AppendElements
      <4>3. CASE r = n
        BY <3>2, <4>1, <4>2, <4>3 DEF Commits
      <4>4. CASE r # n
        <5>1. committed'[r] = committed[r]
          BY <3>2, <4>4 DEF Commits, CommitInv, TypeInv
        <5> QED BY <5>1
      <4> QED BY <4>3, <4>4
    <3> QED BY <2>1, <3>1, <3>2
  <2>5. \A r \in Node : /\ Handled(r)' = Handled(r)
                        /\ \A k \in Node : Sent(k, r)' \subseteq Sent(k, r)
    BY <2>1 DEF Counts
  <2> QED BY <2>2, <2>3, <2>4, <2>5 DEF Quiet
<1>6. ASSUME NEW n \in Node, SkipLocal(n) \/ ExecuteLocal(n)
      PROVE  \E c \in Call : Issues(n, c) /\ FromFile(c) /\ (Skips \/ Executes(n, c))
  BY <1>6, LocalEffect
<1>7. ASSUME NEW n \in Node, NEW m \in Node, ReceiveCall(n, m)
      PROVE  \E c \in Call : Arrives(n, m, c) /\ Replays(n, c)
  BY <1>7, ReceiveCallEffect
<1> QED BY <1>1, <1>2, <1>3, <1>4, <1>5, <1>6, <1>7 DEF Next, Main, Receive

(* A call of the files has a type of the use case. *)
LEMMA FileCall ==
  ASSUME TypeInv
  PROVE  /\ useCase \in UseCase
         /\ \A c \in Call : FromFile(c) => c \in CallsOf(useCase)
<1>1. ASSUME NEW c \in Call, FromFile(c) PROVE c \in CallsOf(useCase)
  <2>1. c.node_id \in Node /\ c.call_id \in DOMAIN file[c.node_id] /\ c.op = file[c.node_id][c.call_id]
    BY <1>1, IdOfCall DEF FromFile
  <2>2. file[c.node_id][c.call_id].type \in Methods(useCase)
    BY <2>1, WorkloadsAssumption DEF TypeInv, file, useCase
  <2> QED BY <2>1, <2>2 DEF CallsOf
<1> QED BY <1>1, WorkloadsAssumption DEF TypeInv, useCase

(* The calls stay those of the files. *)
LEMMA StepFromFiles ==
  ASSUME CommitInv, CallsFromFiles, [Next]_vars
  PROVE  CallsFromFiles'
<1>1. \A c : FromFile(c)' <=> FromFile(c)
  BY StepKinds DEF FromFile, file
<1>2. CASE Quiet
  <2>1. \A r \in Node : IsFiniteSet(calls'[r])
    BY <1>2, FS_Subset DEF Quiet, CallsFromFiles
  <2> QED BY <1>1, <1>2, <2>1 DEF Quiet, CallsFromFiles
<1>3. ASSUME NEW n \in Node, NEW c \in Call, Issues(n, c), FromFile(c), Skips \/ Executes(n, c)
      PROVE  CallsFromFiles'
  <2>1. \A r \in Node : calls'[r] = calls[r] \/ calls'[r] = calls[r] \cup {c}
    BY <1>3 DEF Skips, Executes, CommitInv, TypeInv
  <2>2. \A r \in Node : IsFiniteSet(calls'[r])
    <3>1. ASSUME NEW r \in Node PROVE IsFiniteSet(calls[r]) /\ IsFiniteSet(calls[r] \cup {c})
      BY FS_AddElement DEF CallsFromFiles
    <3> QED BY <2>1, <3>1
  <2>3. \A k, r \in Node : \A x \in Sent(k, r)' : x \in Sent(k, r) \/ x = CallMessage(c)
    BY <1>3 DEF Issues
  <2> QED BY <1>1, <1>3, <2>1, <2>2, <2>3, Messages DEF CallsFromFiles
<1>4. ASSUME NEW n \in Node, NEW m \in Node, NEW c \in Call, Arrives(n, m, c), Replays(n, c)
      PROVE  CallsFromFiles'
  <2>1. FromFile(c)
    BY <1>4, Messages DEF Arrives, CallsFromFiles
  <2>2. \A r \in Node : calls'[r] = calls[r] \/ calls'[r] = calls[r] \cup {c}
    BY <1>4 DEF Replays, CommitInv, TypeInv
  <2>3. \A r \in Node : IsFiniteSet(calls'[r])
    <3>1. ASSUME NEW r \in Node PROVE IsFiniteSet(calls[r]) /\ IsFiniteSet(calls[r] \cup {c})
      BY FS_AddElement DEF CallsFromFiles
    <3> QED BY <2>2, <3>1
  <2>4. \A k, r \in Node : Sent(k, r)' \subseteq Sent(k, r)
    BY <1>4 DEF Arrives
  <2> QED BY <1>1, <2>1, <2>2, <2>3, <2>4 DEF CallsFromFiles
<1> QED BY <1>2, <1>3, <1>4, StepKinds

(* No node counts beyond its file. *)
LEMMA StepWithinFiles ==
  ASSUME CommitInv, WithinFiles, [Next]_vars
  PROVE  WithinFiles'
<1>1. file' = file /\ \A r \in Node : file[r] \in Seq(Op) /\ it[r] \in Nat
  BY StepKinds, SetTypes, WorkloadsAssumption DEF file, CommitInv, TypeInv
<1>2. CASE it' = it
  BY <1>1, <1>2 DEF WithinFiles
<1>3. ASSUME NEW n \in Node, NEW c \in Call, Issues(n, c), FromFile(c) PROVE WithinFiles'
  <2>1. it[n] \in DOMAIN file[n] /\ it' = [it EXCEPT ![n] = @ + 1]
    BY <1>3 DEF Issues, FromFile
  <2>2. it[n] + 1 <= Len(file[n]) + 1
    BY <1>1, <2>1
  <2>3. \A r \in Node : it'[r] = IF r = n THEN it[r] + 1 ELSE it[r]
    BY <2>1 DEF CommitInv, TypeInv
  <2> QED BY <1>1, <2>2, <2>3 DEF WithinFiles
<1> QED BY <1>2, <1>3, StepKinds DEF Quiet, Arrives

(* The calls a node has been through are operations of the use case. *)
LEMMA HandledOps ==
  ASSUME CommitInv, WithinFiles, NEW n \in Node
  PROVE  OpsIn(file, Handled(n)) \in SUBSET OpsFor(useCase)
<1> SUFFICES ASSUME NEW a \in Handled(n)
             PROVE  [op |-> file[a.node_id][a.call_id]] \in OpsFor(useCase)
  BY DEF OpsIn
<1> DEFINE r == a.node_id
           k == a.call_id
<1>1. r \in Node /\ k \in 1..MaxCallId
  BY SetTypes DEF CommitInv, CallId
<1>2. k < it[r]
  BY DEF CommitInv, CallInv, Origins
<1> HIDE DEF r, k
<1>3. file[r] \in Seq(Op) /\ it[r] \in Nat /\ it[r] <= Len(file[r]) + 1
  BY <1>1, SetTypes, WorkloadsAssumption DEF file, CommitInv, TypeInv, WithinFiles
<1>4. k \in DOMAIN file[r]
  BY <1>1, <1>2, <1>3, MaxCallIdAssumption
<1>5. file[r][k] \in Op /\ file[r][k].type \in Methods(useCase)
  BY <1>1, <1>3, <1>4, WorkloadsAssumption DEF file, useCase, CommitInv, TypeInv
<1> QED BY <1>5 DEF OpsFor, r, k

(* The calls that are sorted at an arrival. *)
LEMMA SortedCalls ==
  ASSUME CommitInv, CallsFromFiles, NEW n \in Node, NEW m \in Node, NEW c \in Call,
         Arrives(n, m, c), NEW E, NEW t \in TopoOrders(calls[n] \cup {c}, E)
  PROVE  /\ t \in Seq(CallsOf(useCase)) /\ Range(t) \subseteq calls[n] \cup {c}
         /\ AsInFiles(file, t)
         /\ IdsOf(Range(t)) \subseteq CallId
<1> DEFINE C == calls[n] \cup {c}
<1>1. FromFile(c)
  BY Messages DEF Arrives, CallsFromFiles
<1>2. C \subseteq Call /\ \A d \in C : FromFile(d)
  BY <1>1 DEF CallsFromFiles, CommitInv, TypeInv
<1>3. IsFiniteSet(C)
  BY FS_AddElement DEF CallsFromFiles
<1>4. t \in TopoOrders(C, E)
  OBVIOUS
<1> HIDE DEF C
<1>5. t \in Seq(C) /\ Range(t) \subseteq C
  BY <1>3, <1>4, SortedType
<1>6. C \subseteq CallsOf(useCase)
  BY <1>2, FileCall DEF CommitInv
<1>7. AsInFiles(file, t)
  <2>1. \A i \in DOMAIN t : t[i] \in C
    BY <1>5
  <2> QED BY <1>2, <2>1 DEF AsInFiles, FromFile
<1>8. IdsOf(Range(t)) \subseteq CallId
  BY <1>2, <1>5, IdOfCall DEF IdsOf
<1> QED BY <1>5, <1>6, <1>7, <1>8 DEF C

(* Objects stay objects. *)
LEMMA StepObjectTypes ==
  ASSUME CommitInv, ObjectTypes, CallsFromFiles, [Next]_vars
  PROVE  ObjectTypes'
<1>1. PICK u : u = useCase
  OBVIOUS
<1>2. useCase' = u /\ u \in UseCase
  BY <1>1, StepKinds, FileCall DEF useCase, CommitInv
<1>3. object \in [Node -> States(u)] /\ applied \in [Node -> SUBSET CallId]
  BY <1>1 DEF ObjectTypes
<1>4. SUFFICES object' \in [Node -> States(u)] /\ applied' \in [Node -> SUBSET CallId]
  BY <1>2 DEF ObjectTypes
<1>5. CASE Quiet \/ Skips
  BY <1>3, <1>5 DEF Quiet, Skips
<1>6. ASSUME NEW n \in Node, NEW c \in Call, FromFile(c), Executes(n, c)
      PROVE  object' \in [Node -> States(u)] /\ applied' \in [Node -> SUBSET CallId]
  <2>1. c \in CallsOf(u) /\ IdOf(c) \in CallId
    BY <1>1, <1>6, FileCall, IdOfCall DEF CommitInv
  <2>2. ApplyCall(u, object[n], c) \in States(u)
    BY <1>2, <1>3, <2>1, ReplayType
  <2> QED BY <1>1, <1>3, <1>6, <2>1, <2>2 DEF Executes
<1>7. ASSUME NEW n \in Node, NEW m \in Node, NEW c \in Call, Arrives(n, m, c), Replays(n, c)
      PROVE  object' \in [Node -> States(u)] /\ applied' \in [Node -> SUBSET CallId]
  <2>1. PICK t \in TopoOrders(calls[n] \cup {c}, edges'[n]) :
          /\ object' = [object EXCEPT ![n] = Replay(@, applied[n], t)]
          /\ applied' = [applied EXCEPT ![n] = @ \cup IdsOf(Range(t))]
    BY <1>7 DEF Replays
  <2>2. t \in Seq(CallsOf(u)) /\ IdsOf(Range(t)) \subseteq CallId
    BY <1>1, <1>7, <2>1, SortedCalls
  <2>3. Replay(object[n], applied[n], t) \in States(u)
    <3>1. object[n] \in States(u)
      BY <1>3
    <3>2. Replay(object[n], applied[n], t) = ApplyAll(ReplayEffect(u, applied[n]), object[n], t)
      BY <1>1, <1>2, <2>2, <3>1, ReplayIsApplyAll
    <3>3. ReplayEffect(u, applied[n]) \in Effects(States(u), CallsOf(u))
      BY <1>2, ReplayOfCall
    <3> QED BY <2>2, <3>1, <3>2, <3>3, ApplyAllType
  <2> QED BY <1>3, <2>1, <2>2, <2>3
<1> QED BY <1>5, <1>6, <1>7, StepKinds

(* What is applied is handled. *)
LEMMA StepAppliedHandled ==
  ASSUME CommitInv, ObjectTypes, CallsFromFiles, AppliedHandled, [Next]_vars
  PROVE  AppliedHandled'
<1>1. CASE Quiet
  BY <1>1 DEF Quiet, AppliedHandled
<1>2. ASSUME NEW n \in Node, NEW c \in Call, Issues(n, c), Skips \/ Executes(n, c)
      PROVE  AppliedHandled'
  <2>1. ASSUME NEW r \in Node
        PROVE  applied'[r] \subseteq IF r = n THEN applied[r] \cup {IdOf(c)} ELSE applied[r]
    BY <1>2 DEF Skips, Executes, ObjectTypes
  <2> QED BY <1>2, <2>1 DEF Issues, AppliedHandled
<1>3. ASSUME NEW n \in Node, NEW m \in Node, NEW c \in Call, Arrives(n, m, c), Replays(n, c)
      PROVE  AppliedHandled'
  <2>1. PICK t \in TopoOrders(calls[n] \cup {c}, edges'[n]) :
          applied' = [applied EXCEPT ![n] = @ \cup IdsOf(Range(t))]
    BY <1>3 DEF Replays
  <2>2. IdsOf(Range(t)) \subseteq IdsOf(calls[n]) \cup {IdOf(c)}
    <3>1. Range(t) \subseteq calls[n] \cup {c}
      BY <1>3, <2>1, SortedCalls
    <3> QED BY <3>1 DEF IdsOf
  <2>3. IdsOf(calls[n]) \subseteq Handled(n)
    BY DEF Handled
  <2>4. \A r \in Node : applied'[r] = IF r = n THEN applied[r] \cup IdsOf(Range(t)) ELSE applied[r]
    BY <2>1 DEF ObjectTypes
  <2> QED BY <1>3, <2>2, <2>3, <2>4 DEF Arrives, AppliedHandled
<1> QED BY <1>1, <1>2, <1>3, StepKinds

(* A call that its issuer has skipped stays skipped. *)
LEMMA SkippedStays ==
  ASSUME CommitInv, [Next]_vars, NEW n \in Node
  PROVE  Handled(n) \subseteq Handled(n)' /\ Skipped(n) \subseteq Skipped(n)'
<1> DEFINE known(r) == IdsOf(calls[r]) \cup Range(committed[r])
<1>1. CASE Quiet
  BY <1>1 DEF Quiet, Skipped, IdsOf
<1>2. ASSUME NEW m \in Node, NEW c \in Call, Issues(m, c) \/ (\E k \in Node : Arrives(m, k, c))
      PROVE  Handled(n) \subseteq Handled(n)' /\ Skipped(n) \subseteq Skipped(n)'
  <2>1. /\ committed' = committed
        /\ IdsOf(calls'[n]) \subseteq IdsOf(calls[n]) \cup {IdOf(c)}
        /\ IdsOf(calls'[n]) \subseteq IdsOf(calls[n]) \/ n = m
        /\ Handled(n) \subseteq Handled(n)'
    BY <1>2 DEF Issues, Arrives
  <2>2. IdOf(c) \notin Handled(m)
    <3>1. CASE Issues(m, c)
      <4>1. IdOf(c).node_id = m /\ IdOf(c).call_id = it[m] /\ it[m] \in Nat
        BY <3>1, IdOfCall, SetTypes DEF Issues, CommitInv
      <4> QED BY <4>1 DEF CommitInv, CallInv, Origins
    <3>2. CASE \E k \in Node : Arrives(m, k, c)
      BY <3>2, ArrivesCalls
    <3> QED BY <1>2, <3>1, <3>2
  <2>3. ASSUME NEW a \in Skipped(n) PROVE a \in Skipped(n)'
    <3>1. a \in Handled(n) /\ a.node_id = n /\ a \notin IdsOf(calls[n]) /\ a \notin Range(committed[n])
      BY DEF Skipped
    <3>2. a \notin IdsOf(calls'[n])
      BY <2>1, <2>2, <3>1
    <3> QED BY <2>1, <3>1, <3>2 DEF Skipped, IdsOf
  <2> QED BY <2>1, <2>3
<1> QED BY <1>1, <1>2, StepKinds

(* What is clean after a step was clean before it. *)
LEMMA CleanBefore ==
  ASSUME CommitInv, [Next]_vars, NEW n \in Node, Clean(n)'
  PROVE  Clean(n)
<1>1. workload' = workload
  BY StepKinds
<1>2. \A r \in Node : Handled(r) \subseteq Handled(r)' /\ Skipped(r) \subseteq Skipped(r)'
  BY SkippedStays
<1>3. \A a \in Handled(n) : a.node_id \in Node
  BY SetTypes DEF CommitInv, CallId
<1>4. OpsOf(Handled(n)) \subseteq OpsOf(Handled(n))'
  BY <1>1, <1>2 DEF OpsOf, file
<1>5. Commute(OpsOf(Handled(n)))
  BY <1>1, <1>4 DEF Clean, Commute, useCase
<1>6. useCase # "stack" /\ \A q \in OpsOf(Handled(n)) : q.op.type # "DeleteCustomer"
  BY <1>1, <1>4 DEF Clean, useCase
<1>7. ASSUME NEW a \in Handled(n), a \in Skipped(a.node_id) PROVE FALSE
  <2> DEFINE r == a.node_id
  <2>1. a \in Skipped(r)' /\ a \in Handled(n)'
    BY <1>2, <1>3, <1>7
  <2>2. \A b \in Handled(n)' : b \notin Skipped(b.node_id)'
    BY DEF Clean
  <2> QED BY <2>1, <2>2
<1> QED BY <1>5, <1>6, <1>7 DEF Clean

(* A clean node has been through operations of its use case that commute. *)
CommutingOps ==
  \A n \in Node : Clean(n) =>
    /\ useCase \in UseCase /\ useCase # "stack"
    /\ OpsOf(Handled(n)) = OpsIn(file, Handled(n))
    /\ OpsIn(file, Handled(n)) \in SUBSET OpsFor(useCase)
    /\ Commuting(useCase, OpsIn(file, Handled(n)))

LEMMA CleanOps == CommitInv /\ WithinFiles => CommutingOps
<1> SUFFICES ASSUME CommitInv, WithinFiles, NEW n \in Node, Clean(n)
             PROVE  /\ useCase \in UseCase /\ useCase # "stack"
                    /\ OpsOf(Handled(n)) = OpsIn(file, Handled(n))
                    /\ OpsIn(file, Handled(n)) \in SUBSET OpsFor(useCase)
                    /\ Commuting(useCase, OpsIn(file, Handled(n)))
  BY DEF CommutingOps
<1>1. OpsOf(Handled(n)) = OpsIn(file, Handled(n))
  BY DEF OpsOf, OpsIn
<1> QED BY <1>1, FileCall, HandledOps DEF Clean, Commute, Commuting, CommitInv

(* Commuting calls have no edges but those of resolution, so Kahn's         *)
(* algorithm leaves none of them out.                                       *)
LEMMA AllSorted ==
  ASSUME NEW C, NEW E, EdgesOf(E, C), NEW t \in TopoOrders(C, E),
         \A c, d \in C : seqCommutative(useCase, c, d)
  PROVE  Range(t) = C
<1> DEFINE before(c) == {e[1] : e \in {e \in E : e[2] = c}}
<1>1. /\ t \in SetToAllKPermutations(C)
      /\ \A c \in C : before(c) \subseteq Range(t) => c \in Range(t)
  BY DEF TopoOrders
<1>2. ASSUME NEW c \in C, NEW d \in before(c)
      PROVE  d \in C /\ d.op.type \in Deletes /\ c.op.type \in Relates
  <2>1. PICK e \in E : e[2] = c /\ e[1] = d
    OBVIOUS
  <2>2. d \in C /\ e = <<d, c>>
    BY <2>1 DEF EdgesOf
  <2>3. Edge(d, c)
    BY <2>1, <2>2 DEF EdgesOf
  <2>4. resolution(d, c) = "<"
    BY <2>2, <2>3 DEF Edge, Causes
  <2>5. d.op.type \in Deletes /\ c.op.type \in Relates
    <3> SUFFICES ASSUME ~(d.op.type \in Deletes /\ c.op.type \in Relates) PROVE FALSE
      OBVIOUS
    <3>1. resolution(d, c) \in {">", "none"}
      <4>1. CASE d.op.type \in Relates /\ c.op.type \in Deletes
        <5>1. resolution(d, c) = ">"
          BY <4>1 DEF resolution, Deletes, Relates
        <5> QED BY <5>1
      <4>2. CASE ~(d.op.type \in Relates /\ c.op.type \in Deletes)
        <5>1. resolution(d, c) = "none"
          BY <4>2 DEF resolution
        <5> QED BY <5>1
      <4> QED BY <4>1, <4>2
    <3> QED BY <2>4, <3>1
  <2> QED BY <2>2, <2>5
<1> HIDE DEF before
<1>3. ASSUME NEW c \in C, c.op.type \notin Relates PROVE c \in Range(t)
  <2>1. before(c) = {}
    BY <1>2, <1>3
  <2> QED BY <1>1, <2>1
<1>4. ASSUME NEW c \in C PROVE c \in Range(t)
  <2>1. \A d \in before(c) : d \in C /\ d.op.type \notin Relates
    BY <1>2 DEF Deletes, Relates
  <2> QED BY <1>1, <1>3, <2>1
<1>5. Range(t) \subseteq C
  <2>1. PICK S \in SUBSET C : t \in SetToSeqs(S)
    BY <1>1 DEF SetToAllKPermutations
  <2> QED BY <2>1 DEF SetToSeqs, Range
<1> QED BY <1>4, <1>5

(* Executing the next call adds its operation to the outcome. *)
LEMMA ExecuteOutcome ==
  ASSUME CommitInv, CommitInv', WithinFiles', OutcomeReached, ObjectTypes, [Next]_vars,
         NEW n \in Node, NEW c \in Call, Issues(n, c), FromFile(c), Executes(n, c), Clean(n)'
  PROVE  object'[n] = Outcome(useCase', OpsOf(Handled(n))')
<1>1. workload' = workload /\ useCase' = useCase /\ file' = file
  BY StepKinds DEF useCase, file
<1>2. PICK u, f, A : u = useCase /\ f = file /\ A = Handled(n)
  OBVIOUS
<1>3. /\ u \in UseCase /\ u # "stack"
      /\ OpsOf(Handled(n))' = OpsIn(f, Handled(n)')
      /\ OpsIn(f, Handled(n)') \in SUBSET OpsFor(u)
      /\ Commuting(u, OpsIn(f, Handled(n)'))
  <2>1. /\ useCase' \in UseCase /\ useCase' # "stack"
        /\ OpsOf(Handled(n))' = OpsIn(file', Handled(n)')
        /\ OpsIn(file', Handled(n)') \in SUBSET OpsFor(useCase')
        /\ Commuting(useCase', OpsIn(file', Handled(n)'))
    <3>1. CommitInv' /\ WithinFiles' => CommutingOps'
      BY CleanOps, PTL
    <3> QED BY <3>1 DEF CommutingOps
  <2> QED BY <1>1, <1>2, <2>1
<1>4. Handled(n)' = A \cup {IdOf(c)}
  BY <1>2 DEF Issues
<1>5. OpsIn(f, A \cup {IdOf(c)}) = OpsIn(f, A) \cup {[op |-> c.op]}
  <2>1. c.op = f[c.node_id][c.call_id]
    BY <1>2 DEF FromFile
  <2>2. OpsIn(f, {IdOf(c)}) = {[op |-> c.op]}
    BY <2>1, MoreOps
  <2>3. OpsIn(f, A \cup {IdOf(c)}) = OpsIn(f, A) \cup OpsIn(f, {IdOf(c)})
    BY MoreOps
  <2> QED BY <2>2, <2>3
<1>6. object[n] = Outcome(u, OpsIn(f, A))
  <2>1. Clean(n)
    BY CleanBefore
  <2> QED BY <1>2, <2>1 DEF OutcomeReached, OpsOf, OpsIn
<1>7. c \in CallsOf(u)
  BY <1>2, FileCall DEF CommitInv
<1>8. ReplayCall(u, Outcome(u, OpsIn(f, A)), c) = Outcome(u, OpsIn(f, A) \cup {[op |-> c.op]})
  <2> DEFINE Q == OpsIn(f, A)
  <2>1. Q \in SUBSET OpsFor(u) /\ Commuting(u, Q \cup {[op |-> c.op]})
    BY <1>3, <1>4, <1>5
  <2> HIDE DEF Q
  <2>2. ReplayCall(u, Outcome(u, Q), c) = Outcome(u, Q \cup {[op |-> c.op]})
    BY <1>3, <1>7, <2>1, OutcomeStep
  <2> QED BY <2>2 DEF Q
<1>9. c.op.type # "DeleteCustomer"
  <2>1. [op |-> c.op] \in OpsOf(Handled(n))'
    BY <1>3, <1>4, <1>5
  <2> QED BY <2>1 DEF Clean
<1>10. object'[n] = ReplayCall(u, object[n], c)
  <2>1. object'[n] = ApplyCall(u, object[n], c)
    BY <1>2 DEF Executes, ObjectTypes
  <2> QED BY <1>9, <2>1 DEF ApplyCall
<1> QED BY <1>1, <1>2, <1>3, <1>4, <1>5, <1>6, <1>8, <1>10

(* A replay adds the operation of the call that has arrived. *)
LEMMA ReplaysOutcome ==
  ASSUME CommitInv, CommitInv', EdgesDetermined', ObjectTypes, CallsFromFiles, WithinFiles',
         AppliedHandled, OutcomeReached, [Next]_vars,
         NEW n \in Node, NEW m \in Node, NEW c \in Call, Arrives(n, m, c), Replays(n, c), Clean(n)'
  PROVE  object'[n] = Outcome(useCase', OpsOf(Handled(n))')
<1>1. workload' = workload /\ useCase' = useCase /\ file' = file
  BY StepKinds DEF useCase, file
<1>2. PICK u, f, A, C, E, done :
        /\ u = useCase /\ f = file /\ A = Handled(n)
        /\ C = calls[n] \cup {c} /\ E = edges'[n] /\ done = applied[n]
  OBVIOUS
<1>3. /\ u \in UseCase /\ u # "stack"
      /\ OpsOf(Handled(n))' = OpsIn(f, Handled(n)')
      /\ OpsIn(f, Handled(n)') \in SUBSET OpsFor(u)
      /\ Commuting(u, OpsIn(f, Handled(n)'))
  <2>1. /\ useCase' \in UseCase /\ useCase' # "stack"
        /\ OpsOf(Handled(n))' = OpsIn(file', Handled(n)')
        /\ OpsIn(file', Handled(n)') \in SUBSET OpsFor(useCase')
        /\ Commuting(useCase', OpsIn(file', Handled(n)'))
    <3>1. CommitInv' /\ WithinFiles' => CommutingOps'
      BY CleanOps, PTL
    <3> QED BY <3>1 DEF CommutingOps
  <2> QED BY <1>1, <1>2, <2>1
<1>4. PICK t \in TopoOrders(C, E) : object' = [object EXCEPT ![n] = Replay(@, done, t)]
  BY <1>2 DEF Replays
<1>5. /\ t \in Seq(CallsOf(u)) /\ Range(t) \subseteq C /\ AsInFiles(f, t)
  BY <1>2, <1>4, SortedCalls
<1>6. Handled(n)' = A \cup IdsOf(C)
  <2>1. IdsOf(C) = IdsOf(calls[n]) \cup {IdOf(c)}
    BY <1>2 DEF IdsOf
  <2>2. IdsOf(calls[n]) \subseteq Handled(n)
    BY DEF Handled
  <2>3. Handled(n)' = Handled(n) \cup {IdOf(c)}
    BY DEF Arrives
  <2> QED BY <1>2, <2>1, <2>2, <2>3
<1>7. ASSUME NEW d \in C PROVE [op |-> d.op] \in OpsIn(f, Handled(n)')
  <2>1. FromFile(c)
    BY Messages DEF Arrives, CallsFromFiles
  <2>2. FromFile(d)
    BY <1>2, <2>1 DEF CallsFromFiles
  <2>3. d.op = f[d.node_id][d.call_id]
    BY <1>2, <2>2 DEF FromFile
  <2>4. OpsIn(f, {IdOf(d)}) = {[op |-> d.op]}
    BY <2>3, MoreOps
  <2>5. IdOf(d) \in Handled(n)'
    BY <1>6 DEF IdsOf
  <2>6. OpsIn(f, {IdOf(d)}) \subseteq OpsIn(f, Handled(n)')
    BY <2>5 DEF OpsIn
  <2> QED BY <2>4, <2>6
<1>8. \A d, b \in C : seqCommutative(useCase, d, b)
  <2> SUFFICES ASSUME NEW d \in C, NEW b \in C PROVE seqCommutative(u, d, b)
    BY <1>2
  <2>1. seqCommutative(u, [op |-> d.op], [op |-> b.op])
    BY <1>3, <1>7 DEF Commuting
  <2> QED BY <2>1 DEF seqCommutative
<1>9. EdgesOf(E, C)
  <2>1. EdgesOf(edges[n], calls[n])'
    BY DEF EdgesDetermined
  <2>2. EdgesOf(edges'[n], calls'[n])
    BY <1>1, <2>1, EdgesFixed
  <2>3. calls'[n] = C
    BY <1>2 DEF Replays, CommitInv, TypeInv
  <2> QED BY <1>2, <2>2, <2>3
<1>10. Range(t) = C
  BY <1>4, <1>8, <1>9, AllSorted
<1>11. object[n] = Outcome(u, OpsIn(f, A))
  <2>1. Clean(n)
    BY CleanBefore
  <2> QED BY <1>2, <2>1 DEF OutcomeReached, OpsOf, OpsIn
<1>12. object[n] \in States(u) /\ done \in SUBSET A
  BY <1>2 DEF ObjectTypes, AppliedHandled
<1>13. Replay(object[n], done, t) = ApplyAll(ReplayEffect(u, done), object[n], t)
  BY <1>2, <1>3, <1>5, <1>12, ReplayIsApplyAll
<1>14. ApplyAll(ReplayEffect(u, done), Outcome(u, OpsIn(f, A)), t) = Outcome(u, OpsIn(f, A \cup IdsOf(C)))
  <2>1. /\ u \in UseCase /\ u # "stack" /\ done \in SUBSET A
        /\ t \in Seq(CallsOf(u)) /\ AllCommute(u, f, A, t)
    BY <1>3, <1>5, <1>6, <1>10, <1>12 DEF AllCommute
  <2>2. ApplyAll(ReplayEffect(u, done), Outcome(u, OpsIn(f, A)), t)
          = Outcome(u, OpsIn(f, A \cup IdsOf(Range(t))))
    BY <2>1, ReplayOutcome
  <2> QED BY <1>10, <2>2
<1>15. object'[n] = Replay(object[n], done, t)
  BY <1>4 DEF ObjectTypes
<1> QED BY <1>1, <1>2, <1>3, <1>6, <1>11, <1>13, <1>14, <1>15

(* A clean node has reached its outcome. *)
LEMMA StepOutcome ==
  ASSUME CommitInv, CommitInv', EdgesDetermined', ObjectInv, WithinFiles', [Next]_vars
  PROVE  OutcomeReached'
<1> USE DEF ObjectInv
<1>1. workload' = workload /\ useCase' = useCase /\ file' = file
  BY StepKinds DEF useCase, file
<1>2. ASSUME NEW r \in Node, Clean(r)', object'[r] = object[r], Handled(r)' = Handled(r)
      PROVE  object'[r] = Outcome(useCase', OpsOf(Handled(r))')
  <2>1. Clean(r)
    BY <1>2, CleanBefore
  <2>2. OpsOf(Handled(r))' = OpsOf(Handled(r))
    BY <1>1, <1>2 DEF OpsOf
  <2> QED BY <1>1, <1>2, <2>1, <2>2 DEF OutcomeReached
<1>3. CASE Quiet
  <2>1. ASSUME NEW r \in Node, Clean(r)' PROVE object'[r] = Outcome(useCase', OpsOf(Handled(r))')
    BY <1>2, <1>3, <2>1 DEF Quiet
  <2> QED BY <2>1 DEF OutcomeReached
<1>4. ASSUME NEW n \in Node, NEW c \in Call, Issues(n, c), FromFile(c), Skips \/ Executes(n, c)
      PROVE  OutcomeReached'
  <2>1. ASSUME NEW r \in Node, Clean(r)' PROVE object'[r] = Outcome(useCase', OpsOf(Handled(r))')
    <3>1. CASE r # n
      <4>1. object'[r] = object[r]
        BY <1>4, <3>1 DEF Skips, Executes, ObjectTypes
      <4>2. Handled(r)' = Handled(r)
        BY <1>4, <3>1 DEF Issues
      <4> QED BY <1>2, <2>1, <4>1, <4>2
    <3>2. CASE r = n /\ Executes(n, c)
      BY <1>4, <2>1, <3>2, ExecuteOutcome
    <3>3. CASE r = n /\ Skips
      <4>1. IdOf(c) \in Handled(n)' /\ IdOf(c).node_id = n
        BY <1>4, IdOfCall DEF Issues
      <4>2. IdOf(c) \notin Handled(n)
        <5>1. IdOf(c).call_id = it[n] /\ it[n] \in Nat
          BY <1>4, IdOfCall, SetTypes DEF Issues, CommitInv
        <5> QED BY <4>1, <5>1 DEF CommitInv, CallInv, Origins
      <4>3. IdOf(c) \notin IdsOf(calls'[n]) /\ IdOf(c) \notin Range(committed'[n])
        BY <1>4, <3>3, <4>2 DEF Skips, Issues, Handled
      <4>4. IdOf(c) \in Skipped(n)'
        BY <4>1, <4>3 DEF Skipped, IdsOf
      <4>5. IdOf(c) \notin Skipped(n)'
        <5>1. \A a \in Handled(n)' : a \notin Skipped(a.node_id)'
          BY <2>1, <3>3 DEF Clean
        <5> QED BY <4>1, <5>1
      <4> QED BY <4>4, <4>5
    <3> QED BY <1>4, <3>1, <3>2, <3>3
  <2> QED BY <2>1 DEF OutcomeReached
<1>5. ASSUME NEW n \in Node, NEW m \in Node, NEW c \in Call, Arrives(n, m, c), Replays(n, c)
      PROVE  OutcomeReached'
  <2>1. ASSUME NEW r \in Node, Clean(r)' PROVE object'[r] = Outcome(useCase', OpsOf(Handled(r))')
    <3>1. CASE r # n
      <4>1. object'[r] = object[r]
        BY <1>5, <3>1 DEF Replays, ObjectTypes
      <4>2. Handled(r)' = Handled(r)
        BY <1>5, <3>1 DEF Arrives
      <4> QED BY <1>2, <2>1, <4>1, <4>2
    <3>2. CASE r = n
      BY <1>5, <2>1, <3>2, ReplaysOutcome
    <3> QED BY <3>1, <3>2
  <2> QED BY <2>1 DEF OutcomeReached
<1> QED BY <1>3, <1>4, <1>5, StepKinds

(* At first nothing has happened. *)
LEMMA InitObjects == Init => ObjectInv
<1> SUFFICES ASSUME Init PROVE ObjectInv
  OBVIOUS
<1>1. CommitInv
  BY InitCommit
<1>2. useCase \in UseCase
  BY <1>1, FileCall DEF CommitInv
<1>3. ObjectTypes
  BY <1>2, InitialState DEF Init, ObjectTypes
<1>4. \A n \in Node : /\ it[n] = 1 /\ calls[n] = {} /\ applied[n] = {} /\ committed[n] = <<>>
                      /\ \A m \in Node : net[m][n] = <<>>
                      /\ object[n] = InitialObject(useCase, InitialRows)
  BY DEF Init
<1>5. CallsFromFiles
  <2>1. IsFiniteSet({}) /\ Range(<<>>) = {}
    BY FS_EmptySet DEF Range
  <2>2. \A m, n \in Node : Sent(m, n) = {}
    BY <1>4, <2>1 DEF Sent
  <2> QED BY <1>4, <2>1, <2>2 DEF CallsFromFiles
<1>6. WithinFiles
  <2>1. \A n \in Node : Len(file[n]) \in Nat
    BY <1>1, WorkloadsAssumption DEF CommitInv, TypeInv, file
  <2> QED BY <1>4, <2>1 DEF WithinFiles
<1>7. AppliedHandled
  BY <1>4 DEF AppliedHandled
<1>8. OutcomeReached
  <2> SUFFICES ASSUME NEW n \in Node, useCase # "stack"
               PROVE  object[n] = Outcome(useCase, OpsOf(Handled(n)))
    BY DEF OutcomeReached, Clean
  <2>1. Handled(n) = {}
    <3>1. [node_id : {n}, call_id : 1..(1 - 1)] = {} /\ Range(<<>>) = {}
      BY DEF Range
    <3> QED BY <1>4, <3>1 DEF Handled, IdsOf
  <2>2. OpsOf(Handled(n)) = {}
    BY <2>1 DEF OpsOf
  <2> QED BY <1>2, <1>4, <2>2, NoOutcome
<1> QED BY <1>3, <1>5, <1>6, <1>7, <1>8 DEF ObjectInv

(* Every step keeps the invariant. *)
LEMMA StepObjects ==
  ASSUME CommitInv, CommitInv', GraphInv', ObjectInv, [Next]_vars
  PROVE  ObjectInv'
<1>1. WithinFiles'
  BY StepWithinFiles DEF ObjectInv
<1>2. OutcomeReached'
  BY <1>1, StepOutcome DEF GraphInv
<1>3. ObjectTypes' /\ CallsFromFiles' /\ AppliedHandled'
  BY StepObjectTypes, StepFromFiles, StepAppliedHandled DEF ObjectInv
<1> QED BY <1>1, <1>2, <1>3 DEF ObjectInv

LEMMA ObjectInvariance == Spec => [](CommitInv /\ ObjectInv)
<1>1. Spec => []CommitInv
  BY CommitInvariance
<1>2. Spec => []GraphInv
  BY InitGraph, StepGraph, PTL DEF Spec
<1>3. CommitInv /\ CommitInv' /\ GraphInv' /\ ObjectInv /\ [Next]_vars => ObjectInv'
  BY StepObjects
<1> QED BY <1>1, <1>2, <1>3, InitObjects, PTL DEF Spec

(***************************************************************************)
(* The types of all variables: what a node keeps of calls, edges, counts   *)
(* and acknowledgements, and that recomputeState leaves the object's       *)
(* tables what they are, for all five objects.                             *)
(***************************************************************************)
THEOREM EcrosTypes == Spec => []EcrosTypeOK
<1>1. CommitInv /\ ObjectInv => EcrosTypeOK
  <2> SUFFICES ASSUME CommitInv, ObjectInv PROVE EcrosTypeOK
    OBVIOUS
  <2>1. TypeInv /\ ObjectTypes /\ useCase \in UseCase
    BY FileCall DEF CommitInv, ObjectInv
  <2>2. \A n \in Node : DOMAIN object[n] = DOMAIN InitialObject(useCase, InitialRows)
    <3> SUFFICES ASSUME NEW n \in Node PROVE DOMAIN object[n] = Tables(useCase)
      BY DEF Tables
    <3>1. object[n] \in States(useCase)
      BY <2>1 DEF ObjectTypes
    <3>2. CASE useCase = "stack"
      BY <3>1, <3>2 DEF States
    <3>3. CASE useCase # "stack"
      BY <3>1, <3>3 DEF States
    <3> QED BY <3>2, <3>3
  <2>3. ASSUME NEW m \in Node, NEW n \in Node, NEW i \in DOMAIN net[m][n]
        PROVE  \/ net[m][n][i].kind = "Call" /\ net[m][n][i].call \in Call
               \/ net[m][n][i].kind = "Ack" /\ net[m][n][i].ack \in CallId
    <3>1. net[m][n] \in Seq(Message)
      BY <2>1 DEF TypeInv
    <3>2. net[m][n][i] \in Message
      BY <3>1
    <3> QED BY <3>2, Messages
  <2> QED BY <2>1, <2>2, <2>3 DEF EcrosTypeOK, TypeInv, ObjectTypes
<1> QED BY <1>1, ObjectInvariance, PTL

(***************************************************************************)
(* Nodes that have been through the same commuting calls have the same     *)
(* object: whatever order the calls came in, however often recomputeState  *)
(* was run between them and whichever of the orders of fullTopoSort it     *)
(* took, every call has had its effect.                                    *)
(***************************************************************************)
THEOREM CommutingCallsAlwaysConverge == Spec => []CommutingCallsConverge
<1>1. ObjectInv => CommutingCallsConverge
  <2> SUFFICES ASSUME ObjectInv, useCase # "stack", NEW m \in Node, NEW n \in Node,
                      Handled(m) = Handled(n), Commute(OpsOf(Handled(m))),
                      \A a \in Handled(m) : a \notin Skipped(a.node_id),
                      \A o \in OpsOf(Handled(m)) : o.op.type # "DeleteCustomer"
               PROVE  object[m] = object[n]
    BY DEF CommutingCallsConverge
  <2>1. Clean(m) /\ Clean(n)
    BY DEF Clean
  <2> QED BY <2>1 DEF ObjectInv, OutcomeReached
<1> QED BY <1>1, ObjectInvariance, PTL
=============================================================================
