----------------------------- MODULE CrdtProofs -----------------------------
(***************************************************************************)
(* Proofs, for every number of nodes and every workload, that the init     *)
(* barrier does what the main loop relies on, that a node leaves the main  *)
(* loop only with every update applied, and that no update of a counter or *)
(* a set is lost or applied twice.                                         *)
(***************************************************************************)
EXTENDS CrdtProperties, ListLemmas, FunctionTheorems

-----------------------------------------------------------------------------
(* The inductive invariant.                                                *)

Message == {InitMessage} \cup {CallMessage(file(u[1])[u[2]]) : u \in Updates}

StartTypes ==
  /\ phase \in [Node -> Phases]
  /\ connecting \in [Node -> Node]
  /\ backlog \in [Node -> SUBSET Node]
  /\ socket \in [Node -> SUBSET Node]
  /\ \A n \in Node : n \notin backlog[n] /\ n \notin socket[n]
  /\ toInit \in [Node -> SUBSET Node]
  /\ initcounter \in [Node -> Nat]
  /\ net \in [Node -> [Node -> Seq(Message)]]

(* Who broadcasts has finished the sending of "init". *)
InitsSent == \A m \in Node : phase[m] \in {"barrier", "run"} => toInit[m] = {}

(* "init" is the first message on a connection, and calls come from the main loop. *)
InitFirst ==
  \A m, n \in Node :
    /\ ~Ready(m) \/ n \in toInit[m] => net[m][n] = <<>>
    /\ \A i \in DOMAIN net[m][n] :
         /\ net[m][n][i].kind = "Init" => i = 1
         /\ IsCall(net[m][n][i]) => phase[m] = "run"

(* The nodes whose "init" has reached n, or was dropped on the way to n. *)
Heard(n) ==
  {m \in socket[n] : /\ Ready(m) /\ n \notin toInit[m]
                     /\ \A i \in DOMAIN net[m][n] : net[m][n][i].kind # "Init"}

(* The counter counts different nodes. *)
CountsNodes == \A n \in Node : initcounter[n] <= Cardinality(Heard(n))

BarrierInv == StartTypes /\ InitsSent /\ InitFirst /\ CountsNodes /\ BarrierHolds

(* With it, that the main threads are at or behind the first line of their files. *)
CrdtInv == BarrierInv /\ workload \in Workloads /\ it \in [Node -> Nat \ {0}]

-----------------------------------------------------------------------------
(* The workload is constant, and with it the messages. *)
LEMMA MessageFixed == workload' = workload => Message' = Message
BY DEF Message, Updates, file, CallMessage, InitMessage

(* What the main thread is about to broadcast is an update of its file. *)
LEMMA BroadcastsUpdate ==
  ASSUME workload \in Workloads, NEW n \in Node, it[n] \in Nat \ {0}, AtCall(n, "Update")
  PROVE  <<n, it[n]>> \in Updates /\ CallMessage(file(n)[it[n]]) \in Message
<1>1. Len(file(n)) <= MaxCalls /\ Len(file(n)) \in Nat
  BY WorkloadsAssumption DEF file
<1>2. it[n] <= Len(file(n)) /\ file(n)[it[n]].type = "Update"
  BY DEF AtCall
<1>3. it[n] \in 1..MaxCalls
  BY <1>1, <1>2, MaxCallsAssumption
<1>4. <<n, it[n]>> \in Updates
  BY <1>2, <1>3 DEF Updates
<1> QED BY <1>4 DEF Message

(***************************************************************************)
(* A set of nodes other than n has at most N - 1 elements; with N - 1 it   *)
(* has all of them.                                                        *)
(***************************************************************************)
LEMMA PeersCounted ==
  ASSUME NEW n \in Node, NEW S \in SUBSET Peers(n)
  PROVE  /\ IsFiniteSet(S) /\ Cardinality(S) \in Nat
         /\ Cardinality(S) <= N - 1
         /\ Cardinality(S) = N - 1 => S = Peers(n)
<1>1. IsFiniteSet(Node) /\ Cardinality(Node) = N
  BY NAssumption, FS_Interval DEF Node
<1>2. IsFiniteSet(Peers(n)) /\ Cardinality(Peers(n)) = N - 1
  BY <1>1, FS_RemoveElement DEF Peers
<1>3. /\ IsFiniteSet(S) /\ Cardinality(S) <= Cardinality(Peers(n))
      /\ Cardinality(Peers(n)) = Cardinality(S) => Peers(n) = S
  BY <1>2, FS_Subset
<1> QED BY <1>2, <1>3, FS_CardinalityType

(* A node hears from its peers only. *)
LEMMA HeardArePeers ==
  ASSUME StartTypes, NEW n \in Node
  PROVE  Heard(n) \in SUBSET Peers(n)
BY DEF StartTypes, Heard, Peers

(***************************************************************************)
(* Steps that count no "init" keep the count right if nobody is unheard.   *)
(***************************************************************************)
LEMMA CountKept ==
  ASSUME StartTypes, StartTypes', CountsNodes, initcounter' = initcounter,
         \A n \in Node : Heard(n) \subseteq Heard(n)'
  PROVE  CountsNodes'
<1> SUFFICES ASSUME NEW n \in Node PROVE initcounter'[n] <= Cardinality(Heard(n)')
  BY DEF CountsNodes
<1>1. Heard(n) \in SUBSET Peers(n) /\ Heard(n)' \in SUBSET Peers(n)
  BY DEF StartTypes, Heard, Peers
<1>2. /\ IsFiniteSet(Heard(n)') /\ Cardinality(Heard(n)') \in Nat /\ Cardinality(Heard(n)) \in Nat
  BY <1>1, PeersCounted
<1>3. Cardinality(Heard(n)) <= Cardinality(Heard(n)')
  BY <1>2, FS_Subset
<1> QED BY <1>2, <1>3 DEF CountsNodes, StartTypes

(***************************************************************************)
(* Steps that let no node out of the barrier and close no connection keep  *)
(* what holds behind it.                                                   *)
(***************************************************************************)
LEMMA BarrierKept ==
  ASSUME StartTypes, StartTypes', BarrierHolds,
         \A n \in Node : /\ phase'[n] = "run" => phase[n] = "run"
                         /\ socket[n] \subseteq socket'[n]
                         /\ Ready(n) => Ready(n)'
  PROVE  BarrierHolds'
BY DEF StartTypes, BarrierHolds, Peers

-----------------------------------------------------------------------------
(* The steps of module Startup, in its order.                              *)

(* Starting a process breaks nothing: it is not set up yet. *)
LEMMA StartKeeps ==
  ASSUME BarrierInv, NEW n \in Node, Start(n), workload' = workload
  PROVE  BarrierInv'
<1> USE DEF BarrierInv
<1>1. StartTypes'
  BY MessageFixed DEF StartTypes, Start, Phases
<1>2. InitsSent' /\ InitFirst'
  BY DEF StartTypes, InitsSent, InitFirst, Start, Ready
<1>3. CountsNodes'
  <2>1. \A r \in Node : Heard(r) \subseteq Heard(r)'
    BY DEF StartTypes, Heard, Start, Ready
  <2> QED BY <1>1, <2>1, CountKept DEF Start
<1>4. BarrierHolds'
  BY <1>1, BarrierKept DEF StartTypes, Start, Ready
<1> QED BY <1>1, <1>2, <1>3, <1>4

(* A connection is opened to a smaller node, or the process dies. *)
LEMMA ConnectKeeps ==
  ASSUME BarrierInv, NEW n \in Node, Connect(n), workload' = workload
  PROVE  BarrierInv'
<1> USE DEF BarrierInv
<1>1. connecting[n] \in Node /\ connecting[n] < n /\ connecting[n] # n
  BY NAssumption DEF StartTypes, Connect, Node
<1>2. CASE phase[connecting[n]] \in {"off", "dead"}
  <2>1. /\ phase[n] = "connect" /\ phase' = [phase EXCEPT ![n] = "dead"]
        /\ UNCHANGED <<connecting, backlog, socket, patient, toInit, initcounter, net>>
    BY <1>2 DEF Connect
  <2>2. StartTypes'
    BY <2>1, MessageFixed DEF StartTypes, Phases
  <2>3. InitsSent' /\ InitFirst'
    BY <2>1 DEF StartTypes, InitsSent, InitFirst, Ready
  <2>4. \A r \in Node : Heard(r) \subseteq Heard(r)'
    BY <2>1 DEF StartTypes, Heard, Ready
  <2>5. CountsNodes'
    BY <2>1, <2>2, <2>4, CountKept
  <2>6. BarrierHolds'
    BY <2>1, <2>2, BarrierKept DEF StartTypes, Ready
  <2> QED BY <2>2, <2>3, <2>5, <2>6
<1>3. CASE phase[connecting[n]] \notin {"off", "dead"}
  <2>1. /\ socket' = [socket EXCEPT ![n] = @ \cup {connecting[n]}]
        /\ backlog' = [backlog EXCEPT ![connecting[n]] = @ \cup {n}]
        /\ connecting' = [connecting EXCEPT ![n] = @ + 1]
        /\ UNCHANGED <<phase, patient, toInit, initcounter, net>>
    BY <1>3 DEF Connect
  <2>2. connecting[n] + 1 \in Node
    BY <1>1, NAssumption DEF Node
  <2>3. StartTypes'
    BY <1>1, <2>1, <2>2, MessageFixed DEF StartTypes
  <2>4. InitsSent' /\ InitFirst'
    BY <2>1 DEF InitsSent, InitFirst, Ready
  <2>5. \A r \in Node : Heard(r) \subseteq Heard(r)'
    BY <2>1 DEF StartTypes, Heard, Ready
  <2>6. CountsNodes'
    BY <2>1, <2>3, <2>5, CountKept
  <2>7. BarrierHolds'
    <3>1. \A r \in Node : socket[r] \subseteq socket'[r]
      BY <2>1 DEF StartTypes
    <3> QED BY <2>1, <2>3, <3>1, BarrierKept DEF Ready
  <2> QED BY <2>3, <2>4, <2>6, <2>7
<1> QED BY <1>2, <1>3

(* Nothing depends on the sleep. *)
LEMMA SleepKeeps ==
  ASSUME BarrierInv, NEW n \in Node, Sleep(n), workload' = workload
  PROVE  BarrierInv'
<1> USE DEF BarrierInv
<1>1. StartTypes'
  BY MessageFixed DEF StartTypes, Sleep, Phases
<1>2. InitsSent' /\ InitFirst'
  BY DEF StartTypes, InitsSent, InitFirst, Sleep, Ready
<1>3. CountsNodes'
  <2>1. \A r \in Node : Heard(r) \subseteq Heard(r)'
    BY DEF StartTypes, Heard, Sleep, Ready
  <2> QED BY <1>1, <2>1, CountKept DEF Sleep
<1>4. BarrierHolds'
  BY <1>1, BarrierKept DEF StartTypes, Sleep, Ready
<1> QED BY <1>1, <1>2, <1>3, <1>4

(* An accepted connection is one more socket. *)
LEMMA AcceptKeeps ==
  ASSUME BarrierInv, NEW n \in Node, NEW m \in Peers(n), Accept(n, m), workload' = workload
  PROVE  BarrierInv'
<1> USE DEF BarrierInv
<1>1. StartTypes'
  BY MessageFixed DEF StartTypes, Accept, Peers
<1>2. InitsSent' /\ InitFirst'
  BY DEF InitsSent, InitFirst, Accept, Ready
<1>3. CountsNodes'
  <2>1. \A r \in Node : Heard(r) \subseteq Heard(r)'
    BY DEF StartTypes, Heard, Accept, Ready
  <2> QED BY <1>1, <2>1, CountKept DEF Accept
<1>4. BarrierHolds'
  BY <1>1, BarrierKept DEF StartTypes, Accept, Ready
<1> QED BY <1>1, <1>2, <1>3, <1>4

(* Who sets its variables has sent nothing yet. *)
LEMMA SetVarsKeeps ==
  ASSUME BarrierInv, NEW n \in Node, SetVars(n), workload' = workload
  PROVE  BarrierInv'
<1> USE DEF BarrierInv
<1>1. StartTypes'
  BY MessageFixed DEF StartTypes, SetVars, Phases, Peers
<1>2. InitsSent'
  BY DEF StartTypes, InitsSent, SetVars
<1>3. InitFirst'
  <2>1. \A r \in Node : net[n][r] = <<>>
    BY DEF InitFirst, SetVars, Ready
  <2> QED BY <2>1 DEF StartTypes, InitFirst, SetVars, Ready
<1>4. CountsNodes'
  <2>1. \A r \in Node : Heard(r) \subseteq Heard(r)'
    BY DEF StartTypes, Heard, SetVars, Ready
  <2> QED BY <1>1, <2>1, CountKept DEF SetVars
<1>5. BarrierHolds'
  BY <1>1, BarrierKept DEF StartTypes, SetVars, Ready
<1> QED BY <1>1, <1>2, <1>3, <1>4, <1>5

(* An "init" is the first message on its connection. *)
LEMMA SendInitKeeps ==
  ASSUME BarrierInv, NEW n \in Node, NEW m \in Peers(n), SendInit(n, m), workload' = workload
  PROVE  BarrierInv'
<1> USE DEF BarrierInv
<1>0. m \in Node /\ net[n][m] = <<>>
  BY DEF InitFirst, SendInit, Peers
<1>1. net'[n][m] \in {<<>>, <<InitMessage>>}
  BY <1>0 DEF StartTypes, SendInit
<1>2. \A a, b \in Node : <<a, b>> # <<n, m>> => net'[a][b] = net[a][b]
  BY <1>0 DEF StartTypes, SendInit
<1>3. /\ net' \in [Node -> [Node -> Seq(Message)]] /\ Message' = Message
  <2>1. net'[n][m] \in Seq(Message)
    <3>1. InitMessage \in Message
      BY DEF Message
    <3>2. <<>> \in Seq(Message) /\ <<InitMessage>> \in Seq(Message)
      BY <3>1
    <3> QED BY <1>1, <3>2
  <2> QED BY <1>0, <2>1, MessageFixed DEF StartTypes, SendInit
<1>4. StartTypes'
  BY <1>3 DEF StartTypes, SendInit
<1>5. InitsSent'
  BY DEF StartTypes, InitsSent, SendInit
<1>6. InitFirst'
  <2>1. phase' = phase /\ toInit' = [toInit EXCEPT ![n] = @ \ {m}] /\ phase[n] = "init"
    BY DEF SendInit
  <2> SUFFICES ASSUME NEW a \in Node, NEW b \in Node
               PROVE  /\ ~Ready(a)' \/ b \in toInit'[a] => net'[a][b] = <<>>
                      /\ \A i \in DOMAIN net'[a][b] :
                           /\ net'[a][b][i].kind = "Init" => i = 1
                           /\ IsCall(net'[a][b][i]) => phase'[a] = "run"
    BY DEF InitFirst, IsCall
  <2>2. CASE <<a, b>> = <<n, m>>
    BY <1>1, <2>1, <2>2 DEF StartTypes, Ready, IsCall, InitMessage
  <2>3. CASE <<a, b>> # <<n, m>>
    BY <1>2, <2>1, <2>3 DEF StartTypes, InitFirst, Ready, IsCall
  <2> QED BY <2>2, <2>3
<1>7. CountsNodes'
  <2>1. ASSUME NEW r \in Node, NEW a \in Heard(r) PROVE a \in Heard(r)'
    <3>1. a \in Node /\ <<a, r>> # <<n, m>>
      BY DEF StartTypes, Heard, SendInit
    <3>2. net'[a][r] = net[a][r]
      BY <1>2, <3>1
    <3> QED BY <3>1, <3>2 DEF StartTypes, Heard, SendInit, Ready
  <2> QED BY <1>4, <2>1, CountKept DEF SendInit
<1>8. BarrierHolds'
  BY <1>4, BarrierKept DEF StartTypes, SendInit, Ready
<1> QED BY <1>4, <1>5, <1>6, <1>7, <1>8

(* Who enters the barrier has sent "init" to all. *)
LEMMA EnterBarrierKeeps ==
  ASSUME BarrierInv, NEW n \in Node, EnterBarrier(n), workload' = workload
  PROVE  BarrierInv'
<1> USE DEF BarrierInv
<1>1. StartTypes'
  BY MessageFixed DEF StartTypes, EnterBarrier, Phases
<1>2. InitsSent' /\ InitFirst'
  BY DEF StartTypes, InitsSent, InitFirst, EnterBarrier, Ready
<1>3. CountsNodes'
  <2>1. \A r \in Node : Heard(r) \subseteq Heard(r)'
    BY DEF StartTypes, Heard, EnterBarrier, Ready
  <2> QED BY <1>1, <2>1, CountKept DEF EnterBarrier
<1>4. BarrierHolds'
  BY <1>1, BarrierKept DEF StartTypes, EnterBarrier, Ready
<1> QED BY <1>1, <1>2, <1>3, <1>4

(***************************************************************************)
(* The receiver thread hears of a node it had not heard of: the message it *)
(* takes was the only "init" on the connection.                            *)
(***************************************************************************)
LEMMA ReceiveInitKeeps ==
  ASSUME BarrierInv, NEW n \in Node, NEW m \in Peers(n), ReceiveInit(n, m), workload' = workload
  PROVE  BarrierInv'
<1> USE DEF BarrierInv
<1>0. /\ m \in Node /\ m \in socket[n]
      /\ net[m][n] # <<>> /\ Head(net[m][n]).kind = "Init" /\ net[m][n] \in Seq(Message)
  BY DEF StartTypes, ReceiveInit, Peers
<1>1. \A a, b \in Node : net'[a][b] = IF <<a, b>> = <<m, n>> THEN Tail(net[m][n]) ELSE net[a][b]
  BY <1>0 DEF StartTypes, ReceiveInit
<1>2. \A i \in DOMAIN Tail(net[m][n]) :
        /\ i + 1 \in DOMAIN net[m][n] /\ i + 1 # 1
        /\ Tail(net[m][n])[i] = net[m][n][i + 1]
  BY <1>0
<1>3. StartTypes'
  <2>1. net' \in [Node -> [Node -> Seq(Message)]]
    BY <1>0 DEF StartTypes, ReceiveInit
  <2> QED BY <2>1, MessageFixed DEF StartTypes, ReceiveInit
<1>4. InitsSent'
  BY DEF InitsSent, ReceiveInit
<1>5. Ready(m) /\ n \notin toInit[m]
  BY <1>0 DEF InitFirst
<1>6. InitFirst'
  <2> SUFFICES ASSUME NEW a \in Node, NEW b \in Node
               PROVE  /\ ~Ready(a)' \/ b \in toInit'[a] => net'[a][b] = <<>>
                      /\ \A i \in DOMAIN net'[a][b] :
                           /\ net'[a][b][i].kind = "Init" => i = 1
                           /\ IsCall(net'[a][b][i]) => phase'[a] = "run"
    BY DEF InitFirst, IsCall
  <2>1. phase' = phase /\ toInit' = toInit
    BY DEF ReceiveInit
  <2>2. CASE <<a, b>> = <<m, n>>
    <3>1. net'[a][b] = Tail(net[m][n])
      BY <1>0, <1>1, <2>2
    <3>2. \A i \in DOMAIN net[m][n] :
            (i # 1 => net[m][n][i].kind # "Init") /\ (IsCall(net[m][n][i]) => phase[m] = "run")
      BY <1>0 DEF InitFirst
    <3>3. Ready(a)' /\ b \notin toInit'[a] /\ phase'[a] = phase[m]
      BY <1>5, <2>1, <2>2 DEF Ready
    <3> QED BY <1>2, <3>1, <3>2, <3>3 DEF IsCall
  <2>3. CASE <<a, b>> # <<m, n>>
    BY <1>1, <2>1, <2>3 DEF InitFirst, Ready, IsCall
  <2> QED BY <2>2, <2>3
<1>7. CountsNodes'
  <2> SUFFICES ASSUME NEW r \in Node PROVE initcounter'[r] <= Cardinality(Heard(r)')
    BY DEF CountsNodes
  <2>1. Heard(r) \in SUBSET Peers(r) /\ Heard(r)' \in SUBSET Peers(r)
    BY <1>3, HeardArePeers DEF StartTypes, Heard, Peers
  <2>2. /\ IsFiniteSet(Heard(r)') /\ Cardinality(Heard(r)') \in Nat
        /\ IsFiniteSet(Heard(r)) /\ Cardinality(Heard(r)) \in Nat
    BY <2>1, PeersCounted
  <2>3. Heard(r) \subseteq Heard(r)'
    <3>1. ASSUME NEW a \in Heard(r) PROVE <<a, r>> # <<m, n>>
      <4>1. 1 \in DOMAIN net[m][n] /\ net[m][n][1].kind = "Init"
        BY <1>0
      <4> QED BY <4>1 DEF Heard
    <3>2. ASSUME NEW a \in Heard(r) PROVE a \in Heard(r)'
      <4>1. a \in Node
        BY DEF StartTypes, Heard
      <4>2. net'[a][r] = net[a][r]
        BY <1>1, <3>1, <4>1
      <4> QED BY <4>2 DEF Heard, ReceiveInit, Ready
    <3> QED BY <3>2
  <2>4. CASE r # n
    <3>1. initcounter'[r] = initcounter[r]
      BY <2>4 DEF StartTypes, ReceiveInit
    <3>2. Cardinality(Heard(r)) <= Cardinality(Heard(r)')
      BY <2>2, <2>3, FS_Subset
    <3> QED BY <2>2, <3>1, <3>2 DEF CountsNodes, StartTypes
  <2>5. CASE r = n
    <3>1. initcounter'[n] = initcounter[n] + 1
      BY DEF StartTypes, ReceiveInit
    <3>2. m \notin Heard(n)
      <4>1. 1 \in DOMAIN net[m][n] /\ net[m][n][1].kind = "Init"
        BY <1>0
      <4> QED BY <4>1 DEF Heard
    <3>3. m \in Heard(n)'
      <4>1. \A i \in DOMAIN net'[m][n] : net'[m][n][i].kind # "Init"
        <5>1. net'[m][n] = Tail(net[m][n])
          BY <1>0, <1>1
        <5>2. \A i \in DOMAIN net[m][n] : i # 1 => net[m][n][i].kind # "Init"
          BY <1>0 DEF InitFirst
        <5> QED BY <1>2, <5>1, <5>2
      <4> QED BY <1>0, <1>5, <4>1 DEF Heard, ReceiveInit, Ready
    <3>4. /\ IsFiniteSet(Heard(n) \cup {m})
          /\ Cardinality(Heard(n) \cup {m}) = Cardinality(Heard(n)) + 1
      BY <2>2, <2>5, <3>2, FS_AddElement
    <3>5. Cardinality(Heard(n) \cup {m}) <= Cardinality(Heard(n)')
      <4>1. Heard(n) \cup {m} \in SUBSET Heard(n)'
        BY <2>3, <2>5, <3>3
      <4> QED BY <2>2, <2>5, <4>1, FS_Subset
    <3> QED BY <2>2, <2>5, <3>1, <3>4, <3>5 DEF CountsNodes, StartTypes
  <2> QED BY <2>4, <2>5
<1>8. BarrierHolds'
  BY <1>3, BarrierKept DEF StartTypes, ReceiveInit, Ready
<1> QED BY <1>3, <1>4, <1>6, <1>7, <1>8

(***************************************************************************)
(* A node that has counted N - 1 has heard of all the others.              *)
(***************************************************************************)
LEMMA LeaveBarrierKeeps ==
  ASSUME BarrierInv, NEW n \in Node, LeaveBarrier(n), workload' = workload
  PROVE  BarrierInv'
<1> USE DEF BarrierInv
<1>1. StartTypes'
  BY MessageFixed DEF StartTypes, LeaveBarrier, Phases
<1>2. InitsSent' /\ InitFirst'
  BY DEF StartTypes, InitsSent, InitFirst, LeaveBarrier, Ready
<1>3. CountsNodes'
  <2>1. \A r \in Node : Heard(r) \subseteq Heard(r)'
    BY DEF StartTypes, Heard, LeaveBarrier, Ready
  <2> QED BY <1>1, <2>1, CountKept DEF LeaveBarrier
<1>4. BarrierHolds'
  <2>1. Heard(n) = Peers(n)
    <3>1. Heard(n) \in SUBSET Peers(n)
      BY HeardArePeers
    <3>2. Cardinality(Heard(n)) >= N - 1
      BY DEF CountsNodes, LeaveBarrier
    <3> QED BY <3>1, <3>2, PeersCounted, NAssumption
  <2>2. socket[n] = Peers(n) /\ \A m \in Node : Ready(m)
    <3>1. Peers(n) \subseteq socket[n] /\ \A m \in Peers(n) : Ready(m)
      BY <2>1 DEF Heard
    <3>2. Ready(n)
      BY DEF LeaveBarrier, Ready
    <3> QED BY <3>1, <3>2 DEF StartTypes, Peers
  <2> QED BY <2>2 DEF StartTypes, BarrierHolds, LeaveBarrier, Ready, Peers
<1> QED BY <1>1, <1>2, <1>3, <1>4

-----------------------------------------------------------------------------
(* The main loop and the receipt of calls.                                 *)

(* Every step of the start-up keeps the invariant. *)
LEMMA StartNextKeeps ==
  ASSUME BarrierInv, StartNext, workload' = workload
  PROVE  BarrierInv'
BY StartKeeps, ConnectKeeps, SleepKeeps, AcceptKeeps, SetVarsKeeps, SendInitKeeps,
   EnterBarrierKeeps, ReceiveInitKeeps, LeaveBarrierKeeps DEF StartNext

(* A broadcast puts one call at the end of some of the sender's connections. *)
LEMMA BroadcastUpdateKeeps ==
  ASSUME CrdtInv, NEW n \in Node, BroadcastUpdate(n)
  PROVE  BarrierInv'
<1> USE DEF BarrierInv, CrdtInv
<1> DEFINE c == CallMessage(file(n)[it[n]])
<1>1. /\ phase[n] = "run" /\ Ready(n) /\ toInit[n] = {}
      /\ UNCHANGED startVars /\ workload' = workload
  BY DEF BroadcastUpdate, AtCall, Running, Ready, InitsSent
<1>2. c \in Message /\ c.kind = "Call"
  BY BroadcastsUpdate DEF CallMessage, BroadcastUpdate
<1>3. \A a, b \in Node :
        \/ net'[a][b] = net[a][b]
        \/ a = n /\ net'[a][b] = Append(net[a][b], c)
  <2>1. net' = [net EXCEPT ![n] = [m \in Node |->
          IF m \in socket[n] THEN Append(net[n][m], c) ELSE net[n][m]]]
    BY DEF BroadcastUpdate
  <2>2. net'[n] = [m \in Node |-> IF m \in socket[n] THEN Append(net[n][m], c) ELSE net[n][m]]
    BY <2>1 DEF StartTypes
  <2>3. \A a \in Node : a # n => net'[a] = net[a]
    BY <2>1 DEF StartTypes
  <2> QED BY <2>2, <2>3
<1>4. net' \in [Node -> [Node -> Seq(Message)]]
  <2>1. net'[n] \in [Node -> Seq(Message)]
    BY <1>2 DEF StartTypes, BroadcastUpdate
  <2> QED BY <2>1 DEF StartTypes, BroadcastUpdate
<1>5. StartTypes'
  BY <1>1, <1>4, MessageFixed DEF StartTypes, startVars
<1>6. InitsSent'
  BY <1>1 DEF InitsSent, startVars
<1>7. \A a, b \in Node : \A i \in DOMAIN net'[a][b] :
        \/ i \in DOMAIN net[a][b] /\ net'[a][b][i] = net[a][b][i]
        \/ a = n /\ net'[a][b][i] = c
  <2> SUFFICES ASSUME NEW a \in Node, NEW b \in Node, NEW i \in DOMAIN net'[a][b]
               PROVE  \/ i \in DOMAIN net[a][b] /\ net'[a][b][i] = net[a][b][i]
                      \/ a = n /\ net'[a][b][i] = c
    OBVIOUS
  <2>1. net[a][b] \in Seq(Message)
    BY DEF StartTypes
  <2>2. CASE net'[a][b] = net[a][b]
    BY <2>2
  <2>3. CASE a = n /\ net'[a][b] = Append(net[a][b], c)
    BY <1>2, <2>1, <2>3
  <2> QED BY <1>3, <2>2, <2>3
<1>8. InitFirst'
  <2> SUFFICES ASSUME NEW a \in Node, NEW b \in Node
               PROVE  /\ ~Ready(a)' \/ b \in toInit'[a] => net'[a][b] = <<>>
                      /\ \A i \in DOMAIN net'[a][b] :
                           /\ net'[a][b][i].kind = "Init" => i = 1
                           /\ IsCall(net'[a][b][i]) => phase'[a] = "run"
    BY DEF InitFirst, IsCall
  <2>1. phase' = phase /\ toInit' = toInit
    BY <1>1 DEF startVars
  <2>2. ~Ready(a)' \/ b \in toInit'[a] => net'[a][b] = <<>>
    BY <1>1, <1>3, <2>1 DEF InitFirst, Ready
  <2>3. \A i \in DOMAIN net'[a][b] :
           /\ net'[a][b][i].kind = "Init" => i = 1
           /\ IsCall(net'[a][b][i]) => phase'[a] = "run"
    BY <1>1, <1>2, <1>7, <2>1 DEF InitFirst, IsCall
  <2> QED BY <2>2, <2>3
<1>9. CountsNodes'
  <2>1. ASSUME NEW r \in Node, NEW a \in Heard(r) PROVE a \in Heard(r)'
    <3>1. a \in Node
      BY DEF StartTypes, Heard
    <3>2. \A i \in DOMAIN net'[a][r] : net'[a][r][i].kind # "Init"
      BY <1>2, <1>7, <3>1 DEF Heard
    <3> QED BY <1>1, <3>2 DEF Heard, Ready, startVars
  <2> QED BY <1>1, <1>5, <2>1, CountKept DEF startVars
<1>10. BarrierHolds'
  BY <1>1, <1>5, BarrierKept DEF Ready, startVars
<1> QED BY <1>5, <1>6, <1>8, <1>9, <1>10

(* A receipt of a call takes a message that is not an "init". *)
LEMMA ReceiveUpdateKeeps ==
  ASSUME BarrierInv, NEW n \in Node, NEW m \in Peers(n), ReceiveUpdate(n, m)
  PROVE  BarrierInv'
<1> USE DEF BarrierInv
<1>0. m \in Node /\ net[m][n] # <<>> /\ net[m][n] \in Seq(Message)
  BY DEF StartTypes, ReceiveUpdate, Peers
<1>1. UNCHANGED startVars /\ workload' = workload
  BY DEF ReceiveUpdate
<1>2. \A a, b \in Node : net'[a][b] = IF a = m /\ b = n THEN Tail(net[m][n]) ELSE net[a][b]
  BY <1>0 DEF StartTypes, ReceiveUpdate
<1>3. \A a, b \in Node : \A i \in DOMAIN net'[a][b] :
        \E k \in DOMAIN net[a][b] :
          /\ net'[a][b][i] = net[a][b][k]
          /\ IF a = m /\ b = n THEN k # 1 ELSE k = i
  <2>1. \A i \in DOMAIN Tail(net[m][n]) :
          /\ i + 1 \in DOMAIN net[m][n] /\ i + 1 # 1
          /\ Tail(net[m][n])[i] = net[m][n][i + 1]
    BY <1>0
  <2> SUFFICES ASSUME NEW a \in Node, NEW b \in Node, NEW i \in DOMAIN net'[a][b]
               PROVE  \E k \in DOMAIN net[a][b] :
                        /\ net'[a][b][i] = net[a][b][k]
                        /\ IF a = m /\ b = n THEN k # 1 ELSE k = i
    OBVIOUS
  <2>2. CASE a = m /\ b = n
    <3>1. net'[a][b] = Tail(net[m][n]) /\ net[a][b] = net[m][n]
      BY <1>0, <1>2, <2>2
    <3>2. i + 1 \in DOMAIN net[a][b] /\ i + 1 # 1 /\ net'[a][b][i] = net[a][b][i + 1]
      BY <2>1, <3>1
    <3> QED BY <2>2, <3>2
  <2>3. CASE ~(a = m /\ b = n)
    BY <1>2, <2>3
  <2> QED BY <2>2, <2>3
<1>4. StartTypes'
  <2>1. net' \in [Node -> [Node -> Seq(Message)]]
    <3>1. Tail(net[m][n]) \in Seq(Message)
      BY <1>0
    <3> QED BY <1>0, <3>1 DEF StartTypes, ReceiveUpdate
  <2> QED BY <1>1, <2>1, MessageFixed DEF StartTypes, startVars
<1>5. InitsSent'
  BY <1>1 DEF InitsSent, startVars
<1>6. InitFirst'
  <2> SUFFICES ASSUME NEW a \in Node, NEW b \in Node
               PROVE  /\ ~Ready(a)' \/ b \in toInit'[a] => net'[a][b] = <<>>
                      /\ \A i \in DOMAIN net'[a][b] :
                           /\ net'[a][b][i].kind = "Init" => i = 1
                           /\ IsCall(net'[a][b][i]) => phase'[a] = "run"
    BY DEF InitFirst, IsCall
  <2>1. phase' = phase /\ toInit' = toInit
    BY <1>1 DEF startVars
  <2>2. ~Ready(a)' \/ b \in toInit'[a] => net'[a][b] = <<>>
    BY <1>0, <1>2, <2>1 DEF InitFirst, Ready
  <2>3. \A i \in DOMAIN net'[a][b] :
           /\ net'[a][b][i].kind = "Init" => i = 1
           /\ IsCall(net'[a][b][i]) => phase'[a] = "run"
    BY <1>3, <2>1 DEF InitFirst, IsCall
  <2> QED BY <2>2, <2>3
<1>7. CountsNodes'
  <2>1. ASSUME NEW r \in Node, NEW a \in Heard(r) PROVE a \in Heard(r)'
    <3>1. a \in Node
      BY DEF StartTypes, Heard
    <3>2. \A i \in DOMAIN net'[a][r] : net'[a][r][i].kind # "Init"
      BY <1>3, <3>1 DEF Heard
    <3> QED BY <1>1, <3>2 DEF Heard, Ready, startVars
  <2> QED BY <1>1, <1>4, <2>1, CountKept DEF startVars
<1>8. BarrierHolds'
  BY <1>1, <1>4, BarrierKept DEF Ready, startVars
<1> QED BY <1>4, <1>5, <1>6, <1>7, <1>8

(* Nothing else touches what the invariant speaks of. *)
LEMMA BarrierInvUnchanged ==
  ASSUME BarrierInv, UNCHANGED vars, workload' = workload
  PROVE  BarrierInv'
<1>1. StartTypes' /\ InitsSent' /\ BarrierHolds'
  BY MessageFixed DEF BarrierInv, StartTypes, InitsSent, BarrierHolds, Ready, vars, startVars
<1>2. InitFirst'
  BY DEF BarrierInv, InitFirst, IsCall, Ready, vars, startVars
<1>3. \A n \in Node : Heard(n) \subseteq Heard(n)'
  BY DEF BarrierInv, Heard, Ready, vars, startVars
<1>4. CountsNodes'
  BY <1>1, <1>3, CountKept DEF BarrierInv, vars, startVars
<1> QED BY <1>1, <1>2, <1>4 DEF BarrierInv

(* Every step of the composed system keeps the invariant. *)
LEMMA CrdtInvInductive == CrdtInv /\ [CrdtNext]_allVars => CrdtInv'
<1> SUFFICES ASSUME CrdtInv, [CrdtNext]_allVars PROVE CrdtInv'
  OBVIOUS
<1> USE DEF CrdtInv
<1>1. CASE Starting
  BY <1>1, StartNextKeeps DEF Starting, crdtVars
<1>2. ASSUME NEW n \in Node, BroadcastUpdate(n) PROVE CrdtInv'
  BY <1>2, BroadcastUpdateKeeps DEF BroadcastUpdate
<1>3. ASSUME NEW n \in Node, UpdateLocal(n) \/ StoreRemote(n) PROVE CrdtInv'
  BY <1>3, BarrierInvUnchanged DEF UpdateLocal, StoreRemote
<1>4. ASSUME NEW n \in Node, StoreLocal(n) \/ ReadLocal(n) PROVE CrdtInv'
  <2>1. it' = [it EXCEPT ![n] = @ + 1] /\ UNCHANGED vars /\ workload' = workload
    BY <1>4 DEF StoreLocal, ReadLocal
  <2> QED BY <2>1, BarrierInvUnchanged
<1>5. ASSUME NEW n \in Node, NEW m \in Peers(n), ReceiveUpdate(n, m) PROVE CrdtInv'
  BY <1>5, ReceiveUpdateKeeps DEF ReceiveUpdate
<1>6. CASE UNCHANGED allVars
  BY <1>6, BarrierInvUnchanged DEF allVars, crdtVars
<1> QED BY <1>1, <1>2, <1>3, <1>4, <1>5, <1>6 DEF CrdtNext, Main

(* The initial states satisfy the invariant. *)
LEMMA CrdtInvInit == CrdtInit => CrdtInv
<1> SUFFICES ASSUME CrdtInit PROVE CrdtInv
  OBVIOUS
<1>1. StartTypes
  <2>1. 1 \in Node
    BY NAssumption DEF Node
  <2> QED BY <2>1 DEF CrdtInit, StartInit, StartTypes, Phases
<1>2. InitsSent /\ InitFirst /\ BarrierHolds
  BY DEF CrdtInit, StartInit, InitsSent, InitFirst, BarrierHolds, Ready
<1>3. CountsNodes
  <2> SUFFICES ASSUME NEW n \in Node PROVE initcounter[n] <= Cardinality(Heard(n))
    BY DEF CountsNodes
  <2>1. Cardinality(Heard(n)) \in Nat
    BY <1>1, HeardArePeers, PeersCounted
  <2> QED BY <2>1 DEF CrdtInit, StartInit
<1>4. workload \in Workloads /\ it \in [Node -> Nat \ {0}]
  BY DEF CrdtInit
<1> QED BY <1>1, <1>2, <1>3, <1>4 DEF CrdtInv, BarrierInv

-----------------------------------------------------------------------------
(***************************************************************************)
(* The counter of updates.  Both threads of a node load waittobestable and *)
(* store it later, so that increments may be lost; that it never counts    *)
(* too much needs a budget: what has been counted, what a thread is about  *)
(* to store, and what has yet to reach the object never exceed the number  *)
(* of updates in the files.                                                *)
(***************************************************************************)
Threads ==
  /\ workload \in Workloads
  /\ it \in [Node -> Nat \ {0}]
  /\ main \in [Node -> {Loop, Apply} \cup [loaded : Nat]]
  /\ receiver \in [Node -> {Poll} \cup [loaded : Nat]]
  /\ waittobestable \in [Node -> Nat]
  /\ \A n \in Node : it[n] <= IF main[n] = Loop THEN Len(file(n)) + 1 ELSE Len(file(n))

One(b) == IF b THEN 1 ELSE 0
MainStores(n) == One(main[n] \notin {Loop, Apply})
ReceiverStores(n) == One(receiver[n] # Poll)

(* The updates that are not in the object of n yet. *)
Missing(n) == Cardinality(Unissued) + Cardinality(Incoming(n)) + One(main[n] = Apply)

Budget(n) ==
  /\ waittobestable[n] + MainStores(n) + ReceiverStores(n) + Missing(n) <= ExpectedCalls
  /\ main[n] \notin {Loop, Apply} =>
       main[n].loaded + 1 + ReceiverStores(n) + Missing(n) <= ExpectedCalls
  /\ receiver[n] # Poll =>
       receiver[n].loaded + 1 + MainStores(n) + Missing(n) <= ExpectedCalls

CountingInv ==
  /\ CrdtInv /\ Threads
  /\ \A n \in Node : IsFiniteSet(Incoming(n)) /\ Budget(n)

(* What is stored is no control state. *)
LEMMA LoadedIsDifferent ==
  \A v : Loaded(v) \notin {Loop, Apply, Poll} /\ Loaded(v).loaded = v
BY DEF Loaded, Loop, Apply, Poll

(* The control states of the main thread differ. *)
LEMMA ControlDiffers == Loop # Apply
BY DEF Loop, Apply

(* The updates of all files are finitely many. *)
LEMMA UpdatesFinite ==
  /\ IsFiniteSet(Updates) /\ ExpectedCalls \in Nat
  /\ IsFiniteSet(Unissued) /\ Cardinality(Unissued) \in Nat
<1>1. IsFiniteSet(Node \X (1..MaxCalls))
  <2>1. IsFiniteSet(Node) /\ IsFiniteSet(1..MaxCalls)
    BY NAssumption, MaxCallsAssumption, FS_Interval DEF Node
  <2> QED BY <2>1, FS_Product
<1>2. IsFiniteSet(Updates)
  <2>1. Updates \in SUBSET (Node \X (1..MaxCalls))
    BY DEF Updates
  <2> QED BY <1>1, <2>1, FS_Subset
<1>3. IsFiniteSet(Unissued)
  <2>1. Unissued \in SUBSET Updates
    BY DEF Unissued
  <2> QED BY <1>2, <2>1, FS_Subset
<1> QED BY <1>2, <1>3, FS_CardinalityType DEF ExpectedCalls

(* The workload is constant, and with it the number of updates. *)
LEMMA UpdatesFixed ==
  ASSUME workload' = workload
  PROVE  Updates' = Updates /\ ExpectedCalls' = ExpectedCalls
BY DEF Updates, ExpectedCalls, file

(* The calls on their way to n, one by one. *)
LEMMA IncomingPairs ==
  ASSUME NEW n
  PROVE  \A x : x \in Incoming(n) <=>
           \E m \in Node : \E i \in DOMAIN net[m][n] : x = <<m, i>> /\ IsCall(net[m][n][i])
BY DEF Incoming

(* The same after a step. *)
LEMMA IncomingPairsNext ==
  ASSUME NEW n
  PROVE  \A x : x \in Incoming(n)' <=>
           \E m \in Node : \E i \in DOMAIN net'[m][n] : x = <<m, i>> /\ IsCall(net'[m][n][i])
BY DEF Incoming, IsCall

(* Missing updates are a number. *)
LEMMA MissingIsNumber ==
  ASSUME NEW n, IsFiniteSet(Incoming(n))
  PROVE  Missing(n) \in Nat /\ Cardinality(Incoming(n)) \in Nat
<1>1. Cardinality(Incoming(n)) \in Nat
  BY FS_CardinalityType
<1> QED BY <1>1, UpdatesFinite DEF Missing, One

(* A step that does not touch the node and makes nothing missing there. *)
LEMMA BudgetKept ==
  ASSUME CountingInv, NEW n \in Node, workload' = workload,
         waittobestable'[n] = waittobestable[n], main'[n] = main[n],
         receiver'[n] = receiver[n],
         Missing(n)' \in Nat, Missing(n)' <= Missing(n)
  PROVE  Budget(n)'
<1>1. Missing(n) \in Nat /\ ExpectedCalls \in Nat /\ ExpectedCalls' = ExpectedCalls
  BY MissingIsNumber, UpdatesFinite, UpdatesFixed DEF CountingInv
<1>2. /\ waittobestable[n] \in Nat
      /\ main[n] \notin {Loop, Apply} => main[n].loaded \in Nat
      /\ receiver[n] # Poll => receiver[n].loaded \in Nat
  BY DEF CountingInv, Threads
<1>3. /\ MainStores(n) \in Nat /\ MainStores(n)' = MainStores(n)
      /\ ReceiverStores(n) \in Nat /\ ReceiverStores(n)' = ReceiverStores(n)
  BY DEF MainStores, ReceiverStores, One
<1>4. Budget(n)
  BY DEF CountingInv
<1>5. waittobestable'[n] + MainStores(n)' + ReceiverStores(n)' + Missing(n)' <= ExpectedCalls'
  BY <1>1, <1>2, <1>3, <1>4 DEF Budget
<1>6. main'[n] \notin {Loop, Apply} =>
        main'[n].loaded + 1 + ReceiverStores(n)' + Missing(n)' <= ExpectedCalls'
  BY <1>1, <1>2, <1>3, <1>4 DEF Budget
<1>7. receiver'[n] # Poll =>
        receiver'[n].loaded + 1 + MainStores(n)' + Missing(n)' <= ExpectedCalls'
  BY <1>1, <1>2, <1>3, <1>4 DEF Budget
<1> QED BY <1>5, <1>6, <1>7 DEF Budget

(***************************************************************************)
(* A message leaves the connection from m to n: the calls that remain on   *)
(* their way to n are those behind it, moved by one position.              *)
(***************************************************************************)
Moves(n, m, f) ==
  /\ f \in [Incoming(n)' -> Incoming(n) \ {<<m, 1>>}]
  /\ \A x, y \in Incoming(n)' : f[x] = f[y] => x = y
  /\ \A z \in Incoming(n) \ {<<m, 1>>} : \E x \in Incoming(n)' : f[x] = z
  /\ \A x \in Incoming(n)' : net[f[x][1]][n][f[x][2]] = net'[x[1]][n][x[2]]

(* There is such a move; connections to other nodes stay as they are. *)
LEMMA PositionsMove ==
  ASSUME StartTypes, NEW n \in Node, NEW m \in Node,
         net[m][n] # <<>>, net' = [net EXCEPT ![m][n] = Tail(@)]
  PROVE  /\ \E f : Moves(n, m, f)
         /\ IsCall(Head(net[m][n])) <=> <<m, 1>> \in Incoming(n)
         /\ <<m, 1>> \in Incoming(n) => net[m][n][1] = Head(net[m][n])
         /\ \A r \in Node \ {n} : Incoming(r)' = Incoming(r) /\ \A a \in Node : net'[a][r] = net[a][r]
<1> DEFINE before == Incoming(n) \ {<<m, 1>>}
           f == [x \in Incoming(n)' |-> IF x[1] = m THEN <<m, x[2] + 1>> ELSE x]
<1>1. net[m][n] \in Seq(Message)
  BY DEF StartTypes
<1>2. /\ net'[m][n] = Tail(net[m][n])
      /\ \A a, b \in Node : <<a, b>> # <<m, n>> => net'[a][b] = net[a][b]
  BY DEF StartTypes
<1>3. \A i \in DOMAIN net'[m][n] :
        /\ i \in Nat /\ i + 1 \in DOMAIN net[m][n] /\ i + 1 # 1
        /\ net'[m][n][i] = net[m][n][i + 1]
  <2>1. \A i \in DOMAIN Tail(net[m][n]) :
          /\ i \in Nat /\ i + 1 \in DOMAIN net[m][n] /\ i + 1 # 1
          /\ Tail(net[m][n])[i] = net[m][n][i + 1]
    BY <1>1
  <2> QED BY <1>2, <2>1
<1>11. \A a \in Node : DOMAIN net'[a][n] \subseteq Nat
  <2> SUFFICES ASSUME NEW a \in Node PROVE DOMAIN net'[a][n] \subseteq Nat
    OBVIOUS
  <2>1. net[a][n] \in Seq(Message)
    BY DEF StartTypes
  <2>2. CASE a = m
    BY <1>3, <2>2
  <2>3. CASE a # m
    BY <1>2, <2>1, <2>3
  <2> QED BY <2>2, <2>3
<1>4. f \in [Incoming(n)' -> before]
  <2> SUFFICES ASSUME NEW x \in Incoming(n)'
               PROVE  (IF x[1] = m THEN <<m, x[2] + 1>> ELSE x) \in before
    OBVIOUS
  <2>1. PICK a \in Node, i \in Nat :
          i \in DOMAIN net'[a][n] /\ x = <<a, i>> /\ IsCall(net'[a][n][i])
    BY <1>11 DEF Incoming, IsCall
  <2>2. CASE a = m
    <3>1. IsCall(net[m][n][i + 1]) /\ i + 1 \in DOMAIN net[m][n] /\ i + 1 # 1
      BY <1>3, <2>1, <2>2 DEF IsCall
    <3>2. <<m, i + 1>> \in Incoming(n)
      BY <3>1, IncomingPairs
    <3> QED BY <2>1, <2>2, <3>1, <3>2
  <2>3. CASE a # m
    <3>1. net'[a][n] = net[a][n]
      BY <1>2, <2>3
    <3>2. <<a, i>> \in Incoming(n)
      BY <2>1, <3>1, IncomingPairs DEF IsCall
    <3> QED BY <2>1, <2>3, <3>2
  <2> QED BY <2>2, <2>3
<1>5. \A x, y \in Incoming(n)' : f[x] = f[y] => x = y
  <2> SUFFICES ASSUME NEW x \in Incoming(n)', NEW y \in Incoming(n)', f[x] = f[y]
               PROVE  x = y
    OBVIOUS
  <2>1. PICK a \in Node, i \in Nat : i \in DOMAIN net'[a][n] /\ x = <<a, i>>
    BY <1>11 DEF Incoming
  <2>2. PICK b \in Node, k \in Nat : k \in DOMAIN net'[b][n] /\ y = <<b, k>>
    BY <1>11 DEF Incoming
  <2>3. f[x] = (IF a = m THEN <<m, i + 1>> ELSE <<a, i>>)
    BY <2>1
  <2>4. f[y] = (IF b = m THEN <<m, k + 1>> ELSE <<b, k>>)
    BY <2>2
  <2>5. CASE a = m /\ b = m
    <3>1. i + 1 = k + 1 /\ i \in Nat /\ k \in Nat
      BY <1>3, <2>1, <2>2, <2>3, <2>4, <2>5
    <3> QED BY <2>1, <2>2, <2>5, <3>1
  <2>6. CASE a # m \/ b # m
    BY <2>1, <2>2, <2>3, <2>4, <2>6
  <2> QED BY <2>5, <2>6
<1>6. \A z \in before : \E x \in Incoming(n)' : f[x] = z
  <2> SUFFICES ASSUME NEW z \in before PROVE \E x \in Incoming(n)' : f[x] = z
    OBVIOUS
  <2>1. PICK a \in Node : \E i \in DOMAIN net[a][n] : z = <<a, i>> /\ IsCall(net[a][n][i])
    BY IncomingPairs
  <2>2. PICK i \in DOMAIN net[a][n] : z = <<a, i>> /\ IsCall(net[a][n][i])
    BY <2>1
  <2>3. CASE a = m
    <3>1. i \in 1..Len(net[m][n]) /\ i # 1 /\ Len(net[m][n]) \in Nat
      BY <1>1, <2>2, <2>3
    <3>2. /\ i - 1 \in Nat /\ (i - 1) + 1 = i
          /\ i - 1 \in DOMAIN Tail(net[m][n]) /\ Tail(net[m][n])[i - 1] = net[m][n][i]
      BY <1>1, <3>1
    <3>3. <<m, i - 1>> \in Incoming(n)'
      <4> HIDE DEF f
      <4>1. i - 1 \in DOMAIN net'[m][n] /\ IsCall(net'[m][n][i - 1])
        BY <1>2, <2>2, <2>3, <3>2
      <4> QED BY <4>1, IncomingPairsNext
    <3>4. f[<<m, i - 1>>] = <<m, (i - 1) + 1>>
      BY <3>3
    <3> QED BY <2>2, <2>3, <3>2, <3>3, <3>4
  <2>4. CASE a # m
    <3>1. net'[a][n] = net[a][n]
      BY <1>2, <2>4
    <3>2. <<a, i>> \in Incoming(n)'
      <4> HIDE DEF f
      <4> QED BY <2>2, <3>1, IncomingPairsNext
    <3>3. f[<<a, i>>] = <<a, i>>
      BY <2>4, <3>2
    <3> QED BY <2>2, <3>2, <3>3
  <2> QED BY <2>3, <2>4
<1>7. ASSUME NEW x \in Incoming(n)' PROVE net[f[x][1]][n][f[x][2]] = net'[x[1]][n][x[2]]
  <2>1. PICK a \in Node, i \in Nat : i \in DOMAIN net'[a][n] /\ x = <<a, i>>
    BY <1>11 DEF Incoming
  <2>2. CASE a = m
    <3>1. f[x] = <<m, i + 1>>
      BY <2>1, <2>2
    <3> HIDE DEF f
    <3> QED BY <1>3, <2>1, <2>2, <3>1
  <2>3. CASE a # m
    <3>1. f[x] = <<a, i>>
      BY <2>1, <2>3
    <3>2. net'[a][n] = net[a][n]
      BY <1>2, <2>3
    <3> HIDE DEF f
    <3>3. f[x][1] = a /\ f[x][2] = i /\ x[1] = a /\ x[2] = i
      BY <2>1, <3>1
    <3> QED BY <3>2, <3>3
  <2> QED BY <2>2, <2>3
<1>8. Moves(n, m, f)
  <2> HIDE DEF f
  <2> QED BY <1>4, <1>5, <1>6, <1>7 DEF Moves
<1>9. 1 \in DOMAIN net[m][n] /\ Head(net[m][n]) = net[m][n][1]
  BY <1>1
<1>10. IsCall(Head(net[m][n])) <=> <<m, 1>> \in Incoming(n)
  BY <1>9, IncomingPairs
<1>12. ASSUME NEW r \in Node \ {n}
       PROVE  Incoming(r)' = Incoming(r) /\ \A a \in Node : net'[a][r] = net[a][r]
  <2>1. \A a \in Node : net'[a][r] = net[a][r]
    BY <1>2
  <2> QED BY <2>1 DEF Incoming, IsCall
<1> HIDE DEF f
<1> QED BY <1>8, <1>9, <1>10, <1>12

(* If it is a call, one less is on its way. *)
LEMMA MessageTaken ==
  ASSUME StartTypes, NEW n \in Node, NEW m \in Node, IsFiniteSet(Incoming(n)),
         net[m][n] # <<>>, net' = [net EXCEPT ![m][n] = Tail(@)]
  PROVE  /\ IsFiniteSet(Incoming(n)')
         /\ Cardinality(Incoming(n)') <= Cardinality(Incoming(n))
         /\ IsCall(Head(net[m][n])) =>
              Cardinality(Incoming(n)') <= Cardinality(Incoming(n)) - 1
         /\ \A r \in Node \ {n} : Incoming(r)' = Incoming(r)
<1> DEFINE before == Incoming(n) \ {<<m, 1>>}
<1>1. /\ IsFiniteSet(before) /\ Cardinality(Incoming(n)) \in Nat
      /\ Cardinality(before) = IF <<m, 1>> \in Incoming(n)
                               THEN Cardinality(Incoming(n)) - 1 ELSE Cardinality(Incoming(n))
  BY FS_RemoveElement, FS_CardinalityType
<1>2. /\ IsFiniteSet(Incoming(n)')
      /\ Cardinality(Incoming(n)') <= Cardinality(before)
  <2>1. PICK f : Moves(n, m, f)
    BY PositionsMove
  <2>2. PICK S : S = Incoming(n)'
    OBVIOUS
  <2>3. f \in Injection(S, before)
    BY <2>1, <2>2, Fun_IsInj DEF Moves
  <2> HIDE DEF before
  <2>4. IsFiniteSet(S) /\ Cardinality(S) <= Cardinality(before)
    BY <1>1, <2>3, FS_Injection
  <2> QED BY <2>2, <2>4
<1>3. Cardinality(Incoming(n)') \in Nat
  BY <1>2, FS_CardinalityType
<1>4. IsCall(Head(net[m][n])) <=> <<m, 1>> \in Incoming(n)
  BY PositionsMove
<1>5. \A r \in Node \ {n} : Incoming(r)' = Incoming(r)
  BY PositionsMove
<1> HIDE DEF before
<1>6. IsCall(Head(net[m][n])) => Cardinality(Incoming(n)') <= Cardinality(Incoming(n)) - 1
  BY <1>1, <1>2, <1>3, <1>4
<1>7. Cardinality(Incoming(n)') <= Cardinality(Incoming(n))
  BY <1>1, <1>2, <1>3
<1> QED BY <1>2, <1>5, <1>6, <1>7

(* The message that ends the start-up of a node is no call. *)
LEMMA InitIsNoCall ==
  ASSUME StartTypes, NEW n \in Node, NEW m \in Peers(n), SendInit(n, m), NEW r \in Node
  PROVE  /\ Incoming(r)' = Incoming(r)
         /\ \A a \in Node : \A k \in DOMAIN net[a][r] : net'[a][r][k] = net[a][r][k]
<1>1. m \in Node /\ net[n][m] \in Seq(Message)
  BY DEF StartTypes, Peers
<1>2. /\ \A a, b \in Node : <<a, b>> # <<n, m>> => net'[a][b] = net[a][b]
      /\ net'[n][m] = net[n][m] \/ net'[n][m] = Append(net[n][m], InitMessage)
  BY <1>1 DEF StartTypes, SendInit
<1>3. ASSUME NEW a \in Node
      PROVE  {k \in DOMAIN net'[a][r] : IsCall(net'[a][r][k])}
               = {k \in DOMAIN net[a][r] : IsCall(net[a][r][k])}
  <2>1. CASE <<a, r>> # <<n, m>>
    BY <1>2, <2>1
  <2>2. CASE <<a, r>> = <<n, m>> /\ net'[n][m] = net[n][m]
    BY <2>2
  <2>3. CASE <<a, r>> = <<n, m>> /\ net'[n][m] = Append(net[n][m], InitMessage)
    <3>1. ~IsCall(InitMessage)
      BY DEF IsCall, InitMessage
    <3>2. InitMessage \in Message
      BY DEF Message
    <3> QED BY <1>1, <2>3, <3>1, <3>2
  <2> QED BY <1>2, <2>1, <2>2, <2>3
<1>4. ASSUME NEW a \in Node, NEW k \in DOMAIN net[a][r]
      PROVE  net'[a][r][k] = net[a][r][k]
  <2>1. InitMessage \in Message
    BY DEF Message
  <2> QED BY <1>1, <1>2, <2>1
<1>5. Incoming(r)' = Incoming(r)
  BY <1>3 DEF Incoming, IsCall
<1> QED BY <1>4, <1>5

(* The start-up puts no call on a connection. *)
LEMMA StartSendsNoCall ==
  ASSUME StartTypes, StartNext, NEW r \in Node, \A n \in Node : IsFiniteSet(Incoming(n))
  PROVE  /\ IsFiniteSet(Incoming(r)')
         /\ Cardinality(Incoming(r)') <= Cardinality(Incoming(r))
<1>1. ASSUME Incoming(r)' = Incoming(r)
      PROVE  /\ IsFiniteSet(Incoming(r)')
             /\ Cardinality(Incoming(r)') <= Cardinality(Incoming(r))
  <2>1. Cardinality(Incoming(r)) \in Nat
    BY FS_CardinalityType
  <2> QED BY <1>1, <2>1
<1>2. CASE net' = net
  BY <1>1, <1>2 DEF Incoming
<1>3. ASSUME NEW n \in Node, NEW m \in Peers(n), SendInit(n, m)
      PROVE  Incoming(r)' = Incoming(r)
  BY <1>3, InitIsNoCall
<1>4. ASSUME NEW n \in Node, NEW m \in Peers(n), ReceiveInit(n, m)
      PROVE  /\ IsFiniteSet(Incoming(r)')
             /\ Cardinality(Incoming(r)') <= Cardinality(Incoming(r))
  <2>1. m \in Node /\ net[m][n] # <<>> /\ net' = [net EXCEPT ![m][n] = Tail(@)]
    BY <1>4 DEF ReceiveInit, Peers
  <2>2. CASE r = n
    BY <2>1, <2>2, MessageTaken
  <2>3. CASE r # n
    <3>1. Incoming(r)' = Incoming(r)
      BY <2>1, <2>3, MessageTaken
    <3> QED BY <1>1, <3>1
  <2> QED BY <2>2, <2>3
<1> QED
  BY <1>1, <1>2, <1>3, <1>4
  DEF StartNext, Start, Connect, Sleep, Accept, SetVars, EnterBarrier, LeaveBarrier

(* The steps of the start-up keep the budget. *)
LEMMA StartingCounts ==
  ASSUME CountingInv, Starting, NEW r \in Node
  PROVE  IsFiniteSet(Incoming(r)') /\ Budget(r)'
<1>1. /\ IsFiniteSet(Incoming(r)')
      /\ Cardinality(Incoming(r)') <= Cardinality(Incoming(r))
  BY StartSendsNoCall DEF CountingInv, CrdtInv, BarrierInv, Starting
<1>2. UNCHANGED crdtVars
  BY DEF Starting
<1>3. Unissued' = Unissued
  BY <1>2 DEF Unissued, Updates, file, crdtVars
<1>4. Missing(r)' \in Nat /\ Missing(r)' <= Missing(r)
  <2>1. /\ Cardinality(Incoming(r)') \in Nat /\ Cardinality(Incoming(r)) \in Nat
        /\ Cardinality(Unissued) \in Nat
    BY <1>1, UpdatesFinite, FS_CardinalityType DEF CountingInv
  <2> QED BY <1>1, <1>2, <1>3, <2>1 DEF Missing, One, crdtVars
<1> QED BY <1>1, <1>2, <1>4, BudgetKept DEF crdtVars

(* What the terms of a budget are. *)
LEMMA BudgetTerms ==
  ASSUME CountingInv, NEW n \in Node
  PROVE  /\ Missing(n) \in Nat /\ ExpectedCalls \in Nat /\ waittobestable[n] \in Nat
         /\ MainStores(n) \in Nat /\ ReceiverStores(n) \in Nat
         /\ main[n] \notin {Loop, Apply} => main[n].loaded \in Nat
         /\ receiver[n] # Poll => receiver[n].loaded \in Nat
         /\ IsFiniteSet(Incoming(n)) /\ Cardinality(Incoming(n)) \in Nat /\ Budget(n)
  BY MissingIsNumber, UpdatesFinite DEF CountingInv, Threads, MainStores, ReceiverStores, One

(* An update that is broadcast is issued. *)
LEMMA BroadcastIssues ==
  ASSUME CountingInv, NEW n \in Node, BroadcastUpdate(n)
  PROVE  Unissued' = Unissued \ {<<n, it[n]>>} /\ <<n, it[n]>> \in Unissued
<1>1. /\ main[n] = Loop /\ main' = [main EXCEPT ![n] = Apply]
      /\ UNCHANGED <<workload, it, receiver, waittobestable>>
      /\ it[n] <= Len(file(n)) /\ file(n)[it[n]].type = "Update"
  BY DEF BroadcastUpdate, AtCall
<1>2. main \in [Node -> {Loop, Apply} \cup [loaded : Nat]] /\ it[n] \in Nat \ {0}
  BY DEF CountingInv, Threads
<1>3. <<n, it[n]>> \in Updates
  BY <1>2, BroadcastsUpdate DEF CountingInv, Threads, BroadcastUpdate
<1>4. Updates' = Updates
  BY <1>1, UpdatesFixed
<1>5. \A u \in Updates : u[1] \in Node /\ u[2] \in Nat /\ u = <<u[1], u[2]>>
  BY DEF Updates
<1>6. \A m \in Node : main'[m] = IF m = n THEN Apply ELSE main[m]
  BY <1>1, <1>2
<1> QED BY <1>1, <1>2, <1>3, <1>4, <1>5, <1>6, ControlDiffers DEF Unissued

(***************************************************************************)
(* Who broadcasts has left the barrier: the call is appended to the        *)
(* connection to every other node, and no connection is left out.          *)
(***************************************************************************)
Arrives(n, r, c) ==
  /\ net'[n][r] = Append(net[n][r], c)
  /\ \A a \in Node \ {n} : net'[a][r] = net[a][r]
  /\ Incoming(r)' = Incoming(r) \cup {<<n, Len(net[n][r]) + 1>>}
  /\ <<n, Len(net[n][r]) + 1>> \notin Incoming(r)

(* The call is one of Message, and arrives at every node but its sender. *)
LEMMA BroadcastArrives ==
  ASSUME CountingInv, NEW n \in Node, BroadcastUpdate(n), NEW r \in Node
  PROVE  /\ CallMessage(file(n)[it[n]]) \in Message
         /\ r = n => Incoming(r)' = Incoming(r) /\ \A a \in Node : net'[a][r] = net[a][r]
         /\ r # n => Arrives(n, r, CallMessage(file(n)[it[n]]))
<1> DEFINE c == CallMessage(file(n)[it[n]])
<1>1. /\ it[n] \in Nat \ {0} /\ net[n][r] \in Seq(Message)
      /\ socket[n] = Peers(n)
  BY DEF CountingInv, Threads, CrdtInv, BarrierInv, StartTypes, BarrierHolds,
     BroadcastUpdate, AtCall, Running
<1>2. /\ \A a \in Node \ {n} : net'[a] = net[a]
      /\ r # n => net'[n][r] = Append(net[n][r], c)
      /\ r = n => net'[n][r] = net[n][r]
  BY <1>1 DEF BroadcastUpdate, CountingInv, CrdtInv, BarrierInv, StartTypes, Peers
<1>3. c \in Message /\ IsCall(c)
  BY <1>1, BroadcastsUpdate DEF CountingInv, Threads, BroadcastUpdate, IsCall, CallMessage
<1>4. ASSUME r = n PROVE Incoming(r)' = Incoming(r) /\ \A a \in Node : net'[a][r] = net[a][r]
  <2>1. \A a \in Node : net'[a][r] = net[a][r]
    BY <1>2, <1>4
  <2> QED BY <2>1 DEF Incoming, IsCall
<1> HIDE DEF c
<1>5. ASSUME r # n PROVE Arrives(n, r, c)
  <2> DEFINE q == net[n][r]
             q2 == net'[n][r]
  <2>1. /\ {k \in DOMAIN net'[n][r] : IsCall(net'[n][r][k])}
             = {k \in DOMAIN net[n][r] : IsCall(net[n][r][k])} \cup {Len(net[n][r]) + 1}
        /\ Len(net[n][r]) + 1 \notin DOMAIN net[n][r]
    <3>1. q \in Seq(Message) /\ q2 = Append(q, c)
      BY <1>1, <1>2, <1>5
    <3> HIDE DEF q, q2
    <3>2. /\ DOMAIN q = 1..Len(q) /\ DOMAIN q2 = 1..(Len(q) + 1) /\ Len(q) \in Nat
          /\ q2[Len(q) + 1] = c /\ \A k \in 1..Len(q) : q2[k] = q[k]
      BY <1>3, <3>1
    <3>3. {k \in DOMAIN q2 : IsCall(q2[k])} = {k \in DOMAIN q : IsCall(q[k])} \cup {Len(q) + 1}
      BY <1>3, <3>2
    <3>4. Len(q) + 1 \notin DOMAIN q
      BY <3>2
    <3> QED BY <3>3, <3>4 DEF q, q2
  <2> HIDE DEF q, q2
  <2>2. \A x : x \in Incoming(r)' <=>
          \E a \in Node : \E k \in {i \in DOMAIN net'[a][r] : IsCall(net'[a][r][i])} : x = <<a, k>>
    BY DEF Incoming, IsCall
  <2>3. \A x : x \in Incoming(r) <=>
          \E a \in Node : \E k \in {i \in DOMAIN net[a][r] : IsCall(net[a][r][i])} : x = <<a, k>>
    BY DEF Incoming
  <2>4. \A a \in Node \ {n} : {i \in DOMAIN net'[a][r] : IsCall(net'[a][r][i])}
                                = {i \in DOMAIN net[a][r] : IsCall(net[a][r][i])}
    BY <1>2
  <2>5. ASSUME NEW x
        PROVE  x \in Incoming(r)' <=> x \in Incoming(r) \/ x = <<n, Len(net[n][r]) + 1>>
    BY <2>1, <2>2, <2>3, <2>4
  <2>6. <<n, Len(net[n][r]) + 1>> \notin Incoming(r)
    BY <2>1, <2>3
  <2> QED BY <1>2, <1>5, <2>5, <2>6 DEF Arrives
<1> QED BY <1>3, <1>4, <1>5 DEF c

(***************************************************************************)
(* An update that is broadcast is on its way to every other node, and the  *)
(* node itself is about to apply it.                                       *)
(***************************************************************************)
LEMMA BroadcastUpdateCounts ==
  ASSUME CountingInv, NEW n \in Node, BroadcastUpdate(n), NEW r \in Node
  PROVE  IsFiniteSet(Incoming(r)') /\ Budget(r)'
<1>1. /\ main[n] = Loop /\ main' = [main EXCEPT ![n] = Apply]
      /\ UNCHANGED <<workload, it, receiver, waittobestable>>
      /\ it[n] <= Len(file(n)) /\ file(n)[it[n]].type = "Update"
  BY DEF BroadcastUpdate, AtCall
<1>2. main \in [Node -> {Loop, Apply} \cup [loaded : Nat]] /\ it[n] \in Nat \ {0}
  BY DEF CountingInv, Threads
<1>3. Unissued' = Unissued \ {<<n, it[n]>>} /\ <<n, it[n]>> \in Unissued
  BY BroadcastIssues
<1>4. /\ Cardinality(Unissued') = Cardinality(Unissued) - 1
      /\ Cardinality(Unissued) \in Nat /\ Cardinality(Unissued') \in Nat
  <2>1. /\ Cardinality(Unissued \ {<<n, it[n]>>}) = Cardinality(Unissued) - 1
        /\ Cardinality(Unissued \ {<<n, it[n]>>}) \in Nat
    BY <1>3, UpdatesFinite, FS_RemoveElement, FS_CardinalityType
  <2> QED BY <1>3, <2>1, UpdatesFinite
<1>7. \/ Incoming(r)' = Incoming(r)
      \/ r # n /\ Incoming(r)' = Incoming(r) \cup {<<n, Len(net[n][r]) + 1>>}
  BY BroadcastArrives DEF Arrives
<1>8. Missing(r)' \in Nat /\ Missing(r)' <= Missing(r) /\ IsFiniteSet(Incoming(r)')
  <2>1. IsFiniteSet(Incoming(r)) /\ Cardinality(Incoming(r)) \in Nat
    BY BudgetTerms
  <2>2. /\ IsFiniteSet(Incoming(r)') /\ Cardinality(Incoming(r)') \in Nat
        /\ Cardinality(Incoming(r)') <= Cardinality(Incoming(r)) + IF r = n THEN 0 ELSE 1
    <3>1. PICK e : e = <<n, Len(net[n][r]) + 1>>
      OBVIOUS
    <3>2. /\ IsFiniteSet(Incoming(r) \cup {e})
          /\ Cardinality(Incoming(r) \cup {e}) <= Cardinality(Incoming(r)) + 1
          /\ Cardinality(Incoming(r) \cup {e}) \in Nat
      BY <2>1, FS_AddElement, FS_CardinalityType
    <3>3. CASE Incoming(r)' = Incoming(r)
      BY <2>1, <3>3
    <3>4. CASE r # n /\ Incoming(r)' = Incoming(r) \cup {<<n, Len(net[n][r]) + 1>>}
      BY <3>1, <3>2, <3>4
    <3> QED BY <1>7, <3>3, <3>4
  <2>3. /\ One(main'[r] = Apply) = One(main[r] = Apply) + IF r = n THEN 1 ELSE 0
        /\ One(main[r] = Apply) \in Nat
    <3>1. main'[r] = IF r = n THEN Apply ELSE main[r]
      BY <1>1, <1>2
    <3>2. r = n => main[r] # Apply
      BY <1>1, ControlDiffers
    <3> QED BY <3>1, <3>2 DEF One
  <2>4. Missing(r)' = Cardinality(Unissued') + Cardinality(Incoming(r)') + One(main'[r] = Apply)
    BY DEF Missing
  <2>5. CASE r = n
    <3>1. Incoming(r)' = Incoming(r)
      BY <1>7, <2>5
    <3> QED BY <1>4, <2>1, <2>2, <2>3, <2>4, <2>5, <3>1 DEF Missing
  <2>6. CASE r # n
    BY <1>4, <2>1, <2>2, <2>3, <2>4, <2>6 DEF Missing
  <2> QED BY <2>5, <2>6
<1>9. MainStores(r)' = MainStores(r) /\ ReceiverStores(r)' = ReceiverStores(r)
  BY <1>1, <1>2 DEF MainStores, ReceiverStores, One
<1>10. Budget(r)'
  <2>1. CASE r # n
    BY <1>1, <1>2, <1>8, <2>1, BudgetKept
  <2>2. CASE r = n
    <3>1. main[r] = Loop /\ main'[r] = Apply
      BY <1>1, <1>2, <2>2
    <3>2. ExpectedCalls' = ExpectedCalls
      BY <1>1, UpdatesFixed
    <3>3. /\ waittobestable'[r] = waittobestable[r] /\ receiver'[r] = receiver[r]
          /\ main'[r] \in {Loop, Apply}
      BY <1>1, <3>1
    <3>4. waittobestable'[r] + MainStores(r)' + ReceiverStores(r)' + Missing(r)' <= ExpectedCalls'
      BY <1>8, <1>9, <3>2, <3>3, BudgetTerms DEF Budget
    <3>5. receiver'[r] # Poll =>
            receiver'[r].loaded + 1 + MainStores(r)' + Missing(r)' <= ExpectedCalls'
      BY <1>8, <1>9, <3>2, <3>3, BudgetTerms DEF Budget
    <3> QED BY <3>3, <3>4, <3>5 DEF Budget
  <2> QED BY <2>1, <2>2
<1> QED BY <1>8, <1>10

(* Steps that leave files and connections alone leave the same updates missing. *)
LEMMA SameMissing ==
  ASSUME CountingInv, UNCHANGED <<net, workload>>, Unissued' = Unissued, NEW r \in Node
  PROVE  /\ Incoming(r)' = Incoming(r) /\ IsFiniteSet(Incoming(r)')
         /\ Missing(r)' = Cardinality(Unissued) + Cardinality(Incoming(r)) + One(main'[r] = Apply)
<1>1. Incoming(r)' = Incoming(r)
  BY DEF Incoming, IsCall
<1> QED BY <1>1, BudgetTerms DEF Missing

(* The other steps of the main thread issue nothing. *)
LEMMA UpdateLocalIssuesNone ==
  ASSUME CountingInv, NEW n \in Node, UpdateLocal(n)
  PROVE  Unissued' = Unissued
<1>1. /\ main[n] = Apply /\ main' = [main EXCEPT ![n] = Loaded(waittobestable[n])]
      /\ UNCHANGED <<net, workload, it, receiver, waittobestable>>
  BY DEF UpdateLocal, vars
<1>2. main'[n] = Loaded(waittobestable[n]) /\ \A m \in Node \ {n} : main'[m] = main[m]
  BY <1>1 DEF CountingInv, Threads
<1>3. \A m \in Node : main'[m] = Loop <=> main[m] = Loop
  BY <1>1, <1>2, ControlDiffers, LoadedIsDifferent
<1>4. \A u \in Updates : u[1] \in Node
  BY DEF Updates
<1> QED BY <1>1, <1>3, <1>4, UpdatesFixed DEF Unissued

(* The main thread applies its update, and is about to count it. *)
LEMMA UpdateLocalCounts ==
  ASSUME CountingInv, NEW n \in Node, UpdateLocal(n), NEW r \in Node
  PROVE  IsFiniteSet(Incoming(r)') /\ Budget(r)'
<1>1. /\ main[n] = Apply /\ main' = [main EXCEPT ![n] = Loaded(waittobestable[n])]
      /\ UNCHANGED <<net, workload, it, receiver, waittobestable>>
  BY DEF UpdateLocal, vars
<1>2. main'[n] = Loaded(waittobestable[n]) /\ \A m \in Node \ {n} : main'[m] = main[m]
  BY <1>1 DEF CountingInv, Threads
<1>3. Unissued' = Unissued
  BY UpdateLocalIssuesNone
<1>4. /\ IsFiniteSet(Incoming(r)')
      /\ Missing(r)' = Cardinality(Unissued) + Cardinality(Incoming(r)) + One(main'[r] = Apply)
  BY <1>1, <1>3, SameMissing
<1>5. CASE r # n
  <2>1. main'[r] = main[r] /\ Missing(r)' = Missing(r)
    BY <1>2, <1>4, <1>5 DEF Missing
  <2> QED BY <1>1, <1>4, <2>1, BudgetTerms, BudgetKept
<1>6. CASE r = n
  <2>1. /\ Missing(r)' = Missing(r) - 1
        /\ MainStores(r) = 0 /\ MainStores(r)' = 1 /\ ReceiverStores(r)' = ReceiverStores(r)
    <3>1. main[r] = Apply /\ main'[r] = Loaded(waittobestable[n])
      BY <1>1, <1>2, <1>6
    <3>2. main'[r] \notin {Loop, Apply}
      BY <3>1, LoadedIsDifferent
    <3>3. One(main[r] = Apply) = 1 /\ One(main'[r] = Apply) = 0
      BY <3>1, <3>2 DEF One
    <3>4. Cardinality(Unissued) \in Nat /\ Cardinality(Incoming(r)) \in Nat
      BY UpdatesFinite, BudgetTerms
    <3>5. Missing(r)' = Missing(r) - 1
      BY <1>4, <3>3, <3>4 DEF Missing
    <3>6. MainStores(r) = 0 /\ MainStores(r)' = 1
      BY <3>1, <3>2 DEF MainStores, One
    <3> QED BY <1>1, <3>5, <3>6 DEF ReceiverStores, One
  <2>2. /\ ExpectedCalls' = ExpectedCalls
        /\ waittobestable'[r] = waittobestable[r] /\ receiver'[r] = receiver[r]
        /\ main'[r].loaded = waittobestable[r]
    BY <1>1, <1>2, <1>6, UpdatesFixed, LoadedIsDifferent
  <2>3. waittobestable'[r] + MainStores(r)' + ReceiverStores(r)' + Missing(r)' <= ExpectedCalls'
    BY <2>1, <2>2, BudgetTerms DEF Budget
  <2>4. main'[r].loaded + 1 + ReceiverStores(r)' + Missing(r)' <= ExpectedCalls'
    BY <2>1, <2>2, BudgetTerms DEF Budget
  <2>5. receiver'[r] # Poll =>
          receiver'[r].loaded + 1 + MainStores(r)' + Missing(r)' <= ExpectedCalls'
    BY <2>1, <2>2, BudgetTerms DEF Budget
  <2> QED BY <1>4, <2>3, <2>4, <2>5 DEF Budget
<1> QED BY <1>5, <1>6

(* The position moves behind the update that was issued. *)
LEMMA StoreLocalIssuesNone ==
  ASSUME CountingInv, NEW n \in Node, StoreLocal(n)
  PROVE  Unissued' = Unissued
<1>1. /\ main[n] \notin {Loop, Apply} /\ main' = [main EXCEPT ![n] = Loop]
      /\ waittobestable' = [waittobestable EXCEPT ![n] = main[n].loaded + 1]
      /\ it' = [it EXCEPT ![n] = @ + 1]
      /\ UNCHANGED <<net, workload, receiver>>
  BY DEF StoreLocal, vars
<1>2. /\ main'[n] = Loop /\ \A m \in Node \ {n} : main'[m] = main[m]
      /\ waittobestable'[n] = main[n].loaded + 1
      /\ \A m \in Node \ {n} : waittobestable'[m] = waittobestable[m]
      /\ it'[n] = it[n] + 1 /\ \A m \in Node \ {n} : it'[m] = it[m]
      /\ it[n] \in Nat
  BY <1>1 DEF CountingInv, Threads
<1>3. \A u \in Updates : u[1] \in Node /\ u[2] \in Nat
  BY DEF Updates
<1>4. \A m \in Node : m # n => main'[m] = main[m] /\ it'[m] = it[m]
  BY <1>2
<1>5. Updates' = Updates /\ Loop' = Loop
  BY <1>1, UpdatesFixed DEF Loop
<1>6. ASSUME NEW u \in Updates
      PROVE  (IF main'[u[1]] = Loop THEN u[2] >= it'[u[1]] ELSE u[2] > it'[u[1]])
               <=> (IF main[u[1]] = Loop THEN u[2] >= it[u[1]] ELSE u[2] > it[u[1]])
  BY <1>1, <1>2, <1>3, <1>4
<1> QED BY <1>5, <1>6 DEF Unissued

(* The main thread stores what it loaded: the receiver's stores may get lost. *)
LEMMA StoreLocalCounts ==
  ASSUME CountingInv, NEW n \in Node, StoreLocal(n), NEW r \in Node
  PROVE  IsFiniteSet(Incoming(r)') /\ Budget(r)'
<1>1. /\ main[n] \notin {Loop, Apply} /\ main' = [main EXCEPT ![n] = Loop]
      /\ waittobestable' = [waittobestable EXCEPT ![n] = main[n].loaded + 1]
      /\ it' = [it EXCEPT ![n] = @ + 1]
      /\ UNCHANGED <<net, workload, receiver>>
  BY DEF StoreLocal, vars
<1>2. /\ main'[n] = Loop /\ \A m \in Node \ {n} : main'[m] = main[m]
      /\ waittobestable'[n] = main[n].loaded + 1
      /\ \A m \in Node \ {n} : waittobestable'[m] = waittobestable[m]
      /\ it'[n] = it[n] + 1 /\ \A m \in Node \ {n} : it'[m] = it[m]
      /\ it[n] \in Nat
  BY <1>1 DEF CountingInv, Threads
<1>3. Unissued' = Unissued
  BY StoreLocalIssuesNone
<1>4. /\ IsFiniteSet(Incoming(r)')
      /\ Missing(r)' = Cardinality(Unissued) + Cardinality(Incoming(r)) + One(main'[r] = Apply)
  BY <1>1, <1>3, SameMissing
<1>5. CASE r # n
  <2>1. main'[r] = main[r] /\ Missing(r)' = Missing(r)
    BY <1>2, <1>4, <1>5 DEF Missing
  <2> QED BY <1>1, <1>2, <1>4, <1>5, <2>1, BudgetTerms, BudgetKept
<1>6. CASE r = n
  <2>1. /\ Missing(r)' = Missing(r)
        /\ MainStores(r) = 1 /\ MainStores(r)' = 0 /\ ReceiverStores(r)' = ReceiverStores(r)
    BY <1>1, <1>2, <1>4, <1>6, ControlDiffers, BudgetTerms
    DEF Missing, MainStores, ReceiverStores, One
  <2>2. /\ ExpectedCalls' = ExpectedCalls /\ receiver'[r] = receiver[r]
        /\ waittobestable'[r] = main[r].loaded + 1 /\ main'[r] = Loop
    BY <1>1, <1>2, <1>6, UpdatesFixed
  <2>3. waittobestable'[r] + MainStores(r)' + ReceiverStores(r)' + Missing(r)' <= ExpectedCalls'
    BY <1>1, <1>6, <2>1, <2>2, BudgetTerms DEF Budget
  <2>4. receiver'[r] # Poll =>
          receiver'[r].loaded + 1 + MainStores(r)' + Missing(r)' <= ExpectedCalls'
    BY <2>1, <2>2, BudgetTerms DEF Budget
  <2> QED BY <1>4, <2>2, <2>3, <2>4 DEF Budget
<1> QED BY <1>5, <1>6

(* The position moves behind a Read. *)
LEMMA ReadLocalIssuesNone ==
  ASSUME CountingInv, NEW n \in Node, ReadLocal(n)
  PROVE  Unissued' = Unissued
<1>1. /\ main[n] = Loop /\ file(n)[it[n]].type = "Read"
      /\ it' = [it EXCEPT ![n] = @ + 1]
      /\ UNCHANGED <<net, workload, main, receiver, waittobestable>>
  BY DEF ReadLocal, AtCall, vars
<1>2. it'[n] = it[n] + 1 /\ it[n] \in Nat /\ \A m \in Node \ {n} : it'[m] = it[m]
  BY <1>1 DEF CountingInv, Threads
<1>3. Updates' = Updates
  BY <1>1, UpdatesFixed
<1>4. ASSUME NEW u \in Updates
      PROVE  (IF main[u[1]] = Loop THEN u[2] >= it'[u[1]] ELSE u[2] > it'[u[1]])
               <=> (IF main[u[1]] = Loop THEN u[2] >= it[u[1]] ELSE u[2] > it[u[1]])
  <2>1. u[1] \in Node /\ u[2] \in Nat /\ file(u[1])[u[2]].type = "Update"
    BY DEF Updates
  <2>2. u[1] = n => u[2] # it[n]
    BY <1>1, <2>1
  <2> QED BY <1>1, <1>2, <2>1, <2>2
<1> QED BY <1>1, <1>3, <1>4 DEF Unissued

(* A Read is no update. *)
LEMMA ReadLocalCounts ==
  ASSUME CountingInv, NEW n \in Node, ReadLocal(n), NEW r \in Node
  PROVE  IsFiniteSet(Incoming(r)') /\ Budget(r)'
<1>1. /\ main[n] = Loop /\ file(n)[it[n]].type = "Read"
      /\ it' = [it EXCEPT ![n] = @ + 1]
      /\ UNCHANGED <<net, workload, main, receiver, waittobestable>>
  BY DEF ReadLocal, AtCall, vars
<1>2. it'[n] = it[n] + 1 /\ it[n] \in Nat /\ \A m \in Node \ {n} : it'[m] = it[m]
  BY <1>1 DEF CountingInv, Threads
<1>3. Unissued' = Unissued
  BY ReadLocalIssuesNone
<1>4. /\ IsFiniteSet(Incoming(r)')
      /\ Missing(r)' = Cardinality(Unissued) + Cardinality(Incoming(r)) + One(main'[r] = Apply)
  BY <1>1, <1>3, SameMissing
<1>5. Missing(r)' = Missing(r)
  BY <1>1, <1>4 DEF Missing
<1> QED BY <1>1, <1>4, <1>5, BudgetTerms, BudgetKept

(* The receiver thread applies a call, and is about to count it. *)
LEMMA ReceiveUpdateCounts ==
  ASSUME CountingInv, NEW n \in Node, NEW m \in Peers(n), ReceiveUpdate(n, m), NEW r \in Node
  PROVE  IsFiniteSet(Incoming(r)') /\ Budget(r)'
<1>1. /\ m \in Node /\ net[m][n] # <<>> /\ IsCall(Head(net[m][n]))
      /\ net' = [net EXCEPT ![m][n] = Tail(@)]
      /\ receiver[n] = Poll /\ receiver' = [receiver EXCEPT ![n] = Loaded(waittobestable[n])]
      /\ UNCHANGED <<workload, it, main, waittobestable>>
  BY DEF ReceiveUpdate, Peers, IsCall
<1>2. receiver'[n] = Loaded(waittobestable[n]) /\ \A a \in Node \ {n} : receiver'[a] = receiver[a]
  BY <1>1 DEF CountingInv, Threads
<1>3. Unissued' = Unissued
  BY <1>1, UpdatesFixed DEF Unissued
<1>4. /\ IsFiniteSet(Incoming(n)')
      /\ Cardinality(Incoming(n)') <= Cardinality(Incoming(n)) - 1
      /\ \A a \in Node \ {n} : Incoming(a)' = Incoming(a)
  <2>1. StartTypes /\ IsFiniteSet(Incoming(n))
    BY DEF CountingInv, CrdtInv, BarrierInv
  <2> QED BY <1>1, <2>1, MessageTaken
<1>5. CASE r # n
  <2>1. Incoming(r)' = Incoming(r) /\ receiver'[r] = receiver[r]
    BY <1>2, <1>4, <1>5
  <2>2. Missing(r)' = Missing(r) /\ IsFiniteSet(Incoming(r)')
    BY <1>1, <1>3, <2>1, BudgetTerms DEF Missing
  <2> QED BY <1>1, <2>1, <2>2, BudgetTerms, BudgetKept
<1>6. CASE r = n
  <2>1. Missing(r)' \in Nat /\ Missing(r)' <= Missing(r) - 1 /\ IsFiniteSet(Incoming(r)')
    <3>1. /\ Cardinality(Incoming(r)') \in Nat /\ Cardinality(Incoming(r)) \in Nat
          /\ Cardinality(Unissued) \in Nat
      BY <1>4, <1>6, UpdatesFinite, FS_CardinalityType, BudgetTerms
    <3>2. One(main'[r] = Apply) = One(main[r] = Apply) /\ One(main[r] = Apply) \in Nat
      BY <1>1 DEF One
    <3> QED BY <1>3, <1>4, <1>6, <3>1, <3>2 DEF Missing
  <2>2. ReceiverStores(r) = 0 /\ ReceiverStores(r)' = 1 /\ MainStores(r)' = MainStores(r)
    <3>1. receiver[r] = Poll /\ receiver'[r] # Poll
      BY <1>1, <1>2, <1>6, LoadedIsDifferent
    <3> QED BY <1>1, <3>1 DEF MainStores, ReceiverStores, One
  <2>3. /\ ExpectedCalls' = ExpectedCalls
        /\ waittobestable'[r] = waittobestable[r] /\ main'[r] = main[r]
        /\ receiver'[r].loaded = waittobestable[r]
    BY <1>1, <1>2, <1>6, UpdatesFixed, LoadedIsDifferent
  <2>4. waittobestable'[r] + MainStores(r)' + ReceiverStores(r)' + Missing(r)' <= ExpectedCalls'
    BY <2>1, <2>2, <2>3, BudgetTerms DEF Budget
  <2>5. main'[r] \notin {Loop, Apply} =>
          main'[r].loaded + 1 + ReceiverStores(r)' + Missing(r)' <= ExpectedCalls'
    BY <2>1, <2>2, <2>3, BudgetTerms DEF Budget
  <2>6. receiver'[r].loaded + 1 + MainStores(r)' + Missing(r)' <= ExpectedCalls'
    BY <2>1, <2>2, <2>3, BudgetTerms DEF Budget
  <2> QED BY <2>1, <2>4, <2>5, <2>6 DEF Budget
<1> QED BY <1>5, <1>6

(* The receiver thread stores what it loaded: the main thread's store may get lost. *)
LEMMA StoreRemoteCounts ==
  ASSUME CountingInv, NEW n \in Node, StoreRemote(n), NEW r \in Node
  PROVE  IsFiniteSet(Incoming(r)') /\ Budget(r)'
<1>1. /\ receiver[n] # Poll /\ receiver' = [receiver EXCEPT ![n] = Poll]
      /\ waittobestable' = [waittobestable EXCEPT ![n] = receiver[n].loaded + 1]
      /\ UNCHANGED <<net, workload, it, main>>
  BY DEF StoreRemote, vars
<1>2. /\ receiver'[n] = Poll /\ \A m \in Node \ {n} : receiver'[m] = receiver[m]
      /\ waittobestable'[n] = receiver[n].loaded + 1
      /\ \A m \in Node \ {n} : waittobestable'[m] = waittobestable[m]
  BY <1>1 DEF CountingInv, Threads
<1>3. Unissued' = Unissued
  BY <1>1, UpdatesFixed DEF Unissued
<1>4. IsFiniteSet(Incoming(r)') /\ Missing(r)' = Missing(r)
  <2>1. /\ IsFiniteSet(Incoming(r)')
        /\ Missing(r)' = Cardinality(Unissued) + Cardinality(Incoming(r)) + One(main'[r] = Apply)
    BY <1>1, <1>3, SameMissing
  <2> QED BY <1>1, <2>1 DEF Missing
<1>5. CASE r # n
  BY <1>1, <1>2, <1>4, <1>5, BudgetTerms, BudgetKept
<1>6. CASE r = n
  <2>1. ReceiverStores(r) = 1 /\ ReceiverStores(r)' = 0 /\ MainStores(r)' = MainStores(r)
    BY <1>1, <1>2, <1>6 DEF MainStores, ReceiverStores, One
  <2>2. /\ ExpectedCalls' = ExpectedCalls /\ receiver'[r] = Poll /\ main'[r] = main[r]
        /\ waittobestable'[r] = receiver[r].loaded + 1
    BY <1>1, <1>2, <1>6, UpdatesFixed
  <2>3. waittobestable'[r] + MainStores(r)' + ReceiverStores(r)' + Missing(r)' <= ExpectedCalls'
    BY <1>1, <1>4, <1>6, <2>1, <2>2, BudgetTerms DEF Budget
  <2>4. main'[r] \notin {Loop, Apply} =>
          main'[r].loaded + 1 + ReceiverStores(r)' + Missing(r)' <= ExpectedCalls'
    BY <1>4, <2>1, <2>2, BudgetTerms DEF Budget
  <2> QED BY <1>4, <2>2, <2>3, <2>4 DEF Budget
<1> QED BY <1>5, <1>6

(***************************************************************************)
(* The threads stay where they can be; the main thread is at an update     *)
(* until it has counted it.                                                *)
(***************************************************************************)
LEMMA ThreadsKept ==
  ASSUME Threads, [CrdtNext]_allVars
  PROVE  Threads'
<1> USE DEF Threads
<1>1. CASE Starting \/ UNCHANGED allVars
  BY <1>1 DEF Starting, allVars, crdtVars, file
<1>2. ASSUME NEW n \in Node, BroadcastUpdate(n) PROVE Threads'
  <2>1. /\ main' = [main EXCEPT ![n] = Apply] /\ it[n] <= Len(file(n))
        /\ UNCHANGED <<workload, it, receiver, waittobestable>>
    BY <1>2 DEF BroadcastUpdate, AtCall
  <2> QED BY <2>1, ControlDiffers DEF file
<1>3. ASSUME NEW n \in Node, UpdateLocal(n) PROVE Threads'
  <2>1. /\ main[n] = Apply /\ main' = [main EXCEPT ![n] = Loaded(waittobestable[n])]
        /\ UNCHANGED <<workload, it, receiver, waittobestable>>
    BY <1>3 DEF UpdateLocal
  <2>2. Loaded(waittobestable[n]) \in [loaded : Nat]
    BY DEF Loaded
  <2>3. \A m \in Node : main'[m] = Loop <=> main[m] = Loop
    BY <2>1, ControlDiffers, LoadedIsDifferent
  <2> QED BY <2>1, <2>2, <2>3 DEF file
<1>4. ASSUME NEW n \in Node, StoreLocal(n) PROVE Threads'
  <2>1. /\ main[n] \notin {Loop, Apply} /\ main' = [main EXCEPT ![n] = Loop]
        /\ waittobestable' = [waittobestable EXCEPT ![n] = main[n].loaded + 1]
        /\ it' = [it EXCEPT ![n] = @ + 1]
        /\ UNCHANGED <<workload, receiver>>
    BY <1>4 DEF StoreLocal
  <2>2. main[n].loaded \in Nat /\ it[n] <= Len(file(n)) /\ it[n] \in Nat
    BY <2>1
  <2>3. Len(file(n)) \in Nat
    BY WorkloadsAssumption DEF file
  <2>4. \A m \in Node : it'[m] <= IF main'[m] = Loop THEN Len(file(m)) + 1 ELSE Len(file(m))
    <3> SUFFICES ASSUME NEW m \in Node
                 PROVE  it'[m] <= IF main'[m] = Loop THEN Len(file(m)) + 1 ELSE Len(file(m))
      OBVIOUS
    <3>1. CASE m = n
      BY <2>1, <2>2, <2>3, <3>1
    <3>2. CASE m # n
      <4>1. main'[m] = main[m] /\ it'[m] = it[m]
        BY <2>1, <3>2
      <4> QED BY <4>1
    <3> QED BY <3>1, <3>2
  <2> QED BY <2>1, <2>2, <2>4 DEF file
<1>5. ASSUME NEW n \in Node, ReadLocal(n) PROVE Threads'
  <2>1. /\ main[n] = Loop /\ it[n] <= Len(file(n)) /\ it' = [it EXCEPT ![n] = @ + 1]
        /\ UNCHANGED <<workload, main, receiver, waittobestable>>
    BY <1>5 DEF ReadLocal, AtCall
  <2>2. Len(file(n)) \in Nat /\ it[n] \in Nat
    BY WorkloadsAssumption DEF file
  <2>3. \A m \in Node : it'[m] <= IF main'[m] = Loop THEN Len(file(m)) + 1 ELSE Len(file(m))
    BY <2>1, <2>2
  <2> QED BY <2>1, <2>3 DEF file
<1>6. ASSUME NEW n \in Node, NEW m \in Peers(n), ReceiveUpdate(n, m) PROVE Threads'
  <2>1. /\ receiver' = [receiver EXCEPT ![n] = Loaded(waittobestable[n])]
        /\ UNCHANGED <<workload, it, main, waittobestable>>
    BY <1>6 DEF ReceiveUpdate
  <2>2. Loaded(waittobestable[n]) \in [loaded : Nat]
    BY DEF Loaded
  <2> QED BY <2>1, <2>2 DEF file
<1>7. ASSUME NEW n \in Node, StoreRemote(n) PROVE Threads'
  <2>1. /\ receiver[n] # Poll /\ receiver' = [receiver EXCEPT ![n] = Poll]
        /\ waittobestable' = [waittobestable EXCEPT ![n] = receiver[n].loaded + 1]
        /\ UNCHANGED <<workload, it, main>>
    BY <1>7 DEF StoreRemote
  <2>2. receiver[n].loaded \in Nat
    BY <2>1
  <2> QED BY <2>1, <2>2 DEF file
<1> QED BY <1>1, <1>2, <1>3, <1>4, <1>5, <1>6, <1>7 DEF CrdtNext, Main

(* Every step keeps the budget of every node. *)
LEMMA CountingInvInductive == CountingInv /\ [CrdtNext]_allVars => CountingInv'
<1> SUFFICES ASSUME CountingInv, [CrdtNext]_allVars PROVE CountingInv'
  OBVIOUS
<1>1. CrdtInv' /\ Threads'
  BY CrdtInvInductive, ThreadsKept DEF CountingInv
<1>2. ASSUME NEW r \in Node PROVE IsFiniteSet(Incoming(r)') /\ Budget(r)'
  <2>1. CASE UNCHANGED allVars
    <3>1. UNCHANGED <<net, workload, it, main, receiver, waittobestable>>
      BY <2>1 DEF allVars, vars, crdtVars
    <3>2. Unissued' = Unissued /\ Incoming(r)' = Incoming(r)
      BY <3>1, UpdatesFixed DEF Unissued, Incoming, IsCall
    <3>3. Missing(r)' = Missing(r)
      BY <3>1, <3>2 DEF Missing
    <3> QED BY <3>1, <3>2, <3>3, BudgetTerms, BudgetKept
  <2> QED
    BY <2>1, StartingCounts, BroadcastUpdateCounts, UpdateLocalCounts, StoreLocalCounts,
       ReadLocalCounts, ReceiveUpdateCounts, StoreRemoteCounts DEF CrdtNext, Main
<1> QED BY <1>1, <1>2 DEF CountingInv

(* At the start nothing is counted and everything is missing. *)
LEMMA CountingInvInit == CrdtInit => CountingInv
<1> SUFFICES ASSUME CrdtInit PROVE CountingInv
  OBVIOUS
<1>1. CrdtInv
  BY CrdtInvInit
<1>2. /\ workload \in Workloads
      /\ it = [n \in Node |-> 1] /\ main = [n \in Node |-> Loop]
      /\ receiver = [n \in Node |-> Poll] /\ waittobestable = [n \in Node |-> 0]
      /\ net = [m \in Node |-> [n \in Node |-> <<>>]]
  BY DEF CrdtInit, StartInit
<1>3. Threads
  <2>1. \A n \in Node : Len(file(n)) \in Nat
    BY <1>2, WorkloadsAssumption DEF file
  <2> QED BY <1>2, <2>1 DEF Threads
<1>4. ASSUME NEW n \in Node PROVE IsFiniteSet(Incoming(n)) /\ Budget(n)
  <2>1. Incoming(n) = {}
    BY <1>2 DEF Incoming
  <2>2. IsFiniteSet(Incoming(n)) /\ Cardinality(Incoming(n)) = 0
    BY <2>1, FS_EmptySet
  <2>3. Cardinality(Unissued) <= ExpectedCalls
    <3>1. Unissued \in SUBSET Updates
      BY DEF Unissued
    <3> QED BY <3>1, UpdatesFinite, FS_Subset DEF ExpectedCalls
  <2>4. main[n] = Loop /\ receiver[n] = Poll /\ waittobestable[n] = 0
    BY <1>2
  <2>5. /\ One(main[n] = Apply) = 0 /\ MainStores(n) = 0 /\ ReceiverStores(n) = 0
    BY <2>4, ControlDiffers DEF MainStores, ReceiverStores, One
  <2>6. Missing(n) = Cardinality(Unissued)
    BY <2>2, <2>5, UpdatesFinite DEF Missing
  <2> QED BY <2>2, <2>3, <2>4, <2>5, <2>6, UpdatesFinite DEF Budget
<1> QED BY <1>1, <1>3, <1>4 DEF CountingInv

(***************************************************************************)
(* A node leaves its main loop only when every update of every node has    *)
(* been applied to its object, although the two threads may overwrite each *)
(* other's increments of waittobestable.                                   *)
(***************************************************************************)
THEOREM LeavingMeansApplied == CrdtSpec => []FinishedMeansApplied
<1>1. CountingInv => FinishedMeansApplied
  <2> SUFFICES ASSUME CountingInv, NEW n \in Node, phase[n] = "run", ~Running(n)
               PROVE  Applied(n)
    BY DEF FinishedMeansApplied
  <2>1. waittobestable[n] >= ExpectedCalls
    BY BudgetTerms DEF Running
  <2>2. Missing(n) = 0
    BY <2>1, BudgetTerms DEF Budget
  <2>3. /\ Cardinality(Unissued) = 0 /\ Cardinality(Incoming(n)) = 0
        /\ One(main[n] = Apply) = 0
    <3>1. /\ Cardinality(Unissued) \in Nat /\ Cardinality(Incoming(n)) \in Nat
          /\ One(main[n] = Apply) \in Nat
      BY UpdatesFinite, BudgetTerms DEF One
    <3> QED BY <2>2, <3>1 DEF Missing
  <2>4. Unissued = {} /\ Incoming(n) = {}
    BY <2>3, UpdatesFinite, BudgetTerms, FS_EmptySet
  <2>5. main[n] # Apply
    BY <2>3 DEF One
  <2> QED BY <2>4, <2>5 DEF Applied
<1> QED BY <1>1, CountingInvInit, CountingInvInductive, PTL DEF CrdtSpec

(***************************************************************************)
(* Type correctness of the start-up and of the CRDT build: "init" is       *)
(* counted N - 1 times at most, no thread runs past the end of its file,   *)
(* and waittobestable stays within the number of updates.                  *)
(***************************************************************************)
THEOREM CrdtTypeCorrect == CrdtSpec => []CrdtTypeOK
<1>1. CountingInv /\ patient \in BOOLEAN => CrdtTypeOK
  <2> SUFFICES ASSUME CountingInv, patient \in BOOLEAN PROVE CrdtTypeOK
    OBVIOUS
  <2>1. StartTypes /\ CountsNodes
    BY DEF CountingInv, CrdtInv, BarrierInv
  <2>2. initcounter \in [Node -> 0..(N - 1)]
    <3> SUFFICES ASSUME NEW n \in Node PROVE initcounter[n] \in 0..(N - 1)
      BY <2>1 DEF StartTypes
    <3>1. Heard(n) \in SUBSET Peers(n)
      BY <2>1, HeardArePeers
    <3>2. Cardinality(Heard(n)) \in Nat /\ Cardinality(Heard(n)) <= N - 1
      BY <3>1, PeersCounted
    <3> QED BY <2>1, <3>2, NAssumption DEF StartTypes, CountsNodes
  <2>3. \A m, n \in Node : \A i \in DOMAIN net[m][n] : net[m][n][i].kind \in {"Init", "Call"}
    <3>1. \A x \in Message : x.kind \in {"Init", "Call"}
      BY DEF Message, InitMessage, CallMessage
    <3>2. \A m, n \in Node : net[m][n] \in Seq(Message)
      BY <2>1 DEF StartTypes
    <3> QED BY <3>1, <3>2
  <2>4. it \in [Node -> 1..(MaxCalls + 1)]
    <3> SUFFICES ASSUME NEW n \in Node PROVE it[n] \in 1..(MaxCalls + 1)
      BY DEF CountingInv, Threads
    <3>1. Len(file(n)) \in Nat /\ Len(file(n)) <= MaxCalls
      BY WorkloadsAssumption DEF CountingInv, Threads, file
    <3> QED BY <3>1, MaxCallsAssumption DEF CountingInv, Threads
  <2>5. waittobestable \in [Node -> 0..ExpectedCalls]
    <3> SUFFICES ASSUME NEW n \in Node PROVE waittobestable[n] \in 0..ExpectedCalls
      BY DEF CountingInv, Threads
    <3> QED BY BudgetTerms DEF Budget
  <2> QED BY <2>1, <2>2, <2>3, <2>4, <2>5 DEF CrdtTypeOK, StartTypes
<1>2. CrdtInit => patient \in BOOLEAN
  BY DEF CrdtInit, StartInit
<1>3. patient \in BOOLEAN /\ [CrdtNext]_allVars => (patient \in BOOLEAN)'
  <2>1. [CrdtNext]_allVars => patient' = patient
    BY DEF CrdtNext, Main, Starting, StartNext, Start, Connect, Sleep, Accept, SetVars, SendInit,
       EnterBarrier, ReceiveInit, LeaveBarrier, BroadcastUpdate, UpdateLocal, StoreLocal,
       ReadLocal, ReceiveUpdate, StoreRemote, allVars, vars, startVars
  <2> QED BY <2>1
<1> QED BY <1>1, <1>2, <1>3, CountingInvInit, CountingInvInductive, PTL DEF CrdtSpec

(***************************************************************************)
(* However many nodes there are, in whatever order they start, connect,    *)
(* accept and send, and whatever "init" is dropped: a node that has left   *)
(* the barrier can reach every other node, and all of them are set up.     *)
(***************************************************************************)
THEOREM BarrierSeparates == CrdtSpec => []BarrierHolds
<1>1. CrdtInv => BarrierHolds
  BY DEF CrdtInv, BarrierInv
<1> QED BY <1>1, CrdtInvInit, CrdtInvInductive, PTL DEF CrdtSpec

(***************************************************************************)
(* No call is on its way to a node that has not run setVars.               *)
(***************************************************************************)
THEOREM CallsComeAfterSetVars == CrdtSpec => []NoCallBeforeSetVars
<1>1. CrdtInv => NoCallBeforeSetVars
  BY DEF CrdtInv, BarrierInv, InitFirst, BarrierHolds, NoCallBeforeSetVars
<1> QED BY <1>1, CrdtInvInit, CrdtInvInductive, PTL DEF CrdtSpec

-----------------------------------------------------------------------------
(***************************************************************************)
(* The objects.  A step moves a value from the files to the connections    *)
(* and the sender's hands, or from there into an object.                   *)
(***************************************************************************)

PartTypes ==
  /\ useCase = "counter" => local \in [Node -> Int] /\ remote \in [Node -> Int]
  /\ useCase = "gset" => local \in [Node -> SUBSET Int] /\ remote \in [Node -> SUBSET Int]

Balanced(n) ==
  /\ useCase = "counter" =>
       local[n] + remote[n] + SumFunction(IncomingValues(n)) + SumFunction(PendingValues(n))
         = SumFunction(IssuedValues)
  /\ useCase = "gset" =>
       local[n] \cup remote[n] \cup Range(IncomingValues(n)) \cup Range(PendingValues(n))
         = Range(IssuedValues)

(* The update at the main thread's position has a number. *)
LEMMA UpdateValue ==
  ASSUME Threads, NEW n \in Node, NEW k \in 1..Len(file(n)), file(n)[k].type = "Update"
  PROVE  file(n)[k].value1 \in Int
<1>1. file(n) \in Seq(FileCall)
  BY WorkloadsAssumption DEF Threads, file
<1>2. file(n)[k] \in FileCall
  BY <1>1
<1> QED BY <1>2 DEF FileCall

(* A call on a connection is an update of some file and has its number. *)
LEMMA CallValue ==
  ASSUME CountingInv, NEW c \in Message, IsCall(c)
  PROVE  c.value1 \in Int
<1>1. InitMessage.kind # "Call"
  BY DEF InitMessage
<1>2. PICK u \in Updates : c = CallMessage(file(u[1])[u[2]])
  BY <1>1 DEF Message, IsCall
<1>3. PICK m, k : m = u[1] /\ k = u[2]
  OBVIOUS
<1>4. m \in Node /\ k \in 1..MaxCalls /\ k <= Len(file(m)) /\ file(m)[k].type = "Update"
  BY <1>3 DEF Updates
<1>5. Len(file(m)) \in Nat
  BY <1>4, WorkloadsAssumption DEF CountingInv, Threads, file
<1>6. file(m)[k].value1 \in Int
  BY <1>4, <1>5, MaxCallsAssumption, UpdateValue DEF CountingInv
<1> QED BY <1>2, <1>3, <1>6 DEF CallMessage

(* A node that has broadcast is at an update. *)
AtUpdate ==
  \A n \in Node : main[n] = Apply =>
    it[n] \in 1..Len(file(n)) /\ file(n)[it[n]].type = "Update"

UpdatesInv ==
  /\ CountingInv /\ AtUpdate /\ PartTypes
  /\ \A n \in Node : Balanced(n)

(* The three functions. *)
ValueTypes(n) ==
  /\ IsFiniteSet(Issued) /\ IssuedValues \in [Issued -> Int]
  /\ IsFiniteSet(Incoming(n)) /\ IncomingValues(n) \in [Incoming(n) -> Int]
  /\ SumFunction(IssuedValues) \in Int
  /\ SumFunction(IncomingValues(n)) \in Int
  /\ SumFunction(PendingValues(n)) \in Int

(* What main holds back is the update it is at, if it has broadcast it. *)
PendingIs(n) ==
  /\ main[n] = Apply => /\ SumFunction(PendingValues(n)) = file(n)[it[n]].value1
                        /\ Range(PendingValues(n)) = {file(n)[it[n]].value1}
                        /\ file(n)[it[n]].value1 \in Int
  /\ main[n] # Apply => SumFunction(PendingValues(n)) = 0 /\ Range(PendingValues(n)) = {}

(* PendingIs holds at every node. *)
LEMMA PendingValue ==
  ASSUME Threads, AtUpdate, NEW n \in Node
  PROVE  PendingIs(n)
<1>1. CASE main[n] = Apply
  <2>1. file(n)[it[n]].value1 \in Int
    BY <1>1, UpdateValue DEF AtUpdate
  <2>2. PICK k, v, p : k = it[n] /\ v = file(n)[k].value1 /\ p = PendingValues(n)
    OBVIOUS
  <2>3. p \in [{k} -> Int] /\ p[k] = v
    BY <1>1, <2>1, <2>2 DEF PendingValues
  <2>4. SumFunction(p) = v /\ Range(p) = {v}
    BY <2>3, OneValue
  <2> QED BY <1>1, <2>1, <2>2, <2>4 DEF PendingIs
<1>2. CASE main[n] # Apply
  <2>1. PICK p : p = PendingValues(n)
    OBVIOUS
  <2>2. p \in [{} -> Int]
    BY <1>2, <2>1 DEF PendingValues
  <2>3. SumFunction(p) = 0 /\ Range(p) = {}
    BY <2>2, OneValue
  <2> QED BY <1>2, <2>1, <2>3 DEF PendingIs
<1> QED BY <1>1, <1>2

(* The functions have finite domains and number values at every node. *)
LEMMA ValuesTypes ==
  ASSUME CountingInv, AtUpdate, NEW n \in Node
  PROVE  ValueTypes(n)
<1>1. IsFiniteSet(Issued)
  <2>1. Issued \in SUBSET Updates
    BY DEF Issued
  <2> QED BY <2>1, UpdatesFinite, FS_Subset
<1>2. IssuedValues \in [Issued -> Int]
  <2> SUFFICES ASSUME NEW u \in Issued PROVE file(u[1])[u[2]].value1 \in Int
    BY DEF IssuedValues
  <2>1. u[1] \in Node /\ u[2] \in 1..MaxCalls /\ u[2] <= Len(file(u[1])) /\ file(u[1])[u[2]].type = "Update"
    BY DEF Issued, Updates
  <2>2. Len(file(u[1])) \in Nat
    BY <2>1, WorkloadsAssumption DEF CountingInv, Threads, file
  <2>3. u[2] \in 1..Len(file(u[1]))
    BY <2>1, <2>2, MaxCallsAssumption
  <2> QED BY <2>1, <2>3, UpdateValue DEF CountingInv
<1>3. IsFiniteSet(Incoming(n))
  BY DEF CountingInv
<1>4. IncomingValues(n) \in [Incoming(n) -> Int]
  <2> SUFFICES ASSUME NEW c \in Incoming(n) PROVE net[c[1]][n][c[2]].value1 \in Int
    BY DEF IncomingValues
  <2>1. PICK m \in Node : \E i \in DOMAIN net[m][n] : c = <<m, i>> /\ IsCall(net[m][n][i])
    BY IncomingPairs
  <2>2. PICK i \in DOMAIN net[m][n] : c = <<m, i>> /\ IsCall(net[m][n][i])
    BY <2>1
  <2>3. net[m][n] \in Seq(Message)
    BY DEF CountingInv, CrdtInv, BarrierInv, StartTypes
  <2>4. net[m][n][i] \in Message
    BY <2>2, <2>3
  <2> QED BY <2>2, <2>4, CallValue
<1>5. SumFunction(IssuedValues) \in Int
  BY <1>1, <1>2, SumIsNumber
<1>6. SumFunction(IncomingValues(n)) \in Int
  BY <1>3, <1>4, SumIsNumber
<1>7. SumFunction(PendingValues(n)) \in Int
  BY PendingValue DEF CountingInv, PendingIs
<1> QED BY <1>1, <1>2, <1>3, <1>4, <1>5, <1>6, <1>7 DEF ValueTypes

-----------------------------------------------------------------------------
(* A message that is taken from a connection is no longer on its way. *)
LEMMA ValueTaken ==
  ASSUME StartTypes, NEW n \in Node, NEW m \in Node, ValueTypes(n), ValueTypes(n)',
         net[m][n] # <<>>, net' = [net EXCEPT ![m][n] = Tail(@)]
  PROVE  /\ IsCall(Head(net[m][n])) =>
              /\ Adds(IncomingValues(n), IncomingValues(n)', Head(net[m][n]).value1)
              /\ Head(net[m][n]).value1 \in Int
         /\ ~IsCall(Head(net[m][n])) => SameTotals(IncomingValues(n)', IncomingValues(n))
         /\ \A r \in Node \ {n} : IncomingValues(r)' = IncomingValues(r)
<1> DEFINE before == Incoming(n) \ {<<m, 1>>}
<1>1. PICK f : Moves(n, m, f)
  BY PositionsMove
<1>2. PICK D, E, v, w : /\ D = Incoming(n) /\ E = Incoming(n)'
                        /\ v = IncomingValues(n) /\ w = IncomingValues(n)'
  OBVIOUS
<1>3. v \in [D -> Int] /\ w \in [E -> Int] /\ IsFiniteSet(D) /\ IsFiniteSet(E)
  BY <1>2 DEF ValueTypes
<1>4. PICK B : B = D \ {<<m, 1>>}
  OBVIOUS
<1>5. PICK g : g = [x \in B |-> v[x]]
  OBVIOUS
<1>6. g \in [B -> Int] /\ IsFiniteSet(B) /\ \A x \in B : g[x] = v[x]
  BY <1>3, <1>4, <1>5, FS_Subset
<1>7. SumFunction(w) = SumFunction(g) /\ Range(w) = Range(g)
  <2>1. /\ f \in [E -> B] /\ \A x, y \in E : f[x] = f[y] => x = y
        /\ \A z \in B : \E x \in E : f[x] = z
    BY <1>1, <1>2, <1>4 DEF Moves
  <2>4. DOMAIN w = E /\ DOMAIN g = B
    BY <1>3, <1>6
  <2>2. ASSUME NEW x \in E PROVE g[f[x]] = w[x]
    <3>1. f[x] \in B /\ f[x] \in D
      BY <1>4, <2>1
    <3>2. g[f[x]] = net[f[x][1]][n][f[x][2]].value1
      BY <1>2, <1>6, <3>1 DEF IncomingValues
    <3>3. w[x] = net'[x[1]][n][x[2]].value1
      BY <1>2 DEF IncomingValues
    <3> QED BY <1>1, <1>2, <3>2, <3>3 DEF Moves
  <2>3. SumFunction(w) = SumFunction(g)
    <3>1. Renames(f, w, g)
      BY <2>1, <2>2, <2>4 DEF Renames
    <3> QED BY <1>3, <1>6, <3>1, SumRenamed
  <2>5. Range(w) = Range(g)
    BY <2>1, <2>2, <2>4 DEF Range
  <2> QED BY <2>3, <2>5
<1>8. ASSUME IsCall(Head(net[m][n]))
      PROVE  /\ Adds(IncomingValues(n), IncomingValues(n)', Head(net[m][n]).value1)
             /\ Head(net[m][n]).value1 \in Int
  <2>1. <<m, 1>> \in D /\ v[<<m, 1>>] = Head(net[m][n]).value1
    BY <1>2, <1>8, PositionsMove DEF IncomingValues
  <2>2. LeavesOut(g, v, <<m, 1>>)
    <3>1. DOMAIN v = D /\ DOMAIN g = B
      BY <1>3, <1>6
    <3> QED BY <1>4, <1>6, <2>1, <3>1 DEF LeavesOut
  <2>3. Adds(v, g, v[<<m, 1>>]) /\ v[<<m, 1>>] \in Int
    BY <1>3, <1>6, <2>2, OneMoreValue
  <2> QED BY <1>2, <1>7, <1>8, <2>1, <2>3 DEF Adds
<1>9. ASSUME ~IsCall(Head(net[m][n]))
      PROVE  SameTotals(IncomingValues(n)', IncomingValues(n))
  <2>1. B = D
    BY <1>2, <1>4, <1>9, PositionsMove
  <2>2. g = v
    BY <1>3, <1>5, <2>1
  <2> QED BY <1>2, <1>7, <1>9, <2>2 DEF SameTotals
<1>10. ASSUME NEW r \in Node \ {n} PROVE IncomingValues(r)' = IncomingValues(r)
  <2>1. Incoming(r)' = Incoming(r) /\ \A a \in Node : net'[a][r] = net[a][r]
    BY PositionsMove
  <2>2. \A c \in Incoming(r) : c[1] \in Node
    BY IncomingPairs
  <2> QED BY <2>1, <2>2 DEF IncomingValues
<1> QED BY <1>8, <1>9, <1>10

(* A message that is put on a connection is on its way. *)
LEMMA ValueAppended ==
  ASSUME NEW n \in Node, NEW r \in Node, NEW c, ValueTypes(r), ValueTypes(r)',
         net[n][r] \in Seq(Message), c \in Message, Arrives(n, r, c)
  PROVE  Adds(IncomingValues(r)', IncomingValues(r), c.value1)
<1>1. PICK D, E, v, w, x : /\ D = Incoming(r) /\ E = Incoming(r)'
                           /\ v = IncomingValues(r) /\ w = IncomingValues(r)'
                           /\ x = <<n, Len(net[n][r]) + 1>>
  OBVIOUS
<1>2. v \in [D -> Int] /\ w \in [E -> Int] /\ IsFiniteSet(D) /\ IsFiniteSet(E)
  BY <1>1 DEF ValueTypes
<1>3. E = D \cup {x} /\ x \notin D
  BY <1>1 DEF Arrives
<1>4. w[x] = c.value1
  <2>1. net'[n][r][Len(net[n][r]) + 1] = c
    BY DEF Arrives
  <2>2. w[x] = net'[x[1]][r][x[2]].value1
    BY <1>1, <1>3 DEF IncomingValues
  <2> QED BY <1>1, <2>1, <2>2
<1>5. ASSUME NEW y \in D PROVE v[y] = w[y]
  <2>1. v[y] = net[y[1]][r][y[2]].value1 /\ w[y] = net'[y[1]][r][y[2]].value1
    BY <1>1, <1>3 DEF IncomingValues
  <2>2. PICK a \in Node : \E i \in DOMAIN net[a][r] : y = <<a, i>> /\ IsCall(net[a][r][i])
    BY <1>1, IncomingPairs
  <2>3. PICK i \in DOMAIN net[a][r] : y = <<a, i>>
    BY <2>2
  <2>4. CASE a = n
    <3>1. i \in DOMAIN net[n][r] /\ net'[n][r] = Append(net[n][r], c)
      BY <2>3, <2>4 DEF Arrives
    <3>2. net'[n][r][i] = net[n][r][i]
      BY <3>1
    <3> QED BY <2>1, <2>3, <2>4, <3>2
  <2>5. CASE a # n
    <3>1. net'[a][r] = net[a][r]
      BY <2>5 DEF Arrives
    <3> QED BY <2>1, <2>3, <3>1
  <2> QED BY <2>4, <2>5
<1>6. LeavesOut(v, w, x)
  <2>1. DOMAIN v = D /\ DOMAIN w = E
    BY <1>2
  <2> QED BY <1>3, <1>5, <2>1 DEF LeavesOut
<1>7. Adds(w, v, w[x])
  BY <1>2, <1>6, OneMoreValue
<1> QED BY <1>1, <1>4, <1>7

(* A broadcast adds the value of the main thread's update to those issued. *)
LEMMA ValueIssued ==
  ASSUME CountingInv, NEW n \in Node, BroadcastUpdate(n),
         NEW r \in Node, ValueTypes(r), ValueTypes(r)'
  PROVE  /\ Adds(IssuedValues', IssuedValues, file(n)[it[n]].value1)
         /\ file(n)[it[n]].value1 \in Int
<1>1. Unissued' = Unissued \ {<<n, it[n]>>} /\ <<n, it[n]>> \in Unissued
  BY BroadcastIssues
<1>2. PICK D, E, v, w, x : /\ D = Issued /\ E = Issued' /\ v = IssuedValues /\ w = IssuedValues'
                           /\ x = <<n, it[n]>>
  OBVIOUS
<1>3. v \in [D -> Int] /\ w \in [E -> Int] /\ IsFiniteSet(D) /\ IsFiniteSet(E)
  BY <1>2 DEF ValueTypes
<1>4. E = D \cup {x} /\ x \notin D
  <2>1. Updates' = Updates
    BY UpdatesFixed DEF BroadcastUpdate
  <2>2. x \in Updates
    BY <1>1, <1>2 DEF Unissued
  <2> QED BY <1>1, <1>2, <2>1, <2>2 DEF Issued
<1>5. \A u \in E : w[u] = file(u[1])[u[2]].value1
  BY <1>2 DEF IssuedValues, BroadcastUpdate, file
<1>6. \A u \in D : v[u] = file(u[1])[u[2]].value1
  BY <1>2 DEF IssuedValues
<1>7. LeavesOut(v, w, x)
  <2>1. DOMAIN v = D /\ DOMAIN w = E
    BY <1>3
  <2> QED BY <1>4, <1>5, <1>6, <2>1 DEF LeavesOut
<1>8. Adds(w, v, w[x]) /\ w[x] \in Int
  BY <1>3, <1>7, OneMoreValue
<1>9. w[x] = file(n)[it[n]].value1
  BY <1>2, <1>4, <1>5
<1> QED BY <1>2, <1>8, <1>9

(* Other steps issue nothing. *)
LEMMA SameIssued ==
  ASSUME Unissued' = Unissued, workload' = workload
  PROVE  SameTotals(IssuedValues', IssuedValues)
<1>1. IssuedValues' = IssuedValues
  BY UpdatesFixed DEF IssuedValues, Issued, file
<1> QED BY <1>1 DEF SameTotals

(* What main holds back changes only with main. *)
LEMMA SamePending ==
  ASSUME NEW r, workload' = workload, main'[r] = main[r], it'[r] = it[r]
  PROVE  SameTotals(PendingValues(r)', PendingValues(r))
<1>1. PendingValues(r)' = PendingValues(r)
  BY DEF PendingValues, file, Apply
<1> QED BY <1>1 DEF SameTotals

(* Where no connection to r changes, the same is on its way. *)
LEMMA SameIncoming ==
  ASSUME NEW r \in Node, Incoming(r)' = Incoming(r),
         \A a \in Node : \A k \in DOMAIN net[a][r] : net'[a][r][k] = net[a][r][k]
  PROVE  SameTotals(IncomingValues(r)', IncomingValues(r))
<1>1. ASSUME NEW y \in Incoming(r)
      PROVE  net'[y[1]][r][y[2]] = net[y[1]][r][y[2]]
  <2>1. PICK a \in Node : \E i \in DOMAIN net[a][r] : y = <<a, i>> /\ IsCall(net[a][r][i])
    BY IncomingPairs
  <2>2. PICK i \in DOMAIN net[a][r] : y = <<a, i>>
    BY <2>1
  <2> QED BY <2>2
<1>2. IncomingValues(r)' = IncomingValues(r)
  BY <1>1 DEF IncomingValues
<1> QED BY <1>2 DEF SameTotals

-----------------------------------------------------------------------------
(* What a step does to the balance of r, by its effect on the values that  *)
(* were issued, that are on their way, and that main holds back.           *)
Untouched(r) == local'[r] = local[r] /\ remote'[r] = remote[r]

Same(r) ==
  /\ SameTotals(IssuedValues', IssuedValues)
  /\ SameTotals(IncomingValues(r)', IncomingValues(r))
  /\ SameTotals(PendingValues(r)', PendingValues(r))
  /\ Untouched(r)

IssuedHere(r, v) ==
  /\ Adds(IssuedValues', IssuedValues, v)
  /\ SameTotals(IncomingValues(r)', IncomingValues(r))
  /\ Adds(PendingValues(r)', PendingValues(r), v)
  /\ Untouched(r)

IssuedElsewhere(r, v) ==
  /\ Adds(IssuedValues', IssuedValues, v)
  /\ Adds(IncomingValues(r)', IncomingValues(r), v)
  /\ SameTotals(PendingValues(r)', PendingValues(r))
  /\ Untouched(r)

(* An object's part takes a value in. *)
TakesIn(new, old, v) ==
  /\ useCase = "counter" => new = old + v
  /\ useCase = "gset" => new = old \cup {v}

AppliedLocally(r, v) ==
  /\ SameTotals(IssuedValues', IssuedValues)
  /\ SameTotals(IncomingValues(r)', IncomingValues(r))
  /\ Adds(PendingValues(r), PendingValues(r)', v)
  /\ TakesIn(local'[r], local[r], v) /\ remote'[r] = remote[r]

AppliedRemotely(r, v) ==
  /\ SameTotals(IssuedValues', IssuedValues)
  /\ Adds(IncomingValues(r), IncomingValues(r)', v)
  /\ SameTotals(PendingValues(r)', PendingValues(r))
  /\ local'[r] = local[r] /\ TakesIn(remote'[r], remote[r], v)

(* Each of these steps keeps the balance. *)
LEMMA BalanceKept ==
  ASSUME NEW r \in Node, NEW v \in Int, workload' = workload,
         PartTypes, Balanced(r), ValueTypes(r), ValueTypes(r)',
         \/ Same(r) \/ IssuedHere(r, v) \/ IssuedElsewhere(r, v)
         \/ AppliedLocally(r, v) \/ AppliedRemotely(r, v)
  PROVE  Balanced(r)'
<1>1. PICK i, i2, c, c2, p, p2 :
        /\ i = IssuedValues /\ i2 = IssuedValues'
        /\ c = IncomingValues(r) /\ c2 = IncomingValues(r)'
        /\ p = PendingValues(r) /\ p2 = PendingValues(r)'
  OBVIOUS
<1>2. useCase' = useCase
  BY DEF useCase
<1>3. ASSUME useCase = "counter"
      PROVE  local'[r] + remote'[r] + SumFunction(c2) + SumFunction(p2) = SumFunction(i2)
  <2>1. /\ local[r] \in Int /\ remote[r] \in Int
        /\ SumFunction(i) \in Int /\ SumFunction(i2) \in Int
        /\ SumFunction(c) \in Int /\ SumFunction(c2) \in Int
        /\ SumFunction(p) \in Int /\ SumFunction(p2) \in Int
    BY <1>1, <1>3 DEF PartTypes, ValueTypes
  <2>2. local[r] + remote[r] + SumFunction(c) + SumFunction(p) = SumFunction(i)
    BY <1>1, <1>3 DEF Balanced
  <2>3. CASE Same(r)
    BY <1>1, <2>1, <2>2, <2>3 DEF Same, Untouched, SameTotals
  <2>4. CASE IssuedHere(r, v)
    BY <1>1, <2>1, <2>2, <2>4 DEF IssuedHere, Untouched, SameTotals, Adds
  <2>5. CASE IssuedElsewhere(r, v)
    BY <1>1, <2>1, <2>2, <2>5 DEF IssuedElsewhere, Untouched, SameTotals, Adds
  <2>6. CASE AppliedLocally(r, v)
    BY <1>1, <1>3, <2>1, <2>2, <2>6 DEF AppliedLocally, TakesIn, SameTotals, Adds
  <2>7. CASE AppliedRemotely(r, v)
    BY <1>1, <1>3, <2>1, <2>2, <2>7 DEF AppliedRemotely, TakesIn, SameTotals, Adds
  <2> QED BY <2>3, <2>4, <2>5, <2>6, <2>7
<1>4. ASSUME useCase = "gset"
      PROVE  local'[r] \cup remote'[r] \cup Range(c2) \cup Range(p2) = Range(i2)
  <2>2. local[r] \cup remote[r] \cup Range(c) \cup Range(p) = Range(i)
    BY <1>1, <1>4 DEF Balanced
  <2>3. CASE Same(r)
    BY <1>1, <2>2, <2>3 DEF Same, Untouched, SameTotals
  <2>4. CASE IssuedHere(r, v)
    BY <1>1, <2>2, <2>4 DEF IssuedHere, Untouched, SameTotals, Adds
  <2>5. CASE IssuedElsewhere(r, v)
    BY <1>1, <2>2, <2>5 DEF IssuedElsewhere, Untouched, SameTotals, Adds
  <2>6. CASE AppliedLocally(r, v)
    BY <1>1, <1>4, <2>2, <2>6 DEF AppliedLocally, TakesIn, SameTotals, Adds
  <2>7. CASE AppliedRemotely(r, v)
    BY <1>1, <1>4, <2>2, <2>7 DEF AppliedRemotely, TakesIn, SameTotals, Adds
  <2> QED BY <2>3, <2>4, <2>5, <2>6, <2>7
<1> QED BY <1>1, <1>2, <1>3, <1>4 DEF Balanced

-----------------------------------------------------------------------------
(* The actions, with what is known of r before the step and after it.      *)
Known(r) == ValueTypes(r) /\ PendingIs(r)

(* A broadcast issues the update at the sender, and sends it to the others. *)
LEMMA BroadcastBalances ==
  ASSUME UpdatesInv, NEW n \in Node, BroadcastUpdate(n), NEW r \in Node, Known(r), Known(r)'
  PROVE  Balanced(r)'
<1>1. PICK v : v = file(n)[it[n]].value1
  OBVIOUS
<1>2. /\ main[n] = Loop /\ main' = [main EXCEPT ![n] = Apply]
      /\ UNCHANGED <<workload, it, local, remote>>
  BY DEF BroadcastUpdate, AtCall
<1>3. Adds(IssuedValues', IssuedValues, v) /\ v \in Int
  BY <1>1, ValueIssued DEF UpdatesInv, Known
<1>4. main'[n] = Apply /\ \A m \in Node \ {n} : main'[m] = main[m]
  BY <1>2 DEF UpdatesInv, CountingInv, Threads
<1>5. Untouched(r)
  BY <1>2 DEF Untouched
<1>6. CASE r = n
  <2>1. SameTotals(IncomingValues(r)', IncomingValues(r))
    BY <1>6, BroadcastArrives, SameIncoming DEF UpdatesInv
  <2>2. SumFunction(PendingValues(r)) = 0 /\ Range(PendingValues(r)) = {}
    BY <1>2, <1>6, ControlDiffers DEF Known, PendingIs
  <2>3. SumFunction(PendingValues(r)') = v /\ Range(PendingValues(r)') = {v}
    <3>1. file(n)' = file(n) /\ it'[n] = it[n] /\ main'[r] = Apply'
      BY <1>2, <1>4, <1>6 DEF file, Apply
    <3> QED BY <1>1, <1>6, <3>1 DEF Known, PendingIs
  <2>4. Adds(PendingValues(r)', PendingValues(r), v)
    BY <1>3, <2>2, <2>3 DEF Adds
  <2> QED BY <1>2, <1>3, <1>5, <2>1, <2>4, BalanceKept DEF IssuedHere, UpdatesInv, Known
<1>7. CASE r # n
  <2>1. Adds(IncomingValues(r)', IncomingValues(r), v)
    <3>1. PICK c : c = CallMessage(file(n)[it[n]])
      OBVIOUS
    <3>2. c \in Message /\ Arrives(n, r, c) /\ net[n][r] \in Seq(Message)
      BY <1>7, <3>1, BroadcastArrives DEF UpdatesInv, CountingInv, CrdtInv, BarrierInv, StartTypes
    <3>3. c.value1 = v
      BY <1>1, <3>1 DEF CallMessage
    <3> QED BY <3>2, <3>3, ValueAppended DEF Known
  <2>2. SameTotals(PendingValues(r)', PendingValues(r))
    BY <1>2, <1>4, <1>7, SamePending
  <2> QED BY <1>2, <1>3, <1>5, <2>1, <2>2, BalanceKept DEF IssuedElsewhere, UpdatesInv, Known
<1> QED BY <1>6, <1>7

(* The sender applies the update it holds back. *)
LEMMA UpdateLocalBalances ==
  ASSUME UpdatesInv, NEW n \in Node, UpdateLocal(n), NEW r \in Node, Known(r), Known(r)'
  PROVE  Balanced(r)'
<1>1. PICK v : v = file(n)[it[n]].value1
  OBVIOUS
<1>2. /\ main[n] = Apply /\ main' = [main EXCEPT ![n] = Loaded(waittobestable[n])]
      /\ local' = [local EXCEPT ![n] = Updated(local[n], v)]
      /\ UNCHANGED <<net, workload, it, remote>>
  BY <1>1 DEF UpdateLocal, vars
<1>3. main'[n] = Loaded(waittobestable[n]) /\ \A m \in Node \ {n} : main'[m] = main[m]
  BY <1>2 DEF UpdatesInv, CountingInv, Threads
<1>4. SameTotals(IssuedValues', IssuedValues)
  BY <1>2, UpdateLocalIssuesNone, SameIssued DEF UpdatesInv
<1>5. SameTotals(IncomingValues(r)', IncomingValues(r))
  <2>1. Incoming(r)' = Incoming(r)
    BY <1>2 DEF Incoming, IsCall
  <2> QED BY <1>2, <2>1, SameIncoming
<1>6. CASE r = n
  <2>1. SumFunction(PendingValues(r)) = v /\ Range(PendingValues(r)) = {v} /\ v \in Int
    BY <1>1, <1>2, <1>6 DEF Known, PendingIs
  <2>2. SumFunction(PendingValues(r)') = 0 /\ Range(PendingValues(r)') = {}
    <3>1. main'[r] # Apply'
      BY <1>3, <1>6, LoadedIsDifferent DEF Apply
    <3> QED BY <3>1 DEF Known, PendingIs
  <2>3. Adds(PendingValues(r), PendingValues(r)', v)
    BY <2>1, <2>2 DEF Adds
  <2>4. TakesIn(local'[r], local[r], v) /\ remote'[r] = remote[r]
    BY <1>2, <1>6 DEF TakesIn, Updated, UpdatesInv, PartTypes
  <2> QED BY <1>2, <1>4, <1>5, <2>1, <2>3, <2>4, BalanceKept DEF AppliedLocally, UpdatesInv, Known
<1>7. CASE r # n
  <2>1. SameTotals(PendingValues(r)', PendingValues(r))
    BY <1>2, <1>3, <1>7, SamePending
  <2>2. Untouched(r)
    BY <1>2, <1>7 DEF Untouched
  <2> QED BY <1>2, <1>4, <1>5, <2>1, <2>2, BalanceKept DEF Same, UpdatesInv, Known
<1> QED BY <1>6, <1>7

(* Who holds nothing back before the step and after it holds the same back. *)
LEMMA NothingPending ==
  ASSUME NEW r \in Node, Known(r), Known(r)', main[r] # Apply, main'[r] # Apply
  PROVE  SameTotals(PendingValues(r)', PendingValues(r))
<1>1. SumFunction(PendingValues(r)) = 0 /\ Range(PendingValues(r)) = {}
  BY DEF Known, PendingIs
<1>2. main'[r] # Apply'
  BY DEF Apply
<1>3. SumFunction(PendingValues(r)') = 0 /\ Range(PendingValues(r)') = {}
  BY <1>2 DEF Known, PendingIs
<1> QED BY <1>1, <1>3 DEF SameTotals

(* The main thread counts its update, and is at the next call. *)
LEMMA StoreLocalBalances ==
  ASSUME UpdatesInv, NEW n \in Node, StoreLocal(n), NEW r \in Node, Known(r), Known(r)'
  PROVE  Balanced(r)'
<1>1. /\ main[n] \notin {Loop, Apply} /\ main' = [main EXCEPT ![n] = Loop]
      /\ it' = [it EXCEPT ![n] = @ + 1]
      /\ UNCHANGED <<net, workload, local, remote>>
  BY DEF StoreLocal, vars
<1>2. /\ main'[n] = Loop
      /\ \A m \in Node \ {n} : main'[m] = main[m] /\ it'[m] = it[m]
  BY <1>1 DEF UpdatesInv, CountingInv, Threads
<1>3. SameTotals(IssuedValues', IssuedValues)
  BY <1>1, StoreLocalIssuesNone, SameIssued DEF UpdatesInv
<1>4. SameTotals(IncomingValues(r)', IncomingValues(r))
  <2>1. Incoming(r)' = Incoming(r)
    BY <1>1 DEF Incoming, IsCall
  <2> QED BY <1>1, <2>1, SameIncoming
<1>5. SameTotals(PendingValues(r)', PendingValues(r))
  <2>1. CASE r = n
    <3>1. main[r] # Apply /\ main'[r] # Apply
      BY <1>1, <1>2, <2>1, ControlDiffers
    <3> QED BY <3>1, NothingPending
  <2>2. CASE r # n
    BY <1>1, <1>2, <2>2, SamePending
  <2> QED BY <2>1, <2>2
<1>6. Untouched(r)
  BY <1>1 DEF Untouched
<1> QED BY <1>1, <1>3, <1>4, <1>5, <1>6, BalanceKept DEF Same, UpdatesInv, Known

(* A read moves a value only between the parts of a register. *)
LEMMA ReadLocalBalances ==
  ASSUME UpdatesInv, NEW n \in Node, ReadLocal(n), NEW r \in Node, Known(r), Known(r)'
  PROVE  Balanced(r)'
<1>1. /\ main[n] = Loop /\ it' = [it EXCEPT ![n] = @ + 1]
      /\ UNCHANGED <<net, workload, main, local>>
  BY DEF ReadLocal, AtCall, vars
<1>2. \A m \in Node \ {n} : it'[m] = it[m]
  BY <1>1 DEF UpdatesInv, CountingInv, Threads
<1>3. useCase' = useCase
  BY <1>1 DEF useCase
<1>4. CASE useCase \notin {"counter", "gset"}
  BY <1>3, <1>4 DEF Balanced
<1>5. CASE useCase \in {"counter", "gset"}
  <2>1. SameTotals(IssuedValues', IssuedValues)
    BY <1>1, ReadLocalIssuesNone, SameIssued DEF UpdatesInv
  <2>2. SameTotals(IncomingValues(r)', IncomingValues(r))
    <3>1. Incoming(r)' = Incoming(r)
      BY <1>1 DEF Incoming, IsCall
    <3> QED BY <1>1, <3>1, SameIncoming
  <2>3. SameTotals(PendingValues(r)', PendingValues(r))
    <3>1. CASE r = n
      <4>1. main[r] # Apply /\ main'[r] # Apply
        BY <1>1, <3>1, ControlDiffers
      <4> QED BY <4>1, NothingPending
    <3>2. CASE r # n
      BY <1>1, <1>2, <3>2, SamePending
    <3> QED BY <3>1, <3>2
  <2>4. Untouched(r)
    <3>1. remote' = [remote EXCEPT ![n] = remote[n]]
      BY <1>5 DEF ReadLocal
    <3>2. DOMAIN remote = Node
      BY <1>5 DEF UpdatesInv, PartTypes
    <3> QED BY <1>1, <3>1, <3>2 DEF Untouched
  <2> QED BY <1>1, <2>1, <2>2, <2>3, <2>4, BalanceKept DEF Same, UpdatesInv, Known
<1> QED BY <1>4, <1>5

(* The receiver thread moves a call from its connection to the object. *)
LEMMA ReceiveUpdateBalances ==
  ASSUME UpdatesInv, NEW n \in Node, NEW m \in Peers(n), ReceiveUpdate(n, m),
         NEW r \in Node, Known(r), Known(r)'
  PROVE  Balanced(r)'
<1>1. PICK c : c = Head(net[m][n])
  OBVIOUS
<1>2. /\ m \in Node /\ net[m][n] # <<>> /\ IsCall(c)
      /\ net' = [net EXCEPT ![m][n] = Tail(@)]
      /\ remote' = [remote EXCEPT ![n] = UpdatedRemotely(@, c)]
      /\ UNCHANGED <<workload, it, main, local>>
  BY <1>1 DEF ReceiveUpdate, Peers, IsCall
<1>3. StartTypes
  BY DEF UpdatesInv, CountingInv, CrdtInv, BarrierInv
<1>4. SameTotals(IssuedValues', IssuedValues)
  <2>1. Unissued' = Unissued
    BY <1>2, UpdatesFixed DEF Unissued
  <2> QED BY <1>2, <2>1, SameIssued
<1>5. SameTotals(PendingValues(r)', PendingValues(r))
  BY <1>2, SamePending
<1>6. CASE r = n
  <2>1. Adds(IncomingValues(r), IncomingValues(r)', c.value1) /\ c.value1 \in Int
    BY <1>1, <1>2, <1>3, <1>6, ValueTaken DEF Known
  <2>2. local'[r] = local[r] /\ TakesIn(remote'[r], remote[r], c.value1)
    BY <1>2, <1>6 DEF TakesIn, UpdatedRemotely, UpdatesInv, PartTypes
  <2> QED BY <1>2, <1>4, <1>5, <2>1, <2>2, BalanceKept DEF AppliedRemotely, UpdatesInv, Known
<1>7. CASE r # n
  <2>1. SameTotals(IncomingValues(r)', IncomingValues(r))
    <3>1. Incoming(r)' = Incoming(r) /\ \A a \in Node : net'[a][r] = net[a][r]
      BY <1>2, <1>3, <1>7, PositionsMove
    <3> QED BY <3>1, SameIncoming
  <2>2. Untouched(r)
    BY <1>2, <1>7 DEF Untouched
  <2> QED BY <1>2, <1>4, <1>5, <2>1, <2>2, BalanceKept DEF Same, UpdatesInv, Known
<1> QED BY <1>6, <1>7

(* The other steps touch neither the files and the main threads nor the objects. *)
LEMMA OthersBalance ==
  ASSUME UpdatesInv, UNCHANGED <<workload, it, main, local, remote>>,
         NEW r \in Node, Known(r), Known(r)',
         SameTotals(IncomingValues(r)', IncomingValues(r))
  PROVE  Balanced(r)'
<1>1. SameTotals(IssuedValues', IssuedValues)
  <2>1. Unissued' = Unissued
    BY UpdatesFixed DEF Unissued
  <2> QED BY <2>1, SameIssued
<1>2. SameTotals(PendingValues(r)', PendingValues(r))
  BY SamePending
<1> QED BY <1>1, <1>2, BalanceKept DEF Same, Untouched, UpdatesInv, Known

(* An "init" on a connection is no update. *)
LEMMA StartingBalances ==
  ASSUME UpdatesInv, Starting, NEW r \in Node, Known(r), Known(r)'
  PROVE  Balanced(r)'
<1>1. StartNext /\ UNCHANGED <<workload, it, main, local, remote>>
  BY DEF Starting, crdtVars
<1>2. StartTypes
  BY DEF UpdatesInv, CountingInv, CrdtInv, BarrierInv
<1>3. CASE net' = net
  <2>1. Incoming(r)' = Incoming(r)
    BY <1>3 DEF Incoming, IsCall
  <2> QED BY <1>1, <1>3, <2>1, SameIncoming, OthersBalance
<1>4. ASSUME NEW n \in Node, NEW m \in Peers(n), SendInit(n, m) PROVE Balanced(r)'
  <2>1. SameTotals(IncomingValues(r)', IncomingValues(r))
    BY <1>2, <1>4, InitIsNoCall, SameIncoming
  <2> QED BY <1>1, <2>1, OthersBalance
<1>5. ASSUME NEW n \in Node, NEW m \in Peers(n), ReceiveInit(n, m) PROVE Balanced(r)'
  <2>1. /\ m \in Node /\ net[m][n] # <<>> /\ ~IsCall(Head(net[m][n]))
        /\ net' = [net EXCEPT ![m][n] = Tail(@)]
    BY <1>5 DEF ReceiveInit, Peers, IsCall
  <2>2. CASE r = n
    <3>1. SameTotals(IncomingValues(r)', IncomingValues(r))
      BY <1>2, <2>1, <2>2, ValueTaken DEF Known
    <3> QED BY <1>1, <3>1, OthersBalance
  <2>3. CASE r # n
    <3>1. Incoming(r)' = Incoming(r) /\ \A a \in Node : net'[a][r] = net[a][r]
      BY <1>2, <2>1, <2>3, PositionsMove
    <3>2. SameTotals(IncomingValues(r)', IncomingValues(r))
      BY <3>1, SameIncoming
    <3> QED BY <1>1, <3>2, OthersBalance
  <2> QED BY <2>2, <2>3
<1> QED
  BY <1>1, <1>3, <1>4, <1>5
  DEF StartNext, Start, Connect, Sleep, Accept, SetVars, EnterBarrier, LeaveBarrier

(* Only a broadcast brings a main thread to an update that it holds back. *)
LEMMA AtUpdateKept ==
  ASSUME CountingInv, AtUpdate, [CrdtNext]_allVars
  PROVE  AtUpdate'
<1>1. CASE UNCHANGED <<workload, it, main>>
  BY <1>1 DEF AtUpdate, file, Apply
<1>2. ASSUME NEW n \in Node, BroadcastUpdate(n) PROVE AtUpdate'
  <2>1. /\ it[n] <= Len(file(n)) /\ file(n)[it[n]].type = "Update"
        /\ main' = [main EXCEPT ![n] = Apply] /\ UNCHANGED <<workload, it>>
    BY <1>2 DEF BroadcastUpdate, AtCall
  <2>2. Len(file(n)) \in Nat /\ it[n] \in Nat \ {0} /\ DOMAIN main = Node
    BY WorkloadsAssumption DEF CountingInv, Threads, file
  <2>3. it[n] \in 1..Len(file(n))
    BY <2>1, <2>2
  <2> QED BY <2>1, <2>2, <2>3 DEF AtUpdate, file, Apply
<1>3. ASSUME NEW n \in Node, UpdateLocal(n) PROVE AtUpdate'
  <2>1. main' = [main EXCEPT ![n] = Loaded(waittobestable[n])] /\ UNCHANGED <<workload, it>>
    BY <1>3 DEF UpdateLocal
  <2>2. DOMAIN main = Node
    BY DEF CountingInv, Threads
  <2> QED BY <2>1, <2>2, LoadedIsDifferent DEF AtUpdate, file, Apply
<1>4. ASSUME NEW n \in Node, StoreLocal(n) PROVE AtUpdate'
  <2>1. /\ main' = [main EXCEPT ![n] = Loop] /\ it' = [it EXCEPT ![n] = @ + 1]
        /\ workload' = workload
    BY <1>4 DEF StoreLocal
  <2>2. DOMAIN main = Node /\ DOMAIN it = Node
    BY DEF CountingInv, Threads
  <2> QED BY <2>1, <2>2, ControlDiffers DEF AtUpdate, file, Apply
<1>5. ASSUME NEW n \in Node, ReadLocal(n) PROVE AtUpdate'
  <2>1. main[n] = Loop /\ it' = [it EXCEPT ![n] = @ + 1] /\ UNCHANGED <<workload, main>>
    BY <1>5 DEF ReadLocal, AtCall
  <2>2. DOMAIN it = Node
    BY DEF CountingInv, Threads
  <2> QED BY <2>1, <2>2, ControlDiffers DEF AtUpdate, file, Apply
<1> QED
  BY <1>1, <1>2, <1>3, <1>4, <1>5
  DEF CrdtNext, Main, Starting, ReceiveUpdate, StoreRemote, allVars, crdtVars

(* The objects keep their types. *)
LEMMA PartTypesKept ==
  ASSUME CountingInv, AtUpdate, PartTypes, [CrdtNext]_allVars
  PROVE  PartTypes'
<1>1. useCase' = useCase
  BY DEF CrdtNext, Main, Starting, BroadcastUpdate, UpdateLocal, StoreLocal, ReadLocal,
     ReceiveUpdate, StoreRemote, allVars, crdtVars, useCase
<1>2. CASE UNCHANGED <<local, remote>>
  BY <1>1, <1>2 DEF PartTypes
<1>3. ASSUME NEW n \in Node, UpdateLocal(n) PROVE PartTypes'
  <2>1. PICK v : v = file(n)[it[n]].value1
    OBVIOUS
  <2>2. v \in Int
    BY <1>3, <2>1, UpdateValue DEF CountingInv, AtUpdate, UpdateLocal
  <2>3. local' = [local EXCEPT ![n] = Updated(local[n], v)] /\ remote' = remote
    BY <1>3, <2>1 DEF UpdateLocal
  <2> QED BY <1>1, <2>2, <2>3 DEF PartTypes, Updated
<1>4. ASSUME NEW n \in Node, ReadLocal(n) PROVE PartTypes'
  <2>1. /\ local' = local
        /\ useCase # "reg" => remote' = [remote EXCEPT ![n] = remote[n]]
    BY <1>4 DEF ReadLocal
  <2> QED BY <1>1, <2>1 DEF PartTypes
<1>5. ASSUME NEW n \in Node, NEW m \in Peers(n), ReceiveUpdate(n, m) PROVE PartTypes'
  <2>1. PICK c : c = Head(net[m][n])
    OBVIOUS
  <2>2. c.value1 \in Int
    <3>1. net[m][n] \in Seq(Message) /\ net[m][n] # <<>> /\ IsCall(c)
      BY <1>5, <2>1 DEF CountingInv, CrdtInv, BarrierInv, StartTypes, ReceiveUpdate, Peers, IsCall
    <3>2. c \in Message
      BY <2>1, <3>1
    <3> QED BY <3>1, <3>2, CallValue
  <2>3. remote' = [remote EXCEPT ![n] = UpdatedRemotely(remote[n], c)] /\ local' = local
    BY <1>5, <2>1 DEF ReceiveUpdate
  <2> QED BY <1>1, <2>2, <2>3 DEF PartTypes, UpdatedRemotely
<1> QED
  BY <1>2, <1>3, <1>4, <1>5
  DEF CrdtNext, Main, Starting, BroadcastUpdate, StoreLocal, StoreRemote, allVars, crdtVars

(* What is known of every node. *)
KnownOfAll == \A n \in Node : Known(n)

(* The invariant gives what is known of every node. *)
LEMMA InvKnows == CountingInv /\ AtUpdate => KnownOfAll
BY ValuesTypes, PendingValue DEF KnownOfAll, Known, CountingInv

(* Every step keeps the balance of every node. *)
LEMMA BalancesKept ==
  ASSUME UpdatesInv, [CrdtNext]_allVars, KnownOfAll, KnownOfAll', NEW r \in Node
  PROVE  Balanced(r)'
<1>1. Known(r) /\ Known(r)'
  BY DEF KnownOfAll
<1>2. ASSUME UNCHANGED <<net, workload, it, main, local, remote>> PROVE Balanced(r)'
  <2>1. Incoming(r)' = Incoming(r)
    BY <1>2 DEF Incoming, IsCall
  <2>2. SameTotals(IncomingValues(r)', IncomingValues(r))
    BY <1>2, <2>1, SameIncoming
  <2> QED BY <1>1, <1>2, <2>2, OthersBalance
<1>3. ASSUME NEW n \in Node, StoreRemote(n) PROVE Balanced(r)'
  BY <1>2, <1>3 DEF StoreRemote, vars
<1>4. CASE UNCHANGED allVars
  BY <1>2, <1>4 DEF allVars, vars, crdtVars
<1> QED
  BY <1>1, <1>3, <1>4, StartingBalances, BroadcastBalances, UpdateLocalBalances,
     StoreLocalBalances, ReadLocalBalances, ReceiveUpdateBalances DEF CrdtNext, Main

(* At the start nothing was issued, and the objects are empty. *)
LEMMA UpdatesInvInit == CrdtInit => UpdatesInv
<1> SUFFICES ASSUME CrdtInit PROVE UpdatesInv
  OBVIOUS
<1>1. CountingInv
  BY CountingInvInit
<1>2. /\ workload \in Workloads /\ it = [n \in Node |-> 1] /\ main = [n \in Node |-> Loop]
      /\ net = [m \in Node |-> [n \in Node |-> <<>>]]
      /\ local = [n \in Node |-> InitialPart] /\ remote = [n \in Node |-> InitialPart]
  BY DEF CrdtInit, StartInit
<1>3. AtUpdate
  BY <1>2, ControlDiffers DEF AtUpdate
<1>4. PartTypes
  BY <1>2 DEF PartTypes, InitialPart
<1>5. Issued = {}
  <2>1. \A u \in Updates : u[1] \in Node /\ u[2] >= 1
    BY MaxCallsAssumption DEF Updates
  <2> QED BY <1>2, <2>1 DEF Issued, Unissued
<1>6. SumFunction(IssuedValues) = 0 /\ Range(IssuedValues) = {}
  <2>1. PICK f : f = IssuedValues
    OBVIOUS
  <2>2. f \in [{} -> Int]
    BY <1>5, <2>1 DEF IssuedValues
  <2> QED BY <2>1, <2>2, OneValue
<1>7. ASSUME NEW n \in Node PROVE Balanced(n)
  <2>1. Incoming(n) = {}
    BY <1>2 DEF Incoming
  <2>2. SumFunction(IncomingValues(n)) = 0 /\ Range(IncomingValues(n)) = {}
    <3>1. PICK f : f = IncomingValues(n)
      OBVIOUS
    <3>2. f \in [{} -> Int]
      BY <2>1, <3>1 DEF IncomingValues
    <3> QED BY <3>1, <3>2, OneValue
  <2>3. SumFunction(PendingValues(n)) = 0 /\ Range(PendingValues(n)) = {}
    <3>1. main[n] # Apply
      BY <1>2, ControlDiffers
    <3> QED BY <1>1, <1>3, <3>1, PendingValue DEF CountingInv, PendingIs
  <2>4. local[n] = InitialPart /\ remote[n] = InitialPart
    BY <1>2
  <2>5. CASE useCase = "counter"
    BY <1>6, <2>2, <2>3, <2>4, <2>5 DEF Balanced, InitialPart
  <2>6. CASE useCase = "gset"
    BY <1>6, <2>2, <2>3, <2>4, <2>6 DEF Balanced, InitialPart
  <2>7. CASE useCase \notin {"counter", "gset"}
    BY <2>7 DEF Balanced
  <2> QED BY <2>5, <2>6, <2>7
<1> QED BY <1>1, <1>3, <1>4, <1>7 DEF UpdatesInv

(***************************************************************************)
(* At any time and at every node, the values that the counter has added up *)
(* or the set has collected, with those on their way to the node and the   *)
(* one its main thread is about to apply, are the values of the updates    *)
(* that have been broadcast: none is lost, and none is applied twice.      *)
(***************************************************************************)
THEOREM UpdatesAlwaysAccountedFor == CrdtSpec => []UpdatesAccountedFor
<1>1. CrdtInit => UpdatesInv
  BY UpdatesInvInit
<1>2. UpdatesInv => KnownOfAll
  BY InvKnows DEF UpdatesInv
<1>3. UpdatesInv /\ [CrdtNext]_allVars => (CountingInv /\ AtUpdate /\ PartTypes)'
  BY CountingInvInductive, AtUpdateKept, PartTypesKept DEF UpdatesInv
<1>4. (CountingInv /\ AtUpdate)' => KnownOfAll'
  BY InvKnows, PTL
<1>5. UpdatesInv /\ [CrdtNext]_allVars => UpdatesInv'
  <2> SUFFICES ASSUME UpdatesInv, [CrdtNext]_allVars PROVE UpdatesInv'
    OBVIOUS
  <2>1. KnownOfAll /\ KnownOfAll' /\ (CountingInv /\ AtUpdate /\ PartTypes)'
    BY <1>2, <1>3, <1>4
  <2>2. \A r \in Node : Balanced(r)'
    BY <2>1, BalancesKept
  <2> QED BY <2>1, <2>2 DEF UpdatesInv
<1>6. UpdatesInv => UpdatesAccountedFor
  BY DEF UpdatesInv, Balanced, UpdatesAccountedFor
<1> QED BY <1>1, <1>5, <1>6, PTL DEF CrdtSpec
=============================================================================
