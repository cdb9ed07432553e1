-------------------------------- MODULE Ecros --------------------------------
(***************************************************************************)
(* The ECROS protocol of protocol-ecros.cpp as the ECROS branches of       *)
(* tcp/main-replication-protocols.cpp drive it.                            *)
(*                                                                         *)
(* As in module Hamsou, a node has a main thread and a receiver thread.    *)
(* Both hold the mutex mtx for the whole of exeLocal and exeRemote, except *)
(* for exeLocal's first test.  Instead of a list, a node keeps a graph of  *)
(* the calls that are not committed; after every remote call it sorts the  *)
(* graph and replays on its object what it has not replayed before.        *)
(***************************************************************************)
EXTENDS Integers, Sequences, SequencesExt, EcrosUseCases

CONSTANTS
  N,            \* number_of_nodes
  Op,           \* the update operations that occur in workload files
  Workloads,    \* the use cases and workload files considered
  MaxCallId,    \* a bound on the calls per file
  InitialRows   \* rows per table after setVars; 50 in the code

Node == 1..N

ASSUME NAssumption == N \in Nat \ {0, 1}
ASSUME WorkloadsAssumption ==
  \A w \in Workloads :
    /\ w.useCase \in UseCase
    /\ w.files \in [Node -> Seq(Op)]
    /\ \A n \in Node : /\ Len(w.files[n]) <= MaxCallId
                       /\ \A k \in DOMAIN w.files[n] :
                            w.files[n][k].type \in Methods(w.useCase)
ASSUME MaxCallIdAssumption == MaxCallId \in Nat
ASSUME InitialRowsAssumption == InitialRows \in Nat

(* vc.assign(num_nodes, 0), while nodes are numbered from 1. *)
Clock == [0..(N - 1) -> Nat]
Zero == [i \in 0..(N - 1) |-> 0]

Call == [op : Op, node_id : Node, call_id : 1..MaxCallId, vc : Clock]
CallId == [node_id : Node, call_id : 1..MaxCallId]
IdOf(c) == [node_id |-> c.node_id, call_id |-> c.call_id]
IdsOf(C) == {IdOf(c) : c \in C}

CallMessage(c) == [kind |-> "Call", call |-> c]
AckMessage(a)  == [kind |-> "Ack", ack |-> a]

VARIABLES
  workload,     \* the use case and workload[n]'s files (constant)
  it, turn,     \* as in Hamsou; turn[n] = "run" between shouldSkip and the lock
  vc,           \* vc[n]: the vector clock
  calls,        \* calls[n]: the executed calls that are not committed
  edges,        \* edges[n]: pairs of calls, the first goes before the second
  ackCounts,    \* ackCounts[n][id]
  committed,    \* committed[n]: ids in the order of commitment; its length is
                \*   obj.waittobestable
  object,       \* object[n]: the state of the replicated object
  applied,      \* applied[n]: the ids recomputeState passes over
  unsent_acks,  \* the part of send_ack_call_list from ack_index on
  net

graphVars == <<vc, calls, edges, object, applied>>
commitVars == <<ackCounts, committed>>
vars == <<workload, it, turn, graphVars, commitVars, unsent_acks, net>>

useCase == workload.useCase
file == workload.files

-----------------------------------------------------------------------------
Init ==
  /\ workload \in Workloads
  /\ it = [n \in Node |-> 1]
  /\ turn = [n \in Node |-> "ack"]
  /\ vc = [n \in Node |-> Zero]
  /\ calls = [n \in Node |-> {}]
  /\ edges = [n \in Node |-> {}]
  /\ ackCounts = [n \in Node |-> [a \in CallId |-> 0]]
  /\ committed = [n \in Node |-> <<>>]
  /\ object = [n \in Node |-> InitialObject(useCase, InitialRows)]
  /\ applied = [n \in Node |-> {}]
  /\ unsent_acks = [n \in Node |-> <<>>]
  /\ net = [m \in Node |-> [n \in Node |-> <<>>]]

ExpectedCalls == SumFunction([n \in Node |-> Len(file[n])])

Running(n) == Len(committed[n]) < ExpectedCalls

HasCall(n) == it[n] <= Len(file[n])

Broadcast(n, m) ==
  net' = [net EXCEPT ![n] = [r \in Node |-> IF r = n THEN @[r] ELSE Append(@[r], m)]]

-----------------------------------------------------------------------------
(* Vector clocks and the graph.                                            *)

happenedBefore(a, b) ==
  /\ \A i \in DOMAIN a.vc : a.vc[i] <= b.vc[i]
  /\ a.vc # b.vc

concurrent(a, b) ==
  /\ \E i \in DOMAIN a.vc : a.vc[i] < b.vc[i]
  /\ \E i \in DOMAIN a.vc : b.vc[i] < a.vc[i]

(* An "hb" edge from a to b. *)
Causes(a, b) == happenedBefore(a, b) /\ ~seqCommutative(useCase, a, b)

(* The edges between a new call c and the calls in C. *)
CausalEdges(c, C) ==
  {<<v, c>> : v \in {v \in C : Causes(v, c)}} \cup {<<c, v>> : v \in {v \in C : Causes(c, v)}}

(* "co" edges; there are no "ao" edges, as the test for them compares the  *)
(* result of resolution with a character it never returns.                 *)
ResolvedEdges(c, C) ==
  LET rivals == {v \in C : concurrent(v, c)} IN
  {<<c, v>> : v \in {v \in rivals : resolution(c, v) = "<"}}
    \cup {<<v, c>> : v \in {v \in rivals : resolution(c, v) = ">"}}

(***************************************************************************)
(* fullTopoSort: the orders Kahn's algorithm can give.  Every call comes   *)
(* after its predecessors; calls on a cycle or behind one are left out.    *)
(* detectAndResolveCycles removes "ao" edges only and relabels others, so  *)
(* it does not change the graph.                                           *)
(***************************************************************************)
TopoOrders(C, E) ==
  LET before(c) == {e[1] : e \in {e \in E : e[2] = c}} IN
  {t \in SetToAllKPermutations(C) :
     /\ \A i \in DOMAIN t : before(t[i]) \subseteq {t[k] : k \in 1..(i - 1)}
     /\ \A c \in C : before(c) \subseteq Range(t) => c \in Range(t)}

(* recomputeState: the calls of t that are not in done, on top of s. *)
Replay(s, done, t) ==
  FoldLeft(LAMBDA x, c : IF IdOf(c) \in done THEN x ELSE ReplayCall(useCase, x, c), s, t)

-----------------------------------------------------------------------------
(* The main thread.                                                        *)

(* Mutant of SendAck: the list is emptied once its first element is sent. *)
MutSendAck(n) ==
  /\ Running(n) /\ turn[n] = "ack"
  /\ unsent_acks[n] # <<>>
  /\ Broadcast(n, AckMessage(Head(unsent_acks[n])))
  /\ unsent_acks' = [unsent_acks EXCEPT ![n] = <<>>]
  /\ turn' = [turn EXCEPT ![n] = "call"]
  /\ UNCHANGED <<workload, it, graphVars, commitVars>>

SendAck(n) ==
  /\ Running(n) \/ turn[n] = "last"
  /\ turn[n] # "run"
  /\ unsent_acks[n] # <<>>
  /\ Broadcast(n, AckMessage(Head(unsent_acks[n])))
  /\ unsent_acks' = [unsent_acks EXCEPT ![n] = Tail(@)]
  /\ turn' = [turn EXCEPT ![n] = "call"]
  /\ UNCHANGED <<workload, it, graphVars, commitVars>>

NoAckToSend(n) ==
  /\ Running(n) /\ HasCall(n)
  /\ turn[n] = "ack"
  /\ unsent_acks[n] = <<>>
  /\ turn' = [turn EXCEPT ![n] = "call"]
  /\ UNCHANGED <<workload, it, graphVars, commitVars, unsent_acks, net>>

(* Mutant of NextCall: calls are numbered from 0. *)
MutNextCall(n) ==
  [op |-> file[n][it[n]], node_id |-> n, call_id |-> it[n] - 1, vc |-> vc[n]]

NextCall(n) ==
  [op |-> file[n][it[n]], node_id |-> n, call_id |-> it[n],
   vc |-> IF n \in DOMAIN vc[n] THEN [vc[n] EXCEPT ![n] = @ + 1] ELSE vc[n]]

(* shouldSkip, before the lock is taken. *)
TestLocal(n) ==
  /\ HasCall(n) /\ turn[n] = "call"
  /\ ~shouldSkip(useCase, object[n], NextCall(n))
  /\ turn' = [turn EXCEPT ![n] = "run"]
  /\ UNCHANGED <<workload, it, graphVars, commitVars, unsent_acks, net>>

(* A skipped call is broadcast all the same, with the clock it was read with. *)
SkipLocal(n) ==
  /\ HasCall(n) /\ turn[n] = "call"
  /\ shouldSkip(useCase, object[n], NextCall(n))
  /\ Broadcast(n, CallMessage([NextCall(n) EXCEPT !.vc = Zero]))
  /\ it' = [it EXCEPT ![n] = @ + 1]
  /\ turn' = [turn EXCEPT ![n] = "ack"]
  /\ UNCHANGED <<workload, graphVars, commitVars, unsent_acks>>

(* exeLocal under the lock, and the broadcast of the call. *)
ExecuteLocal(n) ==
  /\ turn[n] = "run"
  /\ LET c == NextCall(n)
         marks == useCase \in MarksApplied
     IN /\ vc' = [vc EXCEPT ![n] = c.vc]
        /\ calls' = [calls EXCEPT ![n] = @ \cup {c}]
        /\ edges' = [edges EXCEPT ![n] = @ \cup CausalEdges(c, calls[n])]
        /\ object' = [object EXCEPT ![n] = ApplyCall(useCase, @, c)]
        /\ applied' = [applied EXCEPT ![n] = IF marks THEN @ \cup {IdOf(c)} ELSE @]
        /\ Broadcast(n, CallMessage(c))
  /\ it' = [it EXCEPT ![n] = @ + 1]
  /\ turn' = [turn EXCEPT ![n] = "ack"]
  /\ UNCHANGED <<workload, commitVars, unsent_acks>>

-----------------------------------------------------------------------------
(* The receiver thread.                                                    *)

(* The clock after a call with clock w. *)
Merge(v, w) == [i \in DOMAIN v |-> IF v[i] < w[i] THEN w[i] ELSE v[i]]

(* exeRemote of a call. *)
ReceiveCall(n, m) ==
  /\ net[m][n] # <<>> /\ Head(net[m][n]).kind = "Call"
  /\ net' = [net EXCEPT ![m][n] = Tail(@)]
  /\ LET c == Head(net[m][n]).call
         C == calls[n] \cup {c}
         E == edges[n] \cup CausalEdges(c, calls[n]) \cup ResolvedEdges(c, calls[n])
     IN /\ vc' = [vc EXCEPT ![n] = Merge(@, c.vc)]
        /\ calls' = [calls EXCEPT ![n] = C]
        /\ edges' = [edges EXCEPT ![n] = E]
        /\ \E topoOrder \in TopoOrders(C, E) :
             /\ object' = [object EXCEPT ![n] = Replay(@, applied[n], topoOrder)]
             /\ applied' = [applied EXCEPT ![n] = @ \cup IdsOf(Range(topoOrder))]
        /\ unsent_acks' = [unsent_acks EXCEPT ![n] = Append(@, IdOf(c))]
  /\ UNCHANGED <<workload, it, turn, commitVars>>

(* Mutant of Required: the issuer's own calls are taken for remote ones. *)
MutRequired(n, a) == N - 2

Required(n, a) == IF a.node_id = n THEN N - 1 ELSE N - 2

(***************************************************************************)
(* handleAckAndMaybeStabilize and commitStableCalls.  An acknowledgement   *)
(* that is counted before its call has arrived commits nothing.            *)
(***************************************************************************)
ReceiveAck(n, m) ==
  /\ net[m][n] # <<>> /\ Head(net[m][n]).kind = "Ack"
  /\ net' = [net EXCEPT ![m][n] = Tail(@)]
  /\ LET a == Head(net[m][n]).ack
         count == ackCounts[n][a] + 1
         stable == {c \in calls[n] : IdOf(c) = a /\ count >= Required(n, a)}
     IN /\ ackCounts' = [ackCounts EXCEPT ![n][a] = count]
        /\ calls' = [calls EXCEPT ![n] = @ \ stable]
        /\ edges' = [edges EXCEPT ![n] = {e \in @ : e[1] \notin stable /\ e[2] \notin stable}]
        /\ committed' = [committed EXCEPT ![n] = IF stable = {} THEN @ ELSE Append(@, a)]
        /\ \/ UNCHANGED turn
           \/ /\ Running(n) /\ Len(committed'[n]) >= ExpectedCalls
              /\ turn' = [turn EXCEPT ![n] = "last"]
  /\ UNCHANGED <<workload, it, vc, object, applied, unsent_acks>>

-----------------------------------------------------------------------------
Main(n) ==
  \/ SendAck(n) \/ NoAckToSend(n)
  \/ TestLocal(n) \/ SkipLocal(n) \/ ExecuteLocal(n)

Receive(n, m) == ReceiveCall(n, m) \/ ReceiveAck(n, m)

Next == \E n \in Node : Main(n) \/ \E m \in Node \ {n} : Receive(n, m)

Spec == Init /\ [][Next]_vars

(* Both threads keep running, and no connection is neglected for ever. *)
Fairness ==
  \A n \in Node :
    /\ WF_vars(SendAck(n)) /\ WF_vars(NoAckToSend(n))
    /\ WF_vars(TestLocal(n) \/ SkipLocal(n)) /\ WF_vars(ExecuteLocal(n))
    /\ \A m \in Node \ {n} : WF_vars(Receive(n, m))

FairSpec == Spec /\ Fairness
=============================================================================
