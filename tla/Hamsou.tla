------------------------------- MODULE Hamsou -------------------------------
(***************************************************************************)
(* The optimistic replication protocol of protocol-hamsou.cpp as           *)
(* tcp/main-replication-protocols.cpp drives it, without node failures.    *)
(*                                                                         *)
(* Every node runs two threads on one Handler.                             *)
(*   - The main thread takes the calls of its workload file one by one,    *)
(*     executes them (localHandler) and broadcasts them; before each it    *)
(*     broadcasts at most one acknowledgement.                             *)
(*   - The receiver thread takes one message at a time from the            *)
(*     connections: it executes or queues a call (remoteHandler), or       *)
(*     counts an acknowledgement and stabilizes the head of the list.      *)
(* The two interleave at the granularity of the mutex mtx.  A connection   *)
(* is a FIFO channel.                                                      *)
(***************************************************************************)
EXTENDS Integers, Sequences, SequencesExt, CallQueue

CONSTANTS
  N,          \* number_of_nodes; nodes are numbered from 1
  Op,         \* the update operations that occur in workload files
  Workloads,  \* the assignments of a workload file to every node considered
  MaxCallId,  \* the last call_id the table acks has room for (setVars)
  FastIsReachableLocal(_, _),   \* the use case's fastisreachablelocal
  FastIsReachableRemote(_, _)   \* the use case's fastisreachableremote

Node == 1..N

ASSUME NAssumption == N \in Nat \ {0, 1}
ASSUME WorkloadsAssumption ==
  \A w \in Workloads : /\ w \in [Node -> Seq(Op)]
                        /\ \A n \in Node : Len(w[n]) <= MaxCallId
ASSUME MaxCallIdAssumption == MaxCallId \in Nat

Clock == [Node -> Nat]

Call == [op : Op, node_id : Node, call_id : 1..MaxCallId, vc : Clock]

CallMessage(c) == [kind |-> "Call", call |-> c]
AckMessage(a)  == [kind |-> "Ack", ack |-> a]

(* What an acknowledgement says of the call it answers. *)
CallId == [node_id : Node, call_id : 1..MaxCallId]
IdOf(c) == [node_id |-> c.node_id, call_id |-> c.call_id]

Message == [kind : {"Call"}, call : Call] \cup [kind : {"Ack"}, ack : CallId]

VARIABLES
  workload,       \* workload[n]: the calls of n's file (constant)
  it,             \* it[n]: position of the main thread in workload[n]
  turn,           \* turn[n]: "ack" before the acknowledgement part of the
                  \*   main loop's body, "call" after it; "last" before it in
                  \*   an iteration that outlasts the loop condition
  waiting,        \* waiting[n]: the stableindex the main thread waits to see
                  \*   exceeded before it retries a call, -1 when wait is false
  executionList,  \* the calls executed, the stable ones first
  stable_index,   \* obj.stable_state.index, and waittobestable with it
  vector_clock,
  priorityQueue,
  acks,           \* acks[n][j][k]: acknowledgements n counted for call k of j
  unsent_acks,    \* the part of send_ack_call_list from ack_index on
  receiver,       \* where the receiver thread is
  net             \* net[m][n]: the messages sent by m, not yet received by n

mainVars == <<it, turn, waiting>>
handlerVars == <<executionList, stable_index, vector_clock>>
receiverVars == <<priorityQueue, acks, receiver>>
vars == <<workload, mainVars, handlerVars, receiverVars, unsent_acks, net>>

-----------------------------------------------------------------------------
(* The unstable part of the execution list. *)
Unstable(n) == stable_index[n] + 1 .. Len(executionList[n])

StablePrefix(n) == SubSeq(executionList[n], 1, stable_index[n])

ExpectedCalls == SumFunction([n \in Node |-> Len(workload[n])])

(* The condition of the main loop. *)
Running(n) == stable_index[n] < ExpectedCalls

Broadcast(n, m) ==
  net' = [net EXCEPT ![n] = [r \in Node |-> IF r = n THEN @[r] ELSE Append(@[r], m)]]

Idle == [pc |-> "idle"]
Drain == [pc |-> "drain"]
Handling(pc, c, queued) == [pc |-> pc, call |-> c, queued |-> queued]

(* Mutant of DrainOrIdle: queued calls are not looked at again. *)
MutNoDrain(queue) == Idle

(* The loop that executes queued calls ends at once on an empty queue. *)
DrainOrIdle(queue) == IF queue = <<>> THEN Idle ELSE Drain

-----------------------------------------------------------------------------
Init ==
  /\ workload \in Workloads
  /\ it = [n \in Node |-> 1]
  /\ turn = [n \in Node |-> "ack"]
  /\ waiting = [n \in Node |-> -1]
  /\ executionList = [n \in Node |-> <<>>]
  /\ stable_index = [n \in Node |-> 0]
  /\ vector_clock = [n \in Node |-> [j \in Node |-> 0]]
  /\ priorityQueue = [n \in Node |-> <<>>]
  /\ acks = [n \in Node |-> [j \in Node |-> [k \in 1..MaxCallId |-> 0]]]
  /\ unsent_acks = [n \in Node |-> <<>>]
  /\ receiver = [n \in Node |-> Idle]
  /\ net = [m \in Node |-> [n \in Node |-> <<>>]]

-----------------------------------------------------------------------------
(* The main thread.                                                        *)

(* Mutant of SendAck: ack_index is not advanced. *)
MutSendAckAgain(n) ==
  /\ Running(n) \/ turn[n] = "last"
  /\ unsent_acks[n] # <<>>
  /\ Broadcast(n, AckMessage(Head(unsent_acks[n])))
  /\ turn' = [turn EXCEPT ![n] = "call"]
  /\ UNCHANGED <<workload, it, waiting, handlerVars, receiverVars, unsent_acks>>

(***************************************************************************)
(* One acknowledgement per iteration.  An iteration may end without a call *)
(* (rate limit, a wait, no call left), so this may happen at either turn,  *)
(* and once more if the condition of the loop was tested in time.          *)
(***************************************************************************)
SendAck(n) ==
  /\ Running(n) \/ turn[n] = "last"
  /\ unsent_acks[n] # <<>>
  /\ Broadcast(n, AckMessage(Head(unsent_acks[n])))
  /\ unsent_acks' = [unsent_acks EXCEPT ![n] = Tail(@)]
  /\ turn' = [turn EXCEPT ![n] = "call"]
  /\ UNCHANGED <<workload, it, waiting, handlerVars, receiverVars>>

HasCall(n) == it[n] <= Len(workload[n])

NoAckToSend(n) ==
  /\ Running(n) /\ HasCall(n)
  /\ turn[n] = "ack"
  /\ unsent_acks[n] = <<>>
  /\ turn' = [turn EXCEPT ![n] = "call"]
  /\ UNCHANGED <<workload, it, waiting, handlerVars, receiverVars, unsent_acks, net>>

(* Mutant of NextCall: calls are numbered from 0. *)
MutNextCallFromZero(n) ==
  [op |-> workload[n][it[n]], node_id |-> n, call_id |-> it[n] - 1,
   vc |-> [vector_clock[n] EXCEPT ![n] = @ + 1]]

NextCall(n) ==
  [op |-> workload[n][it[n]], node_id |-> n, call_id |-> it[n],
   vc |-> [vector_clock[n] EXCEPT ![n] = @ + 1]]

(* An unstable call that the call has to come before stands in the way. *)
BlockedLocally(n, c) ==
  \E i \in Unstable(n) : FastIsReachableLocal(c, executionList[n][i])

(* The main thread reaches its next call and does not wait (any more). *)
AtCall(n) ==
  /\ HasCall(n)
  /\ turn[n] = "call"
  /\ waiting[n] < stable_index[n]

(* localHandler executes the call, and it is broadcast. *)
ExecuteLocal(n) ==
  /\ AtCall(n)
  /\ LET c == NextCall(n) IN
     /\ ~BlockedLocally(n, c)
     /\ vector_clock' = [vector_clock EXCEPT ![n] = c.vc]
     /\ executionList' = [executionList EXCEPT ![n] = Append(@, c)]
     /\ Broadcast(n, CallMessage(c))
  /\ it' = [it EXCEPT ![n] = @ + 1]
  /\ waiting' = [waiting EXCEPT ![n] = -1]
  /\ turn' = [turn EXCEPT ![n] = "ack"]
  /\ UNCHANGED <<workload, stable_index, receiverVars, unsent_acks>>

(* Mutant of RefuseLocal: current_state.index is taken for the stable index. *)
MutWaitForCurrent(n) ==
  /\ AtCall(n)
  /\ BlockedLocally(n, NextCall(n))
  /\ waiting' = [waiting EXCEPT ![n] = Len(executionList[n])]
  /\ turn' = [turn EXCEPT ![n] = "ack"]
  /\ UNCHANGED <<workload, it, handlerVars, receiverVars, unsent_acks, net>>

(* localHandler refuses the call; it is retried after a stabilization. *)
RefuseLocal(n) ==
  /\ AtCall(n)
  /\ BlockedLocally(n, NextCall(n))
  /\ waiting' = [waiting EXCEPT ![n] = stable_index[n]]
  /\ turn' = [turn EXCEPT ![n] = "ack"]
  /\ UNCHANGED <<workload, it, handlerVars, receiverVars, unsent_acks, net>>

-----------------------------------------------------------------------------
(* The receiver thread.                                                    *)

(* Mutant of MustQueue: the execution list is not searched. *)
MutQueueBehindTopOnly(n, c) ==
  priorityQueue[n] # <<>> /\ IsAfter(c, Top(priorityQueue[n]))

(***************************************************************************)
(* queueHandler: the call has to wait if it is causally after the first    *)
(* queued call, or after an unstable call that it would be put before.     *)
(***************************************************************************)
MustQueue(n, c) ==
  \/ priorityQueue[n] # <<>> /\ IsAfter(c, Top(priorityQueue[n]))
  \/ \E i \in Unstable(n) :
       /\ FastIsReachableRemote(c, executionList[n][i])
       /\ IsAfter(c, executionList[n][i])

(* Receiving a call up to the release of the lock in queueHandler. *)
ReceiveCall(n, m) ==
  /\ receiver[n] = Idle
  /\ net[m][n] # <<>> /\ Head(net[m][n]).kind = "Call"
  /\ net' = [net EXCEPT ![m][n] = Tail(@)]
  /\ LET c == Head(net[m][n]).call IN
     IF MustQueue(n, c)
     THEN /\ priorityQueue' = [priorityQueue EXCEPT ![n] = Push(@, c)]
          /\ receiver' = [receiver EXCEPT ![n] = Drain]
     ELSE /\ receiver' = [receiver EXCEPT ![n] = Handling("insert", c, FALSE)]
          /\ UNCHANGED priorityQueue
  /\ UNCHANGED <<workload, mainVars, handlerVars, acks, unsent_acks>>

(* Mutants of InsertPosition: always the end; the stable part is searched too. *)
MutAppend(n, c) == Len(executionList[n]) + 1
MutInsertAnywhere(n, c) ==
  LET conflicts == {i \in DOMAIN executionList[n] : FastIsReachableRemote(c, executionList[n][i])}
  IN IF conflicts = {} THEN Len(executionList[n]) + 1
     ELSE CHOOSE i \in conflicts : \A k \in conflicts : i <= k

(* The first unstable position whose call c has to come before. *)
InsertPosition(n, c) ==
  LET conflicts == {i \in Unstable(n) : FastIsReachableRemote(c, executionList[n][i])}
  IN IF conflicts = {} THEN Len(executionList[n]) + 1
     ELSE CHOOSE i \in conflicts : \A k \in conflicts : i <= k

(* The second critical section of remoteHandler. *)
ExecuteRemote(n) ==
  /\ receiver[n].pc = "insert"
  /\ LET c == receiver[n].call IN
     /\ executionList' = [executionList EXCEPT ![n] = InsertAt(@, InsertPosition(n, c), c)]
     /\ vector_clock' = [vector_clock EXCEPT ![n][c.node_id] = @ + 1]
  /\ receiver' = [receiver EXCEPT ![n].pc = "ack"]
  /\ UNCHANGED <<workload, mainVars, stable_index, priorityQueue, acks, unsent_acks, net>>

(* The rest of remoteHandler, outside the lock, and the caller's pop. *)
RecordAck(n) ==
  /\ receiver[n].pc = "ack"
  /\ unsent_acks' = [unsent_acks EXCEPT ![n] = Append(@, IdOf(receiver[n].call))]
  /\ priorityQueue' = [priorityQueue EXCEPT
       ![n] = IF receiver[n].queued THEN Pop(@) ELSE @]
  /\ receiver' = [receiver EXCEPT ![n] = DrainOrIdle(priorityQueue'[n])]
  /\ UNCHANGED <<workload, mainVars, handlerVars, acks, net>>

(* One round of the loop that executes queued calls from the top. *)
DrainQueue(n) ==
  /\ receiver[n] = Drain
  /\ LET c == Top(priorityQueue[n]) IN
     receiver' = [receiver EXCEPT
       ![n] = IF MustQueue(n, c) THEN Idle ELSE Handling("insert", c, TRUE)]
  /\ UNCHANGED <<workload, mainVars, handlerVars, priorityQueue, acks, unsent_acks, net>>

(* Mutants of Quorum: the issuer's own calls are taken for remote ones; the *)
(* node that counts is counted.                                            *)
MutQuorumOfRemote(n, j) == N - 2
MutQuorumOfAll(n, j) == IF j = n THEN N ELSE N - 1

(***************************************************************************)
(* The acknowledgements node n has to see for a call: the ones of all      *)
(* nodes but itself and the node that issued the call.                     *)
(***************************************************************************)
Quorum(n, j) == IF j = n THEN N - 1 ELSE N - 2

Acked(n, a, i) ==
  LET c == executionList[n][i] IN a[c.node_id][c.call_id] >= Quorum(n, c.node_id)

(* Mutant of StableUpTo: the loop does not stop at the first call short of acks. *)
MutStabilizeAll(n, a) == Len(executionList[n])

(* How far stabilizerWithAck takes the stable prefix, given the counts a. *)
StableUpTo(n, a) ==
  CHOOSE i \in stable_index[n] .. Len(executionList[n]) :
    /\ \A k \in stable_index[n] + 1 .. i : Acked(n, a, k)
    /\ i < Len(executionList[n]) => ~Acked(n, a, i + 1)

(***************************************************************************)
(* updateAcksTable and stabilizerWithAck up to the release of the lock.    *)
(* When the condition of the main loop ends to hold, the main thread may   *)
(* or may not be past its test of it.                                      *)
(***************************************************************************)
ReceiveAck(n, m) ==
  /\ receiver[n] = Idle
  /\ net[m][n] # <<>> /\ Head(net[m][n]).kind = "Ack"
  /\ net' = [net EXCEPT ![m][n] = Tail(@)]
  /\ LET a == Head(net[m][n]).ack
         counts == [acks[n] EXCEPT ![a.node_id][a.call_id] = @ + 1]
         last == IF counts[a.node_id][a.call_id] >= Quorum(n, a.node_id)
                 THEN StableUpTo(n, counts) ELSE stable_index[n]
     IN /\ acks' = [acks EXCEPT ![n] = counts]
        /\ stable_index' = [stable_index EXCEPT ![n] = last]
        /\ receiver' = [receiver EXCEPT
             ![n] = IF last > stable_index[n] THEN DrainOrIdle(priorityQueue[n]) ELSE Idle]
        /\ \/ UNCHANGED turn
           \/ /\ Running(n) /\ last >= ExpectedCalls
              /\ turn' = [turn EXCEPT ![n] = "last"]
  /\ UNCHANGED <<workload, it, waiting, executionList, vector_clock, priorityQueue, unsent_acks>>

-----------------------------------------------------------------------------
Main(n) == SendAck(n) \/ NoAckToSend(n) \/ ExecuteLocal(n) \/ RefuseLocal(n)

Receive(n) == \E m \in Node \ {n} : ReceiveCall(n, m) \/ ReceiveAck(n, m)

Receiver(n) == Receive(n) \/ ExecuteRemote(n) \/ RecordAck(n) \/ DrainQueue(n)

Next == \E n \in Node : Main(n) \/ Receiver(n)

Spec == Init /\ [][Next]_vars

(***************************************************************************)
(* Both threads of every node keep running, and the receiver polls the     *)
(* connections in turn, so none of them is neglected for ever.             *)
(***************************************************************************)
Fairness ==
  \A n \in Node :
    /\ WF_vars(SendAck(n))
    /\ WF_vars(NoAckToSend(n))
    /\ WF_vars(ExecuteLocal(n) \/ RefuseLocal(n))
    /\ WF_vars(ExecuteRemote(n) \/ RecordAck(n) \/ DrainQueue(n))
    /\ \A m \in Node \ {n} : WF_vars(ReceiveCall(n, m) \/ ReceiveAck(n, m))

FairSpec == Spec /\ Fairness
=============================================================================
