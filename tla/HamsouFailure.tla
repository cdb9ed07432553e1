---------------------------- MODULE HamsouFailure ----------------------------
(***************************************************************************)
(* Module Hamsou with nodes that are shut down by a signal, and the        *)
(* survivors' markNodeFailed.                                              *)
(*                                                                         *)
(* The signal handler of main-replication-protocols.cpp interrupts the     *)
(* main thread, possibly in the middle of a broadcast, sends "shutdown" on *)
(* every connection and ends the process.  A survivor runs markNodeFailed  *)
(* in its receiver thread when it reads that message, so nothing else is   *)
(* received until it is done; its main thread goes on.  The calls of       *)
(* markNodeFailed by the monitor thread, for sockets that die without a    *)
(* message, are left out.                                                  *)
(***************************************************************************)
EXTENDS HamsouProperties

CONSTANT MaxCrashes   \* a bound for model checking

VARIABLES
  crashed,       \* the nodes that have been shut down
  node_failed,   \* node_failed[n]: the nodes that n takes for dead
  marking        \* marking[n]: what markNodeFailed has left to do at n

failureVars == <<crashed, node_failed, marking>>
allVars == <<vars, failureVars>>

Live == Node \ crashed

Shutdown == [kind |-> "Shutdown"]

-----------------------------------------------------------------------------
FInit ==
  /\ Init
  /\ crashed = {}
  /\ node_failed = [n \in Node |-> {}]
  /\ marking = [n \in Node |-> "no"]

(***************************************************************************)
(* What the main thread of d may be broadcasting when the signal arrives,  *)
(* if it is broadcasting.                                                  *)
(***************************************************************************)
Underway(d) ==
  (IF unsent_acks[d] # <<>> /\ (Running(d) \/ turn[d] = "last")
   THEN {AckMessage(Head(unsent_acks[d]))} ELSE {})
  \cup (IF AtCall(d) /\ ~BlockedLocally(d, NextCall(d)) /\ marking[d] # "draining"
        THEN {CallMessage(NextCall(d))} ELSE {})

(* shutdownHandler: what is underway has reached some of the others. *)
Crash(d) ==
  /\ d \in Live /\ Cardinality(crashed) < MaxCrashes
  /\ crashed' = crashed \cup {d}
  /\ \E last \in {<<>>} \cup {<<m>> : m \in Underway(d)}, reached \in SUBSET (Node \ {d}) :
       /\ last = <<>> => reached = {}
       /\ net' = [net EXCEPT ![d] = [r \in Node |->
            IF r = d \/ r \in node_failed[d] THEN @[r]
            ELSE (IF r \in reached THEN @[r] \o last ELSE @[r]) \o <<Shutdown>>]]
  /\ UNCHANGED <<workload, mainVars, handlerVars, receiverVars, unsent_acks, node_failed, marking>>

-----------------------------------------------------------------------------
(* Mutant of FQuorum: the failed nodes are not subtracted. *)
MutFQuorum(n, j) == Quorum(n, j)

(* updateAcksTable and stabilizerWithAck subtract the failed nodes. *)
FQuorum(n, j) == Quorum(n, j) - Cardinality(node_failed[n])

FAcked(n, a, i) ==
  LET c == executionList[n][i] IN a[c.node_id][c.call_id] >= FQuorum(n, c.node_id)

FStableUpTo(n, a) ==
  CHOOSE i \in stable_index[n] .. Len(executionList[n]) :
    /\ \A k \in stable_index[n] + 1 .. i : FAcked(n, a, k)
    /\ i < Len(executionList[n]) => ~FAcked(n, a, i + 1)

(* Mutant of StabilizeTo: the index of the next call is stored. *)
MutStabilizeTo(n, last) ==
  /\ stable_index' = [stable_index EXCEPT ![n] = last + 1]
  /\ receiver' = [receiver EXCEPT
       ![n] = IF last > stable_index[n] THEN DrainOrIdle(priorityQueue[n]) ELSE Idle]
  /\ UNCHANGED turn

(* The critical section of stabilizerWithAck; see ReceiveAck of Hamsou. *)
StabilizeTo(n, last) ==
  /\ stable_index' = [stable_index EXCEPT ![n] = last]
  /\ receiver' = [receiver EXCEPT
       ![n] = IF last > stable_index[n] THEN DrainOrIdle(priorityQueue[n]) ELSE Idle]
  /\ \/ UNCHANGED turn
     \/ /\ Running(n) /\ last >= ExpectedCalls
        /\ turn' = [turn EXCEPT ![n] = "last"]

FReceiveAck(n, m) ==
  /\ receiver[n] = Idle /\ marking[n] = "no"
  /\ net[m][n] # <<>> /\ Head(net[m][n]).kind = "Ack"
  /\ net' = [net EXCEPT ![m][n] = Tail(@)]
  /\ LET a == Head(net[m][n]).ack
         counts == [acks[n] EXCEPT ![a.node_id][a.call_id] = @ + 1]
     IN /\ acks' = [acks EXCEPT ![n] = counts]
        /\ StabilizeTo(n, IF counts[a.node_id][a.call_id] >= FQuorum(n, a.node_id)
                          THEN FStableUpTo(n, counts) ELSE stable_index[n])
  /\ UNCHANGED <<workload, it, waiting, executionList, vector_clock, priorityQueue,
                 unsent_acks, failureVars>>

-----------------------------------------------------------------------------
(* Mutant of Survives: the origin of the call is not compared. *)
MutSurvives(n, d, i) ==
  \/ i <= stable_index[n]
  \/ acks[n][executionList[n][i].node_id][executionList[n][i].call_id] > 0

(* remove_if in markNodeFailed leaves the call at position i in the list. *)
Survives(n, d, i) ==
  \/ i <= stable_index[n]
  \/ executionList[n][i].node_id = d => acks[n][d][executionList[n][i].call_id] > 0

(* The elements of list at the positions in kept, in their order. *)
Only(list, kept) ==
  [k \in 1..Cardinality(kept) |->
     list[CHOOSE i \in kept : Cardinality({x \in kept : x <= i}) = k]]

(***************************************************************************)
(* markNodeFailed up to the first stabilization: d is marked, its unstable *)
(* calls that nobody has acknowledged are dropped.                         *)
(***************************************************************************)
ReceiveShutdown(n, d) ==
  /\ receiver[n] = Idle /\ marking[n] = "no"
  /\ net[d][n] # <<>> /\ Head(net[d][n]) = Shutdown
  /\ net' = [net EXCEPT ![d][n] = Tail(@)]
  /\ node_failed' = [node_failed EXCEPT ![n] = @ \cup {d}]
  /\ executionList' = [executionList EXCEPT
       ![n] = Only(@, {i \in DOMAIN @ : Survives(n, d, i)})]
  /\ marking' = [marking EXCEPT ![n] = "stabilize"]
  /\ UNCHANGED <<workload, mainVars, stable_index, vector_clock, receiverVars, unsent_acks, crashed>>

(* The two stabilizations of markNodeFailed; each may be followed by a drain. *)
StabilizeAfterFailure(n) ==
  /\ receiver[n] = Idle /\ marking[n] \in {"stabilize", "stabilize again"}
  /\ StabilizeTo(n, FStableUpTo(n, acks[n]))
  /\ marking' = [marking EXCEPT ![n] = IF @ = "stabilize" THEN "drain" ELSE "no"]
  /\ UNCHANGED <<workload, it, waiting, executionList, vector_clock, priorityQueue, acks,
                 unsent_acks, net, crashed, node_failed>>

(* Mutant of ForceTop: the call is executed and not acknowledged. *)
MutForceTop(n) ==
  /\ receiver[n] = Idle /\ marking[n] \in {"drain", "draining"} /\ priorityQueue[n] # <<>>
  /\ LET c == Top(priorityQueue[n]) IN
     /\ executionList' = [executionList EXCEPT ![n] = InsertAt(@, InsertPosition(n, c), c)]
     /\ vector_clock' = [vector_clock EXCEPT ![n][c.node_id] = @ + 1]
  /\ priorityQueue' = [priorityQueue EXCEPT ![n] = Pop(@)]
  /\ marking' = [marking EXCEPT ![n] = "draining"]
  /\ UNCHANGED <<workload, mainVars, stable_index, acks, receiver, unsent_acks, net,
                 crashed, node_failed>>

(***************************************************************************)
(* One round of the forced drain: the call on top of the queue is executed *)
(* without a look at its predecessors, and its acknowledgement is          *)
(* recorded.  The lock is held until the queue is empty, but the main      *)
(* thread sends acknowledgements without it.                               *)
(***************************************************************************)
ForceTop(n) ==
  /\ receiver[n] = Idle /\ marking[n] \in {"drain", "draining"} /\ priorityQueue[n] # <<>>
  /\ LET c == Top(priorityQueue[n]) IN
     /\ executionList' = [executionList EXCEPT ![n] = InsertAt(@, InsertPosition(n, c), c)]
     /\ vector_clock' = [vector_clock EXCEPT ![n][c.node_id] = @ + 1]
     /\ unsent_acks' = [unsent_acks EXCEPT ![n] = Append(@, IdOf(c))]
  /\ priorityQueue' = [priorityQueue EXCEPT ![n] = Pop(@)]
  /\ marking' = [marking EXCEPT ![n] = "draining"]
  /\ UNCHANGED <<workload, mainVars, stable_index, acks, receiver, net, crashed, node_failed>>

EndForcedDrain(n) ==
  /\ receiver[n] = Idle /\ marking[n] \in {"drain", "draining"} /\ priorityQueue[n] = <<>>
  /\ marking' = [marking EXCEPT ![n] = "stabilize again"]
  /\ UNCHANGED <<vars, crashed, node_failed>>

-----------------------------------------------------------------------------
(* localHandler cannot have the lock during the forced drain. *)
FMain(n) ==
  /\ \/ SendAck(n) \/ NoAckToSend(n)
     \/ marking[n] # "draining" /\ (ExecuteLocal(n) \/ RefuseLocal(n))
  /\ UNCHANGED failureVars

FReceiveCall(n, m) ==
  marking[n] = "no" /\ ReceiveCall(n, m) /\ UNCHANGED failureVars

FExecute(n) ==
  (ExecuteRemote(n) \/ RecordAck(n) \/ DrainQueue(n)) /\ UNCHANGED failureVars

FReceive(n, m) == FReceiveCall(n, m) \/ FReceiveAck(n, m) \/ ReceiveShutdown(n, m)

MarkFailed(n) == StabilizeAfterFailure(n) \/ ForceTop(n) \/ EndForcedDrain(n)

(* What a node that has not been shut down does. *)
FStep(n) ==
  \/ FMain(n)
  \/ FExecute(n)
  \/ \E m \in Node \ {n} : FReceive(n, m)
  \/ MarkFailed(n)

FNext == \E n \in Node : Crash(n) \/ (n \in Live /\ FStep(n))

FSpec == FInit /\ [][FNext]_allVars

-----------------------------------------------------------------------------
(* Type correctness with crashes; a stream may hold the shutdown message. *)
FTypeOK ==
  /\ crashed \subseteq Node
  /\ node_failed \in [Node -> SUBSET Node]
  /\ marking \in [Node -> {"no", "stabilize", "drain", "draining", "stabilize again"}]
  /\ executionList \in [Node -> Seq(Call)]
  /\ \A n \in Node : stable_index[n] \in 0..Len(executionList[n])
  /\ vector_clock \in [Node -> Clock]
  /\ priorityQueue \in [Node -> Seq(Call)]
  /\ unsent_acks \in [Node -> Seq(CallId)]
  /\ net \in [Node -> [Node -> Seq(Message \cup {Shutdown})]]

(***************************************************************************)
(* A failure costs no survivor a call of another survivor: at every live   *)
(* node it is in exactly one of the channel, the receiver's hands, the     *)
(* queue and the list, whatever the erasure and the forced drain did.      *)
(***************************************************************************)
LiveCallsOnce ==
  \A n \in Live : \A c \in {d \in Issued : d.node_id \in Live} :
    LET held == IF receiver[n].pc = "insert" /\ receiver[n].call = c
                   /\ ~receiver[n].queued THEN 1 ELSE 0
        beingPopped == IF receiver[n].pc = "ack" /\ receiver[n].queued
                          /\ receiver[n].call = c THEN 1 ELSE 0
    IN Occurrences(executionList[n], c) + Occurrences(priorityQueue[n], c) + held
         + Occurrences(net[c.node_id][n], CallMessage(c)) = 1 + beingPopped

(***************************************************************************)
(* No survivor depends on the dead: for an unstable call of a live node,   *)
(* the acknowledgements counted here and those that live nodes still owe   *)
(* reach the threshold that holds once all the dead are marked.            *)
(***************************************************************************)
NoWaitForTheDead ==
  \A n \in Live : \A c \in {executionList[n][i] : i \in Unstable(n)} :
    LET owing == {m \in Live \ {n, c.node_id} :
          \/ c \notin Executed(m)
          \/ receiver[m].pc = "ack" /\ receiver[m].call = c
          \/ IdOf(c) \in Range(unsent_acks[m])
          \/ AckMessage(IdOf(c)) \in Range(net[m][n])}
        toMark == Cardinality(crashed \ node_failed[n])
    IN c.node_id \in Live =>
         acks[n][c.node_id][c.call_id] + Cardinality(owing) >= FQuorum(n, c.node_id) - toMark

(***************************************************************************)
(* A call that markNodeFailed drops has been executed by no other live     *)
(* node ("zero acks = nobody else has it").                                *)
(***************************************************************************)
DroppedNowhereElse ==
  [][\A n \in Live : \A c \in Executed(n) :
       c \notin Executed(n)' => \A m \in Live \ {n} : c \notin Executed(m)]_allVars
=============================================================================
