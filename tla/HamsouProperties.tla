-------------------------- MODULE HamsouProperties --------------------------
(***************************************************************************)
(* What the failure-free protocol of module Hamsou has to guarantee.       *)
(***************************************************************************)
EXTENDS Hamsou

(* Type correctness of every variable of the handler and the two threads. *)
TypeOK ==
  /\ workload \in Workloads
  /\ it \in [Node -> Nat \ {0}]
  /\ turn \in [Node -> {"ack", "call", "last"}]
  /\ waiting \in [Node -> Int]
  /\ executionList \in [Node -> Seq(Call)]
  /\ stable_index \in [Node -> Nat]
  /\ vector_clock \in [Node -> Clock]
  /\ priorityQueue \in [Node -> Seq(Call)]
  /\ acks \in [Node -> [Node -> [1..MaxCallId -> Nat]]]
  /\ unsent_acks \in [Node -> Seq(CallId)]
  /\ receiver \in [Node -> {Idle, Drain} \cup
                           [pc : {"insert", "ack"}, call : Call, queued : BOOLEAN]]
  /\ net \in [Node -> [Node -> Seq(Message)]]

-----------------------------------------------------------------------------
Executed(n) == Range(executionList[n])
Stable(n) == Range(StablePrefix(n))

(***************************************************************************)
(* A call that is stable at some node has been executed by every node.     *)
(* This is what the acknowledgement counts of updateAcksTable stand for;   *)
(* the handler never sees another node's list.                             *)
(***************************************************************************)
StableExecutedEverywhere ==
  \A n, m \in Node : Stable(n) \subseteq Executed(m)

(* The index of a call in a list. *)
Position(list, c) == CHOOSE i \in DOMAIN list : list[i] = c

Conflict(c, d) == FastIsReachableRemote(c, d) \/ FastIsReachableRemote(d, c)

(***************************************************************************)
(* Two conflicting calls that are stable at two nodes are stable in the    *)
(* same order: the replicas agree on what the stable state is made of.     *)
(***************************************************************************)
StableOrderAgreement ==
  \A n, m \in Node :
    \A c, d \in Stable(n) \cap Stable(m) :
      Conflict(c, d) =>
        (Position(executionList[n], c) < Position(executionList[n], d)
           <=> Position(executionList[m], c) < Position(executionList[m], d))

(***************************************************************************)
(* A call that was issued at a node that had executed a conflicting call   *)
(* is never stable before that call, at any node.                          *)
(***************************************************************************)
StableRespectsCausality ==
  \A n \in Node : \A i, k \in 1..stable_index[n] :
    /\ i < k
    /\ Conflict(executionList[n][i], executionList[n][k])
    => ~IsAfter(executionList[n][i], executionList[n][k])

Issued == UNION {{c \in Executed(n) : c.node_id = n} : n \in Node}

Occurrences(seq, c) == Cardinality({i \in DOMAIN seq : seq[i] = c})

(***************************************************************************)
(* No call is lost or executed twice: at a node other than its origin it   *)
(* is in exactly one of the channel, the receiver's hands, the queue and   *)
(* the list, and there once.                                               *)
(***************************************************************************)
ExactlyOnce ==
  \A n \in Node : \A c \in Issued :
    LET held == IF receiver[n].pc = "insert" /\ receiver[n].call = c
                   /\ ~receiver[n].queued THEN 1 ELSE 0
        beingPopped == IF receiver[n].pc = "ack" /\ receiver[n].queued
                          /\ receiver[n].call = c THEN 1 ELSE 0
    IN Occurrences(executionList[n], c) + Occurrences(priorityQueue[n], c) + held
         + Occurrences(net[c.node_id][n], CallMessage(c)) = 1 + beingPopped

(***************************************************************************)
(* Every acknowledgement is accounted for: what node n counted for a call  *)
(* plus what is on its way to n are the nodes that executed the call and   *)
(* recorded it (RecordAck), and none of them is counted twice.             *)
(***************************************************************************)
AcksAccountedFor ==
  \A n \in Node : \A c \in Issued :
    LET others == Node \ {n, c.node_id}
        recorded == {m \in others :
          /\ c \in Executed(m)
          /\ ~(receiver[m].pc = "ack" /\ receiver[m].call = c)}
        underway == {m \in others :
          \/ IdOf(c) \in Range(unsent_acks[m])
          \/ AckMessage(IdOf(c)) \in Range(net[m][n])}
    IN /\ underway \subseteq recorded
       /\ acks[n][c.node_id][c.call_id] = Cardinality(recorded \ underway)

(***************************************************************************)
(* A refused call is never forgotten: while the main thread waits without  *)
(* the stable index having moved, an unstable conflicting call is still    *)
(* there for the receiver to stabilize.                                    *)
(***************************************************************************)
NoLostWakeup ==
  \A n \in Node :
    waiting[n] # -1 /\ waiting[n] = stable_index[n]
      => HasCall(n) /\ BlockedLocally(n, NextCall(n))

(***************************************************************************)
(* When the receiver is idle, the call on top of the queue still has to    *)
(* wait: every event that could let it go is followed by a drain.          *)
(***************************************************************************)
QueueNotForgotten ==
  \A n \in Node :
    receiver[n] = Idle /\ priorityQueue[n] # <<>> => MustQueue(n, Top(priorityQueue[n]))

(* The stable part of a list is never reordered, cut or inserted into. *)
StablePrefixOnlyGrows ==
  [][\A n \in Node : IsPrefix(StablePrefix(n), StablePrefix(n)')]_vars

(***************************************************************************)
(* No node has counted an acknowledgement of a call it has not executed.   *)
(* Nothing in the code orders the two: the acknowledgement and the call    *)
(* come over different connections.                                        *)
(***************************************************************************)
NoEarlyAck ==
  \A n, j \in Node : \A k \in 1..MaxCallId :
    acks[n][j][k] > 0 => \E c \in Executed(n) : c.node_id = j /\ c.call_id = k

(***************************************************************************)
(* The lists and the stable index are an implementation of stabilization:  *)
(* whatever the acknowledgements do, a call that is put into the stable    *)
(* prefix has been executed by every node, and the prefix is final.        *)
(***************************************************************************)
Stability == INSTANCE UniformStability WITH
  executed <- [n \in Node |-> {IdOf(c) : c \in Executed(n)}],
  log <- [n \in Node |-> [i \in 1..stable_index[n] |-> IdOf(executionList[n][i])]]

ImplementsStability == Stability!Spec

-----------------------------------------------------------------------------
(* Every refused call is executed in the end, once its blockers are stable. *)
RefusedCallProceeds ==
  \A n \in Node : waiting[n] # -1 ~> waiting[n] = -1

(* Every queued call is executed in the end. *)
QueueDrains == \A n \in Node : priorityQueue[n] # <<>> ~> priorityQueue[n] = <<>>

(* All calls of the workload become stable at some node in the end. *)
SomeNodeFinishes == <>(\E n \in Node : ~Running(n))
=============================================================================
