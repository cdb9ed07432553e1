-------------------------- MODULE UniformStability --------------------------
(***************************************************************************)
(* What stabilization promises to a client of a replicated object: every   *)
(* node keeps a log of stable calls that is only ever appended to, and a   *)
(* call enters a log once every node has executed it.  How the nodes find  *)
(* out - counts of acknowledgements in protocol-hamsou.cpp - is left out.  *)
(* In which order calls enter the logs is not promised here; see           *)
(* StableOrderAgreement in HamsouProperties.                               *)
(***************************************************************************)
EXTENDS Naturals, Sequences, SequencesExt

CONSTANTS
  Node,
  CallId   \* the calls: records that name the issuing node in node_id

VARIABLES
  executed,   \* executed[n]: the calls node n has executed
  log         \* log[n]: the calls that are stable at n, in their final order

vars == <<executed, log>>

Init ==
  /\ executed = [n \in Node |-> {}]
  /\ log = [n \in Node |-> <<>>]

(* A node executes a call of its own, or one of another node. *)
Execute(n) ==
  /\ UNCHANGED log
  /\ \E c \in CallId \ executed[n] :
       /\ c.node_id # n => c \in executed[c.node_id]
       /\ executed' = [executed EXCEPT ![n] = @ \cup {c}]

ExecutedEverywhere == {c \in CallId : \A n \in Node : c \in executed[n]}

(* Any number of calls become final at a node, in some order. *)
Stabilize(n) ==
  /\ UNCHANGED executed
  /\ \E s \in SetToAllKPermutations(ExecutedEverywhere \ Range(log[n])) :
       log' = [log EXCEPT ![n] = @ \o s]

Next == \E n \in Node : Execute(n) \/ Stabilize(n)

Spec == Init /\ [][Next]_vars
=============================================================================
