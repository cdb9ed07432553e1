--------------------------- MODULE EcrosProperties ---------------------------
(* What the ECROS protocol keeps, and what it only says it does. *)
EXTENDS Ecros

EcrosTypeOK ==
  /\ workload \in Workloads
  /\ it \in [Node -> 1..(MaxCallId + 1)]
  /\ turn \in [Node -> {"ack", "call", "run", "last"}]
  /\ vc \in [Node -> Clock]
  /\ calls \in [Node -> SUBSET Call]
  /\ edges \in [Node -> SUBSET (Call \X Call)]
  /\ ackCounts \in [Node -> [CallId -> Nat]]
  /\ committed \in [Node -> Seq(CallId)]
  /\ \A n \in Node : DOMAIN object[n] = DOMAIN InitialObject(useCase, InitialRows)
  /\ applied \in [Node -> SUBSET CallId]
  /\ unsent_acks \in [Node -> Seq(CallId)]
  /\ \A m, n \in Node : \A i \in DOMAIN net[m][n] :
       \/ net[m][n][i].kind = "Call" /\ net[m][n][i].call \in Call
       \/ net[m][n][i].kind = "Ack" /\ net[m][n][i].ack \in CallId

(* The calls n has been through; a call of its own may have been skipped. *)
Handled(n) ==
  [node_id : {n}, call_id : 1..(it[n] - 1)] \cup IdsOf(calls[n]) \cup Range(committed[n])

(* The calls its issuer has skipped. *)
Skipped(n) ==
  {a \in Handled(n) : a.node_id = n /\ a \notin IdsOf(calls[n]) \cup Range(committed[n])}

(***************************************************************************)
(* Commitment is an implementation of stabilization: by the time a node    *)
(* commits a call, which deletes it from the graph, every node has it.     *)
(***************************************************************************)
Stability == INSTANCE UniformStability WITH executed <- [n \in Node |-> Handled(n)], log <- committed

ImplementsStability == Stability!Spec

(***************************************************************************)
(* Whatever the order in which two calls reached two nodes, the edges      *)
(* between them are the same at both, as long as both are in the graphs.   *)
(***************************************************************************)
GraphsAgree ==
  \A m, n \in Node : \A c, d \in calls[m] \cap calls[n] :
    <<c, d>> \in edges[m] <=> <<c, d>> \in edges[n]

(* The calls of the workload, from a set of ids. *)
OpsOf(A) == {[op |-> file[a.node_id][a.call_id]] : a \in A}

Commute(C) == \A c, d \in C : seqCommutative(useCase, c, d)

(***************************************************************************)
(* Nodes that have been through the same calls have the same object when   *)
(* every two of the calls commute.  (Not for the stack: a local Push or    *)
(* Pop is done twice there.  And not for a DeleteCustomer, which its       *)
(* issuer does not do when it has no movies, although the others do it.)   *)
(***************************************************************************)
CommutingCallsConverge ==
  useCase # "stack" =>
    \A m, n \in Node :
      /\ Handled(m) = Handled(n)
      /\ Commute(OpsOf(Handled(m)))
      /\ \A a \in Handled(m) : a \notin Skipped(a.node_id)
      /\ \A o \in OpsOf(Handled(m)) : o.op.type # "DeleteCustomer"
      => object[m] = object[n]

(***************************************************************************)
(* A call that an issuer has executed is committed there in the end, or    *)
(* some node has committed all calls and left the loop that sends          *)
(* acknowledgements.                                                       *)
(***************************************************************************)
OwnCallsCommit ==
  \A n \in Node : \A k \in 1..MaxCallId :
    LET a == [node_id |-> n, call_id |-> k] IN
    a \in IdsOf(calls[n]) ~> a \in Range(committed[n]) \/ \E m \in Node : ~Running(m)

(***************************************************************************)
(* A remote call is executed by a replay of all calls in flight: every one *)
(* of them, the new one included, has had its effect on the object.        *)
(***************************************************************************)
AllReplayed ==
  \A n \in Node : \A c \in calls[n] : c.node_id # n => IdOf(c) \in applied[n]
=============================================================================
