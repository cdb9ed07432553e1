--------------------------- MODULE CrdtProperties ---------------------------
(* What the start-up and the message-passing CRDTs promise together. *)
EXTENDS Crdt, FiniteSetsExt

CrdtTypeOK ==
  /\ patient \in BOOLEAN
  /\ phase \in [Node -> Phases]
  /\ connecting \in [Node -> Node]
  /\ backlog \in [Node -> SUBSET Node]
  /\ socket \in [Node -> SUBSET Node]
  /\ toInit \in [Node -> SUBSET Node]
  /\ initcounter \in [Node -> 0..(N - 1)]
  /\ \A m, n \in Node : \A i \in DOMAIN net[m][n] : net[m][n][i].kind \in {"Init", "Call"}
  /\ it \in [Node -> 1..(MaxCalls + 1)]
  /\ waittobestable \in [Node -> 0..ExpectedCalls]

IsCall(c) == c.kind = "Call"

(* The updates that are still in the files, and those that were broadcast. *)
Unissued ==
  {u \in Updates : IF main[u[1]] = Loop THEN u[2] >= it[u[1]] ELSE u[2] > it[u[1]]}
Issued == Updates \ Unissued

(* The calls on their way to n: the positions they have on n's connections. *)
Incoming(n) ==
  UNION {{<<m, i>> : i \in {k \in DOMAIN net[m][n] : IsCall(net[m][n][k])}} : m \in Node}

(* The values of all updates that were broadcast, of those on their way to *)
(* n, and of n's own update that n has not applied yet.                    *)
IssuedValues == [u \in Issued |-> file(u[1])[u[2]].value1]
IncomingValues(n) == [c \in Incoming(n) |-> net[c[1]][n][c[2]].value1]
PendingValues(n) == [k \in {k \in {it[n]} : main[n] = Apply} |-> file(n)[k].value1]

(* Every update of every node is in the object of n. *)
Applied(n) == Unissued = {} /\ Incoming(n) = {} /\ main[n] # Apply

(***************************************************************************)
(* No update is lost or applied twice: what an object holds and what is on *)
(* its way to it are the updates that were issued.  Nodes that have seen   *)
(* all updates therefore hold the same counter or set.  The register is    *)
(* left out: no remote update ever gets into one (UpdatedRemotely).        *)
(***************************************************************************)
UpdatesAccountedFor ==
  \A n \in Node :
    /\ useCase = "counter" =>
         local[n] + remote[n] + SumFunction(IncomingValues(n)) + SumFunction(PendingValues(n))
           = SumFunction(IssuedValues)
    /\ useCase = "gset" =>
         local[n] \cup remote[n] \cup Range(IncomingValues(n)) \cup Range(PendingValues(n))
           = Range(IssuedValues)

(***************************************************************************)
(* A call finds the handler of its receiver after setVars, although calls  *)
(* and setVars are on different threads of different nodes.                *)
(***************************************************************************)
NoCallBeforeSetVars ==
  \A m, n \in Node : (\E i \in DOMAIN net[m][n] : IsCall(net[m][n][i])) => Ready(n)

(***************************************************************************)
(* A node that leaves the main loop has applied every update of every      *)
(* node.  The two threads may lose increments of waittobestable to each    *)
(* other, but never add one.                                               *)
(***************************************************************************)
FinishedMeansApplied ==
  \A n \in Node : phase[n] = "run" /\ ~Running(n) => Applied(n)

(***************************************************************************)
(* If the start-up is given enough time, every node gets past the barrier  *)
(* and all updates are applied everywhere - also where a lost increment    *)
(* keeps a node in its main loop for ever.                                 *)
(***************************************************************************)
UpdatesArrive == patient ~> \A n \in Node : phase[n] = "run" /\ Applied(n)
=============================================================================
