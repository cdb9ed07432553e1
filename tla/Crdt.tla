-------------------------------- MODULE Crdt --------------------------------
(***************************************************************************)
(* The build CRDT_MESSAGE_PASSING: nodes that have started (module         *)
(* Startup) broadcast the updates of their workload files and apply them   *)
(* to a counter, a grow-only set or a register (crdt-counter.hpp,          *)
(* crdt-gset.hpp, crdt-reg.hpp).  An object has a part for local and a     *)
(* part for remote updates, so the two threads of a node meet only in      *)
(* waittobestable, which each of them loads and then stores.               *)
(***************************************************************************)
EXTENDS Startup, SequencesExt, FiniteSets

CONSTANTS
  Workloads,   \* the use cases and workload files considered
  MaxCalls     \* a bound on the length of a workload file

UseCase == {"counter", "gset", "reg"}
FileCall == [type : {"Update"}, value1 : Int] \cup [type : {"Read"}]

ASSUME WorkloadsAssumption ==
  \A w \in Workloads :
    /\ w.useCase \in UseCase
    /\ w.files \in [Node -> Seq(FileCall)]
    /\ \A n \in Node : Len(w.files[n]) <= MaxCalls
ASSUME MaxCallsAssumption == MaxCalls \in Nat

VARIABLES
  workload,        \* the use case and the files (constant)
  it,              \* it[n]: position of the main thread in its file
  main,            \* main[n]: "loop", "apply" after a broadcast, or what the
                   \*   main thread loaded from waittobestable
  receiver,        \* receiver[n]: "poll", or what the receiver thread loaded
  waittobestable,
  local, remote    \* the two parts of n's object

crdtVars == <<workload, it, main, receiver, waittobestable, local, remote>>
allVars == <<vars, crdtVars>>

useCase == workload.useCase
file(n) == workload.files[n]

Loaded(v) == [loaded |-> v]
Poll == [pc |-> "poll"]
Loop == [pc |-> "loop"]
Apply == [pc |-> "apply"]

InitialPart ==
  CASE useCase = "counter" -> 0
    [] useCase = "gset"    -> {}
    [] useCase = "reg"     -> [value |-> 0, timestamp |-> 0]

CrdtInit ==
  /\ StartInit
  /\ workload \in Workloads
  /\ it = [n \in Node |-> 1]
  /\ main = [n \in Node |-> Loop]
  /\ receiver = [n \in Node |-> Poll]
  /\ waittobestable = [n \in Node |-> 0]
  /\ local = [n \in Node |-> InitialPart]
  /\ remote = [n \in Node |-> InitialPart]

(* The updates of all files, as pairs of a node and a position in its file. *)
Updates ==
  {u \in Node \X (1..MaxCalls) :
     u[2] <= Len(file(u[1])) /\ file(u[1])[u[2]].type = "Update"}

(* The number in the first line of every workload file. *)
ExpectedCalls == Cardinality(Updates)

Running(n) == phase[n] = "run" /\ waittobestable[n] < ExpectedCalls

AtCall(n, type) ==
  /\ Running(n) /\ main[n] = Loop
  /\ it[n] <= Len(file(n)) /\ file(n)[it[n]].type = type

-----------------------------------------------------------------------------
(* The main thread.                                                        *)

(* The call as it is broadcast: value2 is its timestamp, which is not set yet. *)
CallMessage(c) == [kind |-> "Call", value1 |-> c.value1, value2 |-> 0]

BroadcastUpdate(n) ==
  /\ AtCall(n, "Update")
  /\ net' = [net EXCEPT ![n] = [m \in Node |->
       IF m \in socket[n] THEN Append(@[m], CallMessage(file(n)[it[n]])) ELSE @[m]]]
  /\ main' = [main EXCEPT ![n] = Apply]
  /\ UNCHANGED <<startVars, workload, it, receiver, waittobestable, local, remote>>

(* updateLocal. *)
Updated(part, v) ==
  CASE useCase = "counter" -> part + v
    [] useCase = "gset"    -> part \cup {v}
    [] useCase = "reg"     -> [value |-> v, timestamp |-> part.timestamp + 1]

UpdateLocal(n) ==
  /\ main[n] = Apply
  /\ local' = [local EXCEPT ![n] = Updated(@, file(n)[it[n]].value1)]
  /\ main' = [main EXCEPT ![n] = Loaded(waittobestable[n])]
  /\ UNCHANGED <<vars, workload, it, receiver, waittobestable, remote>>

StoreLocal(n) ==
  /\ main[n] \notin {Loop, Apply}
  /\ waittobestable' = [waittobestable EXCEPT ![n] = main[n].loaded + 1]
  /\ main' = [main EXCEPT ![n] = Loop]
  /\ it' = [it EXCEPT ![n] = @ + 1]
  /\ UNCHANGED <<vars, workload, receiver, local, remote>>

(* A Read moves the local value of a register over if it is newer. *)
ReadLocal(n) ==
  /\ AtCall(n, "Read")
  /\ remote' = [remote EXCEPT ![n] =
       IF useCase = "reg" /\ local[n].timestamp > @.timestamp THEN local[n] ELSE @]
  /\ it' = [it EXCEPT ![n] = @ + 1]
  /\ UNCHANGED <<vars, workload, main, receiver, waittobestable, local>>

-----------------------------------------------------------------------------
(* The receiver thread.                                                    *)

(* Mutant of UpdatedRemotely: an update replaces what was there. *)
MutUpdatedRemotely(part, c) ==
  CASE useCase = "counter" -> c.value1
    [] useCase = "gset"    -> {c.value1}
    [] useCase = "reg"     -> [value |-> c.value1, timestamp |-> c.value2]

(***************************************************************************)
(* updateRemote.  A call brings the timestamp 0 (CallMessage), so the      *)
(* register of this code never takes over a remote value.                  *)
(***************************************************************************)
UpdatedRemotely(part, c) ==
  CASE useCase = "counter" -> part + c.value1
    [] useCase = "gset"    -> part \cup {c.value1}
    [] useCase = "reg"     ->
         IF part.timestamp < c.value2
         THEN [value |-> c.value1, timestamp |-> c.value2] ELSE part

ReceiveUpdate(n, m) ==
  /\ receiver[n] = Poll /\ Started(n) /\ m \in socket[n]
  /\ net[m][n] # <<>> /\ Head(net[m][n]).kind = "Call"
  /\ net' = [net EXCEPT ![m][n] = Tail(@)]
  /\ remote' = [remote EXCEPT ![n] = UpdatedRemotely(@, Head(net[m][n]))]
  /\ receiver' = [receiver EXCEPT ![n] = Loaded(waittobestable[n])]
  /\ UNCHANGED <<startVars, workload, it, main, waittobestable, local>>

(* Mutant of StoreRemote: a call is counted twice. *)
MutStoreRemote(n) ==
  /\ receiver[n] # Poll
  /\ waittobestable' = [waittobestable EXCEPT ![n] = receiver[n].loaded + 2]
  /\ receiver' = [receiver EXCEPT ![n] = Poll]
  /\ UNCHANGED <<vars, workload, it, main, local, remote>>

StoreRemote(n) ==
  /\ receiver[n] # Poll
  /\ waittobestable' = [waittobestable EXCEPT ![n] = receiver[n].loaded + 1]
  /\ receiver' = [receiver EXCEPT ![n] = Poll]
  /\ UNCHANGED <<vars, workload, it, main, local, remote>>

(* The steps of module Startup; the receiver thread takes them in turn too. *)
Starting ==
  /\ StartNext
  /\ \A n \in Node : initcounter'[n] # initcounter[n] => receiver[n] = Poll
  /\ UNCHANGED crdtVars

Main(n) == BroadcastUpdate(n) \/ UpdateLocal(n) \/ StoreLocal(n) \/ ReadLocal(n)

CrdtNext ==
  \/ Starting
  \/ \E n \in Node : Main(n) \/ StoreRemote(n) \/ \E m \in Peers(n) : ReceiveUpdate(n, m)

CrdtFairness ==
  /\ StartFairness
  /\ \A n \in Node :
       /\ WF_allVars(Main(n)) /\ WF_allVars(StoreRemote(n))
       /\ \A m \in Peers(n) : WF_allVars(ReceiveUpdate(n, m))

CrdtSpec == CrdtInit /\ [][CrdtNext]_allVars /\ CrdtFairness
=============================================================================
