# Verification of the optimistic replication protocol

This directory holds TLA+ models of the replication middleware in this
repository, the TLC configurations that check them on small instances, and
TLAPS proofs of what holds for every instance. The main subject is the protocol
that the build calls `OPTIMISTIC_REPLICATION` (`protocol-hamsou.cpp`, below
"hamsou"): every node executes its own calls at once, orders calls it receives
before conflicting calls it has already executed where the use case asks for
it, and declares a prefix of its list *stable* when enough acknowledgements
have been counted. Its handling of nodes that are shut down, the start-up of a
cluster, and the two protocols that share the main program with it, ECROS and
message-passing CRDTs, are modelled as well.

All source paths below are relative to `src/`.

## 1. Inventory of the system

| Part | Source | State it keeps | Operations |
|---|---|---|---|
| Handler (hamsou) | `protocol-hamsou.cpp` | `executionList`, `obj.stable_state.index`, `obj.waittobestable`, `vector_clock`, `acks`, `priorityQueue`, `send_ack_call_list`, `ack_index`, `node_failed` | `localHandler`, `remoteHandler`, `queueHandler`, `internalDownstreamExecute`, `updateAcksTable`, `stabilizerWithAck`, `markNodeFailed`, `countFailed`, serialization |
| Main thread | `tcp/main-replication-protocols.cpp` | position in the workload, wait flag and the stable index it waits on, rate limiter | start-up, init barrier, a main loop per protocol, shutdown handler, monitor thread |
| Communication layer | `tcp/ServersCommunicationLayer.cpp` | one connection per peer | `connectAll`, the accepting thread, `broadcast`, `run`, `handleAllReceives` |
| Connection | `tcp/ServerConnection.cpp` | socket, queue of received buffers | `send`, `receive`, `reconnect`, dispatch of init, shutdown, call and acknowledgement |
| Use cases | `wellcoordination/benchmark/{set,ycsb,stack,courseware,project,movie,complex-courseware}.hpp` | current and stable state | `fastisreachablelocal`, `fastisreachableremote`, `compareVectorClocks`, `updateCurrentState`, `updateStableState`, `readBenchFile` |
| ECROS protocol | `protocol-ecros.cpp` | graph of the calls that are not committed with "hb" and "co" edges, vector clock, `ackCounts`, acknowledgement list | `exeLocal`, `exeRemote`, `fullTopoSort`, `detectAndResolveCycles`, `handleAckAndMaybeStabilize`, `commitStableCalls` |
| ECROS use cases | `benchmark/ecros-*.hpp` | one state, the set `applied`, `waittobestable` | `seqCommutative`, `resolution`, `shouldSkip`, `applyCall`, `recomputeState` |
| CRDT message passing | `protocol0-crdt-message-passing.cpp`, `benchmark/crdt-{counter,gset,reg}.hpp` | a part for local and a part for remote updates, `waittobestable` | `updateLocal`, `updateRemote`, reads |
| Op-based CRDTs | `benchmark/op-crdt-*.hpp` | CRDT value | effects |
| Older protocols | `protocol2-partialsyn.cpp`, `protocol3-cyclepartialsyn.cpp` | | not part of the build |
| Utilities | `tcp/{Socket,Thread,Semaphore,Time,getch,Exception}.cpp` | | wrappers of system calls |
| Tooling | `gbox-creator.cpp`, `test.cpp`, `*.sh`, notebooks | | write workloads, start processes, plot |

`HamsazinC/`, `junction/` and `turf/` are other projects and libraries.

**How the parts interact.** A node is one process with one `Handler` and two
threads that matter. The *main thread* takes the calls of its workload file,
runs the handler for each and broadcasts the call; in every iteration it
first broadcasts at most one entry of `send_ack_call_list`. The *receiver
thread* (`ServersCommunicationLayer::run`) polls the connections in turn, takes
one message, and handles it to the end before it takes the next. The two share
the handler: in hamsou lists, clock and stable index under `mtx`, the
acknowledgement list, `waittobestable` and the queue partly outside it; in
ECROS everything but the test `shouldSkip` under `mtx`; in the CRDT build only
`waittobestable`, without a lock. An *accepting thread* completes the
connections of nodes with a greater id, and a *monitor thread* calls
`markNodeFailed` when a socket dies. A shutdown signal interrupts the main
thread wherever it is.

**What is hard here.** The interleaving of the two threads between critical
sections (`remoteHandler` takes the lock twice); messages of different
connections that overtake each other, so that an acknowledgement can arrive
before the call it is about; calls that have to wait for a causal predecessor
and later leave the queue in a different order; the count of acknowledgements
that stands for knowledge about other nodes; a wait on an atomic outside the
lock; termination of the only thread that sends acknowledgements; a node that
is shut down in the middle of any of this, also in the middle of a broadcast;
graphs built in different orders by different code; a start-up that relies on
sleeps. `PROJECT.json` lists each of these at the line where it bites, with the
properties that watch it.

**What makes each part correct.**

- Handler: a stable call has been executed everywhere; the stable prefix is
  final; replicas agree on the order of conflicting stable calls; that order
  respects causality; no call is lost or executed twice; queued calls leave the
  queue when they can.
- Main thread: a refused call is executed in the end; acknowledgements are sent
  once each; every node sees the whole workload stable.
- Start-up: nobody processes a call before its handler is set up, nobody sends
  one to a connection that is not there.
- Connections: FIFO per direction, nothing lost while both ends live.
- Use cases: calls without an edge in the conflict relation commute; stable
  states converge; what a node shows early becomes final; names of courses are
  unique.
- Failure handling: survivors lose no call of a survivor, the stable prefix
  stays final, and nobody waits for an acknowledgement of the dead.
- ECROS: the graphs agree; a committed call is at every node; objects whose
  calls commute converge; own calls are committed in the end.
- CRDTs: no update of a counter or a set is lost or applied twice; a node that
  stops has all.

## 2. Modules

| Module | What it is |
|---|---|
| `VectorClock` | `compareVectorClocks`, the same text in every use case |
| `CallQueue` | `Handler::priorityQueue`, with the binary heap of `std::priority_queue` |
| `UseCases` | conflict relations and states of the set (YCSB is the same text), stack, movie, project and courseware |
| `ComplexCourseware` | the same for complex courseware: nineteen methods, cascades, the index of course names |
| `ObjectCommutation` | one copy of an object's state, to which calls are applied in any order; what the conflict relation owes it |
| `Hamsou`, `HamsouProperties` | handler, main thread, receiver thread and channels; what is required of them |
| `HamsouObject` | `Hamsou` composed with the object: `obj.current_state` and `obj.stable_state` of every node |
| `HamsouFailure` | `Hamsou` composed with shutdowns and `markNodeFailed`, and what is required of them |
| `UniformStability` | abstract specification: append-only stable logs whose calls were executed everywhere; `Hamsou` and `Ecros` both implement it |
| `EcrosUseCases` | commutation tables, resolution and effects of the five ECROS objects |
| `Ecros`, `EcrosProperties` | the ECROS protocol; what is required of it |
| `Startup` | connections, sleep, `setVars`, init barrier |
| `Crdt`, `CrdtProperties` | `Startup` composed with the CRDT main loop and the three objects; what is required of the whole |
| `MCHamsou`, `MCHamsouSchedule`, `MCHamsouObject`, `MCObjects`, `MCHamsouFailure`, `MCEcros`, `MCCrdt` and the `.cfg` files | the instances TLC checks |
| `ListLemmas`, `HamsouProofs`, `StabilityProofs`, `ConvergenceProofs`, `FailureProofs`, `ObjectProofs`, `EcrosProofs`, `CrdtProofs` | the proofs |

### Hamsou: state and actions against the code

| TLA+ | Code |
|---|---|
| `executionList[n]`, `stable_index[n]` | `executionList` and `obj.stable_state.index`; `obj.waittobestable` is stored in the same critical section as the index and read as the index |
| `vector_clock`, `priorityQueue`, `acks` | the fields of the same name |
| `unsent_acks[n]` | `send_ack_call_list` from `ack_index` on; what lies before is never read again |
| `it[n]`, `waiting[n]` | `it` and the pair `wait`, `stableindex` of the main loop; -1 when `wait` is false |
| `turn[n]` | whether the body of the main loop is before or after its acknowledgement part, or is executed for the last time |
| `receiver[n]` | where the receiver thread is: polling (`Idle`), about to look at the queue (`Drain`), between the two critical sections of `remoteHandler` (`insert`), after them (`ack`) |
| `net[m][n]` | the stream from m to n |

| Action | Code |
|---|---|
| `SendAck`, `NoAckToSend` | `main-replication-protocols.cpp` 397-418, and passing by that part |
| `ExecuteLocal`, `RefuseLocal` | 456-523 with `localHandler` (`protocol-hamsou.cpp` 253-304) |
| `ReceiveCall` | `handleAllReceives`, `receive`, and `remoteHandler` with `queueHandler` up to the release of `mtx` (359) |
| `ExecuteRemote` | the second critical section of `remoteHandler`, 363-386 |
| `RecordAck` | 387-399, and the `pop` of the caller when the call came from the queue |
| `DrainQueue` | one round of `internalDownstreamExecute`, which is also how `stabilizerWithAck` drains (565-580) |
| `ReceiveAck` | `updateAcksTable` with the critical section of `stabilizerWithAck`, 464-564 |

Atomicity. Each critical section under `mtx` is one action. `updateAcksTable`
is folded into the section that follows it: only the receiver thread touches
`acks`. Appending to `send_ack_call_list` (387-399, after the lock is
released) is an action of its own, as the main thread reads the list in
between. `localHandler` and the `broadcast` after it are one action: nobody but the main
thread sends, so the order of its messages is the order of its actions. The
test of the loop condition is merged with the part of the body that follows;
when the receiver thread makes the last call stable, `ReceiveAck` chooses
whether the main thread had already passed its test (`turn` is then `last`, and
one more acknowledgement may be sent) or not.

What the model abstracts.

- `Read` calls change nothing in the handler and are left out of the
  workloads.
- The values in the object do not feed back into the protocol:
  `locallyPermissibility` returns true in every use case. `Hamsou` therefore
  leaves them out, and `HamsouObject` adds them.
- `checkValidcall` (`set.hpp` 71-77) has no `return` statement. In the build
  the repository describes (`tcp/compile.sh`, no optimization) the function
  yields true for adds and removes, and the model takes it as such. With
  optimization the compiler may do anything with it.
- The rate limiter (426-452) delays a call and decides nothing; a delayed
  iteration is covered by the interleaving.
- Serialization keeps type, value, node, number and clock of a call; a message
  is the record itself.
- Nodes do not fail in this module (see `HamsouFailure`), and connections are
  already set up (see `Startup`).

`CallQueue` models the heap and not just "some maximal element", because the
comparator of `priorityQueue` says *less* in both directions for concurrent
calls: that is no strict weak order, the standard leaves `top()` undefined, and
what it returns depends on the history of the heap. `SiftUp` and `Pop` follow
`std::push_heap` and `std::pop_heap` of libstdc++; they were compared with the
library on random sequences of pushes and pops. The two paths an element takes
through the heap are written as smallest closed sets of positions (`PathUp` is
closed under halving, `PathDown` under `BiggerChild`) rather than as loops, so
that they can be proved about without induction.

### HamsouFailure

| TLA+ | Code |
|---|---|
| `crashed` | the processes that have ended |
| `node_failed[n]` | `node_failed` of n |
| `marking[n]` | how far n's receiver thread is in `markNodeFailed` |

| Action | Code |
|---|---|
| `Crash` | `shutdownHandler`, `main-replication-protocols.cpp` 30-80. What the interrupted main thread was broadcasting (`Underway`) has reached any subset of the others |
| `ReceiveShutdown` | the shutdown message and `markNodeFailed` up to its first stabilization, `protocol-hamsou.cpp` 656-681 |
| `StabilizeAfterFailure` | its two stabilizations (683, 721), each followed by the drain of `stabilizerWithAck` |
| `ForceTop`, `EndForcedDrain` | one round of the loop 690-717 and its end: the top of the queue is executed without a look at its predecessors. The lock is held throughout, so `localHandler` waits (`FMain`), but acknowledgements are sent without it |
| `FReceiveAck` | `ReceiveAck` with the thresholds less the failed nodes (`FQuorum`, 649-654) |
| `FMain`, `FReceiveCall`, `FExecute` | the steps of `Hamsou`, by nodes that live |

### Startup and Crdt

`Start`, `Connect`, `Sleep`, `Accept`, `SetVars`, `SendInit`, `EnterBarrier`,
`ReceiveInit` and `LeaveBarrier` follow a node from its process start to the
main loop. A node that connects to one that is not listening yet dies of an
uncaught exception; a message to a connection that is not there is dropped.
The constant `patient` says whether launch scripts and the fixed sleep left
enough time: nodes are started in order of their ids and everyone is connected
when the sleep ends. Safety is checked for both of its values, progress only
for true.

`Crdt` composes these steps (`Starting`) with the loop of the CRDT build:
`BroadcastUpdate`, `UpdateLocal`, `StoreLocal` and `ReadLocal` in the main
thread, `ReceiveUpdate` and `StoreRemote` in the receiver thread. Both threads
load `waittobestable` in one action and store it in another one, as the code does.

### Ecros

| TLA+ | Code |
|---|---|
| `calls[n]`, `edges[n]` | vertices and edges of the graph; an edge only keeps its two ends |
| `vc[n]` | the vector clock: N entries from 0, while node ids start at 1, so node N has none of its own |
| `ackCounts[n]` | the field of the same name |
| `committed[n]` | the ids in the order of their commitment; its length is `obj.waittobestable` |
| `object[n]`, `applied[n]` | the object's tables and the calls `recomputeState` passes over |
| `turn[n]` | as in `Hamsou`, and `run` between `shouldSkip` and the lock |

| Action | Code |
|---|---|
| `SendAck`, `NoAckToSend` | the acknowledgement part of the main loop |
| `TestLocal` | `shouldSkip` says no, before the lock is taken |
| `SkipLocal` | `shouldSkip` says yes; the call is broadcast all the same |
| `ExecuteLocal` | `exeLocal` under the lock (273-308) and the broadcast |
| `ReceiveCall` | `exeRemote` of a call: insertion with resolution, topological sort, replay |
| `ReceiveAck` | `handleAckAndMaybeStabilize` and `commitStableCalls` |

`TopoOrders` is the set of results Kahn's algorithm can give: its worklist
starts in the order of the calls' addresses, which differs between nodes and
runs. Calls on a cycle, or behind one, are in none of them.

### The objects against the code

A use case is a conflict relation and an update. The `UseCases` operators are
named for the class and the method: `SetRemote` is `Set::fastisreachableremote`,
`SetUpdate` is both `Set::updateCurrentState` and `Set::updateStableState`,
which have the same text. `ProjectUpdateCurrent` is the project's copy for
`current_state` under a name of its own, so that a mistake in one of the two
copies can be put there. The texts differ in two classes: courseware
(`CoursewareUpdateCurrent` tests for "Endroll", `courseware.hpp` line 228) and
`UpdateCourseNameForce` of complex courseware, where a line is commented out in
`updateStableState` (`complex-courseware.hpp` line 1102).

`ComplexCourseware` keeps ids, names and the cascades, because calls interact
through them, and makes the rest of a row opaque: a semester or a first name is
written and never read. Where the method loops over a link table, the model has
a set comprehension.

`ObjectCommutation` applies calls in any order. A workload may use any id any
number of times, and the protocol lets a node execute calls of others in many
orders, so no sequence is excluded. `CallOf1` and `CallOf2` make two operations
concurrent calls of two nodes, which is when the conflict relation is asked.

`HamsouObject` strengthens the actions of `Hamsou`: `ExecuteLocalOnObject` and
`ExecuteRemoteOnObject` apply the call to `current_state` at the moment it is
executed (`protocol-hamsou.cpp` 293 and 381), `StabilizeOnObject` applies the
calls that `ReceiveAck` makes stable to `stable_state`, in the order of the list
(552). Every other action leaves the object alone. The history variable
`applied` keeps the order in which calls were applied to `current_state`; no
guard reads it.

The workload generator of complex courseware
(`wellcoordination/benchmark/complex-courseware-benchmark.cpp`) gives every node
its own range of ids, so generated files seldom make two nodes' calls
conflict; the program accepts any file, and so do the models.

## 3. Runs

`N` is the number of nodes, `MaxCallId` (`MaxCalls` for CRDTs) the length of
the longest workload. `CHECK_DEADLOCK FALSE` in the runs of the protocols,
because they stop when all workloads are done. The instances of `MCHamsou` and
`MCHamsouFailure` use the set with calls on one element: an add has to come
before a concurrent remove, which is the only conflict of the object, so every
pair of calls of different type conflicts.

| Run | Instance | Properties | What it shows |
|---|---|---|---|
| `overtake` | 3 nodes; remove, add, remove / add / nothing; 553,000 states | `TypeOK`, `StableExecutedEverywhere`, `ExactlyOnce`, `AcksAccountedFor`, `NoLostWakeup`, `QueueNotForgotten`, `StablePrefixOnlyGrows`, `ImplementsStability` | the bookkeeping is right in every interleaving, and the handler refines `UniformStability` |
| `in_order` | 3 nodes; remove, remove / add / nothing; only states without early acknowledgements; 104,000 states | `StableOrderAgreement`, `StableRespectsCausality` | nodes agree on conflicting stable calls, in causal order |
| `one_issuer` | 3 nodes, one of them issues three calls; fairness | `RefusedCallProceeds`, `QueueDrains`, `SomeNodeFinishes` | progress when one node issues |
| `object` | 2 nodes with a project database; every workload of up to two calls each out of adding, deleting and working on one project; 398,000 states | `StableExecutedEverywhere`, `StableStatesConverge`, `OptimismConfirmed` | the boundary where the threshold for received calls is zero; stable states converge; what a replica shows early is what its list will have made when all of it is stable, unless it put a call before one that this does not commute with |
| `objects` | all calls of set, stack, movie, project, courseware (2 values each, stacks up to height 3), and three vocabularies of complex courseware | `OtherCallsCommute`, `UniqueCourseNames` | the conflict relations are complete but for the pairs of `MissingEdges`; names of courses stay unique |
| `failure` | 3 nodes, one of which is shut down at any moment; remove, remove, add / nothing / nothing and remove / add / nothing; 1,330,000 states | `FTypeOK`, `LiveCallsOnce`, `NoWaitForTheDead`, `StablePrefixOnlyGrows` | dropping calls of the dead and draining by force costs no survivor a call of another one, and no unstable call of a survivor needs an acknowledgement that nobody can send |
| `ecros` | 3 nodes, one row per table; six workloads of set, movie, project and courseware; fairness; 61,000 states | `EcrosTypeOK`, `GraphsAgree`, `CommutingCallsConverge`, `ImplementsStability`, `OwnCallsCommit` | the graphs agree, objects whose calls commute converge, commitment refines `UniformStability`, and what a node executed is committed there in the end |
| `crdt` | 3 nodes from process start to the last update; a counter, a set, a register; fairness; 160,000 states | `CrdtTypeOK`, `BarrierHolds`, `NoCallBeforeSetVars`, `UpdatesAccountedFor`, `FinishedMeansApplied`, `UpdatesArrive` | the barrier separates set-up from calls; no update of a counter or a set is lost or applied twice; lost increments of `waittobestable` delay and never hurt |
| `agreement` | as `in_order`, all states | `StableOrderAgreement` violated | finding 1 |
| `agreement_queue` | 3 nodes, six calls of movie.hpp along one schedule; only states without early acknowledgements | `StableOrderAgreement` violated | finding 2 |
| `failure_drop` | as `failure`, one remove | `DroppedNowhereElse` violated | finding 3 |
| `ecros_cycle` | 3 nodes; two of them relate an employee to a project and delete it | `AllReplayed` violated | finding 4 |

**Why these bounds.** Three nodes are the least number at which an
acknowledgement can overtake its call (it takes a third node), a queue can hold
a call of another origin, and the two thresholds of `updateAcksTable` (N-1 for
own calls, N-2 for others) are different and positive. Two nodes are the
boundary where the second is zero. Three calls at one node and one at another
are the least with which a queue holds two calls, a call overtakes another one
of its origin below the top, a local call is refused, and a received call is
put before an unstable one; every action and both outcomes of each of its
conditions occur. A listener adds acknowledgements without adding states.

For failures, one crash of three leaves two survivors, the least number that
can disagree; the workloads leave a call queued behind a predecessor from the
dead node, which the forced drain needs. `MaxCrashes` bounds the crashes.

For ECROS, two nodes have to issue concurrent calls for a "co" edge, and a
third has to receive them in an order of its own. The workloads of `Mixed` are
chosen so that a call is skipped after another one emptied its table, a replay
finds an edge of either kind, and the last node (the one without an entry of its
own in the clock) issues; both kinds in one graph are in `FourCalls`. That the
graphs agree, that commuting calls converge and that commitment implements
stability is proved for all workloads. `InitialRows` is 1 instead of 50: a deletion then
empties a table, which 50 rows put out of reach.

For the current state, two calls at each of two nodes have all orders of
arrival against list order that an insertion can make: before one call, before
two, before a call that commutes and before one that does not. `ProjectStates`
is every state that the three calls can make.

For the objects: a call touches the rows it names and those that share an id or
a name with them. Two values let two calls name the same row or different ones;
a rename needs two ids, and a wrong entry in the index can take a third (a
course that is overwritten by the rename of another). Complex courseware is
split into vocabularies (`Enrollment` with students, `Teaching` with instructors
and departments, `Courses` with three courses), because methods of students and
of instructors touch disjoint tables; the one table that both depend on,
`courses`, is in each. There is no bound on the number of calls; only the
stack, which is the one unbounded state, has one (`MaxHeight`).

**The constraint of `in_order`.** `NoEarlyAck` cuts the states where a node has
counted an acknowledgement for a call it has not executed. The code does not
prevent them; finding 1 is what happens then. The run says how much holds
without them, for a set, where all adds conflict with all removes. With two
tables, calls about one can be held up by calls about the other, and finding 2
shows that agreement then fails all the same.

**Fairness.** `FairSpec` of `Hamsou` gives weak fairness to every thread of
every node: to the parts of the main loop separately (it is one loop that runs
for as long as the action is enabled), to the receiver in the middle of a
message, and to the receipt from every single connection, because
`handleAllReceives` visits the connections in turn
(`ServersCommunicationLayer.cpp` 157-203). `Fairness` of `Ecros` and
`CrdtFairness` are the same for the actions there, `StartFairness` adds the
accepting thread. Nothing is assumed about delays, with the one exception of
`patient`, and no strong fairness. Main threads are only scheduled while
`Running`, as the loop condition says: a node that leaves early stops sending
acknowledgements, which is why `OwnCallsCommit` has a second alternative and
only *some* node is promised to finish.

**Mutants.** Next to some definitions of `Hamsou`, `CallQueue`, `UseCases`,
`ComplexCourseware`, `HamsouFailure`, `Ecros`, `EcrosUseCases`, `Startup` and
`Crdt` stand mutated forms, named `Mut...`, each a mistake one could make in
that line. Every property of a passing run is violated when the mutant listed
for it in `PROJECT.json` takes the place of the original.

### Findings

1. *Replicas disagree on the stable order* (`agreement`). Acknowledgements of a
   call can arrive before the call. `updateAcksTable` counts them, but
   `remoteHandler` (line 398) does not look at the count after it has executed
   the call, and `stabilizerWithAck` only runs on an acknowledgement. The call
   becomes stable late, together with a later one, and before the queued call
   between them is drained. The node's stable order of a remove and an add is
   then the opposite of another node's.
   The same steps on the `Handler` class itself, with the messages fed by hand,
   end in the same lists. The reviews kept in the repository
   (`Reviews/1.1.PODC24.md` line 144) state what the protocols are for: "ensure convergence (all
   replicas reach the same state when all operations are delivered)".
2. *Disagreement without early acknowledgements* (`agreement_queue`).
   `queueHandler` (line 338) queues a received call that causally follows an
   unstable call it conflicts with, also when it has to be put before a second,
   concurrent call of the list. Both may become stable in one step, and only
   then is the queue drained. In the schedule of `MCHamsouSchedule`, node 3
   keeps the AddMovie of node 1 waiting for its own DeleteMovie; when node 2's
   acknowledgement of that arrives, node 2's DeleteMovie, which everybody has
   acknowledged, becomes stable with it. Node 1 has the AddMovie before node
   2's DeleteMovie, node 3 has it behind. Node 1 could issue it that late
   because node 2's DeleteMovie was in its queue behind a call about customers.
   `Reviews/1.1.PODC24.md` line 74 has it that the protocols "preserve
   convergence and integrity".
3. *A call survives at some* (`failure_drop`). `markNodeFailed`
   (`protocol-hamsou.cpp` 675) drops unstable calls of the dead node that have
   no acknowledgement here. Another survivor may have executed such a call with
   its acknowledgement still unsent or on its way; it counts one survivor more
   than this one. The comment (line 666) says "Drop partially delivered calls
   from dead node (zero acks = nobody else has it)".
4. *Calls that are never applied* (`ecros_cycle`). Two nodes relate an employee
   to a project and delete it. "hb" and "co" edges form a cycle through the
   four calls, none of them gets in-degree zero in `fullTopoSort`, and
   `detectAndResolveCycles` relabels an edge and leaves the cycle. The received
   calls are acknowledged and committed without an effect, whereas the
   comment (`protocol-ecros.cpp` 310) says "Remote Invocation (full-replay, now
   for all in-flight calls)".

### Seen on the way, without a run

*Optimistic replication.*

- `queueHandler` (line 324) compares a received call with the top of the queue
  only. A call whose predecessor of the same origin lies deeper is executed
  first, and `vector_clock`, which counts calls per origin, then covers a call
  that was not executed.
- A main thread whose call was refused waits for `waittobestable` to move. When
  the acknowledgements of the blocking call came before the call, nothing runs
  the stabilizer again and the thread waits for ever.
- The main loop (`main-replication-protocols.cpp` 347) ends when all calls are
  stable here, even with unsent acknowledgements; the others then never see
  these calls stable.
- `remoteHandler` puts a received call into the list before conflicting calls
  that are already executed, and then applies it to `current_state` on top of
  them (line 381); nothing redoes the current state in the order of the list. One
  node adds a project while the other one deletes it: both lists end as add,
  delete and the stable states are equal, but at the node that deleted the project
  it stays in `current_state` for good. `OptimismConfirmed` has the premise
  `AppliedInOrder` for this reason, and says that nothing else makes the two
  states come apart: calls may be put before others they commute with.

*Objects.*

- `fastisreachablelocal` of the stack puts the push of the lower node first;
  `fastisreachableremote` (`stack.hpp` 130-138), which places received calls,
  has no such case. Each node keeps its own push first. `MissingEdges` has the pair.
- Twelve pairs of methods of complex courseware do not commute and are not
  related, such as the rename and the deletion of a student. `MissingEdges` in
  `ObjectCommutation` lists them; run `objects` finds no others.
- Renaming the id of a course onto an existing one leaves the entry of the
  overwritten course's name in `course_name_index` (`complex-courseware.hpp`
  717), and `UpdateCourseNameForce` (783) enters a name for a course that does
  not exist. `AddCourseForce` (634) then deletes the entry's course, although
  it has another name than the comment (632) says.
- In courseware an enrollment never reaches `current_state`, which waits for
  "Endroll" (`courseware.hpp` 228).

*Failures.*

- After a crash of one of three nodes the threshold of a survivor for calls of
  the other one is zero, but a node that issues nothing gets no acknowledgements
  and never runs the stabilizer again; a later conflicting call stays queued
  there for ever. The same holds for two nodes without a failure.
- A refused call whose blocker is dropped waits for the stable index to move,
  which nothing may move any more.
- Acknowledgements of the dead node still count, while it is subtracted from
  the threshold; calls of the dead that are kept with few acknowledgements may
  be unable to reach theirs from five nodes on.
- A dropped call is not taken back from `current_state`.
- The forced drain executes a call before a predecessor that is still on its way.
- `FAILURE_MODE` subtracts half of a node's share from the expected calls,
  whatever has been delivered.

*ECROS.*

- In the set and the stack `applyCall` does not insert into `applied`, so a
  local call is applied a second time by the next replay.
- Applied calls are passed over by `recomputeState`, so a replay executes new
  calls in order of arrival on top of what is there, whatever the sort says.
- The test for "ao" edges compares with a character that `resolution` never
  returns.
- The clock has N entries from 0 and node ids start at 1; the entry of node N
  is out of bounds (276-282), and calls of this node are not ordered by it.
- An acknowledgement that is counted before its call arrives is not looked at
  again (417), and with two nodes a received call never gets one at all; such
  calls are never committed at that node.
- Skipped calls are broadcast and the others commit them; the issuer does not
  count them.
- `shouldSkip` and the tables have tests for the wrong type: an always true
  `else if ("DeleteX")`, "AaddEmployee", no row for `DeleteStudent`. The models
  have them as they are.
- `applyCall` asks `movie_ids` whether a `DeleteCustomer` may be done,
  `recomputeState` asks `customer_ids` (`ecros-movie.hpp` 123 against 172). With
  no movies left the issuer does not delete the customer and all others do, also
  when the calls commute: one row per table, and one node issues DeleteMovie 0
  and DeleteCustomer 0. This came up in the proof of `CommutingCallsConverge`,
  which therefore leaves out `DeleteCustomer`.

*CRDTs and start-up.*

- The register is broadcast before its timestamp is set. Every update arrives
  with timestamp 0, remote updates never take effect, and the registers of two
  nodes need not agree. `UpdatesAccountedFor` is therefore about the counter
  and the set, and nothing is claimed of the register but that its node stops
  when all updates have come (`FinishedMeansApplied`).
- A lost increment of `waittobestable` may keep a node in its loop for ever.
- A node that is late makes others' init messages vanish, and all wait at the
  barrier for ever; one that connects too early dies of an uncaught exception.
- `TCPSocket::send` (`Socket.cpp` 341) may send a part of a message and give up.
- With the other protocols' headers, the main program at this commit uses
  members only hamsou has (`node_failed`, `markNodeFailed`). An ECROS build needs
  them removed. A CRDT build needs more: its handler
  (`protocol0-crdt-message-passing.cpp`) has no `deserializeCalls`, no
  `last_call_stable` and no `setVars` with four arguments, and the register's
  build names a class `Register` where `crdt-reg.hpp` defines `Reg`. The model
  takes the loop and the handler as they are written.

## 4. Proofs

Checked by tlapm for every `N >= 2` and every set of workloads that fits the
bound `MaxCallId`; for hamsou also for every pair of conflict relations, for
the objects for all ids and names. The assumptions are `NAssumption`,
`WorkloadsAssumption` (for hamsou, the code's unchecked precondition on the
size of the table `acks`; for ECROS also that a file has the methods of its use
case), `MaxCallIdAssumption`, `MaxCallsAssumption` and `InitialRowsAssumption`
(these are numbers), and `ClientsAssumption` for the objects. TLC evaluates each of them.

| Theorem | Module | States |
|---|---|---|
| `TypeCorrect` | `HamsouProofs` | `Spec => []TypeOK` |
| `StablePrefixIsFinal` | | `Spec => StablePrefixOnlyGrows` |
| `QueueIsDrained` | | `Spec => []QueueNotForgotten` |
| `WaitIsJustified` | | `Spec => []NoLostWakeup`, for local conflict relations that do not read clocks |
| `StableMeansEverywhere` | `StabilityProofs` | `Spec => []StableExecutedEverywhere` |
| `AcksAreCountedOnce` | | `Spec => []AcksAccountedFor` |
| `CallsAreHandledOnce` | | `Spec => []ExactlyOnce` |
| `CountingImplementsStability` | | `Spec => Stability!Spec`: the handlers, threads and connections implement `UniformStability` |
| `AgreementMeansConvergence` | `ConvergenceProofs` | `ObjectSpec => [](StableOrderAgreement => StableStatesConverge)` for the set, movie, project and courseware use cases |
| `OneIssuerAgreement` | | `Spec => []((\E j \in Node : OneIssuer(j)) => StableOrderAgreement)` |
| `OneIssuerCausality` | | `Spec => []((\E j \in Node : OneIssuer(j)) => StableRespectsCausality)` |
| `EarlyStateConfirmed` | | `ObjectSpec => []OptimismConfirmed`, for every object whose `updateCurrentState` does what `updateStableState` does |
| `OneIssuerConfirmed` | | `ObjectSpec => []((\E j \in Node : OneIssuer(j)) => \A n \in Node : current_state[n] = Outlook(n))`, for every object whose two updates do the same |
| `OneIssuerConvergence` | | `ObjectSpec => []((\E j \in Node : OneIssuer(j)) => StableStatesConverge)` for the same four use cases |
| `CrashTypeCorrect` | `FailureProofs` | `FSpec => []FTypeOK` |
| `CrashKeepsStablePrefix` | | `FSpec => StablePrefixOnlyGrows` |
| `CrashLosesNoLiveCall` | | `FSpec => []LiveCallsOnce` |
| `NobodyWaitsForTheDead` | | `FSpec => []NoWaitForTheDead` |
| `PlainRelationComplete` | `ObjectProofs` | unrelated concurrent calls of set, movie, project and courseware commute in every state, for all values and ids |
| `CourseNamesUnique` | | `Spec => []UniqueCourseNames` |
| `GraphsAlwaysAgree` | `EcrosProofs` | `Spec => []GraphsAgree` |
| `CommitmentImplementsStability` | | `Spec => ImplementsStability` of `EcrosProperties`: commitment in ECROS refines `UniformStability` |
| `EcrosTypes` | | `Spec => []EcrosTypeOK` |
| `CommutingCallsAlwaysConverge` | | `Spec => []CommutingCallsConverge`, for the set, movie, project and courseware |
| `BarrierSeparates` | `CrdtProofs` | `CrdtSpec => []BarrierHolds` |
| `CallsComeAfterSetVars` | | `CrdtSpec => []NoCallBeforeSetVars` |
| `CrdtTypeCorrect` | | `CrdtSpec => []CrdtTypeOK` |
| `LeavingMeansApplied` | | `CrdtSpec => []FinishedMeansApplied` |
| `UpdatesAlwaysAccountedFor` | | `CrdtSpec => []UpdatesAccountedFor` |

*Types.* `TypeOK` is not inductive. An insertion keeps a list a
sequence only if the position lies inside it, which needs the stable index
inside the list; `top()` and `pop()` are only defined on a queue that is not
empty, which the receiver's control state guarantees. `IInv` adds these two:
`StableWithinList` and `QueueHasTop`. There is one lemma per action.

*Stable prefix.* Only `ExecuteLocal`, `ExecuteRemote` and `ReceiveAck` touch a
list or its index. `InsertPositionRange` puts an insertion behind the stable
prefix, `StableUpToProperties` shows that the stabilizer never moves back, and
`InsertAtList` and `BeginningsArePrefixes` (in `ListLemmas`) turn this into a
statement about prefixes.

*Queue.* Main threads only append to the list, which leaves every witness of
`MustQueue` in place; every step of the receiver that could remove the witness
goes through `Drain`, and the receiver comes back to polling only with an
empty queue or a top that must wait.

*Wait.* `WaitInv` strengthens `NoLostWakeup` by `waiting[n] <= stable_index[n]`:
without it a moving stable index might come to equal an old `waiting`. The
blocking call may be moved by an insertion, never removed. The hypothesis
`LocalIgnoresClock` is there because the clock of a retried call changes;
`fastisreachablelocal` of every use case reads only type, node and values.

*The heap.* The first part of `HamsouProofs` shows that push and pop lose no call and double
none, for any comparator: both move elements along a path, every position of
the path but its end takes the element of the next one, so the result is a
rearrangement (`Rearranges`, `PushElements`, `PopElements`). The paths are
smallest closed sets, and what would be an induction along them is an
instance of their definition.

*Stability.* A node never sees another node's list; it counts. That the count
is knowledge takes an invariant over all places a call or an acknowledgement
can be in: `StabilityInv` is `IInv` with `CallInv` and `AckInv`. `CallInv` says
that no list or channel repeats an element, that a node's own calls have
different numbers below `it`, that every call held anywhere was executed by its
issuer, that a call is held in one place, and that none is lost. `AckInv` says
that an acknowledgement exists only of a call executed here, in one place, and
that `acks[n][a]` is the cardinality of `Counted(n, a)`, the nodes whose
acknowledgement has left their list and the channel. Each action is first
described as a change of sets (`SendsAck`, `Issues`, `Arrives`, `Performs`,
`Records`, `LooksAtQueue`, `Counts`), and the invariant is then shown for these
seven, in one lemma for calls and one for acknowledgements. `FullCount` turns a
count of N-1 or N-2 into *all others*, which is `StableMeansEverywhere`.

*Refinement.* A step that executes a call is an `Execute` (`ExecutesOne`): the
call is new here and known to its issuer. A step that moves the stable index is
a `Stabilize` (`ReceiveAckRefines`): the calls between the old and the new
index have different ids, so they are one of the permutations the abstract
specification chooses from, and they have been executed everywhere by the
previous theorem. All other steps change neither list nor index (`LogKept`).

*Convergence.* `AgreementMeansConvergence` says what the conflict relation is
for: if the nodes order conflicting stable calls alike, then nodes with the
same stable calls have the same stable state. The hypothesis
`StableOrderAgreement` is there because it is false in general (findings 1
and 2), and it is the only way in which the replicas can come apart.
`StableCallsApplied` is the invariant: a stable state is what the stable prefix
makes of the initial state, although it was folded piece by piece at every
stabilization. Two nodes may have the same calls in very different orders.
`AlikeSameEffect` (in `ListLemmas`) takes the last call of one list out of
both: everything behind it in the other list commutes with it
(`CallMovesLast`), and two shorter lists remain. An induction schema is out of
the provers' reach; the lemma takes a shortest counterexample instead
(`LeastNumber`). In the same way `ApplyAll`, which applies a list of calls, is
defined by a run through its states (`IsRun`), and `FoldIsApplyAll` shows that it
is what `FoldLeft` computes. `ReplicatesRows` are the four use cases; the
stack is not among them, because its relation leaves Push and Pop unordered.

*The current state.* A call is applied to `current_state` when it is executed,
and to `stable_state` perhaps much later and among others. `AppliedOnce` says
that the calls applied so far are those of the list, each once: a call is
executed when it comes from the queue or the channel, and by `CallInv` it is not
in the list then (`LocalIsNew`, `RemoteIsNew`). `ExecutedCallsApplied` says that the
current state is what `applied` makes of the initial state. On the other side
the stable state is what the stable prefix makes of it, so the stable state with
the rest of the list on top (`Outlook`) is what the whole list makes of it
(`OutlookIsList`). If the two orders of the same calls agree on those that do not
commute, they have one effect by `AlikeSameEffect` again. That is
`EarlyStateConfirmed`; it needs nothing of the conflict relation. The premise
`AppliedInOrder` is about `Commute` and not about the conflict relation: an
insertion before the end always passes a conflicting call, so with conflicts in its
place it would allow appending only, whereas an AddProject that is put before a
WorksOn changes nothing in what is shown. It cannot be dropped, since
`remoteHandler` does not redo a current state. `CurrentAsStable`, that the two
updates are the same, holds for the set, stack, movie and project, but
`courseware.hpp` looks for "Endroll" in one and "Enroll" in the other.

*One issuer.* When one node issues all calls, the handler should keep them in
the order of issue, and `OneIssuer...` prove that it does, for every conflict
relation and however acknowledgements and calls interleave. The premise
is `OneIssuer(j)`, that all other workloads are empty; without it the order is
not kept (findings 1 and 2).
The invariant is `OrderInv(j)`. `Counting(j)`: the others do nothing and the
clock of j is its number of calls, so `IsAfter` compares numbers
(`IssuerNumbered`). `ExecutedFirst(n)` and `UnderwayLast(n, j)`: at every node
what is executed comes before what is queued or in hand, and that before what
is on its way. `NothingReordered(n)`: no call passes by a queue that is not
empty, and the call in hand is not put before an unstable one.
The first of these is not inductive without the queue: a call of the
queue is executed next because it has the lowest number, so the array of
`std::priority_queue` has to be a heap. `PushKeepsHeap` and `PopKeepsHeap` prove
that the sifting of `CallQueue` keeps it one, and `HeapTop` that the first
element is the least. The heap is ordered only because the calls are of one
issuer: with several, `Less` is not an order (`CallsAreHandledOnce` does without it).
Insertion then is appending (`InsertedLast`), so calls are applied in the order of
the list (`AppliedAsListed`), and the current state is the outlook with no
premise about reordering and for conflict relations that miss pairs, too.

*Failures.* The theorems are for any number of nodes and of crashes.
`HamsouFailure` takes steps that `Spec` does not have, so the lemmas about the
steps it shares with `Hamsou` are stated over what the channels may carry
(`Carries(M)`, `IInvOver(M)`), and the accounting of calls over the set D of
nodes that need not have executed what they sent (`Origins(D)`,
`CallParts(D)`): with `Message` and the empty set they serve the theorems
above, with `FMessage` and `crashed` those about failures.
`Marked` says what is known of the failures: the shutdown message is sent by
nodes that were shut down, and only they are marked.
`OnlyProperties` is what `remove_if` does, and it is why an erasure behind the
stable index cannot reach the stable prefix. `LiveCallsOnce` follows from
`CallParts(crashed)`: all that the dead may have left inconsistent is about
their own calls. A broadcast that a crash cuts short reaches any subset of the
nodes, and it is a broadcast of a node that is dead from then on.
`NoWaitForTheDead` is not inductive by itself. A count is only a number, and
when somebody dies who still owes an acknowledgement, one has to know that the
others are in it. `PaidFor` says so: for every node and call, at least those live
nodes that no longer owe (`Owes`) have been counted. Only counting ends a debt
(`DebtsRemain` for all other steps), and a crash only makes the set of those
who paid smaller. `LiveQuorum` then compares with the threshold, from which the
marked nodes, all of them dead, are already subtracted.

*Commutation.* A call of these use cases inserts or erases one row of one table.
Inserts commute, erasures commute, and an insert commutes with an erasure in
another table (`RowsCommute`). The lemmas per use case then only have to see
that the relation has every pair of an insert and an erasure in one table. The
stack is left out, as its relation is not complete. The proof needs that a state is a function
(`PlainInv`) and `ClientsAssumption`, which says that the calls are calls of the
use case.

*Course names.* That names are unique is not inductive: the index decides which
course is evicted, so the invariant has to speak of the index. `CoursesInv` says
that every course is found under its name. Entries for no course may exist
and do it no harm. `EvictOwner` frees the name for everybody but
the course at hand, `ForgetName` leaves that course as the only one that may be
without entry, and `EnterCourse` closes the gap; there is a lemma per method
that writes `courses` or the index, for both copies of the state.

*ECROS graphs.* The edges at a node are a function of the calls there
(`EdgesDetermined`): an edge from c to d exists exactly when c causes d, or the
two are concurrent and `resolution` puts c first. A receiver adds both kinds of
edges, an issuer only the first; that this makes no difference needs
`ClockCovers`: the clock of a node is at or above the clocks of all calls there,
so a new call of its own is concurrent to none of them. That resolution is its
own opposite (`ResolvedOnce`) makes the order of insertion irrelevant.

*Commitment in ECROS.* `CommitInv` is the invariant of the acknowledgements
again, over ids instead of calls: with `Handled(n)` for what a node has been
through, a call on its way was issued (`call_id < it`) and is new to the node it
goes to (`CallsUnderway`), a committed call has left the graph
(`CommittedOnce`), and `ackCounts[n][a]` is the number of other nodes, the
issuer left out, whose acknowledgement is neither unsent nor underway
(`AcksCounted`). `Required` is the number of all of them, so a count that
reaches it is everybody (`FullCount`). The steps are first described by what
they do to these sets (`SendsAck`, `Issues`, `Arrives`, `Counts`); `ExecutesOne`
and `ReceiveAckRefines` then map them to steps of `UniformStability`. A call
that `exeLocal` skips is covered: it counts as handled by its issuer.

*ECROS objects.* The object is a function of the set of calls a node has been
through, as long as these commute. `Outcome(u, Q)` is this function: each table
has its initial rows and those inserted, less those erased. It needs no order,
because a replayed call inserts or erases one row of one table (`PlainReplay`)
and `seqCommutative` never lets an insertion and an erasure of one table commute
(`OneTableConflicts`). `OutcomeReached` says that the object is the outcome, at
every node whose calls commute and were not skipped. Two facts carry it through
a step. A replay goes over calls in every order the sort may leave, skips those
in `applied` and repeats those that are not; `ReplayOutcome` shows that both are
harmless, by a walk along the states of the replay (`ReplayIsApplyAll`). And the
replay has to see all calls: the sort leaves out those on a cycle, but between
calls that commute there are only edges from deletions to relations, so Kahn's
algorithm leaves none out (`AllSorted`). That a call which was skipped stays
skipped (`SkippedStays`), that calls are those of the files (`CallsFromFiles`)
and that what is in `applied` has been handled (`AppliedHandled`) complete the
invariant `ObjectInv`.

*Start-up.* `BarrierInv` says that "init" is the first message on a connection
and that `initcounter[n]` is at most the number of nodes n has heard from
(`Heard`): those with a connection to n whose "init" is sent and no longer
underway. A count of N-1 is then everybody, each with a connection and after
its `setVars`.

*Counting of updates.* A node stops when `waittobestable` reaches the number of
updates in all files (`ExpectedCalls`, the cardinality of the set `Updates`).
Both threads load the counter and store it later, so it may fall behind and
even go back. That it is never ahead is not inductive, because what matters is
what a thread holds between load and store. `Budget` bounds all three numbers:
the counter, the value the main thread will store and the value the receiver
will store, each with the updates that are `Missing` from the object, stay
within `ExpectedCalls`. A lost increment only loosens the bound. Updates on
their way are counted as positions on connections; `MessageTaken` shows that
taking one message moves the others up and makes them one less. A counter that
has reached the number of updates thus leaves nothing missing.

*Values of updates.* That no update is lost or applied twice compares sums (of
the counter) and sets (of the grow-only set) of values, over three functions:
`IssuedValues` of what was broadcast, `IncomingValues(n)` of what is on its way
to n, by positions on connections, and `PendingValues(n)` of what n has
broadcast and not applied yet. Each step moves one value from one of them to
another or into an object, which `Adds` and `SameTotals` say per function and
`BalanceKept` adds up. Every node is reached by a broadcast because of the
barrier: who runs has a socket to every peer (`BroadcastArrives`).
`SumFunction` is a recursion over a finite set in an order that `CHOOSE` picks.
`SumExists` gives the sums of all subsets, by least counterexample, and
`SumInAnyOrder` that any element may be taken out first; then a sum does not
change when its arguments are renamed (`SumRenamed`, for messages that move up)
and grows by the value of an argument that is added (`SumOneMore`).

Only model-checked: `StableOrderAgreement` and `StableRespectsCausality` with
several issuers, which run `in_order` checks for one workload. The first is
false without `NoEarlyAck` (finding 1) and for other relations with it (finding
2), so there is nothing to prove for every instance beyond one issuer.
Everything about liveness is model-checked only: it is outside what the prover
can do, as is ENABLED.

## 5. Not modelled

- `markNodeFailed` in the monitor thread (main, after a socket error): it works
  on `priorityQueue` while the receiver thread does, and on
  `send_ack_call_list` as both threads copy, extend and store it. A data race on
  a vector has no defined set of outcomes to choose from. `HamsouFailure`
  has `markNodeFailed` where a shutdown message starts it.
- Sockets that fail without a shutdown message, reconnects of running nodes, and
  messages that are sent in part.
- Op-based CRDTs (`op-crdt-*.hpp`): they do not compile at this commit
  (`setVars` and `num_nodes` are missing), and their branch of `remoteHandler`
  shares a vector between threads without a lock.
- `ecros-complex-courseware.hpp`: the tables of complex courseware once more;
  the protocol treats it like the five objects that are modelled.
- Complex courseware under the protocol (its states are checked on their own),
  and the reading of workload files (`readBenchFile`): every workload is a
  constant of the models.
- `FAILURE_MODE`'s early stop, statistics and the rate limiter.
- The older protocols, which no target builds; utilities, generators, scripts
  and notebooks; `HamsazinC/`, `junction/` and `turf/`, which are other projects
  and libraries and make up most of the source lines here.

## 6. What could follow

- A repair of findings 1 and 2 (running the stabilizer after an insertion, and
  placing a call before it waits), and agreement as a theorem about it.
- That the twelve missing edges of complex courseware are all, for every id and
  name.
