------------------------------ MODULE Startup -------------------------------
(***************************************************************************)
(* How the nodes of a cluster find each other before the first call: the   *)
(* connections (tcp/ServersCommunicationLayer.cpp, ServerConnection.cpp),  *)
(* the fixed sleep, setVars, and the barrier of init messages              *)
(* (tcp/main-replication-protocols.cpp).                                   *)
(*                                                                         *)
(* A node connects to all nodes with a smaller id when it starts, and dies *)
(* of an uncaught exception if one of them is not listening.  Nodes with a *)
(* greater id are accepted by a thread of their own.  A message to a node  *)
(* whose socket is not there yet is dropped.                               *)
(***************************************************************************)
EXTENDS Integers, Sequences

CONSTANT N   \* numnodes; nodes are numbered from 1

Node == 1..N

ASSUME NAssumption == N \in Nat \ {0, 1}

Phases == {"off", "connect", "sleep", "init", "barrier", "run", "dead"}

VARIABLES
  patient,      \* do scripts and sleep leave enough time? (constant)
  phase,        \* phase[n]: how far the main thread of n is
  connecting,   \* connecting[n]: the node n connects to next
  backlog,      \* backlog[n]: the nodes whose connection n has to accept
  socket,       \* socket[n]: the nodes to which n has a socket
  toInit,       \* toInit[n]: the nodes n still has to send "init"
  initcounter,
  net           \* net[m][n]: the messages sent by m, not yet read by n

startVars == <<patient, phase, connecting, backlog, socket, toInit, initcounter>>
vars == <<startVars, net>>

InitMessage == [kind |-> "Init"]

Peers(n) == Node \ {n}

(* The constructor has run: accepting and receiving threads are there. *)
Started(n) == phase[n] \in {"sleep", "init", "barrier", "run"}

(* setVars has run. *)
Ready(n) == phase[n] \in {"init", "barrier", "run"}

StartInit ==
  /\ patient \in BOOLEAN
  /\ phase = [n \in Node |-> "off"]
  /\ connecting = [n \in Node |-> 1]
  /\ backlog = [n \in Node |-> {}]
  /\ socket = [n \in Node |-> {}]
  /\ toInit = [n \in Node |-> {}]
  /\ initcounter = [n \in Node |-> 0]
  /\ net = [m \in Node |-> [n \in Node |-> <<>>]]

-----------------------------------------------------------------------------
(* The process is started; it listens before it connects. *)
Start(n) ==
  /\ phase[n] = "off"
  /\ patient => \A m \in 1..(n - 1) : phase[m] # "off"
  /\ phase' = [phase EXCEPT ![n] = "connect"]
  /\ UNCHANGED <<patient, connecting, backlog, socket, toInit, initcounter, net>>

(* connectAll, one connection. *)
Connect(n) ==
  /\ phase[n] = "connect" /\ connecting[n] < n
  /\ LET m == connecting[n] IN
     IF phase[m] \in {"off", "dead"}
     THEN /\ phase' = [phase EXCEPT ![n] = "dead"]
          /\ UNCHANGED <<connecting, backlog, socket>>
     ELSE /\ socket' = [socket EXCEPT ![n] = @ \cup {m}]
          /\ backlog' = [backlog EXCEPT ![m] = @ \cup {n}]
          /\ connecting' = [connecting EXCEPT ![n] = @ + 1]
          /\ UNCHANGED phase
  /\ UNCHANGED <<patient, toInit, initcounter, net>>

(* The end of the constructor; the threads are started and the node sleeps. *)
Sleep(n) ==
  /\ phase[n] = "connect" /\ connecting[n] = n
  /\ phase' = [phase EXCEPT ![n] = "sleep"]
  /\ UNCHANGED <<patient, connecting, backlog, socket, toInit, initcounter, net>>

(* The accepting thread: reconnect. *)
Accept(n, m) ==
  /\ Started(n) /\ m \in backlog[n]
  /\ backlog' = [backlog EXCEPT ![n] = @ \ {m}]
  /\ socket' = [socket EXCEPT ![n] = @ \cup {m}]
  /\ UNCHANGED <<patient, phase, connecting, toInit, initcounter, net>>

(***************************************************************************)
(* The sleep ends: readBenchFile and setVars.  With enough time every      *)
(* other node is connected by then.                                        *)
(***************************************************************************)
SetVars(n) ==
  /\ phase[n] = "sleep"
  /\ patient => socket[n] = Peers(n)
  /\ phase' = [phase EXCEPT ![n] = "init"]
  /\ toInit' = [toInit EXCEPT ![n] = Peers(n)]
  /\ UNCHANGED <<patient, connecting, backlog, socket, initcounter, net>>

(* broadcast of "init", one connection. *)
SendInit(n, m) ==
  /\ phase[n] = "init" /\ m \in toInit[n]
  /\ toInit' = [toInit EXCEPT ![n] = @ \ {m}]
  /\ net' = [net EXCEPT ![n][m] = IF m \in socket[n] THEN Append(@, InitMessage) ELSE @]
  /\ UNCHANGED <<patient, phase, connecting, backlog, socket, initcounter>>

EnterBarrier(n) ==
  /\ phase[n] = "init" /\ toInit[n] = {}
  /\ phase' = [phase EXCEPT ![n] = "barrier"]
  /\ UNCHANGED <<patient, connecting, backlog, socket, toInit, initcounter, net>>

(* The receiver thread, on an init message. *)
ReceiveInit(n, m) ==
  /\ Started(n) /\ m \in socket[n]
  /\ net[m][n] # <<>> /\ Head(net[m][n]).kind = "Init"
  /\ net' = [net EXCEPT ![m][n] = Tail(@)]
  /\ initcounter' = [initcounter EXCEPT ![n] = @ + 1]
  /\ UNCHANGED <<patient, phase, connecting, backlog, socket, toInit>>

(* Mutants of LeaveBarrier: the node counts itself, for better or worse. *)
MutLeaveEarly(n) ==
  /\ phase[n] = "barrier" /\ initcounter[n] >= N - 2
  /\ phase' = [phase EXCEPT ![n] = "run"]
  /\ UNCHANGED <<patient, connecting, backlog, socket, toInit, initcounter, net>>
MutLeaveNever(n) ==
  /\ phase[n] = "barrier" /\ initcounter[n] = N
  /\ phase' = [phase EXCEPT ![n] = "run"]
  /\ UNCHANGED <<patient, connecting, backlog, socket, toInit, initcounter, net>>

LeaveBarrier(n) ==
  /\ phase[n] = "barrier" /\ initcounter[n] = N - 1
  /\ phase' = [phase EXCEPT ![n] = "run"]
  /\ UNCHANGED <<patient, connecting, backlog, socket, toInit, initcounter, net>>

StartNext ==
  \E n \in Node :
    \/ Start(n) \/ Connect(n) \/ Sleep(n) \/ SetVars(n) \/ EnterBarrier(n) \/ LeaveBarrier(n)
    \/ \E m \in Peers(n) : Accept(n, m) \/ SendInit(n, m) \/ ReceiveInit(n, m)

StartSpec == StartInit /\ [][StartNext]_vars

StartFairness ==
  \A n \in Node :
    /\ WF_vars(Start(n) \/ Connect(n) \/ Sleep(n) \/ SetVars(n) \/ EnterBarrier(n) \/ LeaveBarrier(n)
                 \/ \E m \in Peers(n) : SendInit(n, m))
    /\ \A m \in Peers(n) : WF_vars(Accept(n, m)) /\ WF_vars(ReceiveInit(n, m))

-----------------------------------------------------------------------------
(***************************************************************************)
(* Who has left the barrier has a socket to every other node, so nothing   *)
(* it broadcasts is dropped, and every other node has run setVars, so its  *)
(* handler is ready for what it receives.                                  *)
(***************************************************************************)
BarrierHolds ==
  \A n \in Node : phase[n] = "run" => socket[n] = Peers(n) /\ \A m \in Node : Ready(m)
=============================================================================
