---------------------------- MODULE HamsouObject ----------------------------
(***************************************************************************)
(* The protocol together with the object it replicates.  The handler keeps *)
(* two copies of the object's state: obj.current_state, to which a call is *)
(* applied when it is executed, whatever its place in the execution list,  *)
(* and obj.stable_state, to which the calls are applied in the order of    *)
(* the list when they become stable.                                       *)
(***************************************************************************)
EXTENDS HamsouProperties

CONSTANTS
  States,                    \* the states of the object
  InitialState,              \* the state of a new object
  UpdateCurrentState(_, _),  \* the use case's updateCurrentState
  UpdateStableState(_, _)    \* the use case's updateStableState

VARIABLES
  current_state, stable_state,
  applied  \* history: the calls in the order they were applied to current_state

objectVars == <<current_state, stable_state, applied>>

ObjectInit ==
  /\ Init
  /\ current_state = [n \in Node |-> InitialState]
  /\ stable_state = [n \in Node |-> InitialState]
  /\ applied = [n \in Node |-> <<>>]

ApplyToCurrent(n, c) ==
  /\ current_state' = [current_state EXCEPT ![n] = UpdateCurrentState(@, c)]
  /\ applied' = [applied EXCEPT ![n] = Append(@, c)]
  /\ UNCHANGED stable_state

(* localHandler *)
ExecuteLocalOnObject(n) == ExecuteLocal(n) /\ ApplyToCurrent(n, NextCall(n))

(* remoteHandler *)
ExecuteRemoteOnObject(n) == ExecuteRemote(n) /\ ApplyToCurrent(n, receiver[n].call)

(* The calls that a step makes stable, in the order of the list. *)
NewlyStable(n) == SubSeq(executionList[n], stable_index[n] + 1, stable_index'[n])

(* stabilizerWithAck *)
StabilizeOnObject(n, m) ==
  /\ ReceiveAck(n, m)
  /\ stable_state' = [stable_state EXCEPT
       ![n] = FoldLeft(UpdateStableState, @, NewlyStable(n))]
  /\ UNCHANGED <<current_state, applied>>

(* All other steps leave the object alone. *)
NotOnObject(n) ==
  /\ \/ SendAck(n) \/ NoAckToSend(n) \/ RefuseLocal(n)
     \/ RecordAck(n) \/ DrainQueue(n)
     \/ \E m \in Node \ {n} : ReceiveCall(n, m)
  /\ UNCHANGED objectVars

ObjectNext ==
  \E n \in Node :
    \/ ExecuteLocalOnObject(n) \/ ExecuteRemoteOnObject(n) \/ NotOnObject(n)
    \/ \E m \in Node \ {n} : StabilizeOnObject(n, m)

ObjectSpec == ObjectInit /\ [][ObjectNext]_<<vars, objectVars>>

-----------------------------------------------------------------------------
(***************************************************************************)
(* Convergence: two nodes at which the same calls are stable have the same *)
(* stable state.                                                           *)
(***************************************************************************)
StableStatesConverge ==
  \A n, m \in Node : Stable(n) = Stable(m) => stable_state[n] = stable_state[m]

(* Calls whose order makes no difference to the object. *)
Commute(c, d) ==
  \A s \in States : UpdateStableState(UpdateStableState(s, c), d)
                       = UpdateStableState(UpdateStableState(s, d), c)

(* Calls that do not commute were applied at n in the order of its list. *)
AppliedInOrder(n) ==
  \A i, k \in DOMAIN applied[n] :
    i < k /\ ~Commute(applied[n][i], applied[n][k])
      => Position(executionList[n], applied[n][i]) < Position(executionList[n], applied[n][k])

(* What the stable state of n becomes when all calls of its list are stable. *)
Outlook(n) ==
  FoldLeft(UpdateStableState, stable_state[n],
           SubSeq(executionList[n], stable_index[n] + 1, Len(executionList[n])))

(***************************************************************************)
(* What a node shows early is what becomes final: at every moment the      *)
(* current state, to which calls are applied as they come, is the stable   *)
(* state with the unstable part of the list on top, although calls were    *)
(* put into the list before others that had been applied, and although two *)
(* methods update the two states.  The only exception is a call that does  *)
(* not commute with one it was put before: remoteHandler does not redo the *)
(* current state then.                                                     *)
(***************************************************************************)
OptimismConfirmed ==
  \A n \in Node : AppliedInOrder(n) => current_state[n] = Outlook(n)
=============================================================================
