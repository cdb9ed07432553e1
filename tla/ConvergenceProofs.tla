------------------------- MODULE ConvergenceProofs -------------------------
(***************************************************************************)
(* Proofs, for every number of nodes and every workload, that              *)
(*   - the stable state of a node is what its stable calls make of the     *)
(*     initial state;                                                      *)
(*   - nodes which agree on the order of conflicting calls have the same   *)
(*     stable state once the same calls are stable there;                  *)
(*   - when one node issues all calls, every node executes them in the     *)
(*     order of their numbers: the nodes agree, the order is causal, and   *)
(*     what a node showed early is what becomes stable.                    *)
(***************************************************************************)
EXTENDS HamsouObject, StabilityProofs, UseCases

(* State contains all states of the object. *)
UpdatesStayIn(State) ==
  /\ InitialState \in State
  /\ \A s \in State, c \in Call : UpdateStableState(s, c) \in State

(***************************************************************************)
(* What the handler relies on in a use case: calls that the conflict       *)
(* relation leaves unordered commute in all states.                        *)
(***************************************************************************)
ObjectOver(State) ==
  /\ UpdatesStayIn(State)
  /\ \A s \in State, c, d \in Call :
       ~Conflict(c, d) => UpdateStableState(UpdateStableState(s, c), d)
                            = UpdateStableState(UpdateStableState(s, d), c)

(* updateStableState as a function of the call and the state. *)
Effect(State) == [c \in Call |-> [s \in State |-> UpdateStableState(s, c)]]

(* What it does to a state. *)
LEMMA EffectOfCall ==
  ASSUME NEW State, UpdatesStayIn(State)
  PROVE  /\ Effect(State) \in Effects(State, Call)
         /\ \A c \in Call, s \in State : Effect(State)[c][s] = UpdateStableState(s, c)
<1>1. \A c \in Call : [s \in State |-> UpdateStableState(s, c)] \in [State -> State]
  BY DEF UpdatesStayIn
<1>2. Effect(State) \in [Call -> [State -> State]]
  BY <1>1 DEF Effect
<1> QED BY <1>2 DEF Effects, Effect

(* Folding updateStableState over a list of calls is applying them in turn. *)
LEMMA FoldIsApplyAll ==
  ASSUME NEW State, UpdatesStayIn(State), NEW x \in State, NEW s \in Seq(Call)
  PROVE  FoldLeft(UpdateStableState, x, s) = ApplyAll(Effect(State), x, s)
<1> DEFINE D == DOMAIN s
           p == CHOOSE p : p = [S \in SUBSET D |->
                  IF S = {} THEN x ELSE UpdateStableState(p[S \ {Max(S)}], s[Max(S)])]
           u == Effect(State)
<1>1. FoldLeft(UpdateStableState, x, s) = p[D]
  BY DEF FoldLeft, MapThenFoldSet
<1>2. /\ u \in Effects(State, Call)
      /\ \A c \in Call, y \in State : u[c][y] = UpdateStableState(y, c)
  BY EffectOfCall
<1> HIDE DEF u
<1>3. D = 1..Len(s) /\ Len(s) \in Nat
  OBVIOUS
<1>4. ASSUME NEW S \in SUBSET D, S # {} PROVE s[Max(S)] \in Call /\ S \ {Max(S)} \in SUBSET D
  <2>1. Max(S) \in S
    BY <1>3, <1>4, GreatestPosition
  <2> QED BY <1>3, <2>1
<1>5. PICK q \in [SUBSET D -> State] : ArePartials(q, u, x, s)
  BY <1>2, PartialsExist
<1>6. \A S \in SUBSET D : q[S] = IF S = {} THEN x ELSE u[s[Max(S)]][q[S \ {Max(S)}]]
  BY <1>5 DEF ArePartials
<1>7. ASSUME NEW S \in SUBSET D
      PROVE  q[S] = IF S = {} THEN x ELSE UpdateStableState(q[S \ {Max(S)}], s[Max(S)])
  BY <1>2, <1>4, <1>6
<1>8. q = [S \in SUBSET D |-> IF S = {} THEN x ELSE UpdateStableState(q[S \ {Max(S)}], s[Max(S)])]
  BY <1>6, <1>7
<1>9. p = [S \in SUBSET D |-> IF S = {} THEN x ELSE UpdateStableState(p[S \ {Max(S)}], s[Max(S)])]
  BY <1>8
<1> HIDE DEF p
<1>10. p[{}] = x
  BY <1>9
<1>11. ASSUME NEW S \in SUBSET D, S # {}, p[S \ {Max(S)}] \in State
       PROVE  p[S] = u[s[Max(S)]][p[S \ {Max(S)}]]
  <2>1. p[S] = UpdateStableState(p[S \ {Max(S)}], s[Max(S)])
    BY <1>9, <1>11
  <2> QED BY <1>2, <1>4, <1>11, <2>1
<1>12. ArePartialsIn(State, p, u, x, s)
  BY <1>10, <1>11 DEF ArePartialsIn
<1>13. p[D] = ApplyAll(u, x, s)
  BY <1>2, <1>12, PartialsEnd
<1> QED BY <1>1, <1>13 DEF u

-----------------------------------------------------------------------------
(* The object changes nothing of the protocol. *)
LEMMA ObjectStepIsStep == ASSUME [ObjectNext]_<<vars, objectVars>> PROVE [Next]_vars
<1>1. CASE UNCHANGED <<vars, objectVars>>
  BY <1>1
<1>2. CASE ObjectNext
  <2>1. PICK n \in Node :
          \/ ExecuteLocalOnObject(n) \/ ExecuteRemoteOnObject(n) \/ NotOnObject(n)
          \/ \E m \in Node \ {n} : StabilizeOnObject(n, m)
    BY <1>2 DEF ObjectNext
  <2>2. Main(n) \/ Receiver(n)
    BY <2>1 DEF ExecuteLocalOnObject, ExecuteRemoteOnObject, NotOnObject, StabilizeOnObject,
       Main, Receiver, Receive
  <2> QED BY <2>2 DEF Next
<1> QED BY <1>1, <1>2

(* A behaviour of the object is one of the protocol. *)
LEMMA ObjectBehaviour == ObjectSpec => Spec
<1>1. ObjectInit => Init
  BY DEF ObjectInit
<1> QED BY <1>1, ObjectStepIsStep, PTL DEF ObjectSpec, Spec

(***************************************************************************)
(* The invariant: a node's stable state is what the stable prefix of its   *)
(* execution list makes of the initial state.                              *)
(***************************************************************************)
StableCallsApplied(State) ==
  /\ stable_state \in [Node -> State]
  /\ \A n \in Node :
       stable_state[n] = ApplyAll(Effect(State), InitialState, StablePrefix(n))

(* A stabilization applies the calls that it adds to the prefix. *)
LEMMA StabilizeApplies ==
  ASSUME NEW State, UpdatesStayIn(State), IInv, IInv', StableCallsApplied(State),
         NEW n \in Node, NEW m \in Node, StabilizeOnObject(n, m)
  PROVE  StableCallsApplied(State)'
<1> DEFINE s == executionList[n]
           i == stable_index[n]
           j == stable_index'[n]
           x == ApplyAll(Effect(State), InitialState, StablePrefix(n))
<1>1. ReceiveAck(n, m) /\ executionList' = executionList
  BY DEF StabilizeOnObject, ReceiveAck
<1>2. \A r \in Node : PrefixKept(r)
  BY <1>1, ReceiveAckKeeps
<1>3. s \in Seq(Call) /\ i \in Nat /\ j \in Nat /\ i <= j /\ j <= Len(s)
  BY <1>1, <1>2 DEF IInv, TypeOK, StableWithinList, PrefixKept
<1>4. /\ stable_state \in [Node -> State]
      /\ stable_state[n] = x
      /\ stable_state' = [stable_state EXCEPT
            ![n] = FoldLeft(UpdateStableState, @, NewlyStable(n))]
  BY DEF StableCallsApplied, StabilizeOnObject
<1>5. /\ SubSeq(s, 1, i) \in Seq(Call) /\ SubSeq(s, 1, j) \in Seq(Call)
      /\ SubSeq(s, i + 1, j) \in Seq(Call)
      /\ Joins(SubSeq(s, 1, j), SubSeq(s, 1, i), SubSeq(s, i + 1, j))
  BY <1>3, BeginningInTwoParts
<1>6. Effect(State) \in Effects(State, Call) /\ InitialState \in State
  BY EffectOfCall DEF UpdatesStayIn
<1>7. x \in State
  <2>1. StablePrefix(n) \in Seq(Call)
    BY <1>5 DEF StablePrefix
  <2> QED BY <1>6, <2>1, ApplyAllType
<1>8. FoldLeft(UpdateStableState, x, NewlyStable(n)) = ApplyAll(Effect(State), x, NewlyStable(n))
  <2>1. NewlyStable(n) \in Seq(Call)
    BY <1>5 DEF NewlyStable
  <2> HIDE DEF x
  <2> QED BY <1>7, <2>1, FoldIsApplyAll
<1>9. ApplyAll(Effect(State), InitialState, SubSeq(s, 1, j)) = ApplyAll(Effect(State), x, NewlyStable(n))
  <2>1. x = ApplyAll(Effect(State), InitialState, SubSeq(s, 1, i))
    BY DEF StablePrefix
  <2>2. NewlyStable(n) = SubSeq(s, i + 1, j)
    BY DEF NewlyStable
  <2> HIDE DEF x, s, i, j
  <2> DEFINE p == SubSeq(s, 1, j)
             a == SubSeq(s, 1, i)
             r == SubSeq(s, i + 1, j)
             u == Effect(State)
  <2>3. /\ p \in Seq(Call) /\ a \in Seq(Call) /\ r \in Seq(Call) /\ Joins(p, a, r)
        /\ u \in Effects(State, Call) /\ InitialState \in State
    BY <1>5, <1>6
  <2> HIDE DEF p, a, r, u
  <2>4. ApplyAll(u, InitialState, p) = ApplyAll(u, ApplyAll(u, InitialState, a), r)
    BY <2>3, ApplyInTwoParts
  <2> QED BY <2>1, <2>2, <2>4 DEF p, a, r, u
<1>10. StablePrefix(n)' = SubSeq(s, 1, j)
  BY <1>1 DEF StablePrefix
<1>11. stable_state'[n] = ApplyAll(Effect(State), InitialState, StablePrefix(n)')
  <2> HIDE DEF x
  <2>1. stable_state'[n] = FoldLeft(UpdateStableState, x, NewlyStable(n))
    BY <1>4
  <2> QED BY <1>8, <1>9, <1>10, <2>1
<1>12. FoldLeft(UpdateStableState, x, NewlyStable(n)) \in State
  <2>1. NewlyStable(n) \in Seq(Call)
    BY <1>5 DEF NewlyStable
  <2> HIDE DEF x
  <2>2. ApplyAll(Effect(State), x, NewlyStable(n)) \in State
    BY <1>6, <1>7, <2>1, ApplyAllType
  <2> QED BY <1>8, <2>2
<1>13. stable_state' \in [Node -> State]
  <2> HIDE DEF x
  <2> QED BY <1>4, <1>12
<1>14. ASSUME NEW r \in Node, r # n
       PROVE  stable_state'[r] = ApplyAll(Effect(State), InitialState, StablePrefix(r)')
  <2>1. stable_state'[r] = stable_state[r]
    BY <1>4, <1>14
  <2>2. stable_index'[r] = stable_index[r]
    BY <1>1, <1>14 DEF ReceiveAck, IInv, TypeOK
  <2> QED BY <1>1, <2>1, <2>2 DEF StableCallsApplied, StablePrefix
<1> QED BY <1>11, <1>13, <1>14 DEF StableCallsApplied

(* At first nothing is stable. *)
LEMMA InitApplies ==
  ASSUME NEW State, UpdatesStayIn(State), ObjectInit
  PROVE  StableCallsApplied(State)
<1>1. stable_state \in [Node -> State]
  BY DEF ObjectInit, UpdatesStayIn
<1>2. ASSUME NEW n \in Node PROVE StablePrefix(n) = <<>>
  <2>1. executionList[n] = <<>> /\ stable_index[n] = 0
    BY DEF ObjectInit, Init
  <2> QED BY <2>1 DEF StablePrefix
<1>3. ApplyAll(Effect(State), InitialState, <<>>) = InitialState
  BY ApplyNothing
<1> QED BY <1>1, <1>2, <1>3 DEF ObjectInit, StableCallsApplied

(* Only stabilizations touch stable states and stable prefixes. *)
LEMMA StepApplies ==
  ASSUME NEW State, UpdatesStayIn(State), IInv, IInv', StableCallsApplied(State),
         [ObjectNext]_<<vars, objectVars>>
  PROVE  StableCallsApplied(State)'
<1>1. CASE \E n \in Node : \E m \in Node \ {n} : StabilizeOnObject(n, m)
  BY <1>1, StabilizeApplies
<1>2. CASE stable_state' = stable_state /\ stable_index' = stable_index
  <2>1. ASSUME NEW n \in Node PROVE StablePrefix(n)' = StablePrefix(n)
    <3>1. PrefixKept(n)
      BY ObjectStepIsStep, StepKeepsPrefix
    <3>2. /\ executionList[n] \in Seq(Call) /\ executionList'[n] \in Seq(Call)
          /\ stable_index[n] \in Nat /\ stable_index[n] <= Len(executionList[n])
          /\ stable_index[n] <= Len(executionList'[n])
      BY <1>2 DEF IInv, TypeOK, StableWithinList
    <3> DEFINE s == executionList[n]
               t == executionList'[n]
               i == stable_index[n]
    <3>3. \A k \in 1..i : t[k] = s[k]
      BY <3>1 DEF PrefixKept
    <3>4. s \in Seq(Call) /\ t \in Seq(Call) /\ i \in 0..Len(s) /\ i \in 0..Len(t)
      BY <3>2
    <3>5. StablePrefix(n) = SubSeq(s, 1, i) /\ StablePrefix(n)' = SubSeq(t, 1, i)
      BY <1>2 DEF StablePrefix
    <3> HIDE DEF s, t, i
    <3>6. SubSeq(s, 1, i) = SubSeq(t, 1, i)
      BY <3>3, <3>4, SameBeginnings
    <3> QED BY <3>5, <3>6
  <2> QED BY <1>2, <2>1 DEF StableCallsApplied
<1>3. \/ stable_state' = stable_state /\ stable_index' = stable_index
      \/ \E n \in Node : \E m \in Node \ {n} : StabilizeOnObject(n, m)
  BY DEF ObjectNext, ExecuteLocalOnObject, ExecuteRemoteOnObject, NotOnObject, ApplyToCurrent,
     ExecuteLocal, ExecuteRemote, SendAck, NoAckToSend, RefuseLocal, RecordAck, DrainQueue,
     ReceiveCall, vars, handlerVars, objectVars
<1> QED BY <1>1, <1>2, <1>3

(* The stable state is what the stable calls make of the initial state. *)
LEMMA StableCallsAreApplied ==
  ASSUME NEW State, UpdatesStayIn(State)
  PROVE  ObjectSpec => [](StabilityInv /\ StableCallsApplied(State))
<1>1. ObjectSpec => []StabilityInv
  BY ObjectBehaviour, StabilityInvariance, PTL
<1>2. ObjectInit => StableCallsApplied(State)
  BY InitApplies
<1>3. /\ StabilityInv /\ StabilityInv' /\ StableCallsApplied(State)
      /\ [ObjectNext]_<<vars, objectVars>>
      => StableCallsApplied(State)'
  BY StepApplies DEF StabilityInv
<1> QED BY <1>1, <1>2, <1>3, PTL DEF ObjectSpec

-----------------------------------------------------------------------------
(* Convergence.                                                            *)

Conflicting == {p \in Call \X Call : Conflict(p[1], p[2])}

(* The stable prefix is a list of calls without repetitions. *)
LEMMA StablePrefixOnce ==
  ASSUME StabilityInv, NEW n \in Node
  PROVE  /\ StablePrefix(n) \in Seq(Call) /\ IsInjective(StablePrefix(n))
         /\ \A i \in 1..Len(StablePrefix(n)) :
              Position(executionList[n], StablePrefix(n)[i]) = i
<1> DEFINE s == executionList[n]
           p == StablePrefix(n)
           l == stable_index[n]
<1>1. s \in Seq(Call) /\ l \in 0..Len(s) /\ IsInjective(s)
  BY DEF StabilityInv, IInv, TypeOK, StableWithinList, CallInv, CallsOnce
<1>2. p = SubSeq(s, 1, l)
  BY DEF StablePrefix
<1> SUFFICES /\ p \in Seq(Call) /\ IsInjective(p)
             /\ \A i \in 1..Len(p) : Position(s, p[i]) = i
  OBVIOUS
<1> HIDE DEF s, p, l
<1>3. p \in Seq(Call) /\ Len(p) = l /\ \A k \in 1..l : p[k] = s[k] /\ k \in 1..Len(s)
  <2>1. 1 \in 1..Len(s) + 1 /\ l \in 1 - 1..Len(s) /\ l - 1 + 1 = l
    BY <1>1
  <2>2. /\ SubSeq(s, 1, l) \in Seq(Call) /\ Len(SubSeq(s, 1, l)) = l - 1 + 1
        /\ \A k \in 1..l - 1 + 1 : SubSeq(s, 1, l)[k] = s[1 + k - 1]
    BY <1>1, <2>1, SubSeqList
  <2>3. \A k \in 1..l : 1 + k - 1 = k /\ k \in 1..Len(s)
    BY <1>1
  <2> QED BY <1>2, <2>1, <2>2, <2>3
<1>4. ASSUME NEW i \in 1..Len(p), NEW k \in 1..Len(p), p[i] = p[k] PROVE i = k
  <2>1. s[i] = s[k] /\ i \in 1..Len(s) /\ k \in 1..Len(s)
    BY <1>3, <1>4
  <2> QED BY <1>1, <2>1, OnePosition
<1>5. IsInjective(p)
  <2>1. DOMAIN p = 1..Len(p)
    BY <1>3
  <2> QED BY <1>4, <2>1 DEF IsInjective
<1>6. ASSUME NEW i \in 1..Len(p) PROVE Position(s, p[i]) = i
  <2>1. i \in DOMAIN s /\ s[i] = p[i] /\ DOMAIN s = 1..Len(s)
    BY <1>1, <1>3
  <2>2. Position(s, p[i]) \in 1..Len(s) /\ s[Position(s, p[i])] = p[i]
    BY <2>1 DEF Position
  <2> QED BY <1>1, <2>1, <2>2, OnePosition
<1> QED BY <1>3, <1>5, <1>6

(* Nodes that agree have the same stable calls in the same order. *)
LEMMA StablePrefixesAlike ==
  ASSUME StabilityInv, StableOrderAgreement, NEW n \in Node, NEW m \in Node,
         Stable(n) = Stable(m)
  PROVE  Alike(StablePrefix(n), StablePrefix(m), Conflicting)
<1> DEFINE s == StablePrefix(n)
           t == StablePrefix(m)
<1>1. /\ s \in Seq(Call) /\ IsInjective(s)
      /\ \A i \in 1..Len(s) : Position(executionList[n], s[i]) = i
  BY StablePrefixOnce
<1>2. /\ t \in Seq(Call) /\ IsInjective(t)
      /\ \A i \in 1..Len(t) : Position(executionList[m], t[i]) = i
  BY StablePrefixOnce
<1>3. Range(s) = Stable(n) /\ Range(t) = Stable(m)
  BY DEF Stable
<1> HIDE DEF s, t
<1>4. ASSUME NEW i \in 1..Len(s), NEW k \in 1..Len(s), NEW j \in 1..Len(t), NEW l \in 1..Len(t),
             s[i] = t[j], s[k] = t[l], i < k, <<s[i], s[k]>> \in Conflicting
      PROVE  j < l
  <2>1. s[i] \in Stable(n) \cap Stable(m) /\ s[k] \in Stable(n) \cap Stable(m)
    BY <1>1, <1>3, InRange
  <2>2. Conflict(s[i], s[k])
    BY <1>4 DEF Conflicting
  <2>3. /\ Position(executionList[n], s[i]) = i /\ Position(executionList[n], s[k]) = k
        /\ Position(executionList[m], s[i]) = j /\ Position(executionList[m], s[k]) = l
    BY <1>1, <1>2, <1>4
  <2>4. Position(executionList[n], s[i]) < Position(executionList[n], s[k])
          <=> Position(executionList[m], s[i]) < Position(executionList[m], s[k])
    BY <2>1, <2>2 DEF StableOrderAgreement
  <2> QED BY <1>4, <2>3, <2>4
<1>5. SameOrder(s, t, Conflicting)
  BY <1>4 DEF SameOrder
<1>6. Alike(s, t, Conflicting)
  BY <1>1, <1>2, <1>3, <1>5 DEF Alike
<1> QED BY <1>6 DEF s, t

(* And so the same stable state. *)
LEMMA AgreeingNodesConverge ==
  ASSUME NEW State, ObjectOver(State), StabilityInv, StableCallsApplied(State)
  PROVE  StableOrderAgreement => StableStatesConverge
<1> SUFFICES ASSUME StableOrderAgreement, NEW n \in Node, NEW m \in Node, Stable(n) = Stable(m)
             PROVE  stable_state[n] = stable_state[m]
  BY DEF StableStatesConverge
<1> DEFINE u == Effect(State)
           s == StablePrefix(n)
           t == StablePrefix(m)
<1>1. /\ u \in Effects(State, Call) /\ InitialState \in State
      /\ \A c \in Call, y \in State : u[c][y] = UpdateStableState(y, c) /\ u[c][y] \in State
  BY EffectOfCall DEF ObjectOver, UpdatesStayIn
<1>2. s \in Seq(Call) /\ t \in Seq(Call) /\ Alike(s, t, Conflicting)
  BY StablePrefixOnce, StablePrefixesAlike
<1>3. stable_state[n] = ApplyAll(u, InitialState, s) /\ stable_state[m] = ApplyAll(u, InitialState, t)
  BY DEF StableCallsApplied
<1> HIDE DEF u, s, t
<1>4. ASSUME NEW c \in Call, NEW d \in Call, <<c, d>> \notin Conflicting
      PROVE  Swap(u, State, c, d)
  <2>1. ~Conflict(c, d)
    BY <1>4 DEF Conflicting
  <2>2. \A y \in State : u[c][u[d][y]] = u[d][u[c][y]]
    BY <1>1, <2>1 DEF ObjectOver, UpdatesStayIn
  <2> QED BY <2>2 DEF Swap
<1>5. ApplyAll(u, InitialState, s) = ApplyAll(u, InitialState, t)
  BY <1>1, <1>2, <1>4, AlikeSameEffect
<1> QED BY <1>3, <1>5

-----------------------------------------------------------------------------
(***************************************************************************)
(* The use cases of sets and rows: set.hpp, movie.hpp, project.hpp and     *)
(* courseware.hpp.                                                         *)
(***************************************************************************)
(* The object is a set. *)
ReplicatesSet ==
  /\ \A o \in Op : o.type \in SetMethods
  /\ InitialState = EmptySet
  /\ \A s, c : UpdateStableState(s, c) = SetUpdate(s, c)
  /\ \A c, d : FastIsReachableRemote(c, d) <=> SetRemote(c, d)

(* The object is a movie database. *)
ReplicatesMovie ==
  /\ \A o \in Op : o.type \in MovieMethods
  /\ InitialState = EmptyMovie
  /\ \A s, c : UpdateStableState(s, c) = MovieUpdate(s, c)
  /\ \A c, d : FastIsReachableRemote(c, d) <=> MovieReachable(c, d)

(* The object is a project database. *)
ReplicatesProject ==
  /\ \A o \in Op : o.type \in ProjectMethods
  /\ InitialState = EmptyProject
  /\ \A s, c : UpdateStableState(s, c) = ProjectUpdate(s, c)
  /\ \A c, d : FastIsReachableRemote(c, d) <=> ProjectReachable(c, d)

(* The object is a courseware database. *)
ReplicatesCourseware ==
  /\ \A o \in Op : o.type \in CoursewareMethods
  /\ InitialState = EmptyCourseware
  /\ \A s, c : UpdateStableState(s, c) = CoursewareUpdateStable(s, c)
  /\ \A c, d : FastIsReachableRemote(c, d) <=> CoursewareReachable(c, d)

ReplicatesRows ==
  ReplicatesSet \/ ReplicatesMovie \/ ReplicatesProject \/ ReplicatesCourseware

(* The rows that calls insert and erase, and the states made of them. *)
Row == {o.value1 : o \in Op} \cup {<<o.value1, o.value2>> : o \in Op}
Tables == [DOMAIN InitialState -> SUBSET Row]

(* The rows of a call. *)
LEMMA RowsOfCall ==
  ASSUME NEW c \in Call
  PROVE  c.op \in Op /\ c.op.value1 \in Row /\ PairOf(c) \in Row
<1>1. c.op \in Op
  BY DEF Call
<1> QED BY <1>1 DEF Row, PairOf

(* Insertions and erasures leave tables of rows. *)
LEMMA RowsKeepTables ==
  ASSUME NEW D, NEW R, NEW s \in [D -> SUBSET R], NEW a \in D, NEW r \in R
  PROVE  Insert(s, a, r) \in [D -> SUBSET R] /\ Erase(s, a, r) \in [D -> SUBSET R]
BY DEF Insert, Erase

(* An insertion and an erasure commute unless they are about the same table. *)
LEMMA RowStepsCommute ==
  ASSUME NEW D, NEW R, NEW s \in [D -> SUBSET R], NEW a \in D, NEW b \in D, NEW p, NEW q
  PROVE  /\ Insert(Insert(s, a, p), b, q) = Insert(Insert(s, b, q), a, p)
         /\ Erase(Erase(s, a, p), b, q) = Erase(Erase(s, b, q), a, p)
         /\ a # b => Insert(Erase(s, a, p), b, q) = Erase(Insert(s, b, q), a, p)
<1>1. Insert(Insert(s, a, p), b, q) = Insert(Insert(s, b, q), a, p)
  BY DEF Insert
<1>2. Erase(Erase(s, a, p), b, q) = Erase(Erase(s, b, q), a, p)
  BY DEF Erase
<1>3. a # b => Insert(Erase(s, a, p), b, q) = Erase(Insert(s, b, q), a, p)
  BY DEF Insert, Erase
<1> QED BY <1>1, <1>2, <1>3

(* The updates of a set leave tables, and unordered ones commute. *)
LEMMA SetOverTables == ASSUME ReplicatesSet PROVE ObjectOver(Tables)
<1>1. /\ \A c \in Call : c.op.type \in SetMethods /\ c.op.value1 \in Row /\ PairOf(c) \in Row
      /\ InitialState = EmptySet
      /\ \A s, c : UpdateStableState(s, c) = SetUpdate(s, c)
      /\ \A c, d : FastIsReachableRemote(c, d) <=> SetRemote(c, d)
  BY RowsOfCall DEF ReplicatesSet
<1> DEFINE D == DOMAIN EmptySet
<1>2. Tables = [D -> SUBSET Row] /\ InitialState \in Tables
  BY <1>1 DEF Tables, EmptySet
<1>3. ASSUME NEW s \in [D -> SUBSET Row], NEW c \in Call
      PROVE  SetUpdate(s, c) \in [D -> SUBSET Row]
  <2>1. \A a \in D, r \in Row : /\ Insert(s, a, r) \in [D -> SUBSET Row]
                              /\ Erase(s, a, r) \in [D -> SUBSET Row]
    BY RowsKeepTables
  <2>2. D = {"elements"}
    BY DEF EmptySet
  <2> HIDE DEF D
  <2> QED BY <1>1, <2>1, <2>2 DEF SetUpdate, SetMethods
<1>4. ASSUME NEW s \in [D -> SUBSET Row], NEW c \in Call, NEW d \in Call, ~Conflict(c, d)
      PROVE  SetUpdate(SetUpdate(s, c), d) = SetUpdate(SetUpdate(s, d), c)
  <2>1. \A a, b \in D : \A x, y :
          /\ Insert(Insert(s, a, x), b, y) = Insert(Insert(s, b, y), a, x)
          /\ Erase(Erase(s, a, x), b, y) = Erase(Erase(s, b, y), a, x)
          /\ a # b => Insert(Erase(s, a, x), b, y) = Erase(Insert(s, b, y), a, x)
    BY RowStepsCommute
  <2>2. D = {"elements"}
    BY DEF EmptySet
  <2>3. /\ c.op.type \in SetMethods /\ d.op.type \in SetMethods
        /\ ~SetRemote(c, d) /\ ~SetRemote(d, c)
    BY <1>1, <1>4 DEF Conflict
  <2> HIDE DEF D
  <2> QED BY <2>1, <2>2, <2>3 DEF SetUpdate, SetMethods, SetRemote, Types
<1> QED BY <1>1, <1>2, <1>3, <1>4 DEF ObjectOver, UpdatesStayIn

(* The updates of a movie database leave tables, and unordered ones commute. *)
LEMMA MovieOverTables == ASSUME ReplicatesMovie PROVE ObjectOver(Tables)
<1>1. /\ \A c \in Call : c.op.type \in MovieMethods /\ c.op.value1 \in Row /\ PairOf(c) \in Row
      /\ InitialState = EmptyMovie
      /\ \A s, c : UpdateStableState(s, c) = MovieUpdate(s, c)
      /\ \A c, d : FastIsReachableRemote(c, d) <=> MovieReachable(c, d)
  BY RowsOfCall DEF ReplicatesMovie
<1> DEFINE D == DOMAIN EmptyMovie
<1>2. Tables = [D -> SUBSET Row] /\ InitialState \in Tables
  BY <1>1 DEF Tables, EmptyMovie
<1>3. ASSUME NEW s \in [D -> SUBSET Row], NEW c \in Call
      PROVE  MovieUpdate(s, c) \in [D -> SUBSET Row]
  <2>1. \A a \in D, r \in Row : /\ Insert(s, a, r) \in [D -> SUBSET Row]
                              /\ Erase(s, a, r) \in [D -> SUBSET Row]
    BY RowsKeepTables
  <2>2. D = {"movie_ids", "customer_ids"}
    BY DEF EmptyMovie
  <2> HIDE DEF D
  <2> QED BY <1>1, <2>1, <2>2 DEF MovieUpdate, MovieMethods
<1>4. ASSUME NEW s \in [D -> SUBSET Row], NEW c \in Call, NEW d \in Call, ~Conflict(c, d)
      PROVE  MovieUpdate(MovieUpdate(s, c), d) = MovieUpdate(MovieUpdate(s, d), c)
  <2>1. \A a, b \in D : \A x, y :
          /\ Insert(Insert(s, a, x), b, y) = Insert(Insert(s, b, y), a, x)
          /\ Erase(Erase(s, a, x), b, y) = Erase(Erase(s, b, y), a, x)
          /\ a # b => Insert(Erase(s, a, x), b, y) = Erase(Insert(s, b, y), a, x)
    BY RowStepsCommute
  <2>2. D = {"movie_ids", "customer_ids"}
    BY DEF EmptyMovie
  <2>3. /\ c.op.type \in MovieMethods /\ d.op.type \in MovieMethods
        /\ ~MovieReachable(c, d) /\ ~MovieReachable(d, c)
    BY <1>1, <1>4 DEF Conflict
  <2> HIDE DEF D
  <2> QED BY <2>1, <2>2, <2>3 DEF MovieUpdate, MovieMethods, MovieReachable, MovieEdges, Types
<1> QED BY <1>1, <1>2, <1>3, <1>4 DEF ObjectOver, UpdatesStayIn

(* The updates of a project database leave tables, and unordered ones commute. *)
LEMMA ProjectOverTables == ASSUME ReplicatesProject PROVE ObjectOver(Tables)
<1>1. /\ \A c \in Call : c.op.type \in ProjectMethods /\ c.op.value1 \in Row /\ PairOf(c) \in Row
      /\ InitialState = EmptyProject
      /\ \A s, c : UpdateStableState(s, c) = ProjectUpdate(s, c)
      /\ \A c, d : FastIsReachableRemote(c, d) <=> ProjectReachable(c, d)
  BY RowsOfCall DEF ReplicatesProject
<1> DEFINE D == DOMAIN EmptyProject
<1>2. Tables = [D -> SUBSET Row] /\ InitialState \in Tables
  BY <1>1 DEF Tables, EmptyProject
<1>3. ASSUME NEW s \in [D -> SUBSET Row], NEW c \in Call
      PROVE  ProjectUpdate(s, c) \in [D -> SUBSET Row]
  <2>1. \A a \in D, r \in Row : /\ Insert(s, a, r) \in [D -> SUBSET Row]
                              /\ Erase(s, a, r) \in [D -> SUBSET Row]
    BY RowsKeepTables
  <2>2. D = {"project_ids", "employee_ids", "works"}
    BY DEF EmptyProject
  <2> HIDE DEF D
  <2> QED BY <1>1, <2>1, <2>2 DEF ProjectUpdate, ProjectMethods
<1>4. ASSUME NEW s \in [D -> SUBSET Row], NEW c \in Call, NEW d \in Call, ~Conflict(c, d)
      PROVE  ProjectUpdate(ProjectUpdate(s, c), d) = ProjectUpdate(ProjectUpdate(s, d), c)
  <2>1. \A a, b \in D : \A x, y :
          /\ Insert(Insert(s, a, x), b, y) = Insert(Insert(s, b, y), a, x)
          /\ Erase(Erase(s, a, x), b, y) = Erase(Erase(s, b, y), a, x)
          /\ a # b => Insert(Erase(s, a, x), b, y) = Erase(Insert(s, b, y), a, x)
    BY RowStepsCommute
  <2>2. D = {"project_ids", "employee_ids", "works"}
    BY DEF EmptyProject
  <2>3. /\ c.op.type \in ProjectMethods /\ d.op.type \in ProjectMethods
        /\ ~ProjectReachable(c, d) /\ ~ProjectReachable(d, c)
    BY <1>1, <1>4 DEF Conflict
  <2> HIDE DEF D
  <2> QED BY <2>1, <2>2, <2>3 DEF ProjectUpdate, ProjectMethods, ProjectReachable, ProjectEdges, Types
<1> QED BY <1>1, <1>2, <1>3, <1>4 DEF ObjectOver, UpdatesStayIn

(* The updates of a courseware database leave tables, and unordered ones commute. *)
LEMMA CoursewareOverTables == ASSUME ReplicatesCourseware PROVE ObjectOver(Tables)
<1>1. /\ \A c \in Call : c.op.type \in CoursewareMethods /\ c.op.value1 \in Row /\ PairOf(c) \in Row
      /\ InitialState = EmptyCourseware
      /\ \A s, c : UpdateStableState(s, c) = CoursewareUpdateStable(s, c)
      /\ \A c, d : FastIsReachableRemote(c, d) <=> CoursewareReachable(c, d)
  BY RowsOfCall DEF ReplicatesCourseware
<1> DEFINE D == DOMAIN EmptyCourseware
<1>2. Tables = [D -> SUBSET Row] /\ InitialState \in Tables
  BY <1>1 DEF Tables, EmptyCourseware
<1>3. ASSUME NEW s \in [D -> SUBSET Row], NEW c \in Call
      PROVE  CoursewareUpdateStable(s, c) \in [D -> SUBSET Row]
  <2>1. \A a \in D, r \in Row : /\ Insert(s, a, r) \in [D -> SUBSET Row]
                              /\ Erase(s, a, r) \in [D -> SUBSET Row]
    BY RowsKeepTables
  <2>2. D = {"student_ids", "course_ids", "enroll"}
    BY DEF EmptyCourseware
  <2> HIDE DEF D
  <2> QED BY <1>1, <2>1, <2>2 DEF CoursewareUpdateStable, CoursewareMethods
<1>4. ASSUME NEW s \in [D -> SUBSET Row], NEW c \in Call, NEW d \in Call, ~Conflict(c, d)
      PROVE  CoursewareUpdateStable(CoursewareUpdateStable(s, c), d)
               = CoursewareUpdateStable(CoursewareUpdateStable(s, d), c)
  <2>1. \A a, b \in D : \A x, y :
          /\ Insert(Insert(s, a, x), b, y) = Insert(Insert(s, b, y), a, x)
          /\ Erase(Erase(s, a, x), b, y) = Erase(Erase(s, b, y), a, x)
          /\ a # b => Insert(Erase(s, a, x), b, y) = Erase(Insert(s, b, y), a, x)
    BY RowStepsCommute
  <2>2. D = {"student_ids", "course_ids", "enroll"}
    BY DEF EmptyCourseware
  <2>3. /\ c.op.type \in CoursewareMethods /\ d.op.type \in CoursewareMethods
        /\ ~CoursewareReachable(c, d) /\ ~CoursewareReachable(d, c)
    BY <1>1, <1>4 DEF Conflict
  <2> HIDE DEF D
  <2> QED BY <2>1, <2>2, <2>3
    DEF CoursewareUpdateStable, CoursewareMethods, CoursewareReachable, CoursewareEdges, Types
<1> QED BY <1>1, <1>2, <1>3, <1>4 DEF ObjectOver, UpdatesStayIn

(***************************************************************************)
(* Convergence.  In a set, movie, project or courseware replication, as    *)
(* long as the nodes agree on the order of conflicting stable calls, two   *)
(* nodes with the same stable calls have the same stable state, however    *)
(* many stabilizations, at each of them, the calls came in.                *)
(***************************************************************************)
THEOREM AgreementMeansConvergence ==
  ASSUME ReplicatesRows
  PROVE  ObjectSpec => [](StableOrderAgreement => StableStatesConverge)
<1>1. PICK State : ObjectOver(State)
  BY SetOverTables, MovieOverTables, ProjectOverTables, CoursewareOverTables DEF ReplicatesRows
<1>2. StabilityInv /\ StableCallsApplied(State) => (StableOrderAgreement => StableStatesConverge)
  BY <1>1, AgreeingNodesConverge
<1>3. ObjectSpec => [](StabilityInv /\ StableCallsApplied(State))
  BY <1>1, StableCallsAreApplied DEF ObjectOver
<1> QED BY <1>2, <1>3, PTL

-----------------------------------------------------------------------------
(* The priority queue as a heap, when its calls are ordered by number.     *)

(* Of these calls, the comparator of the queue takes the later for less. *)
Numbered(T) ==
  \A c, d \in T : /\ c.call_id \in Nat
                  /\ Less(c, d) <=> c.call_id > d.call_id

(* No call is later than the ones below it. *)
IsHeap(q) == \A i \in 1..Len(q) : i # 1 => q[i \div 2].call_id <= q[i].call_id

(* The first call of a heap is on top. *)
LEMMA HeapTop ==
  ASSUME NEW T, Numbered(T), NEW q \in Seq(T), IsHeap(q)
  PROVE  \A i \in 1..Len(q) : q[1].call_id <= q[i].call_id
<1> DEFINE earlier == {i \in 1..Len(q) : ~(q[1].call_id <= q[i].call_id)}
<1>1. \A i \in 1..Len(q) : q[i].call_id \in Nat
  BY DEF Numbered
<1> SUFFICES ASSUME earlier # {} PROVE FALSE
  OBVIOUS
<1>2. earlier \in SUBSET Nat
  OBVIOUS
<1>3. PICK i \in earlier : \A k \in earlier : i <= k
  <2> HIDE DEF earlier
  <2> QED BY <1>2, LeastNumber
<1>4. i \in 1..Len(q) /\ 1 \in 1..Len(q) /\ i # 1 /\ ~(q[1].call_id <= q[i].call_id)
  BY <1>1
<1>5. i \div 2 \in 1..Len(q) /\ ~(i <= i \div 2)
  BY <1>4
<1>6. q[1].call_id <= q[i \div 2].call_id
  BY <1>3, <1>5
<1>7. q[i \div 2].call_id <= q[i].call_id
  BY <1>4 DEF IsHeap
<1> QED BY <1>1, <1>4, <1>5, <1>6, <1>7

(* The path to the root comes to each of its positions from a child. *)
LEMMA PathUpFrom ==
  ASSUME NEW p \in Nat \ {0}
  PROVE  \A i \in PathUp(p) : i = p \/ \E k \in PathUp(p) : k # 1 /\ k \div 2 = i
<1> DEFINE P == PathUp(p)
           F == {i \in P : i = p \/ \E k \in P : k # 1 /\ k \div 2 = i}
<1>1. p \in P /\ \A i \in P : i # 1 => i \div 2 \in P
  BY PathUpClosed
<1> HIDE DEF P
<1>2. F \in SUBSET P /\ p \in F /\ \A k \in F : k # 1 => k \div 2 \in F
  BY <1>1
<1>3. F = P
  <2> HIDE DEF F
  <2> QED BY <1>2, PathUpLeast DEF P
<1> QED BY <1>3 DEF P

(* The path to a leaf comes to each of its positions from the parent. *)
LEMMA PathDownFrom ==
  ASSUME NEW r, Len(r) \in Nat \ {0}
  PROVE  \A i \in PathDown(r) : i # 1 => i \div 2 \in PathDown(r)
<1> DEFINE P == PathDown(r)
           F == {i \in P : i # 1 => i \div 2 \in P}
<1>1. /\ P \subseteq 1..Len(r) /\ 1 \in P
      /\ \A i \in P : 2*i <= Len(r) => BiggerChild(r, i) \in P
  BY PathDownClosed
<1>2. \A i \in P : 2*i <= Len(r) => BiggerChild(r, i) = 2*i \/ BiggerChild(r, i) = 2*i + 1
  BY <1>1, BiggerChildIsChild
<1> HIDE DEF P
<1>3. ASSUME NEW k \in F, 2*k <= Len(r) PROVE BiggerChild(r, k) \in F
  <2>1. k \in 1..Len(r) /\ k \in P
    BY <1>1
  <2>2. BiggerChild(r, k) \in P /\ BiggerChild(r, k) \div 2 = k
    BY <1>1, <1>2, <1>3, <2>1
  <2> QED BY <2>1, <2>2
<1>4. F \in SUBSET P /\ 1 \in F
  BY <1>1
<1>5. F = P
  <2> HIDE DEF F
  <2> QED BY <1>3, <1>4, PathDownLeast DEF P
<1> QED BY <1>5 DEF P

(* Carrying a call up from a leaf of a heap leaves a heap. *)
LEMMA SiftUpKeepsHeap ==
  ASSUME NEW T, Numbered(T), NEW s \in Seq(T), IsHeap(s), NEW c \in T,
         NEW p \in 1..Len(s), 2*p > Len(s)
  PROVE  IsHeap(SiftUp(s, p, c))
<1> DEFINE P == PathUp(p)
           passes(i) == i # 1 /\ Less(s[i \div 2], c)
           visited == {i \in P : \A r \in P : r > i => passes(r)}
           new == SiftUp(s, p, c)
           m == Len(s)
           v(i) == s[i].call_id
           w == c.call_id
<1>1. /\ p \in Nat \ {0} /\ P \subseteq 1..p /\ p \in P
      /\ \A i \in P : i # 1 => i \div 2 \in P
      /\ \A i, k \in P : k >= i \/ k <= i \div 2
      /\ \A i \in P : i = p \/ \E k \in P : k # 1 /\ k \div 2 = i
  BY PathUpClosed, PathUpChain, PathUpFrom
<1>2. new = [i \in 1..m |-> IF i \notin visited THEN s[i]
                            ELSE IF passes(i) THEN s[i \div 2] ELSE c]
  BY DEF SiftUp
<1>3. Len(new) = m
  BY SiftUpType
<1>4. m \in Nat /\ w \in Nat /\ \A i \in 1..m : v(i) \in Nat /\ s[i] \in T
  BY DEF Numbered
<1>5. \A i \in 1..m : i # 1 => i \div 2 \in 1..m /\ v(i \div 2) <= v(i) /\ i \div 2 < i
  BY <1>4 DEF IsHeap
<1>6. \A i \in 1..m : passes(i) <=> i # 1 /\ v(i \div 2) > w
  BY <1>4, <1>5 DEF Numbered
<1>7. \A i \in 1..m : new[i].call_id = IF i \notin visited THEN v(i)
                                       ELSE IF passes(i) THEN v(i \div 2) ELSE w
  BY <1>2
<1>8. visited \subseteq P /\ P \subseteq 1..m
  BY <1>1
<1> HIDE DEF P, passes, new, v, m, w
<1> SUFFICES ASSUME NEW i \in 1..m, i # 1 PROVE new[i \div 2].call_id <= new[i].call_id
  BY <1>3 DEF IsHeap, new
<1> DEFINE h == i \div 2
<1>9. h \in 1..m /\ v(h) <= v(i) /\ h < i /\ v(h) \in Nat /\ v(i) \in Nat
  BY <1>4, <1>5
<1>10. ASSUME h # 1 PROVE h \div 2 \in 1..m /\ v(h \div 2) <= v(h) /\ v(h \div 2) \in Nat
  BY <1>4, <1>5, <1>9, <1>10
<1>11. CASE i \in visited /\ passes(i)
  <2>1. h \in P
    BY <1>1, <1>8, <1>11
  <2>2. \A r \in P : r > h => r >= i
    BY <1>1, <1>4, <1>8, <1>9, <1>11
  <2>3. h \in visited
    <3> SUFFICES ASSUME NEW r \in P, r > h PROVE passes(r)
      BY <2>1
    <3>1. r >= i /\ r \in 1..m /\ i \in 1..m
      BY <1>8, <2>2
    <3>2. r = i \/ r > i
      BY <1>4, <3>1
    <3> QED BY <1>11, <3>2
  <2>4. v(h) > w
    BY <1>6, <1>11
  <2>5. new[i].call_id = v(h)
    BY <1>7, <1>11
  <2>6. CASE passes(h)
    BY <1>6, <1>7, <1>9, <1>10, <2>3, <2>5, <2>6
  <2>7. CASE ~passes(h)
    <3>1. new[h].call_id = w
      BY <1>7, <1>9, <2>3, <2>7
    <3> QED BY <1>4, <1>9, <2>4, <2>5, <3>1
  <2> QED BY <2>6, <2>7
<1>12. CASE i \in visited /\ ~passes(i)
  <2>1. ~(v(h) > w) /\ new[i].call_id = w
    BY <1>6, <1>7, <1>12
  <2>2. h \notin visited
    BY <1>8, <1>9, <1>12
  <2>3. new[h].call_id = v(h)
    BY <1>7, <1>9, <2>2
  <2> QED BY <1>4, <1>9, <2>1, <2>3
<1>13. CASE i \notin visited /\ h \notin visited
  BY <1>7, <1>9, <1>13
<1>14. CASE i \notin visited /\ h \in visited
  <2>1. new[i].call_id = v(i)
    BY <1>7, <1>14
  <2>2. CASE passes(h)
    <3>1. h # 1 /\ new[h].call_id = v(h \div 2)
      BY <1>6, <1>7, <1>9, <1>14, <2>2
    <3> QED BY <1>9, <1>10, <2>1, <3>1
  <2>3. CASE ~passes(h)
    <3>1. new[h].call_id = w
      BY <1>7, <1>9, <1>14, <2>3
    <3>2. h # p
      BY <1>1, <1>4 DEF m
    <3>3. PICK k \in P : k # 1 /\ k \div 2 = h
      BY <1>1, <1>8, <1>14, <3>2
    <3>4. k > h /\ k \in 1..m
      BY <1>5, <1>8, <3>3
    <3>5. v(h) > w
      BY <1>6, <1>14, <3>3, <3>4
    <3> QED BY <1>4, <1>9, <2>1, <3>1, <3>5
  <2> QED BY <2>2, <2>3
<1> QED BY <1>11, <1>12, <1>13, <1>14

(* Pushing the last call leaves a heap. *)
LEMMA PushKeepsHeap ==
  ASSUME NEW T, Numbered(T), NEW q \in Seq(T), IsHeap(q), NEW c \in T,
         \A i \in 1..Len(q) : q[i].call_id <= c.call_id
  PROVE  IsHeap(Push(q, c))
<1> DEFINE t == Append(q, c)
           p == Len(q) + 1
<1>1. /\ t \in Seq(T) /\ Len(t) = p /\ Len(q) \in Nat
      /\ \A i \in 1..p : t[i] = IF i <= Len(q) THEN q[i] ELSE c
  OBVIOUS
<1>2. Push(q, c) = SiftUp(t, p, c)
  BY DEF Push
<1> HIDE DEF t
<1>3. ASSUME NEW i \in 1..Len(t), i # 1 PROVE t[i \div 2].call_id <= t[i].call_id
  <2>1. i \div 2 \in 1..Len(q)
    BY <1>1, <1>3
  <2>2. t[i \div 2] = q[i \div 2]
    BY <1>1, <2>1
  <2>3. CASE i <= Len(q)
    BY <1>1, <1>3, <2>2, <2>3 DEF IsHeap
  <2>4. CASE i > Len(q)
    BY <1>1, <2>1, <2>2, <2>4
  <2> QED BY <1>1, <2>3, <2>4
<1>4. IsHeap(t) /\ p \in 1..Len(t) /\ 2*p > Len(t)
  BY <1>1, <1>3 DEF IsHeap
<1> HIDE DEF p
<1> QED BY <1>1, <1>2, <1>4, SiftUpKeepsHeap

(* Popping the first call leaves a heap. *)
LEMMA PopKeepsHeap ==
  ASSUME NEW T, Numbered(T), NEW q \in Seq(T), IsHeap(q), q # <<>>
  PROVE  IsHeap(Pop(q))
<1> DEFINE m == Len(q) - 1
           r == SubSeq(q, 1, m)
           path == PathDown(r)
           leaf == CHOOSE i \in path : 2*i > m
           shifted == [i \in 1..m |-> IF i \in path \ {leaf} THEN r[BiggerChild(r, i)] ELSE r[i]]
           v(i) == r[i].call_id
<1>1. m \in Nat /\ m + 1 \in 1..Len(q) /\ Len(q) = m + 1 /\ q[m + 1] \in T
  OBVIOUS
<1>2. r \in Seq(T) /\ Len(r) = m /\ \A i \in 1..m : r[i] = q[i]
  <2>1. \A i \in 1..m : q[i] \in T
    OBVIOUS
  <2> HIDE DEF m
  <2> QED BY <1>1, <2>1, SubSeqProperties
<1>3. Pop(q) = IF m = 0 THEN <<>> ELSE SiftUp(shifted, leaf, q[m + 1])
  BY DEF Pop
<1>4. CASE m = 0
  BY <1>3, <1>4 DEF IsHeap
<1>5. CASE m # 0
  <2> HIDE DEF m, r
  <2>1. /\ path \subseteq 1..m
        /\ \A i \in path : i # 1 => i \div 2 \in path
    BY <1>1, <1>2, <1>5, PathDownClosed, PathDownFrom
  <2>2. leaf \in path /\ 2*leaf > m /\ \A i \in path \ {leaf} : 2*i <= m
    BY <1>1, <1>2, <1>5, PathDownLeaf
  <2>3. \A i \in 1..m : r[i] \in T /\ v(i) \in Nat
    BY <1>1, <1>2 DEF Numbered
  <2>4. \A i \in 1..m : i # 1 => i \div 2 \in 1..m /\ v(i \div 2) <= v(i)
    <3> SUFFICES ASSUME NEW i \in 1..m, i # 1 PROVE i \div 2 \in 1..m /\ v(i \div 2) <= v(i)
      OBVIOUS
    <3>1. i \div 2 \in 1..m /\ i \in 1..Len(q)
      BY <1>1
    <3> QED BY <1>2, <3>1 DEF IsHeap
  <2>5. \A i \in path \ {leaf} : /\ BiggerChild(r, i) \in 1..m
                                 /\ BiggerChild(r, i) = 2*i \/ BiggerChild(r, i) = 2*i + 1
    BY <1>1, <1>2, <2>1, <2>2, BiggerChildIsChild
  <2>6. ASSUME NEW i \in path \ {leaf}, NEW k \in 1..m, k # 1, k \div 2 = i
        PROVE  v(BiggerChild(r, i)) <= v(k)
    <3>1. k = 2*i \/ k = 2*i + 1
      BY <1>1, <2>1, <2>6
    <3>2. i \in Nat /\ 2*i \in 1..m
      BY <1>1, <2>1, <2>2
    <3>3. CASE 2*i + 1 > m
      <4>1. BiggerChild(r, i) = 2*i
        BY <1>2, <3>3 DEF BiggerChild
      <4> QED BY <1>1, <2>3, <3>1, <3>2, <3>3, <4>1
    <3>4. CASE 2*i + 1 <= m
      <4>1. 2*i + 1 \in 1..m
        BY <1>1, <3>2, <3>4
      <4>2. Less(r[2*i + 1], r[2*i]) <=> v(2*i + 1) > v(2*i)
        BY <2>3, <3>2, <4>1 DEF Numbered
      <4>3. BiggerChild(r, i) = IF v(2*i + 1) > v(2*i) THEN 2*i ELSE 2*i + 1
        BY <1>1, <1>2, <3>4, <4>1, <4>2 DEF BiggerChild
      <4>4. v(2*i) \in Nat /\ v(2*i + 1) \in Nat
        BY <2>3, <3>2, <4>1
      <4> HIDE DEF v
      <4> QED BY <3>1, <4>3, <4>4
    <3> QED BY <1>1, <3>2, <3>3, <3>4
  <2> HIDE DEF path, leaf
  <2>7. \A i \in 1..m : shifted[i] \in T /\ v(i) <= shifted[i].call_id
    <3> SUFFICES ASSUME NEW i \in 1..m PROVE shifted[i] \in T /\ v(i) <= shifted[i].call_id
      OBVIOUS
    <3>1. CASE i \in path \ {leaf}
      <4>1. shifted[i] = r[BiggerChild(r, i)]
        BY <3>1
      <4>2. BiggerChild(r, i) \in 1..m /\ BiggerChild(r, i) # 1 /\ BiggerChild(r, i) \div 2 = i
        BY <1>1, <2>5, <3>1
      <4> QED BY <2>3, <2>4, <4>1, <4>2
    <3>2. CASE i \notin path \ {leaf}
      BY <2>3, <3>2
    <3> QED BY <3>1, <3>2
  <2>8. shifted \in Seq(T) /\ Len(shifted) = m
    <3>1. shifted \in [1..m -> T]
      BY <2>7
    <3> HIDE DEF shifted
    <3> QED BY <1>1, <3>1
  <2>9. ASSUME NEW i \in 1..m, i # 1 PROVE shifted[i \div 2].call_id <= shifted[i].call_id
    <3> DEFINE h == i \div 2
    <3>1. h \in 1..m /\ v(h) <= v(i) /\ v(i) <= shifted[i].call_id
      BY <2>4, <2>7, <2>9
    <3>2. v(h) \in Nat /\ v(i) \in Nat /\ shifted[i].call_id \in Nat /\ shifted[h].call_id \in Nat
      BY <2>3, <2>7, <3>1 DEF Numbered
    <3>3. CASE h \in path \ {leaf}
      <4>1. shifted[h] = r[BiggerChild(r, h)]
        BY <3>1, <3>3
      <4>2. v(BiggerChild(r, h)) <= v(i)
        BY <2>6, <2>9, <3>3
      <4> QED BY <3>1, <3>2, <4>1, <4>2
    <3>4. CASE h = leaf
      BY <1>1, <2>2, <2>9, <3>4
    <3>5. CASE h \notin path
      <4>1. i \notin path
        BY <2>1, <2>9, <3>5
      <4>2. shifted[h] = r[h] /\ shifted[i] = r[i]
        BY <3>1, <3>5, <4>1
      <4> QED BY <3>1, <4>2
    <3> QED BY <3>3, <3>4, <3>5
  <2>10. IsHeap(shifted)
    BY <2>8, <2>9 DEF IsHeap
  <2> HIDE DEF shifted
  <2>11. leaf \in 1..Len(shifted) /\ 2*leaf > Len(shifted)
    BY <2>1, <2>2, <2>8
  <2>12. IsHeap(SiftUp(shifted, leaf, q[m + 1]))
    BY <1>1, <2>8, <2>10, <2>11, SiftUpKeepsHeap
  <2> QED BY <1>3, <1>5, <2>12
<1> QED BY <1>4, <1>5

-----------------------------------------------------------------------------
(***************************************************************************)
(* One node j issues all calls.  Then the calls are numbered, their clocks *)
(* say no more than the numbers, and every node executes them by number.   *)
(***************************************************************************)
OneIssuer(j) == \A k \in Node \ {j} : workload[k] = <<>>

(* What j's clock says when it has issued k calls. *)
ClockAfter(j, k) == [r \in Node |-> IF r = j THEN k ELSE 0]

CallsOf(j) == {c \in Call : c.node_id = j /\ c.vc = ClockAfter(j, c.call_id)}

(* The others do nothing, and the clock of j counts its calls. *)
Counting(j) ==
  /\ \A k \in Node \ {j} : it[k] = 1
  /\ vector_clock[j] = ClockAfter(j, it[j] - 1)
  /\ \A c \in Executed(j) : c.vc = ClockAfter(j, c.call_id)

Ascending(s) == \A i, k \in DOMAIN s : i < k => s[i].call_id < s[k].call_id

CallsAscending(s) ==
  \A i, k \in DOMAIN s :
    s[i].kind = "Call" /\ s[k].kind = "Call" /\ i < k => s[i].call.call_id < s[k].call.call_id

(* Calls come to node n by number: first those it has executed ... *)
ExecutedFirst(n) ==
  /\ Ascending(executionList[n])
  /\ \A c \in Executed(n), d \in Queued(n) \cup Hand(n) :
       d \notin Executed(n) => c.call_id < d.call_id

(* ... and last the ones that are on their way. *)
UnderwayLast(n, j) ==
  /\ CallsAscending(net[j][n])
  /\ \A c \in Executed(n) \cup Queued(n) \cup Hand(n), x \in Sent(j, n) :
       x.kind = "Call" => c.call_id < x.call.call_id

(***************************************************************************)
(* The queue is a heap, no call passes by it, and none is put before an    *)
(* unstable one.                                                           *)
(***************************************************************************)
NothingReordered(n) ==
  /\ IsHeap(priorityQueue[n])
  /\ receiver[n].pc \in {"insert", "ack"} /\ ~receiver[n].queued => priorityQueue[n] = <<>>
  /\ receiver[n].pc = "insert" =>
       \A i \in Unstable(n) : ~FastIsReachableRemote(receiver[n].call, executionList[n][i])

InOrder(n, j) == ExecutedFirst(n) /\ UnderwayLast(n, j) /\ NothingReordered(n)

OrderInv(j) == Counting(j) /\ \A n \in Node : InOrder(n, j)

OrderState(j) == StabilityInv /\ OneIssuer(j) /\ OrderInv(j)

(* The calls of j are compared by number. *)
LEMMA IssuerNumbered ==
  ASSUME NEW j \in Node
  PROVE  /\ Numbered(CallsOf(j))
         /\ \A c, d \in CallsOf(j) : IsAfter(c, d) <=> c.call_id > d.call_id
<1> SUFFICES ASSUME NEW c \in CallsOf(j), NEW d \in CallsOf(j)
             PROVE  /\ c.call_id \in Nat
                    /\ Less(c, d) <=> c.call_id > d.call_id
                    /\ IsAfter(c, d) <=> c.call_id > d.call_id
  BY DEF Numbered
<1> DEFINE x == c.call_id
           y == d.call_id
<1>1. x \in Nat /\ y \in Nat
  BY MaxCallIdAssumption DEF CallsOf, Call
<1>2. c.vc = ClockAfter(j, x) /\ d.vc = ClockAfter(j, y)
  BY DEF CallsOf
<1> HIDE DEF x, y
<1>3. /\ \A k : DOMAIN ClockAfter(j, k) = Node
      /\ \A k : \A r \in Node : ClockAfter(j, k)[r] = IF r = j THEN k ELSE 0
  BY DEF ClockAfter
<1>4. (\A r \in Node : ClockAfter(j, x)[r] <= ClockAfter(j, y)[r]) <=> x <= y
  BY <1>1, <1>3
<1>5. (\A r \in Node : ClockAfter(j, x)[r] >= ClockAfter(j, y)[r]) <=> x >= y
  BY <1>1, <1>3
<1>6. compareVectorClocks(c.vc, d.vc) = IF x <= y THEN 0 ELSE IF x >= y THEN 2 ELSE 1
  BY <1>2, <1>3, <1>4, <1>5 DEF compareVectorClocks, BeforeOrEqual, After, Concurrent
<1>7. /\ Less(c, d) <=> x > y
      /\ IsAfter(c, d) <=> x > y
  BY <1>1, <1>6 DEF Less, IsAfter, After
<1> QED BY <1>1, <1>7 DEF x, y

(* All calls are calls of j, with different numbers, and j receives none. *)
IssuedBy(j) ==
  /\ \A n \in Node : Executed(n) \cup Queued(n) \cup Hand(n) \subseteq CallsOf(j) \cap Executed(j)
  /\ \A m, n \in Node : \A x \in Sent(m, n) :
       x.kind = "Call" => m = j /\ n # j /\ x.call \in CallsOf(j) \cap Executed(j)
  /\ Queued(j) = {} /\ Hand(j) = {}
  /\ \A c \in Executed(j) : c.call_id < it[j]
  /\ \A c, d \in Executed(j) : c.call_id = d.call_id => c = d

(* It follows from the invariants. *)
LEMMA IssuerCalls == ASSUME StabilityInv, NEW j \in Node, Counting(j) PROVE IssuedBy(j)
<1>1. /\ OwnNumbers /\ Origins({}) /\ CallsUnderway({})
      /\ \A n \in Node : it[n] \in Nat
      /\ \A n \in Node : /\ Executed(n) \subseteq Call /\ Queued(n) \subseteq Call
                         /\ Hand(n) \subseteq Call
                         /\ \A m \in Node : Sent(m, n) \subseteq Message
  BY SetTypesOfMessages DEF StabilityInv, CallInv, CallParts, IInv, TypeOK
<1>2. ASSUME NEW c \in Call, c \in Executed(c.node_id)
      PROVE  c \in CallsOf(j) \cap Executed(j) /\ c.node_id = j
  <2>1. c.node_id \in Node /\ c.call_id \in 1..MaxCallId
    BY DEF Call
  <2>2. c.call_id < it[c.node_id]
    BY <1>1, <1>2, <2>1 DEF OwnNumbers
  <2>3. c.node_id = j
    BY <2>1, <2>2, MaxCallIdAssumption DEF Counting
  <2> QED BY <1>2, <2>3 DEF Counting, CallsOf
<1>3. \A n \in Node : \A c \in Executed(n) \cup Queued(n) \cup Hand(n) :
        c \in CallsOf(j) \cap Executed(j) /\ c.node_id = j
  BY <1>1, <1>2 DEF Origins
<1>4. Queued(j) = {} /\ Hand(j) = {}
  BY <1>1, <1>3 DEF Origins
<1>5. ASSUME NEW m \in Node, NEW n \in Node, NEW x \in Sent(m, n), x.kind = "Call"
      PROVE  m = j /\ n # j /\ x.call \in CallsOf(j) \cap Executed(j)
  <2>1. m # n /\ x.call.node_id = m /\ x.call \in Executed(m)
    BY <1>1, <1>5 DEF CallsUnderway
  <2> QED BY <1>3, <2>1
<1>6. /\ \A c \in Executed(j) : c.call_id < it[j]
      /\ \A c, d \in Executed(j) : c.call_id = d.call_id => c = d
  BY <1>1, <1>3 DEF OwnNumbers
<1> QED BY <1>3, <1>4, <1>5, <1>6 DEF IssuedBy

(* A node has a next call only if it is j. *)
LEMMA OnlyIssuerIssues ==
  ASSUME StabilityInv, NEW j \in Node, OneIssuer(j), NEW n \in Node, ExecuteLocal(n)
  PROVE  n = j
<1>1. it[n] \in Nat \ {0} /\ it[n] <= Len(workload[n])
  BY DEF StabilityInv, IInv, TypeOK, ExecuteLocal, AtCall, HasCall
<1>2. n # j => workload[n] = <<>> /\ Len(<<>>) = 0
  BY DEF OneIssuer
<1> QED BY <1>1, <1>2

(* The next call has the next number and the clock that belongs to it. *)
LEMMA IssuerNextCall ==
  ASSUME StabilityInv, NEW j \in Node, Counting(j), ExecuteLocal(j)
  PROVE  NextCall(j) \in CallsOf(j) /\ NextCall(j).call_id = it[j]
<1>1. NextCall(j) \in Call
  BY NextCallType, OnlyMessages DEF StabilityInv, IInvOver, ExecuteLocal, AtCall
<1>2. /\ NextCall(j).node_id = j /\ NextCall(j).call_id = it[j]
      /\ NextCall(j).vc = [vector_clock[j] EXCEPT ![j] = @ + 1]
  BY DEF NextCall
<1>3. it[j] \in Nat
  BY DEF StabilityInv, IInv, TypeOK
<1>4. [ClockAfter(j, it[j] - 1) EXCEPT ![j] = @ + 1] = ClockAfter(j, it[j])
  <2> DEFINE k == it[j]
  <2> SUFFICES [ClockAfter(j, k - 1) EXCEPT ![j] = @ + 1] = ClockAfter(j, k)
    OBVIOUS
  <2>1. k - 1 + 1 = k
    BY <1>3
  <2> HIDE DEF k
  <2>2. ClockAfter(j, k - 1)[j] = k - 1
    BY DEF ClockAfter
  <2>3. [ClockAfter(j, k - 1) EXCEPT ![j] = @ + 1] = [ClockAfter(j, k - 1) EXCEPT ![j] = k]
    BY <2>1, <2>2
  <2>4. [ClockAfter(j, k - 1) EXCEPT ![j] = k] = ClockAfter(j, k)
    BY DEF ClockAfter
  <2> QED BY <2>3, <2>4
<1> QED BY <1>1, <1>2, <1>4 DEF CallsOf, Counting

(* No step upsets the counting. *)
LEMMA StepCounts ==
  ASSUME NEW j \in Node, OrderState(j), [Next]_vars
  PROVE  Counting(j)'
<1>1. StabilityInv /\ OneIssuer(j) /\ Counting(j) /\ IssuedBy(j)
  BY IssuerCalls DEF OrderState, OrderInv
<1>2. CASE ExecuteLocal(j)
  <2> DEFINE c == NextCall(j)
  <2>1. c \in CallsOf(j) /\ c.call_id = it[j]
    BY <1>1, <1>2, IssuerNextCall
  <2>2. /\ it' = [it EXCEPT ![j] = @ + 1]
        /\ executionList' = [executionList EXCEPT ![j] = Append(@, c)]
        /\ vector_clock' = [vector_clock EXCEPT ![j] = c.vc]
    BY <1>2 DEF ExecuteLocal
  <2> HIDE DEF c
  <2>3. c \in Call /\ c.vc = ClockAfter(j, it[j])
    BY <2>1 DEF CallsOf
  <2>4. /\ it \in [Node -> Nat] /\ executionList \in [Node -> Seq(Call)]
        /\ vector_clock \in [Node -> Clock]
    BY <1>1 DEF StabilityInv, IInv, TypeOK
  <2>5. Executed(j)' = Executed(j) \cup {c}
    <3>1. executionList'[j] = Append(executionList[j], c)
      BY <2>2, <2>4
    <3> QED BY <2>3, <2>4, <3>1, AppendElements DEF Executed
  <2>6. it'[j] = it[j] + 1 /\ it'[j] - 1 = it[j] /\ \A k \in Node \ {j} : it'[k] = it[k]
    BY <2>2, <2>4
  <2>7. vector_clock'[j] = ClockAfter(j, it[j])
    BY <2>2, <2>3, <2>4
  <2> QED BY <1>1, <2>1, <2>3, <2>5, <2>6, <2>7 DEF Counting
<1>3. CASE \E n \in Node : ExecuteRemote(n)
  <2>1. PICK n \in Node : ExecuteRemote(n)
    BY <1>3
  <2>2. n # j
    BY <1>1, <2>1 DEF IssuedBy, ExecuteRemote, Hand
  <2>3. /\ it' = it
        /\ executionList' = [executionList EXCEPT
             ![n] = InsertAt(@, InsertPosition(n, receiver[n].call), receiver[n].call)]
        /\ vector_clock' = [vector_clock EXCEPT ![n][receiver[n].call.node_id] = @ + 1]
    BY <2>1 DEF ExecuteRemote, mainVars
  <2>4. executionList'[j] = executionList[j] /\ vector_clock'[j] = vector_clock[j]
    BY <1>1, <2>2, <2>3 DEF StabilityInv, IInv, TypeOK
  <2> QED BY <1>1, <2>3, <2>4 DEF Counting, Executed
<1>4. CASE UNCHANGED <<it, executionList, vector_clock>>
  BY <1>1, <1>4 DEF Counting, Executed
<1>5. \/ \E n \in Node : ExecuteLocal(n)
      \/ \E n \in Node : ExecuteRemote(n)
      \/ UNCHANGED <<it, executionList, vector_clock>>
  <2>1. UNCHANGED vars => UNCHANGED <<it, executionList, vector_clock>>
    BY DEF vars, mainVars, handlerVars
  <2>2. \A n \in Node : SendAck(n) \/ NoAckToSend(n) \/ RefuseLocal(n)
                         => UNCHANGED <<it, executionList, vector_clock>>
    BY DEF SendAck, NoAckToSend, RefuseLocal, handlerVars
  <2>3. \A n, m \in Node : ReceiveCall(n, m) \/ ReceiveAck(n, m)
                            => UNCHANGED <<it, executionList, vector_clock>>
    <3>1. \A n, m \in Node : ReceiveCall(n, m) => UNCHANGED <<it, executionList, vector_clock>>
      BY DEF ReceiveCall, mainVars, handlerVars
    <3>2. ASSUME NEW n \in Node, NEW m \in Node, ReceiveAck(n, m)
          PROVE  UNCHANGED <<it, executionList, vector_clock>>
      BY <3>2 DEF ReceiveAck
    <3> QED BY <3>1, <3>2
  <2>4. \A n \in Node : RecordAck(n) \/ DrainQueue(n)
                         => UNCHANGED <<it, executionList, vector_clock>>
    BY DEF RecordAck, DrainQueue, mainVars, handlerVars
  <2> QED BY <2>1, <2>2, <2>3, <2>4 DEF Next, Main, Receiver, Receive
<1> QED BY <1>1, <1>2, <1>3, <1>4, <1>5, OnlyIssuerIssues

-----------------------------------------------------------------------------
(* Lists of calls and messages in order.                                   *)

(* One call more. *)
LEMMA AppendAscends ==
  ASSUME NEW s \in Seq(Call), NEW c \in Call, Ascending(s),
         \A d \in Range(s) : d.call_id < c.call_id
  PROVE  Ascending(Append(s, c))
<1> DEFINE t == Append(s, c)
<1>1. /\ DOMAIN s = 1..Len(s) /\ DOMAIN t = 1..Len(s) + 1 /\ Len(s) \in Nat
      /\ \A i \in 1..Len(s) + 1 : t[i] = IF i <= Len(s) THEN s[i] ELSE c
  OBVIOUS
<1>2. \A i \in 1..Len(s) : s[i].call_id < c.call_id
  BY <1>1 DEF Range
<1> HIDE DEF t
<1>3. ASSUME NEW i \in DOMAIN t, NEW k \in DOMAIN t, i < k PROVE t[i].call_id < t[k].call_id
  <2>1. i \in 1..Len(s) /\ t[i] = s[i]
    BY <1>1, <1>3
  <2>2. CASE k <= Len(s)
    <3>1. k \in 1..Len(s) /\ t[k] = s[k]
      BY <1>1, <2>2
    <3> QED BY <1>1, <1>3, <2>1, <3>1 DEF Ascending
  <2>3. CASE ~(k <= Len(s))
    BY <1>1, <1>2, <2>1, <2>3
  <2> QED BY <2>2, <2>3
<1>4. Ascending(t)
  BY <1>3 DEF Ascending
<1> QED BY <1>4 DEF t

(* One message more. *)
LEMMA AppendKeepsAscending ==
  ASSUME NEW s \in Seq(Message), NEW x \in Message, CallsAscending(s),
         x.kind = "Call" => \A y \in Range(s) : y.kind = "Call" => y.call.call_id < x.call.call_id
  PROVE  CallsAscending(Append(s, x))
<1> DEFINE t == Append(s, x)
<1>1. /\ DOMAIN s = 1..Len(s) /\ DOMAIN t = 1..Len(s) + 1 /\ Len(s) \in Nat
      /\ \A i \in 1..Len(s) + 1 : t[i] = IF i <= Len(s) THEN s[i] ELSE x
  OBVIOUS
<1>2. x.kind = "Call" => \A i \in 1..Len(s) : s[i].kind = "Call" => s[i].call.call_id < x.call.call_id
  BY <1>1 DEF Range
<1> HIDE DEF t
<1>3. ASSUME NEW i \in DOMAIN t, NEW k \in DOMAIN t, t[i].kind = "Call", t[k].kind = "Call", i < k
      PROVE  t[i].call.call_id < t[k].call.call_id
  <2>1. i \in 1..Len(s) /\ t[i] = s[i]
    BY <1>1, <1>3
  <2>2. CASE k <= Len(s)
    <3>1. k \in 1..Len(s) /\ t[k] = s[k]
      BY <1>1, <2>2
    <3> QED BY <1>1, <1>3, <2>1, <3>1 DEF CallsAscending
  <2>3. CASE ~(k <= Len(s))
    <3>1. t[k] = x
      BY <1>1, <2>3
    <3> QED BY <1>2, <1>3, <2>1, <3>1
  <2> QED BY <2>2, <2>3
<1>4. CallsAscending(t)
  BY <1>3 DEF CallsAscending
<1> QED BY <1>4 DEF t

(* The first message less. *)
LEMMA TailKeepsAscending ==
  ASSUME NEW s \in Seq(Message), s # <<>>, CallsAscending(s)
  PROVE  /\ CallsAscending(Tail(s))
         /\ \A y \in Range(Tail(s)) :
              Head(s).kind = "Call" /\ y.kind = "Call" => Head(s).call.call_id < y.call.call_id
<1> DEFINE t == Tail(s)
<1>1. /\ DOMAIN s = 1..Len(s) /\ DOMAIN t = 1..Len(s) - 1 /\ Len(s) \in Nat \ {0}
      /\ \A i \in 1..Len(s) - 1 : t[i] = s[i + 1]
      /\ Head(s) = s[1]
  OBVIOUS
<1> HIDE DEF t
<1>2. \A i \in 1..Len(s) - 1 : i + 1 \in 1..Len(s) /\ 1 < i + 1 /\ 1 \in 1..Len(s)
  BY <1>1
<1>3. ASSUME NEW i \in DOMAIN t, NEW k \in DOMAIN t, t[i].kind = "Call", t[k].kind = "Call", i < k
      PROVE  t[i].call.call_id < t[k].call.call_id
  <2>1. i + 1 < k + 1 /\ i + 1 \in DOMAIN s /\ k + 1 \in DOMAIN s
    BY <1>1, <1>2, <1>3
  <2>2. t[i] = s[i + 1] /\ t[k] = s[k + 1]
    BY <1>1
  <2> QED BY <1>3, <2>1, <2>2 DEF CallsAscending
<1>4. ASSUME NEW k \in DOMAIN t, s[1].kind = "Call", t[k].kind = "Call"
      PROVE  s[1].call.call_id < t[k].call.call_id
  <2>1. 1 < k + 1 /\ 1 \in DOMAIN s /\ k + 1 \in DOMAIN s /\ t[k] = s[k + 1]
    BY <1>1, <1>2
  <2> QED BY <1>4, <2>1 DEF CallsAscending
<1>5. CallsAscending(t)
  BY <1>3 DEF CallsAscending
<1> QED BY <1>1, <1>4, <1>5 DEF t, Range

-----------------------------------------------------------------------------
(* The order at a node.                                                    *)

(* A step elsewhere does not disturb it. *)
LEMMA OrderElsewhere ==
  ASSUME NEW j, NEW n, InOrder(n, j), executionList'[n] = executionList[n],
         stable_index'[n] = stable_index[n], priorityQueue'[n] = priorityQueue[n],
         receiver'[n] = receiver[n], net'[j][n] = net[j][n]
  PROVE  InOrder(n, j)'
<1>1. /\ Executed(n)' = Executed(n) /\ Queued(n)' = Queued(n) /\ Hand(n)' = Hand(n)
      /\ Sent(j, n)' = Sent(j, n) /\ Unstable(n)' = Unstable(n)
  BY DEF Executed, Queued, Hand, Sent, Unstable
<1> QED BY <1>1 DEF InOrder, ExecutedFirst, UnderwayLast, NothingReordered

(* What the state of the induction says of a node. *)
LEMMA OrderFacts ==
  ASSUME NEW j \in Node, OrderState(j), NEW n \in Node
  PROVE  /\ IInv /\ IssuedBy(j) /\ InOrder(n, j) /\ HandledOnce
         /\ executionList[n] \in Seq(Call) /\ executionList[n] \in Seq(CallsOf(j))
         /\ priorityQueue[n] \in Seq(Call) /\ priorityQueue[n] \in Seq(CallsOf(j))
         /\ net[j][n] \in Seq(Message)
         /\ stable_index[n] \in Nat /\ stable_index[n] <= Len(executionList[n])
         /\ \A c \in CallsOf(j) : c \in Call /\ c.call_id \in Nat
<1>1. /\ IInv /\ IssuedBy(j) /\ InOrder(n, j) /\ HandledOnce
      /\ executionList[n] \in Seq(Call) /\ priorityQueue[n] \in Seq(Call)
      /\ net[j][n] \in Seq(Message)
      /\ stable_index[n] \in Nat /\ stable_index[n] <= Len(executionList[n])
  BY IssuerCalls DEF OrderState, OrderInv, StabilityInv, CallInv, CallParts, IInv, TypeOK,
     StableWithinList
<1>2. \A s \in Seq(Call) : Range(s) \subseteq CallsOf(j) => s \in Seq(CallsOf(j))
  <2> SUFFICES ASSUME NEW s \in Seq(Call), Range(s) \subseteq CallsOf(j) PROVE s \in Seq(CallsOf(j))
    OBVIOUS
  <2>1. \A i \in 1..Len(s) : s[i] \in CallsOf(j)
    BY DEF Range
  <2>2. Len(s) \in Nat /\ s = [i \in 1..Len(s) |-> s[i]]
    OBVIOUS
  <2>3. [i \in 1..Len(s) |-> s[i]] \in Seq(CallsOf(j))
    BY <2>1, <2>2
  <2> QED BY <2>2, <2>3
<1>3. executionList[n] \in Seq(CallsOf(j)) /\ priorityQueue[n] \in Seq(CallsOf(j))
  BY <1>1, <1>2 DEF IssuedBy, Executed, Queued
<1>4. \A c \in CallsOf(j) : c \in Call /\ c.call_id \in Nat
  BY MaxCallIdAssumption DEF CallsOf, Call
<1> QED BY <1>1, <1>3, <1>4

(* An acknowledgement in a channel is not among its calls. *)
LEMMA SendAckOrder ==
  ASSUME NEW j \in Node, OrderState(j), NEW n \in Node, SendAck(n), NEW r \in Node
  PROVE  InOrder(r, j)'
<1> DEFINE a == Head(unsent_acks[n])
<1>1. /\ UNCHANGED <<executionList, stable_index, priorityQueue, receiver>>
      /\ Broadcast(n, AckMessage(a)) /\ unsent_acks[n] # <<>>
  BY DEF SendAck, handlerVars, receiverVars
<1>2. /\ IInv /\ InOrder(r, j) /\ net[j][r] \in Seq(Message)
  BY OrderFacts
<1>3. AckMessage(a) \in Message
  <2>1. unsent_acks[n] \in Seq(CallId)
    BY <1>2 DEF IInv, TypeOK
  <2>2. a \in CallId
    BY <1>1, <2>1
  <2> QED BY <2>2 DEF AckMessage, Message
<1> HIDE DEF a
<1>4. net'[j][r] = IF n = j /\ r # n THEN Append(net[j][r], AckMessage(a)) ELSE net[j][r]
  BY <1>1, <1>2 DEF IInv, TypeOK, Broadcast
<1>5. CASE n = j /\ r # n
  <2>1. AckMessage(a).kind # "Call"
    BY Messages
  <2>2. CallsAscending(net'[j][r])
    BY <1>2, <1>3, <1>4, <1>5, <2>1, AppendKeepsAscending DEF InOrder, UnderwayLast
  <2>3. Sent(j, r)' = Sent(j, r) \cup {AckMessage(a)}
    BY <1>2, <1>3, <1>4, <1>5, AppendElements DEF Sent
  <2>4. Executed(r)' = Executed(r) /\ Queued(r)' = Queued(r) /\ Hand(r)' = Hand(r)
        /\ Unstable(r)' = Unstable(r)
    BY <1>1 DEF Executed, Queued, Hand, Unstable
  <2>5. UnderwayLast(r, j)'
    BY <1>2, <2>1, <2>2, <2>3, <2>4 DEF InOrder, UnderwayLast
  <2>6. ExecutedFirst(r)' /\ NothingReordered(r)'
    BY <1>1, <1>2, <2>4 DEF InOrder, ExecutedFirst, NothingReordered
  <2> QED BY <2>5, <2>6 DEF InOrder
<1>6. CASE ~(n = j /\ r # n)
  BY <1>1, <1>2, <1>4, <1>6, OrderElsewhere
<1> QED BY <1>5, <1>6

(* A new call of j is its last. *)
LEMMA ExecuteLocalOrder ==
  ASSUME NEW j \in Node, OrderState(j), ExecuteLocal(j), NEW r \in Node
  PROVE  InOrder(r, j)'
<1> DEFINE c == NextCall(j)
           x == CallMessage(c)
<1>1. /\ UNCHANGED <<stable_index, priorityQueue, receiver>>
      /\ executionList' = [executionList EXCEPT ![j] = Append(@, c)]
      /\ Broadcast(j, x)
  BY DEF ExecuteLocal, receiverVars
<1>2. c \in CallsOf(j) /\ c.call_id = it[j]
  BY IssuerNextCall DEF OrderState, OrderInv
<1>3. /\ IInv /\ IssuedBy(j) /\ InOrder(r, j) /\ net[j][r] \in Seq(Message)
      /\ executionList[r] \in Seq(Call) /\ c \in Call
  BY <1>2, OrderFacts
<1> HIDE DEF c
<1>4. x \in Message /\ x.kind = "Call" /\ x.call = c
  BY <1>3, Messages DEF CallMessage, Message
<1> HIDE DEF x
<1>5. \A d \in Executed(j) : d.call_id < c.call_id
  BY <1>2, <1>3 DEF IssuedBy
<1>6. /\ executionList'[r] = IF r = j THEN Append(executionList[r], c) ELSE executionList[r]
      /\ net'[j][r] = IF r # j THEN Append(net[j][r], x) ELSE net[j][r]
  BY <1>1, <1>3 DEF IInv, TypeOK, Broadcast
<1>7. /\ Queued(r)' = Queued(r) /\ Hand(r)' = Hand(r)
      /\ priorityQueue'[r] = priorityQueue[r] /\ receiver'[r] = receiver[r]
  BY <1>1 DEF Queued, Hand
<1>8. CASE r = j
  <2>1. Queued(j) = {} /\ Hand(j) = {} /\ \A y \in Sent(j, j) : y.kind # "Call"
    BY <1>3 DEF IssuedBy
  <2>2. Ascending(executionList'[j])
    BY <1>3, <1>5, <1>6, <1>8, AppendAscends DEF InOrder, ExecutedFirst, Executed
  <2>3. ExecutedFirst(j)'
    BY <1>7, <1>8, <2>1, <2>2 DEF ExecutedFirst
  <2>4. UnderwayLast(j, j)'
    BY <1>3, <1>6, <1>8, <2>1 DEF InOrder, UnderwayLast, Sent
  <2>5. receiver[j].pc \notin {"insert", "ack"}
    BY <2>1 DEF Hand
  <2>6. NothingReordered(j)'
    BY <1>3, <1>7, <1>8, <2>5 DEF InOrder, NothingReordered
  <2> QED BY <1>8, <2>3, <2>4, <2>6 DEF InOrder
<1>9. CASE r # j
  <2>1. Executed(r)' = Executed(r) /\ Unstable(r)' = Unstable(r)
    BY <1>1, <1>6, <1>9 DEF Executed, Unstable
  <2>2. ExecutedFirst(r)' /\ NothingReordered(r)'
    BY <1>3, <1>6, <1>7, <1>9, <2>1 DEF InOrder, ExecutedFirst, NothingReordered
  <2>3. \A y \in Sent(j, r) : y.kind = "Call" => y.call \in Executed(j)
    BY <1>3 DEF IssuedBy
  <2>4. CallsAscending(net'[j][r])
    BY <1>3, <1>4, <1>5, <1>6, <1>9, <2>3, AppendKeepsAscending DEF InOrder, UnderwayLast, Sent
  <2>5. Sent(j, r)' = Sent(j, r) \cup {x}
    BY <1>3, <1>4, <1>6, <1>9, AppendElements DEF Sent
  <2>6. \A d \in Executed(r) \cup Queued(r) \cup Hand(r) : d.call_id < c.call_id
    BY <1>3, <1>5 DEF IssuedBy
  <2>7. UnderwayLast(r, j)'
    BY <1>3, <1>4, <1>7, <2>1, <2>4, <2>5, <2>6 DEF InOrder, UnderwayLast
  <2> QED BY <2>2, <2>7 DEF InOrder
<1> QED BY <1>8, <1>9

(* What comes from a channel leaves it in order. *)
LEMMA TakeOrder ==
  ASSUME NEW j \in Node, OrderState(j), NEW n \in Node, NEW m \in Node, net[m][n] # <<>>,
         net' = [net EXCEPT ![m][n] = Tail(@)]
  PROVE  /\ CallsAscending(net'[j][n]) /\ Sent(j, n)' \subseteq Sent(j, n)
         /\ Head(net[m][n]).kind = "Call" =>
              /\ m = j /\ Head(net[m][n]) \in Sent(j, n)
              /\ \A y \in Sent(j, n)' :
                   y.kind = "Call" => Head(net[m][n]).call.call_id < y.call.call_id
<1>1. IInv /\ IssuedBy(j) /\ InOrder(n, j) /\ net[j][n] \in Seq(Message)
  BY OrderFacts
<1>2. net'[j][n] = IF m = j THEN Tail(net[j][n]) ELSE net[j][n]
  BY <1>1 DEF IInv, TypeOK
<1>3. CallsAscending(net[j][n])
  BY <1>1 DEF InOrder, UnderwayLast
<1>4. CASE m = j
  <2>1. /\ CallsAscending(Tail(net[j][n]))
        /\ \A y \in Range(Tail(net[j][n])) :
             Head(net[j][n]).kind = "Call" /\ y.kind = "Call"
               => Head(net[j][n]).call.call_id < y.call.call_id
    BY <1>1, <1>3, <1>4, TailKeepsAscending
  <2>2. Head(net[j][n]) \in Range(net[j][n]) /\ Range(Tail(net[j][n])) \subseteq Range(net[j][n])
    BY <1>1, <1>4, TailOnce
  <2> QED BY <1>2, <1>4, <2>1, <2>2 DEF Sent
<1>5. CASE m # j
  <2>1. Head(net[m][n]) \in Sent(m, n)
    <3>1. net[m][n] \in Seq(Message)
      BY <1>1 DEF IInv, TypeOK
    <3> QED BY <3>1, TailOnce DEF Sent
  <2>2. Head(net[m][n]).kind # "Call"
    BY <1>1, <1>5, <2>1 DEF IssuedBy
  <2> QED BY <1>2, <1>3, <1>5, <2>2 DEF Sent
<1> QED BY <1>4, <1>5

(* A call that must not be queued comes after all unstable ones. *)
LEMMA LastIsNotReordered ==
  ASSUME NEW j \in Node, OrderState(j), NEW n \in Node, NEW c \in CallsOf(j), ~MustQueue(n, c),
         \A d \in Executed(n) : d.call_id < c.call_id
  PROVE  \A i \in Unstable(n) : ~FastIsReachableRemote(c, executionList[n][i])
<1>1. /\ IssuedBy(j) /\ executionList[n] \in Seq(CallsOf(j)) /\ stable_index[n] \in Nat
      /\ \A d \in CallsOf(j) : d.call_id \in Nat
  BY OrderFacts
<1> SUFFICES ASSUME NEW i \in Unstable(n) PROVE ~FastIsReachableRemote(c, executionList[n][i])
  OBVIOUS
<1> DEFINE d == executionList[n][i]
<1>2. i \in 1..Len(executionList[n])
  BY <1>1 DEF Unstable
<1>3. d \in CallsOf(j) /\ d \in Executed(n)
  BY <1>1, <1>2 DEF Executed, Range
<1> HIDE DEF d
<1>4. IsAfter(c, d)
  BY <1>1, <1>3, IssuerNumbered
<1> QED BY <1>4 DEF MustQueue, d

(* A received call is last in the queue, or it finds the queue empty. *)
LEMMA ReceiveCallOrder ==
  ASSUME NEW j \in Node, OrderState(j), NEW n \in Node, NEW m \in Node, ReceiveCall(n, m),
         NEW r \in Node
  PROVE  InOrder(r, j)'
<1> DEFINE h == Head(net[m][n])
           c == h.call
           q == priorityQueue[n]
<1>1. /\ UNCHANGED <<executionList, stable_index>> /\ receiver[n] = Idle
      /\ net[m][n] # <<>> /\ net' = [net EXCEPT ![m][n] = Tail(@)] /\ h.kind = "Call"
  BY DEF ReceiveCall, handlerVars
<1>2. IF MustQueue(n, c)
      THEN /\ priorityQueue' = [priorityQueue EXCEPT ![n] = Push(@, c)]
           /\ receiver' = [receiver EXCEPT ![n] = Drain]
      ELSE /\ receiver' = [receiver EXCEPT ![n] = Handling("insert", c, FALSE)]
           /\ priorityQueue' = priorityQueue
  BY DEF ReceiveCall
<1>3. /\ m = j /\ h \in Sent(j, n) /\ CallsAscending(net'[j][n]) /\ Sent(j, n)' \subseteq Sent(j, n)
      /\ \A y \in Sent(j, n)' : y.kind = "Call" => c.call_id < y.call.call_id
  BY <1>1, TakeOrder
<1>4. /\ IInv /\ IssuedBy(j) /\ InOrder(n, j) /\ InOrder(r, j)
      /\ q \in Seq(CallsOf(j)) /\ \A d \in CallsOf(j) : d \in Call /\ d.call_id \in Nat
  BY OrderFacts
<1> HIDE DEF h, q
<1>5. c \in CallsOf(j)
  BY <1>1, <1>3, <1>4 DEF IssuedBy
<1>6. \A d \in Executed(n) \cup Queued(n) : d.call_id < c.call_id
  BY <1>1, <1>3, <1>4 DEF InOrder, UnderwayLast
<1> HIDE DEF c
<1>7. ASSUME r # n PROVE InOrder(r, j)'
  <2>1. priorityQueue'[r] = priorityQueue[r] /\ receiver'[r] = receiver[r]
    BY <1>2, <1>4, <1>7 DEF IInv, TypeOK
  <2>2. net'[j][r] = net[j][r]
    BY <1>1, <1>4, <1>7 DEF IInv, TypeOK
  <2> QED BY <1>1, <1>4, <2>1, <2>2, OrderElsewhere
<1>8. /\ Executed(n)' = Executed(n) /\ Hand(n) = {} /\ Unstable(n)' = Unstable(n)
      /\ executionList'[n] = executionList[n]
  BY <1>1, HandOf DEF Executed, Unstable
<1>9. /\ Queued(n)' \cup Hand(n)' \subseteq Queued(n) \cup {c}
      /\ NothingReordered(n)'
  <2>1. CASE MustQueue(n, c)
    <3>1. priorityQueue'[n] = Push(q, c) /\ receiver'[n] = Drain
      BY <1>2, <1>4, <2>1 DEF IInv, TypeOK, q
    <3>2. Hand(n)' = {} /\ receiver'[n].pc \notin {"insert", "ack"}
      BY <3>1, HandOf
    <3>3. Range(Push(q, c)) = Range(q) \cup {c}
      BY <1>4, <1>5, PushElements
    <3>4. \A i \in 1..Len(q) : q[i].call_id <= c.call_id
      <4> SUFFICES ASSUME NEW i \in 1..Len(q) PROVE q[i].call_id <= c.call_id
        OBVIOUS
      <4>1. q[i] \in Queued(n) /\ q[i] \in CallsOf(j)
        BY <1>4 DEF Queued, Range, q
      <4> QED BY <1>4, <1>5, <1>6, <4>1
    <3>5. IsHeap(q)
      BY <1>4 DEF InOrder, NothingReordered, q
    <3>6. IsHeap(Push(q, c))
      BY <1>4, <1>5, <3>4, <3>5, IssuerNumbered, PushKeepsHeap
    <3> QED BY <3>1, <3>2, <3>3, <3>6 DEF NothingReordered, Queued, q
  <2>2. CASE ~MustQueue(n, c)
    <3>1. priorityQueue'[n] = q /\ receiver'[n] = Handling("insert", c, FALSE)
      BY <1>2, <1>4, <2>2 DEF IInv, TypeOK, q
    <3>2. Hand(n)' = {c} /\ receiver'[n].pc = "insert" /\ receiver'[n].call = c
      BY <3>1 DEF Hand, Handling
    <3>3. q = <<>>
      <4> SUFFICES ASSUME q # <<>> PROVE FALSE
        OBVIOUS
      <4>1. Top(q) \in CallsOf(j) /\ Top(q) \in Range(q)
        BY <1>4 DEF Top, Range
      <4>2. IsAfter(c, Top(q))
        BY <1>4, <1>5, <1>6, <4>1, IssuerNumbered DEF Queued, q
      <4> QED BY <2>2, <4>2 DEF MustQueue, q
    <3>4. \A i \in Unstable(n) : ~FastIsReachableRemote(c, executionList[n][i])
      BY <1>5, <1>6, <2>2, LastIsNotReordered
    <3>5. IsHeap(q)
      BY <1>4 DEF InOrder, NothingReordered, q
    <3>6. NothingReordered(n)'
      BY <1>8, <3>1, <3>2, <3>3, <3>4, <3>5 DEF NothingReordered
    <3>7. Queued(n)' = Queued(n)
      BY <3>1 DEF Queued, q
    <3> QED BY <3>2, <3>6, <3>7
  <2> QED BY <2>1, <2>2
<1>10. ExecutedFirst(n)'
  BY <1>4, <1>6, <1>8, <1>9 DEF InOrder, ExecutedFirst
<1>11. UnderwayLast(n, j)'
  <2>1. \A d \in Executed(n) \cup Queued(n), y \in Sent(j, n)' :
          y.kind = "Call" => d.call_id < y.call.call_id
    BY <1>3, <1>4 DEF InOrder, UnderwayLast
  <2> QED BY <1>3, <1>8, <1>9, <2>1 DEF UnderwayLast
<1> QED BY <1>7, <1>9, <1>10, <1>11 DEF InOrder

(* An acknowledgement moves no call. *)
LEMMA ReceiveAckOrder ==
  ASSUME NEW j \in Node, OrderState(j), NEW n \in Node, NEW m \in Node, ReceiveAck(n, m),
         NEW r \in Node
  PROVE  InOrder(r, j)'
<1>1. /\ UNCHANGED <<executionList, priorityQueue>> /\ receiver[n] = Idle
      /\ net[m][n] # <<>> /\ net' = [net EXCEPT ![m][n] = Tail(@)]
      /\ \A k \in Node \ {n} : stable_index'[k] = stable_index[k]
      /\ \A k \in Node \ {n} : receiver'[k] = receiver[k]
      /\ receiver'[n] \in {Idle, Drain}
  <2>1. IInv
    BY OrderFacts
  <2>2. \E a : stable_index' = [stable_index EXCEPT ![n] = a]
    BY DEF ReceiveAck
  <2>3. \E a \in {Idle, Drain} : receiver' = [receiver EXCEPT ![n] = a]
    BY DEF ReceiveAck, DrainOrIdle
  <2> QED BY <2>1, <2>2, <2>3 DEF ReceiveAck, IInv, TypeOK
<1>2. IInv /\ InOrder(n, j) /\ InOrder(r, j)
  BY OrderFacts
<1>3. CASE r # n
  <2>1. net'[j][r] = net[j][r]
    BY <1>1, <1>2, <1>3 DEF IInv, TypeOK
  <2> QED BY <1>1, <1>2, <1>3, <2>1, OrderElsewhere
<1>4. CASE r = n
  <2>1. CallsAscending(net'[j][n]) /\ Sent(j, n)' \subseteq Sent(j, n)
    BY <1>1, TakeOrder
  <2>2. /\ Executed(n)' = Executed(n) /\ Queued(n)' = Queued(n)
        /\ Hand(n)' = {} /\ receiver'[n].pc \notin {"insert", "ack"}
    BY <1>1, HandOf DEF Executed, Queued
  <2>3. ExecutedFirst(n)' /\ UnderwayLast(n, j)' /\ NothingReordered(n)'
    BY <1>1, <1>2, <2>1, <2>2 DEF InOrder, ExecutedFirst, UnderwayLast, NothingReordered
  <2> QED BY <1>4, <2>3 DEF InOrder
<1> QED BY <1>3, <1>4

(* Inserting at the end is appending. *)
LEMMA InsertAtEnd ==
  ASSUME NEW S, NEW s \in Seq(S), NEW e \in S
  PROVE  InsertAt(s, Len(s) + 1, e) = Append(s, e)
<1> DEFINE l == Len(s)
<1>1. l \in Nat /\ l + 1 - 1 = l
  OBVIOUS
<1>2. SubSeq(s, 1, l) = s /\ SubSeq(s, l + 1, l) = <<>>
  OBVIOUS
<1>3. (s \o <<e>>) \o <<>> = Append(s, e)
  OBVIOUS
<1> HIDE DEF l
<1>4. InsertAt(s, l + 1, e) = SubSeq(s, 1, l) \o <<e>> \o SubSeq(s, l + 1, l)
  BY <1>1 DEF InsertAt, l
<1>5. InsertAt(s, l + 1, e) = Append(s, e)
  BY <1>2, <1>3, <1>4
<1> QED BY <1>5 DEF l

(* remoteHandler puts the call in hand at the end of the list. *)
LEMMA InsertedLast ==
  ASSUME NEW j \in Node, OrderState(j), NEW n \in Node, ExecuteRemote(n)
  PROVE  /\ receiver[n].call \in Hand(n) /\ receiver[n].call \in CallsOf(j)
         /\ receiver[n].call \notin Executed(n)
         /\ executionList'[n] = Append(executionList[n], receiver[n].call)
         /\ \A k \in Node \ {n} : executionList'[k] = executionList[k]
<1> DEFINE c == receiver[n].call
           s == executionList[n]
<1>1. receiver[n].pc = "insert"
  BY DEF ExecuteRemote
<1>2. /\ IInv /\ IssuedBy(j) /\ InOrder(n, j) /\ HandledOnce /\ s \in Seq(CallsOf(j))
  BY OrderFacts
<1>3. c \in Hand(n) /\ c \in CallsOf(j) /\ c \notin Executed(n)
  BY <1>1, <1>2 DEF Hand, IssuedBy, HandledOnce
<1>4. InsertPosition(n, c) = Len(s) + 1
  BY <1>1, <1>2 DEF InOrder, NothingReordered, InsertPosition
<1>5. executionList' = [executionList EXCEPT ![n] = InsertAt(@, InsertPosition(n, c), c)]
  BY DEF ExecuteRemote
<1>6. executionList'[n] = InsertAt(s, Len(s) + 1, c)
      /\ \A k \in Node \ {n} : executionList'[k] = executionList[k]
  BY <1>2, <1>4, <1>5 DEF IInv, TypeOK
<1> HIDE DEF c, s
<1>7. InsertAt(s, Len(s) + 1, c) = Append(s, c)
  BY <1>2, <1>3, InsertAtEnd
<1> QED BY <1>3, <1>6, <1>7 DEF c, s

(* It comes after all executed calls and before all others. *)
LEMMA ExecuteRemoteOrder ==
  ASSUME NEW j \in Node, OrderState(j), NEW n \in Node, ExecuteRemote(n), NEW r \in Node
  PROVE  InOrder(r, j)'
<1> DEFINE c == receiver[n].call
           q == priorityQueue[n]
<1>1. /\ IInv /\ IssuedBy(j) /\ InOrder(n, j) /\ InOrder(r, j) /\ HandledOnce
      /\ executionList[n] \in Seq(Call) /\ q \in Seq(CallsOf(j))
      /\ \A d \in CallsOf(j) : d \in Call /\ d.call_id \in Nat
  BY OrderFacts
<1>2. /\ c \in Hand(n) /\ c \in CallsOf(j) /\ c \notin Executed(n)
      /\ executionList'[n] = Append(executionList[n], c)
      /\ \A k \in Node \ {n} : executionList'[k] = executionList[k]
  BY InsertedLast
<1>3. /\ UNCHANGED <<stable_index, priorityQueue, net>>
      /\ receiver' = [receiver EXCEPT ![n].pc = "ack"] /\ receiver[n].pc = "insert"
  BY DEF ExecuteRemote
<1>4. CASE r # n
  <2>1. receiver'[r] = receiver[r]
    BY <1>1, <1>3, <1>4 DEF IInv, TypeOK
  <2> QED BY <1>1, <1>2, <1>3, <1>4, <2>1, OrderElsewhere
<1>5. CASE r = n
  <2>1. /\ receiver'[n].pc = "ack" /\ receiver'[n].call = c
        /\ receiver'[n].queued = receiver[n].queued
    <3>1. receiver[n] \in {Idle, Drain} \cup [pc : {"insert", "ack"}, call : Call, queued : BOOLEAN]
      BY <1>1 DEF IInv, TypeOK
    <3>2. receiver[n] \in [pc : {"insert", "ack"}, call : Call, queued : BOOLEAN]
      BY <1>3, <3>1 DEF Idle, Drain
    <3>3. receiver'[n] = [receiver[n] EXCEPT !.pc = "ack"]
      BY <1>1, <1>3 DEF IInv, TypeOK
    <3> QED BY <3>2, <3>3
  <2>2. Hand(n) = {c} /\ Hand(n)' = {c} /\ Queued(n)' = Queued(n)
    BY <1>3, <2>1 DEF Hand, Queued
  <2> HIDE DEF c
  <2>3. Executed(n)' = Executed(n) \cup {c}
    BY <1>1, <1>2, AppendElements DEF Executed
  <2>4. \A d \in Executed(n) : d.call_id < c.call_id
    BY <1>1, <1>2 DEF InOrder, ExecutedFirst
  <2>5. Ascending(executionList'[n])
    BY <1>1, <1>2, <2>4, AppendAscends DEF InOrder, ExecutedFirst, Executed
  <2>6. ASSUME NEW d \in Queued(n), d \notin Executed(n), d # c PROVE c.call_id < d.call_id
    <3>1. receiver[n].queued
      <4> SUFFICES ASSUME ~receiver[n].queued PROVE FALSE
        OBVIOUS
      <4>1. q = <<>>
        BY <1>1, <1>3 DEF InOrder, NothingReordered
      <4> QED BY <2>6, <4>1 DEF Queued, Range
    <3>2. c = Top(q)
      BY <1>1, <1>3, <3>1 DEF HandledOnce, c
    <3>3. PICK i \in 1..Len(q) : d = q[i]
      BY <1>1, <2>6 DEF Queued, Range
    <3>4. c.call_id <= d.call_id
      <4>1. IsHeap(q) /\ Numbered(CallsOf(j))
        BY <1>1, IssuerNumbered DEF InOrder, NothingReordered
      <4> HIDE DEF q
      <4>2. q[1].call_id <= q[i].call_id
        BY <1>1, <4>1, HeapTop
      <4> QED BY <3>2, <3>3, <4>2 DEF Top
    <3>5. d \in CallsOf(j) /\ d \in Executed(j) /\ c \in Executed(j)
      BY <1>1, <1>2, <2>6 DEF IssuedBy
    <3>6. c.call_id # d.call_id
      BY <1>1, <2>6, <3>5 DEF IssuedBy
    <3> QED BY <1>1, <1>2, <3>4, <3>5, <3>6
  <2>7. ExecutedFirst(n)'
    BY <1>1, <2>2, <2>3, <2>5, <2>6 DEF InOrder, ExecutedFirst
  <2>8. UnderwayLast(n, j)'
    BY <1>1, <1>2, <1>3, <2>2, <2>3 DEF InOrder, UnderwayLast, Sent
  <2>9. NothingReordered(n)'
    BY <1>1, <1>3, <2>1 DEF InOrder, NothingReordered
  <2> QED BY <1>5, <2>7, <2>8, <2>9 DEF InOrder
<1> QED BY <1>4, <1>5

(* The executed call leaves the queue. *)
LEMMA RecordAckOrder ==
  ASSUME NEW j \in Node, OrderState(j), NEW n \in Node, RecordAck(n), NEW r \in Node
  PROVE  InOrder(r, j)'
<1> DEFINE q == priorityQueue[n]
           rest == IF receiver[n].queued THEN Pop(q) ELSE q
<1>1. /\ IInv /\ InOrder(n, j) /\ InOrder(r, j) /\ q \in Seq(CallsOf(j)) /\ q \in Seq(Call)
      /\ IsInjective(q)
  BY OrderFacts DEF OrderState, StabilityInv, CallInv, CallsOnce
<1>2. /\ UNCHANGED <<executionList, stable_index, net>> /\ receiver[n].pc = "ack"
      /\ priorityQueue' = [priorityQueue EXCEPT ![n] = rest]
      /\ \E a \in {Idle, Drain} : receiver' = [receiver EXCEPT ![n] = a]
  BY DEF RecordAck, handlerVars, DrainOrIdle
<1>3. /\ priorityQueue'[n] = rest /\ receiver'[n] \in {Idle, Drain}
      /\ \A k \in Node \ {n} : priorityQueue'[k] = priorityQueue[k] /\ receiver'[k] = receiver[k]
  BY <1>1, <1>2 DEF IInv, TypeOK
<1>4. receiver[n].queued => q # <<>>
  BY <1>1, <1>2 DEF IInv, QueueHasTop, UsesQueue
<1>5. IsHeap(q)
  BY <1>1 DEF InOrder, NothingReordered
<1>6. CASE r # n
  BY <1>1, <1>2, <1>3, <1>6, OrderElsewhere
<1>7. CASE r = n
  <2>1. Range(rest) \subseteq Range(q) /\ IsHeap(rest)
    <3>1. CASE receiver[n].queued
      <4>1. q # <<>> /\ rest = Pop(q)
        BY <1>4, <3>1
      <4> HIDE DEF q, rest
      <4>2. Range(Pop(q)) \subseteq Range(q)
        BY <1>1, <4>1, PopElements
      <4>3. IsHeap(Pop(q))
        BY <1>1, <1>5, <4>1, IssuerNumbered, PopKeepsHeap
      <4> QED BY <4>1, <4>2, <4>3
    <3>2. CASE ~receiver[n].queued
      BY <1>5, <3>2
    <3> QED BY <3>1, <3>2
  <2> HIDE DEF rest
  <2>2. /\ Executed(n)' = Executed(n) /\ Queued(n)' \subseteq Queued(n)
        /\ Hand(n)' = {} /\ receiver'[n].pc \notin {"insert", "ack"}
        /\ Sent(j, n)' = Sent(j, n)
    BY <1>2, <1>3, <2>1, HandOf DEF Executed, Queued, Sent
  <2>3. ExecutedFirst(n)' /\ UnderwayLast(n, j)' /\ NothingReordered(n)'
    BY <1>1, <1>2, <1>3, <2>1, <2>2 DEF InOrder, ExecutedFirst, UnderwayLast, NothingReordered
  <2> QED BY <1>7, <2>3 DEF InOrder
<1> QED BY <1>6, <1>7

(* The top of the queue is the first of the calls in it. *)
LEMMA DrainQueueOrder ==
  ASSUME NEW j \in Node, OrderState(j), NEW n \in Node, DrainQueue(n), NEW r \in Node
  PROVE  InOrder(r, j)'
<1> DEFINE q == priorityQueue[n]
           c == Top(q)
<1>1. /\ IInv /\ IssuedBy(j) /\ InOrder(n, j) /\ InOrder(r, j) /\ HandledOnce
      /\ q \in Seq(CallsOf(j))
  BY OrderFacts
<1>2. /\ UNCHANGED <<executionList, stable_index, priorityQueue, net>> /\ receiver[n] = Drain
      /\ \/ receiver' = [receiver EXCEPT ![n] = Idle]
         \/ /\ ~MustQueue(n, c)
            /\ receiver' = [receiver EXCEPT ![n] = Handling("insert", c, TRUE)]
  BY DEF DrainQueue, handlerVars
<1>3. q # <<>>
  BY <1>1, <1>2 DEF IInv, QueueHasTop, UsesQueue
<1>4. c \in CallsOf(j) /\ c \in Queued(n)
  BY <1>1, <1>3 DEF Top, Queued, Range
<1>5. c \notin Executed(n)
  BY <1>1, <1>2, <1>4 DEF HandledOnce, Drain
<1>6. /\ Executed(n)' = Executed(n) /\ Queued(n)' = Queued(n) /\ Sent(j, n)' = Sent(j, n)
      /\ Unstable(n)' = Unstable(n)
  BY <1>2 DEF Executed, Queued, Sent, Unstable
<1> HIDE DEF c
<1>7. CASE r # n
  <2>1. receiver'[r] = receiver[r]
    BY <1>1, <1>2, <1>7 DEF IInv, TypeOK
  <2> QED BY <1>1, <1>2, <1>7, <2>1, OrderElsewhere
<1>8. CASE r = n /\ receiver' = [receiver EXCEPT ![n] = Idle]
  <2>1. Hand(n)' = {} /\ receiver'[n].pc \notin {"insert", "ack"}
    BY <1>1, <1>8, HandOf DEF IInv, TypeOK
  <2>2. ExecutedFirst(n)' /\ UnderwayLast(n, j)' /\ NothingReordered(n)'
    BY <1>1, <1>2, <1>6, <2>1 DEF InOrder, ExecutedFirst, UnderwayLast, NothingReordered
  <2> QED BY <1>8, <2>2 DEF InOrder
<1>9. CASE /\ r = n /\ ~MustQueue(n, c)
           /\ receiver' = [receiver EXCEPT ![n] = Handling("insert", c, TRUE)]
  <2>1. receiver'[n] = Handling("insert", c, TRUE)
    BY <1>1, <1>9 DEF IInv, TypeOK
  <2>2. /\ Hand(n)' = {c} /\ receiver'[n].pc = "insert" /\ receiver'[n].call = c
        /\ receiver'[n].queued
    BY <2>1 DEF Hand, Handling
  <2>3. \A d \in Executed(n) : d.call_id < c.call_id
    BY <1>1, <1>4, <1>5 DEF InOrder, ExecutedFirst
  <2>4. \A i \in Unstable(n) : ~FastIsReachableRemote(c, executionList[n][i])
    BY <1>4, <1>9, <2>3, LastIsNotReordered
  <2>5. ExecutedFirst(n)' /\ UnderwayLast(n, j)'
    BY <1>1, <1>2, <1>4, <1>6, <2>2 DEF InOrder, ExecutedFirst, UnderwayLast
  <2>6. NothingReordered(n)'
    BY <1>1, <1>2, <1>6, <2>2, <2>4 DEF InOrder, NothingReordered
  <2> QED BY <1>9, <2>5, <2>6 DEF InOrder
<1> QED BY <1>2, <1>7, <1>8, <1>9

(* A step of Main keeps the order of the calls. *)
LEMMA MainInOrder ==
  ASSUME NEW j \in Node, OrderState(j), NEW n \in Node, Main(n), NEW r \in Node
  PROVE  InOrder(r, j)'
<1>1. StabilityInv /\ OneIssuer(j) /\ InOrder(r, j)
  BY DEF OrderState, OrderInv
<1>2. CASE SendAck(n)
  BY <1>2, SendAckOrder
<1>3. CASE ExecuteLocal(n)
  <2>1. ExecuteLocal(j)
    BY <1>1, <1>3, OnlyIssuerIssues
  <2> QED BY <2>1, ExecuteLocalOrder
<1>4. CASE NoAckToSend(n) \/ RefuseLocal(n)
  <2>1. UNCHANGED <<executionList, stable_index, priorityQueue, receiver, net>>
    BY <1>4 DEF NoAckToSend, RefuseLocal, handlerVars, receiverVars
  <2> QED BY <1>1, <2>1, OrderElsewhere
<1> QED BY <1>2, <1>3, <1>4 DEF Main

(* A step of the receiver keeps it too. *)
LEMMA ReceiverInOrder ==
  ASSUME NEW j \in Node, OrderState(j), NEW n \in Node, Receiver(n), NEW r \in Node
  PROVE  InOrder(r, j)'
<1>1. ASSUME NEW m \in Node, ReceiveCall(n, m) \/ ReceiveAck(n, m) PROVE InOrder(r, j)'
  <2>1. CASE ReceiveCall(n, m)
    BY <2>1, ReceiveCallOrder
  <2>2. CASE ReceiveAck(n, m)
    BY <2>2, ReceiveAckOrder
  <2> QED BY <1>1, <2>1, <2>2
<1>2. CASE ExecuteRemote(n)
  BY <1>2, ExecuteRemoteOrder
<1>3. CASE RecordAck(n)
  BY <1>3, RecordAckOrder
<1>4. CASE DrainQueue(n)
  BY <1>4, DrainQueueOrder
<1> QED BY <1>1, <1>2, <1>3, <1>4 DEF Receiver, Receive

(* Together with the counting: a step keeps the induction. *)
LEMMA StepKeepsOrder ==
  ASSUME NEW j \in Node, OrderState(j), [Next]_vars
  PROVE  OrderInv(j)'
<1>1. ASSUME NEW r \in Node PROVE InOrder(r, j)'
  <2>1. CASE UNCHANGED vars
    <3>1. InOrder(r, j)
      BY DEF OrderState, OrderInv
    <3>2. UNCHANGED <<executionList, stable_index, priorityQueue, receiver, net>>
      BY <2>1 DEF vars, handlerVars, receiverVars
    <3> QED BY <3>1, <3>2, OrderElsewhere
  <2>2. CASE \E n \in Node : Main(n)
    BY <2>2, MainInOrder
  <2>3. CASE \E n \in Node : Receiver(n)
    BY <2>3, ReceiverInOrder
  <2> QED BY <2>1, <2>2, <2>3 DEF Next
<1> QED BY <1>1, StepCounts DEF OrderInv

(* At first there are no calls. *)
LEMMA InitOrder == ASSUME Init, NEW j \in Node PROVE OrderInv(j)
<1>1. Counting(j)
  <2>1. \A n \in Node : it[n] = 1 /\ executionList[n] = <<>> /\ vector_clock[n] = [r \in Node |-> 0]
    BY DEF Init
  <2>2. ClockAfter(j, 0) = [r \in Node |-> 0] /\ 1 - 1 = 0
    BY DEF ClockAfter
  <2>3. Executed(j) = {}
    BY <2>1 DEF Executed, Range
  <2> QED BY <2>1, <2>2, <2>3 DEF Counting
<1>2. ASSUME NEW n \in Node PROVE InOrder(n, j)
  <2>1. /\ executionList[n] = <<>> /\ priorityQueue[n] = <<>> /\ net[j][n] = <<>>
        /\ receiver[n] = Idle
    BY <1>2 DEF Init
  <2>2. DOMAIN <<>> = {} /\ Range(<<>>) = {} /\ receiver[n].pc \notin {"insert", "ack"}
    BY <2>1 DEF Range, Idle
  <2>3. Executed(n) = {} /\ Queued(n) = {} /\ Hand(n) = {} /\ Sent(j, n) = {}
    BY <2>1, <2>2 DEF Executed, Queued, Hand, Sent
  <2>4. ExecutedFirst(n) /\ UnderwayLast(n, j)
    BY <2>1, <2>2, <2>3 DEF ExecutedFirst, UnderwayLast, Ascending, CallsAscending
  <2>5. NothingReordered(n)
    BY <2>1, <2>2 DEF NothingReordered, IsHeap
  <2> QED BY <2>4, <2>5 DEF InOrder
<1> QED BY <1>1, <1>2 DEF OrderInv

(* Nobody is given other calls than at the start. *)
LEMMA WorkloadFixed == [Next]_vars => workload' = workload
<1>1. UNCHANGED vars => workload' = workload
  BY DEF vars
<1>2. \A n \in Node : Main(n) => workload' = workload
  BY DEF Main, SendAck, NoAckToSend, ExecuteLocal, RefuseLocal
<1>3. \A n, m \in Node : ReceiveCall(n, m) => workload' = workload
  BY DEF ReceiveCall
<1>4. \A n, m \in Node : ReceiveAck(n, m) => workload' = workload
  <2> SUFFICES ASSUME NEW n \in Node, NEW m \in Node, ReceiveAck(n, m) PROVE workload' = workload
    OBVIOUS
  <2> QED BY DEF ReceiveAck
<1>5. \A n \in Node : ExecuteRemote(n) \/ RecordAck(n) \/ DrainQueue(n) => workload' = workload
  BY DEF ExecuteRemote, RecordAck, DrainQueue
<1> QED BY <1>1, <1>2, <1>3, <1>4, <1>5 DEF Next, Receiver, Receive

(* With one issuer the calls are in order for ever. *)
OrderKept == \A j \in Node : OneIssuer(j) => OrderInv(j)

(* OrderKept is an invariant. *)
LEMMA OrderInvariance == Spec => [](StabilityInv /\ OrderKept)
<1>1. Init => OrderKept
  BY InitOrder DEF OrderKept
<1>2. StabilityInv /\ OrderKept /\ [Next]_vars => OrderKept'
  <2> SUFFICES ASSUME StabilityInv, OrderKept, [Next]_vars, NEW j \in Node, OneIssuer(j)'
               PROVE  OrderInv(j)'
    BY DEF OrderKept
  <2>1. workload' = workload
    BY WorkloadFixed
  <2>2. OneIssuer(j)
    BY <2>1 DEF OneIssuer
  <2> QED BY <2>2, StepKeepsOrder DEF OrderKept, OrderState
<1> QED BY <1>1, <1>2, StabilityInvariance, PTL DEF Spec

(* In an ascending list, positions are compared as numbers are. *)
LEMMA PositionByNumber ==
  ASSUME NEW s \in Seq(Call), Ascending(s), NEW c \in Range(s), NEW d \in Range(s)
  PROVE  Position(s, c) < Position(s, d) <=> c.call_id < d.call_id
<1> DEFINE p == Position(s, c)
           q == Position(s, d)
<1>1. p \in DOMAIN s /\ s[p] = c /\ q \in DOMAIN s /\ s[q] = d
  BY DEF Position, Range
<1>2. DOMAIN s \subseteq Nat
  OBVIOUS
<1>3. c.call_id \in Nat /\ d.call_id \in Nat
  <2>1. c \in Call /\ d \in Call
    BY <1>1
  <2> QED BY <2>1, MaxCallIdAssumption DEF Call
<1> HIDE DEF p, q
<1>4. /\ p < q => c.call_id < d.call_id
      /\ q < p => d.call_id < c.call_id
      /\ p = q => c = d
  BY <1>1 DEF Ascending
<1>5. p < q <=> c.call_id < d.call_id
  BY <1>1, <1>2, <1>3, <1>4
<1> QED BY <1>5 DEF p, q

(* Calls executed by number are agreed on, and no later one comes first. *)
LEMMA OrderMeansAgreement ==
  ASSUME NEW j \in Node, OrderState(j)
  PROVE  StableOrderAgreement /\ StableRespectsCausality
<1>1. \A n \in Node : /\ executionList[n] \in Seq(Call) /\ executionList[n] \in Seq(CallsOf(j))
                      /\ Ascending(executionList[n])
                      /\ stable_index[n] \in Nat /\ stable_index[n] <= Len(executionList[n])
  BY OrderFacts DEF InOrder, ExecutedFirst
<1>2. \A n \in Node : Stable(n) \subseteq Range(executionList[n])
  <2> SUFFICES ASSUME NEW n \in Node PROVE Stable(n) \subseteq Range(executionList[n])
    OBVIOUS
  <2> DEFINE s == executionList[n]
             i == stable_index[n]
  <2>1. s \in Seq(Call) /\ i \in Nat /\ i <= Len(s)
    BY <1>1
  <2>2. DOMAIN SubSeq(s, 1, i) = 1..i /\ \A k \in 1..i : SubSeq(s, 1, i)[k] = s[k]
    BY <2>1
  <2>3. \A k \in 1..i : k \in DOMAIN s
    BY <2>1
  <2> QED BY <2>2, <2>3 DEF Stable, StablePrefix, Range
<1>3. StableOrderAgreement
  <2> SUFFICES ASSUME NEW n \in Node, NEW m \in Node, NEW c \in Stable(n) \cap Stable(m),
                      NEW d \in Stable(n) \cap Stable(m)
               PROVE  Position(executionList[n], c) < Position(executionList[n], d)
                        <=> Position(executionList[m], c) < Position(executionList[m], d)
    BY DEF StableOrderAgreement
  <2>1. \A r \in {n, m} :
          Position(executionList[r], c) < Position(executionList[r], d) <=> c.call_id < d.call_id
    BY <1>1, <1>2, PositionByNumber
  <2> QED BY <2>1
<1>4. StableRespectsCausality
  <2> SUFFICES ASSUME NEW n \in Node, NEW i \in 1..stable_index[n],
                      NEW k \in 1..stable_index[n], i < k
               PROVE  ~IsAfter(executionList[n][i], executionList[n][k])
    BY DEF StableRespectsCausality
  <2> DEFINE s == executionList[n]
  <2>1. i \in DOMAIN s /\ k \in DOMAIN s
    BY <1>1
  <2>2. s[i].call_id < s[k].call_id
    BY <1>1, <2>1 DEF Ascending
  <2>3. s[i] \in CallsOf(j) /\ s[k] \in CallsOf(j)
    BY <1>1, <2>1
  <2>4. s[i].call_id \in Nat /\ s[k].call_id \in Nat
    BY <2>3, OrderFacts
  <2> HIDE DEF s
  <2>5. ~IsAfter(s[i], s[k])
    BY <2>2, <2>3, <2>4, IssuerNumbered
  <2> QED BY <2>5 DEF s
<1> QED BY <1>3, <1>4

(***************************************************************************)
(* With one issuer the nodes agree on the order of conflicting stable      *)
(* calls, for every conflict relation: neither the wait in the queue nor   *)
(* an acknowledgement that overtakes its call, which upset the order of    *)
(* calls of several nodes, does so.                                        *)
(***************************************************************************)
THEOREM OneIssuerAgreement ==
  Spec => []((\E j \in Node : OneIssuer(j)) => StableOrderAgreement)
<1>1. StabilityInv /\ OrderKept => ((\E j \in Node : OneIssuer(j)) => StableOrderAgreement)
  BY OrderMeansAgreement DEF OrderKept, OrderState
<1> QED BY <1>1, OrderInvariance, PTL

(***************************************************************************)
(* And a call that was issued after another one is not stable before it.   *)
(***************************************************************************)
THEOREM OneIssuerCausality ==
  Spec => []((\E j \in Node : OneIssuer(j)) => StableRespectsCausality)
<1>1. StabilityInv /\ OrderKept => ((\E j \in Node : OneIssuer(j)) => StableRespectsCausality)
  BY OrderMeansAgreement DEF OrderKept, OrderState
<1> QED BY <1>1, OrderInvariance, PTL

-----------------------------------------------------------------------------
(* The current state.                                                      *)

(* updateCurrentState and updateStableState do the same, as in set.hpp. *)
CurrentAsStable(State) ==
  \A s \in State, c \in Call : UpdateCurrentState(s, c) = UpdateStableState(s, c)

(* What was applied is what is in the list, each call once. *)
AppliedOnce ==
  /\ applied \in [Node -> Seq(Call)]
  /\ \A n \in Node : IsInjective(applied[n]) /\ Range(applied[n]) = Executed(n)

(* A node's current state is what the calls it applied make of the initial state. *)
ExecutedCallsApplied(State) ==
  /\ current_state \in [Node -> State]
  /\ \A n \in Node :
       current_state[n] = ApplyAll(Effect(State), InitialState, applied[n])

(* A call that is executed is applied last. *)
LEMMA CallIsApplied ==
  ASSUME NEW State, UpdatesStayIn(State), CurrentAsStable(State), ExecutedCallsApplied(State),
         AppliedOnce, NEW n \in Node, NEW c \in Call, c \notin Executed(n),
         \A k \in Node : Executed(k)' = IF k = n THEN Executed(k) \cup {c} ELSE Executed(k),
         ApplyToCurrent(n, c)
  PROVE  AppliedOnce' /\ ExecutedCallsApplied(State)'
<1> DEFINE u == Effect(State)
           s == applied[n]
           t == Append(s, c)
           x == ApplyAll(u, InitialState, s)
<1>1. /\ u \in Effects(State, Call) /\ InitialState \in State
      /\ \A y \in State : u[c][y] = UpdateStableState(y, c) /\ u[c][y] \in State
  BY EffectOfCall DEF UpdatesStayIn
<1>2. /\ current_state \in [Node -> State] /\ current_state[n] = x
      /\ current_state' = [current_state EXCEPT ![n] = UpdateCurrentState(@, c)]
      /\ applied' = [applied EXCEPT ![n] = Append(@, c)]
  BY DEF ExecutedCallsApplied, ApplyToCurrent
<1>3. s \in Seq(Call) /\ t \in Seq(Call) /\ OneMore(t, s) /\ t[Len(t)] = c
  BY DEF OneMore, AppliedOnce
<1>4. /\ applied' \in [Node -> Seq(Call)] /\ applied'[n] = t
      /\ \A k \in Node \ {n} : applied'[k] = applied[k]
  BY <1>2, <1>3 DEF AppliedOnce
<1>5. IsInjective(s) /\ Range(s) = Executed(n)
  BY DEF AppliedOnce
<1> HIDE DEF u, s
<1>6. IsInjective(t) /\ Range(t) = Executed(n) \cup {c}
  BY <1>3, <1>5, AppendElements
<1> HIDE DEF t
<1>7. AppliedOnce'
  <2>1. \A k \in Node : IsInjective(applied'[k]) /\ Range(applied'[k]) = Executed(k)'
    BY <1>4, <1>6 DEF AppliedOnce
  <2> QED BY <1>4, <2>1 DEF AppliedOnce
<1>8. ApplyAll(u, InitialState, t) = u[t[Len(t)]][x]
  BY <1>1, <1>3, ApplyOneMore
<1> HIDE DEF x
<1>9. x \in State
  BY <1>2
<1>10. UpdateCurrentState(x, c) = u[c][x] /\ u[c][x] \in State
  BY <1>1, <1>9 DEF CurrentAsStable
<1>11. /\ current_state' \in [Node -> State] /\ current_state'[n] = u[c][x]
       /\ \A k \in Node \ {n} : current_state'[k] = current_state[k]
  BY <1>2, <1>10
<1>12. ASSUME NEW k \in Node
       PROVE  current_state'[k] = ApplyAll(u, InitialState, applied'[k])
  <2>1. CASE k = n
    BY <1>3, <1>4, <1>8, <1>11, <2>1
  <2>2. CASE k # n
    BY <1>4, <1>11, <2>2 DEF ExecutedCallsApplied, u
  <2> QED BY <2>1, <2>2
<1> QED BY <1>7, <1>11, <1>12 DEF ExecutedCallsApplied, u

(* localHandler puts a new call at the end of the list. *)
LEMMA LocalIsNew ==
  ASSUME StabilityInv, NEW n \in Node, ExecuteLocal(n)
  PROVE  /\ NextCall(n) \in Call /\ NextCall(n) \notin Executed(n)
         /\ executionList[n] \in Seq(Call)
         /\ executionList'[n] = Append(executionList[n], NextCall(n))
         /\ \A k \in Node \ {n} : executionList'[k] = executionList[k]
         /\ \A k \in Node : Executed(k)' = IF k = n THEN Executed(k) \cup {NextCall(n)}
                                                    ELSE Executed(k)
<1> DEFINE c == NextCall(n)
<1>1. Carries(Message) /\ IInvOver(Message) /\ OwnNumbers
  BY OnlyMessages DEF StabilityInv, CallInv, CallParts
<1>2. c \in Call
  BY <1>1, NextCallType DEF IInvOver, ExecuteLocal, AtCall
<1>3. c.node_id = n /\ c.call_id = it[n] /\ it[n] \in Nat
  BY <1>1 DEF NextCall, IInvOver, Typed
<1>4. executionList' = [executionList EXCEPT ![n] = Append(@, c)]
  BY DEF ExecuteLocal
<1> HIDE DEF c
<1>5. c \notin Executed(n)
  BY <1>1, <1>3 DEF OwnNumbers
<1>6. /\ executionList[n] \in Seq(Call) /\ executionList'[n] = Append(executionList[n], c)
      /\ \A k \in Node \ {n} : executionList'[k] = executionList[k]
  BY <1>1, <1>4 DEF IInvOver, Typed
<1>7. Range(Append(executionList[n], c)) = Range(executionList[n]) \cup {c}
  BY <1>2, <1>6, AppendElements
<1>8. \A k \in Node : Executed(k)' = IF k = n THEN Executed(k) \cup {c} ELSE Executed(k)
  BY <1>6, <1>7 DEF Executed
<1> QED BY <1>2, <1>5, <1>6, <1>8 DEF c

(* remoteHandler executes the call in hand, which is new as well. *)
LEMMA RemoteIsNew ==
  ASSUME StabilityInv, NEW n \in Node, ExecuteRemote(n)
  PROVE  /\ receiver[n].call \in Call /\ receiver[n].call \notin Executed(n)
         /\ \A k \in Node :
              Executed(k)' = IF k = n THEN Executed(k) \cup {receiver[n].call} ELSE Executed(k)
<1>1. Carries(Message) /\ IInvOver(Message) /\ CallsOnce /\ CallParts({})
  BY OnlyMessages DEF StabilityInv, CallInv
<1>2. \E c \in Call : Performs(n, c)
  BY <1>1, ExecuteRemoteEffect
<1> QED BY <1>2 DEF Performs

(* Only the two handlers execute calls and apply them. *)
LEMMA OtherObjectSteps ==
  ASSUME [ObjectNext]_<<vars, objectVars>>
  PROVE  \/ UNCHANGED <<executionList, current_state, applied>>
         \/ \E n \in Node : ExecuteLocalOnObject(n) \/ ExecuteRemoteOnObject(n)
<1>1. ASSUME NEW n \in Node, NotOnObject(n)
      PROVE  UNCHANGED <<executionList, current_state, applied>>
  BY <1>1 DEF NotOnObject, SendAck, NoAckToSend, RefuseLocal, RecordAck, DrainQueue,
     ReceiveCall, handlerVars, objectVars
<1>2. ASSUME NEW n \in Node, NEW m \in Node, StabilizeOnObject(n, m)
      PROVE  UNCHANGED <<executionList, current_state, applied>>
  BY <1>2 DEF StabilizeOnObject, ReceiveAck
<1>3. UNCHANGED <<vars, objectVars>> => UNCHANGED <<executionList, current_state, applied>>
  BY DEF vars, handlerVars, objectVars
<1> QED BY <1>1, <1>2, <1>3 DEF ObjectNext

(* Every step applies what it executes. *)
LEMMA StepAppliesExecuted ==
  ASSUME NEW State, UpdatesStayIn(State), CurrentAsStable(State), StabilityInv,
         AppliedOnce, ExecutedCallsApplied(State), [ObjectNext]_<<vars, objectVars>>
  PROVE  AppliedOnce' /\ ExecutedCallsApplied(State)'
<1>1. ASSUME NEW n \in Node, ExecuteLocalOnObject(n)
      PROVE  AppliedOnce' /\ ExecutedCallsApplied(State)'
  BY <1>1, LocalIsNew, CallIsApplied DEF ExecuteLocalOnObject
<1>2. ASSUME NEW n \in Node, ExecuteRemoteOnObject(n)
      PROVE  AppliedOnce' /\ ExecutedCallsApplied(State)'
  BY <1>2, RemoteIsNew, CallIsApplied DEF ExecuteRemoteOnObject
<1>3. CASE UNCHANGED <<executionList, current_state, applied>>
  BY <1>3 DEF AppliedOnce, ExecutedCallsApplied, Executed
<1> QED BY <1>1, <1>2, <1>3, OtherObjectSteps

(* At first nothing is executed. *)
LEMMA InitAppliesExecuted ==
  ASSUME NEW State, UpdatesStayIn(State), ObjectInit
  PROVE  AppliedOnce /\ ExecutedCallsApplied(State)
<1>1. current_state \in [Node -> State] /\ applied \in [Node -> Seq(Call)]
  BY DEF ObjectInit, UpdatesStayIn
<1>2. \A n \in Node : /\ executionList[n] = <<>> /\ applied[n] = <<>>
                      /\ current_state[n] = InitialState
  BY DEF ObjectInit, Init
<1>3. ApplyAll(Effect(State), InitialState, <<>>) = InitialState
  BY ApplyNothing
<1>4. IsInjective(<<>>)
  BY DEF IsInjective
<1> QED BY <1>1, <1>2, <1>3, <1>4 DEF AppliedOnce, ExecutedCallsApplied, Executed

(* The current states are what was executed, in the order of execution. *)
LEMMA ExecutedCallsAreApplied ==
  ASSUME NEW State, UpdatesStayIn(State), CurrentAsStable(State)
  PROVE  ObjectSpec => [](AppliedOnce /\ ExecutedCallsApplied(State))
<1>1. ObjectSpec => []StabilityInv
  BY ObjectBehaviour, StabilityInvariance, PTL
<1>2. ObjectInit => AppliedOnce /\ ExecutedCallsApplied(State)
  BY InitAppliesExecuted
<1>3. /\ StabilityInv /\ AppliedOnce /\ ExecutedCallsApplied(State)
      /\ [ObjectNext]_<<vars, objectVars>>
      => AppliedOnce' /\ ExecutedCallsApplied(State)'
  BY StepAppliesExecuted
<1> QED BY <1>1, <1>2, <1>3, PTL DEF ObjectSpec

(* What the list makes of the initial state, it makes of the stable state. *)
LEMMA OutlookIsList ==
  ASSUME NEW State, UpdatesStayIn(State), StabilityInv, StableCallsApplied(State),
         NEW n \in Node
  PROVE  Outlook(n) = ApplyAll(Effect(State), InitialState, executionList[n])
<1> DEFINE u == Effect(State)
           s == executionList[n]
           i == stable_index[n]
           p == SubSeq(s, 1, i)
           r == SubSeq(s, i + 1, Len(s))
           x == ApplyAll(u, InitialState, p)
<1>1. u \in Effects(State, Call) /\ InitialState \in State
  BY EffectOfCall DEF UpdatesStayIn
<1>2. s \in Seq(Call) /\ i \in Nat /\ i <= Len(s) /\ Len(s) \in Nat
  BY DEF StabilityInv, IInv, TypeOK, StableWithinList
<1>3. stable_state[n] = x
  BY DEF StableCallsApplied, StablePrefix
<1>4. Outlook(n) = FoldLeft(UpdateStableState, x, r)
  BY <1>3 DEF Outlook
<1> HIDE DEF u, s, i
<1>5. SubSeq(s, 1, Len(s)) = s
  BY <1>2
<1>6. p \in Seq(Call) /\ r \in Seq(Call) /\ Joins(s, p, r)
  <2>1. /\ p \in Seq(Call) /\ r \in Seq(Call) /\ Joins(SubSeq(s, 1, Len(s)), p, r)
    BY <1>2, BeginningInTwoParts
  <2> QED BY <1>5, <2>1
<1> HIDE DEF p, r
<1>7. x \in State
  BY <1>1, <1>6, ApplyAllType
<1>8. ApplyAll(u, InitialState, s) = ApplyAll(u, x, r)
  BY <1>1, <1>2, <1>6, ApplyInTwoParts
<1> HIDE DEF x
<1>9. FoldLeft(UpdateStableState, x, r) = ApplyAll(u, x, r)
  BY <1>6, <1>7, FoldIsApplyAll DEF u
<1> QED BY <1>4, <1>8, <1>9 DEF u, s

(* The pairs of calls whose order matters. *)
Ordered == {p \in Call \X Call : ~Commute(p[1], p[2])}

(* Applied in order, calls are applied as the list has them. *)
LEMMA AppliedLikeList ==
  ASSUME StabilityInv, AppliedOnce, NEW n \in Node, AppliedInOrder(n)
  PROVE  Alike(applied[n], executionList[n], Ordered)
<1> DEFINE s == applied[n]
           t == executionList[n]
<1>1. /\ s \in Seq(Call) /\ IsInjective(s) /\ t \in Seq(Call) /\ IsInjective(t)
      /\ Range(s) = Range(t)
  BY DEF AppliedOnce, Executed, StabilityInv, IInv, TypeOK, CallInv, CallsOnce
<1>2. \A i, k \in 1..Len(s) :
        i < k /\ ~Commute(s[i], s[k]) => Position(t, s[i]) < Position(t, s[k])
  <2>1. DOMAIN s = 1..Len(s)
    BY <1>1
  <2> QED BY <2>1 DEF AppliedInOrder
<1> HIDE DEF s, t
<1>3. ASSUME NEW j \in 1..Len(t) PROVE Position(t, t[j]) = j
  <2>1. DOMAIN t = 1..Len(t)
    BY <1>1
  <2>2. Position(t, t[j]) \in 1..Len(t) /\ t[Position(t, t[j])] = t[j]
    BY <2>1 DEF Position
  <2> QED BY <1>1, <2>2, OnePosition
<1>4. SameOrder(s, t, Ordered)
  <2> SUFFICES ASSUME NEW i \in 1..Len(s), NEW k \in 1..Len(s),
                      NEW j \in 1..Len(t), NEW l \in 1..Len(t),
                      s[i] = t[j], s[k] = t[l], i < k, <<s[i], s[k]>> \in Ordered
               PROVE  j < l
    BY DEF SameOrder
  <2>1. ~Commute(s[i], s[k])
    BY DEF Ordered
  <2>2. Position(t, s[i]) < Position(t, s[k])
    BY <1>2, <2>1
  <2> QED BY <1>3, <2>2
<1>5. Alike(s, t, Ordered)
  BY <1>1, <1>4 DEF Alike
<1> QED BY <1>5 DEF s, t

(* Both objects of every node hold the calls that were applied to them. *)
BothApplied(State) ==
  /\ StabilityInv
  /\ StableCallsApplied(State)
  /\ AppliedOnce
  /\ ExecutedCallsApplied(State)

(* And so it shows what its list will have made when all of it is stable. *)
LEMMA AppliedMeansConfirmed ==
  ASSUME UpdatesStayIn(States), BothApplied(States)
  PROVE  OptimismConfirmed
<1> SUFFICES ASSUME NEW n \in Node
             PROVE  AppliedInOrder(n) => current_state[n] = Outlook(n)
  BY Zenon DEF OptimismConfirmed
<1> HAVE AppliedInOrder(n)
<1> StabilityInv /\ StableCallsApplied(States) /\ AppliedOnce /\ ExecutedCallsApplied(States)
  BY DEF BothApplied
<1> DEFINE u == Effect(States)
           s == applied[n]
           t == executionList[n]
<1>1. /\ u \in Effects(States, Call) /\ InitialState \in States
      /\ \A c \in Call, y \in States : u[c][y] = UpdateStableState(y, c) /\ u[c][y] \in States
  BY EffectOfCall DEF UpdatesStayIn
<1>2. s \in Seq(Call) /\ t \in Seq(Call) /\ Alike(s, t, Ordered)
  BY AppliedLikeList DEF AppliedOnce, StabilityInv, IInv, TypeOK
<1>3. current_state[n] = ApplyAll(u, InitialState, s)
  BY DEF ExecutedCallsApplied
<1>4. Outlook(n) = ApplyAll(u, InitialState, t)
  BY OutlookIsList
<1> HIDE DEF u, s, t
<1>5. ASSUME NEW c \in Call, NEW d \in Call, <<c, d>> \notin Ordered
      PROVE  Swap(u, States, c, d)
  <2>1. Commute(c, d)
    BY <1>5 DEF Ordered
  <2>2. \A y \in States : u[c][u[d][y]] = u[d][u[c][y]]
    BY <1>1, <2>1 DEF Commute
  <2> QED BY <2>2 DEF Swap
<1>6. ApplyAll(u, InitialState, s) = ApplyAll(u, InitialState, t)
  BY <1>1, <1>2, <1>5, AlikeSameEffect
<1> QED BY <1>3, <1>4, <1>6

(***************************************************************************)
(* What was shown early is confirmed.  For every object whose              *)
(* updateCurrentState does what its updateStableState does, every conflict *)
(* relation and whoever issues: in every state the current state of a node *)
(* is what its stable state becomes with the rest of its list, as long as  *)
(* the node put calls only before calls that they commute with.            *)
(***************************************************************************)
THEOREM EarlyStateConfirmed ==
  ASSUME UpdatesStayIn(States), CurrentAsStable(States)
  PROVE  ObjectSpec => []OptimismConfirmed
<1>1. PICK State : State = States /\ UpdatesStayIn(State) /\ CurrentAsStable(State)
  OBVIOUS
<1>2. ObjectSpec => []BothApplied(State)
  <2>1. ObjectSpec => [](StabilityInv /\ StableCallsApplied(State))
    BY <1>1, StableCallsAreApplied
  <2>2. ObjectSpec => [](AppliedOnce /\ ExecutedCallsApplied(State))
    BY <1>1, ExecutedCallsAreApplied
  <2> QED BY <2>1, <2>2, PTL DEF BothApplied
<1>3. BothApplied(State) => OptimismConfirmed
  BY <1>1, AppliedMeansConfirmed
<1> QED BY <1>2, <1>3, PTL

-----------------------------------------------------------------------------
(* The current state, when one node issues all calls.                      *)

(* Calls are applied in the order of the list. *)
AppliedAsListed == applied = executionList

(* With one issuer every call is put at the end of the list. *)
LEMMA StepAppliesLast ==
  ASSUME AppliedOnce, AppliedAsListed, NEW j \in Node, OrderState(j),
         [ObjectNext]_<<vars, objectVars>>
  PROVE  AppliedAsListed'
<1>1. executionList \in [Node -> Seq(Call)] /\ applied = executionList
  BY OrderFacts DEF IInv, TypeOK, AppliedAsListed
<1>2. ASSUME NEW n \in Node, NEW c, ApplyToCurrent(n, c),
             executionList' = [executionList EXCEPT ![n] = Append(@, c)]
      PROVE  AppliedAsListed'
  BY <1>1, <1>2 DEF ApplyToCurrent, AppliedAsListed
<1>3. ASSUME NEW n \in Node, ExecuteLocalOnObject(n) PROVE AppliedAsListed'
  BY <1>2, <1>3 DEF ExecuteLocalOnObject, ExecuteLocal
<1>4. ASSUME NEW n \in Node, ExecuteRemoteOnObject(n) PROVE AppliedAsListed'
  <2> DEFINE c == receiver[n].call
  <2>1. ExecuteRemote(n) /\ ApplyToCurrent(n, c)
    BY <1>4 DEF ExecuteRemoteOnObject
  <2>2. /\ executionList'[n] = Append(executionList[n], c)
        /\ \A k \in Node \ {n} : executionList'[k] = executionList[k]
    BY <2>1, InsertedLast
  <2>3. \E i : executionList' = [executionList EXCEPT ![n] = InsertAt(@, i, c)]
    BY <2>1 DEF ExecuteRemote
  <2> HIDE DEF c
  <2>4. executionList' = [executionList EXCEPT ![n] = Append(@, c)]
    BY <1>1, <2>2, <2>3
  <2> QED BY <1>2, <2>1, <2>4
<1>5. CASE UNCHANGED <<executionList, current_state, applied>>
  BY <1>5 DEF AppliedAsListed
<1> QED BY <1>3, <1>4, <1>5, OtherObjectSteps

(* With one issuer calls are applied in the order of the list for ever. *)
ListKept == (\E j \in Node : OneIssuer(j)) => AppliedAsListed

(* ListKept is an invariant. *)
LEMMA ListIsKept ==
  ASSUME NEW State, UpdatesStayIn(State), CurrentAsStable(State)
  PROVE  ObjectSpec => []ListKept
<1>1. ObjectSpec => [](StabilityInv /\ OrderKept)
  BY ObjectBehaviour, OrderInvariance, PTL
<1>2. ObjectSpec => [](AppliedOnce /\ ExecutedCallsApplied(State))
  BY ExecutedCallsAreApplied
<1>3. ObjectInit => ListKept
  BY DEF ObjectInit, Init, ListKept, AppliedAsListed
<1>4. /\ StabilityInv /\ OrderKept /\ AppliedOnce /\ ListKept
      /\ [ObjectNext]_<<vars, objectVars>>
      => ListKept'
  <2> SUFFICES ASSUME StabilityInv, OrderKept, AppliedOnce, ListKept,
                      [ObjectNext]_<<vars, objectVars>>, NEW j \in Node, OneIssuer(j)'
               PROVE  AppliedAsListed'
    BY DEF ListKept
  <2>1. workload' = workload
    BY ObjectStepIsStep, WorkloadFixed
  <2>2. OneIssuer(j)
    BY <2>1 DEF OneIssuer
  <2>3. OrderState(j) /\ AppliedAsListed
    BY <2>2 DEF OrderKept, OrderState, ListKept
  <2> QED BY <2>3, StepAppliesLast
<1> QED BY <1>1, <1>2, <1>3, <1>4, PTL DEF ObjectSpec

(***************************************************************************)
(* With one issuer the current state is at every moment what the stable    *)
(* state becomes with the rest of the list, whatever the conflict          *)
(* relation, in every object whose two updates do the same: no insertion   *)
(* ever makes what was shown wrong.                                        *)
(***************************************************************************)
THEOREM OneIssuerConfirmed ==
  ASSUME NEW State, UpdatesStayIn(State), CurrentAsStable(State)
  PROVE  ObjectSpec => []((\E j \in Node : OneIssuer(j))
                            => \A n \in Node : current_state[n] = Outlook(n))
<1>1. /\ StabilityInv /\ StableCallsApplied(State) /\ ExecutedCallsApplied(State) /\ ListKept
      => ((\E j \in Node : OneIssuer(j)) => \A n \in Node : current_state[n] = Outlook(n))
  <2> SUFFICES ASSUME StabilityInv, StableCallsApplied(State), ExecutedCallsApplied(State),
                      AppliedAsListed, NEW n \in Node
               PROVE  current_state[n] = Outlook(n)
    BY DEF ListKept
  <2>1. Outlook(n) = ApplyAll(Effect(State), InitialState, executionList[n])
    BY OutlookIsList
  <2> QED BY <2>1 DEF ExecutedCallsApplied, AppliedAsListed
<1> QED BY <1>1, StableCallsAreApplied, ExecutedCallsAreApplied, ListIsKept, PTL

(***************************************************************************)
(* Convergence without a premise on the order: when one node issues all    *)
(* calls of a set, movie, project or courseware replication, nodes with    *)
(* the same stable calls have the same stable state.                       *)
(***************************************************************************)
THEOREM OneIssuerConvergence ==
  ASSUME ReplicatesRows
  PROVE  ObjectSpec => []((\E j \in Node : OneIssuer(j)) => StableStatesConverge)
<1>1. ObjectSpec => []((\E j \in Node : OneIssuer(j)) => StableOrderAgreement)
  BY ObjectBehaviour, OneIssuerAgreement, PTL
<1> QED BY <1>1, AgreementMeansConvergence, PTL
=============================================================================
