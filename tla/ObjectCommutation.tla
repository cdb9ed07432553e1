-------------------------- MODULE ObjectCommutation --------------------------
(***************************************************************************)
(* One copy of the state of a replicated object, to which calls are        *)
(* applied in any order.  The handler reorders calls (remoteHandler puts a *)
(* call before unstable ones) and orders only those that the use case's    *)
(* fastisreachableremote relates, so the effects of all other concurrent   *)
(* calls have to commute, in every state the object can get into.          *)
(***************************************************************************)
EXTENDS UseCases, ComplexCourseware

CONSTANT Clients  \* kinds of clients: a use case and the operations they call

VARIABLES
  client,  \* a use case the program was built for, and its clients (constant)
  copy,    \* "current" or "stable": which copy of the state this is (constant)
  state    \* current_state or stable_state

vars == <<client, copy, state>>

useCase == client.useCase

(* The methods of a use case; a call of method Read changes nothing. *)
Methods(u) ==
  CASE u = "set"                -> SetMethods
    [] u = "stack"              -> StackMethods
    [] u = "movie"              -> MovieMethods
    [] u = "project"            -> ProjectMethods
    [] u = "courseware"         -> CoursewareMethods
    [] u = "complex-courseware" -> ComplexMethods

UseCase == {"set", "stack", "movie", "project", "courseware", "complex-courseware"}

ASSUME ClientsAssumption ==
  \A k \in Clients :
    /\ k.useCase \in UseCase
    /\ \A op \in k.ops :
         /\ op.type \in Methods(k.useCase)
         /\ op.type = "AddCourseForce" =>
              op.row = [name |-> op.row.name, rest |-> op.row.rest]

Empty(u) ==
  CASE u = "set"                -> EmptySet
    [] u = "stack"              -> EmptyStack
    [] u = "movie"              -> EmptyMovie
    [] u = "project"            -> EmptyProject
    [] u = "courseware"         -> EmptyCourseware
    [] u = "complex-courseware" -> EmptyComplexCourseware

Update(u, cp, s, c) ==
  CASE u = "set"                -> SetUpdate(s, c)
    [] u = "stack"              -> StackUpdate(s, c)
    [] u = "movie"              -> MovieUpdate(s, c)
    [] u = "project"            -> ProjectUpdate(s, c)
    [] u = "courseware"         ->
         IF cp = "current" THEN CoursewareUpdateCurrent(s, c) ELSE CoursewareUpdateStable(s, c)
    [] u = "complex-courseware" -> ComplexUpdate(s, c, cp)

Reachable(u, c, d) ==
  CASE u = "set"                -> SetRemote(c, d)
    [] u = "stack"              -> StackRemote(c, d)
    [] u = "movie"              -> MovieReachable(c, d)
    [] u = "project"            -> ProjectReachable(c, d)
    [] u = "courseware"         -> CoursewareReachable(c, d)
    [] u = "complex-courseware" -> ComplexReachable(c, d)

(* Two concurrent calls, of node 1 and node 2. *)
CallOf1(op) == [op |-> op, node_id |-> 1, vc |-> <<1, 0>>]
CallOf2(op) == [op |-> op, node_id |-> 2, vc |-> <<0, 1>>]

-----------------------------------------------------------------------------
Init ==
  /\ client \in Clients
  /\ copy \in {"current", "stable"}
  /\ state = Empty(useCase)

Apply(op) ==
  /\ op \in client.ops
  /\ state' = Update(useCase, copy, state, CallOf1(op))
  /\ UNCHANGED <<client, copy>>

Next == \E op \in client.ops : Apply(op)

Spec == Init /\ [][Next]_vars

-----------------------------------------------------------------------------
After2(c, d) == Update(useCase, copy, Update(useCase, copy, state, c), d)

Conflicting(c, d) == Reachable(useCase, c, d) \/ Reachable(useCase, d, c)

Commute(c, d) == After2(c, d) = After2(d, c)

(***************************************************************************)
(* The pairs of methods that the relations lack: two pushes of the stack,  *)
(* and in complex-courseware.hpp an id that is renamed against its         *)
(* deletion or the removal of a link to it, a name taken from a course     *)
(* against a new link to that course, and a course that is renamed against *)
(* its deletion.                                                           *)
(***************************************************************************)
MissingEdges ==
  {{"Push"},
   {"UpdateStudentIDCascade", "DeleteStudentCascade"},
   {"UpdateStudentIDCascade", "WithdrawEnrollment"},
   {"UpdateInstructorIDCascade", "DeleteInstructorCascade"},
   {"UpdateInstructorIDCascade", "WithdrawTeaching"},
   {"UpdateCourseIDCascade", "DeleteCourseCascade"},
   {"UpdateCourseIDCascade", "WithdrawEnrollment"},
   {"UpdateCourseIDCascade", "WithdrawTeaching"},
   {"UpdateCourseNameForce", "DeleteCourseCascade"},
   {"UpdateCourseNameForce", "Enroll"}, {"UpdateCourseNameForce", "Teach"},
   {"AddCourseForce", "Enroll"}, {"AddCourseForce", "Teach"}}

(***************************************************************************)
(* Apart from the missing edges, concurrent calls that a conflict relation *)
(* leaves out have the same effect in either order: the relation has every *)
(* cascade, rename, overwrite and deletion that the replicas need ordered  *)
(* to converge.                                                            *)
(***************************************************************************)
OtherCallsCommute ==
  \A o1, o2 \in client.ops :
    \/ {o1.type, o2.type} \in MissingEdges
    \/ Conflicting(CallOf1(o1), CallOf2(o2))
    \/ Commute(CallOf1(o1), CallOf2(o2))

(***************************************************************************)
(* No two courses of complex-courseware.hpp have the same name: what       *)
(* course_name_index is kept for.                                          *)
(***************************************************************************)
UniqueCourseNames ==
  useCase = "complex-courseware" =>
    \A i, k \in DOMAIN state.courses :
      state.courses[i].name = state.courses[k].name => i = k
=============================================================================
