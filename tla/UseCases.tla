------------------------------ MODULE UseCases ------------------------------
(***************************************************************************)
(* The replicated objects.  For each use case:                             *)
(*   - fastisreachablelocal(input1, input2) and                            *)
(*     fastisreachableremote(input1, input2), which tell that input1 has   *)
(*     to come before input2 in the execution list, and                    *)
(*   - updateCurrentState and updateStableState, the effect of a call on   *)
(*     either copy of the state; one operator stands for both where they   *)
(*     are the same, and it takes the copy as its first parameter.         *)
(* A call is a record with the field op, a record with a type and values.  *)
(***************************************************************************)
EXTENDS Integers, Sequences, VectorClock

Types(c, d, pairs) == <<c.op.type, d.op.type>> \in pairs

(* Rows are inserted into and erased from hash sets, one per kind of row. *)
Insert(s, table, row) == [s EXCEPT ![table] = @ \cup {row}]
Erase(s, table, row)  == [s EXCEPT ![table] = @ \ {row}]

(* A call that relates two rows: Enroll(student, course), WorksOn(employee, project). *)
PairOf(c) == <<c.op.value1, c.op.value2>>

-----------------------------------------------------------------------------
(* set.hpp; ycsb.hpp has the same text. *)
SetLocal(c, d)  == Types(c, d, {<<"Add", "Remove">>})
SetRemote(c, d) == Types(c, d, {<<"Add", "Remove">>})

SetMethods == {"Add", "Remove"}
EmptySet == [elements |-> {}]

SetUpdate(s, c) ==
  CASE c.op.type = "Add"    -> Insert(s, "elements", c.op.value1)
    [] c.op.type = "Remove" -> Erase(s, "elements", c.op.value1)

-----------------------------------------------------------------------------
(* stack.hpp *)
StackLocal(c, d) ==
  \/ Types(c, d, {<<"Push", "Push">>}) /\ c.node_id < d.node_id
  \/ Types(c, d, {<<"Push", "Pop">>})

StackRemote(c, d) ==
  Types(c, d, {<<"Push", "Pop">>}) /\ compareVectorClocks(c.vc, d.vc) = 1

StackMethods == {"Push", "Pop"}
EmptyStack == [elements |-> <<>>]

StackUpdate(s, c) ==
  CASE c.op.type = "Push" -> [s EXCEPT !.elements = Append(@, c.op.value1)]
    [] c.op.type = "Pop"  ->
         IF s.elements = <<>> THEN s
         ELSE [s EXCEPT !.elements = SubSeq(@, 1, Len(@) - 1)]

-----------------------------------------------------------------------------
(* movie.hpp; both relations have the same text. *)
MovieEdges == {<<"AddMovie", "DeleteMovie">>, <<"AddCustomer", "DeleteCustomer">>}
MovieReachable(c, d) == Types(c, d, MovieEdges)

MovieMethods == {"AddMovie", "DeleteMovie", "AddCustomer", "DeleteCustomer"}
EmptyMovie == [movie_ids |-> {}, customer_ids |-> {}]

MovieUpdate(s, c) ==
  CASE c.op.type = "AddMovie"       -> Insert(s, "movie_ids", c.op.value1)
    [] c.op.type = "DeleteMovie"    -> Erase(s, "movie_ids", c.op.value1)
    [] c.op.type = "AddCustomer"    -> Insert(s, "customer_ids", c.op.value1)
    [] c.op.type = "DeleteCustomer" -> Erase(s, "customer_ids", c.op.value1)

-----------------------------------------------------------------------------
(* project.hpp; both relations have the same text. *)
ProjectEdges ==
  {<<"AddEmployee", "DeleteEmployee">>, <<"AddProject", "DeleteProject">>,
   <<"WorksOn", "DeleteEmployee">>, <<"WorksOn", "DeleteProject">>}
ProjectReachable(c, d) == Types(c, d, ProjectEdges)

ProjectMethods ==
  {"AddProject", "DeleteProject", "WorksOn", "AddEmployee", "DeleteEmployee"}
EmptyProject == [project_ids |-> {}, employee_ids |-> {}, works |-> {}]

ProjectUpdate(s, c) ==
  CASE c.op.type = "AddProject"     -> Insert(s, "project_ids", c.op.value1)
    [] c.op.type = "DeleteProject"  -> Erase(s, "project_ids", c.op.value1)
    [] c.op.type = "WorksOn"        -> Insert(s, "works", PairOf(c))
    [] c.op.type = "AddEmployee"    -> Insert(s, "employee_ids", c.op.value1)
    [] c.op.type = "DeleteEmployee" -> Erase(s, "employee_ids", c.op.value1)

(* Mutant of ProjectUpdateCurrent: one of the types is misspelt. *)
MutProjectUpdateCurrent(s, c) == IF c.op.type = "WorksOn" THEN s ELSE ProjectUpdate(s, c)

(* The copy of the text for current_state. *)
ProjectUpdateCurrent(s, c) == ProjectUpdate(s, c)

-----------------------------------------------------------------------------
(* courseware.hpp; both relations have the same text. *)
CoursewareEdges ==
  {<<"AddCourse", "DeleteCourse">>, <<"AddStudent", "DeleteStudent">>,
   <<"Enroll", "DeleteCourse">>, <<"Enroll", "DeleteStudent">>}
CoursewareReachable(c, d) == Types(c, d, CoursewareEdges)

CoursewareMethods ==
  {"AddCourse", "DeleteCourse", "Enroll", "AddStudent", "DeleteStudent"}
EmptyCourseware == [student_ids |-> {}, course_ids |-> {}, enroll |-> {}]

CoursewareUpdateStable(s, c) ==
  CASE c.op.type = "AddCourse"     -> Insert(s, "course_ids", c.op.value1)
    [] c.op.type = "DeleteCourse"  -> Erase(s, "course_ids", c.op.value1)
    [] c.op.type = "Enroll"        -> Insert(s, "enroll", PairOf(c))
    [] c.op.type = "AddStudent"    -> Insert(s, "student_ids", c.op.value1)
    [] c.op.type = "DeleteStudent" -> Erase(s, "student_ids", c.op.value1)

(* updateCurrentState tests for the type "Endroll", which no call has. *)
CoursewareUpdateCurrent(s, c) ==
  CASE c.op.type = "AddCourse"     -> Insert(s, "course_ids", c.op.value1)
    [] c.op.type = "DeleteCourse"  -> Erase(s, "course_ids", c.op.value1)
    [] c.op.type = "Endroll"       -> Insert(s, "enroll", PairOf(c))
    [] c.op.type = "AddStudent"    -> Insert(s, "student_ids", c.op.value1)
    [] c.op.type = "DeleteStudent" -> Erase(s, "student_ids", c.op.value1)
    [] OTHER                       -> s
=============================================================================
