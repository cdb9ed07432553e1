---------------------------- MODULE EcrosUseCases ----------------------------
(***************************************************************************)
(* The replicated objects of the ECROS build (ecros-set.hpp, ecros-stack,  *)
(* ecros-movie, ecros-project, ecros-courseware): which calls commute,     *)
(* which of two concurrent calls goes first, and the effect of a call.     *)
(* The use case is a parameter, u.  The tables hold the rows of module     *)
(* UseCases; unlike there they do not start empty.                         *)
(***************************************************************************)
EXTENDS UseCases

UseCase == {"set", "stack", "movie", "project", "courseware"}

(* seqCommutative: the types a call commutes with when it goes first. *)
CommutesWith == [
  set |-> [Add |-> {"Add"}, Remove |-> {"Remove"}],
  stack |-> [Push |-> {}, Pop |-> {"Pop"}],
  movie |-> [
    AddMovie       |-> {"AddMovie", "AddCustomer", "DeleteCustomer"},
    AddCustomer    |-> {"AddMovie", "AddCustomer", "DeleteMovie"},
    DeleteMovie    |-> {"AddCustomer", "DeleteMovie", "DeleteCustomer"},
    DeleteCustomer |-> {"AddMovie", "DeleteMovie", "DeleteCustomer"}],
  project |-> [
    AddEmployee    |-> {"AddProject", "DeleteProject", "WorksOn"},  \* "AaddEmployee"
    AddProject     |-> {"AddProject", "AddEmployee", "DeleteEmployee", "WorksOn"},
    DeleteEmployee |-> {"DeleteEmployee", "DeleteProject", "AddProject"},
    DeleteProject  |-> {"DeleteProject", "DeleteEmployee", "AddEmployee"},
    WorksOn        |-> {"WorksOn", "AddEmployee", "AddProject"}],
  courseware |-> [
    AddCourse     |-> {"AddCourse", "AddStudent", "DeleteStudent", "Enroll"},
    AddStudent    |-> {"AddCourse", "AddStudent", "DeleteCourse", "Enroll"},
    DeleteCourse  |-> {"AddStudent", "DeleteCourse", "DeleteStudent", "Enroll"},
    DeleteStudent |-> {},
    Enroll        |-> {"AddCourse", "AddStudent", "DeleteCourse", "DeleteStudent", "Enroll"}]]

(* The types that readBenchFile makes of the numbers in a file. *)
Methods(u) == DOMAIN CommutesWith[u]

(* Mutant of seqCommutative: additions and removals commute. *)
MutSeqCommutative(u, a, b) == TRUE

seqCommutative(u, a, b) == b.op.type \in CommutesWith[u][a.op.type]

Deletes == {"DeleteEmployee", "DeleteProject", "DeleteCourse", "DeleteStudent"}
Relates == {"WorksOn", "Enroll"}

(* Mutant of resolution: the table lacks the rows for a new WorksOn or Enroll. *)
MutResolution(a, b) ==
  IF a.op.type \in Deletes /\ b.op.type \in Relates THEN "<" ELSE "none"

(* Of two concurrent calls, a deletion goes before a WorksOn or an Enroll. *)
resolution(a, b) ==
  CASE a.op.type \in Deletes /\ b.op.type \in Relates -> "<"
    [] a.op.type \in Relates /\ b.op.type \in Deletes -> ">"
    [] OTHER -> "none"

(* The object after setVars: k rows per table (50 in the code). *)
InitialObject(u, k) ==
  LET rows == 0..(k - 1) IN
  CASE u = "set"        -> [elements |-> rows]
    [] u = "stack"      -> [elements |-> [i \in 1..k |-> i - 1]]
    [] u = "movie"      -> [movie_ids |-> rows, customer_ids |-> rows]
    [] u = "project"    -> [project_ids |-> rows, employee_ids |-> rows, works |-> {}]
    [] u = "courseware" -> [student_ids |-> rows, course_ids |-> rows, enroll |-> {}]

(* The effect of a call as recomputeState has it. *)
ReplayCall(u, s, c) ==
  CASE u = "set"        -> SetUpdate(s, c)
    [] u = "stack"      -> StackUpdate(s, c)
    [] u = "movie"      -> MovieUpdate(s, c)
    [] u = "project"    -> ProjectUpdate(s, c)
    [] u = "courseware" -> CoursewareUpdateStable(s, c)

(* applyCall differs in one test: movies are counted to delete a customer. *)
ApplyCall(u, s, c) ==
  IF c.op.type = "DeleteCustomer" /\ s.movie_ids = {} THEN s ELSE ReplayCall(u, s, c)

(* The objects whose applyCall inserts the call into `applied'. *)
MarksApplied == {"movie", "project", "courseware"}

(* shouldSkip; every type but the first falls into the second test. *)
shouldSkip(u, s, c) ==
  CASE u = "set"        -> c.op.type = "Remove" /\ s.elements = {}
    [] u = "stack"      -> c.op.type = "Pop" /\ s.elements = <<>>
    [] u = "movie"      -> IF c.op.type = "DeleteCustomer" THEN s.customer_ids = {}
                           ELSE s.movie_ids = {}
    [] u = "project"    -> IF c.op.type = "DeleteProject" THEN s.project_ids = {}
                           ELSE s.employee_ids = {}
    [] u = "courseware" -> IF c.op.type = "DeleteCourse" THEN s.course_ids = {}
                           ELSE s.student_ids = {}
=============================================================================
