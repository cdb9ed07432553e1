----------------------------- MODULE MCObjects -----------------------------
(***************************************************************************)
(* Small instances of the replicated objects: every operation of each use  *)
(* case on two values, ids or names.                                       *)
(***************************************************************************)
EXTENDS ObjectCommutation

Id == {1, 2}

OnOne(types) == [type : types, value1 : Id]
OnPair(type) == [type : {type}, value1 : Id, value2 : Id]

SetOps == OnOne({"Add", "Remove"})
MovieOps == OnOne({"AddMovie", "DeleteMovie", "AddCustomer", "DeleteCustomer"})
StackOps == OnOne({"Push"}) \cup [type : {"Pop"}]
ProjectOps ==
  OnOne({"AddProject", "DeleteProject", "AddEmployee", "DeleteEmployee"})
  \cup OnPair("WorksOn")
CoursewareOps ==
  OnOne({"AddCourse", "DeleteCourse", "AddStudent", "DeleteStudent"})
  \cup OnPair("Enroll")

Uses(u, ops) == [useCase |-> u, ops |-> ops]

(* The use cases whose calls touch one table each. *)
PlainClients ==
  {Uses("set", SetOps), Uses("stack", StackOps), Uses("movie", MovieOps),
   Uses("project", ProjectOps), Uses("courseware", CoursewareOps)}

(* complex-courseware.hpp: courses with their names and links. *)
Name == {"A", "B"}
CourseRow == [name : Name, rest : {0}]
CourseOps(ids) ==
  [type : {"AddCourseForce"}, id : ids, row : CourseRow]
  \cup [type : {"DeleteCourseCascade"}, id : ids]
  \cup [type : {"UpdateCourseIDCascade"}, id : ids, new_id : ids]
  \cup [type : {"UpdateCourseNameForce"}, id : ids, name : Name]
LinkOps(ids) ==
  [type : {"Enroll", "WithdrawEnrollment"}, course : ids, person : {1}]

(* Clients that add, delete and rename courses and enroll in one of them. *)
Courses == Uses("complex-courseware", CourseOps({1, 2, 3}) \cup LinkOps({1}))

StudentOps ==
  [type : {"AddStudentForce", "UpdateStudentOther"}, id : Id, row : {0}]
  \cup [type : {"DeleteStudentCascade"}, id : Id]
  \cup [type : {"UpdateStudentIDCascade"}, id : Id, new_id : Id]

InstructorOps ==
  [type : {"AddInstructorForce", "UpdateInstructorOther"}, id : {1}, row : {0}]
  \cup [type : {"DeleteInstructorCascade"}, id : {1}]
  \cup [type : {"UpdateInstructorIDCascade"}, id : {1}, new_id : {2}]
  \cup [type : {"Teach", "WithdrawTeaching"}, course : {1}, person : {1}]

(* Instructors, courses, departments and the links between them. *)
Teaching ==
  Uses("complex-courseware",
       InstructorOps \cup CourseOps(Id)
       \cup [type : {"UpdateCourseOther"}, id : {1}, row : {0, 1}]
       \cup [type : {"AddDepartment", "DeleteDepartmentNoAction"}, id : {1}])

(* Students, courses and the links between them. *)
Enrollment ==
  Uses("complex-courseware", StudentOps \cup CourseOps(Id) \cup LinkOps(Id))

AllClients == PlainClients \cup {Courses, Teaching, Enrollment}

(* A bound on the stack; no other state grows without end. *)
MaxHeight == 3
StackIsLow == useCase = "stack" => Len(state.elements) <= MaxHeight
=============================================================================
