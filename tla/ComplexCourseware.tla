-------------------------- MODULE ComplexCourseware --------------------------
(***************************************************************************)
(* The courses and students database of complex-courseware.hpp, the one    *)
(* use case whose calls cascade from table to table.  The tables students, *)
(* instructors and courses map an id to a row, departments is a set of     *)
(* ids, enroll and teach are sets of pairs of a course id and a student or *)
(* instructor id, and course_name_index maps a name to a course id.        *)
(*                                                                         *)
(* A call is a record whose field op has a type and, as the type needs     *)
(* them, an id, a new_id, a row, a name, or the ids course and person.     *)
(* What a row holds is opaque except for the name of a course: a course is *)
(* a record of its name and the rest.                                      *)
(***************************************************************************)
EXTENDS Integers, Sequences, Functions

EmptyTable == [id \in {} |-> id]

EmptyComplexCourseware ==
  [students |-> EmptyTable, instructors |-> EmptyTable, courses |-> EmptyTable,
   departments |-> {}, enroll |-> {}, teach |-> {}, course_name_index |-> EmptyTable]

(* operator[] and erase of std::unordered_map *)
Put(table, id, row) ==
  [k \in DOMAIN table \cup {id} |-> IF k = id THEN row ELSE table[k]]
Drop(table, id) == Restrict(table, DOMAIN table \ {id})

Rename(table, old, new) ==
  IF old \in DOMAIN table THEN Put(Drop(table, old), new, table[old]) ELSE table

(* The pairs of a link table with the id old at place i replaced by new. *)
RenameLinks(links, i, old, new) ==
  {IF p[i] = old THEN [p EXCEPT ![i] = new] ELSE p : p \in links}

Unlink(links, i, id) == {p \in links : p[i] # id}

DropCourse(s, id) ==
  [s EXCEPT !.courses = Drop(@, id),
            !.enroll = Unlink(@, 1, id), !.teach = Unlink(@, 1, id)]

-----------------------------------------------------------------------------
(* Names of courses.                                                       *)

(***************************************************************************)
(* The course that the index names as owner of the name, if it is another  *)
(* one, is deleted with its links.                                         *)
(***************************************************************************)
EvictOwner(s, name, id) ==
  IF name \in DOMAIN s.course_name_index /\ s.course_name_index[name] # id
  THEN DropCourse(s, s.course_name_index[name]) ELSE s

(* The entry of a course's own name is taken out of the index. *)
ForgetName(s, id) ==
  IF /\ id \in DOMAIN s.courses
     /\ s.courses[id].name \in DOMAIN s.course_name_index
     /\ s.course_name_index[s.courses[id].name] = id
  THEN [s EXCEPT !.course_name_index = Drop(@, s.courses[id].name)] ELSE s

AddCourseForce(s, id, row) ==
  [ForgetName(EvictOwner(s, row.name, id), id)
     EXCEPT !.courses = Put(@, id, row), !.course_name_index = Put(@, row.name, id)]

DeleteCourseCascade(s, id) == DropCourse(ForgetName(s, id), id)

(* Mutant of UpdateCourseIDCascade: the index is left alone. *)
MutUpdateCourseIDCascade(s, id, new_id) ==
  [s EXCEPT !.courses = Rename(@, id, new_id),
            !.enroll = RenameLinks(@, 1, id, new_id),
            !.teach = RenameLinks(@, 1, id, new_id)]

UpdateCourseIDCascade(s, id, new_id) ==
  [s EXCEPT !.courses = Rename(@, id, new_id),
            !.enroll = RenameLinks(@, 1, id, new_id),
            !.teach = RenameLinks(@, 1, id, new_id),
            !.course_name_index =
              IF id \in DOMAIN s.courses THEN Put(@, s.courses[id].name, new_id) ELSE @]

(***************************************************************************)
(* updateCurrentState enters the name into the index also when there is no *)
(* such course; in updateStableState that line is commented out.           *)
(***************************************************************************)
UpdateCourseNameForce(s, id, name, copy) ==
  LET t == ForgetName(EvictOwner(s, name, id), id)
  IN IF id \in DOMAIN t.courses
     THEN [t EXCEPT !.courses[id].name = name, !.course_name_index = Put(@, name, id)]
     ELSE IF copy = "current"
     THEN [t EXCEPT !.course_name_index = Put(@, name, id)]
     ELSE t

-----------------------------------------------------------------------------
(* updateCurrentState (copy = "current") and updateStableState ("stable"). *)
ComplexUpdate(s, c, copy) ==
  LET op == c.op IN
  CASE op.type = "AddStudentForce" ->
         [s EXCEPT !.students = Put(@, op.id, op.row)]
    [] op.type = "DeleteStudentCascade" ->
         [s EXCEPT !.students = Drop(@, op.id), !.enroll = Unlink(@, 2, op.id)]
    [] op.type = "UpdateStudentIDCascade" ->
         [s EXCEPT !.students = Rename(@, op.id, op.new_id),
                   !.enroll = RenameLinks(@, 2, op.id, op.new_id)]
    [] op.type = "UpdateStudentOther" ->
         IF op.id \in DOMAIN s.students THEN [s EXCEPT !.students[op.id] = op.row] ELSE s
    [] op.type = "AddInstructorForce" ->
         [s EXCEPT !.instructors = Put(@, op.id, op.row)]
    [] op.type = "DeleteInstructorCascade" ->
         [s EXCEPT !.instructors = Drop(@, op.id), !.teach = Unlink(@, 2, op.id)]
    [] op.type = "UpdateInstructorIDCascade" ->
         [s EXCEPT !.instructors = Rename(@, op.id, op.new_id),
                   !.teach = RenameLinks(@, 2, op.id, op.new_id)]
    [] op.type = "UpdateInstructorOther" ->
         IF op.id \in DOMAIN s.instructors
         THEN [s EXCEPT !.instructors[op.id] = op.row] ELSE s
    [] op.type = "AddCourseForce" -> AddCourseForce(s, op.id, op.row)
    [] op.type = "DeleteCourseCascade" -> DeleteCourseCascade(s, op.id)
    [] op.type = "UpdateCourseIDCascade" -> UpdateCourseIDCascade(s, op.id, op.new_id)
    [] op.type = "UpdateCourseNameForce" -> UpdateCourseNameForce(s, op.id, op.name, copy)
    [] op.type = "UpdateCourseOther" ->
         IF op.id \in DOMAIN s.courses
         THEN [s EXCEPT !.courses[op.id].rest = op.row] ELSE s
    [] op.type = "AddDepartment" ->
         [s EXCEPT !.departments = @ \cup {op.id}]
    [] op.type = "DeleteDepartmentNoAction" ->
         [s EXCEPT !.departments = @ \ {op.id}]
    [] op.type = "Enroll" -> [s EXCEPT !.enroll = @ \cup {<<op.course, op.person>>}]
    [] op.type = "WithdrawEnrollment" -> [s EXCEPT !.enroll = @ \ {<<op.course, op.person>>}]
    [] op.type = "Teach" -> [s EXCEPT !.teach = @ \cup {<<op.course, op.person>>}]
    [] op.type = "WithdrawTeaching" -> [s EXCEPT !.teach = @ \ {<<op.course, op.person>>}]

ComplexMethods ==
  {"AddStudentForce", "DeleteStudentCascade", "UpdateStudentIDCascade", "UpdateStudentOther",
   "AddInstructorForce", "DeleteInstructorCascade", "UpdateInstructorIDCascade",
   "UpdateInstructorOther", "AddCourseForce", "DeleteCourseCascade", "UpdateCourseIDCascade",
   "UpdateCourseNameForce", "UpdateCourseOther", "AddDepartment", "DeleteDepartmentNoAction",
   "Enroll", "WithdrawEnrollment", "Teach", "WithdrawTeaching"}

-----------------------------------------------------------------------------
(* The conflict relation; the local and the remote one have the same text. *)

(* Mutant of ByNode: two calls of the same method never conflict. *)
MutByNode == {}

(* Conflicting with itself: the call of the lower node comes first. *)
ByNode == {"AddStudentForce", "UpdateStudentIDCascade", "UpdateStudentOther",
           "AddInstructorForce", "UpdateInstructorIDCascade", "UpdateInstructorOther",
           "AddCourseForce", "UpdateCourseIDCascade", "UpdateCourseNameForce",
           "UpdateCourseOther"}

ComplexEdges ==
  ({"AddStudentForce"} \X {"DeleteStudentCascade", "UpdateStudentIDCascade"})
  \cup ({"UpdateStudentOther"} \X {"AddStudentForce", "UpdateStudentIDCascade"})
  \cup ({"AddInstructorForce"} \X
        {"DeleteInstructorCascade", "UpdateInstructorIDCascade", "DeleteDepartmentNoAction"})
  \cup ({"UpdateInstructorOther"} \X
        {"AddInstructorForce", "UpdateInstructorIDCascade", "DeleteDepartmentNoAction"})
  \cup ({"AddCourseForce"} \X
        {"DeleteCourseCascade", "UpdateCourseIDCascade", "DeleteDepartmentNoAction"})
  \cup ({"UpdateCourseNameForce"} \X {"AddCourseForce", "UpdateCourseIDCascade"})
  \cup ({"UpdateCourseOther"} \X
        {"AddCourseForce", "UpdateCourseIDCascade", "DeleteDepartmentNoAction"})
  \cup ({"AddDepartment"} \X {"DeleteDepartmentNoAction"})
  \cup ({"Enroll"} \X
        {"DeleteStudentCascade", "UpdateStudentIDCascade", "DeleteCourseCascade",
         "UpdateCourseIDCascade", "WithdrawEnrollment"})
  \cup ({"Teach"} \X
        {"DeleteInstructorCascade", "UpdateInstructorIDCascade", "DeleteCourseCascade",
         "UpdateCourseIDCascade", "WithdrawTeaching"})

ComplexReachable(c, d) ==
  \/ c.op.type = d.op.type /\ c.op.type \in ByNode /\ c.node_id < d.node_id
  \/ <<c.op.type, d.op.type>> \in ComplexEdges
=============================================================================
