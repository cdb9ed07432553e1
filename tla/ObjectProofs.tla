---------------------------- MODULE ObjectProofs ----------------------------
(***************************************************************************)
(* Theorems about the replicated objects, for every set of values, ids and *)
(* names that calls may carry.                                             *)
(***************************************************************************)
EXTENDS ObjectCommutation, TLAPS

(* s is a function; the states of the use cases are, being records. *)
Fn(s) == s = [x \in DOMAIN s |-> s[x]]

(* Inserts and erasures leave a function. *)
LEMMA RowsKeepFn ==
  ASSUME NEW s, Fn(s), NEW t, NEW a
  PROVE  Fn(Insert(s, t, a)) /\ Fn(Erase(s, t, a))
  BY DEF Fn, Insert, Erase

(* Two inserts have the same effect in either order. *)
LEMMA InsertsCommute ==
  ASSUME NEW s, Fn(s), NEW t, NEW a, NEW u, NEW b
  PROVE  Insert(Insert(s, t, a), u, b) = Insert(Insert(s, u, b), t, a)
<1>1. CASE t = u
  BY <1>1 DEF Fn, Insert
<1>2. CASE t # u
  BY <1>2 DEF Fn, Insert
<1> QED BY <1>1, <1>2

(* Two erasures have the same effect in either order. *)
LEMMA ErasuresCommute ==
  ASSUME NEW s, Fn(s), NEW t, NEW a, NEW u, NEW b
  PROVE  Erase(Erase(s, t, a), u, b) = Erase(Erase(s, u, b), t, a)
<1>1. CASE t = u
  BY <1>1 DEF Fn, Erase
<1>2. CASE t # u
  BY <1>2 DEF Fn, Erase
<1> QED BY <1>1, <1>2

(* So have an insert and an erasure in different tables. *)
LEMMA InsertAndErasureCommute ==
  ASSUME NEW s, Fn(s), NEW t, NEW a, NEW u, NEW b, t # u
  PROVE  Erase(Insert(s, t, a), u, b) = Insert(Erase(s, u, b), t, a)
  BY DEF Fn, Insert, Erase

(* The three together, for every pair of tables and rows. *)
LEMMA RowsCommute ==
  ASSUME NEW s, Fn(s)
  PROVE  /\ \A t, a, u, b : Insert(Insert(s, t, a), u, b) = Insert(Insert(s, u, b), t, a)
         /\ \A t, a, u, b : Erase(Erase(s, t, a), u, b) = Erase(Erase(s, u, b), t, a)
         /\ \A t, a, u, b : t # u =>
              Erase(Insert(s, t, a), u, b) = Insert(Erase(s, u, b), t, a)
  BY InsertsCommute, ErasuresCommute, InsertAndErasureCommute

-----------------------------------------------------------------------------
(* The use cases whose calls touch one table: any two calls that           *)
(* fastisreachableremote does not relate commute, in every state.          *)

(* Of a set, only an add and a remove have to be ordered. *)
LEMMA SetCallsCommute ==
  ASSUME NEW s, Fn(s), NEW c, NEW d,
         c.op.type \in SetMethods, d.op.type \in SetMethods,
         ~SetRemote(c, d), ~SetRemote(d, c)
  PROVE  SetUpdate(SetUpdate(s, c), d) = SetUpdate(SetUpdate(s, d), c)
  BY RowsCommute DEF SetUpdate, SetMethods, SetRemote, Types

(* Of a movie database, adding and deleting a row of the same table do. *)
LEMMA MovieCallsCommute ==
  ASSUME NEW s, Fn(s), NEW c, NEW d,
         c.op.type \in MovieMethods, d.op.type \in MovieMethods,
         ~MovieReachable(c, d), ~MovieReachable(d, c)
  PROVE  MovieUpdate(MovieUpdate(s, c), d) = MovieUpdate(MovieUpdate(s, d), c)
  BY RowsCommute DEF MovieUpdate, MovieMethods, MovieReachable, MovieEdges, Types

(* Of a project database, the pairs of ProjectEdges do. *)
LEMMA ProjectCallsCommute ==
  ASSUME NEW s, Fn(s), NEW c, NEW d,
         c.op.type \in ProjectMethods, d.op.type \in ProjectMethods,
         ~ProjectReachable(c, d), ~ProjectReachable(d, c)
  PROVE  ProjectUpdate(ProjectUpdate(s, c), d) = ProjectUpdate(ProjectUpdate(s, d), c)
  BY RowsCommute DEF ProjectUpdate, ProjectMethods, ProjectReachable, ProjectEdges, Types

(* Of a courseware database, the pairs of CoursewareEdges do, in both copies. *)
LEMMA CoursewareCallsCommute ==
  ASSUME NEW s, Fn(s), NEW c, NEW d,
         c.op.type \in CoursewareMethods, d.op.type \in CoursewareMethods,
         ~CoursewareReachable(c, d), ~CoursewareReachable(d, c)
  PROVE  /\ CoursewareUpdateCurrent(CoursewareUpdateCurrent(s, c), d)
               = CoursewareUpdateCurrent(CoursewareUpdateCurrent(s, d), c)
         /\ CoursewareUpdateStable(CoursewareUpdateStable(s, c), d)
               = CoursewareUpdateStable(CoursewareUpdateStable(s, d), c)
<1>1. CoursewareUpdateCurrent(CoursewareUpdateCurrent(s, c), d)
        = CoursewareUpdateCurrent(CoursewareUpdateCurrent(s, d), c)
  BY RowsCommute DEF CoursewareUpdateCurrent, CoursewareMethods, CoursewareReachable,
                     CoursewareEdges, Types
<1>2. CoursewareUpdateStable(CoursewareUpdateStable(s, c), d)
        = CoursewareUpdateStable(CoursewareUpdateStable(s, d), c)
  BY RowsCommute DEF CoursewareUpdateStable, CoursewareMethods, CoursewareReachable,
                     CoursewareEdges, Types
<1> QED BY <1>1, <1>2

-----------------------------------------------------------------------------
PlainUseCase == {"set", "movie", "project", "courseware"}

(* updateCurrentState and updateStableState leave a function. *)
LEMMA PlainUpdateKeepsFn ==
  ASSUME NEW u \in PlainUseCase, NEW cp, NEW s, Fn(s),
         NEW c, c.op.type \in Methods(u)
  PROVE  Fn(Update(u, cp, s, c))
<1>1. CASE u = "set"
  BY <1>1, RowsKeepFn DEF Update, Methods, SetUpdate, SetMethods
<1>2. CASE u = "movie"
  BY <1>2, RowsKeepFn DEF Update, Methods, MovieUpdate, MovieMethods
<1>3. CASE u = "project"
  BY <1>3, RowsKeepFn DEF Update, Methods, ProjectUpdate, ProjectMethods
<1>4. CASE u = "courseware"
  BY <1>4, RowsKeepFn
  DEF Update, Methods, CoursewareUpdateCurrent, CoursewareUpdateStable, CoursewareMethods
<1> QED BY <1>1, <1>2, <1>3, <1>4 DEF PlainUseCase

(* The four use cases together: unrelated concurrent calls commute. *)
LEMMA PlainUpdatesCommute ==
  ASSUME NEW u \in PlainUseCase, NEW cp, NEW s, Fn(s),
         NEW c, c.op.type \in Methods(u), NEW d, d.op.type \in Methods(u),
         ~Reachable(u, c, d), ~Reachable(u, d, c)
  PROVE  Update(u, cp, Update(u, cp, s, c), d) = Update(u, cp, Update(u, cp, s, d), c)
<1>1. CASE u = "set"
  BY <1>1, SetCallsCommute DEF Update, Methods, Reachable
<1>2. CASE u = "movie"
  BY <1>2, MovieCallsCommute DEF Update, Methods, Reachable
<1>3. CASE u = "project"
  BY <1>3, ProjectCallsCommute DEF Update, Methods, Reachable
<1>4. CASE u = "courseware"
  BY <1>4, CoursewareCallsCommute DEF Update, Methods, Reachable
<1> QED BY <1>1, <1>2, <1>3, <1>4 DEF PlainUseCase

PlainInv == client \in Clients /\ Fn(state)

(***************************************************************************)
(* In the set, movie, project and courseware use cases the conflict        *)
(* relation is complete, whatever values and ids the calls carry: two      *)
(* concurrent calls that fastisreachableremote does not relate can be      *)
(* applied in either order, to every state the object can be in.  (For     *)
(* these use cases OtherCallsCommute exempts nothing and says the same.)   *)
(***************************************************************************)
THEOREM PlainRelationComplete ==
  ASSUME \A k \in Clients : k.useCase \in PlainUseCase
  PROVE  Spec => []OtherCallsCommute
<1>1. Init => PlainInv
  BY DEF Init, PlainInv, Empty, PlainUseCase, Fn, EmptySet, EmptyMovie, EmptyProject,
         EmptyCourseware, useCase
<1>2. PlainInv /\ [Next]_vars => PlainInv'
  <2> SUFFICES ASSUME PlainInv, [Next]_vars PROVE PlainInv'
    OBVIOUS
  <2>1. CASE Next
    <3>1. PICK op \in client.ops : Apply(op)
      BY <2>1 DEF Next
    <3>2. CallOf1(op).op.type \in Methods(useCase)
      BY ClientsAssumption DEF PlainInv, useCase, CallOf1
    <3>3. Fn(state')
      BY <3>1, <3>2, PlainUpdateKeepsFn DEF PlainInv, Apply, useCase
    <3> QED BY <3>1, <3>3 DEF PlainInv, Apply
  <2>2. CASE UNCHANGED vars
    BY <2>2 DEF PlainInv, vars, Fn
  <2> QED BY <2>1, <2>2
<1>3. PlainInv => OtherCallsCommute
  <2> SUFFICES ASSUME PlainInv, NEW o1 \in client.ops, NEW o2 \in client.ops,
                      ~Conflicting(CallOf1(o1), CallOf2(o2))
               PROVE  Commute(CallOf1(o1), CallOf2(o2))
    BY DEF OtherCallsCommute
  <2>1. /\ CallOf1(o1).op.type \in Methods(useCase)
        /\ CallOf2(o2).op.type \in Methods(useCase)
    BY ClientsAssumption DEF PlainInv, useCase, CallOf1, CallOf2
  <2> QED BY <2>1, PlainUpdatesCommute DEF PlainInv, useCase, Conflicting, Commute, After2
<1> QED BY <1>1, <1>2, <1>3, PTL DEF Spec

-----------------------------------------------------------------------------
(* The names of courses in complex-courseware.hpp.                         *)

(* s has the courses and the index, and they are tables. *)
Tables(s) ==
  /\ {"courses", "course_name_index"} \subseteq DOMAIN s
  /\ Fn(s.courses) /\ Fn(s.course_name_index)
  /\ \A id \in DOMAIN s.courses :
       s.courses[id] = [name |-> s.courses[id].name, rest |-> s.courses[id].rest]

HasEntry(s, id) ==
  /\ s.courses[id].name \in DOMAIN s.course_name_index
  /\ s.course_name_index[s.courses[id].name] = id

(* Every course, or every course but one, is found under its name. *)
Indexed(s) == \A k \in DOMAIN s.courses : HasEntry(s, k)
IndexedBut(s, id) == \A k \in DOMAIN s.courses : k # id => HasEntry(s, k)

(* No course but id has the name. *)
NameFree(s, name, id) == \A k \in DOMAIN s.courses : s.courses[k].name = name => k = id

(* Erasing a row leaves the others as they are. *)
LEMMA DropIs ==
  ASSUME NEW t, NEW id
  PROVE  /\ Fn(Drop(t, id))
         /\ DOMAIN Drop(t, id) = DOMAIN t \ {id}
         /\ \A k \in DOMAIN t : k # id => Drop(t, id)[k] = t[k]
  BY DEF Drop, Restrict, Fn

(* Dropping a course leaves well-formed tables and the index. *)
LEMMA DropCourseIs ==
  ASSUME NEW s, Tables(s), NEW id
  PROVE  /\ Tables(DropCourse(s, id))
         /\ DropCourse(s, id).courses = Drop(s.courses, id)
         /\ DropCourse(s, id).course_name_index = s.course_name_index
<1> DEFINE u == DropCourse(s, id)
<1>1. /\ DOMAIN u = DOMAIN s
      /\ u.courses = Drop(s.courses, id)
      /\ u.course_name_index = s.course_name_index
  <2>1. {"courses", "course_name_index"} \subseteq DOMAIN s
    BY DEF Tables
  <2> QED BY <2>1 DEF DropCourse
<1> HIDE DEF u
<1> DEFINE t == Drop(s.courses, id)
<1>2. Fn(t) /\ DOMAIN t = DOMAIN s.courses \ {id} /\ \A k \in DOMAIN t : t[k] = s.courses[k]
  BY DropIs, ZenonT(60)
<1>3. u.courses = t
  BY <1>1
<1> HIDE DEF t
<1>4. Tables(u)
  BY <1>1, <1>2, <1>3 DEF Tables
<1> QED BY <1>1, <1>4 DEF u

(* EvictOwner deletes the course that has the name, if it is another one. *)
LEMMA EvictOwnerIs ==
  ASSUME NEW s, Tables(s), Indexed(s), NEW name, NEW id
  PROVE  /\ Tables(EvictOwner(s, name, id))
         /\ Indexed(EvictOwner(s, name, id))
         /\ NameFree(EvictOwner(s, name, id), name, id)
<1>1. CASE name \in DOMAIN s.course_name_index /\ s.course_name_index[name] # id
  <2> DEFINE old == s.course_name_index[name]
             u == DropCourse(s, old)
  <2>1. EvictOwner(s, name, id) = u
    BY <1>1 DEF EvictOwner
  <2>2. /\ Tables(u) /\ u.courses = Drop(s.courses, old)
        /\ u.course_name_index = s.course_name_index
    BY DropCourseIs
  <2> HIDE DEF u
  <2>3. /\ DOMAIN u.courses = DOMAIN s.courses \ {old}
        /\ \A k \in DOMAIN u.courses : u.courses[k] = s.courses[k]
    <3>1. LET t == Drop(s.courses, old)
          IN  DOMAIN t = DOMAIN s.courses \ {old} /\ \A k \in DOMAIN t : t[k] = s.courses[k]
      BY DropIs, ZenonT(60)
    <3> HIDE DEF old
    <3> QED BY <2>2, <3>1
  <2>4. Indexed(u) /\ NameFree(u, name, id)
    BY <2>2, <2>3 DEF Indexed, HasEntry, NameFree
  <2> QED BY <2>1, <2>2, <2>4
<1>2. CASE ~(name \in DOMAIN s.course_name_index /\ s.course_name_index[name] # id)
  BY <1>2 DEF EvictOwner, Indexed, HasEntry, NameFree
<1> QED BY <1>1, <1>2

(* ForgetName takes the entry of one course out of the index, no other. *)
LEMMA ForgetNameIs ==
  ASSUME NEW s, Tables(s), Indexed(s), NEW id
  PROVE  /\ Tables(ForgetName(s, id))
         /\ ForgetName(s, id).courses = s.courses
         /\ IndexedBut(ForgetName(s, id), id)
<1>1. CASE id \in DOMAIN s.courses
  <2> DEFINE name == s.courses[id].name
             index == Drop(s.course_name_index, name)
             u == [s EXCEPT !.course_name_index = index]
  <2>1. ForgetName(s, id) = u
    BY <1>1 DEF ForgetName, Indexed, HasEntry
  <2>2. /\ Fn(index) /\ DOMAIN index = DOMAIN s.course_name_index \ {name}
        /\ \A k \in DOMAIN index : index[k] = s.course_name_index[k]
    BY DropIs, ZenonT(60)
  <2> HIDE DEF index
  <2>3. /\ DOMAIN u = DOMAIN s
        /\ u.courses = s.courses /\ u.course_name_index = index
    BY DEF Tables
  <2> HIDE DEF u
  <2>4. Tables(u)
    BY <2>2, <2>3 DEF Tables
  <2>5. IndexedBut(u, id)
    BY <1>1, <2>2, <2>3 DEF IndexedBut, Indexed, HasEntry
  <2> QED BY <2>1, <2>3, <2>4, <2>5
<1>2. CASE id \notin DOMAIN s.courses
  BY <1>2 DEF ForgetName, Indexed, IndexedBut
<1> QED BY <1>1, <1>2

-----------------------------------------------------------------------------
(* Each operation keeps every course under its name.                       *)

CoursesInv(s) == Tables(s) /\ Indexed(s)

(***************************************************************************)
(* A course with a free name and an entry for it: what AddCourseForce and  *)
(* UpdateCourseNameForce end with.                                         *)
(***************************************************************************)
LEMMA EnterCourse ==
  ASSUME NEW t, Tables(t), NEW id, IndexedBut(t, id), NEW row,
         row = [name |-> row.name, rest |-> row.rest], NameFree(t, row.name, id),
         NEW s, {"courses", "course_name_index"} \subseteq DOMAIN s,
         s.courses = Put(t.courses, id, row),
         s.course_name_index = Put(t.course_name_index, row.name, id)
  PROVE  CoursesInv(s)
<1> DEFINE courses == Put(t.courses, id, row)
           index == Put(t.course_name_index, row.name, id)
<1>1. /\ Fn(courses) /\ DOMAIN courses = DOMAIN t.courses \cup {id} /\ courses[id] = row
      /\ \A k \in DOMAIN t.courses : k # id => courses[k] = t.courses[k]
  BY DEF Put, Fn
<1>2. /\ Fn(index) /\ DOMAIN index = DOMAIN t.course_name_index \cup {row.name}
      /\ index[row.name] = id
      /\ \A k \in DOMAIN t.course_name_index : k # row.name => index[k] = t.course_name_index[k]
  BY DEF Put, Fn
<1>3. s.courses = courses /\ s.course_name_index = index
  OBVIOUS
<1> HIDE DEF courses, index
<1>4. Tables(s)
  BY <1>1, <1>2, <1>3 DEF Tables
<1>5. Indexed(s)
  <2> SUFFICES ASSUME NEW k \in DOMAIN s.courses PROVE HasEntry(s, k)
    BY DEF Indexed
  <2>1. CASE k = id
    BY <2>1, <1>1, <1>2, <1>3 DEF HasEntry
  <2>2. CASE k # id
    <3>1. k \in DOMAIN t.courses /\ s.courses[k] = t.courses[k] /\ t.courses[k].name # row.name
      BY <2>2, <1>1, <1>3 DEF NameFree
    <3>2. HasEntry(t, k)
      BY <2>2, <3>1 DEF IndexedBut
    <3> QED BY <3>1, <3>2, <1>2, <1>3 DEF HasEntry
  <2> QED BY <2>1, <2>2
<1> QED BY <1>4, <1>5 DEF CoursesInv

(* EvictOwner and ForgetName leave a free name and one course without entry. *)
LEMMA TakeName ==
  ASSUME NEW s, CoursesInv(s), NEW name, NEW id
  PROVE  LET t == ForgetName(EvictOwner(s, name, id), id)
         IN  Tables(t) /\ IndexedBut(t, id) /\ NameFree(t, name, id)
<1> DEFINE u == EvictOwner(s, name, id)
           t == ForgetName(u, id)
<1>1. Tables(u) /\ Indexed(u) /\ NameFree(u, name, id)
  BY EvictOwnerIs DEF CoursesInv
<1> HIDE DEF u
<1>2. Tables(t) /\ t.courses = u.courses /\ IndexedBut(t, id)
  BY <1>1, ForgetNameIs
<1> HIDE DEF t
<1>3. NameFree(t, name, id)
  BY <1>1, <1>2 DEF NameFree
<1> QED BY <1>2, <1>3 DEF t, u

(* AddCourseForce enters the course under its name. *)
LEMMA AddCourseKeeps ==
  ASSUME NEW s, CoursesInv(s), NEW id,
         NEW row, row = [name |-> row.name, rest |-> row.rest]
  PROVE  CoursesInv(AddCourseForce(s, id, row))
<1> DEFINE t == ForgetName(EvictOwner(s, row.name, id), id)
           u == [t EXCEPT !.courses = Put(@, id, row),
                          !.course_name_index = Put(@, row.name, id)]
<1>1. AddCourseForce(s, id, row) = u
  BY DEF AddCourseForce
<1>2. Tables(t) /\ IndexedBut(t, id) /\ NameFree(t, row.name, id)
  BY TakeName
<1> HIDE DEF t
<1>3. /\ {"courses", "course_name_index"} \subseteq DOMAIN u
      /\ u.courses = Put(t.courses, id, row)
      /\ u.course_name_index = Put(t.course_name_index, row.name, id)
  BY <1>2 DEF Tables
<1> HIDE DEF u
<1> QED BY <1>1, <1>2, <1>3, EnterCourse

(* DeleteCourseCascade takes away the entry of that course only. *)
LEMMA DeleteCourseKeeps ==
  ASSUME NEW s, CoursesInv(s), NEW id
  PROVE  CoursesInv(DeleteCourseCascade(s, id))
<1> DEFINE t == ForgetName(s, id)
           u == DropCourse(t, id)
           courses == Drop(t.courses, id)
<1>1. Tables(t) /\ IndexedBut(t, id)
  BY ForgetNameIs DEF CoursesInv
<1> HIDE DEF t
<1>2. Tables(u) /\ u.courses = courses /\ u.course_name_index = t.course_name_index
  BY <1>1, DropCourseIs
<1>3. /\ DOMAIN courses = DOMAIN t.courses \ {id}
      /\ \A k \in DOMAIN courses : courses[k] = t.courses[k]
  BY DropIs
<1> HIDE DEF u, courses
<1>4. Indexed(u)
  BY <1>1, <1>2, <1>3 DEF Indexed, IndexedBut, HasEntry
<1> QED BY <1>2, <1>4 DEF CoursesInv, DeleteCourseCascade, u, t

(* UpdateCourseIDCascade moves the entry with the course, also onto another one. *)
LEMMA RenameCourseKeeps ==
  ASSUME NEW s, CoursesInv(s), NEW id, NEW new_id
  PROVE  CoursesInv(UpdateCourseIDCascade(s, id, new_id))
<1> DEFINE u == UpdateCourseIDCascade(s, id, new_id)
<1>1. CASE id \notin DOMAIN s.courses
  <2>1. /\ DOMAIN u = DOMAIN s
        /\ u.courses = s.courses /\ u.course_name_index = s.course_name_index
    BY <1>1 DEF UpdateCourseIDCascade, CoursesInv, Tables, Rename
  <2> HIDE DEF u
  <2>2. CoursesInv(u)
    BY <2>1 DEF CoursesInv, Tables, Indexed, HasEntry
  <2> QED BY <2>2 DEF u
<1>2. CASE id \in DOMAIN s.courses
  <2> DEFINE row == s.courses[id]
             dropped == Drop(s.courses, id)
             courses == Put(dropped, new_id, row)
             index == Put(s.course_name_index, row.name, new_id)
  <2>1. DOMAIN u = DOMAIN s /\ u.courses = courses /\ u.course_name_index = index
    BY <1>2 DEF UpdateCourseIDCascade, CoursesInv, Tables, Rename
  <2>2. /\ DOMAIN dropped = DOMAIN s.courses \ {id}
        /\ \A k \in DOMAIN dropped : dropped[k] = s.courses[k]
    BY DropIs
  <2> HIDE DEF dropped
  <2>3. /\ Fn(courses) /\ DOMAIN courses = DOMAIN dropped \cup {new_id}
        /\ courses[new_id] = row
        /\ \A k \in DOMAIN dropped : k # new_id => courses[k] = dropped[k]
    BY DEF Put, Fn
  <2>4. /\ Fn(index) /\ DOMAIN index = DOMAIN s.course_name_index \cup {row.name}
        /\ index[row.name] = new_id
        /\ \A k \in DOMAIN s.course_name_index : k # row.name => index[k] = s.course_name_index[k]
    BY DEF Put, Fn
  <2> HIDE DEF u, courses, index
  <2>5. Tables(u)
    BY <1>2, <2>1, <2>2, <2>3, <2>4 DEF CoursesInv, Tables
  <2>6. Indexed(u)
    <3> SUFFICES ASSUME NEW k \in DOMAIN u.courses PROVE HasEntry(u, k)
      BY DEF Indexed
    <3>1. CASE k = new_id
      BY <3>1, <2>1, <2>3, <2>4 DEF HasEntry
    <3>2. CASE k # new_id
      <4>1. k \in DOMAIN s.courses /\ k # id /\ u.courses[k] = s.courses[k]
        BY <3>2, <2>1, <2>2, <2>3
      <4>2. HasEntry(s, k) /\ HasEntry(s, id)
        BY <1>2, <4>1 DEF CoursesInv, Indexed
      <4>3. s.courses[k].name # row.name
        BY <4>1, <4>2 DEF HasEntry
      <4> QED BY <4>1, <4>2, <4>3, <2>1, <2>4 DEF HasEntry
    <3> QED BY <3>1, <3>2
  <2> QED BY <2>5, <2>6 DEF CoursesInv, u
<1> QED BY <1>1, <1>2

(* UpdateCourseNameForce takes the name from its owner before it is given away. *)
LEMMA UpdateCourseNameKeeps ==
  ASSUME NEW s, CoursesInv(s), NEW id, NEW name, NEW cp
  PROVE  CoursesInv(UpdateCourseNameForce(s, id, name, cp))
<1> DEFINE t == ForgetName(EvictOwner(s, name, id), id)
           u == UpdateCourseNameForce(s, id, name, cp)
<1>1. Tables(t) /\ IndexedBut(t, id) /\ NameFree(t, name, id)
  BY TakeName
<1>2. u = IF id \in DOMAIN t.courses
          THEN [t EXCEPT !.courses[id].name = name, !.course_name_index = Put(@, name, id)]
          ELSE IF cp = "current"
          THEN [t EXCEPT !.course_name_index = Put(@, name, id)]
          ELSE t
  BY DEF UpdateCourseNameForce
<1> HIDE DEF t, u
<1>3. CASE id \in DOMAIN t.courses
  <2> DEFINE row == [name |-> name, rest |-> t.courses[id].rest]
             v == [t EXCEPT !.courses[id].name = name, !.course_name_index = Put(@, name, id)]
  <2>1. t.courses[id] = [name |-> t.courses[id].name, rest |-> t.courses[id].rest]
    BY <1>1, <1>3 DEF Tables
  <2>2. [t.courses[id] EXCEPT !.name = name] = row
    BY <2>1
  <2>3. Fn(t.courses)
    BY <1>1 DEF Tables
  <2>4. [t.courses EXCEPT ![id].name = name] = Put(t.courses, id, row)
    BY <1>3, <2>2, <2>3 DEF Put, Fn
  <2>5. /\ DOMAIN v = DOMAIN t
        /\ v.courses = [t.courses EXCEPT ![id].name = name]
        /\ v.course_name_index = Put(t.course_name_index, name, id)
    BY <1>1 DEF Tables
  <2>6. /\ {"courses", "course_name_index"} \subseteq DOMAIN v
        /\ v.courses = Put(t.courses, id, row)
        /\ v.course_name_index = Put(t.course_name_index, row.name, id)
    BY <1>1, <2>4, <2>5 DEF Tables
  <2>7. row = [name |-> row.name, rest |-> row.rest] /\ NameFree(t, row.name, id)
    BY <1>1
  <2> HIDE DEF v, row
  <2>8. CoursesInv(v)
    BY <1>1, <2>6, <2>7, EnterCourse
  <2> QED BY <1>2, <1>3, <2>8 DEF u, v
<1>4. CASE id \notin DOMAIN t.courses /\ cp = "current"
  <2> DEFINE index == Put(t.course_name_index, name, id)
             v == [t EXCEPT !.course_name_index = index]
  <2>1. /\ DOMAIN v = DOMAIN t
        /\ v.courses = t.courses /\ v.course_name_index = index
    BY <1>1 DEF Tables
  <2>2. /\ Fn(index) /\ DOMAIN index = DOMAIN t.course_name_index \cup {name}
        /\ \A k \in DOMAIN t.course_name_index : k # name => index[k] = t.course_name_index[k]
    BY DEF Put, Fn
  <2>3. v = u
    BY <1>2, <1>4
  <2> HIDE DEF v, index
  <2>4. Tables(v)
    BY <1>1, <2>1, <2>2 DEF Tables
  <2>5. Indexed(v)
    BY <1>1, <1>4, <2>1, <2>2 DEF Indexed, IndexedBut, HasEntry, NameFree
  <2> QED BY <2>3, <2>4, <2>5 DEF CoursesInv, u
<1>5. CASE id \notin DOMAIN t.courses /\ cp # "current"
  <2>1. u = t
    BY <1>2, <1>5
  <2>2. Indexed(t)
    BY <1>1, <1>5 DEF Indexed, IndexedBut
  <2> QED BY <1>1, <2>1, <2>2 DEF CoursesInv, u
<1> QED BY <1>3, <1>4, <1>5

(* Steps that leave courses and the index alone. *)
LEMMA OtherTablesKeep ==
  ASSUME NEW s, CoursesInv(s), NEW u, DOMAIN u = DOMAIN s,
         u.courses = s.courses, u.course_name_index = s.course_name_index
  PROVE  CoursesInv(u)
  BY DEF CoursesInv, Tables, Indexed, HasEntry

(* UpdateCourseOther leaves the name of the course. *)
LEMMA UpdateCourseOtherKeeps ==
  ASSUME NEW s, CoursesInv(s), NEW id \in DOMAIN s.courses, NEW rest
  PROVE  CoursesInv([s EXCEPT !.courses[id].rest = rest])
<1> DEFINE u == [s EXCEPT !.courses[id].rest = rest]
           courses == [s.courses EXCEPT ![id].rest = rest]
<1>1. /\ DOMAIN u = DOMAIN s
      /\ u.courses = courses /\ u.course_name_index = s.course_name_index
  BY DEF CoursesInv, Tables
<1>2. s.courses[id] = [name |-> s.courses[id].name, rest |-> s.courses[id].rest]
  BY DEF CoursesInv, Tables
<1>3. [s.courses[id] EXCEPT !.rest = rest] = [name |-> s.courses[id].name, rest |-> rest]
  BY <1>2
<1>4. /\ Fn(courses) /\ DOMAIN courses = DOMAIN s.courses
      /\ courses[id] = [name |-> s.courses[id].name, rest |-> rest]
      /\ \A k \in DOMAIN s.courses : k # id => courses[k] = s.courses[k]
  BY <1>3 DEF Fn
<1> HIDE DEF u, courses
<1>5. Tables(u)
  BY <1>1, <1>4 DEF CoursesInv, Tables
<1>6. Indexed(u)
  BY <1>1, <1>4 DEF CoursesInv, Indexed, HasEntry
<1> QED BY <1>5, <1>6 DEF CoursesInv, u

(* No call of complex-courseware.hpp loses the entry of a course. *)
LEMMA ComplexUpdateKeeps ==
  ASSUME NEW s, CoursesInv(s), NEW cp, NEW c, c.op.type \in ComplexMethods,
         c.op.type = "AddCourseForce" => c.op.row = [name |-> c.op.row.name, rest |-> c.op.row.rest]
  PROVE  CoursesInv(ComplexUpdate(s, c, cp))
<1> DEFINE op == c.op
           u == ComplexUpdate(s, c, cp)
<1>1. CASE op.type = "AddCourseForce"
  BY <1>1, AddCourseKeeps DEF ComplexUpdate
<1>2. CASE op.type = "DeleteCourseCascade"
  BY <1>2, DeleteCourseKeeps DEF ComplexUpdate
<1>3. CASE op.type = "UpdateCourseIDCascade"
  BY <1>3, RenameCourseKeeps DEF ComplexUpdate
<1>4. CASE op.type = "UpdateCourseNameForce"
  BY <1>4, UpdateCourseNameKeeps DEF ComplexUpdate
<1>5. CASE op.type = "UpdateCourseOther"
  BY <1>5, UpdateCourseOtherKeeps DEF ComplexUpdate
<1>6. CASE op.type \in {"AddStudentForce", "DeleteStudentCascade", "UpdateStudentIDCascade",
                        "UpdateStudentOther"}
  <2>1. DOMAIN u = DOMAIN s /\ u.courses = s.courses /\ u.course_name_index = s.course_name_index
    BY <1>6 DEF ComplexUpdate, CoursesInv, Tables
  <2> QED BY <2>1, OtherTablesKeep
<1>7. CASE op.type \in {"AddInstructorForce", "DeleteInstructorCascade",
                        "UpdateInstructorIDCascade", "UpdateInstructorOther"}
  <2>1. DOMAIN u = DOMAIN s /\ u.courses = s.courses /\ u.course_name_index = s.course_name_index
    BY <1>7 DEF ComplexUpdate, CoursesInv, Tables
  <2> QED BY <2>1, OtherTablesKeep
<1>8. CASE op.type \in {"AddDepartment", "DeleteDepartmentNoAction", "Enroll",
                        "WithdrawEnrollment", "Teach", "WithdrawTeaching"}
  <2>1. DOMAIN u = DOMAIN s /\ u.courses = s.courses /\ u.course_name_index = s.course_name_index
    BY <1>8 DEF ComplexUpdate, CoursesInv, Tables
  <2> QED BY <2>1, OtherTablesKeep
<1> QED BY <1>1, <1>2, <1>3, <1>4, <1>5, <1>6, <1>7, <1>8 DEF ComplexMethods

ComplexInv == client \in Clients /\ (useCase = "complex-courseware" => CoursesInv(state))

(***************************************************************************)
(* No two courses of complex-courseware.hpp ever have the same name, in    *)
(* the current state and in the stable state, whatever calls are applied   *)
(* in whatever order: although the index has entries that are wrong, every *)
(* course is found under its name, so the owner of a name is always        *)
(* evicted before the name is given away.                                  *)
(***************************************************************************)
THEOREM CourseNamesUnique == Spec => []UniqueCourseNames
<1>1. Init => ComplexInv
  <2> SUFFICES ASSUME Init, useCase = "complex-courseware" PROVE CoursesInv(state)
    BY DEF Init, ComplexInv
  <2>1. state = EmptyComplexCourseware
    BY DEF Init, Empty
  <2>2. /\ {"courses", "course_name_index"} \subseteq DOMAIN state
        /\ state.courses = EmptyTable /\ state.course_name_index = EmptyTable
    BY <2>1 DEF EmptyComplexCourseware
  <2>3. Fn(EmptyTable) /\ DOMAIN EmptyTable = {}
    BY DEF EmptyTable, Fn
  <2> QED BY <2>2, <2>3 DEF CoursesInv, Tables, Indexed
<1>2. ComplexInv /\ [Next]_vars => ComplexInv'
  <2> SUFFICES ASSUME ComplexInv, [Next]_vars PROVE ComplexInv'
    OBVIOUS
  <2>1. CASE Next
    <3>1. PICK op \in client.ops : Apply(op)
      BY <2>1 DEF Next
    <3>2. ASSUME useCase = "complex-courseware" PROVE CoursesInv(state')
      <4> DEFINE c == CallOf1(op)
      <4>1. /\ c.op.type \in ComplexMethods
            /\ c.op.type = "AddCourseForce" =>
                 c.op.row = [name |-> c.op.row.name, rest |-> c.op.row.rest]
        BY <3>2, ClientsAssumption DEF ComplexInv, useCase, CallOf1, Methods
      <4>2. state' = ComplexUpdate(state, c, copy)
        BY <3>1, <3>2 DEF Apply, Update
      <4>3. CoursesInv(state)
        BY <3>2 DEF ComplexInv
      <4> HIDE DEF c
      <4> QED BY <4>1, <4>2, <4>3, ComplexUpdateKeeps
    <3> QED BY <3>1, <3>2 DEF ComplexInv, useCase, Apply
  <2>2. CASE UNCHANGED vars
    BY <2>2 DEF ComplexInv, vars, useCase, CoursesInv, Tables, Fn, Indexed, HasEntry
  <2> QED BY <2>1, <2>2
<1>3. ComplexInv => UniqueCourseNames
  BY DEF ComplexInv, UniqueCourseNames, CoursesInv, Indexed, HasEntry
<1> QED BY <1>1, <1>2, <1>3, PTL DEF Spec
=============================================================================
