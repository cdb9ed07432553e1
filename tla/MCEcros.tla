------------------------------- MODULE MCEcros -------------------------------
(* Small instances of ECROS, with one row per table at the start: row 0. *)
EXTENDS EcrosProperties

O(t, v) == [type |-> t, value1 |-> v]
O2(t, v, w) == [type |-> t, value1 |-> v, value2 |-> w]

W(u, f) == [useCase |-> u, files |-> f]

AddRow(v) == O("Add", v)
RemoveRow(v) == O("Remove", v)
Relate(e) == O2("WorksOn", e, 0)
Delete(e) == O("DeleteEmployee", e)

(***************************************************************************)
(* Two removes of the only element, of which the second is skipped if its  *)
(* node has executed the first; an add and a remove, which do not commute; *)
(* a node that deletes its last movie and therefore skips what follows; a  *)
(* deletion and an enrolment, which commute; two calls of the last node,   *)
(* whose clock does not tell them apart; and an employee that one node     *)
(* deletes while another relates it to a project.                          *)
(***************************************************************************)
Mixed == {
  W("set", << <<RemoveRow(0)>>, <<RemoveRow(0)>>, <<>> >>),
  W("set", << <<AddRow(1)>>, <<>>, <<RemoveRow(1)>> >>),
  W("movie", << <<O("DeleteMovie", 0), O("AddCustomer", 1)>>, <<>>, <<>> >>),
  W("courseware", << <<O("DeleteCourse", 0)>>, <<>>, <<O2("Enroll", 0, 0)>> >>),
  W("set", << <<>>, <<>>, <<AddRow(1), RemoveRow(1)>> >>),
  W("project", << <<Delete(0)>>, <<Relate(0)>>, <<>> >>) }

(* Two nodes relate an employee and delete it: the four calls form a cycle. *)
FourCalls == {W("project", << <<Relate(0), Delete(0)>>, <<Relate(0), Delete(0)>>, <<>> >>)}

OpsIn(workloads) ==
  UNION {UNION {Range(w.files[n]) : n \in DOMAIN w.files} : w \in workloads}

MixedOps == OpsIn(Mixed)
FourCallsOps == OpsIn(FourCalls)
=============================================================================
