--------------------------- MODULE MCHamsouObject ---------------------------
(***************************************************************************)
(* Two nodes that replicate a small object.                                *)
(***************************************************************************)
EXTENDS HamsouObject, UseCases

(* Up to two calls at each node, whatever they are. *)
UpToTwo(op) == [1..2 -> UNION {[1..k -> op] : k \in 0..2}]

Project == {[type |-> "AddProject", value1 |-> 1],
            [type |-> "DeleteProject", value1 |-> 1],
            [type |-> "WorksOn", value1 |-> 1, value2 |-> 1]}
ProjectWorkloads == UpToTwo(Project)

(* What these calls make of the empty project. *)
ProjectStates ==
  [project_ids : SUBSET {1}, employee_ids : {{}}, works : SUBSET {<<1, 1>>}]
=============================================================================
