--------------------------- MODULE MCHamsouFailure ---------------------------
(***************************************************************************)
(* Small instances of the protocol with crashes, for the set (set.hpp).    *)
(***************************************************************************)
EXTENDS HamsouFailure, UseCases

AddX    == [type |-> "Add", value1 |-> 1]
RemoveX == [type |-> "Remove", value1 |-> 1]
SetOp == {AddX, RemoveX}

(***************************************************************************)
(* Removes and a later add, of one node or of two: where a remove is not   *)
(* stable yet, the add is queued.                                          *)
(***************************************************************************)
RemoveThenAdd ==
  {<< <<RemoveX, RemoveX, AddX>>, <<>>, <<>> >>, << <<RemoveX>>, <<AddX>>, <<>> >>}

(* A call that reaches only some of the nodes. *)
OneCall == {<< <<RemoveX>>, <<>>, <<>> >>}
=============================================================================
