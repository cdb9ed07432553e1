------------------------------ MODULE MCHamsou ------------------------------
(***************************************************************************)
(* Small instances of the protocol with the set (set.hpp).  All calls are  *)
(* about one element: an add has to come before a concurrent remove.       *)
(***************************************************************************)
EXTENDS HamsouProperties, UseCases

AddX    == [type |-> "Add", value1 |-> 1]
RemoveX == [type |-> "Remove", value1 |-> 1]
SetOp == {AddX, RemoveX}

(***************************************************************************)
(* A node that alternates, a second one that adds in between and a third   *)
(* one that only listens: calls are refused, queued, overtaken in the      *)
(* queue, put before others, and acknowledged early.                       *)
(***************************************************************************)
Overtake == {<< <<RemoveX, AddX, RemoveX>>, <<AddX>>, <<>> >>}

(* An add that a second node issues between two removes of the first. *)
Between == {<< <<RemoveX, RemoveX>>, <<AddX>>, <<>> >>}

(* One node issues all calls. *)
OneIssuer == {<< <<RemoveX, AddX, RemoveX>>, <<>>, <<>> >>}
=============================================================================
