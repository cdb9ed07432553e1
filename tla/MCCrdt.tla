------------------------------- MODULE MCCrdt -------------------------------
(* Small clusters of every message-passing CRDT. *)
EXTENDS CrdtProperties

U(v) == [type |-> "Update", value1 |-> v]
R == [type |-> "Read"]

W(u, f) == [useCase |-> u, files |-> f]

(* Concurrent updates everywhere, and a node that reads after it updates. *)
Concurrent == {
  W("counter", << <<U(1)>>, <<U(2)>>, <<>> >>),
  W("gset", << <<U(1)>>, <<>>, <<U(1)>> >>),
  W("reg", << <<U(5), R>>, <<U(7)>>, <<>> >>) }
=============================================================================
