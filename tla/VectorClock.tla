---------------------------- MODULE VectorClock ----------------------------
(***************************************************************************)
(* The comparison every use case of the benchmark implements with the same *)
(* text (wellcoordination/benchmark/set.hpp and its siblings): 0 when vc1  *)
(* is causally before (or equal to) vc2, 2 when it is causally after, 1    *)
(* when the two are concurrent.  A clock is a function on the nodes.       *)
(***************************************************************************)
EXTENDS Naturals

BeforeOrEqual == 0
Concurrent    == 1
After         == 2

compareVectorClocks(vc1, vc2) ==
  IF \A i \in DOMAIN vc1 : vc1[i] <= vc2[i] THEN BeforeOrEqual
  ELSE IF \A i \in DOMAIN vc1 : vc1[i] >= vc2[i] THEN After
  ELSE Concurrent

IsAfter(c, d) == compareVectorClocks(c.vc, d.vc) = After
=============================================================================
