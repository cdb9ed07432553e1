----------------------------- MODULE CallQueue -----------------------------
(***************************************************************************)
(* Handler::priorityQueue: a std::priority_queue of received calls that    *)
(* wait for an unstable conflicting predecessor.  Its comparator takes     *)
(* "not causally before" for "less", which is no strict weak order:        *)
(* concurrent calls are less than each other.  What top() returns is then  *)
(* fixed only by the binary heap of the library, so the heap is modelled   *)
(* as it works: a sequence whose element i has the children 2i and 2i+1    *)
(* (std::push_heap and std::pop_heap as libstdc++ defines them).           *)
(***************************************************************************)
EXTENDS Integers, Sequences, VectorClock

Less(c, d) == compareVectorClocks(c.vc, d.vc) > 0

Top(q) == q[1]

(* The positions from p up to the root: p, its parent, and so on. *)
PathUp(p) ==
  {i \in 1..p : \A S \in SUBSET (1..p) :
     p \in S /\ (\A k \in S \ {1} : k \div 2 \in S) => i \in S}

(***************************************************************************)
(* q with c carried from the hole at p towards the root as long as the     *)
(* parent is less than c; the parents it passes move down.                 *)
(***************************************************************************)
SiftUp(q, p, c) ==
  LET passes(i) == i # 1 /\ Less(q[i \div 2], c)
      visited == {i \in PathUp(p) : \A r \in PathUp(p) : r > i => passes(r)}
  IN [i \in 1..Len(q) |-> IF i \notin visited THEN q[i]
                          ELSE IF passes(i) THEN q[i \div 2] ELSE c]

Push(q, c) == SiftUp(Append(q, c), Len(q) + 1, c)

(* The child std::__adjust_heap moves up into the hole at i. *)
BiggerChild(q, i) ==
  IF 2*i + 1 > Len(q) \/ Less(q[2*i + 1], q[2*i]) THEN 2*i ELSE 2*i + 1

(* The positions from the root down to a leaf, by bigger children. *)
PathDown(q) ==
  {i \in 1..Len(q) : \A S \in SUBSET (1..Len(q)) :
     1 \in S /\ (\A k \in S : 2*k <= Len(q) => BiggerChild(q, k) \in S) => i \in S}

(* Mutant of Pop: the executed call stays in the queue. *)
MutKeepTop(q) == q

(***************************************************************************)
(* The root is removed, the bigger children move up along one path and the *)
(* last element is sifted up from the leaf where that path ends.           *)
(***************************************************************************)
Pop(q) ==
  LET m == Len(q) - 1
      r == SubSeq(q, 1, m)
      path == PathDown(r)
      leaf == CHOOSE i \in path : 2*i > m
      shifted == [i \in 1..m |-> IF i \in path \ {leaf} THEN r[BiggerChild(r, i)] ELSE r[i]]
  IN IF m = 0 THEN <<>> ELSE SiftUp(shifted, leaf, q[m + 1])
=============================================================================
