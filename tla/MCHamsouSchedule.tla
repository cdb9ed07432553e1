-------------------------- MODULE MCHamsouSchedule --------------------------
(***************************************************************************)
(* One schedule of the protocol with movie.hpp, too long for a search: who *)
(* takes the next step is given, all else is the protocol's.  No           *)
(* acknowledgement overtakes its call.                                     *)
(*                                                                         *)
(* Node 1 issues a filler and later an AddMovie, node 2 the calls          *)
(* DeleteCustomer, AddCustomer, DeleteMovie, node 3 a DeleteMovie.  Node 2 *)
(* issues its last call before it acknowledges the DeleteMovie of node 3.  *)
(* At node 1, AddCustomer and with it the DeleteMovie of node 2 are queued *)
(* when node 3's DeleteMovie becomes stable and AddMovie is issued.  At    *)
(* node 3, AddMovie is queued behind node 3's DeleteMovie until both       *)
(* DeleteMovies are stable.                                                *)
(***************************************************************************)
EXTENDS HamsouProperties, UseCases

VARIABLE step

call(type) == [type |-> type, value1 |-> 1]
MovieOp == {call(type) : type \in MovieMethods}
TwoTables ==
  {<< <<call("DeleteMovie"), call("AddMovie")>>,
      <<call("DeleteCustomer"), call("AddCustomer"), call("DeleteMovie")>>,
      <<call("DeleteMovie")>> >>}

(* <<n, n>>: the main thread of n; <<n, m>>: n takes a message of m. *)
Schedule ==
  << <<1, 1>>, <<1, 1>>,                                      \* the filler
     <<2, 2>>, <<2, 2>>, <<2, 2>>,                            \* DeleteCustomer
     <<3, 3>>, <<3, 2>>, <<3, 3>>, <<3, 3>>, <<3, 1>>, <<3, 3>>,
     <<2, 1>>, <<2, 3>>, <<1, 3>>, <<1, 2>>, <<1, 1>>, <<1, 1>>,
     <<1, 3>>, <<1, 3>>, <<2, 3>>, <<2, 3>>, <<2, 1>>, <<2, 1>>,
     <<2, 2>>, <<2, 2>>, <<2, 2>>, <<2, 2>>,                  \* to the last acknowledgement
     <<3, 1>>, <<3, 1>>, <<3, 2>>, <<3, 2>>, <<3, 2>>,
     <<1, 2>>, <<1, 2>>, <<1, 2>>, <<1, 2>>, <<1, 1>>,        \* AddMovie
     <<1, 1>>, <<1, 1>>, <<3, 1>>, <<3, 1>>, <<3, 1>>, <<3, 2>>,
     <<3, 3>>, <<3, 3>>, <<3, 3>>, <<2, 1>>, <<2, 2>>,
     <<1, 2>>, <<1, 3>>, <<1, 3>>, <<1, 3>>, <<3, 2>> >>

(* A step that is next in the schedule, or the receiver finishing what it does. *)
ScheduledNext ==
  \/ /\ step \in DOMAIN Schedule
     /\ LET n == Schedule[step][1]  m == Schedule[step][2] IN
        IF m = n THEN Main(n) ELSE ReceiveCall(n, m) \/ ReceiveAck(n, m)
     /\ step' = step + 1
  \/ /\ \E n \in Node : ExecuteRemote(n) \/ RecordAck(n) \/ DrainQueue(n)
     /\ UNCHANGED step

ScheduledSpec == Init /\ step = 1 /\ [][ScheduledNext]_<<vars, step>>
=============================================================================
