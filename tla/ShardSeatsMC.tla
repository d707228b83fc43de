---------------------------- MODULE ShardSeatsMC ----------------------------
(***************************************************************************)
(* Instances of ShardSeats.  Connections 1 and 2 are of one participant, 3 *)
(* is of another and uses the route of 1 again.                            *)
(***************************************************************************)
EXTENDS ShardSeats, TLC

MCOwner == <<"a", "a", "b">>
MCIngress == <<[route |-> "r1", epoch |-> 1], [route |-> "r2", epoch |-> 1],
               [route |-> "r1", epoch |-> 2]>>

\* Four sources share a cache of three, with two places for a route, while two
\* connections follow each other on a route.
Addresses ==
  [conns |-> {1, 3}, sources |-> Sources, time |-> 0, delays |-> {1},
   names |-> {MCIngress[1], MCIngress[3], [route |-> "far", epoch |-> 1]}]

\* Three connections for as long as it takes the wheel to turn, and deadlines from
\* now to two ticks ahead, on a tick and between two.
Timers == [conns |-> Conns, sources |-> {}, time |-> 12, delays |-> {0, 1, 2, 4},
           names |-> {}]

Scenarios == {Addresses, Timers}
Interchangeable == Permutations(Sources)
=============================================================================
