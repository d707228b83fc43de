-------------------------- MODULE RoomPartitionsMC --------------------------
(* Who connects, in which order of ConnectionId, and what else happens.    *)
EXTENDS NativeGrants

CONSTANTS a, b, d

Reconnecting == <<a, b, a, d, b, a>>

\* Placement: all connections, without leases.
Placing == [conns |-> Conns, expiries |-> {}, time |-> 0, revisions |-> 0, tasks |-> 0,
            credit |-> 0]

\* Leases: of one connection that lasts, of one that is taken over, of two that
\* end together.
Leasing ==
  {[Placing EXCEPT !.conns = {1}, !.expiries = {2, 4}, !.time = 4, !.revisions = 3],
   [Placing EXCEPT !.conns = {1, 3}, !.expiries = {1, 3}, !.time = 3, !.revisions = 2],
   [Placing EXCEPT !.conns = {1, 2}, !.expiries = {2}, !.time = 3, !.revisions = 1]}

\* Deletions and cutoffs: two with credit for both or for one, and one of a
\* connection that is taken over.
Cutting ==
  {[Placing EXCEPT !.conns = {1}, !.expiries = {3}, !.tasks = 2, !.credit = n] : n \in {1, 2}}
    \cup {[Placing EXCEPT !.conns = {1, 3}, !.expiries = {3}, !.tasks = 1, !.credit = 1]}

Scenarios == {Placing} \cup Leasing \cup Cutting
=============================================================================
