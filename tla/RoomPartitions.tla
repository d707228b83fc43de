--------------------------- MODULE RoomPartitions ---------------------------
(***************************************************************************)
(* Placement of a room's participants: RoomShard's partitions, the         *)
(* reservations that hold a place while a materialisation is in flight,    *)
(* and the registry entry of each participant.  Commits, failures and      *)
(* departures arrive in any order.                                         *)
(*                                                                         *)
(* A connection is a number (ConnectionId is time ordered) and a partition *)
(* index counts from 1.  Which shard an empty partition gets is load       *)
(* dependent, so any shard may be chosen.                                  *)
(***************************************************************************)
EXTENDS Naturals, FiniteSets, Sequences

CONSTANTS
  Participants,
  Shards,
  Owner,      \* sequence of participants: Owner[c] connects with ConnectionId c
  Capacity,   \* room_partition_size
  MaxPending  \* MAX_PENDING_MATERIALIZATIONS

None == 0
NoPlace == [slot |-> None, shard |-> None]
Conns == 1..Len(Owner)

ASSUME PartitionAssumption ==
  /\ IsFiniteSet(Participants)
  /\ Owner \in Seq(Participants)
  /\ Capacity \in Nat \ {0} /\ MaxPending \in Nat

VARIABLES
  room,    \* RoomShard: placed, claimed, claimants, partitions
  current, \* registry: the participant's connection, or None
  home,    \* registry: the shard of the current connection
  phase,   \* [Conns -> {"new", "pending", "done"}]
  place,   \* [Conns -> place of a pending connection: slot and shard]
  fenced   \* pending connections overtaken by a newer commit

vars == <<room, current, home, phase, place, fenced>>

-----------------------------------------------------------------------------
(* RoomShard.                                                              *)

EmptyRoom ==
  [placed |-> [p \in Participants |-> None],
   claimed |-> [p \in Participants |-> None],
   claimants |-> [p \in Participants |-> {}],
   partitions |-> <<>>]

Spare(R) == {i \in DOMAIN R.partitions : R.partitions[i].occupants < Capacity}

First(S) == {i \in S : \A j \in S : i <= j}

\* Mutant: a pending replacement's place is not looked up.
NextPartitionIndexUnclaimed(R, p) ==
  CASE R.placed[p] # None -> {R.placed[p]}
    [] R.placed[p] = None /\ Spare(R) # {} -> First(Spare(R))
    [] OTHER -> {Len(R.partitions) + 1}

\* The index chosen for p, as a singleton: its own, the one reserved for it, the
\* first with a spare place, or a new one.
NextPartitionIndex(R, p) ==
  CASE R.placed[p] # None -> {R.placed[p]}
    [] R.placed[p] = None /\ R.claimed[p] # None -> {R.claimed[p]}
    [] R.placed[p] = None /\ R.claimed[p] = None /\ Spare(R) # {} -> First(Spare(R))
    [] OTHER -> {Len(R.partitions) + 1}

\* partition_mut: a new partition, or an empty one, takes the shard.
PartitionAt(R, s, i) ==
  LET grown == IF i = Len(R.partitions) + 1
               THEN Append(R.partitions, [shard |-> s, occupants |-> 0])
               ELSE R.partitions
  IN IF grown[i].occupants = 0 THEN [grown EXCEPT ![i].shard = s] ELSE grown

\* n more holders of partition i
Hold(partitions, i, n) == [partitions EXCEPT ![i].occupants = @ + n]

\* saturating_sub
Vacate(partitions, i) ==
  [partitions EXCEPT ![i].occupants = IF @ = 0 THEN 0 ELSE @ - 1]

Reserve(R, p, c, s, i) ==
  LET held == R.placed[p] # None \/ R.claimed[p] # None
  IN [R EXCEPT !.partitions = Hold(PartitionAt(R, s, i), i, IF held THEN 0 ELSE 1),
               !.claimed[p] = IF @ = None THEN i ELSE @,
               !.claimants[p] = @ \cup {c}]

Reserved(R, p, c, s, i) ==
  /\ R.claimed[p] = i /\ c \in R.claimants[p]
  /\ i \in DOMAIN R.partitions
  /\ R.partitions[i].occupants > 0 /\ R.partitions[i].shard = s

\* Mutant: a place released on commit is vacated although it was taken up.
ReleaseVacating(R, p, c) ==
  LET rest == R.claimants[p] \ {c} IN
  IF c \notin R.claimants[p] THEN R
  ELSE IF rest # {} THEN [R EXCEPT !.claimants[p] = rest]
  ELSE [R EXCEPT !.claimed[p] = None, !.claimants[p] = {},
                 !.partitions = Vacate(@, R.claimed[p])]

Release(R, p, c) ==
  LET rest == R.claimants[p] \ {c} IN
  IF c \notin R.claimants[p] THEN R
  ELSE IF rest # {} THEN [R EXCEPT !.claimants[p] = rest]
  ELSE [R EXCEPT !.claimed[p] = None, !.claimants[p] = {},
                 !.partitions = IF R.placed[p] # None THEN @ ELSE Vacate(@, R.claimed[p])]

AddParticipant(R, p, s, i) ==
  [R EXCEPT !.partitions = Hold(PartitionAt(R, s, i), i, IF R.claimed[p] # None THEN 0 ELSE 1),
            !.placed[p] = i]

RemoveParticipant(R, p) ==
  [R EXCEPT !.placed[p] = None,
            !.partitions = IF R.claimed[p] # None THEN @ ELSE Vacate(@, R.placed[p])]

\* An empty room is dropped with its partitions.
Kept(R) ==
  IF \A p \in Participants : R.placed[p] = None /\ R.claimed[p] = None THEN EmptyRoom ELSE R

-----------------------------------------------------------------------------
(* Controller.                                                             *)

Init ==
  /\ room = EmptyRoom
  /\ current = [p \in Participants |-> None]
  /\ home = [p \in Participants |-> None]
  /\ phase = [c \in Conns |-> "new"]
  /\ place = [c \in Conns |-> NoPlace]
  /\ fenced = {}

Pending == {c \in Conns : phase[c] = "pending"}

\* Placement::admit: a participant keeps its shard, a held partition keeps its
\* own, and an empty one gets any.
AdmissionShards(p, i) ==
  CASE current[p] # None -> {home[p]}
    [] current[p] = None /\ i \in DOMAIN room.partitions /\ room.partitions[i].occupants > 0 ->
         {room.partitions[i].shard}
    [] OTHER -> Shards

\* begin_create_participant reserves; start_materialization gives the place back at
\* once if the connection is not newer than the current one.
Begin(c) ==
  /\ phase[c] = "new"
  /\ Cardinality(Pending) < MaxPending
  /\ \E i \in NextPartitionIndex(room, Owner[c]) : \E s \in AdmissionShards(Owner[c], i) :
       LET p == Owner[c]
           reserved == Reserve(room, p, c, s, i)
       IN IF current[p] >= c
          THEN /\ room' = Kept(Release(reserved, p, c))
               /\ phase' = [phase EXCEPT ![c] = "done"]
               /\ UNCHANGED place
          ELSE /\ room' = reserved
               /\ phase' = [phase EXCEPT ![c] = "pending"]
               /\ place' = [place EXCEPT ![c] = [slot |-> i, shard |-> s]]
  /\ UNCHANGED <<current, home, fenced>>

\* commit_candidate's check of the exact claim
Claim(c) == Reserved(room, Owner[c], c, place[c].shard, place[c].slot)

\* finish_materialization: commit_candidate, then release_partition.
Commit(c) ==
  /\ c \in Pending \ fenced /\ current[Owner[c]] < c /\ Claim(c)
  /\ LET p == Owner[c]
         left == IF current[p] # None THEN RemoveParticipant(room, p) ELSE room
     IN /\ room' = Kept(Release(AddParticipant(left, p, place[c].shard, place[c].slot), p, c))
        /\ current' = [current EXCEPT ![p] = c]
        /\ home' = [home EXCEPT ![p] = place[c].shard]
        /\ fenced' = fenced \cup {d \in Pending : Owner[d] = p /\ d < c}
  /\ phase' = [phase EXCEPT ![c] = "done"]
  /\ place' = [place EXCEPT ![c] = NoPlace]

\* finish_materialization: superseded, expired, or not materialised.
Cancel(c) ==
  /\ c \in Pending
  /\ room' = Kept(Release(room, Owner[c], c))
  /\ phase' = [phase EXCEPT ![c] = "done"]
  /\ place' = [place EXCEPT ![c] = NoPlace]
  /\ UNCHANGED <<current, home, fenced>>

\* remove_incarnation
Leave(p) ==
  /\ current[p] # None
  /\ current' = [current EXCEPT ![p] = None]
  /\ home' = [home EXCEPT ![p] = None]
  /\ room' = Kept(RemoveParticipant(room, p))
  /\ UNCHANGED <<phase, place, fenced>>

Next ==
  \/ \E c \in Conns : Begin(c) \/ Commit(c) \/ Cancel(c)
  \/ \E p \in Participants : Leave(p)

Spec == Init /\ [][Next]_vars

-----------------------------------------------------------------------------
(* Properties.                                                             *)

Indices == DOMAIN room.partitions

Occupants(i) == {p \in Participants : room.placed[p] = i \/ room.claimed[p] = i}

\* The occupancy counter of a partition counts exactly the participants placed
\* there or holding a reservation there, each once, and never exceeds
\* room_partition_size, however replacements, commits, failures and departures
\* follow each other.
OccupancyExact ==
  \A i \in Indices :
    /\ room.partitions[i].occupants = Cardinality(Occupants(i))
    /\ room.partitions[i].occupants <= Capacity

\* The claim of a materialisation in flight holds until it is finished, so
\* commit_candidate never refuses one for its place; and what admission chooses next
\* meets the assertions of reserve and partition_mut: a participant stays in its
\* partition, and a held partition on its shard.
ClaimsHonoured ==
  /\ \A c \in Pending : Claim(c)
  /\ \A p \in Participants :
     \A i \in NextPartitionIndex(room, p) : \A s \in AdmissionShards(p, i) :
       /\ i <= Len(room.partitions) + 1
       /\ room.placed[p] \in {None, i} /\ room.claimed[p] \in {None, i}
       /\ i \in Indices /\ room.partitions[i].occupants > 0 => room.partitions[i].shard = s
=============================================================================
