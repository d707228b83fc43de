---------------------------- MODULE RoomInvariant ----------------------------
(***************************************************************************)
(* What holds of the placement of a room in every state: each participant  *)
(* holds at most one place, the counters of the partitions count the       *)
(* holders, the claimants of a reservation are the materialisations in     *)
(* flight, and a participant is placed while it has a current connection.  *)
(* The proofs carry PlaceInv through every step.                           *)
(***************************************************************************)
EXTENDS RoomPartitions

-----------------------------------------------------------------------------
(* The facts about finite sets that the proofs use.  They are hypotheses   *)
(* of the lemmas, so that the library which proves them need not be in     *)
(* scope of every step; CountingHolds discharges them.                     *)

\* Subsets.
CountsSubsets ==
  \A S : IsFiniteSet(S) =>
    /\ Cardinality(S) \in Nat
    /\ \A T \in SUBSET S : /\ IsFiniteSet(T) /\ Cardinality(T) \in Nat
                           /\ Cardinality(T) <= Cardinality(S)
                           /\ Cardinality(S \ T) = Cardinality(S) - Cardinality(T)

\* None and one.
CountsFew ==
  /\ Cardinality({}) = 0 /\ \A x : Cardinality({x}) = 1
  /\ \A S : IsFiniteSet(S) /\ Cardinality(S) = 0 => S = {}

\* One more, and one less.
CountsNext ==
  \A S, x : IsFiniteSet(S) =>
    /\ x \notin S => Cardinality(S \cup {x}) = Cardinality(S) + 1
    /\ x \in S => Cardinality(S \ {x}) = Cardinality(S) - 1

\* Ranges of positions, and sets matched one to one.
CountsMatched ==
  /\ \A n \in Nat : IsFiniteSet(1 .. n)
  /\ \A S, T, f : /\ IsFiniteSet(S) /\ f \in [S -> T]
                  /\ \A x, y \in S : f[x] = f[y] => x = y
                  /\ \A y \in T : \E x \in S : f[x] = y
                  => Cardinality(T) = Cardinality(S)

Counting == CountsSubsets /\ CountsFew /\ CountsNext /\ CountsMatched

-----------------------------------------------------------------------------
(* Who holds a place.  A participant holds one place, by being placed, by  *)
(* a reservation, or by both for the same partition.                       *)

Partition == [shard : Shards, occupants : Nat]

Holders(placed, claimed, i) == {p \in Participants : placed[p] = i \/ claimed[p] = i}

\* One place per participant, in a partition that exists.
OnePlace(placed, claimed, partitions) ==
  /\ placed \in [Participants -> Nat] /\ claimed \in [Participants -> Nat]
  /\ partitions \in Seq(Partition)
  /\ \A p \in Participants :
       /\ placed[p] # None => placed[p] \in 1 .. Len(partitions)
       /\ claimed[p] # None => claimed[p] \in 1 .. Len(partitions)
       /\ placed[p] # None /\ claimed[p] # None => placed[p] = claimed[p]

\* The counters count the holders.
Counted(placed, claimed, partitions) ==
  \A i \in 1 .. Len(partitions) :
    /\ partitions[i].occupants = Cardinality(Holders(placed, claimed, i))
    /\ partitions[i].occupants <= Capacity

\* Those who hold a place before and not after are taken off the counter.
TakenOff(placed, claimed, partitions, stays, keeps, next) ==
  \A i \in 1 .. Len(partitions) :
    LET n == Cardinality(Holders(placed, claimed, i) \ Holders(stays, keeps, i))
    IN  next[i].occupants = IF partitions[i].occupants < n THEN 0 ELSE partitions[i].occupants - n

-----------------------------------------------------------------------------
(* RoomShard.                                                              *)

Rooms ==
  [placed : [Participants -> Nat], claimed : [Participants -> Nat],
   claimants : [Participants -> SUBSET Conns], partitions : Seq(Partition)]

\* A reservation lasts as long as it has claimants.
RoomSound(R) ==
  /\ R \in Rooms
  /\ OnePlace(R.placed, R.claimed, R.partitions)
  /\ Counted(R.placed, R.claimed, R.partitions)
  /\ \A p \in Participants : R.claimed[p] = None <=> R.claimants[p] = {}

Held(R, p) == R.placed[p] # None \/ R.claimed[p] # None

\* What the operations do to a sound room.
SameCells(R, next) ==
  /\ Len(next.partitions) = Len(R.partitions)
  /\ \A j \in 1 .. Len(R.partitions) : next.partitions[j].shard = R.partitions[j].shard

Reserving(R, next, p, c, i) ==
  /\ RoomSound(next) /\ next.placed = R.placed
  /\ next.claimed = [R.claimed EXCEPT ![p] = i]
  /\ next.claimants = [R.claimants EXCEPT ![p] = @ \cup {c}]

Placing(R, next, p) ==
  /\ RoomSound(next) /\ next.placed = [R.placed EXCEPT ![p] = R.claimed[p]]
  /\ next.claimed = R.claimed /\ next.claimants = R.claimants
  /\ next.partitions = R.partitions

Releasing(R, next, p, c) ==
  /\ RoomSound(next) /\ next.placed = R.placed
  /\ next.claimants = [R.claimants EXCEPT ![p] = @ \ {c}]
  /\ next.claimed = [R.claimed EXCEPT ![p] = IF R.claimants[p] = {c} THEN None ELSE @]
  /\ SameCells(R, next)

Removing(R, next, gone) ==
  /\ RoomSound(next)
  /\ next.placed = [p \in Participants |-> IF p \in gone THEN None ELSE R.placed[p]]
  /\ next.claimants = R.claimants /\ next.claimed = R.claimed
  /\ SameCells(R, next)

-----------------------------------------------------------------------------
(* Placement.  The claimants of a reservation are the materialisations in  *)
(* flight of the participant, and a participant is placed exactly while it *)
(* has a current connection.                                               *)

Claimants(p) == {c \in Conns : Owner[c] = p /\ phase[c] = "pending"}

PlaceInv ==
  /\ RoomSound(room)
  /\ current \in [Participants -> Nat] /\ home \in [Participants -> Shards \cup {None}]
  /\ phase \in [Conns -> {"new", "pending", "done"}]
  /\ place \in [Conns -> [slot : Nat, shard : Shards \cup {None}]]
  /\ \A p \in Participants :
       /\ current[p] = None <=> room.placed[p] = None
       /\ room.claimants[p] = Claimants(p)
       /\ current[p] # None =>
            /\ current[p] \in Conns /\ Owner[current[p]] = p /\ phase[current[p]] = "done"
            /\ home[p] = room.partitions[room.placed[p]].shard
  /\ \A c \in Conns : phase[c] = "pending" =>
       /\ place[c].slot = room.claimed[Owner[c]]
       /\ place[c].shard = room.partitions[room.claimed[Owner[c]]].shard

\* Whoever still has a place finds the partitions on the shards they were on.
SameShards(R, next) ==
  (\E q \in Participants : Held(next, q)) =>
    \A i \in 1 .. Len(R.partitions) : next.partitions[i].shard = R.partitions[i].shard

\* The entries of a participant and of a connection, over the partitions ps.
CurrentAt(q, ps) ==
  /\ current[q] = None <=> room.placed[q] = None
  /\ room.claimants[q] = Claimants(q)
  /\ current[q] # None =>
       /\ current[q] \in Conns /\ Owner[current[q]] = q /\ phase[current[q]] = "done"
       /\ home[q] = ps[room.placed[q]].shard

PendingAt(c, ps) ==
  phase[c] = "pending" =>
    place[c].slot = room.claimed[Owner[c]] /\ place[c].shard = ps[room.claimed[Owner[c]]].shard

PlaceTypes ==
  /\ current \in [Participants -> Nat] /\ home \in [Participants -> Shards \cup {None}]
  /\ phase \in [Conns -> {"new", "pending", "done"}]
  /\ place \in [Conns -> [slot : Nat, shard : Shards \cup {None}]]
=============================================================================
