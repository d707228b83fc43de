------------------------- MODULE RoomPartitions_proofs -----------------------
(***************************************************************************)
(* Proofs about the partitions of a room, for any number of participants,  *)
(* connections and shards and every partition size: the operations of a    *)
(* room keep every counter exact, and with them the placement of every     *)
(* participant and the claim of every materialisation stay sound.  They    *)
(* carry OccupancyExact and ClaimsHonoured through every way a participant *)
(* comes and goes.                                                         *)
(***************************************************************************)
EXTENDS RoomInvariant, TLAPS

\* The positions of a sequence.
LEMMA Positions ==
  ASSUME NEW S, NEW q \in Seq(S)
  PROVE  DOMAIN q = 1 .. Len(q)
OBVIOUS

-----------------------------------------------------------------------------
(* Holders.                                                                *)

\* Sets of holders are finite.
LEMMA HoldersFinite ==
  ASSUME Counting, NEW placed, NEW claimed, NEW i
  PROVE  /\ IsFiniteSet(Holders(placed, claimed, i))
         /\ Cardinality(Holders(placed, claimed, i)) \in Nat
<1>1. Holders(placed, claimed, i) \in SUBSET Participants
  BY DEF Holders
<1> QED BY <1>1, PartitionAssumption, Zenon DEF Counting, CountsSubsets

\* A partition that somebody holds is not empty.
LEMMA HeldNotEmpty ==
  ASSUME Counting, NEW placed, NEW claimed, NEW partitions, Counted(placed, claimed, partitions),
         NEW i \in 1 .. Len(partitions), NEW p \in Holders(placed, claimed, i)
  PROVE  partitions[i].occupants \in Nat /\ partitions[i].occupants > 0
<1>1. IsFiniteSet(Holders(placed, claimed, i)) /\ Cardinality(Holders(placed, claimed, i)) \in Nat
  BY HoldersFinite
<1>2. Cardinality(Holders(placed, claimed, i)) # 0
  BY <1>1 DEF Counting, CountsFew
<1> QED BY <1>1, <1>2 DEF Counted

\* A participant without a place takes one in partition i.
LEMMA TakesPlace ==
  ASSUME Counting, NEW placed, NEW claimed, NEW partitions,
         OnePlace(placed, claimed, partitions), Counted(placed, claimed, partitions),
         NEW p \in Participants, placed[p] = None, claimed[p] = None,
         NEW next \in Seq(Partition), NEW i \in 1 .. Len(next),
         Len(partitions) <= Len(next),
         i <= Len(partitions) \/ (i = Len(partitions) + 1 /\ Len(next) = i),
         i <= Len(partitions) =>
           /\ partitions[i].occupants < Capacity /\ next[i].occupants = partitions[i].occupants + 1
           /\ Len(next) = Len(partitions),
         i = Len(partitions) + 1 => next[i].occupants = 1,
         \A j \in 1 .. Len(partitions) : j # i => next[j] = partitions[j]
  PROVE  /\ OnePlace(placed, [claimed EXCEPT ![p] = i], next)
         /\ Counted(placed, [claimed EXCEPT ![p] = i], next)
<1> DEFINE after == [claimed EXCEPT ![p] = i]
<1>1. /\ placed \in [Participants -> Nat] /\ claimed \in [Participants -> Nat]
      /\ Len(partitions) \in Nat /\ Len(next) \in Nat /\ i \in Nat /\ i # None
  BY DEF OnePlace, None
<1>2. after \in [Participants -> Nat] /\ after[p] = i /\ \A q \in Participants : q # p => after[q] = claimed[q]
  BY <1>1
<1> HIDE DEF after
<1>3. OnePlace(placed, after, next)
  <2>1. ASSUME NEW q \in Participants
        PROVE  /\ placed[q] # None => placed[q] \in 1 .. Len(next)
               /\ after[q] # None => after[q] \in 1 .. Len(next)
               /\ placed[q] # None /\ after[q] # None => placed[q] = after[q]
    <3>1. /\ placed[q] # None => placed[q] \in 1 .. Len(partitions)
          /\ claimed[q] # None => claimed[q] \in 1 .. Len(partitions)
          /\ placed[q] # None /\ claimed[q] # None => placed[q] = claimed[q]
      BY DEF OnePlace
    <3>2. CASE q = p
      BY <1>1, <1>2, <3>1, <3>2
    <3>3. CASE q # p
      BY <1>1, <1>2, <3>1, <3>3
    <3> QED BY <3>2, <3>3
  <2> QED BY <1>1, <1>2, <2>1 DEF OnePlace
<1>4. ASSUME NEW j \in 1 .. Len(next), j # i
      PROVE  Holders(placed, after, j) = Holders(placed, claimed, j)
  <2>1. j # None
    BY DEF None
  <2>2. ASSUME NEW q \in Participants
        PROVE  (placed[q] = j \/ after[q] = j) <=> (placed[q] = j \/ claimed[q] = j)
    BY <1>2, <1>4, <2>1
  <2> QED BY <2>2 DEF Holders
<1>5. Holders(placed, after, i) = Holders(placed, claimed, i) \cup {p}
  <2>1. ASSUME NEW q \in Participants
        PROVE  (placed[q] = i \/ after[q] = i) <=> (placed[q] = i \/ claimed[q] = i \/ q = p)
    BY <1>2
  <2> QED BY <2>1 DEF Holders
<1>6. p \notin Holders(placed, claimed, i)
  BY <1>1 DEF Holders
<1>7. Cardinality(Holders(placed, after, i)) = Cardinality(Holders(placed, claimed, i)) + 1
  BY <1>5, <1>6, HoldersFinite, SMTT(30) DEF Counting, CountsNext
<1>8. ASSUME NEW j \in 1 .. Len(next)
      PROVE  next[j].occupants = Cardinality(Holders(placed, after, j)) /\ next[j].occupants <= Capacity
  <2>1. CASE j # i
    <3>1. j \in 1 .. Len(partitions) /\ next[j] = partitions[j]
      BY <1>1, <2>1
    <3> QED BY <1>4, <2>1, <3>1 DEF Counted
  <2>2. CASE j = i /\ i <= Len(partitions)
    <3>1. i \in 1 .. Len(partitions) /\ partitions[i].occupants \in Nat
      <4>1. i \in 1 .. Len(partitions) /\ partitions \in Seq(Partition)
        BY <1>1, <2>2 DEF OnePlace
      <4>2. partitions[i] \in Partition
        BY <4>1
      <4> QED BY <4>1, <4>2 DEF Partition
    <3>2. next[i].occupants <= Capacity
      BY <2>2, <3>1, PartitionAssumption
    <3> QED BY <1>7, <2>2, <3>1, <3>2 DEF Counted
  <2>3. CASE j = i /\ i = Len(partitions) + 1
    <3>1. Holders(placed, claimed, i) = {}
      BY <1>1, <2>3 DEF OnePlace, Holders
    <3>2. Cardinality(Holders(placed, after, i)) = 1
      BY <1>7, <3>1 DEF Counting, CountsFew
    <3> QED BY <2>3, <3>2, PartitionAssumption
  <2> QED BY <2>1, <2>2, <2>3
<1> QED BY <1>3, <1>8, Zenon DEF Counted, after

\* Some holders give up their places, and the counters still count.
LEMMA GivesPlaces ==
  ASSUME Counting, NEW placed, NEW claimed, NEW partitions,
         OnePlace(placed, claimed, partitions), Counted(placed, claimed, partitions),
         NEW next \in Seq(Partition), Len(next) = Len(partitions),
         NEW stays \in [Participants -> Nat], NEW keeps \in [Participants -> Nat],
         \A p \in Participants : stays[p] \in {None, placed[p]} /\ keeps[p] \in {None, claimed[p]},
         TakenOff(placed, claimed, partitions, stays, keeps, next)
  PROVE  OnePlace(stays, keeps, next) /\ Counted(stays, keeps, next)
<1>1. OnePlace(stays, keeps, next)
  BY DEF OnePlace
<1>2. ASSUME NEW i \in 1 .. Len(next)
      PROVE  next[i].occupants = Cardinality(Holders(stays, keeps, i)) /\ next[i].occupants <= Capacity
  <2> DEFINE all == Holders(placed, claimed, i)
             left == Holders(stays, keeps, i)
             gone == all \ left
  <2>1. i \in 1 .. Len(partitions) /\ i # None
    BY DEF None
  <2>2. left \subseteq all
    BY <2>1 DEF Holders
  <2>3. /\ next[i].occupants = IF partitions[i].occupants < Cardinality(gone) THEN 0
                               ELSE partitions[i].occupants - Cardinality(gone)
        /\ partitions[i].occupants = Cardinality(all) /\ partitions[i].occupants <= Capacity
    BY <2>1 DEF Counted, TakenOff
  <2>4. IsFiniteSet(all) /\ Cardinality(all) \in Nat /\ Cardinality(left) \in Nat
    BY HoldersFinite
  <2> HIDE DEF all, left
  <2>5. /\ Cardinality(gone) = Cardinality(all) - Cardinality(left)
        /\ Cardinality(left) <= Cardinality(all)
    BY <2>2, <2>4, Zenon DEF Counting, CountsSubsets
  <2>6. next[i].occupants = Cardinality(left)
    <3> HIDE DEF gone
    <3>1. ~(Cardinality(all) < Cardinality(gone))
      BY <2>4, <2>5
    <3>2. next[i].occupants = Cardinality(all) - Cardinality(gone)
      BY <2>3, <3>1
    <3> QED BY <2>4, <2>5, <3>2
  <2> QED BY <2>3, <2>4, <2>5, <2>6, PartitionAssumption DEF left
<1> QED BY <1>1, <1>2 DEF Counted

-----------------------------------------------------------------------------
(* The operations of a room.                                               *)

\* One entry of a sequence is replaced.
LEMMA SetEntry ==
  ASSUME NEW S, NEW ps \in Seq(S), NEW i \in 1 .. Len(ps), NEW e \in S
  PROVE  /\ [ps EXCEPT ![i] = e] \in Seq(S)
         /\ Len([ps EXCEPT ![i] = e]) = Len(ps)
         /\ [ps EXCEPT ![i] = e][i] = e
         /\ \A j \in 1 .. Len(ps) : j # i => [ps EXCEPT ![i] = e][j] = ps[j]
OBVIOUS

\* n more holders.
LEMMA HoldFacts ==
  ASSUME NEW ps \in Seq(Partition), NEW i \in 1 .. Len(ps), NEW n \in Nat
  PROVE  /\ Hold(ps, i, n) \in Seq(Partition) /\ Len(Hold(ps, i, n)) = Len(ps)
         /\ Hold(ps, i, n)[i].occupants = ps[i].occupants + n
         /\ Hold(ps, i, n)[i].shard = ps[i].shard
         /\ \A j \in 1 .. Len(ps) : j # i => Hold(ps, i, n)[j] = ps[j]
         /\ n = 0 => Hold(ps, i, n) = ps
<1> DEFINE e == [ps[i] EXCEPT !.occupants = @ + n]
<1>1. ps[i] \in Partition
  OBVIOUS
<1>2. e \in Partition /\ e.occupants = ps[i].occupants + n /\ e.shard = ps[i].shard
  BY <1>1, SMTT(30) DEF Partition
<1>3. Hold(ps, i, n) = [ps EXCEPT ![i] = e]
  BY DEF Hold
<1>4. n = 0 => e = ps[i]
  BY <1>1 DEF Partition
<1> HIDE DEF e
<1>5. [ps EXCEPT ![i] = ps[i]] = ps
  OBVIOUS
<1> QED BY <1>2, <1>3, <1>4, <1>5, SetEntry

\* A holder less.
LEMMA VacateFacts ==
  ASSUME NEW ps \in Seq(Partition), NEW i \in 1 .. Len(ps)
  PROVE  /\ Vacate(ps, i) \in Seq(Partition) /\ Len(Vacate(ps, i)) = Len(ps)
         /\ Vacate(ps, i)[i].occupants = IF ps[i].occupants < 1 THEN 0 ELSE ps[i].occupants - 1
         /\ \A j \in 1 .. Len(ps) : Vacate(ps, i)[j].shard = ps[j].shard
         /\ \A j \in 1 .. Len(ps) : j # i => Vacate(ps, i)[j] = ps[j]
<1> DEFINE e == [ps[i] EXCEPT !.occupants = IF @ = 0 THEN 0 ELSE @ - 1]
<1>1. ps[i] \in Partition
  OBVIOUS
<1>2. /\ e \in Partition /\ e.shard = ps[i].shard
      /\ e.occupants = IF ps[i].occupants < 1 THEN 0 ELSE ps[i].occupants - 1
  BY <1>1 DEF Partition
<1>3. Vacate(ps, i) = [ps EXCEPT ![i] = e]
  BY DEF Vacate
<1> HIDE DEF e
<1> QED BY <1>2, <1>3, SetEntry

\* The partition a place is taken in.
LEMMA PartitionAtFacts ==
  ASSUME NEW R, R.partitions \in Seq(Partition),
         NEW i \in 1 .. Len(R.partitions) + 1, NEW s \in Shards
  PROVE  LET at == PartitionAt(R, s, i) IN
         /\ at \in Seq(Partition) /\ i \in 1 .. Len(at)
         /\ i <= Len(R.partitions) => Len(at) = Len(R.partitions) /\ at[i].occupants = R.partitions[i].occupants
         /\ i = Len(R.partitions) + 1 => Len(at) = i /\ at[i].occupants = 0
         /\ at[i].shard = IF i <= Len(R.partitions) /\ R.partitions[i].occupants # 0 THEN R.partitions[i].shard ELSE s
         /\ \A j \in 1 .. Len(R.partitions) : j # i => at[j] = R.partitions[j]
         /\ i <= Len(R.partitions) /\ R.partitions[i].occupants # 0 => at = R.partitions
<1> DEFINE ps == R.partitions
           new == [shard |-> s, occupants |-> 0]
           grown == IF i = Len(ps) + 1 THEN Append(ps, new) ELSE ps
           e == [grown[i] EXCEPT !.shard = s]
<1>1. new \in Partition /\ new.occupants = 0 /\ Len(ps) \in Nat
  BY DEF Partition
<1>2. PartitionAt(R, s, i) = IF grown[i].occupants = 0 THEN [grown EXCEPT ![i] = e] ELSE grown
  BY DEF PartitionAt
<1>a. ps \in Seq(Partition) /\ i \in 1 .. Len(ps) + 1
  OBVIOUS
<1> HIDE DEF new
<1>3. /\ grown \in Seq(Partition) /\ i \in 1 .. Len(grown)
      /\ i <= Len(ps) => Len(grown) = Len(ps) /\ grown = ps
      /\ i = Len(ps) + 1 => Len(grown) = i /\ grown[i] = new
      /\ \A j \in 1 .. Len(ps) : j \in 1 .. Len(grown) /\ (j # i => grown[j] = ps[j])
  <2>1. CASE i = Len(ps) + 1
    BY <1>1, <1>a, <2>1
  <2>2. CASE i # Len(ps) + 1
    BY <1>1, <1>a, <2>2
  <2> QED BY <2>1, <2>2
<1> HIDE DEF grown
<1>4. grown[i] \in Partition
  BY <1>3
<1>5. e \in Partition /\ e.shard = s /\ e.occupants = grown[i].occupants
  BY <1>4, Zenon DEF Partition
<1> HIDE DEF e
<1>6. CASE grown[i].occupants = 0
  <2>1. PartitionAt(R, s, i) = [grown EXCEPT ![i] = e]
    BY <1>2, <1>6
  <2>2. /\ [grown EXCEPT ![i] = e] \in Seq(Partition)
        /\ Len([grown EXCEPT ![i] = e]) = Len(grown) /\ [grown EXCEPT ![i] = e][i] = e
        /\ \A j \in 1 .. Len(grown) : j # i => [grown EXCEPT ![i] = e][j] = grown[j]
    BY <1>3, <1>5, SetEntry
  <2> QED BY <1>1, <1>3, <1>5, <1>6, <2>1, <2>2, Zenon
<1>7. CASE grown[i].occupants # 0
  <2>1. PartitionAt(R, s, i) = grown
    BY <1>2, <1>7
  <2>2. i <= Len(ps)
    BY <1>1, <1>3, <1>7
  <2> QED BY <1>1, <1>3, <1>7, <2>1, <2>2
<1> QED BY <1>6, <1>7

\* An empty room is dropped with its partitions; nobody holds one of them.
LEMMA KeptFacts ==
  ASSUME NEW R, RoomSound(R)
  PROVE  /\ RoomSound(Kept(R))
         /\ Kept(R).placed = R.placed /\ Kept(R).claimed = R.claimed
         /\ Kept(R).claimants = R.claimants
         /\ \A p \in Participants : Held(R, p) => Kept(R).partitions = R.partitions
<1>1. CASE \E p \in Participants : Held(R, p)
  <2>1. Kept(R) = R
    BY <1>1 DEF Kept, Held
  <2> QED BY <2>1
<1>2. CASE \A p \in Participants : ~Held(R, p)
  <2>1. Kept(R) = EmptyRoom
    BY <1>2 DEF Kept, Held
  <2>2. /\ R.placed \in [Participants -> Nat] /\ R.claimed \in [Participants -> Nat]
        /\ R.claimants \in [Participants -> SUBSET Conns]
    BY DEF RoomSound, Rooms
  <2>3. \A p \in Participants : R.placed[p] = None /\ R.claimed[p] = None /\ R.claimants[p] = {}
    BY <1>2 DEF Held, RoomSound
  <2>4. /\ EmptyRoom.placed = R.placed /\ EmptyRoom.claimed = R.claimed
        /\ EmptyRoom.claimants = R.claimants /\ EmptyRoom.partitions = <<>>
    BY <2>2, <2>3, Zenon DEF EmptyRoom
  <2>5. <<>> \in Seq(Partition) /\ 1 .. Len(<<>>) = {}
    OBVIOUS
  <2>6. EmptyRoom \in Rooms
    BY <2>2, <2>4, <2>5 DEF EmptyRoom, Rooms, None
  <2>7. RoomSound(EmptyRoom)
    BY <2>2, <2>3, <2>4, <2>5, <2>6 DEF RoomSound, OnePlace, Counted
  <2> QED BY <1>2, <2>1, <2>4, <2>7
<1> QED BY <1>1, <1>2

\* The fields of a sound room.
LEMMA SoundFields ==
  ASSUME NEW R, RoomSound(R)
  PROVE  /\ R.placed \in [Participants -> Nat] /\ R.claimed \in [Participants -> Nat]
         /\ R.claimants \in [Participants -> SUBSET Conns]
         /\ R.partitions \in Seq(Partition) /\ Len(R.partitions) \in Nat
         /\ DOMAIN R.partitions = 1 .. Len(R.partitions)
BY DEF RoomSound, Rooms

\* reserve for a participant that has a place.
LEMMA ReserveHeld ==
  ASSUME Counting, NEW R, RoomSound(R), NEW p \in Participants, NEW c \in Conns, NEW s \in Shards,
         Held(R, p), NEW i, i = IF R.placed[p] # None THEN R.placed[p] ELSE R.claimed[p]
  PROVE  LET next == Reserve(R, p, c, s, i) IN
         Reserving(R, next, p, c, i) /\ next.partitions = R.partitions
<1> DEFINE next == Reserve(R, p, c, s, i)
<1>1. /\ R.placed \in [Participants -> Nat] /\ R.claimed \in [Participants -> Nat]
      /\ R.claimants \in [Participants -> SUBSET Conns]
      /\ R.partitions \in Seq(Partition)
  BY SoundFields
<1>2. i \in 1 .. Len(R.partitions) /\ p \in Holders(R.placed, R.claimed, i) /\ i \in Nat /\ i # None
      /\ R.claimed[p] \in {None, i}
  BY <1>1 DEF Held, RoomSound, OnePlace, Holders, None
<1>3. R.partitions[i].occupants # 0
  <2>1. R.partitions[i].occupants > 0 /\ R.partitions[i].occupants \in Nat
    BY <1>2, HeldNotEmpty DEF RoomSound
  <2> QED BY <2>1
<1>4. PartitionAt(R, s, i) = R.partitions
  <2>1. i \in 1 .. Len(R.partitions) + 1 /\ i <= Len(R.partitions)
    BY <1>1, <1>2
  <2> QED BY <1>1, <1>3, <2>1, PartitionAtFacts
<1>5. Hold(R.partitions, i, 0) = R.partitions
  <2>1. R.partitions \in Seq(Partition) /\ i \in 1 .. Len(R.partitions) /\ 0 \in Nat
    BY <1>1, <1>2
  <2> QED BY <2>1, HoldFacts, Zenon
<1>6. next = [R EXCEPT !.partitions = R.partitions, !.claimed[p] = i,
                       !.claimants[p] = R.claimants[p] \cup {c}]
  <2>1. (IF R.claimed[p] = None THEN i ELSE R.claimed[p]) = i
    BY <1>2
  <2> QED BY <1>4, <1>5, <2>1, Zenon DEF Reserve, Held
<1>7. /\ next.placed = R.placed /\ next.partitions = R.partitions
      /\ next.claimed = [R.claimed EXCEPT ![p] = i]
      /\ next.claimants = [R.claimants EXCEPT ![p] = @ \cup {c}]
      /\ next \in Rooms
  <2> DEFINE C == R.claimants[p] \cup {c}
             ps == R.partitions
  <2>1. R \in Rooms /\ i \in Nat /\ C \in SUBSET Conns /\ ps \in Seq(Partition)
    BY <1>1, <1>2 DEF RoomSound
  <2>2. /\ next = [R EXCEPT !.partitions = ps, !.claimed[p] = i, !.claimants[p] = C]
        /\ [R.claimants EXCEPT ![p] = @ \cup {c}] = [R.claimants EXCEPT ![p] = C]
        /\ R.partitions = ps
    BY <1>6
  <2> HIDE DEF next, C, ps
  <2>3. LET n == [R EXCEPT !.partitions = ps, !.claimed[p] = i, !.claimants[p] = C] IN
        /\ n \in Rooms /\ n.placed = R.placed /\ n.partitions = ps
        /\ n.claimed = [R.claimed EXCEPT ![p] = i]
        /\ n.claimants = [R.claimants EXCEPT ![p] = C]
    BY <2>1, Zenon DEF Rooms
  <2> QED BY <2>2, <2>3
<1> HIDE DEF next
<1>8. OnePlace(next.placed, next.claimed, next.partitions)
  <2>1. ASSUME NEW q \in Participants
        PROVE  /\ R.placed[q] # None => R.placed[q] \in 1 .. Len(R.partitions)
               /\ next.claimed[q] # None => next.claimed[q] \in 1 .. Len(R.partitions)
               /\ R.placed[q] # None /\ next.claimed[q] # None => R.placed[q] = next.claimed[q]
    <3>1. CASE q = p
      BY <1>1, <1>2, <1>7, <3>1 DEF RoomSound, OnePlace
    <3>2. CASE q # p
      BY <1>1, <1>7, <3>2 DEF RoomSound, OnePlace
    <3> QED BY <3>1, <3>2
  <2>2. next.claimed \in [Participants -> Nat]
    BY <1>1, <1>2, <1>7
  <2> QED BY <1>1, <1>7, <2>1, <2>2 DEF OnePlace
<1>9. Counted(next.placed, next.claimed, next.partitions)
  <2>1. \A q \in Participants : \A j \in 1 .. Len(R.partitions) :
          (next.placed[q] = j \/ next.claimed[q] = j) <=> (R.placed[q] = j \/ R.claimed[q] = j)
    <3> SUFFICES ASSUME NEW q \in Participants, NEW j \in 1 .. Len(R.partitions)
                 PROVE  (next.placed[q] = j \/ next.claimed[q] = j) <=> (R.placed[q] = j \/ R.claimed[q] = j)
      OBVIOUS
    <3>1. CASE q = p
      BY <1>1, <1>2, <1>7, <3>1 DEF Holders, None
    <3>2. CASE q # p
      BY <1>1, <1>7, <3>2
    <3> QED BY <3>1, <3>2
  <2>2. ASSUME NEW j \in 1 .. Len(R.partitions)
        PROVE  Holders(next.placed, next.claimed, j) = Holders(R.placed, R.claimed, j)
    BY <2>1 DEF Holders
  <2> QED BY <1>7, <2>2 DEF RoomSound, Counted
<1>10. ASSUME NEW q \in Participants PROVE next.claimed[q] = None <=> next.claimants[q] = {}
  <2>1. R.claimed[q] = None <=> R.claimants[q] = {}
    BY DEF RoomSound
  <2>2. CASE q = p
    <3>1. next.claimed[p] = i /\ next.claimants[p] = R.claimants[p] \cup {c}
      BY <1>1, <1>7
    <3> QED BY <1>2, <2>2, <3>1
  <2>3. CASE q # p
    BY <1>1, <1>7, <2>1, <2>3, SMTT(30)
  <2> QED BY <2>2, <2>3
<1> QED BY <1>7, <1>8, <1>9, <1>10, Zenon DEF RoomSound, next, Reserving

\* reserve for a participant without a place.
LEMMA ReserveNew ==
  ASSUME Counting, NEW R, RoomSound(R), NEW p \in Participants, NEW c \in Conns, NEW s \in Shards,
         ~Held(R, p), NEW i \in 1 .. Len(R.partitions) + 1,
         i <= Len(R.partitions) => R.partitions[i].occupants < Capacity
  PROVE  LET next == Reserve(R, p, c, s, i) IN
         /\ Reserving(R, next, p, c, i)
         /\ next.partitions[i].shard =
              IF i <= Len(R.partitions) /\ R.partitions[i].occupants # 0 THEN R.partitions[i].shard ELSE s
         /\ \A j \in 1 .. Len(R.partitions) : j # i => next.partitions[j] = R.partitions[j]
<1> DEFINE next == Reserve(R, p, c, s, i)
           at == PartitionAt(R, s, i)
           ps == Hold(at, i, 1)
<1>1. /\ R.placed \in [Participants -> Nat] /\ R.claimed \in [Participants -> Nat]
      /\ R.claimants \in [Participants -> SUBSET Conns]
      /\ R.partitions \in Seq(Partition) /\ Len(R.partitions) \in Nat
  BY SoundFields
<1>2. R.placed[p] = None /\ R.claimed[p] = None /\ i \in Nat /\ i # None
  BY <1>1 DEF Held, None
<1>3. /\ at \in Seq(Partition) /\ i \in 1 .. Len(at)
      /\ i <= Len(R.partitions) => Len(at) = Len(R.partitions) /\ at[i].occupants = R.partitions[i].occupants
      /\ i = Len(R.partitions) + 1 => Len(at) = i /\ at[i].occupants = 0
      /\ at[i].shard = IF i <= Len(R.partitions) /\ R.partitions[i].occupants # 0
                       THEN R.partitions[i].shard ELSE s
      /\ \A j \in 1 .. Len(R.partitions) : j # i => at[j] = R.partitions[j]
  BY <1>1, PartitionAtFacts, SMTT(30)
<1>4. i <= Len(R.partitions) \/ i = Len(R.partitions) + 1
  BY <1>1
<1> HIDE DEF at
<1>5. /\ ps \in Seq(Partition) /\ Len(ps) = Len(at)
      /\ ps[i].occupants = at[i].occupants + 1 /\ ps[i].shard = at[i].shard
      /\ \A j \in 1 .. Len(at) : j # i => ps[j] = at[j]
  BY <1>3, HoldFacts
<1>6. /\ next.placed = R.placed /\ next.partitions = ps
      /\ next.claimed = [R.claimed EXCEPT ![p] = i]
      /\ next.claimants = [R.claimants EXCEPT ![p] = @ \cup {c}]
      /\ next \in Rooms
  <2>1. R \in Rooms /\ R.claimants[p] \cup {c} \in SUBSET Conns
    BY <1>1 DEF RoomSound
  <2> DEFINE C == R.claimants[p] \cup {c}
  <2>2. /\ next = [R EXCEPT !.partitions = ps, !.claimed[p] = i, !.claimants[p] = C]
        /\ [R.claimants EXCEPT ![p] = @ \cup {c}] = [R.claimants EXCEPT ![p] = C]
        /\ C \in SUBSET Conns
    BY <1>2, <2>1 DEF Reserve, at
  <2> HIDE DEF next, ps, C
  <2>3. LET n == [R EXCEPT !.partitions = ps, !.claimed[p] = i, !.claimants[p] = C] IN
        /\ n \in Rooms /\ n.placed = R.placed /\ n.partitions = ps
        /\ n.claimed = [R.claimed EXCEPT ![p] = i]
        /\ n.claimants = [R.claimants EXCEPT ![p] = C]
    BY <1>2, <1>5, <2>1, <2>2, Zenon DEF Rooms
  <2> QED BY <2>2, <2>3
<1> HIDE DEF next, ps
<1>7. /\ Len(R.partitions) <= Len(ps) /\ i \in 1 .. Len(ps)
      /\ i <= Len(R.partitions) => Len(ps) = Len(R.partitions) /\ ps[i].occupants = R.partitions[i].occupants + 1
      /\ i = Len(R.partitions) + 1 => Len(ps) = i /\ ps[i].occupants = 1
      /\ \A j \in 1 .. Len(R.partitions) : j # i => ps[j] = R.partitions[j]
  <2>1. CASE i <= Len(R.partitions)
    BY <1>1, <1>3, <1>5, <2>1
  <2>2. CASE i = Len(R.partitions) + 1
    BY <1>1, <1>3, <1>5, <2>2
  <2> QED BY <1>4, <2>1, <2>2
<1>8. OnePlace(R.placed, next.claimed, ps) /\ Counted(R.placed, next.claimed, ps)
  <2>1. OnePlace(R.placed, R.claimed, R.partitions) /\ Counted(R.placed, R.claimed, R.partitions)
    BY DEF RoomSound
  <2>2. /\ OnePlace(R.placed, [R.claimed EXCEPT ![p] = i], ps)
        /\ Counted(R.placed, [R.claimed EXCEPT ![p] = i], ps)
    BY <1>2, <1>4, <1>5, <1>7, <2>1, TakesPlace, ZenonT(30)
  <2> QED BY <1>6, <2>2
<1>9. ASSUME NEW q \in Participants PROVE next.claimed[q] = None <=> next.claimants[q] = {}
  <2>1. R.claimed[q] = None <=> R.claimants[q] = {}
    BY DEF RoomSound
  <2>2. CASE q = p
    <3>1. next.claimed[p] = i /\ next.claimants[p] = R.claimants[p] \cup {c}
      BY <1>1, <1>6
    <3> QED BY <1>2, <2>2, <3>1
  <2>3. CASE q # p
    BY <1>1, <1>6, <2>1, <2>3
  <2> QED BY <2>2, <2>3
<1> QED BY <1>3, <1>5, <1>6, <1>7, <1>8, <1>9 DEF RoomSound, next, Reserving

\* commit_candidate places a participant where it holds a reservation.
LEMMA AddClaimed ==
  ASSUME Counting, NEW R, RoomSound(R), NEW p \in Participants, NEW s \in Shards,
         R.placed[p] = None, R.claimed[p] # None
  PROVE  Placing(R, AddParticipant(R, p, s, R.claimed[p]), p)
<1> DEFINE i == R.claimed[p]
           next == AddParticipant(R, p, s, i)
<1>1. /\ R.placed \in [Participants -> Nat] /\ R.claimed \in [Participants -> Nat]
      /\ R.claimants \in [Participants -> SUBSET Conns]
      /\ R.partitions \in Seq(Partition)
  BY SoundFields
<1>2. i \in 1 .. Len(R.partitions) /\ p \in Holders(R.placed, R.claimed, i) /\ i \in Nat
  BY <1>1 DEF RoomSound, OnePlace, Holders
<1> HIDE DEF i
<1>3. R.partitions[i].occupants # 0
  <2>1. R.partitions[i].occupants > 0 /\ R.partitions[i].occupants \in Nat
    BY <1>2, HeldNotEmpty DEF RoomSound
  <2> QED BY <2>1
<1>4. PartitionAt(R, s, i) = R.partitions
  <2>1. i \in 1 .. Len(R.partitions) + 1 /\ i <= Len(R.partitions)
    BY <1>1, <1>2
  <2> QED BY <1>1, <1>3, <2>1, PartitionAtFacts, ZenonT(30)
<1>5. Hold(R.partitions, i, 0) = R.partitions
  <2>1. R.partitions \in Seq(Partition) /\ i \in 1 .. Len(R.partitions) /\ 0 \in Nat
    BY <1>1, <1>2
  <2> QED BY <2>1, HoldFacts, Zenon
<1>6. next = [R EXCEPT !.partitions = R.partitions, !.placed[p] = i]
  BY <1>4, <1>5, Zenon DEF AddParticipant
<1>7. /\ next.placed = [R.placed EXCEPT ![p] = i] /\ next.partitions = R.partitions
      /\ next.claimed = R.claimed /\ next.claimants = R.claimants /\ next \in Rooms
  <2> DEFINE ps == R.partitions
  <2>1. R \in Rooms /\ i \in Nat /\ {} \in SUBSET Conns /\ ps \in Seq(Partition)
    BY <1>1, <1>2 DEF RoomSound
  <2>2. next = [R EXCEPT !.partitions = ps, !.placed[p] = i] /\ R.partitions = ps
    BY <1>6
  <2> HIDE DEF next, ps
  <2>3. LET n == [R EXCEPT !.partitions = ps, !.placed[p] = i] IN
        /\ n \in Rooms /\ n.placed = [R.placed EXCEPT ![p] = i] /\ n.partitions = ps
        /\ n.claimed = R.claimed /\ n.claimants = R.claimants
    BY <2>1, Zenon DEF Rooms
  <2> QED BY <2>2, <2>3
<1> HIDE DEF next
<1>8. OnePlace(next.placed, next.claimed, next.partitions)
  BY <1>1, <1>2, <1>7 DEF RoomSound, OnePlace, i
<1>9. Counted(next.placed, next.claimed, next.partitions)
  <2>1. \A q \in Participants : \A j \in 1 .. Len(R.partitions) :
          (next.placed[q] = j \/ next.claimed[q] = j) <=> (R.placed[q] = j \/ R.claimed[q] = j)
    BY <1>1, <1>7 DEF i, None
  <2>2. ASSUME NEW j \in 1 .. Len(R.partitions)
        PROVE  Holders(next.placed, next.claimed, j) = Holders(R.placed, R.claimed, j)
    BY <2>1 DEF Holders
  <2> QED BY <1>7, <2>2 DEF RoomSound, Counted
<1> QED BY <1>7, <1>8, <1>9 DEF RoomSound, next, i, Placing

\* One participant gives up what it has in some way, and is taken off the counter
\* when that was its place.
LEMMA GivesPlace ==
  ASSUME Counting, NEW R, RoomSound(R), NEW p \in Participants, Held(R, p),
         NEW stays \in {None, R.placed[p]}, NEW keeps \in {None, R.claimed[p]}
  PROVE  LET i == IF R.placed[p] # None THEN R.placed[p] ELSE R.claimed[p]
             next == IF stays = None /\ keeps = None THEN Vacate(R.partitions, i)
                     ELSE R.partitions
             placed == [R.placed EXCEPT ![p] = stays]
             claimed == [R.claimed EXCEPT ![p] = keeps]
         IN  /\ i \in 1 .. Len(R.partitions)
             /\ OnePlace(placed, claimed, next) /\ Counted(placed, claimed, next)
             /\ next \in Seq(Partition) /\ Len(next) = Len(R.partitions)
             /\ \A j \in 1 .. Len(R.partitions) : next[j].shard = R.partitions[j].shard
<1> DEFINE i == IF R.placed[p] # None THEN R.placed[p] ELSE R.claimed[p]
           next == IF stays = None /\ keeps = None THEN Vacate(R.partitions, i) ELSE R.partitions
           placed == [R.placed EXCEPT ![p] = stays]
           claimed == [R.claimed EXCEPT ![p] = keeps]
<1>1. /\ R.placed \in [Participants -> Nat] /\ R.claimed \in [Participants -> Nat]
      /\ R.partitions \in Seq(Partition)
  BY SoundFields
<1>2. /\ i \in 1 .. Len(R.partitions) /\ i # None
      /\ R.placed[p] \in {None, i} /\ R.claimed[p] \in {None, i}
      /\ R.placed[p] = i \/ R.claimed[p] = i
  BY <1>1, SMTT(30) DEF RoomSound, OnePlace, Held, None
<1> HIDE DEF i
<1>3. /\ next \in Seq(Partition) /\ Len(next) = Len(R.partitions)
      /\ next[i].occupants = IF stays = None /\ keeps = None
                             THEN IF R.partitions[i].occupants < 1 THEN 0
                                  ELSE R.partitions[i].occupants - 1
                             ELSE R.partitions[i].occupants
      /\ \A j \in 1 .. Len(R.partitions) : next[j].shard = R.partitions[j].shard
      /\ \A j \in 1 .. Len(R.partitions) : j # i => next[j] = R.partitions[j]
  <2>1. CASE stays = None /\ keeps = None
    BY <1>1, <1>2, <2>1, VacateFacts, Zenon
  <2>2. CASE ~(stays = None /\ keeps = None)
    BY <1>1, <2>2
  <2> QED BY <2>1, <2>2
<1> HIDE DEF next
<1>4. /\ placed \in [Participants -> Nat] /\ claimed \in [Participants -> Nat]
      /\ placed[p] = stays /\ claimed[p] = keeps
      /\ \A q \in Participants : q # p => placed[q] = R.placed[q] /\ claimed[q] = R.claimed[q]
      /\ \A q \in Participants : placed[q] \in {None, R.placed[q]} /\ claimed[q] \in {None, R.claimed[q]}
  BY <1>1 DEF None
<1> HIDE DEF placed, claimed
<1>5. ASSUME NEW j \in 1 .. Len(R.partitions)
      PROVE  next[j].occupants =
               LET n == Cardinality(Holders(R.placed, R.claimed, j) \ Holders(placed, claimed, j))
               IN  IF R.partitions[j].occupants < n THEN 0 ELSE R.partitions[j].occupants - n
  <2> DEFINE gone == Holders(R.placed, R.claimed, j) \ Holders(placed, claimed, j)
  <2>1. j # None
    BY DEF None
  <2>2. R.partitions[j] \in Partition /\ R.partitions[j].occupants \in Nat
    <3>1. R.partitions[j] \in Partition
      BY <1>1
    <3> QED BY <3>1 DEF Partition
  <2>3. CASE j = i /\ stays = None /\ keeps = None
    <3>1. gone = {p}
      BY <1>2, <1>4, <2>1, <2>3 DEF Holders
    <3>2. Cardinality(gone) = 1
      BY <3>1, Zenon DEF Counting, CountsFew
    <3> QED BY <1>3, <2>3, <3>2
  <2>4. CASE ~(j = i /\ stays = None /\ keeps = None)
    <3>1. gone = {}
      <4>1. ASSUME NEW q \in Participants, R.placed[q] = j \/ R.claimed[q] = j
            PROVE  placed[q] = j \/ claimed[q] = j
        <5>1. CASE q # p
          BY <1>4, <4>1, <5>1
        <5>2. CASE q = p
          <6>1. j = i
            BY <1>2, <2>1, <4>1, <5>2
          <6>2. stays = i \/ keeps = i
            BY <1>2, <2>4, <6>1
          <6> QED BY <1>4, <5>2, <6>1, <6>2
        <5> QED BY <5>1, <5>2
      <4> QED BY <4>1 DEF Holders
    <3>2. Cardinality(gone) = 0
      BY <3>1, Zenon DEF Counting, CountsFew
    <3>3. next[j].occupants = R.partitions[j].occupants
      BY <1>3, <2>4
    <3> QED BY <2>2, <3>2, <3>3
  <2> QED BY <2>3, <2>4
<1>6. OnePlace(placed, claimed, next) /\ Counted(placed, claimed, next)
  <2>1. TakenOff(R.placed, R.claimed, R.partitions, placed, claimed, next)
    BY <1>5 DEF TakenOff
  <2>2. OnePlace(R.placed, R.claimed, R.partitions) /\ Counted(R.placed, R.claimed, R.partitions)
    BY DEF RoomSound
  <2> QED BY <1>3, <1>4, <2>1, <2>2, GivesPlaces, Zenon
<1> QED BY <1>2, <1>3, <1>6, Zenon DEF i, next, placed, claimed

\* release: the reservation goes with its last claimant, and the place with it unless
\* the participant was placed.
LEMMA ReleaseFacts ==
  ASSUME Counting, NEW R, RoomSound(R), NEW p \in Participants, NEW c \in R.claimants[p]
  PROVE  Releasing(R, Release(R, p, c), p, c)
<1> DEFINE next == Release(R, p, c)
           rest == R.claimants[p] \ {c}
<1>1. /\ R \in Rooms /\ R.placed \in [Participants -> Nat] /\ R.claimed \in [Participants -> Nat]
      /\ R.claimants \in [Participants -> SUBSET Conns] /\ R.partitions \in Seq(Partition)
      /\ rest \in SUBSET Conns /\ R.claimed[p] # None
      /\ \A q \in Participants : R.claimed[q] = None <=> R.claimants[q] = {}
  BY SoundFields, Zenon DEF RoomSound
<1>2. CASE rest # {}
  <2>1. next = [R EXCEPT !.claimants[p] = rest]
    BY <1>2 DEF Release
  <2> HIDE DEF next, rest
  <2>2. /\ next \in Rooms /\ next.placed = R.placed /\ next.claimed = R.claimed
        /\ next.partitions = R.partitions /\ next.claimants = [R.claimants EXCEPT ![p] = rest]
    BY <1>1, <2>1, Zenon DEF Rooms
  <2>3. \A q \in Participants : next.claimed[q] = None <=> next.claimants[q] = {}
    BY <1>1, <1>2, <2>2
  <2>4. RoomSound(next)
    BY <2>2, <2>3 DEF RoomSound
  <2>5. R.claimants[p] # {c} /\ [R.claimed EXCEPT ![p] = R.claimed[p]] = R.claimed
    BY <1>1, <1>2, Zenon DEF rest
  <2> QED BY <2>2, <2>4, <2>5 DEF next, rest, Releasing, SameCells
<1>3. CASE rest = {}
  <2> DEFINE ps == IF R.placed[p] # None THEN R.partitions ELSE Vacate(R.partitions, R.claimed[p])
  <2>1. next = [R EXCEPT !.claimed[p] = None, !.claimants[p] = {}, !.partitions = ps]
    BY <1>3 DEF Release
  <2>2. /\ OnePlace([R.placed EXCEPT ![p] = R.placed[p]], [R.claimed EXCEPT ![p] = None], ps)
        /\ Counted([R.placed EXCEPT ![p] = R.placed[p]], [R.claimed EXCEPT ![p] = None], ps)
        /\ ps \in Seq(Partition) /\ Len(ps) = Len(R.partitions)
        /\ \A j \in 1 .. Len(R.partitions) : ps[j].shard = R.partitions[j].shard
    <3>1. Held(R, p)
      BY <1>1 DEF Held
    <3> QED BY <3>1, GivesPlace, Zenon
  <2>3. [R.placed EXCEPT ![p] = R.placed[p]] = R.placed
    BY <1>1, Zenon
  <2>4. None \in Nat
    BY DEF None
  <2> HIDE DEF next, ps, rest
  <2>5. /\ next \in Rooms /\ next.placed = R.placed /\ next.partitions = ps
        /\ next.claimed = [R.claimed EXCEPT ![p] = None]
        /\ next.claimants = [R.claimants EXCEPT ![p] = {}]
    BY <1>1, <2>1, <2>2, <2>4, Zenon DEF Rooms
  <2>6. \A q \in Participants : next.claimed[q] = None <=> next.claimants[q] = {}
    BY <1>1, <2>5
  <2>7. RoomSound(next)
    BY <2>2, <2>3, <2>5, <2>6 DEF RoomSound
  <2>8. R.claimants[p] = {c}
    BY <1>3 DEF rest
  <2> QED BY <1>3, <2>2, <2>5, <2>7, <2>8, Zenon DEF next, rest, Releasing, SameCells
<1> QED BY <1>2, <1>3

\* remove_participant: the place stays with a reservation.
LEMMA RemoveFacts ==
  ASSUME Counting, NEW R, RoomSound(R), NEW p \in Participants, R.placed[p] # None
  PROVE  LET next == RemoveParticipant(R, p) IN
         Removing(R, next, {p}) /\ (R.claimed[p] # None => next.partitions = R.partitions)
<1> DEFINE next == RemoveParticipant(R, p)
           ps == IF R.claimed[p] # None THEN R.partitions ELSE Vacate(R.partitions, R.placed[p])
<1>1. /\ R \in Rooms /\ R.placed \in [Participants -> Nat] /\ R.claimed \in [Participants -> Nat]
      /\ None \in Nat
  BY SoundFields DEF RoomSound, None
<1>2. next = [R EXCEPT !.placed[p] = None, !.partitions = ps]
  BY Zenon DEF RemoveParticipant
<1>3. /\ OnePlace([R.placed EXCEPT ![p] = None], [R.claimed EXCEPT ![p] = R.claimed[p]], ps)
      /\ Counted([R.placed EXCEPT ![p] = None], [R.claimed EXCEPT ![p] = R.claimed[p]], ps)
      /\ ps \in Seq(Partition) /\ Len(ps) = Len(R.partitions)
      /\ \A j \in 1 .. Len(R.partitions) : ps[j].shard = R.partitions[j].shard
  <2>1. Held(R, p)
    BY DEF Held
  <2> QED BY <2>1, GivesPlace, Zenon
<1>4. [R.claimed EXCEPT ![p] = R.claimed[p]] = R.claimed
  BY <1>1
<1>5. R.claimed[p] # None => ps = R.partitions
  OBVIOUS
<1> HIDE DEF next, ps
<1>6. /\ next \in Rooms /\ next.placed = [R.placed EXCEPT ![p] = None] /\ next.partitions = ps
      /\ next.claimed = R.claimed /\ next.claimants = R.claimants
  BY <1>1, <1>2, <1>3, Zenon DEF Rooms
<1>7. RoomSound(next)
  BY <1>3, <1>4, <1>6 DEF RoomSound
<1>8. [R.placed EXCEPT ![p] = None] = [q \in Participants |-> IF q \in {p} THEN None ELSE R.placed[q]]
  BY <1>1
<1> QED BY <1>3, <1>5, <1>6, <1>7, <1>8 DEF next, Removing, SameCells

-----------------------------------------------------------------------------
(* The steps of the registry.                                              *)

\* A participant owns each connection.
LEMMA OwnerType ==
  ASSUME NEW c \in Conns
  PROVE  Owner[c] \in Participants /\ c \in Nat /\ c # None
BY PartitionAssumption, SMTT(30) DEF Conns, None

\* A step that leaves the shards of partitions alone keeps the invariant when it does
\* over the partitions as they were.
LEMMA PlaceStep ==
  ASSUME RoomSound(room'), SameShards(room, room'), PlaceTypes',
         NEW ps, ps = room.partitions, Len(ps) \in Nat,
         \A q \in Participants : /\ room'.placed[q] # None => room'.placed[q] \in 1 .. Len(ps)
                                 /\ room'.claimed[q] # None => room'.claimed[q] \in 1 .. Len(ps),
         \A q \in Participants : CurrentAt(q, ps)',
         \A c \in Conns : PendingAt(c, ps)'
  PROVE  PlaceInv'
<1>1. ASSUME NEW q \in Participants, Held(room, q)'
      PROVE  \A i \in 1 .. Len(ps) : room'.partitions[i].shard = ps[i].shard
  BY <1>1 DEF SameShards, Held
<1>2. ASSUME NEW q \in Participants
      PROVE  /\ current'[q] = None <=> room'.placed[q] = None
             /\ room'.claimants[q] = Claimants(q)'
             /\ current'[q] # None =>
                  /\ current'[q] \in Conns /\ Owner[current'[q]] = q /\ phase'[current'[q]] = "done"
                  /\ home'[q] = room'.partitions[room'.placed[q]].shard
  <2>1. CASE current'[q] = None
    BY <2>1 DEF CurrentAt
  <2>2. CASE current'[q] # None
    <3>1. room'.placed[q] # None /\ home'[q] = ps[room'.placed[q]].shard
      BY <2>2 DEF CurrentAt
    <3>2. room'.partitions[room'.placed[q]].shard = ps[room'.placed[q]].shard
      BY <1>1, <3>1, Zenon DEF Held
    <3> QED BY <2>2, <3>1, <3>2 DEF CurrentAt
  <2> QED BY <2>1, <2>2
<1>3. ASSUME NEW c \in Conns, phase'[c] = "pending"
      PROVE  /\ place'[c].slot = room'.claimed[Owner[c]]
             /\ place'[c].shard = room'.partitions[room'.claimed[Owner[c]]].shard
  <2>1. Owner[c] \in Participants
    BY OwnerType
  <2>2. c \in Claimants(Owner[c])'
    BY <1>3 DEF Claimants
  <2>3. room'.claimed[Owner[c]] # None
    BY <2>1, <2>2 DEF RoomSound, CurrentAt
  <2>4. room'.partitions[room'.claimed[Owner[c]]].shard = ps[room'.claimed[Owner[c]]].shard
    BY <1>1, <2>1, <2>3 DEF Held
  <2> QED BY <1>3, <2>4 DEF PendingAt
<1> QED BY <1>2, <1>3 DEF PlaceInv, PlaceTypes

\* What admission chooses.
LEMMA Chosen ==
  ASSUME Counting, PlaceInv, NEW p \in Participants, NEW i \in NextPartitionIndex(room, p),
         NEW s \in AdmissionShards(p, i)
  PROVE  /\ s \in Shards /\ i \in 1 .. Len(room.partitions) + 1
         /\ Held(room, p) => /\ i = IF room.placed[p] # None THEN room.placed[p] ELSE room.claimed[p]
                             /\ i \in 1 .. Len(room.partitions) /\ room.partitions[i].occupants > 0
                             /\ s = room.partitions[i].shard
         /\ ~Held(room, p) /\ i <= Len(room.partitions) => room.partitions[i].occupants < Capacity
         /\ i <= Len(room.partitions) /\ room.partitions[i].occupants > 0 =>
              s = room.partitions[i].shard
<1>1. /\ room.placed \in [Participants -> Nat] /\ room.claimed \in [Participants -> Nat]
      /\ room.partitions \in Seq(Partition) /\ Len(room.partitions) \in Nat
      /\ DOMAIN room.partitions = 1 .. Len(room.partitions)
  BY SoundFields DEF PlaceInv
<1>2. \A j \in 1 .. Len(room.partitions) : room.partitions[j].shard \in Shards /\ room.partitions[j].occupants \in Nat
  <2>1. \A j \in 1 .. Len(room.partitions) : room.partitions[j] \in Partition
    BY <1>1
  <2> QED BY <2>1 DEF Partition
<1>3. CASE Held(room, p)
  <2>1. i = IF room.placed[p] # None THEN room.placed[p] ELSE room.claimed[p]
    BY <1>3 DEF NextPartitionIndex, Held
  <2>2. i \in 1 .. Len(room.partitions) /\ p \in Holders(room.placed, room.claimed, i)
    BY <1>3, <2>1 DEF PlaceInv, RoomSound, OnePlace, Held, Holders
  <2>3. room.partitions[i].occupants > 0
    BY <2>2, HeldNotEmpty DEF PlaceInv, RoomSound
  <2>4. s = room.partitions[i].shard
    <3>1. CASE current[p] # None
      <4>1. s = home[p]
        BY <3>1 DEF AdmissionShards
      <4> QED BY <2>1, <3>1, <4>1 DEF PlaceInv
    <3>2. CASE current[p] = None
      BY <1>1, <2>2, <2>3, <3>2 DEF AdmissionShards
    <3> QED BY <3>1, <3>2
  <2> QED BY <1>1, <1>2, <1>3, <2>1, <2>2, <2>3, <2>4
<1>4. CASE ~Held(room, p)
  <2>1. current[p] = None
    BY <1>4 DEF PlaceInv, Held
  <2>2. i \in Spare(room) \/ i = Len(room.partitions) + 1
    BY <1>4 DEF NextPartitionIndex, Held, First
  <2>3. i \in 1 .. Len(room.partitions) + 1
    BY <1>1, <2>2 DEF Spare
  <2>4. i <= Len(room.partitions) => i \in Spare(room) /\ i \in DOMAIN room.partitions
    BY <1>1, <2>2, <2>3 DEF Spare
  <2>5. CASE i <= Len(room.partitions) /\ room.partitions[i].occupants > 0
    <3>1. s = room.partitions[i].shard
      BY <2>1, <2>4, <2>5 DEF AdmissionShards
    <3>2. s \in Shards
      BY <1>1, <1>2, <2>4, <2>5, <3>1
    <3> QED BY <1>4, <2>3, <2>4, <2>5, <3>1, <3>2 DEF Spare
  <2>6. CASE ~(i <= Len(room.partitions) /\ room.partitions[i].occupants > 0)
    <3>1. s \in Shards
      BY <1>1, <2>1, <2>3, <2>6 DEF AdmissionShards
    <3> QED BY <1>4, <2>3, <2>4, <2>6, <3>1 DEF Spare
  <2> QED BY <2>5, <2>6
<1> QED BY <1>3, <1>4, Zenon

\* begin_create_participant
LEMMA PlaceBegin ==
  ASSUME Counting, PlaceInv, NEW c \in Conns, Begin(c)
  PROVE  PlaceInv'
<1> DEFINE p == Owner[c]
<1>1. p \in Participants /\ c \in Nat /\ c # None
  BY OwnerType
<1>2. PICK i \in NextPartitionIndex(room, p) : \E s \in AdmissionShards(p, i) :
        IF current[p] >= c
        THEN /\ room' = Kept(Release(Reserve(room, p, c, s, i), p, c))
             /\ phase' = [phase EXCEPT ![c] = "done"]
             /\ UNCHANGED place
        ELSE /\ room' = Reserve(room, p, c, s, i)
             /\ phase' = [phase EXCEPT ![c] = "pending"]
             /\ place' = [place EXCEPT ![c] = [slot |-> i, shard |-> s]]
  BY DEF Begin
<1>3. PICK s \in AdmissionShards(p, i) :
        IF current[p] >= c
        THEN /\ room' = Kept(Release(Reserve(room, p, c, s, i), p, c))
             /\ phase' = [phase EXCEPT ![c] = "done"]
             /\ UNCHANGED place
        ELSE /\ room' = Reserve(room, p, c, s, i)
             /\ phase' = [phase EXCEPT ![c] = "pending"]
             /\ place' = [place EXCEPT ![c] = [slot |-> i, shard |-> s]]
  BY <1>2, Zenon
<1>4. phase[c] = "new" /\ UNCHANGED <<current, home>>
  BY DEF Begin
<1>5. /\ s \in Shards /\ i \in 1 .. Len(room.partitions) + 1
      /\ Held(room, p) => /\ i = IF room.placed[p] # None THEN room.placed[p] ELSE room.claimed[p]
                          /\ i \in 1 .. Len(room.partitions) /\ room.partitions[i].occupants > 0
                          /\ s = room.partitions[i].shard
      /\ ~Held(room, p) /\ i <= Len(room.partitions) => room.partitions[i].occupants < Capacity
      /\ i <= Len(room.partitions) /\ room.partitions[i].occupants > 0 => s = room.partitions[i].shard
  BY <1>1, Chosen, ZenonT(60)
<1> HIDE DEF p
<1>6. /\ room.placed \in [Participants -> Nat] /\ room.claimed \in [Participants -> Nat]
      /\ room.claimants \in [Participants -> SUBSET Conns] /\ Len(room.partitions) \in Nat
      /\ RoomSound(room) /\ PlaceTypes
      /\ c \notin room.claimants[p]
      /\ \A q \in Participants : CurrentAt(q, room.partitions)
      /\ \A d \in Conns : PendingAt(d, room.partitions)
      /\ \A q \in Participants : /\ room.placed[q] # None => room.placed[q] \in 1 .. Len(room.partitions)
                                 /\ room.claimed[q] # None => room.claimed[q] \in 1 .. Len(room.partitions)
      /\ \A q \in Participants : room.claimed[q] = None <=> room.claimants[q] = {}
  <2>1. c \notin room.claimants[p]
    BY <1>1, <1>4 DEF PlaceInv, Claimants
  <2> QED BY <2>1, SoundFields, Zenon DEF PlaceInv, PlaceTypes, CurrentAt, PendingAt, RoomSound, OnePlace, p
<1>7. ASSUME NEW t \in {"pending", "done"}, phase' = [phase EXCEPT ![c] = t]
      PROVE  \A q \in Participants : Claimants(q)' = IF q = p /\ t = "pending" THEN Claimants(q) \cup {c}
                                                     ELSE Claimants(q)
  BY <1>4, <1>6, <1>7 DEF PlaceTypes, Claimants, p
<1>8. CASE current[p] >= c
  <2> DEFINE R1 == Reserve(room, p, c, s, i)
             R2 == Release(R1, p, c)
  <2>1. room' = Kept(R2) /\ phase' = [phase EXCEPT ![c] = "done"] /\ place' = place
    BY <1>3, <1>8
  <2>2. current[p] # None /\ room.placed[p] # None /\ Held(room, p)
    BY <1>1, <1>6, <1>8, SMTT(30) DEF CurrentAt, PlaceTypes, Held, None
  <2>3. Reserving(room, R1, p, c, i) /\ R1.partitions = room.partitions
    BY <1>1, <1>5, <1>6, <2>2, ReserveHeld, SMTT(30)
  <2> HIDE DEF R1
  <2>4. c \in R1.claimants[p] /\ RoomSound(R1)
    BY <1>1, <1>6, <2>3, SMTT(30) DEF Reserving
  <2>5. Releasing(R1, R2, p, c)
    BY <1>1, <2>4, ReleaseFacts
  <2> HIDE DEF R2
  <2>6. R2.claimants = room.claimants
    BY <1>1, <1>6, <2>3, <2>5 DEF Reserving, Releasing
  <2>7. R2.claimed = room.claimed
    <3>1. room.claimants[p] = {} <=> R1.claimants[p] = {c}
      BY <1>1, <1>6, <2>3 DEF Reserving
    <3>2. room.claimed[p] \in {None, i}
      BY <1>1, <1>5, <2>2 DEF PlaceInv, RoomSound, OnePlace
    <3>3. room.claimed[p] = IF R1.claimants[p] = {c} THEN None ELSE i
      BY <1>1, <1>6, <3>1, <3>2
    <3> QED BY <1>1, <1>6, <2>3, <2>5, <3>3 DEF Reserving, Releasing
  <2>8. /\ RoomSound(room') /\ room'.placed = room.placed /\ room'.claimed = room.claimed
        /\ room'.claimants = room.claimants
        /\ \A q \in Participants : Held(R2, q) => room'.partitions = R2.partitions
    <3>1. RoomSound(R2) /\ R2.placed = room.placed
      BY <2>3, <2>5 DEF Reserving, Releasing
    <3> QED BY <2>1, <2>6, <2>7, <3>1, KeptFacts, Zenon
  <2>9. SameShards(room, room')
    <3>1. SameCells(room, R2) /\ R2.placed = room.placed
      BY <2>3, <2>5 DEF Reserving, Releasing, SameCells
    <3> QED BY <2>6, <2>7, <2>8, <3>1 DEF SameShards, Held, SameCells
  <2>10. \A q \in Participants : Claimants(q)' = Claimants(q)
    BY <1>7, <2>1
  <2>11. PlaceTypes'
    BY <1>4, <1>6, <2>1 DEF PlaceTypes
  <2>12. PICK ps : ps = room.partitions
    OBVIOUS
  <2>13. ASSUME NEW q \in Participants PROVE CurrentAt(q, ps)'
    <3>1. CurrentAt(q, ps)
      BY <1>6, <2>12
    <3>2. \A d \in Conns : phase[d] = "done" => phase'[d] = "done"
      BY <1>6, <2>1, Zenon DEF PlaceTypes
    <3> QED BY <1>4, <2>8, <2>10, <3>1, <3>2, Zenon DEF CurrentAt
  <2>14. ASSUME NEW d \in Conns PROVE PendingAt(d, ps)'
    <3>1. PendingAt(d, ps)
      BY <1>6, <2>12
    <3>2. phase'[d] = "pending" => phase[d] = "pending"
      BY <1>6, <2>1, Zenon DEF PlaceTypes
    <3> QED BY <2>1, <2>8, <3>1, <3>2 DEF PendingAt
  <2> QED BY <1>6, <2>8, <2>9, <2>11, <2>12, <2>13, <2>14, PlaceStep
<1>9. CASE ~(current[p] >= c)
  <2>1. /\ room' = Reserve(room, p, c, s, i) /\ phase' = [phase EXCEPT ![c] = "pending"]
        /\ place' = [place EXCEPT ![c] = [slot |-> i, shard |-> s]]
    BY <1>3, <1>9, Zenon
  <2>2. /\ RoomSound(room') /\ room'.placed = room.placed
        /\ room'.claimed = [room.claimed EXCEPT ![p] = i]
        /\ room'.claimants = [room.claimants EXCEPT ![p] = @ \cup {c}]
        /\ room'.partitions[i].shard = s
        /\ \A j \in 1 .. Len(room.partitions) : j # i => room'.partitions[j] = room.partitions[j]
        /\ Held(room, p) => room'.partitions = room.partitions
    <3>1. CASE Held(room, p)
      <4>1. Reserving(room, room', p, c, i) /\ room'.partitions = room.partitions
        BY <1>1, <1>5, <1>6, <2>1, <3>1, ReserveHeld
      <4> QED BY <1>5, <3>1, <4>1, ZenonT(30) DEF Reserving
    <3>2. CASE ~Held(room, p)
      <4>1. /\ Reserving(room, room', p, c, i)
            /\ room'.partitions[i].shard =
                 IF i <= Len(room.partitions) /\ room.partitions[i].occupants # 0
                 THEN room.partitions[i].shard ELSE s
            /\ \A j \in 1 .. Len(room.partitions) : j # i => room'.partitions[j] = room.partitions[j]
        BY <1>1, <1>5, <1>6, <2>1, <3>2, ReserveNew
      <4>2. i <= Len(room.partitions) /\ room.partitions[i].occupants # 0 => room.partitions[i].occupants > 0
        <5>1. i <= Len(room.partitions) => room.partitions[i] \in Partition
          BY <1>5, <1>6, SoundFields, SMTT(30)
        <5> QED BY <5>1, SMTT(30) DEF Partition
      <4> QED BY <1>5, <3>2, <4>1, <4>2, ZenonT(30) DEF Reserving
    <3> QED BY <3>1, <3>2
  <2>3. ASSUME NEW q \in Participants, NEW j \in {room.placed[q], room.claimed[q]}, j # None
        PROVE  room'.partitions[j].shard = room.partitions[j].shard
    <3>1. j \in 1 .. Len(room.partitions) /\ q \in Holders(room.placed, room.claimed, j)
      BY <1>6, <2>3, SMTT(30) DEF Holders
    <3>2. room.partitions[j].occupants > 0
      BY <3>1, HeldNotEmpty DEF PlaceInv, RoomSound
    <3> QED BY <1>5, <1>6, <2>2, <3>1, <3>2, SMTT(30)
  <2>4. \A q \in Participants : Claimants(q)' = IF q = p THEN Claimants(q) \cup {c} ELSE Claimants(q)
    BY <1>7, <2>1, Zenon
  <2>5. PlaceTypes'
    <3>1. i \in Nat
      BY <1>5, SMTT(30)
    <3> QED BY <1>4, <1>5, <1>6, <2>1, <3>1 DEF PlaceTypes
  <2>6. ASSUME NEW q \in Participants
        PROVE  /\ current'[q] = None <=> room'.placed[q] = None
               /\ room'.claimants[q] = Claimants(q)'
               /\ current'[q] # None =>
                    /\ current'[q] \in Conns /\ Owner[current'[q]] = q /\ phase'[current'[q]] = "done"
                    /\ home'[q] = room'.partitions[room'.placed[q]].shard
    <3>1. /\ CurrentAt(q, room.partitions) /\ current'[q] = current[q] /\ home'[q] = home[q]
          /\ room'.placed[q] = room.placed[q]
      BY <1>4, <1>6, <2>2, Zenon
    <3>2. \A d \in Conns : phase[d] = "done" => phase'[d] = "done"
      BY <1>4, <1>6, <2>1, Zenon DEF PlaceTypes
    <3>3. room'.claimants[q] = Claimants(q)'
      BY <1>1, <1>6, <2>2, <2>4, <3>1, SMTT(30) DEF CurrentAt
    <3> QED BY <2>3, <3>1, <3>2, <3>3, Zenon DEF CurrentAt
  <2>7. ASSUME NEW d \in Conns, phase'[d] = "pending"
        PROVE  /\ place'[d].slot = room'.claimed[Owner[d]]
               /\ place'[d].shard = room'.partitions[room'.claimed[Owner[d]]].shard
    <3>1. Owner[d] \in Participants
      BY OwnerType
    <3>2. CASE d = c
      <4>1. place'[c].slot = i /\ place'[c].shard = s
        BY <1>6, <2>1, Zenon DEF PlaceTypes
      <4>2. room'.claimed[Owner[d]] = i
        BY <1>1, <1>6, <2>2, <3>2, Zenon DEF p
      <4>3. room'.partitions[i].shard = s
        BY <2>2, Zenon
      <4> QED BY <3>2, <4>1, <4>2, <4>3, Zenon
    <3>3. CASE d # c
      <4>1. phase[d] = "pending" /\ place'[d] = place[d] /\ PendingAt(d, room.partitions)
        BY <1>6, <2>1, <2>7, <3>3, Zenon DEF PlaceTypes
      <4>2. room.claimed[Owner[d]] # None
        BY <1>6, <3>1, <4>1 DEF CurrentAt, Claimants
      <4>3. room'.claimed[Owner[d]] = room.claimed[Owner[d]]
        <5>1. CASE Owner[d] = p
          <6>1. Held(room, p) /\ room.claimed[p] = i
            BY <1>1, <1>5, <4>2, <5>1, Zenon DEF Held, PlaceInv, RoomSound, OnePlace
          <6> QED BY <1>1, <1>6, <2>2, <5>1, <6>1, Zenon
        <5>2. CASE Owner[d] # p
          BY <1>1, <1>6, <2>2, <3>1, <5>2, Zenon
        <5> QED BY <5>1, <5>2, Zenon
      <4> QED BY <2>3, <3>1, <4>1, <4>2, <4>3, Zenon DEF PendingAt
    <3> QED BY <3>2, <3>3
  <2> QED BY <2>2, <2>5, <2>6, <2>7, Zenon DEF PlaceInv, PlaceTypes
<1> QED BY <1>8, <1>9

\* A room that keeps its cells, and is dropped when empty.
LEMMA KeptStep ==
  ASSUME NEW X, RoomSound(X), SameCells(room, X)
  PROVE  /\ RoomSound(Kept(X)) /\ SameShards(room, Kept(X))
         /\ Kept(X).placed = X.placed /\ Kept(X).claimed = X.claimed
         /\ Kept(X).claimants = X.claimants
         /\ \A q \in Participants : /\ X.placed[q] # None => X.placed[q] \in 1 .. Len(room.partitions)
                                    /\ X.claimed[q] # None => X.claimed[q] \in 1 .. Len(room.partitions)
<1>1. /\ RoomSound(Kept(X)) /\ Kept(X).placed = X.placed /\ Kept(X).claimed = X.claimed
      /\ Kept(X).claimants = X.claimants
      /\ \A q \in Participants : Held(X, q) => Kept(X).partitions = X.partitions
  BY KeptFacts
<1>2. SameShards(room, Kept(X))
  BY <1>1 DEF SameShards, SameCells, Held
<1>3. \A q \in Participants : /\ X.placed[q] # None => X.placed[q] \in 1 .. Len(room.partitions)
                              /\ X.claimed[q] # None => X.claimed[q] \in 1 .. Len(room.partitions)
  BY SMTT(30) DEF RoomSound, OnePlace, SameCells
<1> QED BY <1>1, <1>2, <1>3

\* What the invariant says, entry by entry.
LEMMA PlaceFields ==
  ASSUME PlaceInv
  PROVE  /\ room.placed \in [Participants -> Nat] /\ room.claimed \in [Participants -> Nat]
         /\ room.claimants \in [Participants -> SUBSET Conns] /\ Len(room.partitions) \in Nat
         /\ RoomSound(room) /\ PlaceTypes
         /\ \A q \in Participants : CurrentAt(q, room.partitions)
         /\ \A d \in Conns : PendingAt(d, room.partitions)
BY SoundFields, Zenon DEF PlaceInv, PlaceTypes, CurrentAt, PendingAt

\* remove_incarnation, of one participant or of several.
LEMMA PlaceDepart ==
  ASSUME PlaceInv, NEW gone \in SUBSET Participants, NEW X, Removing(room, X, gone), room' = Kept(X),
         current' = [q \in Participants |-> IF q \in gone THEN None ELSE current[q]],
         home' = [q \in Participants |-> IF q \in gone THEN None ELSE home[q]],
         UNCHANGED <<phase, place>>
  PROVE  PlaceInv'
<1>1. /\ PlaceTypes /\ Len(room.partitions) \in Nat /\ room.placed \in [Participants -> Nat]
      /\ \A q \in Participants : CurrentAt(q, room.partitions)
      /\ \A d \in Conns : PendingAt(d, room.partitions)
  BY PlaceFields
<1>2. /\ RoomSound(X) /\ SameCells(room, X) /\ X.claimants = room.claimants /\ X.claimed = room.claimed
      /\ \A q \in Participants : X.placed[q] = IF q \in gone THEN None ELSE room.placed[q]
  BY Zenon DEF Removing
<1>3. /\ RoomSound(room') /\ SameShards(room, room')
      /\ room'.placed = X.placed /\ room'.claimed = X.claimed /\ room'.claimants = X.claimants
      /\ \A q \in Participants : /\ X.placed[q] # None => X.placed[q] \in 1 .. Len(room.partitions)
                                 /\ X.claimed[q] # None => X.claimed[q] \in 1 .. Len(room.partitions)
  BY <1>2, KeptStep
<1>4. PlaceTypes'
  BY <1>1 DEF PlaceTypes, None
<1>5. PICK ps : ps = room.partitions
  OBVIOUS
<1>6. ASSUME NEW q \in Participants PROVE CurrentAt(q, ps)'
  <2>1. CurrentAt(q, ps)
    BY <1>1, <1>5
  <2>2. Claimants(q)' = Claimants(q)
    BY Zenon DEF Claimants
  <2>3. CASE q \in gone
    BY <1>2, <1>3, <2>1, <2>2, <2>3, Zenon DEF CurrentAt
  <2>4. CASE q \notin gone
    BY <1>2, <1>3, <2>1, <2>2, <2>4, Zenon DEF CurrentAt
  <2> QED BY <2>3, <2>4
<1>7. ASSUME NEW d \in Conns PROVE PendingAt(d, ps)'
  BY <1>1, <1>2, <1>3, <1>5, SMTT(30) DEF PendingAt
<1> QED BY <1>1, <1>3, <1>4, <1>5, <1>6, <1>7, PlaceStep, Zenon

\* A participant leaves: its place goes back unless it is still claimed.
LEMMA PlaceLeave ==
  ASSUME Counting, PlaceInv, NEW p \in Participants, Leave(p)
  PROVE  PlaceInv'
<1>1. room.placed[p] # None /\ PlaceTypes /\ RoomSound(room)
  BY PlaceFields, SMTT(30) DEF Leave, PlaceInv
<1>2. Removing(room, RemoveParticipant(room, p), {p})
  BY <1>1, RemoveFacts
<1>3. /\ current' = [q \in Participants |-> IF q \in {p} THEN None ELSE current[q]]
      /\ home' = [q \in Participants |-> IF q \in {p} THEN None ELSE home[q]]
  BY <1>1, Zenon DEF Leave, PlaceTypes
<1>4. room' = Kept(RemoveParticipant(room, p)) /\ UNCHANGED <<phase, place>> /\ {p} \in SUBSET Participants
  BY Zenon DEF Leave
<1> QED BY <1>2, <1>3, <1>4, PlaceDepart, Zenon

\* finish_materialization without a commit: the claim is given back.
LEMMA PlaceCancel ==
  ASSUME Counting, PlaceInv, NEW c \in Conns, Cancel(c)
  PROVE  PlaceInv'
<1> DEFINE p == Owner[c]
           X == Release(room, p, c)
<1>1. /\ PlaceTypes /\ Len(room.partitions) \in Nat /\ RoomSound(room)
      /\ room.claimed \in [Participants -> Nat] /\ room.claimants \in [Participants -> SUBSET Conns]
      /\ \A q \in Participants : CurrentAt(q, room.partitions)
      /\ \A d \in Conns : PendingAt(d, room.partitions)
  BY PlaceFields
<1>2. /\ p \in Participants /\ phase[c] = "pending" /\ room' = Kept(X)
      /\ phase' = [phase EXCEPT ![c] = "done"] /\ place' = [place EXCEPT ![c] = NoPlace]
      /\ UNCHANGED <<current, home>>
  BY OwnerType, SMTT(30) DEF Cancel, Pending
<1>3. c \in room.claimants[p]
  BY <1>1, <1>2, SMTT(30) DEF CurrentAt, Claimants
<1>4. Releasing(room, X, p, c)
  BY <1>1, <1>2, <1>3, ReleaseFacts
<1> HIDE DEF X
<1>5. /\ RoomSound(room') /\ SameShards(room, room')
      /\ room'.placed = X.placed /\ room'.claimed = X.claimed /\ room'.claimants = X.claimants
      /\ \A q \in Participants : /\ X.placed[q] # None => X.placed[q] \in 1 .. Len(room.partitions)
                                 /\ X.claimed[q] # None => X.claimed[q] \in 1 .. Len(room.partitions)
  BY <1>2, <1>4, KeptStep, Zenon DEF Releasing
<1>6. PlaceTypes'
  BY <1>1, <1>2 DEF PlaceTypes, NoPlace, None
<1>7. PICK ps : ps = room.partitions
  BY Zenon
<1>8. ASSUME NEW q \in Participants PROVE CurrentAt(q, ps)'
  <2>1. CurrentAt(q, ps)
    BY <1>1, <1>7
  <2>2. X.claimants[q] = Claimants(q)'
    <3>1. Claimants(q)' = IF q = p THEN Claimants(q) \ {c} ELSE Claimants(q)
      BY <1>1, <1>2, SMTT(30) DEF Claimants, PlaceTypes
    <3>2. room.claimants[q] = Claimants(q)
      BY <2>1 DEF CurrentAt
    <3>3. X.claimants[q] = IF q = p THEN room.claimants[q] \ {c} ELSE room.claimants[q]
      BY <1>1, <1>2, <1>4, ZenonT(30) DEF Releasing
    <3> QED BY <3>1, <3>2, <3>3, SMTT(30)
  <2>3. \A d \in Conns : phase[d] = "done" => phase'[d] = "done"
    BY <1>1, <1>2 DEF PlaceTypes
  <2> QED BY <1>2, <1>4, <1>5, <2>1, <2>2, <2>3, SMTT(30) DEF CurrentAt, Releasing
<1>9. ASSUME NEW d \in Conns PROVE PendingAt(d, ps)'
  <2>1. CASE phase'[d] # "pending"
    BY <2>1 DEF PendingAt
  <2>2. CASE phase'[d] = "pending"
    <3>1. d # c /\ phase[d] = "pending" /\ place'[d] = place[d]
      BY <1>1, <1>2, <2>2 DEF PlaceTypes
    <3>2. PendingAt(d, ps) /\ Owner[d] \in Participants
      BY <1>1, <1>7, OwnerType, ZenonT(30)
    <3>3. X.claimed[Owner[d]] = room.claimed[Owner[d]]
      <4>1. d \in room.claimants[Owner[d]]
        BY <1>1, <3>1, <3>2, SMTT(30) DEF CurrentAt, Claimants
      <4> QED BY <1>1, <1>2, <1>4, <3>1, <3>2, <4>1, SMTT(30) DEF Releasing
    <3> QED BY <1>5, <3>1, <3>2, <3>3, Zenon DEF PendingAt
  <2> QED BY <2>1, <2>2
<1> QED BY <1>1, <1>5, <1>6, <1>7, <1>8, <1>9, PlaceStep

\* finish_materialization with a commit: the previous incarnation leaves its place to
\* the claim, which becomes the place of the next.
LEMMA PlaceCommit ==
  ASSUME Counting, PlaceInv, NEW c \in Conns, Commit(c)
  PROVE  PlaceInv'
<1> DEFINE p == Owner[c]
           i == place[c].slot
           s == place[c].shard
           left == IF current[p] # None THEN RemoveParticipant(room, p) ELSE room
           add == AddParticipant(left, p, s, i)
           X == Release(add, p, c)
<1>1. /\ PlaceTypes /\ Len(room.partitions) \in Nat /\ RoomSound(room)
      /\ room.placed \in [Participants -> Nat]
      /\ room.claimed \in [Participants -> Nat] /\ room.claimants \in [Participants -> SUBSET Conns]
      /\ \A q \in Participants : CurrentAt(q, room.partitions)
      /\ \A d \in Conns : PendingAt(d, room.partitions)
  BY PlaceFields
<1>2. /\ p \in Participants /\ c \in Nat /\ c # None /\ phase[c] = "pending" /\ room' = Kept(X)
      /\ phase' = [phase EXCEPT ![c] = "done"] /\ place' = [place EXCEPT ![c] = NoPlace]
      /\ current' = [current EXCEPT ![p] = c] /\ home' = [home EXCEPT ![p] = s]
  BY OwnerType DEF Commit, Pending
<1>3. /\ c \in room.claimants[p] /\ room.claimed[p] # None /\ i = room.claimed[p] /\ i # None
      /\ s = room.partitions[i].shard /\ i \in 1 .. Len(room.partitions) /\ s \in Shards
  <2>1. c \in room.claimants[p] /\ room.claimed[p] # None
    <3>1. c \in room.claimants[p]
      BY <1>1, <1>2 DEF CurrentAt, Claimants
    <3> QED BY <1>1, <1>2, <3>1, ZenonT(30) DEF RoomSound
  <2>2. i = room.claimed[p] /\ s = room.partitions[i].shard
    BY <1>1, <1>2, Zenon DEF PendingAt
  <2>3. i \in 1 .. Len(room.partitions)
    BY <1>1, <1>2, <2>1, <2>2, ZenonT(30) DEF RoomSound, OnePlace
  <2>4. room.partitions[i] \in Partition
    BY <1>1, <2>3, SoundFields
  <2> QED BY <2>1, <2>2, <2>3, <2>4, Zenon DEF Partition
<1> HIDE DEF p, i, s
<1>4. /\ RoomSound(left) /\ left.placed[p] = None
      /\ \A q \in Participants : q # p => left.placed[q] = room.placed[q]
      /\ left.claimed = room.claimed /\ left.claimants = room.claimants
      /\ left.partitions = room.partitions
  <2>1. CASE current[p] # None
    <3>1. room.placed[p] # None /\ left = RemoveParticipant(room, p)
      BY <1>1, <1>2, <2>1, ZenonT(30) DEF CurrentAt
    <3>2. Removing(room, left, {p}) /\ left.partitions = room.partitions
      BY <1>1, <1>2, <1>3, <3>1, RemoveFacts, ZenonT(30)
    <3> HIDE DEF left
    <3> QED BY <1>2, <3>2, ZenonT(30) DEF Removing
  <2>2. CASE current[p] = None
    BY <1>1, <1>2, <2>2, Zenon DEF CurrentAt
  <2> QED BY <2>1, <2>2, Zenon
<1> HIDE DEF left
<1>5. Placing(left, add, p)
  <2>1. left.claimed[p] # None /\ i = left.claimed[p]
    BY <1>3, <1>4, Zenon
  <2>2. Placing(left, AddParticipant(left, p, s, left.claimed[p]), p)
    BY <1>2, <1>3, <1>4, <2>1, AddClaimed, Zenon
  <2> QED BY <2>1, <2>2
<1> HIDE DEF add
<1>6. /\ RoomSound(add) /\ add.placed[p] = i
      /\ \A q \in Participants : q # p => add.placed[q] = room.placed[q]
      /\ add.claimed = room.claimed /\ add.claimants = room.claimants
      /\ add.partitions = room.partitions
  <2>1. left.placed \in [Participants -> Nat]
    BY <1>4, SoundFields, Zenon
  <2> QED BY <1>2, <1>3, <1>4, <1>5, <2>1 DEF Placing
<1>7. Releasing(add, X, p, c)
  BY <1>2, <1>3, <1>6, ReleaseFacts
<1> HIDE DEF X
<1>8. /\ RoomSound(room') /\ SameShards(room, room')
      /\ room'.placed = X.placed /\ room'.claimed = X.claimed /\ room'.claimants = X.claimants
      /\ \A q \in Participants : /\ X.placed[q] # None => X.placed[q] \in 1 .. Len(room.partitions)
                                 /\ X.claimed[q] # None => X.claimed[q] \in 1 .. Len(room.partitions)
  <2>1. RoomSound(X) /\ SameCells(room, X)
    BY <1>6, <1>7, Zenon DEF Releasing, SameCells
  <2> QED BY <1>2, <2>1, KeptStep, Zenon
<1>9. PlaceTypes'
  BY <1>1, <1>2, <1>3, ZenonT(30) DEF PlaceTypes, NoPlace, None
<1>10. /\ X.placed[p] = i /\ \A q \in Participants : q # p => X.placed[q] = room.placed[q]
       /\ \A q \in Participants : X.claimants[q] = IF q = p THEN room.claimants[q] \ {c} ELSE room.claimants[q]
       /\ \A q \in Participants : q # p \/ room.claimants[p] # {c} => X.claimed[q] = room.claimed[q]
  <2>1. X.placed = add.placed
    BY <1>7 DEF Releasing
  <2>2. X.claimants = [room.claimants EXCEPT ![p] = @ \ {c}]
    BY <1>6, <1>7 DEF Releasing
  <2>3. X.claimed = [room.claimed EXCEPT ![p] = IF room.claimants[p] = {c} THEN None ELSE @]
    BY <1>6, <1>7 DEF Releasing
  <2>4. \A q \in Participants : q # p \/ room.claimants[p] # {c} => X.claimed[q] = room.claimed[q]
    BY <1>1, <1>2, <2>3
  <2>5. \A q \in Participants : X.claimants[q] = IF q = p THEN room.claimants[q] \ {c} ELSE room.claimants[q]
    BY <1>1, <1>2, <2>2, Zenon
  <2> QED BY <1>6, <2>1, <2>4, <2>5
<1>11. PICK ps : ps = room.partitions
  OBVIOUS
<1>12. ASSUME NEW q \in Participants PROVE CurrentAt(q, ps)'
  <2>1. CurrentAt(q, ps)
    BY <1>1, <1>11
  <2>2. X.claimants[q] = Claimants(q)'
    <3>1. Claimants(q)' = IF q = p THEN Claimants(q) \ {c} ELSE Claimants(q)
      BY <1>1, <1>2 DEF Claimants, PlaceTypes, p
    <3>2. room.claimants[q] = Claimants(q)
      BY <2>1 DEF CurrentAt
    <3> QED BY <1>10, <3>1, <3>2, Zenon
  <2>3. \A d \in Conns : phase[d] = "done" \/ d = c => phase'[d] = "done"
    BY <1>1, <1>2 DEF PlaceTypes
  <2>4. CASE q = p
    <3>1. current'[q] = c /\ home'[q] = s /\ room'.placed[q] = i /\ Owner[c] = q
      BY <1>1, <1>2, <1>8, <1>10, <2>4, Zenon DEF PlaceTypes, p
    <3> QED BY <1>2, <1>3, <1>8, <1>11, <2>2, <2>3, <3>1, Zenon DEF CurrentAt
  <2>5. CASE q # p
    <3>1. current'[q] = current[q] /\ home'[q] = home[q] /\ room'.placed[q] = room.placed[q]
      BY <1>1, <1>2, <1>8, <1>10, <2>5, Zenon DEF PlaceTypes
    <3> QED BY <1>8, <2>1, <2>2, <2>3, <3>1, ZenonT(30) DEF CurrentAt
  <2> QED BY <2>4, <2>5
<1>13. ASSUME NEW d \in Conns PROVE PendingAt(d, ps)'
  <2>1. CASE phase'[d] # "pending"
    BY <2>1 DEF PendingAt
  <2>2. CASE phase'[d] = "pending"
    <3>1. d # c /\ phase[d] = "pending" /\ place'[d] = place[d]
      BY <1>1, <1>2, <2>2, Zenon DEF PlaceTypes
    <3>2. PendingAt(d, ps) /\ Owner[d] \in Participants
      BY <1>1, <1>11, OwnerType
    <3>3. X.claimed[Owner[d]] = room.claimed[Owner[d]]
      <4>1. d \in room.claimants[Owner[d]]
        BY <1>1, <3>1, <3>2 DEF CurrentAt, Claimants
      <4> QED BY <1>10, <3>1, <3>2, <4>1
    <3> QED BY <1>8, <3>1, <3>2, <3>3 DEF PendingAt
  <2> QED BY <2>1, <2>2
<1> QED BY <1>1, <1>8, <1>9, <1>11, <1>12, <1>13, PlaceStep

\* An empty registry.
LEMMA PlaceInit ==
  ASSUME Init
  PROVE  PlaceInv
<1>1. /\ room = EmptyRoom /\ current = [p \in Participants |-> None]
      /\ home = [p \in Participants |-> None] /\ phase = [c \in Conns |-> "new"]
      /\ place = [c \in Conns |-> NoPlace]
  BY DEF Init
<1>2. /\ EmptyRoom.placed = [p \in Participants |-> None]
      /\ EmptyRoom.claimed = [p \in Participants |-> None]
      /\ EmptyRoom.claimants = [p \in Participants |-> {}] /\ EmptyRoom.partitions = <<>>
  BY DEF EmptyRoom
<1>3. <<>> \in Seq(Partition) /\ Len(<<>>) = 0 /\ 1 .. 0 = {} /\ None \in Nat
  BY DEF None
<1>4. EmptyRoom \in Rooms
  BY <1>3, Zenon DEF EmptyRoom, Rooms
<1>5. RoomSound(EmptyRoom)
  BY <1>2, <1>3, <1>4 DEF RoomSound, OnePlace, Counted
<1>6. \A p \in Participants : Claimants(p) = {}
  BY <1>1, Zenon DEF Claimants
<1> QED BY <1>1, <1>2, <1>3, <1>5, <1>6 DEF PlaceInv, NoPlace

\* A step elsewhere leaves placement alone.
LEMMA PlaceSame ==
  ASSUME PlaceInv, UNCHANGED vars
  PROVE  PlaceInv'
<1>1. UNCHANGED <<room, current, home, phase, place>>
  BY DEF vars
<1>2. \A p \in Participants : Claimants(p)' = Claimants(p)
  BY <1>1 DEF Claimants
<1> QED BY <1>1, <1>2 DEF PlaceInv

\* The counters of a sound room are exact.
LEMMA PlaceExact ==
  ASSUME PlaceInv
  PROVE  OccupancyExact
<1>1. Counted(room.placed, room.claimed, room.partitions) /\ room.partitions \in Seq(Partition)
  BY DEF PlaceInv, RoomSound, OnePlace
<1>2. Indices = 1 .. Len(room.partitions)
  BY <1>1 DEF Indices
<1>3. \A i : Occupants(i) = Holders(room.placed, room.claimed, i)
  BY DEF Occupants, Holders
<1> QED BY <1>1, <1>2, <1>3, Zenon DEF OccupancyExact, Counted

\* A sound room honours its claims.
LEMMA PlaceHonours ==
  ASSUME Counting, PlaceInv
  PROVE  ClaimsHonoured
<1>1. /\ RoomSound(room) /\ OnePlace(room.placed, room.claimed, room.partitions)
      /\ Counted(room.placed, room.claimed, room.partitions)
      /\ room.partitions \in Seq(Partition)
  BY DEF PlaceInv, RoomSound, OnePlace
<1>2. Indices = 1 .. Len(room.partitions) /\ DOMAIN room.partitions = Indices
      /\ Len(room.partitions) \in Nat
  BY <1>1 DEF Indices
<1>3. ASSUME NEW c \in Pending PROVE Claim(c)
  <2> DEFINE p == Owner[c]
             k == room.claimed[p]
  <2>1. c \in Conns /\ phase[c] = "pending" /\ p \in Participants
    BY <1>3, OwnerType DEF Pending
  <2>2. c \in room.claimants[p]
    BY <2>1 DEF PlaceInv, Claimants
  <2>3. k # None /\ k \in 1 .. Len(room.partitions)
    BY <1>1, <2>1, <2>2 DEF RoomSound, OnePlace
  <2>4. p \in Holders(room.placed, room.claimed, k)
    BY <2>1 DEF Holders
  <2>5. room.partitions[k].occupants > 0
    BY <1>1, <2>3, <2>4, HeldNotEmpty
  <2>6. place[c].slot = k /\ place[c].shard = room.partitions[k].shard
    BY <2>1 DEF PlaceInv
  <2> QED BY <1>2, <2>1, <2>2, <2>3, <2>5, <2>6 DEF Claim, Reserved
<1>4. ASSUME NEW p \in Participants, NEW i \in NextPartitionIndex(room, p),
             NEW s \in AdmissionShards(p, i)
      PROVE  /\ i <= Len(room.partitions) + 1
             /\ room.placed[p] \in {None, i} /\ room.claimed[p] \in {None, i}
             /\ i \in Indices /\ room.partitions[i].occupants > 0 => room.partitions[i].shard = s
  <2>1. room.placed[p] # None /\ room.claimed[p] # None => room.placed[p] = room.claimed[p]
    BY <1>1 DEF OnePlace
  <2>2. /\ i \in 1 .. Len(room.partitions) + 1
        /\ Held(room, p) => i = IF room.placed[p] # None THEN room.placed[p] ELSE room.claimed[p]
        /\ i <= Len(room.partitions) /\ room.partitions[i].occupants > 0 =>
             s = room.partitions[i].shard
    BY Chosen
  <2> QED BY <1>2, <2>1, <2>2 DEF Held
<1> QED BY <1>3, <1>4, Zenon DEF ClaimsHonoured
=============================================================================
