------------------------- MODULE NativeGrants_proofs -------------------------
(***************************************************************************)
(* Proofs about placement, leases and cutoffs, for any number of           *)
(* participants, connections and shards, every partition size and every    *)
(* pattern of joins, failures, departures, expiries and stopping shards:   *)
(* OccupancyExact, ClaimsHonoured, LeasesAgree, CreditExact and            *)
(* WithdrawnEverywhere.  The first part is what every step does to the     *)
(* leases and to the deletions and cutoffs in progress: the invariants     *)
(* LeaseInv and CutInv, and one lemma for each action.                     *)
(***************************************************************************)
EXTENDS NativeGrants, RoomPartitions_proofs, FiniteSetTheorems

-----------------------------------------------------------------------------
(* What the placement says of a connection.                                *)

\* A participant owns each connection.
LEMMA ConnOwner ==
  ASSUME NEW c \in Conns
  PROVE  Owner[c] \in Participants /\ c \in Nat /\ c # None
BY PartitionAssumption DEF Conns, None

\* The current connection of a participant, and the phase of a connection.
LEMMA PlacedFields ==
  ASSUME PlaceInv
  PROVE  PlaceTypes /\ \A q \in Participants : CurrentAt(q, room.partitions)
BY DEF PlaceInv, PlaceTypes, CurrentAt

-----------------------------------------------------------------------------
(* Leases.  The commands on their way to the endpoint of a current         *)
(* connection carry rising revisions above the one it holds, and the last  *)
(* carries the lease of the registry.                                      *)

Command ==
  [kind : {"grant"}, revision : Nat, expiry : Nat]
    \cup [kind : {"cutoff"}, task : Nat, success : BOOLEAN]

Granted(l) == l.revision \in Nat \ {0} /\ l.expiry \in Nat

\* The commands coming to an endpoint lead from what it holds to the lease l.
Leads(coming, known, l) ==
  /\ known.revision <= l.revision
  /\ \A k \in 1 .. Len(coming) : coming[k].kind = "grant" =>
       known.revision < coming[k].revision /\ coming[k].revision <= l.revision
  /\ \A j, k \in 1 .. Len(coming) :
       j < k /\ coming[j].kind = "grant" /\ coming[k].kind = "grant" =>
         coming[j].revision < coming[k].revision
  /\ \A k \in 1 .. Len(coming) :
       coming[k].kind = "grant" /\ (\A j \in k + 1 .. Len(coming) : coming[j].kind = "cutoff") =>
         coming[k].revision = l.revision /\ coming[k].expiry = l.expiry
  /\ (\A k \in 1 .. Len(coming) : coming[k].kind = "cutoff") =>
       known.revision = l.revision /\ known.expiry = l.expiry

Known == [revision : Nat, expiry : Nat]

\* The fields of a grant.
LEMMA GrantFields ==
  ASSUME NEW e \in Command
  PROVE  /\ e.kind \in {"grant", "cutoff"}
         /\ e.kind = "grant" => e.revision \in Nat /\ e.expiry \in Nat
BY DEF Command

\* A result of a cutoff says nothing of the lease.
LEMMA LeadsPastCutoff ==
  ASSUME NEW coming \in Seq(Command), NEW known \in Known, NEW l, Leads(coming, known, l),
         NEW e \in Command, e.kind = "cutoff"
  PROVE  Leads(Append(coming, e), known, l)
<1> DEFINE n == Len(coming)
           all == Append(coming, e)
<1>1. /\ n \in Nat /\ Len(all) = n + 1 /\ all[n + 1] = e
      /\ \A k \in 1 .. n : all[k] = coming[k]
  OBVIOUS
<1>2. \A k \in 1 .. n + 1 : k \in 1 .. n \/ k = n + 1
  BY <1>1
<1> HIDE DEF all
<1>3. \A k \in 1 .. Len(all) : all[k].kind = "grant" => k \in 1 .. n /\ coming[k].kind = "grant" /\ all[k] = coming[k]
  BY <1>1, <1>2
<1>4. \A k \in 1 .. Len(all) : all[k].kind = "grant" =>
        known.revision < all[k].revision /\ all[k].revision <= l.revision
  BY <1>1, <1>3 DEF Leads
<1>5. \A j, k \in 1 .. Len(all) :
        j < k /\ all[j].kind = "grant" /\ all[k].kind = "grant" => all[j].revision < all[k].revision
  BY <1>1, <1>3 DEF Leads
<1>6. ASSUME NEW k \in 1 .. Len(all), all[k].kind = "grant",
             \A j \in k + 1 .. Len(all) : all[j].kind = "cutoff"
      PROVE  all[k].revision = l.revision /\ all[k].expiry = l.expiry
  <2>1. k \in 1 .. n /\ coming[k].kind = "grant" /\ all[k] = coming[k]
    BY <1>3, <1>6
  <2>2. \A j \in k + 1 .. n : j \in k + 1 .. Len(all) /\ j \in 1 .. n
    BY <1>1, <2>1
  <2>3. \A j \in k + 1 .. n : coming[j].kind = "cutoff"
    BY <1>1, <1>6, <2>2
  <2> QED BY <2>1, <2>3, Zenon DEF Leads
<1>7. (\A k \in 1 .. Len(all) : all[k].kind = "cutoff") =>
        known.revision = l.revision /\ known.expiry = l.expiry
  <2>1. \A k \in 1 .. n : k \in 1 .. Len(all)
    BY <1>1
  <2> QED BY <1>1, <2>1 DEF Leads
<1>8. known.revision <= l.revision
  BY DEF Leads
<1> QED BY <1>4, <1>5, <1>6, <1>7, <1>8 DEF Leads, all

\* A later lease is announced.
LEMMA LeadsToGrant ==
  ASSUME NEW coming \in Seq(Command), NEW known \in Known, NEW l, Granted(l), Leads(coming, known, l),
         NEW e \in Command, e.kind = "grant", NEW m, m.revision = l.revision + 1,
         e.revision = m.revision, e.expiry = m.expiry
  PROVE  Leads(Append(coming, e), known, m)
<1> DEFINE n == Len(coming)
           all == Append(coming, e)
<1>1. /\ n \in Nat /\ Len(all) = n + 1 /\ all[n + 1] = e /\ \A k \in 1 .. n : coming[k] \in Command
      /\ \A k \in 1 .. n : all[k] = coming[k]
  OBVIOUS
<1>2. \A k \in 1 .. n + 1 : k \in 1 .. n \/ k = n + 1
  BY <1>1
<1> HIDE DEF all
<1>3. l.revision \in Nat /\ known.revision \in Nat /\ known.revision <= l.revision
  BY DEF Granted, Known, Leads
<1>4. \A k \in 1 .. n : coming[k].kind = "grant" =>
        /\ coming[k].revision \in Nat /\ known.revision < coming[k].revision
        /\ coming[k].revision <= l.revision
  BY <1>1, GrantFields DEF Leads
<1>5. \A k \in 1 .. Len(all) : all[k].kind = "grant" =>
        known.revision < all[k].revision /\ all[k].revision <= m.revision
  BY <1>1, <1>2, <1>3, <1>4
<1>6. ASSUME NEW j \in 1 .. Len(all), NEW k \in 1 .. Len(all),
             j < k, all[j].kind = "grant", all[k].kind = "grant"
      PROVE  all[j].revision < all[k].revision
  <2>1. j \in 1 .. n
    BY <1>1, <1>6
  <2>2. CASE k \in 1 .. n
    BY <1>1, <1>6, <2>1, <2>2 DEF Leads
  <2>3. CASE k = n + 1
    BY <1>1, <1>3, <1>4, <1>6, <2>1, <2>3
  <2> QED BY <1>1, <1>2, <2>2, <2>3
<1>7. ASSUME NEW k \in 1 .. Len(all), \A j \in k + 1 .. Len(all) : all[j].kind = "cutoff"
      PROVE  k = n + 1
  <2>1. CASE k \in 1 .. n
    <3>1. n + 1 \in k + 1 .. Len(all)
      BY <1>1, <2>1
    <3>2. e.kind = "cutoff"
      BY <1>1, <1>7, <3>1
    <3> QED BY <3>2
  <2> QED BY <1>1, <1>2, <2>1
<1>8. (\A k \in 1 .. Len(all) : all[k].kind = "cutoff") => FALSE
  <2>1. n + 1 \in 1 .. Len(all)
    BY <1>1
  <2> QED BY <1>1, <2>1
<1>9. known.revision <= m.revision
  BY <1>3
<1> QED BY <1>1, <1>5, <1>6, <1>7, <1>8, <1>9, Zenon DEF Leads, all

\* The endpoint takes a command.
LEMMA LeadsTaken ==
  ASSUME NEW coming \in Seq(Command), coming # <<>>, NEW known \in Known, NEW l, Leads(coming, known, l),
         NEW next \in Known,
         IF Head(coming).kind = "cutoff" THEN next = known
         ELSE next.revision = Head(coming).revision /\ next.expiry = Head(coming).expiry
  PROVE  /\ Leads(Tail(coming), next, l)
         /\ Head(coming).kind # "cutoff" => Head(coming).revision > known.revision
<1> DEFINE n == Len(coming)
           rest == Tail(coming)
<1>1. /\ n \in Nat \ {0} /\ Len(rest) = n - 1 /\ Head(coming) = coming[1] /\ coming[1] \in Command
      /\ \A k \in 1 .. Len(rest) : rest[k] = coming[k + 1] /\ k + 1 \in 1 .. n
  OBVIOUS
<1> HIDE DEF rest
<1>2. coming[1].kind \in {"grant", "cutoff"}
  BY <1>1, GrantFields
<1>3. ASSUME NEW k \in 1 .. Len(rest), rest[k].kind = "grant"
      PROVE  next.revision < rest[k].revision /\ rest[k].revision <= l.revision
  <2>1. CASE coming[1].kind = "cutoff"
    BY <1>1, <1>3, <2>1 DEF Leads
  <2>2. CASE coming[1].kind = "grant"
    <3>1. 1 \in 1 .. n /\ 1 < k + 1
      BY <1>1
    <3> QED BY <1>1, <1>3, <2>2, <3>1, Zenon DEF Leads
  <2> QED BY <1>2, <2>1, <2>2
<1>4. ASSUME NEW j \in 1 .. Len(rest), NEW k \in 1 .. Len(rest),
             j < k, rest[j].kind = "grant", rest[k].kind = "grant"
      PROVE  rest[j].revision < rest[k].revision
  <2>1. j + 1 \in 1 .. n /\ k + 1 \in 1 .. n /\ j + 1 < k + 1
    BY <1>1, <1>4
  <2> QED BY <1>1, <1>4, <2>1, Zenon DEF Leads
<1>5. ASSUME NEW k \in 0 .. Len(rest), \A j \in k + 1 .. Len(rest) : rest[j].kind = "cutoff"
      PROVE  \A j \in k + 2 .. n : coming[j].kind = "cutoff"
  <2>1. ASSUME NEW j \in k + 2 .. n PROVE coming[j].kind = "cutoff"
    <3>1. j - 1 \in k + 1 .. Len(rest) /\ j - 1 \in 1 .. Len(rest) /\ (j - 1) + 1 = j
      BY <1>1
    <3>2. rest[j - 1] = coming[(j - 1) + 1]
      BY <1>1, <3>1
    <3> QED BY <1>5, <3>1, <3>2, Zenon
  <2> QED BY <2>1
<1>6. ASSUME NEW k \in 1 .. Len(rest), rest[k].kind = "grant",
             \A j \in k + 1 .. Len(rest) : rest[j].kind = "cutoff"
      PROVE  rest[k].revision = l.revision /\ rest[k].expiry = l.expiry
  <2>1. k \in 0 .. Len(rest) /\ (k + 1) + 1 = k + 2
    BY <1>1
  <2>2. \A j \in (k + 1) + 1 .. n : coming[j].kind = "cutoff"
    BY <1>5, <1>6, <2>1, Zenon
  <2> QED BY <1>1, <1>6, <2>2 DEF Leads
<1>7. ASSUME \A k \in 1 .. Len(rest) : rest[k].kind = "cutoff"
      PROVE  next.revision = l.revision /\ next.expiry = l.expiry
  <2>1. \A j \in 1 + 1 .. n : coming[j].kind = "cutoff"
    <3>1. 0 \in 0 .. Len(rest)
      BY <1>1
    <3>2. \A j \in 0 + 2 .. n : coming[j].kind = "cutoff"
      BY <1>5, <1>7, <3>1
    <3> QED BY <3>2
  <2>2. CASE coming[1].kind = "cutoff"
    <3>1. \A j \in 1 .. n : j = 1 \/ j \in 1 + 1 .. n
      BY <1>1
    <3>2. \A j \in 1 .. n : coming[j].kind = "cutoff"
      BY <2>1, <2>2, <3>1
    <3> QED BY <1>1, <2>2, <3>2 DEF Leads
  <2>3. CASE coming[1].kind = "grant"
    <3>1. 1 \in 1 .. n
      BY <1>1
    <3>2. coming[1].revision = l.revision /\ coming[1].expiry = l.expiry
      BY <2>1, <2>3, <3>1 DEF Leads
    <3> QED BY <1>1, <2>3, <3>2
  <2> QED BY <1>2, <2>2, <2>3
<1>8. next.revision <= l.revision
  <2>1. 1 \in 1 .. n
    BY <1>1
  <2> QED BY <1>1, <1>2, <2>1 DEF Leads
<1>9. coming[1].kind = "grant" => coming[1].revision > known.revision
  <2>1. 1 \in 1 .. n
    BY <1>1
  <2>2. coming[1].kind = "grant" => known.revision < coming[1].revision
    BY <2>1 DEF Leads
  <2>3. coming[1].kind = "grant" => coming[1].revision \in Nat /\ known.revision \in Nat
    BY <1>1, GrantFields DEF Known
  <2> QED BY <2>2, <2>3
<1>10. Leads(rest, next, l)
  BY <1>3, <1>4, <1>6, <1>7, <1>8 DEF Leads
<1> QED BY <1>1, <1>2, <1>9, <1>10 DEF rest

\* The entries of a participant and of a connection.
LeaseAt(q) ==
  /\ lease[q] = NoLease \/ Granted(lease[q])
  /\ current[q] = None => lease[q] = NoLease
  /\ current[q] # None => Leads(lane[current[q]], view[current[q]], lease[q])

LaneAt(c) ==
  /\ offered[c] = NoLease \/ Granted(offered[c])
  /\ phase[c] # "done" => lane[c] = <<>>
  /\ phase[c] = "pending" =>
       view[c].revision = offered[c].revision /\ view[c].expiry = offered[c].expiry

LeaseTypes ==
  /\ wall \in Nat /\ limit \in Limits
  /\ lane \in [Conns -> Seq(Command)] /\ view \in [Conns -> Known]
  /\ DOMAIN offered = Conns /\ DOMAIN lease = Participants
  /\ offered = [c \in Conns |-> offered[c]] /\ lease = [q \in Participants |-> lease[q]]

Timers(cur, ls) == UNION {Works(q, cur[q], ls[q]) : q \in Participants}

LeaseInv ==
  /\ LeaseTypes
  /\ \A q \in Participants : LeaseAt(q)
  /\ \A c \in Conns : LaneAt(c)
  /\ expiries = Timers(current, lease)

\* A timer belongs to a lease.
LEMMA TimerOf ==
  ASSUME NEW cur, NEW ls
  PROVE  \A w : w \in Timers(cur, ls) <=>
           \E q \in Participants : ls[q] # NoLease /\ w = Work(q, cur[q], ls[q])
BY DEF Timers, Works

\* Timers of different participants differ.
LEMMA TimersDiffer ==
  ASSUME NEW p, NEW q, p # q, NEW c, NEW d, NEW l, NEW m
  PROVE  Work(p, c, l) # Work(q, d, m)
<1>1. Work(p, c, l).participant = p /\ Work(q, d, m).participant = q
  BY DEF Work
<1> QED BY <1>1

OthersSame(cur, ls, cur2, ls2, p) ==
  \A q \in Participants : q # p => cur2[q] = cur[q] /\ ls2[q] = ls[q]

\* A participant with another lease or connection has another timer.
LEMMA TimersChange ==
  ASSUME NEW cur, NEW ls, NEW cur2, NEW ls2, NEW p \in Participants,
         OthersSame(cur, ls, cur2, ls2, p)
  PROVE  Timers(cur2, ls2) = (Timers(cur, ls) \ Works(p, cur[p], ls[p])) \cup Works(p, cur2[p], ls2[p])
<1>1. ASSUME NEW w
      PROVE  w \in Timers(cur2, ls2) <=>
               \/ w \in Timers(cur, ls) /\ w \notin Works(p, cur[p], ls[p])
               \/ w \in Works(p, cur2[p], ls2[p])
  <2>1. CASE w \in Timers(cur2, ls2)
    <3>1. PICK q \in Participants : ls2[q] # NoLease /\ w = Work(q, cur2[q], ls2[q])
      BY <2>1, TimerOf
    <3>2. CASE q = p
      BY <2>1, <3>1, <3>2, Zenon DEF Works
    <3>3. CASE q # p
      <4>1. w = Work(q, cur[q], ls[q]) /\ ls[q] # NoLease
        BY <3>1, <3>3, Zenon DEF OthersSame
      <4>2. w \notin Works(p, cur[p], ls[p])
        BY <3>3, <4>1, TimersDiffer DEF Works
      <4> QED BY <2>1, <4>1, <4>2, TimerOf
    <3> QED BY <3>2, <3>3
  <2>2. CASE w \in Timers(cur, ls) /\ w \notin Works(p, cur[p], ls[p])
    <3>1. PICK q \in Participants : ls[q] # NoLease /\ w = Work(q, cur[q], ls[q])
      BY <2>2, TimerOf
    <3>2. q # p
      BY <2>2, <3>1 DEF Works
    <3>3. ls2[q] # NoLease /\ w = Work(q, cur2[q], ls2[q])
      BY <3>1, <3>2 DEF OthersSame
    <3> QED BY <2>2, <3>3, TimerOf
  <2>3. CASE w \in Works(p, cur2[p], ls2[p])
    <3>1. ls2[p] # NoLease /\ w = Work(p, cur2[p], ls2[p])
      BY <2>3 DEF Works
    <3> QED BY <2>3, <3>1, TimerOf
  <2> QED BY <2>1, <2>2, <2>3, Zenon
<1> QED BY <1>1

\* Only the revision and the expiry of a lease go to the endpoint.
LEMMA LeadsSame ==
  ASSUME NEW coming, NEW known, NEW l, Leads(coming, known, l),
         NEW m, m.revision = l.revision, m.expiry = l.expiry
  PROVE  Leads(coming, known, m)
BY DEF Leads

\* Nothing is on its way to an endpoint that was told at its request.
LEMMA LeadsNowhere ==
  ASSUME NEW known \in Known, NEW l, known.revision = l.revision, known.expiry = l.expiry
  PROVE  Leads(<<>>, known, l)
<1>1. Len(<<>>) = 0 /\ 1 .. Len(<<>>) = {}
  OBVIOUS
<1>2. known.revision <= l.revision
  BY DEF Known
<1> QED BY <1>1, <1>2 DEF Leads

\* Nothing about leases changes.
LEMMA LeaseSame ==
  ASSUME LeaseInv, wall' \in Nat, UNCHANGED <<current, phase, leaseVars, lane, limit>>
  PROVE  LeaseInv'
<1>1. LeaseTypes'
  BY DEF LeaseInv, LeaseTypes, leaseVars
<1>2. \A q \in Participants : LeaseAt(q)'
  BY DEF LeaseInv, LeaseAt, leaseVars
<1>3. \A c \in Conns : LaneAt(c)'
  BY DEF LeaseInv, LaneAt, leaseVars
<1>4. expiries' = Timers(current', lease')
  BY DEF LeaseInv, leaseVars
<1> QED BY <1>1, <1>2, <1>3, <1>4 DEF LeaseInv

\* A result on its way to an endpoint.
LEMMA LeaseTold ==
  ASSUME LeaseInv, PlaceInv, NEW c, NEW i \in Nat, NEW ok \in BOOLEAN, lane' = Told(c, i, ok),
         UNCHANGED <<current, phase, leaseVars, wall, limit>>
  PROVE  LeaseInv'
<1> DEFINE e == [kind |-> "cutoff", task |-> i, success |-> ok]
<1>1. e \in Command /\ e.kind = "cutoff"
  BY DEF Command
<1>2. lane \in [Conns -> Seq(Command)] /\ view \in [Conns -> Known]
  BY DEF LeaseInv, LeaseTypes
<1>3. CASE lane' = lane
  BY <1>3, LeaseSame DEF LeaseInv, LeaseTypes
<1>4. CASE lane' # lane
  <2>1. current[Owner[c]] = c /\ lane' = [lane EXCEPT ![c] = Append(@, e)]
    BY <1>4 DEF Told
  <2> HIDE DEF e
  <2>2. c \in Conns
    BY <1>2, <1>4, <2>1
  <2>3. /\ lane' \in [Conns -> Seq(Command)] /\ lane'[c] = Append(lane[c], e)
        /\ \A d \in Conns : d # c => lane'[d] = lane[d]
    BY <1>1, <1>2, <2>1, <2>2
  <2>4. LeaseTypes'
    BY <2>3 DEF LeaseInv, LeaseTypes, leaseVars
  <2>5. phase[c] = "done"
    BY <2>1, <2>2, ConnOwner DEF PlaceInv
  <2>6. ASSUME NEW q \in Participants PROVE LeaseAt(q)'
    <3>1. LeaseAt(q)
      BY DEF LeaseInv
    <3>2. CASE current[q] = c /\ c # None
      <4>1. Leads(lane[c], view[c], lease[q])
        BY <3>1, <3>2 DEF LeaseAt
      <4>2. Leads(lane'[c], view[c], lease[q])
        <5>1. lane[c] \in Seq(Command) /\ view[c] \in Known
          BY <1>2, <2>2, Zenon
        <5> QED BY <1>1, <2>3, <4>1, <5>1, LeadsPastCutoff, Zenon
      <4> QED BY <3>1, <3>2, <4>2, Zenon DEF LeaseAt, leaseVars
    <3>3. CASE current[q] # c /\ current[q] # None
      <4>1. current[q] \in Conns
        BY <3>3 DEF PlaceInv
      <4> QED BY <2>3, <3>1, <3>3, <4>1, Zenon DEF LeaseAt, leaseVars
    <3>4. CASE current[q] = None
      BY <3>1, <3>4 DEF LeaseAt, leaseVars
    <3> QED BY <3>2, <3>3, <3>4
  <2>7. ASSUME NEW d \in Conns PROVE LaneAt(d)'
    <3>1. LaneAt(d)
      BY DEF LeaseInv
    <3> QED BY <2>3, <2>5, <3>1 DEF LaneAt, leaseVars
  <2>8. expiries' = Timers(current', lease')
    BY DEF LeaseInv, leaseVars
  <2> QED BY <2>4, <2>6, <2>7, <2>8 DEF LeaseInv
<1> QED BY <1>3, <1>4

\* A connection is requested: it is not the current one of anybody.
LEMMA LeaseBegin ==
  ASSUME LeaseInv, PlaceInv, NEW c \in Conns, BeginGranted(c)
  PROVE  LeaseInv'
<1>1. PICK l \in (IF limit.expiries = {} THEN {NoLease}
                  ELSE {Lease(e, 1) : e \in {x \in limit.expiries : x > wall}}) :
        /\ offered' = [offered EXCEPT ![c] = l]
        /\ view' = [view EXCEPT ![c] = [revision |-> l.revision, expiry |-> l.expiry]]
  BY Zenon DEF BeginGranted
<1>2. /\ phase[c] = "new" /\ UNCHANGED <<current, wall, lease, expiries, lane, limit>>
      /\ \E t \in {"pending", "done"} : phase' = [phase EXCEPT ![c] = t]
  BY DEF BeginGranted, Begin, clocks
<1>3. /\ l = NoLease \/ Granted(l)
      /\ l.revision \in Nat /\ l.expiry \in Nat
  <2>1. CASE l = NoLease
    BY <2>1 DEF NoLease
  <2>2. CASE l # NoLease
    <3>1. PICK e \in limit.expiries : l = Lease(e, 1)
      BY <2>2
    <3>2. e \in Nat
      BY GrantsAssumption DEF LeaseInv, LeaseTypes
    <3>3. l.revision = 1 /\ l.expiry = e
      BY <3>1 DEF Lease
    <3> QED BY <3>2, <3>3 DEF Granted
  <2> QED BY <2>1, <2>2
<1>4. /\ LeaseTypes /\ PlaceTypes /\ expiries = Timers(current, lease)
      /\ \A q \in Participants : LeaseAt(q) /\ (current[q] # None => current[q] \in Conns /\ current[q] # c)
      /\ \A d \in Conns : LaneAt(d)
  BY <1>2, PlacedFields DEF LeaseInv, CurrentAt
<1>5. /\ view' \in [Conns -> Known] /\ view'[c].revision = l.revision /\ view'[c].expiry = l.expiry
      /\ \A d \in Conns : d # c => view'[d] = view[d] /\ offered'[d] = offered[d] /\ phase'[d] = phase[d]
      /\ offered'[c] = l /\ DOMAIN offered' = Conns /\ offered' = [d \in Conns |-> offered'[d]]
  BY <1>1, <1>2, <1>3, <1>4, Zenon DEF LeaseTypes, PlaceTypes, Known
<1>6. LeaseTypes'
  BY <1>2, <1>4, <1>5 DEF LeaseTypes
<1>7. ASSUME NEW q \in Participants PROVE LeaseAt(q)'
  BY <1>2, <1>4, <1>5 DEF LeaseAt
<1>8. ASSUME NEW d \in Conns PROVE LaneAt(d)'
  <2>1. CASE d = c
    BY <1>2, <1>3, <1>4, <1>5, <2>1, Zenon DEF LaneAt
  <2>2. CASE d # c
    BY <1>2, <1>4, <1>5, <2>2 DEF LaneAt
  <2> QED BY <2>1, <2>2, Zenon
<1> QED BY <1>2, <1>4, <1>6, <1>7, <1>8 DEF LeaseInv

\* The candidate brings the lease it was requested with, the lease of the previous
\* connection goes.
LEMMA LeaseCommit ==
  ASSUME LeaseInv, PlaceInv, NEW c \in Conns, CommitGranted(c)
  PROVE  LeaseInv'
<1> DEFINE p == Owner[c]
<1>1. /\ p \in Participants /\ c \in Nat /\ c # None
  BY ConnOwner
<1>2. /\ phase[c] = "pending" /\ phase' = [phase EXCEPT ![c] = "done"]
      /\ current' = [current EXCEPT ![p] = c]
      /\ lease' = [lease EXCEPT ![p] = offered[c]]
      /\ expiries' = (expiries \cup Works(p, c, offered[c])) \ Works(p, current[p], lease[p])
      /\ UNCHANGED <<wall, offered, view, lane, limit>>
  BY Zenon DEF CommitGranted, Commit, Pending, clocks
<1>3. /\ LeaseTypes /\ PlaceTypes /\ expiries = Timers(current, lease)
      /\ \A q \in Participants : LeaseAt(q) /\ (current[q] # None => current[q] \in Conns /\ current[q] # c)
      /\ \A d \in Conns : LaneAt(d)
  BY <1>2, PlacedFields DEF LeaseInv, CurrentAt
<1> HIDE DEF p
<1>4. /\ current'[p] = c /\ lease'[p] = offered[c] /\ DOMAIN lease' = Participants
      /\ lease' = [q \in Participants |-> lease'[q]]
      /\ \A q \in Participants : q # p => current'[q] = current[q] /\ lease'[q] = lease[q]
      /\ \A d \in Conns : phase'[d] = IF d = c THEN "done" ELSE phase[d]
  BY <1>1, <1>2, <1>3, ZenonT(30) DEF LeaseTypes, PlaceTypes
<1>5. LeaseTypes'
  BY <1>2, <1>3, <1>4 DEF LeaseTypes
<1>6. ASSUME NEW q \in Participants PROVE LeaseAt(q)'
  <2>1. CASE q = p
    <3>1. lane[c] = <<>> /\ view[c] \in Known
      BY <1>2, <1>3, Zenon DEF LaneAt, LeaseTypes
    <3>2. Leads(<<>>, view[c], offered[c])
      BY <1>2, <1>3, <3>1, LeadsNowhere, Zenon DEF LaneAt
    <3> QED BY <1>1, <1>2, <1>3, <1>4, <2>1, <3>1, <3>2 DEF LeaseAt, LaneAt
  <2>2. CASE q # p
    BY <1>2, <1>3, <1>4, <2>2 DEF LeaseAt
  <2> QED BY <2>1, <2>2
<1>7. ASSUME NEW d \in Conns PROVE LaneAt(d)'
  BY <1>2, <1>3, <1>4 DEF LaneAt
<1>8. expiries' = Timers(current', lease')
  <2>1. Timers(current', lease') =
          (Timers(current, lease) \ Works(p, current[p], lease[p])) \cup Works(p, current'[p], lease'[p])
    <3>1. OthersSame(current, lease, current', lease', p)
      BY <1>4 DEF OthersSame
    <3> QED BY <1>1, <3>1, TimersChange
  <2>2. \A w \in Works(p, c, offered[c]) : w \notin Works(p, current[p], lease[p])
    <3>1. current[p] # c
      BY <1>1, <1>3
    <3>2. Work(p, c, offered[c]).connection = c /\ Work(p, current[p], lease[p]).connection = current[p]
      BY DEF Work
    <3> QED BY <3>1, <3>2 DEF Works
  <2> QED BY <1>2, <1>3, <1>4, <2>1, <2>2, Zenon
<1> QED BY <1>3, <1>5, <1>6, <1>7, <1>8 DEF LeaseInv

\* A materialisation given up was never told of a lease in force.
LEMMA LeaseCancel ==
  ASSUME LeaseInv, PlaceInv, NEW c \in Conns, CancelGranted(c)
  PROVE  LeaseInv'
<1>1. /\ phase' = [phase EXCEPT ![c] = "done"] /\ UNCHANGED <<current, wall, leaseVars, lane, limit>>
  BY DEF CancelGranted, Cancel, grantVars, clocks
<1>2. phase \in [Conns -> {"new", "pending", "done"}]
  BY DEF PlaceInv
<1>3. LeaseTypes' /\ expiries' = Timers(current', lease')
  BY <1>1 DEF LeaseInv, LeaseTypes, leaseVars
<1>4. ASSUME NEW q \in Participants PROVE LeaseAt(q)'
  BY <1>1 DEF LeaseInv, LeaseAt, leaseVars
<1>5. ASSUME NEW d \in Conns PROVE LaneAt(d)'
  <2>1. LaneAt(d) /\ (phase'[d] # "done" => phase[d] = phase'[d])
    BY <1>1, <1>2 DEF LeaseInv
  <2> QED BY <1>1, <2>1 DEF LaneAt, leaseVars
<1> QED BY <1>3, <1>4, <1>5 DEF LeaseInv

\* remove_incarnation takes the lease and its timer along.
LEMMA LeaseEnded ==
  ASSUME LeaseInv, PlaceInv, NEW p \in Participants, Leave(p), Ended(p), UNCHANGED <<lane, limit>>
  PROVE  LeaseInv'
<1>1. /\ current' = [current EXCEPT ![p] = None] /\ lease' = [lease EXCEPT ![p] = NoLease]
      /\ expiries' = expiries \ Works(p, current[p], lease[p])
      /\ UNCHANGED <<phase, wall, offered, view, lane, limit>>
  BY DEF Leave, Ended, clocks
<1>2. /\ LeaseTypes /\ PlaceTypes /\ expiries = Timers(current, lease)
      /\ \A q \in Participants : LeaseAt(q)
      /\ \A d \in Conns : LaneAt(d)
  BY PlacedFields DEF LeaseInv
<1>3. /\ current'[p] = None /\ lease'[p] = NoLease /\ DOMAIN lease' = Participants
      /\ lease' = [q \in Participants |-> lease'[q]]
      /\ \A q \in Participants : q # p => current'[q] = current[q] /\ lease'[q] = lease[q]
  BY <1>1, <1>2, Zenon DEF LeaseTypes, PlaceTypes
<1>4. LeaseTypes'
  BY <1>1, <1>2, <1>3 DEF LeaseTypes
<1>5. ASSUME NEW q \in Participants PROVE LeaseAt(q)'
  <2>1. CASE q = p
    BY <1>3, <2>1 DEF LeaseAt
  <2>2. CASE q # p
    BY <1>1, <1>2, <1>3, <2>2, ZenonT(60) DEF LeaseAt
  <2> QED BY <2>1, <2>2
<1>6. ASSUME NEW d \in Conns PROVE LaneAt(d)'
  BY <1>1, <1>2 DEF LaneAt
<1>7. expiries' = Timers(current', lease')
  <2>1. Timers(current', lease') =
          (Timers(current, lease) \ Works(p, current[p], lease[p])) \cup Works(p, current'[p], lease'[p])
    <3>1. OthersSame(current, lease, current', lease', p)
      BY <1>3 DEF OthersSame
    <3> QED BY <3>1, TimersChange
  <2>2. Works(p, current'[p], lease'[p]) = {}
    BY <1>3, Zenon DEF Works
  <2> QED BY <1>1, <1>2, <2>1, <2>2, Zenon
<1> QED BY <1>4, <1>5, <1>6, <1>7 DEF LeaseInv

\* replace_authorization: the next revision, its timer, and the command that tells.
LEMMA LeaseReplace ==
  ASSUME LeaseInv, PlaceInv, NEW c \in Conns, NEW expiry \in limit.expiries, Replace(c, expiry)
  PROVE  LeaseInv'
<1> DEFINE p == Owner[c]
           l == Lease(expiry, lease[p].revision + 1)
           e == [kind |-> "grant", revision |-> l.revision, expiry |-> expiry]
<1>1. /\ p \in Participants /\ c \in Nat /\ c # None
  BY ConnOwner, Zenon
<1>2. /\ current[p] = c /\ lease[p] # NoLease
      /\ expiries' = (expiries \ {Work(p, c, lease[p])}) \cup {Work(p, c, l)}
      /\ lease' = [lease EXCEPT ![p] = l]
      /\ lane' = [lane EXCEPT ![c] = Append(@, e)]
      /\ UNCHANGED <<current, phase, wall, offered, view, limit>>
  BY Zenon DEF Replace, Install, vars, clocks
<1>3. /\ LeaseTypes /\ PlaceTypes /\ expiries = Timers(current, lease)
      /\ \A q \in Participants : /\ LeaseAt(q)
                                 /\ current[q] # None => current[q] \in Conns /\ Owner[current[q]] = q
      /\ \A d \in Conns : LaneAt(d)
      /\ phase[c] = "done"
  BY <1>1, <1>2, PlacedFields DEF LeaseInv, CurrentAt
<1>4. Granted(lease[p]) /\ expiry \in Nat
  BY <1>1, <1>2, <1>3, GrantsAssumption, Zenon DEF LeaseAt, LeaseTypes
<1>5. l.revision = lease[p].revision + 1 /\ l.expiry = expiry /\ Granted(l) /\ l # NoLease
  <2>1. l.revision = lease[p].revision + 1 /\ l.expiry = expiry
    BY DEF Lease
  <2> HIDE DEF l
  <2>2. l.revision \in Nat \ {0}
    BY <1>4, <2>1 DEF Granted
  <2> QED BY <1>4, <2>1, <2>2 DEF Granted, NoLease
<1> HIDE DEF l, p
<1>6. e \in Command /\ e.kind = "grant" /\ e.revision = l.revision /\ e.expiry = expiry
  BY <1>4, <1>5 DEF Command, Granted
<1> HIDE DEF e
<1>7. /\ lease'[p] = l /\ DOMAIN lease' = Participants /\ lease' = [q \in Participants |-> lease'[q]]
      /\ \A q \in Participants : q # p => lease'[q] = lease[q]
  BY <1>1, <1>2, <1>3, Zenon DEF LeaseTypes
<1>8. /\ lane' \in [Conns -> Seq(Command)] /\ lane'[c] = Append(lane[c], e)
      /\ \A d \in Conns : d # c => lane'[d] = lane[d]
  BY <1>2, <1>3, <1>6 DEF LeaseTypes
<1>9. LeaseTypes'
  BY <1>2, <1>3, <1>7, <1>8 DEF LeaseTypes
<1>10. ASSUME NEW q \in Participants PROVE LeaseAt(q)'
  <2>1. CASE q = p
    <3>1. Leads(lane[c], view[c], lease[p]) /\ lane[c] \in Seq(Command) /\ view[c] \in Known
      BY <1>1, <1>2, <1>3 DEF LeaseAt, LeaseTypes
    <3>2. Leads(lane'[c], view[c], l)
      BY <1>4, <1>5, <1>6, <1>8, <3>1, LeadsToGrant, ZenonT(30)
    <3> QED BY <1>1, <1>2, <1>5, <1>7, <2>1, <3>2, Zenon DEF LeaseAt
  <2>2. CASE q # p
    <3>1. current[q] # None => current[q] # c
      BY <1>3, <2>2, Zenon DEF p
    <3> QED BY <1>2, <1>3, <1>7, <1>8, <2>2, <3>1, Zenon DEF LeaseAt
  <2> QED BY <2>1, <2>2
<1>11. ASSUME NEW d \in Conns PROVE LaneAt(d)'
  BY <1>2, <1>3, <1>8 DEF LaneAt
<1>12. expiries' = Timers(current', lease')
  <2>1. Timers(current', lease') =
          (Timers(current, lease) \ Works(p, current[p], lease[p])) \cup Works(p, current'[p], lease'[p])
    <3>1. OthersSame(current, lease, current', lease', p)
      BY <1>2, <1>7, Zenon DEF OthersSame
    <3> QED BY <1>1, <3>1, TimersChange
  <2>2. /\ Works(p, current'[p], lease'[p]) = {Work(p, c, l)}
        /\ Works(p, current[p], lease[p]) = {Work(p, c, lease[p])}
    BY <1>2, <1>5, <1>7, Zenon DEF Works
  <2> QED BY <1>2, <1>3, <2>1, <2>2, Zenon
<1> QED BY <1>9, <1>10, <1>11, <1>12, Zenon DEF LeaseInv

\* The endpoint takes a command.
LEMMA LeaseDeliver ==
  ASSUME LeaseInv, PlaceInv, NEW c \in Conns, Deliver(c)
  PROVE  LeaseInv'
<1> DEFINE command == Head(lane[c])
<1>1. /\ lane[c] # <<>> /\ lane' = [lane EXCEPT ![c] = Tail(@)]
      /\ UNCHANGED <<current, phase, wall, offered, lease, expiries, limit>>
  BY DEF Deliver, vars, clocks
<1>2. view' = IF command.kind # "cutoff" /\ command.revision > view[c].revision
              THEN [view EXCEPT ![c] = [revision |-> command.revision, expiry |-> command.expiry]]
              ELSE view
  BY DEF Deliver
<1>3. /\ LeaseTypes /\ PlaceTypes /\ expiries = Timers(current, lease)
      /\ \A q \in Participants : LeaseAt(q) /\ (current[q] # None => current[q] \in Conns)
      /\ \A d \in Conns : LaneAt(d)
  BY PlacedFields DEF LeaseInv, CurrentAt
<1>4. lane[c] \in Seq(Command) /\ view[c] \in Known /\ command \in Command /\ phase[c] = "done"
  BY <1>1, <1>3 DEF LeaseTypes, LaneAt
<1>5. /\ lane' \in [Conns -> Seq(Command)] /\ lane'[c] = Tail(lane[c])
      /\ \A d \in Conns : d # c => lane'[d] = lane[d]
  BY <1>1, <1>3, <1>4 DEF LeaseTypes
<1> HIDE DEF command
<1>6. /\ command.kind \in {"grant", "cutoff"}
      /\ command.kind = "grant" => command.revision \in Nat /\ command.expiry \in Nat
  BY <1>4, GrantFields, Zenon
<1>7. /\ view' \in [Conns -> Known]
      /\ \A d \in Conns : d # c => view'[d] = view[d]
      /\ IF command.kind = "grant" /\ command.revision > view[c].revision
         THEN view'[c].revision = command.revision /\ view'[c].expiry = command.expiry
         ELSE view'[c] = view[c]
  <2>1. CASE command.kind = "grant" /\ command.revision > view[c].revision
    <3>1. [revision |-> command.revision, expiry |-> command.expiry] \in Known
      BY <1>6, <2>1 DEF Known
    <3> QED BY <1>2, <1>3, <2>1, <3>1, Zenon DEF LeaseTypes
  <2>2. CASE ~(command.kind = "grant" /\ command.revision > view[c].revision)
    BY <1>2, <1>3, <1>6, <2>2 DEF LeaseTypes
  <2> QED BY <2>1, <2>2
<1>8. LeaseTypes'
  BY <1>1, <1>3, <1>5, <1>7 DEF LeaseTypes
<1>9. ASSUME NEW q \in Participants PROVE LeaseAt(q)'
  <2>1. CASE current[q] = c /\ c # None
    <3>1. Leads(lane[c], view[c], lease[q])
      BY <1>3, <2>1 DEF LeaseAt
    <3>2. command.kind # "cutoff" => command.revision > view[c].revision
      <4> DEFINE next == IF command.kind = "cutoff" THEN view[c]
                         ELSE [revision |-> command.revision, expiry |-> command.expiry]
      <4>1. /\ next \in Known
            /\ IF command.kind = "cutoff" THEN next = view[c]
               ELSE next.revision = command.revision /\ next.expiry = command.expiry
        BY <1>4, <1>6 DEF Known
      <4> HIDE DEF next
      <4> QED BY <1>1, <1>4, <3>1, <4>1, LeadsTaken, Zenon DEF command
    <3>3. /\ view'[c] \in Known
          /\ IF command.kind = "cutoff" THEN view'[c] = view[c]
             ELSE view'[c].revision = command.revision /\ view'[c].expiry = command.expiry
      BY <1>6, <1>7, <3>2, ZenonT(30)
    <3>4. Leads(Tail(lane[c]), view'[c], lease[q])
      BY <1>1, <1>4, <3>1, <3>3, LeadsTaken, ZenonT(60) DEF command
    <3> QED BY <1>1, <1>3, <1>5, <2>1, <3>4, Zenon DEF LeaseAt
  <2>2. CASE current[q] # c
    BY <1>1, <1>3, <1>5, <1>7, <2>2, Zenon DEF LeaseAt
  <2>3. CASE c = None
    BY <2>3, ConnOwner
  <2> QED BY <2>1, <2>2, <2>3, Zenon
<1>10. ASSUME NEW d \in Conns PROVE LaneAt(d)'
  <2>1. CASE d = c
    BY <1>1, <1>3, <1>4, <2>1, Zenon DEF LaneAt
  <2>2. CASE d # c
    BY <1>1, <1>3, <1>5, <1>7, <2>2, SMTT(30) DEF LaneAt
  <2> QED BY <2>1, <2>2
<1> QED BY <1>1, <1>3, <1>8, <1>9, <1>10, Zenon DEF LeaseInv

\* expire_authorizations: a timer that is due ends its lease, or is set again and
\* leaves the revision alone.
LEMMA LeaseExpire ==
  ASSUME LeaseInv, PlaceInv, Expire
  PROVE  LeaseInv'
<1> DEFINE due == {w \in expiries : w.deadline <= now}
           held == {w \in due : current[w.participant] = w.connection
                                  /\ lease[w.participant] # NoLease}
           over == {w.participant : w \in {x \in held : Expired(lease[x.participant])}}
           early == {w \in held : w.participant \notin over}
           timer(q) == Work(q, current[q], lease[q])
           Due(q) == lease[q] # NoLease /\ timer(q).deadline <= now
           again(w) == Work(w.participant, w.connection, Refreshed(lease[w.participant]))
<1>1. /\ expiries' = (expiries \ due) \cup {again(w) : w \in early}
      /\ lease' = [p \in Participants |->
                     CASE p \in over -> NoLease
                       [] \E w \in early : w.participant = p -> Refreshed(lease[p])
                       [] OTHER -> lease[p]]
      /\ current' = [p \in Participants |-> IF p \in over THEN None ELSE current[p]]
      /\ UNCHANGED <<phase, wall, offered, view, lane, limit>>
  BY DEF Expire, clocks
<1>2. /\ LeaseTypes /\ PlaceTypes /\ expiries = Timers(current, lease)
      /\ \A q \in Participants : LeaseAt(q)
      /\ \A d \in Conns : LaneAt(d)
  BY PlacedFields DEF LeaseInv
<1>3. \A w : w \in expiries <=> \E q \in Participants : lease[q] # NoLease /\ w = timer(q)
  BY <1>2, TimerOf
<1>4. \A q \in Participants : timer(q).participant = q /\ timer(q).connection = current[q]
  BY DEF Work
<1>5. \A q \in Participants : timer(q) = Work(q, current[q], lease[q])
  OBVIOUS
<1> HIDE DEF timer
<1>6. ASSUME NEW w
      PROVE  /\ w \in held <=> \E q \in Participants : Due(q) /\ w = timer(q)
             /\ w \in due <=> w \in held
  <2>1. CASE w \in expiries
    <3>1. PICK q \in Participants : lease[q] # NoLease /\ w = timer(q)
      BY <1>3, <2>1
    <3>2. w.participant = q /\ w.connection = current[q]
      BY <1>4, <3>1, Zenon
    <3>3. \A r \in Participants : w = timer(r) => r = q
      BY <1>4, <3>1, <3>2
    <3> QED BY <2>1, <3>1, <3>2, <3>3
  <2>2. CASE w \notin expiries
    BY <1>3, <2>2
  <2> QED BY <2>1, <2>2
<1> HIDE DEF due, held
<1>7. ASSUME NEW q PROVE q \in over <=> q \in Participants /\ Due(q) /\ Expired(lease[q])
  <2>1. ASSUME q \in over PROVE q \in Participants /\ Due(q) /\ Expired(lease[q])
    <3>1. PICK w \in held : Expired(lease[w.participant]) /\ q = w.participant
      BY <2>1
    <3>2. PICK r \in Participants : Due(r) /\ w = timer(r)
      BY <1>6, <3>1
    <3> QED BY <1>4, <3>1, <3>2
  <2>2. ASSUME q \in Participants, Due(q), Expired(lease[q]) PROVE q \in over
    <3>1. timer(q) \in held /\ timer(q).participant = q
      BY <1>4, <1>6, <2>2
    <3> QED BY <2>2, <3>1
  <2> QED BY <2>1, <2>2
<1> HIDE DEF over
<1>8. ASSUME NEW w
      PROVE  w \in early <=> \E q \in Participants : Due(q) /\ q \notin over /\ w = timer(q)
  BY <1>4, <1>6
<1>9. ASSUME NEW q \in Participants
      PROVE  (\E w \in early : w.participant = q) <=> Due(q) /\ q \notin over
  BY <1>4, <1>8
<1>10. \A q \in Participants : /\ q \in over => lease'[q] = NoLease
                               /\ q \notin over /\ Due(q) => lease'[q] = Refreshed(lease[q])
                               /\ q \notin over /\ ~Due(q) => lease'[q] = lease[q]
                               /\ current'[q] = IF q \in over THEN None ELSE current[q]
  <2> HIDE DEF over, early, Due
  <2> QED BY <1>1, <1>9
<1>11. DOMAIN lease' = Participants /\ lease' = [q \in Participants |-> lease'[q]]
  BY <1>1
<1>12. expiries' = (expiries \ due) \cup {again(w) : w \in early} /\ UNCHANGED <<phase, wall, offered, view, lane, limit>>
  BY <1>1
<1> HIDE DEF early
<1>13. ASSUME NEW q \in Participants, lease[q] # NoLease
       PROVE  /\ Refreshed(lease[q]).revision = lease[q].revision
              /\ Refreshed(lease[q]).expiry = lease[q].expiry
              /\ Granted(Refreshed(lease[q])) /\ Refreshed(lease[q]) # NoLease
  <2>1. Granted(lease[q])
    BY <1>2, <1>13, Zenon DEF LeaseAt
  <2>2. /\ Refreshed(lease[q]).revision = lease[q].revision
        /\ Refreshed(lease[q]).expiry = lease[q].expiry
    BY DEF Refreshed, Lease
  <2> QED BY <2>1, <2>2 DEF Granted, NoLease
<1>14. LeaseTypes'
  BY <1>2, <1>11, <1>12 DEF LeaseTypes
<1>15. ASSUME NEW q \in Participants PROVE LeaseAt(q)'
  <2>1. CASE q \in over
    BY <1>10, <2>1 DEF LeaseAt
  <2>2. CASE q \notin over /\ Due(q)
    <3>1. lease'[q] = Refreshed(lease[q]) /\ current'[q] = current[q] /\ LeaseAt(q) /\ lease[q] # NoLease
      BY <1>2, <1>10, <2>2, Zenon
    <3>2. current[q] # None
      BY <3>1, Zenon DEF LeaseAt
    <3>3. Leads(lane[current[q]], view[current[q]], Refreshed(lease[q]))
      BY <1>13, <3>1, <3>2, LeadsSame, Zenon DEF LeaseAt
    <3> QED BY <1>12, <1>13, <3>1, <3>2, <3>3, ZenonT(30) DEF LeaseAt
  <2>3. CASE q \notin over /\ ~Due(q)
    <3>1. lease'[q] = lease[q] /\ current'[q] = current[q] /\ LeaseAt(q)
      BY <1>2, <1>10, <2>3, SMTT(30)
    <3> QED BY <1>12, <3>1, Zenon DEF LeaseAt
  <2> QED BY <2>1, <2>2, <2>3, Zenon
<1>16. ASSUME NEW d \in Conns PROVE LaneAt(d)'
  BY <1>2, <1>12, Zenon DEF LaneAt
<1>17. ASSUME NEW w
       PROVE  w \in expiries' <=> w \in Timers(current', lease')
  <2>1. w \in Timers(current', lease') <=>
          \E q \in Participants : lease'[q] # NoLease /\ w = Work(q, current'[q], lease'[q])
    BY TimerOf
  <2>2. ASSUME NEW q \in Participants, lease'[q] # NoLease, w = Work(q, current'[q], lease'[q])
        PROVE  w \in expiries'
    <3>1. q \notin over /\ current'[q] = current[q]
      BY <1>10, <2>2
    <3>2. CASE Due(q)
      <4>1. w = again(timer(q))
        BY <1>4, <1>10, <2>2, <3>1, <3>2
      <4>2. timer(q) \in early
        BY <1>8, <3>1, <3>2
      <4> QED BY <1>12, <4>1, <4>2, Zenon
    <3>3. CASE ~Due(q)
      <4>1. w = timer(q) /\ lease[q] # NoLease
        BY <1>5, <1>10, <2>2, <3>1, <3>3
      <4>2. w \in expiries
        BY <1>3, <4>1
      <4>3. w \notin due
        <5>1. SUFFICES ASSUME w \in due PROVE FALSE
          OBVIOUS
        <5>2. PICK r \in Participants : Due(r) /\ w = timer(r)
          BY <1>6, <5>1
        <5>3. r = q
          BY <1>4, <4>1, <5>2, ZenonT(30)
        <5> QED BY <3>3, <5>2, <5>3
      <4> QED BY <1>12, <4>2, <4>3, Zenon
    <3> QED BY <3>2, <3>3, Zenon
  <2>3. ASSUME w \in expiries'
        PROVE  \E q \in Participants : lease'[q] # NoLease /\ w = Work(q, current'[q], lease'[q])
    <3>1. CASE w \in expiries /\ w \notin due
      <4>1. PICK q \in Participants : lease[q] # NoLease /\ w = timer(q)
        BY <1>3, <3>1
      <4>2. ~Due(q)
        BY <1>6, <3>1, <4>1
      <4>3. q \notin over
        BY <1>7, <4>2, Zenon
      <4> QED BY <1>5, <1>10, <4>1, <4>2, <4>3
    <3>2. CASE \E v \in early : w = again(v)
      <4>1. PICK v \in early : w = again(v)
        BY <3>2
      <4>2. PICK q \in Participants : Due(q) /\ q \notin over /\ v = timer(q)
        BY <1>8, <4>1
      <4>3. w = Work(q, current[q], Refreshed(lease[q]))
        BY <1>4, <4>1, <4>2, Zenon
      <4>4. lease'[q] = Refreshed(lease[q]) /\ current'[q] = current[q]
        BY <1>10, <4>2
      <4> QED BY <1>13, <4>2, <4>3, <4>4, Zenon
    <3> QED BY <1>12, <2>3, <3>1, <3>2, Zenon
  <2> QED BY <2>1, <2>2, <2>3, Zenon
<1>18. expiries' = Timers(current', lease')
  BY <1>17
<1> QED BY <1>14, <1>15, <1>16, <1>18 DEF LeaseInv

-----------------------------------------------------------------------------
(* Deletions and cutoffs.                                                  *)

TaskType ==
  [kind : {"http", "publication"}, conn : Conns, touched : SUBSET Shards,
   executed : SUBSET Shards, lost : SUBSET Shards,
   phase : {"waiting", "replying", "draining", "returned", "refused"},
   reply : {"none", "ok", "failed"}, answers : Nat]

\* What a task says of itself.
TaskSound(t) ==
  /\ t \in TaskType
  /\ t.executed \subseteq t.touched
  /\ t.reply = "ok" => t.executed = t.touched
  /\ t.phase \in {"returned", "refused"} => Waiting(t) = {}

\* A task on its own, and with the connection it withdrew.
TaskAt(t, ph, cur) ==
  /\ TaskSound(t)
  /\ t.kind = "http" => ph[t.conn] = "done" /\ cur[Owner[t.conn]] # t.conn

Holding(t) == t.phase \in {"waiting", "replying", "draining"}

Open(ts) == {i \in DOMAIN ts : Holding(ts[i])}

CompletionType == [bytes : {0, 1}, task : Nat, success : BOOLEAN]

Unpaid(done) == {k \in DOMAIN done : done[k].bytes > 0}

CutInv ==
  /\ tasks \in Seq(TaskType) /\ completions \in Seq(CompletionType)
  /\ \A i \in 1 .. Len(tasks) : TaskAt(tasks[i], phase, current)
  /\ credit = Cardinality(Open(tasks)) + Cardinality(Unpaid(completions))

\* Positions in a sequence.
LEMMA OpenFinite ==
  ASSUME Counting, NEW S, NEW ts \in Seq(S)
  PROVE  /\ IsFiniteSet(Open(ts)) /\ Cardinality(Open(ts)) \in Nat
         /\ IsFiniteSet(Unpaid(ts)) /\ Cardinality(Unpaid(ts)) \in Nat
         /\ DOMAIN ts = 1 .. Len(ts) /\ Len(ts) \in Nat
<1>1. DOMAIN ts = 1 .. Len(ts) /\ Len(ts) \in Nat
  OBVIOUS
<1>2. Open(ts) \subseteq 1 .. Len(ts) /\ Unpaid(ts) \subseteq 1 .. Len(ts)
  BY <1>1 DEF Open, Unpaid
<1>3. IsFiniteSet(1 .. Len(ts))
  BY <1>1 DEF Counting, CountsMatched
<1> QED BY <1>1, <1>2, <1>3, Zenon DEF Counting, CountsSubsets

\* A task is added.
LEMMA TaskAdded ==
  ASSUME Counting, NEW ts \in Seq(TaskType), NEW t \in TaskType
  PROVE  /\ Append(ts, t) \in Seq(TaskType)
         /\ \A i \in 1 .. Len(Append(ts, t)) : \/ i \in 1 .. Len(ts) /\ Append(ts, t)[i] = ts[i]
                                               \/ Append(ts, t)[i] = t
         /\ Cardinality(Open(Append(ts, t))) =
              IF Holding(t) THEN Cardinality(Open(ts)) + 1 ELSE Cardinality(Open(ts))
<1> DEFINE all == Append(ts, t)
           n == Len(ts)
<1>1. /\ all \in Seq(TaskType) /\ n \in Nat /\ DOMAIN all = 1 .. n + 1 /\ DOMAIN ts = 1 .. n
      /\ Len(all) = n + 1 /\ all[n + 1] = t
      /\ \A i \in 1 .. n : all[i] = ts[i]
  OBVIOUS
<1> HIDE DEF all
<1>2. \A i : i \in 1 .. n + 1 <=> i \in 1 .. n \/ i = n + 1
  BY <1>1
<1>3. n + 1 \notin Open(ts)
  BY <1>1, SMTT(30) DEF Open
<1>4. CASE Holding(t)
  <2>1. Open(all) = Open(ts) \cup {n + 1}
    BY <1>1, <1>2, <1>4 DEF Open
  <2> QED BY <1>1, <1>2, <1>3, <1>4, <2>1, OpenFinite, Zenon DEF all, Counting, CountsNext
<1>5. CASE ~Holding(t)
  <2>1. Open(all) = Open(ts)
    BY <1>1, <1>2, <1>5 DEF Open
  <2> QED BY <1>1, <1>2, <1>5, <2>1, Zenon DEF all
<1> QED BY <1>4, <1>5

Moved(ts, next, i, t) ==
  /\ next \in Seq(TaskType) /\ Len(next) = Len(ts)
  /\ \A j \in 1 .. Len(ts) : next[j] = IF j = i THEN t ELSE ts[j]

\* A task moves on.
LEMMA TaskMoved ==
  ASSUME Counting, NEW ts \in Seq(TaskType), NEW next, NEW i \in 1 .. Len(ts), NEW t, Moved(ts, next, i, t)
  PROVE  /\ (Holding(t) <=> Holding(ts[i])) => Open(next) = Open(ts)
         /\ Holding(ts[i]) /\ ~Holding(t) => Cardinality(Open(next)) = Cardinality(Open(ts)) - 1
<1>1. /\ DOMAIN next = 1 .. Len(ts) /\ DOMAIN ts = 1 .. Len(ts)
      /\ \A j \in 1 .. Len(ts) : next[j] = IF j = i THEN t ELSE ts[j]
  BY DEF Moved
<1>2. (Holding(t) <=> Holding(ts[i])) => Open(next) = Open(ts)
  BY <1>1, SMTT(30) DEF Open
<1>3. ASSUME Holding(ts[i]), ~Holding(t)
      PROVE  Cardinality(Open(next)) = Cardinality(Open(ts)) - 1
  <2>1. Open(next) = Open(ts) \ {i} /\ i \in Open(ts)
    BY <1>1, <1>3 DEF Open
  <2> QED BY <2>1, OpenFinite, Zenon DEF Counting, CountsNext
<1> QED BY <1>2, <1>3

\* A completion is sent.
LEMMA CompletionSent ==
  ASSUME Counting, NEW done \in Seq(CompletionType), NEW e \in CompletionType
  PROVE  /\ Append(done, e) \in Seq(CompletionType)
         /\ Cardinality(Unpaid(Append(done, e))) = Cardinality(Unpaid(done)) + e.bytes
<1> DEFINE all == Append(done, e)
           n == Len(done)
<1>1. /\ all \in Seq(CompletionType) /\ n \in Nat /\ DOMAIN all = 1 .. n + 1 /\ DOMAIN done = 1 .. n
      /\ all[n + 1] = e /\ \A i \in 1 .. n : all[i] = done[i]
  OBVIOUS
<1> HIDE DEF all
<1>2. \A i : i \in 1 .. n + 1 <=> i \in 1 .. n \/ i = n + 1
  BY <1>1
<1>3. n + 1 \notin Unpaid(done) /\ e.bytes \in {0, 1}
  BY <1>1 DEF Unpaid, CompletionType
<1>4. CASE e.bytes = 1
  <2>1. Unpaid(all) = Unpaid(done) \cup {n + 1}
    BY <1>1, <1>2, <1>4, SMTT(30) DEF Unpaid
  <2> QED BY <1>1, <1>3, <1>4, <2>1, OpenFinite DEF all, Counting, CountsNext
<1>5. CASE e.bytes = 0
  <2>1. Unpaid(all) = Unpaid(done)
    BY <1>1, <1>2, <1>5 DEF Unpaid
  <2>2. Cardinality(Unpaid(done)) \in Nat
    BY OpenFinite
  <2> QED BY <1>1, <1>5, <2>1, <2>2 DEF all
<1> QED BY <1>3, <1>4, <1>5

\* A completion is taken: the others move up.
LEMMA CompletionTaken ==
  ASSUME Counting, NEW done \in Seq(CompletionType), done # <<>>
  PROVE  /\ Tail(done) \in Seq(CompletionType) /\ Head(done) \in CompletionType
         /\ Cardinality(Unpaid(Tail(done))) = Cardinality(Unpaid(done)) - Head(done).bytes
<1> DEFINE rest == Tail(done)
           n == Len(done)
           later == Unpaid(done) \ {1}
<1>1. /\ rest \in Seq(CompletionType) /\ n \in Nat \ {0} /\ DOMAIN rest = 1 .. n - 1
      /\ DOMAIN done = 1 .. n /\ Head(done) = done[1] /\ done[1] \in CompletionType
      /\ \A i \in 1 .. n - 1 : rest[i] = done[i + 1]
  OBVIOUS
<1> HIDE DEF rest
<1>2. IsFiniteSet(Unpaid(rest)) /\ IsFiniteSet(Unpaid(done)) /\ Cardinality(Unpaid(done)) \in Nat
  BY <1>1, OpenFinite
<1>3. Cardinality(later) = Cardinality(Unpaid(rest))
  <2> DEFINE f == [k \in Unpaid(rest) |-> k + 1]
  <2>1. \A k \in Unpaid(rest) : k \in 1 .. n - 1 /\ k + 1 \in later
    BY <1>1 DEF Unpaid
  <2>2. ASSUME NEW m \in later PROVE \E k \in Unpaid(rest) : k + 1 = m
    <3>1. m - 1 \in 1 .. n - 1 /\ (m - 1) + 1 = m
      BY <1>1 DEF Unpaid
    <3>2. m - 1 \in Unpaid(rest)
      BY <1>1, <3>1 DEF Unpaid
    <3> QED BY <3>1, <3>2
  <2>3. f \in [Unpaid(rest) -> later] /\ \A k \in Unpaid(rest) : f[k] = k + 1
    BY <2>1
  <2> HIDE DEF f
  <2> HIDE DEF later
  <2>4. \A j, k \in Unpaid(rest) : f[j] = f[k] => j = k
    BY <2>1, <2>3
  <2>5. \A m \in later : \E k \in Unpaid(rest) : f[k] = m
    BY <2>2, <2>3
  <2> QED BY <1>2, <2>3, <2>4, <2>5 DEF Counting, CountsMatched
<1>4. done[1].bytes \in {0, 1}
  BY <1>1 DEF CompletionType
<1>5. CASE done[1].bytes = 1
  <2>1. 1 \in Unpaid(done)
    BY <1>1, <1>5 DEF Unpaid
  <2>2. Cardinality(later) = Cardinality(Unpaid(done)) - 1
    BY <1>2, <2>1 DEF Counting, CountsNext
  <2> QED BY <1>1, <1>3, <1>5, <2>2, Zenon DEF rest
<1>6. CASE done[1].bytes = 0
  <2>1. later = Unpaid(done)
    BY <1>1, <1>6 DEF Unpaid
  <2> HIDE DEF later
  <2>2. Cardinality(Unpaid(rest)) = Cardinality(Unpaid(done))
    BY <1>3, <2>1
  <2> QED BY <1>1, <1>2, <1>6, <2>2 DEF rest
<1> QED BY <1>4, <1>5, <1>6

\* Nothing about tasks changes, and no deleted connection comes back.
LEMMA CutSame ==
  ASSUME CutInv, UNCHANGED <<tasks, completions, credit>>,
         \A d \in Conns : phase[d] = "done" /\ current[Owner[d]] # d =>
                            phase'[d] = "done" /\ current'[Owner[d]] # d
  PROVE  CutInv'
<1>1. ASSUME NEW i \in 1 .. Len(tasks) PROVE TaskAt(tasks'[i], phase', current')
  <2>1. TaskAt(tasks[i], phase, current) /\ tasks'[i] = tasks[i]
    BY DEF CutInv
  <2>2. tasks[i].conn \in Conns
    BY <2>1, Zenon DEF TaskAt, TaskSound, TaskType
  <2> QED BY <2>1, <2>2, Zenon DEF TaskAt, TaskSound, Waiting
<1> QED BY <1>1, Zenon DEF CutInv

\* A fence goes out, or an answer without one.
LEMMA CutAdded ==
  ASSUME Counting, CutInv, NEW t \in TaskType, TaskAt(t, phase', current'), tasks' = Append(tasks, t),
         UNCHANGED completions, credit' = IF Holding(t) THEN credit + 1 ELSE credit,
         \A d \in Conns : phase[d] = "done" /\ current[Owner[d]] # d =>
                            phase'[d] = "done" /\ current'[Owner[d]] # d
  PROVE  CutInv'
<1>1. /\ tasks \in Seq(TaskType) /\ completions \in Seq(CompletionType)
      /\ credit = Cardinality(Open(tasks)) + Cardinality(Unpaid(completions))
  BY Zenon DEF CutInv
<1>2. /\ tasks' \in Seq(TaskType)
      /\ \A i \in 1 .. Len(tasks') : (i \in 1 .. Len(tasks) /\ tasks'[i] = tasks[i]) \/ tasks'[i] = t
      /\ Cardinality(Open(tasks')) = IF Holding(t) THEN Cardinality(Open(tasks)) + 1
                                     ELSE Cardinality(Open(tasks))
  BY <1>1, TaskAdded, Zenon
<1>3. ASSUME NEW i \in 1 .. Len(tasks') PROVE TaskAt(tasks'[i], phase', current')
  <2>1. CASE tasks'[i] = t
    BY <2>1 DEF TaskAt, TaskSound, Waiting
  <2>2. CASE i \in 1 .. Len(tasks) /\ tasks'[i] = tasks[i]
    <3>1. TaskAt(tasks[i], phase, current)
      BY <2>2, Zenon DEF CutInv
    <3>2. tasks[i].conn \in Conns
      BY <3>1, ZenonT(30) DEF TaskAt, TaskSound, TaskType
    <3> QED BY <2>2, <3>1, <3>2, Zenon DEF TaskAt, TaskSound, Waiting
  <2> QED BY <1>2, <2>1, <2>2, Zenon
<1>4. Cardinality(Open(tasks)) \in Nat /\ Cardinality(Unpaid(completions)) \in Nat
  BY <1>1, OpenFinite, Zenon
<1>5. credit' = Cardinality(Open(tasks')) + Cardinality(Unpaid(completions'))
  BY <1>1, <1>2, <1>4
<1> QED BY <1>1, <1>2, <1>3, <1>5, Zenon DEF CutInv

\* A task moves on, and its credit with a completion.
LEMMA CutMoved ==
  ASSUME Counting, CutInv, NEW i \in 1 .. Len(tasks), NEW t, TaskSound(t),
         t.kind = tasks[i].kind, t.conn = tasks[i].conn,
         tasks' = [tasks EXCEPT ![i] = t], UNCHANGED <<phase, current, credit>>,
         completions' \in Seq(CompletionType),
         \/ /\ Holding(t) <=> Holding(tasks[i])
            /\ Cardinality(Unpaid(completions')) = Cardinality(Unpaid(completions))
         \/ /\ Holding(tasks[i]) /\ ~Holding(t)
            /\ Cardinality(Unpaid(completions')) = Cardinality(Unpaid(completions)) + 1
  PROVE  CutInv'
<1>1. /\ tasks \in Seq(TaskType) /\ completions \in Seq(CompletionType) /\ t \in TaskType
      /\ credit = Cardinality(Open(tasks)) + Cardinality(Unpaid(completions))
  BY DEF CutInv, TaskSound
<1>2. /\ tasks' \in Seq(TaskType) /\ Len(tasks') = Len(tasks)
      /\ \A j \in 1 .. Len(tasks) : tasks'[j] = IF j = i THEN t ELSE tasks[j]
      /\ (Holding(t) <=> Holding(tasks[i])) => Open(tasks') = Open(tasks)
      /\ Holding(tasks[i]) /\ ~Holding(t) => Cardinality(Open(tasks')) = Cardinality(Open(tasks)) - 1
  <2>1. Moved(tasks, tasks', i, t)
    BY <1>1 DEF Moved
  <2>2. /\ (Holding(t) <=> Holding(tasks[i])) => Open(tasks') = Open(tasks)
        /\ Holding(tasks[i]) /\ ~Holding(t) => Cardinality(Open(tasks')) = Cardinality(Open(tasks)) - 1
    BY <1>1, <2>1, TaskMoved
  <2> QED BY <2>1, <2>2 DEF Moved
<1>3. ASSUME NEW j \in 1 .. Len(tasks') PROVE TaskAt(tasks'[j], phase', current')
  <2>1. j \in 1 .. Len(tasks) /\ TaskAt(tasks[j], phase, current)
    BY <1>2, Zenon DEF CutInv
  <2>2. CASE j = i
    <3>1. tasks'[j] = t
      BY <1>2, <2>1, <2>2, Zenon
    <3> QED BY <2>1, <2>2, <3>1 DEF TaskAt, TaskSound, Waiting
  <2>3. CASE j # i
    <3>1. tasks'[j] = tasks[j]
      BY <1>2, <2>1, <2>3, Zenon
    <3> QED BY <2>1, <3>1 DEF TaskAt, TaskSound, Waiting
  <2> QED BY <2>2, <2>3
<1>4. Cardinality(Open(tasks)) \in Nat /\ Cardinality(Unpaid(completions)) \in Nat
  BY <1>1, OpenFinite
<1>5. credit' = Cardinality(Open(tasks')) + Cardinality(Unpaid(completions'))
  BY <1>1, <1>2, <1>4
<1> QED BY <1>2, <1>3, <1>5, Zenon DEF CutInv

\* What is known of a task, before its step.
LEMMA TaskFields ==
  ASSUME CutInv, NEW i \in DOMAIN tasks
  PROVE  i \in 1 .. Len(tasks) /\ TaskSound(tasks[i]) /\ tasks[i] \in TaskType
         /\ completions \in Seq(CompletionType) /\ i \in Nat
<1>1. i \in 1 .. Len(tasks) /\ i \in Nat
  BY DEF CutInv
<1> QED BY <1>1, Zenon DEF CutInv, TaskAt, TaskSound

\* A shard executes a fence.
LEMMA CutAck ==
  ASSUME Counting, CutInv, NEW i \in DOMAIN tasks, NEW s \in Shards, Ack(i, s)
  PROVE  CutInv'
<1> DEFINE old == tasks[i]
           t == [old EXCEPT !.executed = @ \cup {s}]
<1>1. i \in 1 .. Len(tasks) /\ TaskSound(old) /\ old \in TaskType /\ completions \in Seq(CompletionType)
  BY TaskFields
<1>2. tasks' = [tasks EXCEPT ![i] = t] /\ UNCHANGED <<phase, current, credit, completions>>
  BY DEF Ack, vars
<1>3. s \in Waiting(old)
  BY DEF Ack
<1> HIDE DEF old
<1>4. t \in TaskType
  BY <1>1, Zenon DEF TaskType
<1>5. /\ t.executed = old.executed \cup {s} /\ t.kind = old.kind /\ t.conn = old.conn /\ t.touched = old.touched
      /\ t.phase = old.phase /\ t.reply = old.reply /\ t.lost = old.lost
  BY <1>1 DEF TaskType
<1> HIDE DEF t
<1>6. TaskSound(t)
  <2>1. t.executed \subseteq t.touched /\ old.executed # old.touched
    BY <1>1, <1>3, <1>5, Zenon DEF TaskSound, Waiting
  <2>2. Waiting(old) # {}
    BY <1>3
  <2> QED BY <1>1, <1>4, <1>5, <2>1, <2>2, Zenon DEF TaskSound
<1>7. Holding(t) <=> Holding(old)
  BY <1>5 DEF Holding
<1>8. completions' \in Seq(CompletionType) /\ Cardinality(Unpaid(completions')) = Cardinality(Unpaid(completions))
  BY <1>1, <1>2
<1> QED BY <1>1, <1>2, <1>5, <1>6, <1>7, <1>8, CutMoved, Zenon DEF old

\* complete_native_delete has its outcome: success only when every shard executed.
LEMMA CutDecide ==
  ASSUME Counting, CutInv, NEW i \in DOMAIN tasks, NEW success \in BOOLEAN, Decide(i, success),
         success => Waiting(tasks[i]) = {} /\ tasks[i].lost = {}
  PROVE  CutInv'
<1> DEFINE old == tasks[i]
           t == [old EXCEPT !.phase = IF old.kind = "http" THEN "draining" ELSE "replying",
                            !.reply = IF success THEN "ok" ELSE "failed"]
<1>1. i \in 1 .. Len(tasks) /\ TaskSound(old) /\ old \in TaskType /\ completions \in Seq(CompletionType)
  BY TaskFields
<1>2. tasks' = [tasks EXCEPT ![i] = t] /\ UNCHANGED <<phase, current, credit, completions>>
  BY Zenon DEF Decide, vars
<1>3. old.phase = "waiting"
  BY DEF Decide
<1>4. success => Waiting(old) = {} /\ old.lost = {}
  OBVIOUS
<1> HIDE DEF old
<1>5. t \in TaskType
  BY <1>1, Zenon DEF TaskType
<1>6. /\ t.executed = old.executed /\ t.kind = old.kind /\ t.conn = old.conn /\ t.touched = old.touched
      /\ t.phase \in {"draining", "replying"} /\ t.reply = (IF success THEN "ok" ELSE "failed")
  BY <1>1, Zenon DEF TaskType
<1> HIDE DEF t
<1>7. TaskSound(t)
  <2>1. success => old.executed = old.touched
    BY <1>1, <1>4, Zenon DEF TaskSound, Waiting
  <2> QED BY <1>1, <1>5, <1>6, <2>1 DEF TaskSound
<1>8. Holding(t) <=> Holding(old)
  BY <1>3, <1>6 DEF Holding
<1>9. completions' \in Seq(CompletionType) /\ Cardinality(Unpaid(completions')) = Cardinality(Unpaid(completions))
  BY <1>1, <1>2
<1> QED BY <1>1, <1>2, <1>6, <1>7, <1>8, <1>9, CutMoved, Zenon DEF old

\* The outcome of a cutoff is on its way to the controller.
LEMMA CutReply ==
  ASSUME Counting, CutInv, NEW i \in DOMAIN tasks, Reply(i)
  PROVE  CutInv'
<1> DEFINE old == tasks[i]
           t == [old EXCEPT !.phase = "draining"]
           e == Completion(0, i, old.reply = "ok")
<1>1. /\ i \in 1 .. Len(tasks) /\ TaskSound(old) /\ old \in TaskType
      /\ completions \in Seq(CompletionType) /\ i \in Nat
  BY TaskFields
<1>2. /\ tasks' = [tasks EXCEPT ![i] = t] /\ UNCHANGED <<phase, current, credit>>
      /\ completions' = Append(completions, e) /\ old.phase = "replying"
  BY DEF Reply, vars
<1>3. e \in CompletionType /\ e.bytes = 0
  BY <1>1 DEF Completion, CompletionType
<1> HIDE DEF old, e
<1>4. t \in TaskType
  BY <1>1, Zenon DEF TaskType
<1>5. /\ t.executed = old.executed /\ t.kind = old.kind /\ t.conn = old.conn /\ t.touched = old.touched
      /\ t.phase = "draining" /\ t.reply = old.reply
  BY <1>1, Zenon DEF TaskType
<1> HIDE DEF t
<1>6. TaskSound(t)
  BY <1>1, <1>4, <1>5, Zenon DEF TaskSound
<1>7. Holding(t) <=> Holding(old)
  BY <1>2, <1>5 DEF Holding
<1>8. completions' \in Seq(CompletionType) /\ Cardinality(Unpaid(completions')) = Cardinality(Unpaid(completions))
  <2>1. Cardinality(Unpaid(completions)) \in Nat
    BY <1>1, OpenFinite
  <2>2. /\ completions' \in Seq(CompletionType)
        /\ Cardinality(Unpaid(completions')) = Cardinality(Unpaid(completions)) + e.bytes
    BY <1>1, <1>2, <1>3, CompletionSent
  <2> QED BY <1>3, <2>1, <2>2
<1> QED BY <1>1, <1>2, <1>5, <1>6, <1>7, <1>8, CutMoved, Zenon DEF old

\* The credit is on its way back: no lane holds a fence of the task.
LEMMA CutReturn ==
  ASSUME Counting, CutInv, NEW i \in DOMAIN tasks, ReturnCredit(i)
  PROVE  CutInv'
<1> DEFINE old == tasks[i]
           t == [old EXCEPT !.phase = "returned"]
           e == Completion(1, i, FALSE)
<1>1. /\ i \in 1 .. Len(tasks) /\ TaskSound(old) /\ old \in TaskType
      /\ completions \in Seq(CompletionType) /\ i \in Nat
  BY TaskFields
<1>2. /\ tasks' = [tasks EXCEPT ![i] = t] /\ UNCHANGED <<phase, current, credit>>
      /\ completions' = Append(completions, e) /\ old.phase = "draining" /\ Waiting(old) = {}
  BY DEF ReturnCredit, vars
<1>3. e \in CompletionType /\ e.bytes = 1
  BY <1>1 DEF Completion, CompletionType
<1> HIDE DEF old, e
<1>4. t \in TaskType
  BY <1>1, Zenon DEF TaskType
<1>5. /\ t.executed = old.executed /\ t.kind = old.kind /\ t.conn = old.conn /\ t.touched = old.touched
      /\ t.phase = "returned" /\ t.reply = old.reply /\ t.lost = old.lost
  BY <1>1 DEF TaskType
<1> HIDE DEF t
<1>6. TaskSound(t)
  <2>1. Waiting(t) = {}
    BY <1>2, <1>5 DEF Waiting
  <2> QED BY <1>1, <1>4, <1>5, <2>1, Zenon DEF TaskSound
<1>7. Holding(old) /\ ~Holding(t)
  BY <1>2, <1>5 DEF Holding
<1>8. completions' \in Seq(CompletionType) /\ Cardinality(Unpaid(completions')) = Cardinality(Unpaid(completions)) + 1
  BY <1>1, <1>2, <1>3, CompletionSent, Zenon
<1> QED BY <1>1, <1>2, <1>5, <1>6, <1>7, <1>8, CutMoved, Zenon DEF old

\* The endpoint takes a command: a result counts as an answer.
LEMMA CutDeliver ==
  ASSUME Counting, CutInv, LeaseInv, NEW c \in Conns, Deliver(c)
  PROVE  CutInv'
<1> DEFINE i == Head(lane[c]).task
           old == tasks[i]
           t == [old EXCEPT !.answers = @ + 1]
<1>1. /\ tasks' = tasks \/ tasks' = [tasks EXCEPT ![i] = t]
      /\ UNCHANGED <<phase, current, credit, completions>>
  BY DEF Deliver, vars
<1>2. CASE tasks' = tasks
  BY <1>1, <1>2, CutSame
<1>3. CASE tasks' # tasks
  <2>1. tasks' = [tasks EXCEPT ![i] = t]
    BY <1>1, <1>3
  <2> HIDE DEF i, t
  <2>2. i \in DOMAIN tasks
    BY <1>3, <2>1 DEF CutInv
  <2>3. i \in 1 .. Len(tasks) /\ TaskSound(old) /\ old \in TaskType /\ completions \in Seq(CompletionType)
    BY <2>2, TaskFields
  <2> HIDE DEF old
  <2>4. t \in TaskType
    BY <2>3, SMTT(30) DEF TaskType, t
  <2>5. /\ t.executed = old.executed /\ t.kind = old.kind /\ t.conn = old.conn /\ t.touched = old.touched
        /\ t.phase = old.phase /\ t.reply = old.reply /\ t.lost = old.lost
    BY <2>3 DEF TaskType, t
  <2>6. TaskSound(t) /\ (Holding(t) <=> Holding(old))
    BY <2>3, <2>4, <2>5, Zenon DEF TaskSound, Waiting, Holding
  <2>7. completions' \in Seq(CompletionType) /\ Cardinality(Unpaid(completions')) = Cardinality(Unpaid(completions))
    BY <1>1, <2>3, Zenon
  <2> QED BY <1>1, <2>1, <2>3, <2>5, <2>6, <2>7, CutMoved, Zenon DEF old
<1> QED BY <1>2, <1>3, Zenon

\* A shard ends and drops fences it was to acknowledge.
LEMMA CutStop ==
  ASSUME CutInv, NEW s \in Shards, Stop(s)
  PROVE  CutInv'
<1>1. PICK dropped \in SUBSET {i \in Unreleased : s \in Waiting(tasks[i])} :
        tasks' = [i \in DOMAIN tasks |->
                    IF i \in dropped THEN [tasks[i] EXCEPT !.lost = @ \cup {s}] ELSE tasks[i]]
  BY DEF Stop
<1>2. UNCHANGED <<phase, current, credit, completions>>
  BY DEF Stop, vars
<1>3. /\ tasks \in Seq(TaskType) /\ completions \in Seq(CompletionType) /\ Len(tasks) \in Nat
      /\ DOMAIN tasks = 1 .. Len(tasks)
      /\ credit = Cardinality(Open(tasks)) + Cardinality(Unpaid(completions))
  BY DEF CutInv
<1>4. /\ DOMAIN tasks' = 1 .. Len(tasks) /\ tasks' = [i \in 1 .. Len(tasks) |-> tasks'[i]]
      /\ \A i \in 1 .. Len(tasks) :
           tasks'[i] = IF i \in dropped THEN [tasks[i] EXCEPT !.lost = @ \cup {s}] ELSE tasks[i]
  BY <1>1, <1>3
<1>5. ASSUME NEW i \in 1 .. Len(tasks)
      PROVE  /\ tasks'[i] \in TaskType /\ TaskAt(tasks'[i], phase', current')
             /\ Holding(tasks'[i]) <=> Holding(tasks[i])
  <2>1. TaskAt(tasks[i], phase, current) /\ tasks[i] \in TaskType
    BY Zenon DEF CutInv, TaskAt, TaskSound
  <2>2. CASE i \notin dropped
    <3>1. tasks'[i] = tasks[i]
      BY <1>4, <2>2, Zenon
    <3> QED BY <1>2, <2>1, <3>1, Zenon
  <2>3. CASE i \in dropped
    <3> DEFINE old == tasks[i]
               t == [old EXCEPT !.lost = @ \cup {s}]
    <3>1. tasks'[i] = t /\ s \in Waiting(old)
      BY <1>1, <1>4, <2>3
    <3> HIDE DEF old
    <3>2. t \in TaskType
      BY <2>1 DEF TaskType, old
    <3>3. /\ t.executed = old.executed /\ t.kind = old.kind /\ t.conn = old.conn
          /\ t.touched = old.touched /\ t.phase = old.phase /\ t.reply = old.reply
      BY <2>1, Zenon DEF TaskType, old
    <3> HIDE DEF t
    <3>4. TaskAt(t, phase', current') /\ (Holding(t) <=> Holding(old))
      <4>1. Waiting(old) # {}
        BY <3>1
      <4> QED BY <1>2, <2>1, <3>2, <3>3, <4>1, Zenon DEF TaskAt, TaskSound, Holding, old
    <3> QED BY <3>1, <3>2, <3>4, Zenon DEF old
  <2> QED BY <2>2, <2>3, Zenon
<1>6. tasks' \in Seq(TaskType) /\ Len(tasks') = Len(tasks)
  <2>1. tasks' \in [1 .. Len(tasks) -> TaskType]
    BY <1>4, <1>5
  <2> QED BY <1>3, <2>1
<1>7. Open(tasks') = Open(tasks)
  BY <1>3, <1>4, <1>5 DEF Open
<1> QED BY <1>2, <1>3, <1>5, <1>6, <1>7, Zenon DEF CutInv

\* release_deletion takes a completion and the credit it brings.
LEMMA CutRelease ==
  ASSUME Counting, CutInv, ReleaseDeletion
  PROVE  CutInv'
<1>1. /\ completions # <<>> /\ completions' = Tail(completions)
      /\ credit' = credit - Head(completions).bytes /\ UNCHANGED <<phase, current, tasks>>
  BY Zenon DEF ReleaseDeletion, vars
<1>2. /\ tasks \in Seq(TaskType) /\ completions \in Seq(CompletionType)
      /\ credit = Cardinality(Open(tasks)) + Cardinality(Unpaid(completions))
  BY DEF CutInv
<1>3. /\ completions' \in Seq(CompletionType) /\ Head(completions) \in CompletionType
      /\ Cardinality(Unpaid(completions')) = Cardinality(Unpaid(completions)) - Head(completions).bytes
  BY <1>1, <1>2, CompletionTaken, Zenon
<1>4. /\ Cardinality(Open(tasks)) \in Nat /\ Cardinality(Unpaid(completions)) \in Nat
      /\ Head(completions).bytes \in {0, 1}
  BY <1>2, <1>3, OpenFinite DEF CompletionType
<1>5. credit' = Cardinality(Open(tasks')) + Cardinality(Unpaid(completions'))
  BY <1>1, <1>2, <1>3, <1>4
<1>6. \A i \in 1 .. Len(tasks') : TaskAt(tasks'[i], phase', current')
  BY <1>1, Zenon DEF CutInv
<1> QED BY <1>1, <1>2, <1>3, <1>5, <1>6, Zenon DEF CutInv

\* begin_native_delete: the connection is gone before the fence is.
LEMMA CutDelete ==
  ASSUME Counting, CutInv, PlaceInv, NEW c \in Conns, Delete(c)
  PROVE  CutInv'
<1> DEFINE t == Task("http", c, Shards)
<1>1. /\ tasks' = Append(tasks, t) /\ credit' = credit + 1 /\ UNCHANGED completions
      /\ phase[c] = "done"
  BY Zenon DEF Delete, Fence
<1>2. phase' = phase
  BY DEF Delete, Leave, vars
<1>3. /\ current'[Owner[c]] # c
      /\ \A d \in Conns : current[Owner[d]] # d => current'[Owner[d]] # d
  <2>1. Owner[c] \in Participants /\ c # None /\ \A d \in Conns : Owner[d] \in Participants /\ d # None
    BY ConnOwner
  <2>2. CASE current[Owner[c]] = c
    <3>1. current' = [current EXCEPT ![Owner[c]] = None] /\ current \in [Participants -> Nat]
      BY <2>2, Zenon DEF Delete, Leave, PlaceInv
    <3> QED BY <2>1, <3>1, Zenon
  <2>3. CASE current[Owner[c]] # c
    BY <2>3, ZenonT(30) DEF Delete, vars
  <2> QED BY <2>2, <2>3
<1>4. t \in TaskType /\ Holding(t)
  BY Zenon DEF Task, TaskType, Holding
<1>5. TaskAt(t, phase', current')
  <2>1. t.conn = c /\ t.executed = {} /\ t.reply = "none" /\ t.phase = "waiting"
    BY DEF Task
  <2> HIDE DEF t
  <2> QED BY <1>1, <1>2, <1>3, <1>4, <2>1, Zenon DEF TaskAt, TaskSound
<1> HIDE DEF t
<1> QED BY <1>1, <1>2, <1>3, <1>4, <1>5, CutAdded, Zenon

\* begin_owned_cutoff, with or without credit.
LEMMA CutCutoff ==
  ASSUME Counting, CutInv, PlaceInv, NEW c \in Conns, Cutoff(c)
  PROVE  CutInv'
<1>1. UNCHANGED <<phase, current>> /\ current[Owner[c]] = c
  BY Zenon DEF Cutoff, vars
<1>2. home[Owner[c]] \in Shards
  <2>1. Owner[c] \in Participants /\ c # None
    BY ConnOwner
  <2>2. /\ room.placed[Owner[c]] # None
        /\ home[Owner[c]] = room.partitions[room.placed[Owner[c]]].shard /\ RoomSound(room)
    BY <1>1, <2>1, ZenonT(60) DEF PlaceInv
  <2>3. room.placed[Owner[c]] \in 1 .. Len(room.partitions) /\ room.partitions \in Seq(Partition)
    BY <2>1, <2>2, Zenon DEF RoomSound, OnePlace
  <2>4. room.partitions[room.placed[Owner[c]]] \in Partition
    BY <2>3, SMTT(30)
  <2> QED BY <2>2, <2>4 DEF Partition
<1>3. ASSUME NEW others \in SUBSET Shards, CutoffFenced(c, others \cup {home[Owner[c]]})
      PROVE  CutInv'
  <2> DEFINE touched == others \cup {home[Owner[c]]}
             t == Task("publication", c, touched)
  <2>1. tasks' = Append(tasks, t) /\ credit' = credit + 1 /\ UNCHANGED completions
    BY <1>3 DEF CutoffFenced, Fence
  <2>2. touched \in SUBSET Shards
    BY <1>2, Zenon
  <2> HIDE DEF touched
  <2>3. t \in TaskType /\ Holding(t)
    BY <2>2, Zenon DEF Task, TaskType, Holding
  <2>4. TaskAt(t, phase', current')
    <3>1. t.kind = "publication" /\ t.executed = {} /\ t.reply = "none" /\ t.phase = "waiting"
      BY Zenon DEF Task
    <3> HIDE DEF t
    <3> QED BY <2>3, <3>1 DEF TaskAt, TaskSound
  <2> HIDE DEF t
  <2> QED BY <1>1, <2>1, <2>3, <2>4, CutAdded, Zenon
<1>4. ASSUME CutoffRefused(c)
      PROVE  CutInv'
  <2> DEFINE t == [Task("publication", c, {}) EXCEPT !.phase = "refused", !.reply = "failed"]
  <2>1. tasks' = Append(tasks, t) /\ UNCHANGED <<credit, completions>>
    BY <1>4 DEF CutoffRefused
  <2>2. t \in TaskType /\ ~Holding(t)
    BY ZenonT(30) DEF Task, TaskType, Holding
  <2>3. TaskAt(t, phase', current')
    <3>1. t.kind = "publication" /\ t.executed = {} /\ t.reply = "failed" /\ t.touched = {}
      BY DEF Task
    <3> HIDE DEF t
    <3> QED BY <2>2, <3>1, Zenon DEF TaskAt, TaskSound, Waiting
  <2> HIDE DEF t
  <2> QED BY <1>1, <2>1, <2>2, <2>3, CutAdded, Zenon
<1> QED BY <1>3, <1>4, ZenonT(30) DEF Cutoff

-----------------------------------------------------------------------------
(* Counting.                                                               *)

\* The library's facts about finite sets are what the lemmas ask for.
LEMMA CountingHolds == Counting
<1>1. CountsSubsets
  <2> SUFFICES ASSUME NEW S, IsFiniteSet(S), NEW T \in SUBSET S
               PROVE  /\ Cardinality(S) \in Nat /\ IsFiniteSet(T) /\ Cardinality(T) \in Nat
                      /\ Cardinality(T) <= Cardinality(S)
                      /\ Cardinality(S \ T) = Cardinality(S) - Cardinality(T)
    <3>1. \A S : IsFiniteSet(S) => Cardinality(S) \in Nat
      BY FS_CardinalityType
    <3> QED BY <3>1 DEF CountsSubsets
  <2>1. IsFiniteSet(T) /\ Cardinality(T) <= Cardinality(S)
    BY FS_Subset
  <2>2. Cardinality(S) \in Nat /\ Cardinality(T) \in Nat
    BY <2>1, FS_CardinalityType
  <2>3. S \cap T = T
    OBVIOUS
  <2>4. Cardinality(S \ T) = Cardinality(S) - Cardinality(S \cap T)
    BY FS_Difference
  <2> QED BY <2>1, <2>2, <2>3, <2>4, ZenonT(30)
<1>2. CountsFew
  BY FS_EmptySet, FS_Singleton, Zenon DEF CountsFew
<1>3. CountsNext
  <2> SUFFICES ASSUME NEW S, NEW x, IsFiniteSet(S)
               PROVE  /\ x \notin S => Cardinality(S \cup {x}) = Cardinality(S) + 1
                      /\ x \in S => Cardinality(S \ {x}) = Cardinality(S) - 1
    BY DEF CountsNext
  <2> QED BY FS_AddElement, FS_RemoveElement, Zenon
<1>4. CountsMatched
  <2>1. \A n \in Nat : IsFiniteSet(1 .. n)
    BY FS_Interval
  <2>2. ASSUME NEW S, NEW T, NEW f, IsFiniteSet(S), f \in [S -> T],
               \A x, y \in S : f[x] = f[y] => x = y, \A y \in T : \E x \in S : f[x] = y
        PROVE  Cardinality(T) = Cardinality(S)
    <3>1. f \in Bijection(S, T)
      BY <2>2 DEF Bijection, Injection, Surjection, IsInjective
    <3> QED BY <2>2, <3>1, FS_Bijection, Zenon DEF ExistsBijection
  <2> QED BY <2>1, <2>2, SMTT(30) DEF CountsMatched
<1> QED BY <1>1, <1>2, <1>3, <1>4, SMTT(30) DEF Counting

-----------------------------------------------------------------------------
(* Placement, where an expiry removes several participants at once.        *)

\* The same for several at once.
LEMMA RemoveManyFacts ==
  ASSUME Counting, NEW R, RoomSound(R), NEW gone \in SUBSET Participants
  PROVE  Removing(R, RemoveParticipants(R, gone), gone)
<1> DEFINE leaving(i) == Cardinality({p \in gone : R.placed[p] = i /\ R.claimed[p] = None})
           left(i) == IF R.partitions[i].occupants < leaving(i) THEN 0
                      ELSE R.partitions[i].occupants - leaving(i)
           stays == [p \in Participants |-> IF p \in gone THEN None ELSE R.placed[p]]
           ps == [i \in DOMAIN R.partitions |-> [R.partitions[i] EXCEPT !.occupants = left(i)]]
           next == RemoveParticipants(R, gone)
<1>1. /\ R \in Rooms /\ R.placed \in [Participants -> Nat] /\ R.claimed \in [Participants -> Nat]
      /\ R.partitions \in Seq(Partition) /\ DOMAIN R.partitions = 1 .. Len(R.partitions)
      /\ Len(R.partitions) \in Nat /\ None \in Nat
  BY SoundFields DEF RoomSound, None
<1>2. next = [R EXCEPT !.placed = stays, !.partitions = ps]
  BY DEF RemoveParticipants
<1>3. /\ stays \in [Participants -> Nat]
      /\ \A p \in Participants : stays[p] = IF p \in gone THEN None ELSE R.placed[p]
  BY <1>1
<1> HIDE DEF stays
<1>4. ASSUME NEW j \in 1 .. Len(R.partitions)
      PROVE  /\ left(j) \in Nat
             /\ leaving(j) = Cardinality(Holders(R.placed, R.claimed, j) \ Holders(stays, R.claimed, j))
             /\ R.partitions[j] \in Partition
  <2> DEFINE L == {p \in gone : R.placed[p] = j /\ R.claimed[p] = None}
  <2>1. L = Holders(R.placed, R.claimed, j) \ Holders(stays, R.claimed, j)
    <3>1. j # None
      BY DEF None
    <3>2. ASSUME NEW p \in Participants
          PROVE  p \in L <=> /\ R.placed[p] = j \/ R.claimed[p] = j
                             /\ ~(stays[p] = j \/ R.claimed[p] = j)
      <4>1. R.placed[p] # None /\ R.claimed[p] # None => R.placed[p] = R.claimed[p]
        BY DEF RoomSound, OnePlace
      <4> QED BY <1>3, <3>1, <4>1, SMTT(30)
    <3>3. L \subseteq Participants
      OBVIOUS
    <3> HIDE DEF L
    <3> QED BY <3>2, <3>3 DEF Holders
  <2>2. Cardinality(L) \in Nat
    <3>1. L \subseteq Participants
      OBVIOUS
    <3> HIDE DEF L
    <3> QED BY <3>1, PartitionAssumption, ZenonT(30) DEF Counting, CountsSubsets
  <2>3. R.partitions[j] \in Partition
    BY <1>1
  <2>4. R.partitions[j].occupants \in Nat
    BY <2>3 DEF Partition
  <2>5. leaving(j) = Cardinality(L)
    OBVIOUS
  <2> HIDE DEF L, leaving
  <2>6. left(j) \in Nat
    BY <2>2, <2>4, <2>5, SMTT(30)
  <2> QED BY <2>1, <2>3, <2>5, <2>6, ZenonT(30)
<1>5. ASSUME NEW j \in 1 .. Len(R.partitions)
      PROVE  ps[j] \in Partition /\ ps[j].occupants = left(j) /\ ps[j].shard = R.partitions[j].shard
  <2>1. ps[j] = [R.partitions[j] EXCEPT !.occupants = left(j)]
    BY <1>1
  <2> HIDE DEF ps, left
  <2> QED BY <1>4, <2>1, ZenonT(30) DEF Partition
<1>6. ps \in Seq(Partition) /\ Len(ps) = Len(R.partitions)
  <2>1. ps \in [1 .. Len(R.partitions) -> Partition]
    <3>1. DOMAIN ps = 1 .. Len(R.partitions) /\ ps = [i \in DOMAIN ps |-> ps[i]]
      BY <1>1
    <3> HIDE DEF ps
    <3> QED BY <1>5, <3>1, ZenonT(30)
  <2> HIDE DEF ps
  <2>2. Len(R.partitions) \in Nat
    BY <1>1, Zenon
  <2> QED BY <2>1, <2>2, SMTT(30)
<1>7. TakenOff(R.placed, R.claimed, R.partitions, stays, R.claimed, ps)
  <2> HIDE DEF ps, leaving
  <2> QED BY <1>4, <1>5 DEF TakenOff
<1> HIDE DEF ps
<1>8. OnePlace(stays, R.claimed, ps) /\ Counted(stays, R.claimed, ps)
  <2>1. OnePlace(R.placed, R.claimed, R.partitions) /\ Counted(R.placed, R.claimed, R.partitions)
    BY DEF RoomSound
  <2>2. \A p \in Participants : stays[p] \in {None, R.placed[p]} /\ R.claimed[p] \in {None, R.claimed[p]}
    BY <1>3
  <2> QED BY <1>1, <1>3, <1>6, <1>7, <2>1, <2>2, GivesPlaces, ZenonT(30)
<1> HIDE DEF next
<1>9. /\ next \in Rooms /\ next.placed = stays /\ next.partitions = ps
      /\ next.claimed = R.claimed /\ next.claimants = R.claimants
  BY <1>1, <1>2, <1>3, <1>6, ZenonT(30) DEF Rooms
<1>10. RoomSound(next)
  BY <1>8, <1>9 DEF RoomSound
<1> QED BY <1>5, <1>6, <1>9, <1>10, ZenonT(60) DEF next, stays, Removing, SameCells

\* expire_authorizations: those whose lease is over leave.
LEMMA PlaceExpire ==
  ASSUME Counting, PlaceInv, expiries = UNION {Works(p, current[p], lease[p]) : p \in Participants}, Expire
  PROVE  PlaceInv'
<1> DEFINE due == {w \in expiries : w.deadline <= now}
           held == {w \in due : current[w.participant] = w.connection
                                  /\ lease[w.participant] # NoLease}
           over == {w.participant : w \in {x \in held : Expired(lease[x.participant])}}
<1>1. /\ current' = [p \in Participants |-> IF p \in over THEN None ELSE current[p]]
      /\ home' = [p \in Participants |-> IF p \in over THEN None ELSE home[p]]
      /\ room' = Kept(RemoveParticipants(room, over)) /\ UNCHANGED <<phase, place>>
  BY DEF Expire
<1>2. \A w \in expiries : w.participant \in Participants
  BY DEF Works, Work
<1>3. over \in SUBSET Participants
  BY <1>2, Zenon
<1> HIDE DEF over
<1>4. Removing(room, RemoveParticipants(room, over), over)
  BY <1>3, RemoveManyFacts, Zenon DEF PlaceInv
<1> QED BY <1>1, <1>3, <1>4, PlaceDepart, ZenonT(30)

-----------------------------------------------------------------------------
(* The invariant of the controller.                                        *)

GrantsInv == PlaceInv /\ LeaseInv /\ CutInv

\* It holds of an empty registry.
LEMMA InvInit ==
  ASSUME Counting, GrantsInit
  PROVE  GrantsInv
<1>1. PlaceInv
  BY PlaceInit DEF GrantsInit
<1>2. LeaseInv
  <2>1. /\ wall = 0 /\ limit \in Limits /\ lane = [c \in Conns |-> <<>>]
        /\ offered = [c \in Conns |-> NoLease] /\ view = [c \in Conns |-> NoLease]
        /\ lease = [p \in Participants |-> NoLease] /\ expiries = {}
        /\ current = [p \in Participants |-> None] /\ phase = [c \in Conns |-> "new"]
    BY DEF GrantsInit, Init
  <2>2. NoLease \in Known /\ <<>> \in Seq(Command)
    BY DEF Known, NoLease
  <2>3. LeaseTypes
    BY <2>1, <2>2, SMTT(30) DEF LeaseTypes
  <2>4. \A q \in Participants : LeaseAt(q)
    BY <2>1 DEF LeaseAt
  <2>5. \A c \in Conns : LaneAt(c)
    BY <2>1, SMTT(30) DEF LaneAt
  <2>6. Timers(current, lease) = {}
    BY <2>1 DEF Timers, Works
  <2> QED BY <2>1, <2>3, <2>4, <2>5, <2>6, ZenonT(30) DEF LeaseInv
<1>3. CutInv
  <2>1. tasks = <<>> /\ completions = <<>> /\ credit = 0
    BY DEF GrantsInit
  <2>2. /\ <<>> \in Seq(TaskType) /\ <<>> \in Seq(CompletionType) /\ 1 .. Len(<<>>) = {}
        /\ DOMAIN <<>> = {}
    OBVIOUS
  <2>3. Open(<<>>) = {} /\ Unpaid(<<>>) = {}
    BY <2>2 DEF Open, Unpaid
  <2>4. Cardinality({}) = 0
    BY DEF Counting, CountsFew
  <2>5. credit = Cardinality(Open(tasks)) + Cardinality(Unpaid(completions))
    <3>1. Cardinality(Open(tasks)) = 0 /\ Cardinality(Unpaid(completions)) = 0
      BY <2>1, <2>3, <2>4, ZenonT(30)
    <3> QED BY <2>1, <3>1
  <2>6. tasks \in Seq(TaskType) /\ completions \in Seq(CompletionType)
    BY <2>1, <2>2
  <2>7. 1 .. Len(tasks) = {}
    BY <2>1, <2>2, Zenon
  <2> QED BY <2>5, <2>6, <2>7, Zenon DEF CutInv
<1> QED BY <1>1, <1>2, <1>3 DEF GrantsInv

\* Every step of the controller, its tasks, the endpoints and the shards keeps it.
LEMMA InvStep ==
  ASSUME Counting, GrantsInv, GrantsNext
  PROVE  GrantsInv'
<1>1. PlaceInv /\ LeaseInv /\ CutInv /\ wall \in Nat
  BY DEF GrantsInv, LeaseInv, LeaseTypes
<1>2. CASE Tick
  <2>1. wall' \in Nat /\ UNCHANGED <<vars, leaseVars, lane, cutoffVars, limit>>
    BY <1>1, <1>2 DEF Tick
  <2>2. PlaceInv'
    BY <1>1, <2>1, PlaceSame
  <2>3. LeaseInv'
    BY <1>1, <2>1, LeaseSame, Zenon DEF vars
  <2>4. CutInv'
    BY <1>1, <2>1, CutSame DEF vars, cutoffVars
  <2> QED BY <2>2, <2>3, <2>4, Zenon DEF GrantsInv
<1>3. CASE Expire
  <2>1. PlaceInv'
    BY <1>1, <1>3, PlaceExpire DEF LeaseInv, Timers
  <2>2. LeaseInv'
    BY <1>1, <1>3, LeaseExpire
  <2>3. CutInv'
    <3>1. UNCHANGED <<phase, tasks, completions, credit>>
      BY <1>3 DEF Expire, cutoffVars
    <3>2. \A p \in Participants : current'[p] \in {None, current[p]}
      BY <1>3 DEF Expire
    <3>3. \A d \in Conns : Owner[d] \in Participants /\ d # None
      BY OwnerType
    <3> QED BY <1>1, <3>1, <3>2, <3>3, CutSame, Zenon
  <2> QED BY <2>1, <2>2, <2>3 DEF GrantsInv
<1>4. CASE ReleaseDeletion
  <2>1. UNCHANGED <<vars, wall, leaseVars, limit>>
    BY <1>4 DEF ReleaseDeletion, clocks
  <2>2. LeaseInv'
    <3>1. CASE lane' = lane
      BY <1>1, <2>1, <3>1, LeaseSame, Zenon DEF vars
    <3>2. CASE lane' # lane
      <4> DEFINE done == Head(completions)
      <4>1. lane' = Told(tasks[done.task].conn, done.task, done.success) /\ completions # <<>>
        BY <1>4, <3>2 DEF ReleaseDeletion
      <4>2. done \in CompletionType
        BY <1>1, <4>1 DEF CutInv
      <4>3. done.task \in Nat /\ done.success \in BOOLEAN
        BY <4>2 DEF CompletionType
      <4> HIDE DEF done
      <4> QED BY <1>1, <2>1, <4>1, <4>3, LeaseTold, ZenonT(30) DEF vars
    <3> QED BY <3>1, <3>2
  <2> QED BY <1>1, <1>4, <2>1, <2>2, PlaceSame, CutRelease, Zenon DEF GrantsInv
<1>5. CASE TaskStep
  <2>1. PICK i \in DOMAIN tasks :
          (\E s \in Shards : Ack(i, s)) \/ Drained(i) \/ TimedOut(i) \/ Reply(i) \/ ReturnCredit(i)
    BY <1>5 DEF TaskStep
  <2>2. UNCHANGED <<vars, wall, leaseVars, lane, limit>>
    BY <2>1, Zenon DEF Ack, Drained, TimedOut, Decide, Reply, ReturnCredit, clocks
  <2>3. CutInv'
    <3>1. ASSUME NEW s \in Shards, Ack(i, s) PROVE CutInv'
      BY <1>1, <3>1, CutAck, Zenon
    <3>2. CASE Drained(i)
      <4> DEFINE success == tasks[i].lost = {}
      <4>1. Decide(i, success) /\ success \in BOOLEAN
            /\ (success => Waiting(tasks[i]) = {} /\ tasks[i].lost = {})
        BY <3>2 DEF Drained
      <4> HIDE DEF success
      <4> QED BY <1>1, <4>1, CutDecide, Zenon
    <3>3. CASE TimedOut(i)
      <4>1. Decide(i, FALSE) /\ FALSE \in BOOLEAN
        BY <3>3, Zenon DEF TimedOut
      <4> QED BY <1>1, <4>1, CutDecide, ZenonT(30)
    <3> QED BY <1>1, <2>1, <3>1, <3>2, <3>3, CutReply, CutReturn, Zenon
  <2>4. LeaseInv'
    BY <1>1, <2>2, LeaseSame, Zenon DEF vars
  <2>5. PlaceInv'
    BY <1>1, <2>2, PlaceSame, Zenon
  <2> QED BY <2>3, <2>4, <2>5, Zenon DEF GrantsInv
<1>15. DOMAIN phase = Conns /\ DOMAIN current = Participants
  BY <1>1, Zenon DEF PlaceInv
<1>6. ASSUME NEW c \in Conns, BeginGranted(c) PROVE GrantsInv'
  <2>1. Begin(c) /\ UNCHANGED <<tasks, completions, credit>>
    BY <1>6, Zenon DEF BeginGranted, cutoffVars
  <2>2. CutInv'
    <3>1. UNCHANGED current /\ phase[c] = "new"
          /\ (phase' = [phase EXCEPT ![c] = "done"] \/ phase' = [phase EXCEPT ![c] = "pending"])
      BY <2>1, Zenon DEF Begin
    <3>2. \A d \in Conns : phase[d] = "done" => phase'[d] = "done"
      BY <1>15, <3>1, Zenon
    <3> QED BY <1>1, <2>1, <3>1, <3>2, CutSame, Zenon
  <2> QED BY <1>1, <1>6, <2>1, <2>2, PlaceBegin, LeaseBegin, Zenon DEF GrantsInv
<1>7. ASSUME NEW c \in Conns, CommitGranted(c) PROVE GrantsInv'
  <2>1. Commit(c) /\ UNCHANGED <<tasks, completions, credit>>
    BY <1>7, Zenon DEF CommitGranted, cutoffVars
  <2>2. CutInv'
    <3>1. /\ phase[c] = "pending" /\ phase' = [phase EXCEPT ![c] = "done"]
          /\ current' = [current EXCEPT ![Owner[c]] = c]
      BY <2>1, SMTT(30) DEF Commit, Pending
    <3>2. \A d \in Conns : phase[d] = "done" => phase'[d] = "done" /\ d # c
      BY <1>15, <3>1, Zenon
    <3>3. \A d \in Conns : Owner[d] \in Participants /\ current'[Owner[d]] \in {c, current[Owner[d]]}
      BY <1>15, <3>1, OwnerType, Zenon
    <3> QED BY <1>1, <2>1, <3>2, <3>3, CutSame, Zenon
  <2> QED BY <1>1, <1>7, <2>1, <2>2, PlaceCommit, LeaseCommit DEF GrantsInv
<1>8. ASSUME NEW c \in Conns, CancelGranted(c) PROVE GrantsInv'
  <2>1. Cancel(c) /\ UNCHANGED <<tasks, completions, credit>>
    BY <1>8, Zenon DEF CancelGranted, grantVars, cutoffVars
  <2>2. CutInv'
    <3>1. phase' = [phase EXCEPT ![c] = "done"] /\ UNCHANGED current
      BY <2>1, SMTT(30) DEF Cancel
    <3>2. \A d \in Conns : phase[d] = "done" => phase'[d] = "done"
      BY <1>15, <3>1, Zenon
    <3> QED BY <1>1, <2>1, <3>1, <3>2, CutSame, Zenon
  <2> QED BY <1>1, <1>8, <2>1, <2>2, PlaceCancel, LeaseCancel DEF GrantsInv
<1>9. ASSUME NEW c \in Conns, Delete(c) PROVE GrantsInv'
  <2>1. Owner[c] \in Participants
    BY OwnerType, ZenonT(60)
  <2>2. UNCHANGED <<lane, limit>>
    BY <1>9 DEF Delete
  <2>3. CASE current[Owner[c]] = c
    <3>1. Leave(Owner[c]) /\ Ended(Owner[c])
      BY <1>9, <2>3, SMTT(30) DEF Delete
    <3> QED BY <1>1, <1>9, <2>1, <2>2, <3>1, PlaceLeave, LeaseEnded, CutDelete, Zenon DEF GrantsInv
  <2>4. CASE current[Owner[c]] # c
    <3>1. UNCHANGED <<vars, wall, leaseVars>>
      BY <1>9, <2>4, SMTT(30) DEF Delete, clocks
    <3>2. LeaseInv'
      BY <1>1, <2>2, <3>1, LeaseSame, Zenon DEF vars
    <3> QED BY <1>1, <1>9, <3>1, <3>2, PlaceSame, CutDelete, Zenon DEF GrantsInv
  <2> QED BY <2>3, <2>4
<1>10. ASSUME NEW c \in Conns, Cutoff(c) PROVE GrantsInv'
  <2>1. UNCHANGED <<vars, wall, leaseVars, limit>>
    BY <1>10 DEF Cutoff, clocks
  <2>2. LeaseInv'
    <3>1. CASE lane' = lane
      BY <1>1, <2>1, <3>1, LeaseSame, SMTT(30) DEF vars
    <3>2. CASE lane' # lane
      <4>1. lane' = Told(c, Len(tasks) + 1, FALSE)
        BY <1>10, <3>2, ZenonT(30) DEF Cutoff, CutoffFenced, CutoffRefused
      <4>2. Len(tasks) + 1 \in Nat /\ FALSE \in BOOLEAN
        BY <1>1 DEF CutInv
      <4> QED BY <1>1, <2>1, <4>1, <4>2, LeaseTold, ZenonT(30) DEF vars
    <3> QED BY <3>1, <3>2, SMTT(30)
  <2> QED BY <1>1, <1>10, <2>1, <2>2, PlaceSame, CutCutoff, ZenonT(30) DEF GrantsInv
<1>11. ASSUME NEW c \in Conns, Deliver(c) PROVE GrantsInv'
  <2>1. UNCHANGED vars
    BY <1>11 DEF Deliver
  <2> QED BY <1>1, <1>11, <2>1, PlaceSame, LeaseDeliver, CutDeliver, Zenon DEF GrantsInv
<1>12. ASSUME NEW c \in Conns, NEW e \in limit.expiries, Replace(c, e) PROVE GrantsInv'
  <2>1. UNCHANGED <<vars, tasks, completions, credit>>
    BY <1>12 DEF Replace, cutoffVars
  <2>2. CutInv'
    BY <1>1, <2>1, CutSame, Zenon DEF vars
  <2> QED BY <1>1, <1>12, <2>1, <2>2, PlaceSame, LeaseReplace, ZenonT(60) DEF GrantsInv
<1>13. ASSUME NEW p \in Participants, Depart(p) PROVE GrantsInv'
  <2>1. Leave(p) /\ Ended(p) /\ UNCHANGED <<lane, limit, tasks, completions, credit>>
    BY <1>13, Zenon DEF Depart, cutoffVars
  <2>2. CutInv'
    <3>1. current' = [current EXCEPT ![p] = None] /\ UNCHANGED phase
      BY <2>1, SMTT(30) DEF Leave
    <3>2. \A d \in Conns : /\ Owner[d] \in Participants /\ d # None
                           /\ current'[Owner[d]] \in {None, current[Owner[d]]}
      BY <1>15, <3>1, OwnerType, Zenon
    <3> QED BY <1>1, <2>1, <3>1, <3>2, CutSame, Zenon
  <2> QED BY <1>1, <2>1, <2>2, PlaceLeave, LeaseEnded, Zenon DEF GrantsInv
<1>14. ASSUME NEW s \in Shards, Stop(s) \/ Discover(s) PROVE GrantsInv'
  <2>1. UNCHANGED <<vars, wall, leaseVars, lane, limit>>
    BY <1>14 DEF Stop, Discover, clocks
  <2>2. CutInv'
    <3>1. CASE Stop(s)
      BY <1>1, <3>1, CutStop, Zenon
    <3>2. CASE Discover(s)
      <4>1. UNCHANGED <<tasks, completions, credit>>
        BY <3>2 DEF Discover
      <4> QED BY <1>1, <2>1, <4>1, CutSame, Zenon DEF vars
    <3> QED BY <1>14, <3>1, <3>2, SMTT(30)
  <2>3. LeaseInv'
    BY <1>1, <2>1, LeaseSame, SMTT(30) DEF vars
  <2>4. PlaceInv'
    BY <1>1, <2>1, PlaceSame, Zenon
  <2> QED BY <2>2, <2>3, <2>4 DEF GrantsInv
<1> QED BY <1>2, <1>3, <1>4, <1>5, <1>6, <1>7, <1>8, <1>9, <1>10, <1>11, <1>12, <1>13, <1>14, Zenon
        DEF GrantsNext

\* So does a step that changes nothing.
LEMMA InvStutter ==
  ASSUME GrantsInv, UNCHANGED allVars
  PROVE  GrantsInv'
<1>1. PlaceInv /\ LeaseInv /\ CutInv /\ wall \in Nat
  BY DEF GrantsInv, LeaseInv, LeaseTypes
<1>2. UNCHANGED <<vars, wall, leaseVars, lane, tasks, completions, credit, limit>>
  BY DEF allVars, grantVars, clocks, cutoffVars
<1>3. PlaceInv'
  BY <1>1, <1>2, PlaceSame, Zenon
<1>4. LeaseInv'
  BY <1>1, <1>2, LeaseSame, SMTT(30) DEF vars
<1>5. CutInv'
  BY <1>1, <1>2, CutSame, Zenon DEF vars
<1> QED BY <1>3, <1>4, <1>5, Zenon DEF GrantsInv

\* The copies of a lease agree.
LEMMA LeaseAgrees ==
  ASSUME PlaceInv, LeaseInv
  PROVE  LeasesAgree
<1> DEFINE Here == {p \in Participants : current[p] # None}
<1>1. expiries = UNION {Works(p, current[p], lease[p]) : p \in Here}
  <2>1. \A p \in Participants : p \notin Here => Works(p, current[p], lease[p]) = {}
    BY Zenon DEF LeaseInv, LeaseAt, Works
  <2> QED BY <2>1, Zenon DEF LeaseInv, Timers
<1>2. ASSUME NEW p \in Here
      PROVE  LET known == view[current[p]]
                 coming == lane[current[p]]
             IN  /\ known.revision <= lease[p].revision
                 /\ (\A i \in DOMAIN coming : coming[i].kind = "cutoff") =>
                      known.revision = lease[p].revision /\ known.expiry = lease[p].expiry
  <2>1. current[p] \in Conns /\ Leads(lane[current[p]], view[current[p]], lease[p])
    BY <1>2 DEF PlaceInv, LeaseInv, LeaseAt
  <2>2. lane[current[p]] \in Seq(Command)
    BY <2>1, Zenon DEF LeaseInv, LeaseTypes
  <2>3. DOMAIN lane[current[p]] = 1 .. Len(lane[current[p]])
    BY <2>2, Positions, Zenon
  <2> QED BY <2>1, <2>3, ZenonT(60) DEF Leads
<1> QED BY <1>1, <1>2, Zenon DEF LeasesAgree

\* Credit and withdrawals, from the invariant of the tasks.
LEMMA CutExact ==
  ASSUME CutInv
  PROVE  CreditExact /\ WithdrawnEverywhere
<1>1. DOMAIN tasks = 1 .. Len(tasks)
  BY DEF CutInv
<1>2. \A i \in DOMAIN tasks : TaskAt(tasks[i], phase, current)
  BY <1>1, Zenon DEF CutInv
<1>3. \A i \in DOMAIN tasks : Waiting(tasks[i]) # {} => i \in Unreleased
  <2> SUFFICES ASSUME NEW i \in DOMAIN tasks, Waiting(tasks[i]) # {}
               PROVE  tasks[i].phase \in {"waiting", "replying", "draining"}
    BY DEF Unreleased
  <2>1. TaskSound(tasks[i])
    BY <1>2 DEF TaskAt
  <2> QED BY <2>1 DEF TaskSound, TaskType
<1>4. {i \in DOMAIN tasks : i \in Unreleased \/ Waiting(tasks[i]) # {}} = Open(tasks)
  BY <1>3 DEF Unreleased, Open, Holding
<1>5. CreditExact
  BY <1>4, Zenon DEF CreditExact, CutInv, Unpaid
<1>6. WithdrawnEverywhere
  BY <1>2 DEF WithdrawnEverywhere, TaskAt, TaskSound
<1> QED BY <1>5, <1>6, Zenon

-----------------------------------------------------------------------------
(* The theorems.                                                           *)

\* The invariant holds of every run of the controller.
THEOREM GrantsAlwaysSound == GrantsSpec => []GrantsInv
<1>1. GrantsInit => GrantsInv
  BY InvInit, CountingHolds
<1>2. GrantsInv /\ [GrantsNext]_allVars => GrantsInv'
  BY InvStep, InvStutter, CountingHolds
<1> QED BY <1>1, <1>2, PTL DEF GrantsSpec

\* RoomShard: the occupancy counter of a partition counts the participants placed or
\* reserved there, each once, and never exceeds room_partition_size.
THEOREM OccupancyAlwaysExact == GrantsSpec => []OccupancyExact
<1>1. GrantsInv => OccupancyExact
  BY PlaceExact, Zenon DEF GrantsInv
<1> QED BY <1>1, GrantsAlwaysSound, PTL

\* reserve and commit_candidate: a claim holds until its materialisation is finished,
\* and what admission chooses next meets the assertions of the room.
THEOREM ClaimsAlwaysHonoured == GrantsSpec => []ClaimsHonoured
<1>1. GrantsInv => ClaimsHonoured
  BY PlaceHonours, CountingHolds DEF GrantsInv
<1> QED BY <1>1, GrantsAlwaysSound, PTL

\* authorization_expiries, the registry and the endpoint agree on every lease.
THEOREM LeasesAlwaysAgree == GrantsSpec => []LeasesAgree
<1>1. GrantsInv => LeasesAgree
  BY LeaseAgrees, Zenon DEF GrantsInv
<1> QED BY <1>1, GrantsAlwaysSound, PTL

\* A cutoff holds its credit while a lane holds one of its fences and until its
\* completion is taken.
THEOREM CreditAlwaysExact == GrantsSpec => []CreditExact
<1>1. GrantsInv => CreditExact
  BY CutExact, Zenon DEF GrantsInv
<1> QED BY <1>1, GrantsAlwaysSound, PTL

\* A cutoff reported as done was executed by every shard it touched, and a connection
\* so deleted is not current again.
THEOREM AlwaysWithdrawnEverywhere == GrantsSpec => []WithdrawnEverywhere
<1>1. GrantsInv => WithdrawnEverywhere
  BY CutExact DEF GrantsInv
<1> QED BY <1>1, GrantsAlwaysSound, PTL
=============================================================================
