------------------------- MODULE RouteTable_proofs -------------------------
(***************************************************************************)
(* Proof that an envelope never reaches a later tenant of its slot, for    *)
(* every number of slots, width of the epoch, quarantine, lane and life of *)
(* an envelope that satisfy EpochOutlivesTraffic.                          *)
(*                                                                         *)
(* Everything that names an address, an envelope or an update, has an age. *)
(* The invariant compares it with how often the slot was reused since: an  *)
(* address that is k epochs behind its slot has been around for k periods  *)
(* of quarantine and for as long as the slot now waits in its next one.    *)
(* An age is bounded, so k stays below the number of epochs, an epoch that *)
(* comes round finds no trace of its last use, and two traces of one slot  *)
(* and epoch are of one tenant.  The shard's table needs no age: an entry  *)
(* that is not the current one has its retirement still in the lane.       *)
(*                                                                         *)
(* And proof that the table converges to what the controller believes.     *)
(*                                                                         *)
(* First the allocator on its own: slots are never issued twice, and       *)
(* "route table exhausted" is never premature.  SlotsAccounted alone is    *)
(* inductive given the types.  Exhaustion needs OldestFirst as well:       *)
(* allocate_inner inspects one entry of the queue, so its answer is about  *)
(* the whole queue only because the front is oldest.                       *)
(***************************************************************************)
EXTENDS RouteTable, SequenceTheorems, TLAPS

SlotIInv ==
  /\ SlotTypeOK
  /\ SlotsAccounted
  /\ OldestFirst
  /\ ExhaustedOnlyWhenFull

USE SlotAssumption

\* The allocator starts with no slot issued.
LEMMA SlotInitIInv == SlotInit => SlotIInv
  BY DEF SlotInit, SlotIInv, SlotTypeOK, SlotsAccounted, QueueDistinct,
         FlagMatchesQueue, Queued, SlotPartition, OldestFirst,
         ExhaustedOnlyWhenFull, Slots, Epochs, QueueEntry

\* What a pop of the front of the queue leaves behind.
LEMMA TailEntries ==
  ASSUME quarantine \in Seq(QueueEntry), quarantine # << >>
  PROVE  /\ Tail(quarantine) \in Seq(QueueEntry)
         /\ Len(Tail(quarantine)) = Len(quarantine) - 1
         /\ \A i \in 1 .. Len(Tail(quarantine)) :
              i + 1 \in 1 .. Len(quarantine) /\ Tail(quarantine)[i] = quarantine[i + 1]
         /\ Head(quarantine) = quarantine[1]
         /\ 1 \in 1 .. Len(quarantine)
  OBVIOUS

\* Taking the oldest slot out of quarantine keeps the books straight.
LEMMA ReuseKeepsIInv ==
  ASSUME SlotIInv, ~exhausted, NEW t \in Tenants, Reuse(t)
  PROVE  SlotIInv'
<1> DEFINE slot == Head(quarantine).slot
<1>1. /\ quarantine \in Seq(QueueEntry) /\ quarantine # << >>
      /\ quarantine' = Tail(quarantine)
  BY DEF SlotIInv, SlotTypeOK, Reuse, FrontAged
<1>2. /\ Tail(quarantine) \in Seq(QueueEntry)
      /\ Len(Tail(quarantine)) = Len(quarantine) - 1
      /\ \A i \in 1 .. Len(Tail(quarantine)) :
           i + 1 \in 1 .. Len(quarantine) /\ Tail(quarantine)[i] = quarantine[i + 1]
      /\ Head(quarantine) = quarantine[1]
      /\ 1 \in 1 .. Len(quarantine)
      /\ Len(quarantine) \in Nat
  BY <1>1, TailEntries
<1>3. slot \in Slots /\ quarantined[slot]
  <2>1. quarantine[1] \in QueueEntry
    BY <1>1, <1>2
  <2>2. slot \in Slots /\ slot = quarantine[1].slot
    BY <1>2, <2>1 DEF QueueEntry
  <2>3. Queued(slot)
    BY <1>2, <2>2 DEF Queued
  <2> QED BY <2>2, <2>3 DEF SlotIInv, SlotsAccounted, FlagMatchesQueue
<1>4. SlotTypeOK'
  BY <1>1, <1>2, <1>3 DEF SlotIInv, SlotTypeOK, Reuse, Epochs
<1>5. QueueDistinct'
  BY <1>1, <1>2 DEF SlotIInv, SlotsAccounted, QueueDistinct
<1>6. FlagMatchesQueue'
  <2> SUFFICES ASSUME NEW s \in Slots PROVE quarantined'[s] <=> Queued(s)'
    BY DEF FlagMatchesQueue
  <2>1. CASE s = slot
    <3>1. quarantined'[s] = FALSE
      BY <1>3, <2>1 DEF Reuse, SlotIInv, SlotTypeOK
    <3>2. ~Queued(s)'
      BY <1>1, <1>2, <2>1 DEF Queued, SlotIInv, SlotsAccounted, QueueDistinct
    <3> QED BY <3>1, <3>2
  <2>2. CASE s # slot
    <3>1. quarantined'[s] = quarantined[s]
      BY <2>2 DEF Reuse, SlotIInv, SlotTypeOK
    <3>2. ASSUME Queued(s) PROVE Queued(s)'
      <4>1. PICK i \in 1 .. Len(quarantine) : quarantine[i].slot = s
        BY <3>2 DEF Queued
      <4>2. i # 1 /\ i - 1 \in 1 .. Len(Tail(quarantine))
        BY <4>1, <2>2, <1>2
      <4>3. Tail(quarantine)[i - 1] = quarantine[i]
        BY <4>2, <1>2
      <4> QED BY <4>1, <4>2, <4>3, <1>1, Zenon DEF Queued
    <3>3. ASSUME Queued(s)' PROVE Queued(s)
      BY <3>3, <1>1, <1>2 DEF Queued
    <3> QED BY <3>1, <3>2, <3>3 DEF SlotIInv, SlotsAccounted, FlagMatchesQueue
  <2> QED BY <2>1, <2>2
<1>7. SlotPartition'
  BY <1>3, Zenon DEF SlotIInv, SlotTypeOK, SlotsAccounted, SlotPartition, Reuse, Slots
<1>8. OldestFirst'
  <2> SUFFICES ASSUME NEW i \in 1 .. Len(Tail(quarantine)),
                      NEW j \in 1 .. Len(Tail(quarantine)), i <= j
               PROVE  Tail(quarantine)[i].age >= Tail(quarantine)[j].age
    BY <1>1 DEF OldestFirst
  <2> QED BY <1>2 DEF SlotIInv, OldestFirst
<1>9. ExhaustedOnlyWhenFull'
  BY DEF Reuse, ExhaustedOnlyWhenFull
<1> QED BY <1>4, <1>5, <1>6, <1>7, <1>8, <1>9 DEF SlotIInv, SlotsAccounted

\* A fresh slot was neither held nor queued.
LEMMA GrowKeepsIInv ==
  ASSUME SlotIInv, ~exhausted, NEW t \in Tenants, Grow(t)
  PROVE  SlotIInv'
<1>1. highWater \in Slots /\ highWater' = highWater + 1 /\ quarantine' = quarantine
  BY DEF Grow, SlotIInv, SlotTypeOK, Slots
<1>2. SlotTypeOK'
  BY <1>1 DEF SlotIInv, SlotTypeOK, Grow, Slots, Epochs
<1>3. QueueDistinct' /\ OldestFirst'
  BY <1>1 DEF SlotIInv, SlotsAccounted, QueueDistinct, OldestFirst
<1>4. quarantined' = quarantined
  <2>1. quarantined[highWater] = FALSE
    BY <1>1 DEF SlotIInv, SlotTypeOK, SlotsAccounted, SlotPartition
  <2> QED BY <2>1, <1>1 DEF Grow, SlotIInv, SlotTypeOK
<1>5. FlagMatchesQueue'
  BY <1>1, <1>4 DEF SlotIInv, SlotsAccounted, FlagMatchesQueue, Queued
<1>6. SlotPartition'
  BY <1>1, <1>4 DEF SlotIInv, SlotTypeOK, SlotsAccounted, SlotPartition, Grow, Slots
<1>7. ExhaustedOnlyWhenFull'
  BY DEF Grow, ExhaustedOnlyWhenFull
<1> QED BY <1>2, <1>3, <1>5, <1>6, <1>7 DEF SlotIInv, SlotsAccounted

\* The front of the queue being too young means every entry is.
LEMMA ExhaustKeepsIInv ==
  ASSUME SlotIInv, Exhaust
  PROVE  SlotIInv'
<1>1. UNCHANGED <<highWater, epochs, quarantine, quarantined, holder>>
  BY DEF Exhaust
<1>2. SlotTypeOK' /\ SlotsAccounted' /\ OldestFirst'
  BY <1>1 DEF Exhaust, SlotIInv, SlotTypeOK, SlotsAccounted, QueueDistinct,
              FlagMatchesQueue, Queued, SlotPartition, OldestFirst
<1>3. ExhaustedOnlyWhenFull'
  <2> SUFFICES ASSUME NEW s \in Slots, holder[s] = NoTenant
               PROVE  \E i \in 1 .. Len(quarantine) :
                        quarantine[i].slot = s /\ quarantine[i].age < Quarantine
    BY <1>1 DEF ExhaustedOnlyWhenFull
  <2>1. s < highWater
    BY DEF Exhaust, SlotIInv, SlotTypeOK, Slots
  <2>2. Queued(s)
    BY <2>1 DEF SlotIInv, SlotsAccounted, SlotPartition, FlagMatchesQueue
  <2>3. PICK i \in 1 .. Len(quarantine) : quarantine[i].slot = s
    BY <2>2 DEF Queued
  <2>4. quarantine \in Seq(QueueEntry) /\ quarantine # << >>
    BY <2>3 DEF SlotIInv, SlotTypeOK
  <2>5. Head(quarantine) = quarantine[1] /\ 1 \in 1 .. Len(quarantine)
    BY <2>4, TailEntries
  <2>6. quarantine[1] \in QueueEntry /\ quarantine[i] \in QueueEntry
    BY <2>3, <2>4, <2>5
  <2>7. quarantine[1].age < Quarantine
    BY <2>4, <2>5, <2>6 DEF Exhaust, FrontAged, QueueEntry
  <2>8. quarantine[1].age >= quarantine[i].age
    BY <2>3, <2>5 DEF SlotIInv, OldestFirst
  <2>9. quarantine[i].age < Quarantine
    BY <2>6, <2>7, <2>8 DEF QueueEntry
  <2> QED BY <2>3, <2>9
<1> QED BY <1>2, <1>3 DEF SlotIInv

\* A tenant gives back a slot that was not queued, which joins the back.
LEMMA RetireKeepsIInv ==
  ASSUME SlotIInv, NEW s \in Slots, Retire(s)
  PROVE  SlotIInv'
<1> DEFINE entry == [slot |-> s, age |-> 0]
<1>1. s < highWater /\ ~quarantined[s] /\ ~Queued(s)
  BY DEF Retire, SlotIInv, SlotTypeOK, SlotsAccounted, SlotPartition,
         FlagMatchesQueue, Slots
<1>2. /\ quarantine' = Append(quarantine, entry)
      /\ quarantined' = [quarantined EXCEPT ![s] = TRUE]
      /\ holder' = [holder EXCEPT ![s] = NoTenant]
      /\ UNCHANGED <<highWater, epochs, exhausted>>
      /\ ~exhausted
  BY <1>1 DEF Retire, Quarantined
<1>3. quarantine \in Seq(QueueEntry) /\ entry \in QueueEntry
  BY DEF SlotIInv, SlotTypeOK, QueueEntry
<1>4. /\ quarantine' \in Seq(QueueEntry)
      /\ Len(quarantine') = Len(quarantine) + 1
      /\ \A i \in 1 .. Len(quarantine) : quarantine'[i] = quarantine[i]
      /\ quarantine'[Len(quarantine) + 1] = entry
      /\ Len(quarantine) \in Nat
  BY <1>2, <1>3, AppendProperties
<1>5. SlotTypeOK'
  BY <1>2, <1>4 DEF SlotIInv, SlotTypeOK
<1>6. QueueDistinct'
  BY <1>1, <1>4 DEF SlotIInv, SlotsAccounted, QueueDistinct, Queued
<1>7. FlagMatchesQueue'
  <2> SUFFICES ASSUME NEW r \in Slots PROVE quarantined'[r] <=> Queued(r)'
    BY DEF FlagMatchesQueue
  <2>1. Queued(r)' <=> (Queued(r) \/ r = s)
    BY <1>4 DEF Queued
  <2>2. quarantined'[r] <=> (quarantined[r] \/ r = s)
    BY <1>2 DEF SlotIInv, SlotTypeOK
  <2> QED BY <2>1, <2>2 DEF SlotIInv, SlotsAccounted, FlagMatchesQueue
<1>8. SlotPartition'
  BY <1>1, <1>2 DEF SlotIInv, SlotTypeOK, SlotsAccounted, SlotPartition, Slots
<1>9. OldestFirst'
  <2> SUFFICES ASSUME NEW i \in 1 .. Len(quarantine'), NEW j \in 1 .. Len(quarantine'),
                      i <= j
               PROVE  quarantine'[i].age >= quarantine'[j].age
    BY DEF OldestFirst
  <2>1. quarantine'[i] \in QueueEntry
    BY <1>4
  <2>2. quarantine'[i].age >= 0 /\ quarantine'[i].age \in Nat
    BY <2>1 DEF QueueEntry
  <2>3. CASE j = Len(quarantine) + 1
    BY <1>4, <2>2, <2>3
  <2>4. CASE j # Len(quarantine) + 1
    BY <1>4, <2>4 DEF SlotIInv, OldestFirst
  <2> QED BY <2>3, <2>4
<1>10. ExhaustedOnlyWhenFull'
  BY <1>2 DEF ExhaustedOnlyWhenFull
<1> QED BY <1>5, <1>6, <1>7, <1>8, <1>9, <1>10 DEF SlotIInv, SlotsAccounted

\* Time moves every entry alike, so it cannot reorder them.
LEMMA ElapseKeepsIInv ==
  ASSUME SlotIInv, Elapse
  PROVE  SlotIInv'
<1>1. quarantine \in Seq(QueueEntry) /\ Len(quarantine) \in Nat
  BY DEF SlotIInv, SlotTypeOK
<1>2. ASSUME NEW entry \in QueueEntry
      PROVE  /\ Older(entry) \in QueueEntry
             /\ Older(entry).slot = entry.slot
             /\ Older(entry).age = IF entry.age < Quarantine THEN entry.age + 1
                                                            ELSE entry.age
  BY <1>2 DEF Older, QueueEntry
<1>3. \A i \in 1 .. Len(quarantine) : quarantine[i] \in QueueEntry
  BY <1>1
<1>4. /\ quarantine' \in Seq(QueueEntry)
      /\ Len(quarantine') = Len(quarantine)
      /\ \A i \in 1 .. Len(quarantine) : quarantine'[i] = Older(quarantine[i])
  BY <1>1, <1>2, <1>3 DEF Elapse
<1>5. \A i \in 1 .. Len(quarantine) : quarantine'[i].slot = quarantine[i].slot
  BY <1>2, <1>3, <1>4
<1>6. SlotTypeOK'
  BY <1>4 DEF Elapse, SlotIInv, SlotTypeOK
<1>7. QueueDistinct'
  BY <1>4, <1>5 DEF SlotIInv, SlotsAccounted, QueueDistinct
<1>8. FlagMatchesQueue'
  <2>1. ASSUME NEW s \in Slots PROVE Queued(s)' <=> Queued(s)
    BY <1>4, <1>5 DEF Queued
  <2>2. quarantined' = quarantined
    BY DEF Elapse
  <2> QED BY <2>1, <2>2 DEF SlotIInv, SlotsAccounted, FlagMatchesQueue
<1>9. SlotPartition'
  BY DEF Elapse, SlotIInv, SlotsAccounted, SlotPartition
<1>10. OldestFirst'
  <2> SUFFICES ASSUME NEW i \in 1 .. Len(quarantine), NEW j \in 1 .. Len(quarantine),
                      i <= j
               PROVE  quarantine'[i].age >= quarantine'[j].age
    BY <1>4 DEF OldestFirst
  <2>1. quarantine[i].age >= quarantine[j].age
    BY DEF SlotIInv, OldestFirst
  <2>2. quarantine[i].age \in Nat /\ quarantine[j].age \in Nat
    BY <1>3 DEF QueueEntry
  <2>3. /\ quarantine'[i].age = IF quarantine[i].age < Quarantine
                                 THEN quarantine[i].age + 1 ELSE quarantine[i].age
        /\ quarantine'[j].age = IF quarantine[j].age < Quarantine
                                 THEN quarantine[j].age + 1 ELSE quarantine[j].age
    BY <1>2, <1>3, <1>4
  <2>4. quarantine[i].age <= Quarantine
    BY <1>3 DEF QueueEntry
  <2> QED BY <2>1, <2>2, <2>3, <2>4
<1>11. ExhaustedOnlyWhenFull'
  BY DEF Elapse, ExhaustedOnlyWhenFull
<1> QED BY <1>6, <1>7, <1>8, <1>9, <1>10, <1>11 DEF SlotIInv, SlotsAccounted

\* A step of another component leaves the allocator as it is.
LEMMA StutterKeepsIInv ==
  ASSUME SlotIInv, UNCHANGED slotVars
  PROVE  SlotIInv'
  BY DEF slotVars, SlotIInv, SlotTypeOK, SlotsAccounted, QueueDistinct,
         FlagMatchesQueue, Queued, SlotPartition, OldestFirst, ExhaustedOnlyWhenFull

\* Every operation of the allocator, and the passage of time, preserves the
\* invariant.
LEMMA SlotNextKeepsIInv == SlotIInv /\ [SlotNext]_slotVars => SlotIInv'
<1> SUFFICES ASSUME SlotIInv, [SlotNext]_slotVars PROVE SlotIInv'
  OBVIOUS
<1>1. ASSUME NEW t \in Tenants, Allocate(t) PROVE SlotIInv'
  BY <1>1, ReuseKeepsIInv, GrowKeepsIInv, ExhaustKeepsIInv DEF Allocate
<1>2. ASSUME NEW s \in Slots, Retire(s) PROVE SlotIInv'
  BY <1>2, RetireKeepsIInv
<1>3. CASE Elapse
  BY <1>3, ElapseKeepsIInv
<1>4. CASE UNCHANGED slotVars
  BY <1>4, StutterKeepsIInv
<1> QED BY <1>1, <1>2, <1>3, <1>4 DEF SlotNext

\* The state of the allocator keeps its type; in particular an epoch, advanced
\* with wrapping arithmetic, stays within the width of the route's epoch field.
THEOREM SlotTypesAlwaysOK == SlotSpec => []SlotTypeOK
<1>1. SlotIInv => SlotTypeOK
  BY DEF SlotIInv
<1> QED BY <1>1, SlotInitIInv, SlotNextKeepsIInv, PTL DEF SlotSpec

\* SlotAllocator never issues a slot twice: whatever the order of allocations,
\* retirements and time, a slot is fresh, held once or queued once.
THEOREM SlotsAlwaysAccounted == SlotSpec => []SlotsAccounted
<1>1. SlotIInv => SlotsAccounted
  BY DEF SlotIInv
<1> QED BY <1>1, SlotInitIInv, SlotNextKeepsIInv, PTL DEF SlotSpec

\* The "route table exhausted" assertion of allocate_inner fires only when every
\* slot is held or too young, although it looks at one queue entry only.
THEOREM ExhaustionNeverPremature == SlotSpec => []ExhaustedOnlyWhenFull
<1>1. SlotIInv => ExhaustedOnlyWhenFull
  BY DEF SlotIInv
<1> QED BY <1>1, SlotInitIInv, SlotNextKeepsIInv, PTL DEF SlotSpec

-----------------------------------------------------------------------------
(* The route table.                                                        *)

Addr == [slot : Slots, epoch : Epochs, tenant : Tenants]
Op == [kind : {"install", "retire"}, address : Addr, age : 0 .. LaneLag]
Frame == [address : Addr, age : 0 .. FrameLifetime]
Entry == [tenant : Tenants \cup {NoTenant}, epoch : Epochs]

RouteTypeOK ==
  /\ installed \in [Slots -> BOOLEAN]
  /\ lane \in Seq(Op)
  /\ table \in [Slots -> Entry]
  /\ stale \subseteq Frame

\* How many epochs e is behind c.
Back(c, e) == IF c >= e THEN c - e ELSE c - e + EpochModulus

\* An address of slot s and epoch e that is age old leaves room for the reuses of s
\* since, when c are the epochs of the slots and q is the quarantine.
Aged(c, q, s, e, age) ==
  /\ Quarantine * Back(c[s], e) <= age
  /\ \A i \in 1 .. Len(q) : q[i].slot = s => Quarantine * Back(c[s], e) + q[i].age <= age

LaneAged ==
  \A i \in 1 .. Len(lane) :
    Aged(epochs, quarantine, lane[i].address.slot, lane[i].address.epoch, lane[i].age)

StaleAged ==
  \A f \in stale : Aged(epochs, quarantine, f.address.slot, f.address.epoch, f.age)

\* Every trace of a tenancy.
Known == InFlight \cup {lane[i].address : i \in 1 .. Len(lane)}

KnownIssued == \A a \in Known : a.slot < highWater

\* Traces of one slot and epoch are of one tenant.
OneTenant ==
  \A a, b \in Known : a.slot = b.slot /\ a.epoch = b.epoch => a.tenant = b.tenant

InstalledHeld == \A s \in Slots : installed[s] => holder[s] # NoTenant

Current(a) == installed[a.slot] /\ a = Address(a.slot)

\* The route of an install in the lane is current, or retired behind it.
InstallsFollowed ==
  \A i \in 1 .. Len(lane) : lane[i].kind = "install" =>
    \/ Current(lane[i].address)
    \/ \E j \in i + 1 .. Len(lane) :
         lane[j].kind = "retire" /\ lane[j].address = lane[i].address

TableAddress(s) == [slot |-> s, epoch |-> table[s].epoch, tenant |-> table[s].tenant]

\* A route in the table is current, or its retirement is in the lane.
TableExplained ==
  \A s \in Slots : table[s].tenant # NoTenant =>
    \/ Current(TableAddress(s))
    \/ \E j \in 1 .. Len(lane) : lane[j].kind = "retire" /\ lane[j].address = TableAddress(s)

\* The inductive invariant.
RouteIInv ==
  /\ SlotIInv /\ RouteTypeOK
  /\ LaneAged /\ StaleAged
  /\ KnownIssued /\ OneTenant
  /\ InstalledHeld /\ InstallsFollowed /\ TableExplained
-----------------------------------------------------------------------------
(* Arithmetic.                                                             *)

USE RouteAssumption

\* The next epoch, without the remainder.
LEMMA NextEpoch ==
  ASSUME NEW c \in Epochs
  PROVE  (c + 1) % EpochModulus = IF c + 1 = EpochModulus THEN 0 ELSE c + 1
BY DEF Epochs

\* An epoch is less than a round behind.
LEMMA BackInRange ==
  ASSUME NEW c \in Epochs, NEW e \in Epochs
  PROVE  Back(c, e) \in 0 .. EpochModulus - 1
BY DEF Epochs, Back

\* An epoch steps back by one with every reuse, until it comes round.
LEMMA BackNext ==
  ASSUME NEW c \in Epochs, NEW e \in Epochs, Back(c, e) + 1 < EpochModulus
  PROVE  /\ Back((c + 1) % EpochModulus, e) = Back(c, e) + 1
         /\ (c + 1) % EpochModulus # e
BY NextEpoch DEF Epochs, Back

\* A common factor cancels.
LEMMA TimesCancels ==
  ASSUME NEW q \in Nat \ {0}, NEW x \in Nat, NEW y \in Nat, q * x < q * y
  PROVE  x < y
<1>1. CASE y <= x
  <2>1. q * y <= q * x
    BY <1>1
  <2> QED BY <2>1
<1> QED BY <1>1

\* One period more.
LEMMA TimesNext ==
  ASSUME NEW q \in Nat, NEW x \in Nat
  PROVE  q * (x + 1) = q * x + q /\ q * x \in Nat
OBVIOUS

-----------------------------------------------------------------------------
(* What the allocator does to the traces of a slot.                        *)

\* Reuse waits a whole quarantine, which every trace of the slot has lived through,
\* so the new epoch is one that no trace carries.
LEMMA AgedReuse ==
  ASSUME SlotIInv, NEW t \in Tenants, Reuse(t),
         NEW s \in Slots, NEW e \in Epochs, NEW age \in Nat,
         age < Quarantine * EpochModulus,
         Aged(epochs, quarantine, s, e, age)
  PROVE  /\ Aged(epochs', quarantine', s, e, age)
         /\ s = Head(quarantine).slot => epochs'[s] # e
<1> DEFINE slot == Head(quarantine).slot
<1>1. /\ quarantine \in Seq(QueueEntry) /\ quarantine # << >>
      /\ quarantine' = Tail(quarantine)
      /\ epochs \in [Slots -> Epochs]
      /\ epochs' = [epochs EXCEPT ![slot] = (@ + 1) % EpochModulus]
  BY DEF SlotIInv, SlotTypeOK, Reuse, FrontAged
<1>2. /\ Len(Tail(quarantine)) = Len(quarantine) - 1 /\ Len(quarantine) \in Nat
      /\ \A i \in 1 .. Len(Tail(quarantine)) :
           i + 1 \in 1 .. Len(quarantine) /\ Tail(quarantine)[i] = quarantine[i + 1]
      /\ Head(quarantine) = quarantine[1]
      /\ 1 \in 1 .. Len(quarantine)
  BY <1>1, TailEntries
<1>3. quarantine[1] \in QueueEntry /\ quarantine[1].age >= Quarantine
  BY <1>1, <1>2 DEF Reuse, FrontAged
<1>4. CASE s # slot
  BY <1>1, <1>2, <1>4 DEF Aged
<1>5. CASE s = slot
  <2> DEFINE b == Back(epochs[s], e)
  <2>1. b \in Nat /\ epochs[s] \in Epochs
    BY <1>1, BackInRange
  <2>2. Quarantine * (b + 1) <= age
    <3>1. Quarantine * b + quarantine[1].age <= age
      BY <1>2, <1>5 DEF Aged
    <3>2. quarantine[1].age \in Nat
      BY <1>3 DEF QueueEntry
    <3> HIDE DEF b
    <3> QED BY <1>3, <2>1, <3>1, <3>2, TimesNext
  <2>3. b + 1 < EpochModulus
    <3> HIDE DEF b
    <3>1. Quarantine * (b + 1) < Quarantine * EpochModulus
      BY <2>1, <2>2, TimesNext
    <3> QED BY <2>1, <3>1, TimesCancels
  <2>4. epochs'[s] = (epochs[s] + 1) % EpochModulus
    BY <1>1, <1>5
  <2>5. Back(epochs'[s], e) = b + 1 /\ epochs'[s] # e
    BY <2>1, <2>3, <2>4, BackNext
  <2>6. \A i \in 1 .. Len(quarantine') : quarantine'[i].slot # s
    BY <1>1, <1>2, <1>5 DEF SlotIInv, SlotsAccounted, QueueDistinct
  <2> QED BY <2>2, <2>5, <2>6 DEF Aged
<1> QED BY <1>4, <1>5

\* A slot that was issued before is not grown again.
LEMMA AgedGrow ==
  ASSUME SlotIInv, NEW t \in Tenants, Grow(t),
         NEW s \in Slots, s < highWater, NEW e, NEW age,
         Aged(epochs, quarantine, s, e, age)
  PROVE  Aged(epochs', quarantine', s, e, age)
<1>1. epochs'[s] = epochs[s] /\ quarantine' = quarantine
  BY DEF Grow, SlotIInv, SlotTypeOK, Slots
<1> QED BY <1>1 DEF Aged

\* A slot enters the quarantine at age zero.
LEMMA AgedRetire ==
  ASSUME SlotIInv, NEW r \in Slots, Retire(r),
         NEW s \in Slots, NEW e \in Epochs, NEW age \in Nat,
         Aged(epochs, quarantine, s, e, age)
  PROVE  Aged(epochs', quarantine', s, e, age)
<1> DEFINE entry == [slot |-> r, age |-> 0]
<1>1. ~quarantined[r]
  BY DEF Retire, SlotIInv, SlotTypeOK, SlotsAccounted, SlotPartition, Slots
<1>2. /\ quarantine \in Seq(QueueEntry) /\ entry \in QueueEntry
      /\ quarantine' = Append(quarantine, entry)
      /\ epochs' = epochs
  BY <1>1 DEF Retire, Quarantined, SlotIInv, SlotTypeOK, QueueEntry
<1>3. /\ Len(quarantine') = Len(quarantine) + 1
      /\ \A i \in 1 .. Len(quarantine) : quarantine'[i] = quarantine[i]
      /\ quarantine'[Len(quarantine) + 1] = entry
      /\ Len(quarantine) \in Nat
  BY <1>2, AppendProperties
<1> DEFINE b == Back(epochs[s], e)
<1>4. b \in Nat /\ Quarantine * b \in Nat
  BY BackInRange, TimesNext DEF SlotIInv, SlotTypeOK
<1>5. ASSUME NEW i \in 1 .. Len(quarantine'), quarantine'[i].slot = s
      PROVE  Quarantine * b + quarantine'[i].age <= age
  <2> HIDE DEF b
  <2>1. CASE i = Len(quarantine) + 1
    <3>1. quarantine'[i].age = 0
      BY <1>3, <2>1
    <3>2. Quarantine * b <= age
      BY DEF Aged, b
    <3> QED BY <1>4, <3>1, <3>2
  <2>2. CASE i # Len(quarantine) + 1
    <3>1. i \in 1 .. Len(quarantine) /\ quarantine'[i] = quarantine[i]
      BY <1>3, <2>2
    <3> QED BY <1>5, <3>1 DEF Aged, b
  <2> QED BY <2>1, <2>2
<1> QED BY <1>2, <1>5 DEF Aged

\* The quarantine and the traces age alike.
LEMMA AgedElapse ==
  ASSUME SlotIInv, Elapse,
         NEW s \in Slots, NEW e \in Epochs, NEW age \in Nat,
         Aged(epochs, quarantine, s, e, age)
  PROVE  Aged(epochs', quarantine', s, e, age + 1)
<1> DEFINE b == Back(epochs[s], e)
<1>1. b \in Nat /\ Quarantine * b \in Nat
  BY BackInRange, TimesNext DEF SlotIInv, SlotTypeOK
<1>2. /\ quarantine \in Seq(QueueEntry) /\ epochs' = epochs
      /\ quarantine' = [i \in 1 .. Len(quarantine) |-> Older(quarantine[i])]
  BY DEF SlotIInv, SlotTypeOK, Elapse
<1>3. Len(quarantine') = Len(quarantine) /\ Len(quarantine) \in Nat
  BY <1>2
<1>4. ASSUME NEW i \in 1 .. Len(quarantine), quarantine'[i].slot = s
      PROVE  Quarantine * b + quarantine'[i].age <= age + 1
  <2>1. quarantine[i] \in QueueEntry /\ quarantine'[i] = Older(quarantine[i])
    BY <1>2
  <2>2. quarantine[i].slot = s /\ quarantine[i].age \in Nat
        /\ quarantine'[i].age \in Nat /\ quarantine'[i].age <= quarantine[i].age + 1
    BY <1>4, <2>1 DEF Older, QueueEntry
  <2>3. Quarantine * b + quarantine[i].age <= age
    BY <2>2 DEF Aged
  <2> HIDE DEF b
  <2> QED BY <1>1, <2>2, <2>3
<1>5. Quarantine * b <= age
  BY DEF Aged
<1>6. Quarantine * b <= age + 1
  <2> HIDE DEF b
  <2> QED BY <1>1, <1>5
<1> QED BY <1>2, <1>3, <1>4, <1>6 DEF Aged

-----------------------------------------------------------------------------
(* The steps of controller and shard.                                      *)

\* The ages that occur are short of a round of epochs.
LEMMA AgesBounded ==
  /\ Quarantine * EpochModulus \in Nat
  /\ \A age \in 0 .. FrameLifetime : age < Quarantine * EpochModulus
  /\ \A age \in 0 .. LaneLag : age < Quarantine * EpochModulus
BY EpochOutlivesTraffic

\* Where a trace comes from.
LEMMA KnownCases ==
  ASSUME NEW a
  PROVE  a \in Known <=> \/ \E s \in Slots : holder[s] # NoTenant /\ a = Address(s)
                         \/ \E f \in stale : a = f.address
                         \/ \E i \in 1 .. Len(lane) : a = lane[i].address
BY DEF Known, InFlight

\* The types of the traces.
LEMMA TracesTyped ==
  ASSUME SlotIInv, RouteTypeOK
  PROVE  /\ \A i \in 1 .. Len(lane) : lane[i] \in Op /\ lane[i].address \in Addr
                                      /\ lane[i].age \in 0 .. LaneLag
         /\ \A f \in stale : f.address \in Addr /\ f.age \in 0 .. FrameLifetime
         /\ \A s \in Slots : holder[s] # NoTenant => Address(s) \in Addr
         /\ Len(lane) \in Nat
<1>1. \A i \in 1 .. Len(lane) : lane[i] \in Op
  BY DEF RouteTypeOK
<1>2. \A i \in 1 .. Len(lane) : lane[i].address \in Addr /\ lane[i].age \in 0 .. LaneLag
  BY <1>1 DEF Op
<1>3. \A f \in stale : f.address \in Addr /\ f.age \in 0 .. FrameLifetime
  BY DEF RouteTypeOK, Frame
<1>4. \A s \in Slots : holder[s] # NoTenant => Address(s) \in Addr
  BY DEF SlotIInv, SlotTypeOK, Address, Addr
<1> QED BY <1>1, <1>2, <1>3, <1>4 DEF RouteTypeOK

\* A slot is issued under an epoch of which there is no trace.
LEMMA IssueStep ==
  ASSUME RouteIInv, SlotIInv', UNCHANGED routeVars,
         NEW t \in Tenants, NEW slot \in Slots,
         holder[slot] = NoTenant, holder' = [holder EXCEPT ![slot] = t],
         \A s \in Slots : s # slot => epochs'[s] = epochs[s],
         highWater' >= highWater, slot < highWater',
         \A i \in 1 .. Len(lane) :
           /\ Aged(epochs', quarantine', lane[i].address.slot, lane[i].address.epoch, lane[i].age)
           /\ lane[i].address.slot = slot => epochs'[slot] # lane[i].address.epoch,
         \A f \in stale :
           /\ Aged(epochs', quarantine', f.address.slot, f.address.epoch, f.age)
           /\ f.address.slot = slot => epochs'[slot] # f.address.epoch
  PROVE  RouteIInv'
<1> DEFINE new == [slot |-> slot, epoch |-> epochs'[slot], tenant |-> t]
<1>1. lane' = lane /\ stale' = stale /\ installed' = installed /\ table' = table
  BY DEF routeVars
<1>2. RouteTypeOK' /\ LaneAged' /\ StaleAged'
  BY <1>1 DEF RouteIInv, RouteTypeOK, LaneAged, StaleAged
<1>3. \A s \in Slots : s # slot => holder'[s] = holder[s] /\ Address(s)' = Address(s)
  BY DEF Address, RouteIInv, SlotIInv, SlotTypeOK
<1>4. Address(slot)' = new
  BY DEF Address, RouteIInv, SlotIInv, SlotTypeOK
<1>5. ASSUME NEW a \in Known
      PROVE  /\ a \in Addr /\ a.slot < highWater
             /\ a.slot = slot => a.epoch # epochs'[slot]
  <2>1. a.slot < highWater
    BY DEF RouteIInv, KnownIssued
  <2>2. CASE \E s \in Slots : holder[s] # NoTenant /\ a = Address(s)
    BY <2>1, <2>2, TracesTyped DEF Address, RouteIInv
  <2>3. CASE \E f \in stale : a = f.address
    BY <2>1, <2>3, TracesTyped, Zenon DEF RouteIInv
  <2>4. CASE \E i \in 1 .. Len(lane) : a = lane[i].address
    BY <2>1, <2>4, TracesTyped DEF RouteIInv
  <2> QED BY <2>2, <2>3, <2>4, KnownCases
<1>6. ASSUME NEW a \in Known' PROVE a \in Known \/ a = new
  BY <1>1, <1>3, <1>4 DEF Known, InFlight
<1>7. KnownIssued'
  <2>1. \A a \in Known : a.slot \in Slots
    BY <1>5 DEF Addr
  <2>2. highWater \in Nat /\ highWater' \in Nat
    BY DEF RouteIInv, SlotIInv, SlotTypeOK
  <2> QED BY <1>5, <1>6, <2>1, <2>2 DEF KnownIssued, Slots
<1>8. OneTenant'
  <2> SUFFICES ASSUME NEW a \in Known', NEW b \in Known', a.slot = b.slot, a.epoch = b.epoch
               PROVE  a.tenant = b.tenant
    BY DEF OneTenant
  <2>1. CASE a \in Known /\ b \in Known
    BY <2>1 DEF RouteIInv, OneTenant
  <2>2. CASE a = new /\ b = new
    BY <2>2
  <2>3. CASE a = new /\ b \in Known
    BY <2>3, <1>5
  <2>4. CASE a \in Known /\ b = new
    BY <2>4, <1>5
  <2> QED BY <1>6, <2>1, <2>2, <2>3, <2>4
<1>9. ~installed[slot]
  BY DEF RouteIInv, InstalledHeld
<1>10. InstalledHeld'
  BY <1>1, <1>3, <1>9 DEF RouteIInv, InstalledHeld
<1>11. InstallsFollowed'
  <2>1. ASSUME NEW i \in 1 .. Len(lane), Current(lane[i].address)
        PROVE  installed'[lane[i].address.slot] /\ lane[i].address = Address(lane[i].address.slot)'
    <3>1. lane[i].address.slot \in Slots
      BY TracesTyped DEF RouteIInv, Addr
    <3> QED BY <1>1, <1>3, <1>9, <2>1, <3>1 DEF Current
  <2> QED BY <1>1, <2>1 DEF RouteIInv, InstallsFollowed, Current
<1>12. TableExplained'
  <2>1. \A s \in Slots : TableAddress(s)' = TableAddress(s) /\ TableAddress(s).slot = s
    BY <1>1 DEF TableAddress
  <2>2. ASSUME NEW s \in Slots, Current(TableAddress(s))
        PROVE  installed'[s] /\ TableAddress(s) = Address(s)'
    BY <1>1, <1>3, <1>9, <2>1, <2>2 DEF Current
  <2> QED BY <1>1, <2>1, <2>2 DEF RouteIInv, TableExplained, Current
<1> QED BY <1>2, <1>7, <1>8, <1>10, <1>11, <1>12 DEF RouteIInv

\* A step that changes no slot and no route, as when none is left or nothing happens.
LEMMA RouteStutter ==
  ASSUME RouteIInv, SlotIInv', UNCHANGED routeVars,
         UNCHANGED <<highWater, epochs, quarantine, holder>>
  PROVE  RouteIInv'
<1>1. /\ lane' = lane /\ stale' = stale /\ installed' = installed /\ table' = table
      /\ epochs' = epochs /\ quarantine' = quarantine /\ holder' = holder
      /\ highWater' = highWater
  BY DEF routeVars
<1>2. RouteTypeOK' /\ LaneAged' /\ StaleAged'
  BY <1>1 DEF RouteIInv, RouteTypeOK, LaneAged, StaleAged
<1>3. Known' = Known
  BY <1>1 DEF Known, InFlight, Address
<1>4. KnownIssued' /\ OneTenant' /\ InstalledHeld'
  BY <1>1, <1>3 DEF RouteIInv, KnownIssued, OneTenant, InstalledHeld
<1>5. InstallsFollowed'
  BY <1>1 DEF RouteIInv, InstallsFollowed, Current, Address
<1>6. TableExplained'
  BY <1>1 DEF RouteIInv, TableExplained, TableAddress, Current, Address
<1> QED BY <1>1, <1>2, <1>4, <1>5, <1>6 DEF RouteIInv

\* Reservation: of the slot longest in quarantine, of a fresh one, or of none.
LEMMA ReserveStep ==
  ASSUME RouteIInv, NEW t \in Tenants, Reserve(t)
  PROVE  RouteIInv'
<1>1. SlotIInv' /\ UNCHANGED routeVars /\ SlotIInv /\ SlotTypeOK /\ RouteTypeOK
  BY SlotNextKeepsIInv DEF Reserve, SlotNext, RouteIInv, SlotIInv
<1>2. CASE Reuse(t)
  <2> DEFINE slot == Head(quarantine).slot
  <2>1. slot \in Slots /\ slot < highWater /\ holder[slot] = NoTenant
    <3>1. quarantine \in Seq(QueueEntry) /\ quarantine # << >>
      BY <1>1, <1>2 DEF SlotTypeOK, Reuse, FrontAged
    <3>2. quarantine[1] \in QueueEntry /\ 1 \in 1 .. Len(quarantine) /\ Head(quarantine) = quarantine[1]
      BY <3>1, TailEntries
    <3>3. slot \in Slots /\ Queued(slot)
      BY <3>2 DEF QueueEntry, Queued
    <3>4. quarantined[slot]
      BY <1>1, <3>3 DEF SlotIInv, SlotsAccounted, FlagMatchesQueue
    <3> QED BY <1>1, <3>3, <3>4 DEF SlotIInv, SlotsAccounted, SlotPartition, SlotTypeOK, Slots
  <2>2. /\ holder' = [holder EXCEPT ![slot] = t] /\ highWater' = highWater
        /\ \A s \in Slots : s # slot => epochs'[s] = epochs[s]
    BY <1>1, <1>2, Zenon DEF Reuse, SlotTypeOK
  <2>3. ASSUME NEW i \in 1 .. Len(lane)
        PROVE  /\ Aged(epochs', quarantine', lane[i].address.slot, lane[i].address.epoch, lane[i].age)
               /\ lane[i].address.slot = slot => epochs'[slot] # lane[i].address.epoch
    <3>1. /\ lane[i].address.slot \in Slots /\ lane[i].address.epoch \in Epochs
          /\ lane[i].age \in Nat /\ lane[i].age < Quarantine * EpochModulus
      BY <1>1, TracesTyped, AgesBounded DEF Addr
    <3>2. Aged(epochs, quarantine, lane[i].address.slot, lane[i].address.epoch, lane[i].age)
      BY DEF RouteIInv, LaneAged
    <3> QED BY <1>1, <1>2, <3>1, <3>2, AgedReuse, Zenon
  <2>4. ASSUME NEW f \in stale
        PROVE  /\ Aged(epochs', quarantine', f.address.slot, f.address.epoch, f.age)
               /\ f.address.slot = slot => epochs'[slot] # f.address.epoch
    <3>1. /\ f.address.slot \in Slots /\ f.address.epoch \in Epochs
          /\ f.age \in Nat /\ f.age < Quarantine * EpochModulus
      BY <1>1, TracesTyped, AgesBounded DEF Addr
    <3>2. Aged(epochs, quarantine, f.address.slot, f.address.epoch, f.age)
      BY DEF RouteIInv, StaleAged
    <3> QED BY <1>1, <1>2, <3>1, <3>2, AgedReuse
  <2>5. highWater' >= highWater /\ slot < highWater'
    BY <1>1, <2>1, <2>2 DEF SlotTypeOK
  <2> HIDE DEF slot
  <2> QED BY <1>1, <2>1, <2>2, <2>3, <2>4, <2>5, IssueStep, Zenon
<1>3. CASE Grow(t)
  <2> DEFINE slot == highWater
  <2>1. slot \in Slots /\ holder[slot] = NoTenant
    BY <1>1, <1>3 DEF Grow, SlotIInv, SlotTypeOK, SlotsAccounted, SlotPartition, Slots
  <2>2. /\ holder' = [holder EXCEPT ![slot] = t]
        /\ highWater' >= highWater /\ slot < highWater'
        /\ \A s \in Slots : s # slot => epochs'[s] = epochs[s]
    BY <1>1, <1>3 DEF Grow, SlotTypeOK
  <2>3. ASSUME NEW i \in 1 .. Len(lane)
        PROVE  /\ Aged(epochs', quarantine', lane[i].address.slot, lane[i].address.epoch, lane[i].age)
               /\ lane[i].address.slot # slot
    <3>1. lane[i].address.slot \in Slots /\ lane[i].address.slot < highWater
      BY <1>1, TracesTyped, KnownCases DEF Addr, RouteIInv, KnownIssued
    <3>2. Aged(epochs, quarantine, lane[i].address.slot, lane[i].address.epoch, lane[i].age)
      BY DEF RouteIInv, LaneAged
    <3>3. lane[i].address.slot # slot
      BY <3>1, <1>1 DEF SlotTypeOK, Slots
    <3> QED BY <1>1, <1>3, <3>1, <3>2, <3>3, AgedGrow
  <2>4. ASSUME NEW f \in stale
        PROVE  /\ Aged(epochs', quarantine', f.address.slot, f.address.epoch, f.age)
               /\ f.address.slot # slot
    <3>1. f.address.slot \in Slots /\ f.address.slot < highWater
      BY <1>1, TracesTyped, KnownCases DEF Addr, RouteIInv, KnownIssued
    <3>2. Aged(epochs, quarantine, f.address.slot, f.address.epoch, f.age)
      BY DEF RouteIInv, StaleAged
    <3>3. f.address.slot # slot
      BY <3>1, <1>1 DEF SlotTypeOK, Slots
    <3> QED BY <1>1, <1>3, <3>1, <3>2, <3>3, AgedGrow
  <2> HIDE DEF slot
  <2> QED BY <1>1, <2>1, <2>2, <2>3, <2>4, IssueStep, Zenon
<1>4. CASE Exhaust
  BY <1>1, <1>4, RouteStutter DEF Exhaust
<1> QED BY <1>2, <1>3, <1>4 DEF Reserve, Allocate

\* Staging an operation on the route of a held slot leaves no new trace.  Here `after`
\* is whether the route is installed afterwards; an install is current, and what was
\* current before a retirement has it in the lane now.
LEMMA StageStep ==
  ASSUME RouteIInv, UNCHANGED <<slotVars, table, stale>>,
         NEW s \in Slots, holder[s] # NoTenant,
         NEW kind \in {"install", "retire"},
         lane' = Staged(kind, s),
         installed' = [installed EXCEPT ![s] = (kind = "install")]
  PROVE  RouteIInv'
<1> DEFINE op == [kind |-> kind, address |-> Address(s), age |-> 0]
<1>1. /\ epochs' = epochs /\ quarantine' = quarantine /\ holder' = holder
      /\ highWater' = highWater /\ table' = table /\ stale' = stale
  BY DEF slotVars
<1>2. SlotIInv' /\ SlotIInv /\ RouteTypeOK /\ SlotTypeOK
  BY StutterKeepsIInv DEF RouteIInv, SlotIInv
<1>3. Address(s) \in Addr /\ op \in Op
  BY <1>2, TracesTyped DEF Op
<1>4. lane' = Append(lane, op) /\ lane \in Seq(Op)
  BY <1>2 DEF Staged, RouteTypeOK
<1> HIDE DEF op
<1>5. /\ lane' \in Seq(Op) /\ Len(lane') = Len(lane) + 1 /\ Len(lane) \in Nat
      /\ \A i \in 1 .. Len(lane) : lane'[i] = lane[i]
      /\ lane'[Len(lane) + 1] = op
  BY <1>3, <1>4, AppendProperties
<1>6. op.kind = kind /\ op.address = Address(s) /\ op.age = 0
  BY DEF op
<1>7. \A i \in 1 .. Len(lane') :
        \/ i \in 1 .. Len(lane) /\ lane'[i] = lane[i]
        \/ i = Len(lane) + 1 /\ lane'[i] = op
  BY <1>5
<1>8. RouteTypeOK'
  BY <1>1, <1>2, <1>5 DEF RouteTypeOK
<1>9. Aged(epochs, quarantine, s, epochs[s], 0)
  <2>1. epochs[s] \in Nat /\ Back(epochs[s], epochs[s]) = 0
    BY <1>2 DEF SlotTypeOK, Epochs, Back
  <2>2. \A i \in 1 .. Len(quarantine) : quarantine[i].slot # s
    <3>1. ~quarantined[s]
      BY <1>2 DEF SlotIInv, SlotTypeOK, SlotsAccounted, SlotPartition, Slots
    <3> QED BY <1>2, <3>1 DEF SlotIInv, SlotsAccounted, FlagMatchesQueue, Queued
  <2> QED BY <2>1, <2>2 DEF Aged
<1>10. LaneAged' /\ StaleAged'
  <2>1. Address(s).slot = s /\ Address(s).epoch = epochs[s]
    BY Zenon DEF Address
  <2> QED BY <1>1, <1>6, <1>7, <1>9, <2>1 DEF LaneAged, StaleAged, RouteIInv
<1>11. \A r \in Slots : Address(r)' = Address(r)
  BY <1>1 DEF Address
<1>12. Known' \subseteq Known
  <2> SUFFICES ASSUME NEW a \in Known' PROVE a \in Known
    OBVIOUS
  <2>1. \/ \E r \in Slots : holder[r] # NoTenant /\ a = Address(r)
        \/ \E f \in stale : a = f.address
        \/ \E i \in 1 .. Len(lane') : a = lane'[i].address
    BY <1>1, <1>11 DEF Known, InFlight
  <2> QED BY <1>6, <1>7, <2>1, KnownCases
<1>13. KnownIssued' /\ OneTenant'
  BY <1>1, <1>12 DEF KnownIssued, OneTenant, RouteIInv
<1>14. InstalledHeld'
  BY <1>1 DEF InstalledHeld, RouteIInv, RouteTypeOK
<1>15. ASSUME NEW r \in Slots, installed[r]
       PROVE  installed'[r] \/ (r = s /\ kind = "retire")
  BY <1>2, <1>15, Zenon DEF RouteTypeOK
<1>16. InstallsFollowed'
  <2> SUFFICES ASSUME NEW i \in 1 .. Len(lane'), lane'[i].kind = "install"
               PROVE  \/ /\ installed'[lane'[i].address.slot]
                         /\ lane'[i].address = Address(lane'[i].address.slot)
                      \/ \E j \in i + 1 .. Len(lane') :
                           lane'[j].kind = "retire" /\ lane'[j].address = lane'[i].address
    BY <1>1 DEF InstallsFollowed, Current, Address
  <2>1. CASE lane'[i] = op
    <3>1. kind = "install" /\ installed'[s]
      BY <1>2, <1>6, <2>1, Zenon DEF RouteTypeOK
    <3>2. Address(s).slot = s
      BY Zenon DEF Address
    <3> QED BY <1>6, <2>1, <3>1, <3>2
  <2>2. CASE i \in 1 .. Len(lane) /\ lane'[i] = lane[i]
    <3>1. lane[i].address.slot \in Slots
      BY <1>2, <2>2, TracesTyped, Zenon DEF Addr
    <3>2. CASE Current(lane[i].address)
      <4>1. CASE installed'[lane[i].address.slot]
        BY <2>2, <3>2, <4>1 DEF Current
      <4>2. CASE lane[i].address.slot = s /\ kind = "retire"
        <5>1. lane[i].address = Address(s)
          BY <3>2, <4>2 DEF Current
        <5>2. Len(lane) + 1 \in i + 1 .. Len(lane')
          BY <1>5, <2>2
        <5> QED BY <1>5, <1>6, <2>2, <4>2, <5>1, <5>2
      <4> QED BY <1>15, <3>1, <3>2, <4>1, <4>2 DEF Current
    <3>3. CASE \E j \in i + 1 .. Len(lane) :
                 lane[j].kind = "retire" /\ lane[j].address = lane[i].address
      BY <1>5, <2>2, <3>3
    <3> QED BY <2>2, <3>2, <3>3 DEF RouteIInv, InstallsFollowed
  <2> QED BY <1>7, <2>1, <2>2, Zenon
<1>17. TableExplained'
  <2> SUFFICES ASSUME NEW r \in Slots, table[r].tenant # NoTenant
               PROVE  \/ installed'[r] /\ TableAddress(r) = Address(r)
                      \/ \E j \in 1 .. Len(lane') :
                           lane'[j].kind = "retire" /\ lane'[j].address = TableAddress(r)
    BY <1>1, <1>11 DEF TableExplained, Current, TableAddress
  <2>1. TableAddress(r).slot = r
    BY DEF TableAddress
  <2>2. CASE Current(TableAddress(r))
    <3>1. installed[r] /\ TableAddress(r) = Address(r)
      BY <2>1, <2>2 DEF Current
    <3>2. CASE r = s /\ kind = "retire"
      BY <1>5, <1>6, <3>1, <3>2
    <3> QED BY <1>15, <3>1, <3>2
  <2>3. CASE \E j \in 1 .. Len(lane) : lane[j].kind = "retire" /\ lane[j].address = TableAddress(r)
    BY <1>5, <2>3
  <2> QED BY <2>2, <2>3, Zenon DEF RouteIInv, TableExplained
<1> QED BY <1>2, <1>8, <1>10, <1>13, <1>14, <1>16, <1>17 DEF RouteIInv

\* A release puts the slot into quarantine and its retirement into the lane.
LEMMA ReleaseStep ==
  ASSUME RouteIInv, NEW s \in Slots, Release(s)
  PROVE  RouteIInv'
<1> DEFINE op == [kind |-> "retire", address |-> Address(s), age |-> 0]
           frame == [address |-> Address(s), age |-> 0]
<1>1. /\ Retire(s) /\ holder[s] # NoTenant /\ table' = table
      /\ epochs' = epochs /\ highWater' = highWater
      /\ stale' = stale \cup {frame}
      /\ lane' = IF installed[s] THEN Append(lane, op) ELSE lane
  BY DEF Release, Retire, Staged
<1>2. SlotIInv' /\ SlotIInv /\ RouteTypeOK /\ SlotTypeOK /\ lane \in Seq(Op)
  BY <1>1, RetireKeepsIInv, Zenon DEF RouteIInv, SlotIInv, RouteTypeOK
<1>3. \A r \in Slots : /\ holder'[r] = IF r = s THEN NoTenant ELSE holder[r]
                       /\ installed'[r] = IF r = s THEN FALSE ELSE installed[r]
                       /\ r # s => Address(r)' = Address(r)
  BY <1>1, <1>2, Zenon DEF Release, Retire, SlotTypeOK, RouteTypeOK, Address
<1>4. /\ Address(s) \in Addr /\ Address(s).slot = s /\ Address(s).epoch = epochs[s]
      /\ op \in Op /\ frame \in Frame /\ epochs[s] \in Epochs
  BY <1>1, <1>2, TracesTyped DEF Op, Frame, Address, SlotTypeOK
<1>5. /\ op.kind = "retire" /\ op.address = Address(s) /\ op.age = 0
      /\ frame.address = Address(s) /\ frame.age = 0
  OBVIOUS
<1> HIDE DEF op, frame
<1>6. /\ lane' \in Seq(Op) /\ Len(lane') >= Len(lane) /\ Len(lane) \in Nat /\ Len(lane') \in Nat
      /\ \A i \in 1 .. Len(lane) : lane'[i] = lane[i]
      /\ \A i \in 1 .. Len(lane') :
           \/ i \in 1 .. Len(lane) /\ lane'[i] = lane[i]
           \/ lane'[i] = op
      /\ installed[s] => Len(lane') = Len(lane) + 1 /\ lane'[Len(lane) + 1] = op
  <2>1. CASE installed[s]
    BY <1>1, <1>2, <1>4, <2>1, AppendProperties
  <2>2. CASE ~installed[s]
    BY <1>1, <1>2, <2>2, SMTT(30)
  <2> QED BY <2>1, <2>2
<1>7. RouteTypeOK'
  BY <1>1, <1>2, <1>4, <1>6, Zenon DEF RouteTypeOK, Release
<1>8. Aged(epochs', quarantine', s, epochs[s], 0)
  <2>1. epochs[s] \in Nat /\ Back(epochs[s], epochs[s]) = 0
    BY <1>4, SMTT(30) DEF Epochs, Back
  <2>2. \A i \in 1 .. Len(quarantine) : quarantine[i].slot # s
    <3>1. ~quarantined[s]
      BY <1>1, <1>2 DEF SlotIInv, SlotTypeOK, SlotsAccounted, SlotPartition, Slots
    <3> QED BY <1>2, <3>1 DEF SlotIInv, SlotsAccounted, FlagMatchesQueue, Queued
  <2>3. Aged(epochs, quarantine, s, epochs[s], 0)
    BY <2>1, <2>2, SMTT(30) DEF Aged
  <2> QED BY <1>1, <1>2, <1>4, <2>3, AgedRetire
<1>9. LaneAged'
  <2>1. ASSUME NEW i \in 1 .. Len(lane)
        PROVE  Aged(epochs', quarantine', lane[i].address.slot, lane[i].address.epoch, lane[i].age)
    <3>1. /\ lane[i].address.slot \in Slots /\ lane[i].address.epoch \in Epochs
          /\ lane[i].age \in Nat
      BY <1>2, TracesTyped DEF Addr
    <3>2. Aged(epochs, quarantine, lane[i].address.slot, lane[i].address.epoch, lane[i].age)
      BY DEF RouteIInv, LaneAged
    <3> QED BY <1>1, <1>2, <3>1, <3>2, AgedRetire
  <2> QED BY <1>4, <1>5, <1>6, <1>8, <2>1, SMTT(30) DEF LaneAged
<1>10. StaleAged'
  <2>1. ASSUME NEW f \in stale
        PROVE  Aged(epochs', quarantine', f.address.slot, f.address.epoch, f.age)
    <3>1. /\ f.address.slot \in Slots /\ f.address.epoch \in Epochs /\ f.age \in Nat
      BY <1>2, TracesTyped DEF Addr
    <3>2. Aged(epochs, quarantine, f.address.slot, f.address.epoch, f.age)
      BY DEF RouteIInv, StaleAged
    <3> QED BY <1>1, <1>2, <3>1, <3>2, AgedRetire
  <2> QED BY <1>1, <1>4, <1>5, <1>8, <2>1, Zenon DEF StaleAged
<1>11. Known' \subseteq Known
  <2> SUFFICES ASSUME NEW a \in Known' PROVE a \in Known
    OBVIOUS
  <2>1. \/ \E r \in Slots : r # s /\ holder[r] # NoTenant /\ a = Address(r)
        \/ \E f \in stale \cup {frame} : a = f.address
        \/ \E i \in 1 .. Len(lane') : a = lane'[i].address
    BY <1>1, <1>3, ZenonT(30) DEF Known, InFlight
  <2>2. Address(s) \in Known
    BY <1>1, KnownCases
  <2> QED BY <1>5, <1>6, <2>1, <2>2, KnownCases
<1>12. KnownIssued' /\ OneTenant'
  BY <1>1, <1>11 DEF KnownIssued, OneTenant, RouteIInv
<1>13. InstalledHeld'
  BY <1>3, Zenon DEF InstalledHeld, RouteIInv
<1>14. ASSUME NEW a, a.slot \in Slots, Current(a)
       PROVE  \/ /\ installed'[a.slot]
                 /\ a = [slot |-> a.slot, epoch |-> epochs'[a.slot], tenant |-> holder'[a.slot]]
              \/ /\ Len(lane) + 1 \in 1 .. Len(lane')
                 /\ lane'[Len(lane) + 1].kind = "retire"
                 /\ lane'[Len(lane) + 1].address = a
  <2>1. CASE a.slot = s
    BY <1>5, <1>6, <1>14, <2>1, SMTT(30) DEF Current
  <2>2. CASE a.slot # s
    BY <1>1, <1>3, <1>14, <2>2, Zenon DEF Current, Address
  <2> QED BY <2>1, <2>2
<1>15. InstallsFollowed'
  <2> SUFFICES ASSUME NEW i \in 1 .. Len(lane'), lane'[i].kind = "install"
               PROVE  \/ /\ installed'[lane'[i].address.slot]
                         /\ lane'[i].address = [slot |-> lane'[i].address.slot,
                                                epoch |-> epochs'[lane'[i].address.slot],
                                                tenant |-> holder'[lane'[i].address.slot]]
                      \/ \E j \in i + 1 .. Len(lane') :
                           lane'[j].kind = "retire" /\ lane'[j].address = lane'[i].address
    BY Zenon DEF InstallsFollowed, Current, Address
  <2>1. i \in 1 .. Len(lane) /\ lane'[i] = lane[i]
    BY <1>5, <1>6, Zenon
  <2>2. lane[i].address.slot \in Slots
    BY <1>2, <2>1, TracesTyped, Zenon DEF Addr
  <2>3. CASE Current(lane[i].address)
    <3>1. Len(lane) + 1 \in 1 .. Len(lane') => Len(lane) + 1 \in i + 1 .. Len(lane')
      BY <1>6, <2>1
    <3> QED BY <1>14, <2>1, <2>2, <2>3, <3>1, Zenon
  <2>4. CASE \E j \in i + 1 .. Len(lane) :
               lane[j].kind = "retire" /\ lane[j].address = lane[i].address
    <3>1. PICK j \in i + 1 .. Len(lane) :
            lane[j].kind = "retire" /\ lane[j].address = lane[i].address
      BY <2>4
    <3>2. j \in 1 .. Len(lane) /\ j \in i + 1 .. Len(lane')
      BY <1>6, <2>1, SMTT(30)
    <3> QED BY <1>6, <2>1, <3>1, <3>2
  <2> QED BY <2>1, <2>3, <2>4, Zenon DEF RouteIInv, InstallsFollowed
<1>16. TableExplained'
  <2> SUFFICES ASSUME NEW r \in Slots, table[r].tenant # NoTenant
               PROVE  \/ /\ installed'[r]
                         /\ TableAddress(r) = [slot |-> r, epoch |-> epochs'[r], tenant |-> holder'[r]]
                      \/ \E j \in 1 .. Len(lane') :
                           lane'[j].kind = "retire" /\ lane'[j].address = TableAddress(r)
    BY <1>1 DEF TableExplained, Current, TableAddress, Address
  <2>1. TableAddress(r).slot = r
    BY DEF TableAddress
  <2>2. CASE Current(TableAddress(r))
    BY <1>14, <2>1, <2>2, Zenon
  <2>3. CASE \E j \in 1 .. Len(lane) : lane[j].kind = "retire" /\ lane[j].address = TableAddress(r)
    BY <1>6, <2>3
  <2> QED BY <2>2, <2>3, Zenon DEF RouteIInv, TableExplained
<1> QED BY <1>2, <1>7, <1>9, <1>10, <1>12, <1>13, <1>15, <1>16 DEF RouteIInv

\* The shard applies the oldest operation of the lane.
LEMMA ApplyStep ==
  ASSUME RouteIInv, ApplyUpdate
  PROVE  RouteIInv'
<1> DEFINE op == lane[1]
<1>1. /\ epochs' = epochs /\ quarantine' = quarantine /\ holder' = holder
      /\ highWater' = highWater /\ installed' = installed /\ stale' = stale
      /\ lane # << >> /\ lane' = Tail(lane) /\ UNCHANGED slotVars
  BY DEF ApplyUpdate, slotVars
<1>2. SlotIInv' /\ SlotIInv /\ RouteTypeOK /\ SlotTypeOK /\ lane \in Seq(Op)
  BY <1>1, StutterKeepsIInv DEF RouteIInv, SlotIInv, RouteTypeOK
<1>3. /\ lane' \in Seq(Op) /\ Len(lane) \in Nat /\ Len(lane') = Len(lane) - 1
      /\ 1 \in 1 .. Len(lane) /\ Head(lane) = op
      /\ \A i \in 1 .. Len(lane') : i + 1 \in 1 .. Len(lane) /\ lane'[i] = lane[i + 1]
  BY <1>1, <1>2
<1>4. \A i \in 1 .. Len(lane) : i # 1 => i - 1 \in 1 .. Len(lane') /\ lane'[i - 1] = lane[i]
  <2> SUFFICES ASSUME NEW i \in 1 .. Len(lane), i # 1
               PROVE  i - 1 \in 1 .. Len(lane') /\ lane'[i - 1] = lane[i]
    OBVIOUS
  <2>1. i - 1 \in 1 .. Len(lane') /\ (i - 1) + 1 = i
    BY <1>3
  <2> QED BY <1>3, <2>1
<1>5. op \in Op /\ op.address \in Addr /\ op.address.slot \in Slots
      /\ op.address.epoch \in Epochs /\ op.address.tenant \in Tenants
  BY <1>2, <1>3, TracesTyped DEF Addr
<1>6. \/ op.kind = "install" /\ Installs(op)
      \/ op.kind = "retire" /\ Retires(op)
  BY <1>3 DEF ApplyUpdate
<1> HIDE DEF op
<1>7. RouteTypeOK'
  <2>1. [tenant |-> op.address.tenant, epoch |-> op.address.epoch] \in Entry /\ NoEntry \in Entry
    BY <1>5 DEF Entry, NoEntry, Epochs
  <2>2. table' \in [Slots -> Entry]
    BY <1>2, <1>5, <1>6, <2>1 DEF RouteTypeOK, Installs, Retires
  <2> QED BY <1>1, <1>2, <1>3, <2>2 DEF RouteTypeOK
<1>8. LaneAged' /\ StaleAged'
  BY <1>1, <1>3 DEF LaneAged, StaleAged, RouteIInv
<1>9. \A r \in Slots : Address(r)' = Address(r)
  BY <1>1 DEF Address
<1>10. Known' \subseteq Known
  <2> SUFFICES ASSUME NEW a \in Known' PROVE a \in Known
    OBVIOUS
  <2>1. \/ \E r \in Slots : holder[r] # NoTenant /\ a = Address(r)
        \/ \E f \in stale : a = f.address
        \/ \E i \in 1 .. Len(lane') : a = lane'[i].address
    BY <1>1, <1>9 DEF Known, InFlight
  <2> QED BY <1>3, <2>1, KnownCases
<1>11. KnownIssued' /\ OneTenant' /\ InstalledHeld'
  BY <1>1, <1>10 DEF KnownIssued, OneTenant, InstalledHeld, RouteIInv
<1>12. InstallsFollowed'
  <2> SUFFICES ASSUME NEW i \in 1 .. Len(lane'), lane'[i].kind = "install"
               PROVE  \/ /\ installed[lane'[i].address.slot]
                         /\ lane'[i].address = Address(lane'[i].address.slot)
                      \/ \E j \in i + 1 .. Len(lane') :
                           lane'[j].kind = "retire" /\ lane'[j].address = lane'[i].address
    BY <1>1 DEF InstallsFollowed, Current, Address
  <2>1. i + 1 \in 1 .. Len(lane) /\ lane'[i] = lane[i + 1]
    BY <1>3
  <2>2. CASE Current(lane[i + 1].address)
    BY <2>1, <2>2 DEF Current
  <2>3. CASE \E j \in (i + 1) + 1 .. Len(lane) :
               lane[j].kind = "retire" /\ lane[j].address = lane[i + 1].address
    <3>1. PICK j \in (i + 1) + 1 .. Len(lane) :
            lane[j].kind = "retire" /\ lane[j].address = lane[i + 1].address
      BY <2>3
    <3>2. j \in 1 .. Len(lane) /\ j # 1 /\ j - 1 \in i + 1 .. Len(lane')
      BY <1>3
    <3> QED BY <1>4, <2>1, <3>1, <3>2, Zenon
  <2> QED BY <2>1, <2>2, <2>3, Zenon DEF RouteIInv, InstallsFollowed
<1>13. ASSUME NEW r \in Slots, table[r].tenant # NoTenant, table'[r] = table[r],
              op.kind = "install" \/ op.address # TableAddress(r)
       PROVE  \/ Current(TableAddress(r))
              \/ \E j \in 1 .. Len(lane') :
                   lane'[j].kind = "retire" /\ lane'[j].address = TableAddress(r)
  <2>1. CASE \E j \in 1 .. Len(lane) : lane[j].kind = "retire" /\ lane[j].address = TableAddress(r)
    <3>1. PICK j \in 1 .. Len(lane) : lane[j].kind = "retire" /\ lane[j].address = TableAddress(r)
      BY <2>1
    <3>2. j # 1
      BY <1>13, <3>1 DEF op
    <3> QED BY <1>4, <3>1, <3>2
  <2> QED BY <1>13, <2>1 DEF RouteIInv, TableExplained
<1>14. TableExplained'
  <2> SUFFICES ASSUME NEW r \in Slots, table'[r].tenant # NoTenant,
                      NEW a, a = [slot |-> r, epoch |-> table'[r].epoch, tenant |-> table'[r].tenant]
               PROVE  \/ Current(a)
                      \/ \E j \in 1 .. Len(lane') : lane'[j].kind = "retire" /\ lane'[j].address = a
    BY <1>1 DEF TableExplained, Current, TableAddress, Address
  <2>1. CASE table'[r] = table[r] /\ (op.kind = "install" \/ op.address # TableAddress(r))
    <3>1. a = TableAddress(r)
      BY <2>1, Zenon DEF TableAddress
    <3> QED BY <1>13, <2>1, <3>1
  <2>2. CASE op.kind = "install" /\ r = op.address.slot
    <3>1. table'[r] = [tenant |-> op.address.tenant, epoch |-> op.address.epoch]
      BY <1>2, <1>5, <1>6, <2>2, Zenon DEF Installs, RouteTypeOK
    <3>2. a = op.address
      BY <1>5, <2>2, <3>1 DEF Addr
    <3>3. CASE \E j \in 1 + 1 .. Len(lane) : lane[j].kind = "retire" /\ lane[j].address = op.address
      <4>1. PICK j \in 1 + 1 .. Len(lane) : lane[j].kind = "retire" /\ lane[j].address = op.address
        BY <3>3
      <4>2. j \in 1 .. Len(lane) /\ j # 1
        BY <1>3
      <4> QED BY <1>4, <3>2, <4>1, <4>2
    <3> QED BY <1>3, <2>2, <3>2, <3>3, Zenon DEF RouteIInv, InstallsFollowed, op
  <2>3. CASE op.kind = "install" /\ r # op.address.slot
    <3>1. table'[r] = table[r]
      BY <1>2, <1>5, <1>6, <2>3 DEF Installs, RouteTypeOK
    <3> QED BY <2>1, <2>3, <3>1
  <2>4. CASE op.kind = "retire"
    <3>1. TableAddress(r).slot = r /\ TableAddress(r).epoch = table[r].epoch
      BY DEF TableAddress
    <3>2. table'[r] = table[r] \/ table'[r] = NoEntry
      BY <1>2, <1>5, <1>6, <2>4 DEF Retires, RouteTypeOK
    <3>3. table'[r] = table[r]
      BY <3>2 DEF NoEntry
    <3>4. CASE op.address = TableAddress(r)
      <4>1. op.address.slot = r /\ op.address.epoch = table[r].epoch /\ table[r].tenant # NoTenant
        BY <3>1, <3>3, <3>4
      <4>2. table'[r] = NoEntry
        BY <1>2, <1>6, <2>4, <4>1 DEF Retires, RouteTypeOK
      <4> QED BY <4>2 DEF NoEntry
    <3> QED BY <2>1, <3>3, <3>4, Zenon
  <2> QED BY <1>6, <2>2, <2>3, <2>4, Zenon
<1> QED BY <1>2, <1>7, <1>8, <1>11, <1>12, <1>14 DEF RouteIInv

\* Time passes for the quarantine, for the lane and for the envelopes.
LEMMA TickStep ==
  ASSUME RouteIInv, Tick
  PROVE  RouteIInv'
<1>1. /\ Elapse /\ epochs' = epochs /\ holder' = holder /\ highWater' = highWater
      /\ installed' = installed /\ table' = table
      /\ lane' = [i \in 1 .. Len(lane) |-> [lane[i] EXCEPT !.age = @ + 1]]
      /\ stale' = {[f EXCEPT !.age = @ + 1] : f \in {g \in stale : g.age < FrameLifetime}}
      /\ \A i \in 1 .. Len(lane) : lane[i].age < LaneLag
  BY DEF Tick, Elapse
<1>2. SlotIInv' /\ SlotIInv /\ RouteTypeOK /\ lane \in Seq(Op)
  BY <1>1, ElapseKeepsIInv DEF RouteIInv, RouteTypeOK
<1>3. ASSUME NEW i \in 1 .. Len(lane)
      PROVE  /\ lane'[i] \in Op /\ lane'[i].kind = lane[i].kind
             /\ lane'[i].address = lane[i].address /\ lane'[i].age = lane[i].age + 1
             /\ lane[i].address.slot \in Slots /\ lane[i].address.epoch \in Epochs
             /\ lane[i].age \in Nat
  <2>1. lane[i] \in Op /\ lane[i].address \in Addr /\ lane[i].age \in 0 .. LaneLag
        /\ lane[i].age < LaneLag
    BY <1>1, <1>2, TracesTyped
  <2>2. lane'[i] = [lane[i] EXCEPT !.age = lane[i].age + 1]
    BY <1>1
  <2>3. lane[i].age + 1 \in 0 .. LaneLag
    BY <2>1
  <2> QED BY <2>1, <2>2, <2>3 DEF Op, Addr
<1>4. Len(lane') = Len(lane) /\ Len(lane) \in Nat /\ lane' \in Seq(Op)
  BY <1>1, <1>2, <1>3
<1>5. ASSUME NEW f \in stale'
      PROVE  \E g \in stale : /\ f \in Frame /\ f.address = g.address /\ f.age = g.age + 1
                              /\ g.address.slot \in Slots /\ g.address.epoch \in Epochs
                              /\ g.age \in Nat
  <2>1. PICK g \in stale : g.age < FrameLifetime /\ f = [g EXCEPT !.age = g.age + 1]
    BY <1>1
  <2>2. g \in Frame /\ g.address \in Addr /\ g.age \in 0 .. FrameLifetime
    BY <1>2, TracesTyped DEF RouteTypeOK
  <2>3. g.age + 1 \in 0 .. FrameLifetime
    BY <2>1, <2>2
  <2> QED BY <2>1, <2>2, <2>3 DEF Frame, Addr
<1>6. RouteTypeOK'
  BY <1>1, <1>2, <1>4, <1>5, Zenon DEF RouteTypeOK
<1>7. LaneAged'
  <2>1. ASSUME NEW i \in 1 .. Len(lane)
        PROVE  Aged(epochs', quarantine', lane[i].address.slot, lane[i].address.epoch, lane[i].age + 1)
    <3>1. Aged(epochs, quarantine, lane[i].address.slot, lane[i].address.epoch, lane[i].age)
      BY DEF RouteIInv, LaneAged
    <3> QED BY <1>1, <1>2, <1>3, <3>1, AgedElapse, Zenon
  <2> QED BY <1>3, <1>4, <2>1 DEF LaneAged
<1>8. StaleAged'
  <2> SUFFICES ASSUME NEW f \in stale'
               PROVE  Aged(epochs', quarantine', f.address.slot, f.address.epoch, f.age)
    BY DEF StaleAged
  <2>1. PICK g \in stale : /\ f.address = g.address /\ f.age = g.age + 1
                           /\ g.address.slot \in Slots /\ g.address.epoch \in Epochs
                           /\ g.age \in Nat
    BY <1>5
  <2>2. Aged(epochs, quarantine, g.address.slot, g.address.epoch, g.age)
    BY DEF RouteIInv, StaleAged
  <2>3. Aged(epochs', quarantine', g.address.slot, g.address.epoch, g.age + 1)
    BY <1>1, <1>2, <2>1, <2>2, AgedElapse
  <2> QED BY <2>1, <2>3
<1>9. \A r \in Slots : Address(r)' = Address(r)
  BY <1>1 DEF Address
<1>10. Known' \subseteq Known
  <2> SUFFICES ASSUME NEW a \in Known' PROVE a \in Known
    OBVIOUS
  <2>1. \/ \E r \in Slots : holder[r] # NoTenant /\ a = Address(r)
        \/ \E f \in stale' : a = f.address
        \/ \E i \in 1 .. Len(lane) : a = lane'[i].address
    BY <1>1, <1>4, <1>9, Zenon DEF Known, InFlight
  <2> QED BY <1>3, <1>5, <2>1, KnownCases
<1>11. KnownIssued' /\ OneTenant' /\ InstalledHeld'
  BY <1>1, <1>10 DEF KnownIssued, OneTenant, InstalledHeld, RouteIInv
<1>12. InstallsFollowed'
  <2> SUFFICES ASSUME NEW i \in 1 .. Len(lane), lane'[i].kind = "install"
               PROVE  \/ /\ installed[lane'[i].address.slot]
                         /\ lane'[i].address = Address(lane'[i].address.slot)
                      \/ \E j \in i + 1 .. Len(lane) :
                           lane'[j].kind = "retire" /\ lane'[j].address = lane'[i].address
    <3>1. installed' = installed /\ epochs' = epochs /\ holder' = holder
      BY <1>1
    <3> QED BY <1>4, <3>1 DEF InstallsFollowed, Current, Address
  <2>1. CASE Current(lane[i].address)
    BY <1>3, <2>1 DEF Current
  <2>2. CASE \E j \in i + 1 .. Len(lane) :
               lane[j].kind = "retire" /\ lane[j].address = lane[i].address
    <3>1. PICK j \in i + 1 .. Len(lane) :
            lane[j].kind = "retire" /\ lane[j].address = lane[i].address
      BY <2>2
    <3>2. j \in 1 .. Len(lane)
      BY <1>4
    <3> QED BY <1>3, <3>1, <3>2
  <2> QED BY <1>3, <2>1, <2>2, Zenon DEF RouteIInv, InstallsFollowed
<1>13. TableExplained'
  <2> SUFFICES ASSUME NEW r \in Slots, table[r].tenant # NoTenant
               PROVE  \/ Current(TableAddress(r))
                      \/ \E j \in 1 .. Len(lane) :
                           lane'[j].kind = "retire" /\ lane'[j].address = TableAddress(r)
    <3>1. installed' = installed /\ epochs' = epochs /\ holder' = holder /\ table' = table
      BY <1>1
    <3> QED BY <1>4, <3>1, ZenonT(30) DEF TableExplained, Current, TableAddress, Address
  <2> QED BY <1>3, Zenon DEF RouteIInv, TableExplained
<1> QED BY <1>2, <1>6, <1>7, <1>8, <1>11, <1>12, <1>13 DEF RouteIInv

\* Nothing is addressed, in the lane or in the table at first.
LEMMA RouteInitIInv == Init => RouteIInv
<1> SUFFICES ASSUME Init PROVE RouteIInv
  OBVIOUS
<1>1. /\ SlotIInv /\ lane = << >> /\ stale = {}
      /\ installed = [s \in Slots |-> FALSE] /\ table = [s \in Slots |-> NoEntry]
      /\ holder = [s \in Slots |-> NoTenant]
  BY SlotInitIInv DEF Init, SlotInit
<1>2. NoEntry \in Entry /\ NoEntry.tenant = NoTenant
  BY DEF NoEntry, Entry, Epochs
<1>3. RouteTypeOK /\ Len(lane) = 0
  BY <1>1, <1>2 DEF RouteTypeOK
<1>4. \A i \in 1 .. Len(lane) : FALSE
  BY <1>3
<1>5. Known = {}
  BY <1>1, <1>4 DEF Known, InFlight
<1> QED BY <1>1, <1>2, <1>3, <1>4, <1>5, Zenon
        DEF RouteIInv, LaneAged, StaleAged, KnownIssued, OneTenant, InstalledHeld,
            InstallsFollowed, TableExplained

\* The invariant is inductive.
LEMMA RouteNextKeepsIInv == RouteIInv /\ [Next]_vars => RouteIInv'
<1> SUFFICES ASSUME RouteIInv, [Next]_vars PROVE RouteIInv'
  OBVIOUS
<1>1. ASSUME NEW s \in Slots, InstallRoute(s) PROVE RouteIInv'
  BY <1>1, StageStep, Zenon DEF InstallRoute
<1>2. ASSUME NEW s \in Slots, RetireRoute(s) PROVE RouteIInv'
  <2>1. holder[s] # NoTenant
    BY <1>2 DEF RetireRoute, RouteIInv, InstalledHeld
  <2> QED BY <1>2, <2>1, StageStep, Zenon DEF RetireRoute
<1>3. CASE UNCHANGED vars
  BY <1>3, StutterKeepsIInv, RouteStutter DEF vars, slotVars, RouteIInv
<1> QED BY <1>1, <1>2, <1>3, ReserveStep, ReleaseStep, ApplyStep, TickStep DEF Next

-----------------------------------------------------------------------------
\* For every number of slots and tenants, width of the epoch, quarantine, lag of the
\* shard and life of an envelope that the const assertion of route.rs admits: the epoch
\* check of resolve() never lets an envelope land on a later tenant of its slot.
THEOREM NeverMisdelivered == Spec => []NoMisdelivery
<1>1. RouteIInv => NoMisdelivery
  <2> SUFFICES ASSUME RouteIInv, NEW a \in InFlight, Resolve(a) # NoTenant
               PROVE  Resolve(a) = a.tenant
    BY DEF NoMisdelivery
  <2>1. a \in Known /\ a.slot \in Slots
    <3>1. a \in Known
      BY DEF Known
    <3> QED BY <3>1, KnownCases, TracesTyped DEF Addr, RouteIInv, InFlight
  <2>2. /\ table[a.slot].tenant # NoTenant /\ table[a.slot].epoch = a.epoch
        /\ Resolve(a) = table[a.slot].tenant
    BY DEF Resolve
  <2> DEFINE b == TableAddress(a.slot)
  <2>3. b.slot = a.slot /\ b.epoch = a.epoch /\ b.tenant = Resolve(a)
    BY <2>2 DEF TableAddress
  <2>4. b \in Known
    <3>1. CASE Current(b)
      <4>1. installed[a.slot] /\ b = Address(a.slot)
        BY <2>3, <3>1 DEF Current
      <4> QED BY <2>1, <4>1, KnownCases DEF RouteIInv, InstalledHeld
    <3>2. CASE \E j \in 1 .. Len(lane) : lane[j].kind = "retire" /\ lane[j].address = b
      BY <3>2, KnownCases
    <3> QED BY <2>1, <2>2, <3>1, <3>2 DEF RouteIInv, TableExplained
  <2> HIDE DEF b
  <2> QED BY <2>1, <2>3, <2>4 DEF RouteIInv, OneTenant
<1> QED BY <1>1, RouteInitIInv, RouteNextKeepsIInv, PTL DEF Spec

-----------------------------------------------------------------------------
(* Convergence.  NoMisdelivery bounds what the table may hold; that it     *)
(* holds every installed route once the lane is empty needs the converse:  *)
(* the last update of an installed slot is its install.                    *)

Route(s) == [tenant |-> holder[s], epoch |-> epochs[s]]

\* The last of the updates l on a slot installs the address a.
EndsInstalled(l, s, a) ==
  \E i \in 1 .. Len(l) :
    /\ l[i].kind = "install" /\ l[i].address = a
    /\ \A j \in i + 1 .. Len(l) : l[j].address.slot # s

\* An installed route is in the table and no update touches it, or it is about to be.
InstalledReflected ==
  \A s \in Slots : installed[s] =>
    \/ EndsInstalled(lane, s, Address(s))
    \/ table[s] = Route(s) /\ \A i \in 1 .. Len(lane) : lane[i].address.slot # s

EmptyBlank == \A s \in Slots : table[s].tenant = NoTenant => table[s] = NoEntry

\* The inductive invariant of convergence.
ConvergeIInv == RouteIInv /\ InstalledReflected /\ EmptyBlank

\* A step that stages nothing, applies nothing and leaves the installed slots alone.
LEMMA ReflectedQuiet ==
  ASSUME ConvergeIInv, RouteIInv',
         UNCHANGED <<table, installed>>, Len(lane') = Len(lane),
         \A i \in 1 .. Len(lane) : lane'[i].kind = lane[i].kind /\ lane'[i].address = lane[i].address,
         \A s \in Slots : installed[s] => holder'[s] = holder[s] /\ epochs'[s] = epochs[s]
  PROVE  ConvergeIInv'
<1>1. EmptyBlank'
  BY DEF EmptyBlank, ConvergeIInv
<1>2. Len(lane) \in Nat
  BY SMTT(30) DEF ConvergeIInv, RouteIInv, RouteTypeOK
<1>3. InstalledReflected'
  <2> SUFFICES ASSUME NEW s \in Slots, installed[s]
               PROVE  \/ EndsInstalled(lane', s, Address(s))
                      \/ /\ table[s] = Route(s)
                         /\ \A i \in 1 .. Len(lane') : lane'[i].address.slot # s
    BY Zenon DEF InstalledReflected, Route, Address
  <2>1. CASE EndsInstalled(lane, s, Address(s))
    <3>1. PICK i \in 1 .. Len(lane) :
            /\ lane[i].kind = "install" /\ lane[i].address = Address(s)
            /\ \A j \in i + 1 .. Len(lane) : lane[j].address.slot # s
      BY <2>1 DEF EndsInstalled
    <3>2. \A j \in i + 1 .. Len(lane) : j \in 1 .. Len(lane)
      BY <1>2
    <3>3. \A j \in i + 1 .. Len(lane') : lane'[j].address.slot # s
      BY <3>1, <3>2
    <3> QED BY <3>1, <3>3, Zenon DEF EndsInstalled
  <2>2. CASE table[s] = Route(s) /\ \A i \in 1 .. Len(lane) : lane[i].address.slot # s
    BY <2>2
  <2> QED BY <2>1, <2>2, Zenon DEF ConvergeIInv, InstalledReflected
<1> QED BY <1>1, <1>3 DEF ConvergeIInv

\* A staged operation on s is the last one on s, and none on any other slot.
LEMMA ReflectedStaged ==
  ASSUME ConvergeIInv, RouteIInv', NEW s \in Slots, NEW kind \in {"install", "retire"},
         lane' = Staged(kind, s), holder[s] # NoTenant, epochs' = epochs, table' = table,
         \A r \in Slots : r # s => holder'[r] = holder[r],
         kind = "install" => holder'[s] = holder[s],
         installed' = [installed EXCEPT ![s] = (kind = "install")]
  PROVE  ConvergeIInv'
<1> DEFINE op == [kind |-> kind, address |-> Address(s), age |-> 0]
<1>1. SlotIInv /\ RouteTypeOK /\ lane \in Seq(Op) /\ lane' = Append(lane, op)
  BY ZenonT(30) DEF ConvergeIInv, RouteIInv, RouteTypeOK, Staged
<1>2. op.kind = kind /\ op.address = Address(s) /\ op.address.slot = s /\ op \in Op
  <2>1. Address(s) \in Addr /\ Address(s).slot = s
    BY <1>1, TracesTyped DEF Address
  <2> QED BY <2>1, SMTT(30) DEF Op
<1> HIDE DEF op
<1>3. /\ Len(lane') = Len(lane) + 1 /\ Len(lane) \in Nat
      /\ \A i \in 1 .. Len(lane) : lane'[i] = lane[i]
      /\ lane'[Len(lane) + 1] = op
  BY <1>1, <1>2, AppendProperties, SMTT(30)
<1>4. EmptyBlank'
  BY Zenon DEF EmptyBlank, ConvergeIInv
<1>5. InstalledReflected'
  <2> SUFFICES ASSUME NEW r \in Slots, installed'[r]
               PROVE  \/ EndsInstalled(lane', r, Address(r))
                      \/ /\ table[r] = Route(r)
                         /\ \A i \in 1 .. Len(lane') : lane'[i].address.slot # r
    <3>1. \A r \in Slots : installed'[r] => Address(r)' = Address(r) /\ Route(r)' = Route(r)
      BY <1>1, ZenonT(30) DEF Address, Route, RouteTypeOK
    <3> QED BY <3>1 DEF InstalledReflected
  <2>1. CASE r = s
    <3>1. kind = "install"
      BY <1>1, <2>1, ZenonT(30) DEF RouteTypeOK
    <3>2. Len(lane) + 1 \in 1 .. Len(lane') /\ \A j \in (Len(lane) + 1) + 1 .. Len(lane') : FALSE
      BY <1>3, SMTT(30)
    <3> QED BY <1>2, <1>3, <2>1, <3>1, <3>2 DEF EndsInstalled
  <2>2. CASE r # s
    <3>1. installed[r]
      BY <1>1, <2>2, ZenonT(30) DEF RouteTypeOK
    <3>2. CASE EndsInstalled(lane, r, Address(r))
      <4>1. PICK i \in 1 .. Len(lane) :
              /\ lane[i].kind = "install" /\ lane[i].address = Address(r)
              /\ \A j \in i + 1 .. Len(lane) : lane[j].address.slot # r
        BY <3>2, Zenon DEF EndsInstalled
      <4>2. i \in 1 .. Len(lane') /\ lane'[i] = lane[i]
        BY <1>3
      <4>3. ASSUME NEW j \in i + 1 .. Len(lane') PROVE lane'[j].address.slot # r
        <5>1. CASE j = Len(lane) + 1
          BY <1>2, <1>3, <2>2, <5>1
        <5>2. CASE j # Len(lane) + 1
          <6>1. j \in i + 1 .. Len(lane) /\ j \in 1 .. Len(lane)
            BY <1>3, <5>2, SMTT(30)
          <6> QED BY <1>3, <4>1, <6>1
        <5> QED BY <5>1, <5>2
      <4> QED BY <4>1, <4>2, <4>3, ZenonT(30) DEF EndsInstalled
    <3>3. CASE table[r] = Route(r) /\ \A i \in 1 .. Len(lane) : lane[i].address.slot # r
      <4>1. ASSUME NEW i \in 1 .. Len(lane') PROVE lane'[i].address.slot # r
        <5>1. i \in 1 .. Len(lane) \/ i = Len(lane) + 1
          BY <1>3
        <5> QED BY <1>2, <1>3, <2>2, <3>3, <5>1
      <4> QED BY <3>3, <4>1
    <3> QED BY <3>1, <3>2, <3>3, ZenonT(30) DEF ConvergeIInv, InstalledReflected
  <2> QED BY <2>1, <2>2, Zenon
<1> QED BY <1>4, <1>5, SMTT(30) DEF ConvergeIInv

\* An applied update leaves the later ones, and the table as they expect it.
LEMMA ReflectedApplied ==
  ASSUME ConvergeIInv, RouteIInv', ApplyUpdate
  PROVE  ConvergeIInv'
<1> DEFINE op == lane[1]
<1>1. /\ SlotIInv /\ RouteTypeOK /\ lane \in Seq(Op) /\ lane # << >> /\ lane' = Tail(lane)
      /\ epochs' = epochs /\ holder' = holder /\ installed' = installed
  BY DEF ConvergeIInv, RouteIInv, RouteTypeOK, ApplyUpdate, slotVars
<1>2. /\ Len(lane) \in Nat /\ Len(lane') = Len(lane) - 1 /\ 1 \in 1 .. Len(lane) /\ Head(lane) = op
      /\ \A i \in 1 .. Len(lane') : i + 1 \in 1 .. Len(lane) /\ lane'[i] = lane[i + 1]
  BY <1>1
<1>3. op.address.slot \in Slots /\ op.address.tenant \in Tenants
  BY <1>1, <1>2, TracesTyped DEF Addr
<1>4. \/ op.kind = "install" /\ Installs(op)
      \/ op.kind = "retire" /\ Retires(op)
  BY <1>2 DEF ApplyUpdate
<1> HIDE DEF op
<1>5. EmptyBlank'
  <2> SUFFICES ASSUME NEW s \in Slots, table'[s].tenant = NoTenant PROVE table'[s] = NoEntry
    BY DEF EmptyBlank
  <2>1. CASE table'[s] = table[s]
    BY <2>1 DEF ConvergeIInv, EmptyBlank
  <2>2. CASE table'[s] = [tenant |-> op.address.tenant, epoch |-> op.address.epoch]
    BY <1>3, <2>2
  <2> QED BY <1>1, <1>3, <1>4, <2>1, <2>2 DEF Installs, Retires, RouteTypeOK
<1>6. InstalledReflected'
  <2> SUFFICES ASSUME NEW s \in Slots, installed[s]
               PROVE  \/ EndsInstalled(lane', s, Address(s))
                      \/ /\ table'[s] = Route(s)
                         /\ \A i \in 1 .. Len(lane') : lane'[i].address.slot # s
    <3>1. \A s \in Slots : Address(s)' = Address(s) /\ Route(s)' = Route(s)
      BY <1>1, Zenon DEF Address, Route
    <3> QED BY <1>1, <3>1, Zenon DEF InstalledReflected
  <2>1. CASE EndsInstalled(lane, s, Address(s))
    <3>1. PICK i \in 1 .. Len(lane) :
            /\ lane[i].kind = "install" /\ lane[i].address = Address(s)
            /\ \A j \in i + 1 .. Len(lane) : lane[j].address.slot # s
      BY <2>1, Zenon DEF EndsInstalled
    <3>2. CASE i = 1
      <4>1. op.kind = "install" /\ op.address = Address(s)
        BY <3>1, <3>2 DEF op
      <4>2. /\ op.address.slot = s /\ op.address.tenant = holder[s]
            /\ op.address.epoch = epochs[s]
        BY <4>1, SMTT(30) DEF Address
      <4>3. table'[s] = Route(s)
        BY <1>1, <1>4, <4>1, <4>2 DEF Installs, RouteTypeOK, Route
      <4>4. \A j \in 1 .. Len(lane') : j + 1 \in i + 1 .. Len(lane)
        BY <1>2, <3>2
      <4> QED BY <1>2, <3>1, <4>3, <4>4
    <3>3. CASE i # 1
      <4>1. i - 1 \in 1 .. Len(lane') /\ (i - 1) + 1 = i
        BY <1>2, <3>3
      <4>2. lane'[i - 1] = lane[i]
        BY <1>2, <4>1, Zenon
      <4>3. ASSUME NEW j \in (i - 1) + 1 .. Len(lane') PROVE lane'[j].address.slot # s
        <5>1. j \in 1 .. Len(lane') /\ j + 1 \in i + 1 .. Len(lane)
          BY <1>2, <4>1
        <5> QED BY <1>2, <3>1, <5>1, Zenon
      <4> QED BY <3>1, <4>1, <4>2, <4>3, ZenonT(30) DEF EndsInstalled
    <3> QED BY <3>2, <3>3
  <2>2. CASE table[s] = Route(s) /\ \A i \in 1 .. Len(lane) : lane[i].address.slot # s
    <3>1. op.address.slot # s
      BY <1>2, <2>2 DEF op
    <3>2. table'[s] = table[s]
      BY <1>1, <1>3, <1>4, <3>1 DEF Installs, Retires, RouteTypeOK
    <3> QED BY <1>2, <2>2, <3>2
  <2> QED BY <2>1, <2>2, Zenon DEF ConvergeIInv, InstalledReflected
<1> QED BY <1>5, <1>6 DEF ConvergeIInv

\* The invariant of convergence is inductive.
LEMMA RouteNextConverges == ConvergeIInv /\ [Next]_vars => ConvergeIInv'
<1> SUFFICES ASSUME ConvergeIInv, [Next]_vars PROVE ConvergeIInv'
  OBVIOUS
<1>1. RouteIInv /\ RouteIInv' /\ SlotTypeOK /\ RouteTypeOK
  BY RouteNextKeepsIInv DEF ConvergeIInv, RouteIInv, SlotIInv
<1>2. ASSUME NEW t \in Tenants, Reserve(t) PROVE ConvergeIInv'
  <2>1. lane' = lane /\ table' = table /\ installed' = installed
    BY <1>2 DEF Reserve, routeVars
  <2>2. ASSUME NEW s \in Slots, installed[s] PROVE holder'[s] = holder[s] /\ epochs'[s] = epochs[s]
    <3>1. holder[s] # NoTenant
      BY <1>1, <2>2 DEF RouteIInv, InstalledHeld
    <3>2. CASE Reuse(t)
      <4>1. quarantine \in Seq(QueueEntry) /\ quarantine # << >>
        BY <1>1, <3>2 DEF SlotTypeOK, Reuse, FrontAged
      <4>2. quarantine[1] \in QueueEntry /\ 1 \in 1 .. Len(quarantine) /\ Head(quarantine) = quarantine[1]
        BY <4>1, TailEntries
      <4>3. Head(quarantine).slot \in Slots /\ Queued(Head(quarantine).slot)
        BY <4>2, Zenon DEF QueueEntry, Queued
      <4>4. Head(quarantine).slot # s
        BY <1>1, <3>1, <4>3
           DEF RouteIInv, SlotIInv, SlotsAccounted, FlagMatchesQueue, SlotPartition, SlotTypeOK, Slots
      <4> QED BY <1>1, <3>2, <4>4 DEF Reuse, SlotTypeOK
    <3>3. CASE Grow(t)
      <4>1. highWater # s
        BY <1>1, <3>1 DEF RouteIInv, SlotIInv, SlotsAccounted, SlotPartition, SlotTypeOK, Slots
      <4> QED BY <1>1, <3>3, <4>1 DEF Grow, SlotTypeOK
    <3>4. CASE Exhaust
      BY <3>4 DEF Exhaust
    <3> QED BY <1>2, <3>2, <3>3, <3>4 DEF Reserve, Allocate
  <2> QED BY <1>1, <2>1, <2>2, ReflectedQuiet
<1>3. ASSUME NEW s \in Slots, InstallRoute(s) PROVE ConvergeIInv'
  BY <1>1, <1>3, ReflectedStaged, Zenon DEF InstallRoute, slotVars
<1>4. ASSUME NEW s \in Slots, RetireRoute(s) PROVE ConvergeIInv'
  <2>1. holder[s] # NoTenant
    BY <1>1, <1>4 DEF RetireRoute, RouteIInv, InstalledHeld
  <2> QED BY <1>1, <1>4, <2>1, ReflectedStaged, Zenon DEF RetireRoute, slotVars
<1>5. ASSUME NEW s \in Slots, Release(s) PROVE ConvergeIInv'
  <2>1. /\ holder[s] # NoTenant /\ epochs' = epochs /\ table' = table
        /\ \A r \in Slots : r # s => holder'[r] = holder[r]
        /\ installed' = [installed EXCEPT ![s] = FALSE]
    BY <1>1, <1>5, Zenon DEF Release, Retire, SlotTypeOK
  <2>2. CASE installed[s]
    BY <1>1, <1>5, <2>1, <2>2, ReflectedStaged, Zenon DEF Release
  <2>3. CASE ~installed[s]
    <3>1. installed' = installed /\ lane' = lane
      BY <1>1, <1>5, <2>1, <2>3 DEF Release, RouteTypeOK
    <3>2. \A r \in Slots : installed[r] => holder'[r] = holder[r] /\ epochs'[r] = epochs[r]
      BY <2>1, <2>3, Zenon
    <3> QED BY <1>1, <2>1, <3>1, <3>2, ReflectedQuiet, Zenon
  <2> QED BY <2>2, <2>3
<1>6. ASSUME Tick PROVE ConvergeIInv'
  <2>1. /\ table' = table /\ installed' = installed /\ holder' = holder /\ epochs' = epochs
        /\ lane' = [i \in 1 .. Len(lane) |-> [lane[i] EXCEPT !.age = @ + 1]]
    BY <1>6 DEF Tick, Elapse
  <2>2. lane \in Seq(Op) /\ Len(lane') = Len(lane)
    BY <1>1, <2>1 DEF RouteTypeOK
  <2>3. ASSUME NEW i \in 1 .. Len(lane)
        PROVE  lane'[i].kind = lane[i].kind /\ lane'[i].address = lane[i].address
    <3>1. lane[i] \in Op /\ lane'[i] = [lane[i] EXCEPT !.age = lane[i].age + 1]
      BY <2>1, <2>2
    <3> QED BY <3>1 DEF Op
  <2>4. UNCHANGED <<table, installed>> /\ \A s \in Slots : holder'[s] = holder[s] /\ epochs'[s] = epochs[s]
    BY <2>1, Zenon
  <2> QED BY <1>1, <2>2, <2>3, <2>4, ReflectedQuiet, Zenon
<1>7. CASE UNCHANGED vars
  BY <1>1, <1>7, ReflectedQuiet DEF vars, slotVars, routeVars
<1> QED BY <1>1, <1>2, <1>3, <1>4, <1>5, <1>6, <1>7, ReflectedApplied DEF Next

\* For the same constants: once the shard has applied every update, its table is exactly
\* what the controller believes installed, under the epochs the controller granted.
THEOREM TableAlwaysConverges == Spec => []TableConverges
<1>1. Init => ConvergeIInv
  <2> SUFFICES ASSUME Init PROVE ConvergeIInv
    OBVIOUS
  <2>1. InstalledReflected /\ EmptyBlank
    BY DEF Init, InstalledReflected, EmptyBlank
  <2> QED BY <2>1, RouteInitIInv DEF ConvergeIInv
<1>2. ConvergeIInv => TableConverges
  <2> SUFFICES ASSUME ConvergeIInv, lane = << >>, NEW s \in Slots
               PROVE  table[s] = IF installed[s] THEN Route(s) ELSE NoEntry
    BY DEF TableConverges, Route
  <2>1. \A i \in 1 .. Len(lane) : FALSE
    OBVIOUS
  <2>2. CASE installed[s]
    BY <2>1, <2>2 DEF ConvergeIInv, InstalledReflected, EndsInstalled
  <2>3. CASE ~installed[s]
    <3>1. TableAddress(s).slot = s
      BY DEF TableAddress
    <3>2. table[s].tenant = NoTenant
      BY <2>1, <2>3, <3>1 DEF ConvergeIInv, RouteIInv, TableExplained, Current
    <3> QED BY <2>3, <3>2 DEF ConvergeIInv, EmptyBlank
  <2> QED BY <2>2, <2>3
<1> QED BY <1>1, <1>2, RouteNextConverges, PTL DEF Spec
=============================================================================
