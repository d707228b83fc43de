--------------------------- MODULE SlotAllocator ---------------------------
(***************************************************************************)
(* The controller-side allocator of route slots, for one shard and one     *)
(* namespace (route.rs, SlotAllocator), with the caller that holds what it *)
(* hands out (topology.rs, TrackPlacementAllocator).                       *)
(*                                                                         *)
(* A slot is fresh, held by a tenant, or quarantined.  A quarantined slot  *)
(* is reused oldest first, never before Quarantine time units, and always  *)
(* under the next epoch (modulo EpochModulus; 2^16 in the code).           *)
(*                                                                         *)
(* Time is relative: an entry carries its age, saturated at Quarantine,    *)
(* which is all that allocate_inner compares.                              *)
(***************************************************************************)
EXTENDS Naturals, Sequences

CONSTANTS
  MaxSlots,      \* capacity of the namespace (max_slots)
  EpochModulus,  \* number of distinct epochs of a slot
  Quarantine,    \* ROUTE_QUARANTINE, in ticks
  Tenants,       \* what a slot is reserved for: a (track, shard) placement
  NoTenant

ASSUME SlotAssumption ==
  /\ MaxSlots \in Nat \ {0}
  /\ EpochModulus \in Nat \ {0}
  /\ Quarantine \in Nat \ {0}
  /\ NoTenant \notin Tenants

Slots  == 0 .. MaxSlots - 1
Epochs == 0 .. EpochModulus - 1

VARIABLES
  highWater,    \* epochs.len(): slots ever handed out
  epochs,       \* current epoch of each slot
  quarantine,   \* retired slots, oldest first
  quarantined,  \* flag per slot: is it in the queue
  holder,       \* the caller's record of who holds each slot
  exhausted     \* the "route table exhausted" assertion fired

slotVars == <<highWater, epochs, quarantine, quarantined, holder, exhausted>>

SlotInit ==
  /\ highWater = 0
  /\ epochs = [s \in Slots |-> 0]
  /\ quarantine = << >>
  /\ quarantined = [s \in Slots |-> FALSE]
  /\ holder = [s \in Slots |-> NoTenant]
  /\ exhausted = FALSE

FrontAged == quarantine # << >> /\ Head(quarantine).age >= Quarantine

\* Mutant: the epoch is not bumped.
ReuseSameEpoch(t) ==
  LET slot == Head(quarantine).slot IN
  /\ FrontAged
  /\ quarantine' = Tail(quarantine)
  /\ quarantined' = [quarantined EXCEPT ![slot] = FALSE]
  /\ holder' = [holder EXCEPT ![slot] = t]
  /\ UNCHANGED <<highWater, epochs, exhausted>>

Reuse(t) ==
  LET slot == Head(quarantine).slot IN
  /\ FrontAged
  /\ quarantine' = Tail(quarantine)
  /\ quarantined' = [quarantined EXCEPT ![slot] = FALSE]
  /\ epochs' = [epochs EXCEPT ![slot] = (@ + 1) % EpochModulus]
  /\ holder' = [holder EXCEPT ![slot] = t]
  /\ UNCHANGED <<highWater, exhausted>>

Grow(t) ==
  /\ ~FrontAged
  /\ highWater < MaxSlots
  /\ highWater' = highWater + 1
  /\ epochs' = [epochs EXCEPT ![highWater] = 0]
  /\ quarantined' = [quarantined EXCEPT ![highWater] = FALSE]
  /\ holder' = [holder EXCEPT ![highWater] = t]
  /\ UNCHANGED <<quarantine, exhausted>>

Exhaust ==
  /\ ~FrontAged
  /\ highWater >= MaxSlots
  /\ exhausted' = TRUE
  /\ UNCHANGED <<highWater, epochs, quarantine, quarantined, holder>>

Allocate(t) ==
  /\ ~exhausted
  /\ Reuse(t) \/ Grow(t) \/ Exhaust

\* Mutant: the flag that refuses a double retirement is not set.
QuarantinedUnflagged(s) ==
  /\ quarantine' = Append(quarantine, [slot |-> s, age |-> 0])
  /\ UNCHANGED quarantined

\* Mutant: the newest retirement goes to the front.
QuarantinedNewestFirst(s) ==
  /\ quarantined' = [quarantined EXCEPT ![s] = TRUE]
  /\ quarantine' = <<[slot |-> s, age |-> 0]>> \o quarantine

\* A second retirement of a queued slot is refused, whoever asks for it.
Quarantined(s) ==
  IF quarantined[s]
  THEN UNCHANGED <<quarantine, quarantined>>
  ELSE /\ quarantined' = [quarantined EXCEPT ![s] = TRUE]
       /\ quarantine' = Append(quarantine, [slot |-> s, age |-> 0])

Retire(s) ==
  /\ ~exhausted
  /\ holder[s] # NoTenant
  /\ Quarantined(s)
  /\ holder' = [holder EXCEPT ![s] = NoTenant]
  /\ UNCHANGED <<highWater, epochs, exhausted>>

Older(entry) ==
  [entry EXCEPT !.age = IF @ < Quarantine THEN @ + 1 ELSE @]

Elapse ==
  /\ ~exhausted
  /\ quarantine' = [i \in 1 .. Len(quarantine) |-> Older(quarantine[i])]
  /\ UNCHANGED <<highWater, epochs, quarantined, holder, exhausted>>

SlotNext ==
  \/ \E t \in Tenants : Allocate(t)
  \/ \E s \in Slots : Retire(s)
  \/ Elapse

SlotSpec == SlotInit /\ [][SlotNext]_slotVars

-----------------------------------------------------------------------------
QueueEntry == [slot : Slots, age : 0 .. Quarantine]

SlotTypeOK ==
  /\ highWater \in 0 .. MaxSlots
  /\ epochs \in [Slots -> Epochs]
  /\ quarantine \in Seq(QueueEntry)
  /\ quarantined \in [Slots -> BOOLEAN]
  /\ holder \in [Slots -> Tenants \cup {NoTenant}]
  /\ exhausted \in BOOLEAN

Queued(s) == \E i \in 1 .. Len(quarantine) : quarantine[i].slot = s

QueueDistinct ==
  \A i, j \in 1 .. Len(quarantine) :
    quarantine[i].slot = quarantine[j].slot => i = j

FlagMatchesQueue == \A s \in Slots : quarantined[s] <=> Queued(s)

\* Every slot ever handed out is either held or quarantined, never both, and a
\* slot above the high-water mark is neither.
SlotPartition ==
  \A s \in Slots :
    /\ s < highWater => (holder[s] = NoTenant <=> quarantined[s])
    /\ s >= highWater => holder[s] = NoTenant /\ ~quarantined[s]

OldestFirst ==
  \A i, j \in 1 .. Len(quarantine) :
    i <= j => quarantine[i].age >= quarantine[j].age

\* The allocator never hands out one slot twice: each slot it ever issued is
\* held by one tenant or waits exactly once in the quarantine queue, so the
\* double-retire refusal of retire() is never what keeps two tenants apart.
SlotsAccounted == QueueDistinct /\ FlagMatchesQueue /\ SlotPartition

\* allocate_inner looks only at the front of the queue before it grows the
\* table; when that ends in "route table exhausted", no slot anywhere in the
\* namespace could have been handed out: each is held or still too young.
ExhaustedOnlyWhenFull ==
  exhausted =>
    \A s \in Slots :
      \/ holder[s] # NoTenant
      \/ \E i \in 1 .. Len(quarantine) :
           quarantine[i].slot = s /\ quarantine[i].age < Quarantine
=============================================================================
