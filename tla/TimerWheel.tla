----------------------------- MODULE TimerWheel -----------------------------
(***************************************************************************)
(* The timers of a shard's participants (shard/timer.rs): a wheel of slots *)
(* of one Quantum each, and a list for what is due already.  A participant *)
(* has at most one timer.  A slot's intrusive list is a sequence here, the *)
(* head first; whether a slot is occupied is read off its list, while the  *)
(* code keeps it in words of 64 bits.                                      *)
(*                                                                         *)
(* Instants are numbers, 0 is the wheel's epoch.  The wheel is a record w  *)
(* that the methods of TimerWheel transform.                               *)
(***************************************************************************)
EXTENDS Naturals, SequenceOps

CONSTANTS
  Conns,    \* participant handles, one for each connection
  Quantum,  \* SHARD_TIMER_QUANTUM
  Slots     \* SLOT_COUNT (256)

ASSUME WheelAssumption == Quantum \in Nat \ {0} /\ Slots \in Nat \ {0}

Due == Slots                                \* DUE_LOCATION
Disarmed == [slot |-> Slots + 1, tick |-> 0]  \* DISARMED_LOCATION

NewWheel ==
  [now   |-> 0,                                 \* last_now
   tick  |-> 0,                                 \* current_tick
   lists |-> [slot \in 0 .. Due |-> <<>>],      \* heads and due_head
   at    |-> [c \in Conns |-> Disarmed]]        \* nodes

SlotOf(tick) == tick % Slots

\* deadline_tick
Ceiling(deadline) == (deadline + Quantum - 1) \div Quantum

\* elapsed_ticks
Elapsed(now) == now \div Quantum

\* Mutant: a deadline that is now goes to a slot.
PlaceStrict(w, deadline) ==
  IF deadline < w.now THEN [slot |-> Due, tick |-> w.tick]
  ELSE LET last == w.tick + Slots - 1
           tick == IF Ceiling(deadline) < last THEN Ceiling(deadline) ELSE last
       IN  [slot |-> SlotOf(tick), tick |-> tick]

\* The slot and tick of a deadline, no further than the wheel reaches.
Place(w, deadline) ==
  IF deadline <= w.now THEN [slot |-> Due, tick |-> w.tick]
  ELSE LET last == w.tick + Slots - 1
           tick == IF Ceiling(deadline) < last THEN Ceiling(deadline) ELSE last
       IN  [slot |-> SlotOf(tick), tick |-> tick]

Armed(w, c) == w.at[c] # Disarmed

Link(w, c, place) == [w EXCEPT !.lists[place.slot] = <<c>> \o @, !.at[c] = place]

UnlinkTimer(w, c) ==
  [w EXCEPT !.lists[w.at[c].slot] = RemoveFirst(@, c), !.at[c] = Disarmed]

Cancel(w, c) == IF Armed(w, c) THEN UnlinkTimer(w, c) ELSE w

Schedule(w, c, deadline) ==
  LET place == Place(w, deadline)
  IN  IF w.at[c] = place THEN w ELSE Link(Cancel(w, c), c, place)

\* How many ticks ahead the occupied slots are.
Ahead(w) == {k \in 1 .. Slots : w.lists[SlotOf(w.tick + k)] # <<>>}

HasDeadline(w) == w.lists[Due] # <<>> \/ Ahead(w) # {}

\* next_deadline, where there is one
NextDeadline(w) ==
  IF w.lists[Due] # <<>> THEN w.now ELSE Quantum * (w.tick + Min(Ahead(w)))

\* The slots that drain_expired empties, in its order: a wheel that comes too late
\* for its slots to tell the ticks apart empties them all.
Passed(w, now) ==
  IF Elapsed(now) - w.tick >= Slots THEN [k \in 1 .. Slots |-> k - 1]
  ELSE [k \in 1 .. Elapsed(now) - w.tick |-> SlotOf(w.tick + k)]

Expired(w, now) ==
  FoldLeft(LAMBDA seq, slot : seq \o w.lists[slot], w.lists[Due], Passed(w, now))

Drained(w, now) ==
  LET gone    == Range(Expired(w, now))
      emptied == {Due} \cup Range(Passed(w, now))
  IN  [now   |-> now,
       tick  |-> Elapsed(now),
       lists |-> [slot \in 0 .. Due |-> IF slot \in emptied THEN <<>> ELSE w.lists[slot]],
       at    |-> [c \in Conns |-> IF c \in gone THEN Disarmed ELSE w.at[c]]]
=============================================================================
