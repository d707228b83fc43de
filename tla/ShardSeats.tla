----------------------------- MODULE ShardSeats -----------------------------
(***************************************************************************)
(* What a shard keeps for the connections seated on it, and who gets its   *)
(* attention (shard/participants.rs, shard/dirty.rs, shard/core.rs): the   *)
(* registry with the transports it answers for, the list of participants   *)
(* that have work, their timers (TimerWheel) and the addresses their       *)
(* packets come from (AddressCache).                                       *)
(*                                                                         *)
(* A participant is polled when it is on the dirty list; polling is the    *)
(* only way to arm its timer, and the timer or an input is the only way    *)
(* back to the list.  A turn of the shard runs commands, updates, frames,  *)
(* datagrams, polls and events in this order, each within its budget; what *)
(* a spent budget leaves over comes in a later turn, after newer inputs,   *)
(* so that over several turns the steps interleave in any order.           *)
(*                                                                         *)
(* A handle is the connection it was made for, and so is an ingress        *)
(* address: Ingress[c].  Addresses are reused with a new epoch once the    *)
(* connection before is gone (RouteTable).                                 *)
(***************************************************************************)
EXTENDS AddressCache, TimerWheel

CONSTANTS
  Owner,       \* the participant of a connection
  Ingress,     \* the transport address of a connection
  Local,       \* the routes of this shard; others lead to its siblings
  Budget,      \* SHARD_PARTICIPANT_BUDGET
  MaxWaiting,  \* bound on pending_replacements (256)
  Limits       \* bounds: records with
               \*   conns    connections that may be materialized
               \*   sources  sources that send datagrams
               \*   names    the addresses they send to
               \*   time     the last instant
               \*   delays   how far ahead of a poll its deadline may be

None == 0

ASSUME SeatsAssumption ==
  /\ None \notin Conns /\ Local \subseteq Routes
  /\ \A c \in Conns : Ingress[c] \in Address /\ Ingress[c].route \in Local
  /\ Budget \in Nat \ {0} /\ MaxWaiting \in Nat
  \* participants ask for no more than MAX_DEADLINE_TICKS (101 of 256)
  /\ \A l \in Limits : l.conns \subseteq Conns /\ l.sources \subseteq Sources
                       /\ l.names \subseteq Address /\ l.time \in Nat
                       /\ \A d \in l.delays : d \in Nat /\ Ceiling(d) < Slots - 1

VARIABLES
  shard,    \* ShardExecution, see NewShard
  asked,    \* the deadline an armed timer was asked for
  events,   \* Connected events not yet flushed, <<connection, source>>
  answers,  \* AuthenticateTransport commands on their way, <<source, address>>
  phase,    \* of a connection: "new", "here" or "gone"
  limit     \* the bounds of this behaviour, a member of Limits

vars == <<cache, shard, asked, events, answers, phase, limit>>

NewShard ==
  [seats   |-> {},                         \* registry.participants and by_id
   routes  |-> [r \in Routes |-> None],    \* registry.transports
   waiting |-> <<>>,                       \* pending_replacements
   wheel   |-> NewWheel,                   \* timers
   dirty   |-> <<>>,                       \* dirty.participants
   queued  |-> {},                         \* connections with queued_dirty
   exited  |-> {},                         \* connections whose transport has exited
   linked  |-> {}]                         \* connections that have connected

Init ==
  /\ cache = Empty /\ shard = NewShard
  /\ asked = [c \in Conns |-> 0] /\ events = <<>> /\ answers = {}
  /\ phase = [c \in Conns |-> "new"]
  /\ limit \in Limits

-----------------------------------------------------------------------------
(* The registry.                                                           *)

\* DirtyTracker::mark
Mark(h, c) ==
  IF c \in h.queued THEN h
  ELSE [h EXCEPT !.queued = @ \cup {c}, !.dirty = Append(@, c)]

\* add_participant: its participant has no seat at this time
AddParticipant(h, c) ==
  Mark([h EXCEPT !.seats = @ \cup {c}, !.routes[Ingress[c].route] = c], c)

\* remove_handle, with the timer; a stale key stays on the dirty list
RemoveHandle(h, c) ==
  [h EXCEPT !.seats = @ \ {c},
            !.routes[Ingress[c].route] = IF @ = c THEN None ELSE @,
            !.wheel = Cancel(@, c),
            !.queued = @ \ {c}, !.exited = @ \ {c}, !.linked = @ \ {c}]

\* resolve_transport
Resolve(h, address) ==
  LET c == h.routes[address.route]
  IN  IF c # None /\ Ingress[c] = address THEN c ELSE None

\* on_owned_udp_batch
Deliver(h, address) ==
  IF Resolve(h, address) = None THEN h ELSE Mark(h, Resolve(h, address))

Seated(p) == \E c \in shard.seats : Owner[c] = p

-----------------------------------------------------------------------------
(* Inputs.                                                                 *)

\* MaterializeParticipant, for an address the controller may use again
MaterializeParticipant(c) ==
  /\ c \in limit.conns /\ phase[c] = "new"
  /\ \A d \in Conns : Ingress[d].route = Ingress[c].route => phase[d] # "here"
  /\ phase' = [phase EXCEPT ![c] =
                 IF Seated(Owner[c]) /\ Len(shard.waiting) >= MaxWaiting THEN "gone" ELSE "here"]
  /\ shard' = IF ~Seated(Owner[c]) THEN AddParticipant(shard, c)
              ELSE IF Len(shard.waiting) >= MaxWaiting THEN shard
              ELSE [shard EXCEPT !.waiting = Append(@, c)]
  /\ UNCHANGED <<cache, asked, events, answers, limit>>

\* RetireTransport and RemoveParticipant, staged in one update: the oldest waiting
\* connection of the participant takes the seat.  (A connection waits once at most.)
RemoveParticipant(c) ==
  /\ phase[c] = "here"
  /\ phase' = [phase EXCEPT ![c] = "gone"]
  /\ LET others == RemoveFirst(shard.waiting, c)
         index  == SelectInSeq(others, LAMBDA d : Owner[d] = Owner[c])
         freed  == RemoveHandle(shard, c)
     IN  IF c \notin shard.seats
         THEN shard' = [shard EXCEPT !.waiting = others] /\ UNCHANGED cache
         ELSE /\ cache' = Unregistered(cache, Ingress[c].route)
              /\ shard' = IF index = 0 THEN [freed EXCEPT !.waiting = others]
                          ELSE AddParticipant([freed EXCEPT !.waiting = RemoveAt(others, index)],
                                              others[index])
  /\ asked' = [asked EXCEPT ![c] = 0]
  /\ UNCHANGED <<events, answers, limit>>

\* NativeReady and the other commands, track effects, and packets to send: whatever
\* else gives a seated participant work
Input(c) ==
  /\ c \in shard.seats
  /\ shard' = Mark(shard, c)
  /\ UNCHANGED <<cache, asked, events, answers, phase, limit>>

\* on_udp_batch_routed of a STUN bootstrap or of a packet from a cached source; a
\* packet for a sibling is passed on
Datagram(x) ==
  /\ \E address \in limit.names :
       /\ \/ cache' = Bootstrapped(cache, x, address)
          \/ cache.bound[x] = address /\ cache' = Touch(cache, x)
       /\ shard' = Deliver(shard, address)
  /\ UNCHANGED <<asked, events, answers, phase, limit>>

\* on_shard_frame of a datagram that a sibling passed on
IngressFrame(x) ==
  /\ \E address \in limit.names :
       /\ address.route \in Local
       /\ cache' = IF Resolve(shard, address) # None THEN Learned(cache, x, address) ELSE cache
       /\ shard' = Deliver(shard, address)
  /\ UNCHANGED <<asked, events, answers, phase, limit>>

\* AuthenticateTransport: for a source of a participant on a sibling, or the answer to
\* this shard's own event
AuthenticateTransport(x) ==
  /\ \E address \in limit.names :
       /\ address.route \notin Local \/ <<x, address>> \in answers
       /\ cache' = Authenticated(cache, x, address)
       /\ answers' = answers \ {<<x, address>>}
  /\ UNCHANGED <<shard, asked, events, phase, limit>>

-----------------------------------------------------------------------------
(* Attention.                                                              *)

\* fire_timers: each marks its participant, if that is seated
FireTimers(h, now) ==
  LET woken == SelectSeq(Expired(h.wheel, now), LAMBDA c : c \in h.seats \ h.queued)
  IN  [h EXCEPT !.wheel = Drained(@, now),
                !.queued = @ \cup Range(woken), !.dirty = @ \o woken]

\* The part of the list that is polled, without stale keys.
Taken(h) ==
  SelectSeq(SubSeq(h.dirty, 1, Min({Budget, Len(h.dirty)})), LAMBDA c : c \in h.seats)

\* Mutant: the rest of the list is dropped with the part that was polled.
LeftOverForgotten(h) == <<>>

\* finish_phase, finish_partial
LeftOver(h) == SubSeq(h.dirty, Budget + 1, Len(h.dirty))

\* The timers once every polled participant that named a delay has set its own.
Rearmed(w, taken, delay, now) ==
  FoldLeft(LAMBDA v, c : IF c \in DOMAIN delay THEN Schedule(v, c, now + delay[c]) ELSE v,
           w, taken)

\* poll_and_flush_dirty.  A participant exits (quits), then and ever after, or names
\* the deadline of its timer; one may find that it has connected.  (fired and taken
\* have one value each.)
PollAndFlushDirty(now) ==
  \E fired \in {FireTimers(shard, now)} :
  \E taken \in {Taken(fired)} :
  \E quits \in SUBSET Range(taken) :
  \E delay \in [Range(taken) \ quits -> limit.delays] :
    LET live   == Range(taken)
        polled == Rearmed(fired.wheel, taken, delay, now)
    IN
    /\ live \cap fired.exited \subseteq quits
    /\ \E greeted \in {<<>>} \cup {<<g>> : g \in (live \ (quits \cup fired.linked)) \X limit.sources} :
         /\ events' = events \o greeted
         /\ shard' = [fired EXCEPT !.wheel = polled, !.dirty = LeftOver(fired),
                                   !.queued = @ \ live, !.exited = @ \cup quits,
                                   !.linked = @ \cup {g[1] : g \in Range(greeted)}]
    /\ asked' = [c \in Conns |-> IF c \in live \ quits THEN now + delay[c]
                                 ELSE IF Armed(polled, c) THEN asked[c] ELSE 0]
    /\ UNCHANGED <<cache, answers, phase, limit>>

\* flush_participant_events, of the event that a participant has connected; it is
\* dropped when the participant has gone meanwhile
FlushConnected ==
  /\ events # <<>>
  /\ events' = Tail(events)
  /\ LET c == Head(events)[1]
         x == Head(events)[2]
     IN  IF c \in shard.seats
         THEN /\ cache' = Authenticated(cache, x, Ingress[c])
              /\ answers' = answers \cup {<<x, Ingress[c]>>}
         ELSE UNCHANGED <<cache, answers>>
  /\ UNCHANGED <<shard, asked, phase, limit>>

Next ==
  \/ \E c \in Conns : MaterializeParticipant(c) \/ RemoveParticipant(c) \/ Input(c)
  \/ \E x \in limit.sources : Datagram(x) \/ IngressFrame(x) \/ AuthenticateTransport(x)
  \/ \E now \in shard.wheel.now .. limit.time : PollAndFlushDirty(now)
  \/ FlushConnected

Spec == Init /\ [][Next]_vars

-----------------------------------------------------------------------------
(* Properties.                                                             *)

\* A connection waits only for a seat that is taken.
WaitingForTaken == \A c \in Range(shard.waiting) : Seated(Owner[c])

\* No participant is forgotten: one that is seated and has not exited is on the dirty
\* list, for which the shard does not sleep, or the shard sleeps no longer than until
\* the tick of the deadline its last poll named, whatever other timers were set,
\* replaced and cancelled since and wherever the wheel wrapped.  And nobody is
\* remembered too long: a timer belongs to a seated connection, and a connection
\* waits only for a seat that is taken.
NobodyForgotten ==
  LET w == shard.wheel IN
  /\ \A c \in shard.seats \ shard.exited :
       \/ c \in Range(shard.dirty)
       \/ /\ HasDeadline(w)
          /\ \/ NextDeadline(w) <= w.now
             \/ NextDeadline(w) <= Quantum * Ceiling(asked[c])
  /\ \A c \in Conns : Armed(w, c) => c \in shard.seats
  /\ WaitingForTaken

\* Timers are punctual: none is left for longer than a quantum past the instant asked
\* for, and none strikes before it (deadlines_fire_once_after_their_ceiling_tick).
TimersPunctual ==
  [][/\ \A c \in Conns : Armed(shard'.wheel, c) => shard'.wheel.now < asked'[c] + Quantum
                                                  \/ shard'.wheel.at[c].slot = Due
     /\ \A c \in (shard.seats \cap shard'.seats) \ shard.queued :
          shard'.wheel.at[c] # shard.wheel.at[c] /\ Armed(shard.wheel, c)
            => asked[c] <= shard'.wheel.now]_vars
=============================================================================
