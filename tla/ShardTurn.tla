----------------------------- MODULE ShardTurn ------------------------------
(***************************************************************************)
(* The turn of an execution shard (shard/worker.rs): it waits for work,    *)
(* takes commands, polls its dirty participants, forwards the packets they *)
(* emitted, polls those it made dirty, turns participant events into shard *)
(* events and hands these to the controller.  Every phase has a budget and *)
(* leaves what exceeds it to a later turn, so the wait must end for work   *)
(* that only the shard itself knows of.                                    *)
(*                                                                         *)
(* Composed with the command lanes of CommandBacklog: a command is the     *)
(* input of one participant, which answers with an event, or with a packet *)
(* whose receivers answer.  Timers of the participants, sockets, frames    *)
(* and updates are left out; they only add reasons to wake.                *)
(***************************************************************************)
EXTENDS CommandBacklog

CONSTANTS
  Draining,           \* the shards that keep getting their turns
  Participants,       \* the participants of a shard
  CommandBudget,      \* SHARD_COMMAND_BUDGET
  ParticipantBudget,  \* SHARD_PARTICIPANT_BUDGET
  PipelineBudget,     \* SHARD_PIPELINE_BUDGET
  EventBudget,        \* SHARD_EVENT_BUDGET
  PacketCapacity,     \* EventPipeline.packet_capacity
  EventCapacity       \* SHARD_EVENT_CAPACITY
\* A member of Limits also has
\*   answered  the commands that are the input of a participant
\*   relayed   those of them that it passes on as a packet
\*   reports   the shards report statistics (stats_tx is Some)

ASSUME TurnAssumption ==
  /\ Draining \subseteq Shards /\ IsFiniteSet(Participants)
  /\ {CommandBudget, ParticipantBudget, PipelineBudget, EventBudget,
      PacketCapacity, EventCapacity} \subseteq Nat \ {0}
  /\ \A l \in Limits : l.relayed \subseteq l.answered /\ l.reports \in BOOLEAN

VARIABLES
  work,      \* per shard: what waits inside it, see Idle
  due,       \* per shard: the statistics deadline has passed
  eventbox,  \* the controller's event mailbox
  emitted,   \* per shard: the participant events emitted so far
  handled    \* per shard: its events the controller took

turns == <<work, due, eventbox, emitted, handled>>
vars == <<lanes, turns, limit>>

Idle ==
  [inbox       |-> [p \in Participants |-> <<>>],  \* input not yet polled for
   dirty       |-> <<>>,                           \* DirtyTracker.participants
   packets     |-> <<>>,                           \* EventPipeline.track_queue
   events      |-> <<>>,                           \* .participant_events
   shardEvents |-> <<>>,                           \* .shard_events
   backlog     |-> <<>>]                           \* shard_event_backlog

Init ==
  /\ LanesInit
  /\ work = [s \in Shards |-> Idle]
  /\ due = [s \in Shards |-> FALSE]
  /\ eventbox = <<>>
  /\ emitted = [s \in Shards |-> <<>>]
  /\ handled = [s \in Shards |-> <<>>]
  /\ limit \in Limits

Least(i, j) == IF i < j THEN i ELSE j
Taken(q, budget) == SubSeq(q, 1, Least(budget, Len(q)))
Left(q, budget) == SubSeq(q, budget + 1, Len(q))

\* An item is what a participant has to react to.
\* A participant gets an item and is queued once, however often it is marked.
Mark(w, item) ==
  [w EXCEPT !.inbox[item.to] = Append(@, item),
            !.dirty = IF item.to \in Range(@) THEN @ ELSE Append(@, item.to)]

Input(w, items) == FoldLeft(Mark, w, items)

\* The input phase: the participants that the commands name are marked.
OnCommands(w, commands, to) ==
  Input(w, SelectSeq([i \in DOMAIN commands |->
                        [to |-> to[i], n |-> commands[i],
                         relay |-> commands[i] \in limit.relayed]],
                     LAMBDA item : item.n \in limit.answered))

\* poll_and_flush_dirty: each participant polled reacts to all its input; a
\* packet beyond the capacity of the pipeline is dropped.
PollDirty(w) ==
  LET polled == Taken(w.dirty, ParticipantBudget)
      items == FlattenSeq([i \in DOMAIN polled |-> w.inbox[polled[i]]])
  IN  [w EXCEPT
         !.dirty = Left(@, ParticipantBudget),
         !.inbox = [p \in Participants |->
                      IF p \in Range(polled) THEN <<>> ELSE @[p]],
         !.packets = Taken(@ \o SelectSeq(items, LAMBDA item : item.relay),
                           PacketCapacity),
         !.events = @ \o SelectSeq(items, LAMBDA item : ~item.relay)]

\* The other participants of the shard receive the packet.
Receivers(packet) ==
  LET others == SetToSeq(Participants \ {packet.to})
  IN  [i \in DOMAIN others |->
         [to |-> others[i], n |-> packet.n, relay |-> FALSE]]

FlushStreamBuffers(w) ==
  LET routed == Taken(w.packets, PipelineBudget)
  IN  Input([w EXCEPT !.packets = Left(@, PipelineBudget)],
            FlattenSeq([i \in DOMAIN routed |-> Receivers(routed[i])]))

FlushParticipantEvents(w) ==
  [w EXCEPT !.events = Left(@, PipelineBudget),
            !.shardEvents = @ \o Taken(w.events, PipelineBudget)]

Polled(w) == PollDirty(FlushStreamBuffers(PollDirty(w)))

\* flush_shard_events: the backlog goes first; an event refused by the full
\* mailbox becomes the backlog and ends the phase.
Sendable(w) == Taken(w.backlog \o w.shardEvents, EventBudget)

\* Mutant: the event the mailbox refused is not kept.
FlushShardEventsLossy(w, room) ==
  [w EXCEPT !.backlog = <<>>,
            !.shardEvents = Left(w.backlog \o @,
                                 Least(room + 1, Len(Sendable(w))))]

FlushShardEvents(w, room) ==
  LET full == room < Len(Sendable(w))
      popped == IF full THEN room + 1 ELSE Len(Sendable(w))
  IN  [w EXCEPT !.backlog = IF full THEN <<Sendable(w)[popped]>> ELSE <<>>,
                !.shardEvents = Left(w.backlog \o @, popped)]

\* Mutant: the wait ignores the statistics deadline.
WakesOnInput(s) ==
  work[s].backlog # <<>> \/ mailbox[s] # <<>> \/ work[s].dirty # <<>>

\* wait_for_inputs returns
Wakes(s) ==
  \/ work[s].backlog # <<>> \/ mailbox[s] # <<>>
  \/ work[s].dirty # <<>> \/ due[s]

\* One turn: tick, flush_shard_events, and report_stats, which may put the
\* report off after a busy turn.
Tick(s) ==
  /\ alive[s] /\ Wakes(s)
  /\ LET commands == Taken(mailbox[s], CommandBudget)
         room == EventCapacity - Len(eventbox)
     IN  /\ Take(s, Len(commands))
         /\ \E to \in [DOMAIN commands -> Participants] :
              LET polled == Polled(OnCommands(work[s], commands, to))
                  ended == FlushParticipantEvents(polled)
                  sent == Taken(Sendable(ended), room)
              IN  /\ work' = [work EXCEPT ![s] = FlushShardEvents(ended, room)]
                  /\ eventbox' = eventbox \o
                       [i \in DOMAIN sent |-> [from |-> s, n |-> sent[i].n]]
                  /\ emitted' = [emitted EXCEPT ![s] =
                       @ \o Left(polled.events, Len(work[s].events))]
  /\ \E postponed \in BOOLEAN :
       due' = [due EXCEPT ![s] = @ /\ postponed]
  /\ UNCHANGED <<handled, limit>>

\* The statistics deadline passes.
StatsDue(s) ==
  /\ alive[s] /\ limit.reports /\ ~due[s]
  /\ due' = [due EXCEPT ![s] = TRUE]
  /\ UNCHANGED <<lanes, work, eventbox, emitted, handled, limit>>

\* The controller's tick takes an event.
HandleEvent ==
  /\ eventbox # <<>>
  /\ LET e == Head(eventbox) IN
       handled' = [handled EXCEPT ![e.from] = Append(@, e.n)]
  /\ eventbox' = Tail(eventbox)
  /\ UNCHANGED <<lanes, work, due, emitted, limit>>

\* The shard ends with everything inside it.
Stop(s) ==
  /\ Close(s)
  /\ work' = [work EXCEPT ![s] = Idle]
  /\ due' = [due EXCEPT ![s] = FALSE]
  /\ UNCHANGED <<eventbox, emitted, handled, limit>>

Lanes == Flush \/ \E s \in Shards : PushBack(s)

Next ==
  \/ Lanes /\ UNCHANGED <<turns, limit>>
  \/ HandleEvent
  \/ \E s \in Shards : Tick(s) \/ StatsDue(s) \/ Stop(s)

\* ENABLED <<Tick(s)>>_vars: a turn that wakes for its backlog alone, and finds
\* the controller's mailbox still full, changes nothing.
Moves(s) ==
  /\ alive[s] /\ Wakes(s)
  /\ \/ mailbox[s] # <<>> \/ work[s].dirty # <<>> \/ due[s]
     \/ work[s].packets # <<>> \/ work[s].events # <<>>
     \/ Len(eventbox) < EventCapacity

\* The controller's ticks flush and take events, and the maintenance interval
\* guarantees ticks; of the shards, only Draining are assumed to get their
\* turns.  The statistics deadline is a matter of time.
Spec ==
  /\ Init /\ [][Next]_vars
  /\ WF_vars(Flush /\ UNCHANGED <<turns, limit>>) /\ WF_vars(HandleEvent)
  /\ \A s \in Draining :
       /\ []<>~Moves(s) \/ []<><<Tick(s)>>_vars
       /\ WF_vars(StatsDue(s))

-----------------------------------------------------------------------------
(* Properties.                                                             *)

Numbers(items) == [i \in DOMAIN items |-> items[i].n]
FromShard(s) == SelectSeq(eventbox, LAMBDA e : e.from = s)

\* A running shard takes its commands in the order they were pushed, none lost and
\* none twice, whatever the mailboxes of the other shards do.
CommandsInOrder ==
  \A s \in Shards : alive[s] =>
    received[s] \o mailbox[s] \o queues[s] = [i \in 1..pushed[s] |-> i]

\* Nothing is lost, repeated or reordered in either direction.  A running shard
\* takes its commands in order; the controller takes a shard's events in the order its
\* participants emitted them, however often its mailbox refused one, and of a
\* shard that ended it takes the first ones.
LanesInOrder ==
  /\ CommandsInOrder
  /\ \A s \in Shards :
       LET arrived == handled[s] \o Numbers(FromShard(s))
           inside == work[s].backlog \o work[s].shardEvents \o work[s].events
       IN  /\ alive[s] => arrived \o Numbers(inside) = Numbers(emitted[s])
           /\ IsPrefix(arrived, Numbers(emitted[s]))

Inside(s) ==
  UNION {Range(Numbers(work[s].inbox[p])) : p \in Participants}
    \cup Range(Numbers(work[s].packets \o work[s].events
                        \o work[s].shardEvents \o work[s].backlog))

\* Command n has not been taken, or is on its way through the shard, or its
\* answer has not reached the controller.
Outstanding(s, n) ==
  /\ alive[s] /\ pushed[s] >= n
  /\ \/ n \notin Range(received[s])
     \/ n \in Inside(s)
     \/ n \in limit.answered \ limit.relayed /\ n \notin Range(handled[s])

\* Every command of a shard that gets its turns reaches it, and the event that
\* answers it reaches the controller, or the shard is gone: neither full
\* mailboxes nor spent budgets leave it behind.  Of a command passed on as a
\* packet, this is said once the packet is in the pipeline.
EveryCommandAnswered ==
  \A s \in Draining : \A n \in 1..Max({l.commands[s] : l \in Limits}) :
    Outstanding(s, n) ~> ~Outstanding(s, n)
=============================================================================
