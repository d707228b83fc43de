# PulseBeam: TLA+ models, model checking and proofs

PulseBeam is a selective forwarding unit. One process runs a *controller* (the
control plane) and several execution *shards* (the data plane), each on a
thread of its own. They share no state: the controller sends commands and
numbered update generations to the shards over bounded mailboxes, shards send
events back, and shards exchange media, reverse and ingress frames addressed by
route. Native clients hold a signaling session with the controller, served
through the shard that owns their transport. Everything here is translated from
`crates/pulsebeam/src`, with `crates/pulsebeam-membership` and the client's
`agents/pulsebeam-agent-core/src/native_state.rs`.

## The system

| Part | Source | Modelled by |
|---|---|---|
| Route slots, epochs, quarantine; shard route table | `route.rs`, `control/topology.rs`, `control/lifecycle.rs` | `SlotAllocator`, `RouteTable` |
| Update lanes (generations, backlog, chunked application, cutoff fences) | `shard_update.rs`, `shard/updates.rs`, `control/controller.rs` | `UpdateLane`, abstractly `UpdateLog` |
| Command lanes; the shard's turn and its events | `control/egress.rs`, `control/router.rs`, `shard/{worker,dirty,events,core}.rs` | `CommandBacklog`, `ShardTurn` |
| Room control plane: registry, topology, track lifecycle | `control/{registry,topology,lifecycle,controller}.rs` | `RoomRouting` |
| Shard execution: seats, runtimes, routes, plans, held effects | `shard/{core,updates,participants}.rs` | `RoomRouting` |
| Connection: catalog, bindings, demand, topic channels | `participant/{core,data,effect}.rs`, `participant/downstream` | `RoomRouting` |
| Room placement: partitions and reservations | `control/{room,registry,placement}.rs` | `RoomPartitions` (proof vocabulary in `RoomInvariant`) |
| Authorization leases, native deletion, cutoff receipts | `control/controller.rs`, `control/core.rs` | `NativeGrants` |
| Native signaling: hand-off, wake-ups, state batches | `control/native/{handoff,handler,session}.rs`, `control/controller/native_service.rs`, `participant/signaling.rs` | `NativeRows`, `NativeSignaling` |
| Native data publications, client to endpoint | `control/native/session.rs`, `participant/core/native_{data,rtp}.rs`, `native_state.rs` | `NativeRows`, `NativeResources` |
| A shard's connections: registry, dirty list, timers, source addresses | `shard/{core,participants,dirty,timer,demux}.rs` | `ShardSeats`, from `TimerWheel` and `AddressCache` |
| Cluster membership: identity and view | `cluster/{identity,mod}.rs`, `pulsebeam-membership/src/{view,lib}.rs` | `Membership` |

## How the modules correspond to the code

`PROJECT.json` maps each definition to its lines. `SequenceOps` models no
code: it holds the sequence operators that `RoomRouting`, `TimerWheel` and
`AddressCache` share, kept apart from `SequencesExt` because that module's
import of `Bags` makes every proof leaf about three times as slow.

**SlotAllocator, RouteTable.** A slot carries `epochs[s]`; `Allocate` is
`allocate_inner` (front of the quarantine first, then growth, else exhaustion)
and `Retire` puts the slot in quarantine. `RouteTable` adds what makes reuse
hard: the controller releases a slot when it *stages* the retirement, the shard
retires later, and envelopes of the old tenant still arrive. Time is counted in
ticks of the quarantine. `EpochOutlivesTraffic` stands for the constant
assertion at `route.rs:51`; that a shard is at most `LaneLag` behind is an
assumption about scheduling which the code does not enforce.

**UpdateLane.** `Publish*` and `Flush*` split publication and the per-tick flush
into one step per `try_send`, because shards drain their mailboxes meanwhile.
`Apply*` applies an update in chunks: lifecycle installs, plans within a budget,
retirements, acknowledgement. `UpdateLog` says what the rest of the system
relies on: an ordered log of generations per shard. `ImplementsLog` is that
refinement, fairness included: nothing is lost, reordered or left for ever between
backlog, mailbox and shard.

**CommandBacklog, ShardTurn.** The second lane, with the same separation of
attempts, and the turn of the shard at its end. A turn (`Tick`) is one step, as
in `poll_service`: commands, poll of dirty participants, packets, second poll,
participant events, shard events, statistics. Each phase is an operator on the
record `work[s]` of what waits inside the shard, and leaves what exceeds its
budget. A command is the input of a participant, which answers with an event or
with a packet whose receivers answer. `Wakes` is `wait_for_inputs`: it looks at
the event backlog, the command mailbox, the dirty list and the statistics
deadline, *not* at packets, participant events or shard events that a spent
budget left behind. These wait for the deadline or, in the code, for the next
participant timer, which every connected participant keeps within 100 ms
(`SLOW_POLL_INTERVAL`, `MAX_DEADLINE_TICKS`). A shard on a node without
statistics (`stats_tx` is `None`) whose last participant has just exited has
neither; the model always has the deadline and claims nothing about that case.
Frames, sockets and ICE-TCP are more input of the
same kind.

**RoomRouting.** The composition. Controller state is the registry of current
connections, the fence of superseded joins and the record `life` (topology,
placement, staged updates). An action is a controller handler
(`StartMaterialization`, `Commit`, `Reject`, `RemoveIncarnation`, `Handle*`), a
shard step (`Materialize`, `ApplyUpdate`) or something a connection does.
Abstractions:

* update lanes are the ordered logs that `UpdateLane` justifies, and a
  generation is applied in one step (a room of this size stays below the budget
  of 256 plan operations);
* a transport address is unique to its connection while quarantined
  (`RouteTable`), so removal names a connection; connection identifiers are
  time-ordered and therefore numbers;
* a participant reconnects to its shard, as `next_partition_index` arranges;
* subscriptions are those of the default profile: all audio, video by
  allocation, topics by open channels; pausing a source does not unpublish it;
* acknowledgements may be finished in any order, because shards run between two
  `try_recv` calls of `advance_materializations`;
* roster effects change no modelled state.

**RoomPartitions, NativeGrants.** One room's partitions, occupancy counters and
reservations, through join, commit, failure and departure; which shard admission
prefers depends on load and is arbitrary. `NativeGrants` extends it by what ends
a native connection. The lease of a connection is kept three times: in the
registry (`lease`), as a timer (`expiries`) and at the endpoint (`view`), which
learns of a change by a command. `Tick` advances the runtime clock, while the
wall clock, by which a lease expires, may lag behind or run ahead. A timer runs for at most
`Horizon` and is set again when it strikes early. `Delete` and `Cutoff` put
fences into the update lanes and start a task that waits for the
acknowledgements, or gives up after the deadline; it answers the caller, and the
credit it holds returns when no fence is left in a lane. `Stop` ends a shard:
fences it was about to acknowledge are lost, others stay in its mailbox for ever,
with their credit. A lease is replaced by a request (`Replace`); renewal through
the connection itself (`renew_authorization`) has no caller outside tests and is
not modelled.

**NativeRows.** The rows a session keeps for its client and the batches it cuts
from them (`select`, `sent`, `initial_complete`), as operators on a session
record; shared by the next two.

**NativeSignaling.** Controller and endpoint as two threads over bounded lanes
and the three bits of the hand-off word. Setting a bit, sending the token,
clearing a bit and looking into a lane are separate steps where the other thread
can come between (`Register`, `RearmClear`, `RearmPeek`, `Notify`, `SendToken`;
`NativeReady` and the endpoint's turn in the other direction). Frames, commands
and facts are counted, not interpreted.

**NativeResources.** One publication of a data channel, end to end: the client's
desired state, the session's rows, attempts and storage charge, the endpoint's
channel and publication, and the reports that come back, over reliable lanes.
The authorization is renewed, and channels open, fail and close meanwhile.

**TimerWheel, AddressCache, ShardSeats.** The first two are operators only, one
per method: a wheel or a cache goes in, the next one comes out. Each intrusive
linked list is a sequence, and the wheel's occupancy words are read off the
lists. `ShardSeats` composes them with the registry and the dirty list. Its
actions are what a turn of the shard does with one input, and
`PollAndFlushDirty`, which advances the wheel to an arbitrary later instant,
marks what expired, polls as many participants as the budget allows and arms
their timers. What a participant does when polled (its deadline, its exit, that
it has connected) is arbitrary, and so is whether a packet is STUN and names this
node. `asked` remembers the instants that the wheel rounds.

**Membership.** `Write`, `SyncFile`, `Rename` and `Join` are the steps of
`Identity::allocate` that a kill (`End`) or a loss of power (`PowerFailure`) can
separate. The state file is kept twice, as a process reads it and as it is after
a power failure; an unsynchronised rename may be undone. `Restore` is the
operator's mistake that the error message at `identity.rs:59` warns of.
`Reconcile` is `View::update` for one node: the history of the highest
generation, then the judgement of each reported incarnation. The fold over
records in ascending order is written as a closed form. Gossip (external) reports
any incarnation that ever joined, rightly or wrongly live, and drops it again;
"live with a supported schema" is one flag. Times are ages up to
`Retention + 1`.

## Runs

| Run | Distinct states | What it shows |
|---|---|---|
| `route_table` | 38,000 | no envelope reaches another tenant across release, reuse and epoch wrap; the shard's table catches up; slots are accounted for and exhaustion is real |
| `update_lane` | 249,000 | one lane in depth, two lanes sharing one attempt per tick: nothing lost, reordered or starved; a fence covers earlier generations; refinement of `UpdateLog`, fairness included |
| `shard_turn` | 117,000 | commands and events keep their order through full mailboxes and spent budgets, each shard is scheduled once, and every command of a shard that gets its turns is taken and answered |
| `room_publisher` | 818,000 | a publisher reconnects, tracks are demanded, topics opened and closed: stale events change nothing, updates meet the shards' assertions, forwarding, catalogs and shard state converge |
| `room_subscriber` | 118,000 | a subscriber of video or audio joins twice, the joins racing or not, or three joins of it race and one may be refused: plans reach only bound, seated connections (but see `displaced` below), lasting demand is served, no overtaken join is answered, every join is refused or ends with its seat |
| `room_partitions` | 548,000 | occupancy exact, reservations and capacity honoured; the three copies of a lease agree; credit is exact; whoever is told that something is withdrawn finds it withdrawn on every shard; every receipt is answered |
| `shard_seats` | 72,000 | a seated participant is on the dirty list or has a timer the shard sleeps no longer than, and timers are punctual, across replacement, spent budgets, wrap-around and late turns; the address lists thread exactly the entries in one recency order within their limits, authentication is earned and not evicted first |
| `native_signaling` | 476,000 | no wake-up is lost in either direction (but see `CursorLags` below), the client ends with the session's rows and a sound `initial_complete`, and every frame served although the command lane fills up |
| `native_resources` | 922,000 | client, session and endpoint never quarrel over a revision and end in agreement; no storage is leaked or released while in use; what the application wants is reached |
| `membership` | 258,000 | no generation is used twice across kills and power failures, the view keeps the promised fence, an incarnation that stays up becomes usable |
| `room_orphan`, `room_late_rejection` | violations | see below |

**Bounds.** Each instance is the smallest in which its hazards meet: two slots
and two epochs with a quarantine of two ticks wrap an epoch within the life of an
envelope unless the assumption holds; one-slot mailboxes and three or four
updates or commands force refusal, backlog and overtaking; budgets of one or two
leave work in every phase of a turn; two shards separate publisher from
subscriber; three connections of one participant give a seated, a waiting and a
refused one (`MaxWaiting` is 256 in the code); frames with room for a large record or for the
session's row, and not for both, leave a key behind while later ones are sent; a wheel of
four slots of two instants goes round in the twelve instants of the run; three
incarnations give a conflict and a fence that expires. `MaxToggles` bounds demand
and channel changes, `MaxInFlight` concurrent joins of one participant.
Convergence is checked with joins of one participant one after the other: with
two at once it fails, which is the finding `room_late_rejection`.
`PlansReachTheBound` is checked with racing joins too, and excepts the participants
in `displaced`, a history variable of `RoomSubscriberMC`: those that became current
while another uncommitted join of theirs was ahead of them for the seat. Without the
exception the run fails, for the same reason as `room_late_rejection`, whether the
older or the newer of the two joins commits first.

Where one question needs a wide instance and another a deep one, the bounds are a
record: a constant set `Limits` of them, and a variable `limit` that is chosen at
the start and never changes. The MC modules say what each record is for.
`RoomSubscriberMC` chooses between three ways of joining in the same way, and
`NativeSignalingMC` has one record, `crowd`, under which the room changes by a fixed
script of ten versions. Sources
in `ShardSeats` are symmetric; no liveness is checked there.

**Deadlock** is not checked where a bounded or quiet system may stop;
`native_signaling` always has a step and is checked.

**Fairness.** The controller flushes and drains on every tick and the poll
interval guarantees ticks: `has_ready_egress` goes false when a flush makes no
progress, and the interval then retries. Shards get weak fairness on their turn
when `Wakes` holds, in `ShardTurn` only the shards in `Draining`; the others may
stall for ever. The statistics deadline passes. A partially applied update
is not in the mailbox any more, so it waits for a deadline of its shard, like the
other left-over work of a turn. In `RoomRouting` the
assumption is weaker, that the server as a whole does not stop; clients promise
nothing. In `NativeSignaling` both threads run and a full transport drains;
strong fairness is assumed where a full lane or a blocked transport disables a
step now and again. In `NativeGrants` tasks run and live shards poll their lanes. In
`Membership` the interval reconciles and gossip eventually reports an incarnation
that is up. Some conditions write `ENABLED` out as a state predicate, which TLC
evaluates much faster.

## Disagreements met

* `room_orphan`: a demand event that arrives after its track was unpublished is
  reconciled, and `desired_state` panics although its annotation says this cannot
  be.
* `room_late_rejection`: effects and plans name a participant, and an older,
  uncommitted connection may hold the seat when a newer one commits first; what
  was meant for the newer one is lost when the older one is rejected.

Observations without a run of their own:

* `docs/routing.md:127` says that a candidate-only placement has no runtime or
  plan; the code installs both (`lifecycle.rs:890`), and a unit test expects it.
  The actions follow the code. `NothingLeaks` takes no side: it asks for a runtime
  and a plan where the publisher or a recipient is, forbids them where there is
  not even a candidate, and leaves shards with candidates only open.
* Rows that did not fit a batch are queued again under later tickets, and if
  renewals of the grant keep jumping the queue, the queue of changed rows may run
  more than a window (16 keys, `session.rs:173`) ahead of the cursor over the
  initial ones. A poll may then select nothing, move the cursor and return nothing
  (`session.rs:1761`) although the next poll would send `initial_complete`. Nobody
  asks for that poll: `needs_poll` (`session.rs:1594`) would say so, but only tests
  call it. The marker waits for the next wake-up, and in a quiet room the initial
  deadline ends the session. `CursorLags` names this state. `NoLostWake` and
  `Converges` except it and nothing else; the scripted room of `native_signaling`
  reaches it, and without the exception the run fails on both.
* When a channel closes while the client withdraws its publication, two `Released`
  reports are sent; the second finds the row collected and ends the connection as an
  invalid observation (`session.rs:1345`). `PeersAgree` admits exactly this cause.
* The comment at `events.rs:478` says that `has_pending` "decides whether the shard
  loops again". The code feeds a metric with it (`worker.rs:704`); what decides is
  `wait_for_inputs`, which looks at less (`Wakes`, in `ShardTurn`). So
  `EveryCommandAnswered` rests on the deadlines named there, not on `has_pending`.
* A `Connected` event that a spent event budget leaves over may be flushed after its
  participant was removed, where a debug assertion expects it "still registered"
  (`shard/core.rs:626`); `FlushConnected` drops it, as a release build does.
* The answer to an authentication may come after its participant left and its source
  knocked again, so an authenticated source need not lead to a seated connection: it
  is dropped on delivery instead.

## Proofs

Checked by TLAPS for every value of the constants that satisfies the named
assumptions.

**`RoomRouting_proofs`** (from `RoomAssumption`). `PublicationsAlwaysCurrent`:
a published track belongs to its publisher's current connection. The invariant
`PublicationIInv` adds that the registry holds only connections of the
participant itself and that queued events name the connection that sent them
(and, for a publication, its own track): with both, the incarnation test of the
event handler is enough. Each way of changing the registry first removes the
tracks of the incarnation it ends (`TerminationUnpublishes`).
`OvertakenNeverAnswered`: from `FenceIInv`, every overtaken join is in the set
`superseded` that `Commit` consults.

`NothingEverLeaks`: a shard with nothing left in its lane holds what the topology
says now. `UpdatesAlwaysFit`: every update finds the tracks and plans that
`apply_lifecycle_op` asserts. Neither is inductive, since they speak of an empty lane
or of its head alone. `SettleIInv` speaks of the whole lane: what is left in it leads
the shard from what it holds to the placements the controller has recorded, each
withdrawal finds its runtime on the way, and the last view of a track in it forwards
where the controller forwards (`LaneSound`). And after every handler the recorded
placements are those of the topology (`Compiled`), because each handler reconciles
the tracks it touched. `RoomAssumption` says that the tracks are finitely many, as
reconciliation goes through them one after the other.

**`RouteTable_proofs`** (from `SlotAssumption`, `RouteAssumption` and
`EpochOutlivesTraffic`, the const assertion of `route.rs`). `NeverMisdelivered`:
an envelope reaches its tenant or nobody. `NoMisdelivery` says nothing about
time, so the inductive invariant `RouteIInv` adds it (`LaneAged`, `StaleAged`):
an address `k` epochs behind its slot is at least `k` quarantines old, plus the
time its slot has now waited. Ages stay below `Quarantine * EpochModulus`, so an
epoch is granted again only when no envelope or update carries its last use, and
all traces of one slot and epoch are of one tenant (`OneTenant`). An entry of the
shard's table is current, or its retirement is still in the lane
(`TableExplained`), so it is such a trace too. `TableAlwaysConverges`: with an
empty lane the table is what the controller believes. `ConvergeIInv` adds the
converse of `TableExplained`: the last update of an installed slot in the lane is
its install.

The same module proves its allocator (from `SlotAssumption` alone):
`SlotTypesAlwaysOK`,
`SlotsAlwaysAccounted` and `ExhaustionNeverPremature` share the inductive
invariant `SlotIInv`: types, the partition of issued slots into held and queued,
and `OldestFirst`. The last one is needed because allocation looks only at the
front of the queue: only if ages decrease along it does a young front mean that
every entry is young.

**`Membership_proofs`** (from `MembershipAssumption`). `GenerationsAlwaysFresh`:
later incarnations of a data directory have higher generations and the same node
identity, whatever power failures and crashes interrupt the replacement of the
state file, unless an old file was put back. The invariant `FreshIInv` follows the
replacement: both copies of the file, one of which a failure may bring back, cover
every generation that has joined, the one being installed exceeds them, and the
lock keeps a second process out meanwhile. `FenceAlwaysHolds`: at most one
incarnation is usable, and no higher one led within the retention, restored files
included. `ViewIInv` says why: incarnations and reports are numbered as
they were observed (`Numbered`, `Reported`), and a history entry covers every
incarnation that led within the retention (`Remembers`), a usable one being the
entry alone (`Singles`). Greatest and least members of sets of numbers come from
the well-foundedness of the naturals.

**`UpdateLane_proofs`** (from `LaneAssumption`). `StreamAlwaysWhole`: at every
moment what a shard has applied, what it is applying, its mailbox, its backlog and
the update being staged are, one after the other, exactly what was published to it.
The invariant, `StreamIInv`, adds that generations grow along the stream, that the
shard's current generation is that of the last update it applied, and that at most
one update is in progress, between its first chunk and its last.
`AlwaysExecutedInOrder` follows, and `FenceAlwaysCovers` needs one more fact: an
acknowledged fence was applied (`AckedApplied`). `LanesImplementLog` is the safety
part of the refinement of `UpdateLog`: every step appends to a log, consumes from
it or is invisible. The fairness part stays with TLC.

**`ShardTurn_proofs`** (from `BacklogAssumption` and `TurnAssumption`).
`AlwaysScheduledOnce`: a destination with waiting work is listed exactly once among
the pending and the blocked ones. `CommandsAlwaysInOrder`: commands reach a shard
in the order they were pushed. Both are part of `LaneIInv`. The event half of
`LanesInOrder` stays with TLC: it filters and folds sequences.

**`ShardSeats_proofs`** (from `CacheAssumption`, with any number of sources and
routes). `ListsAlwaysAgree`, `AuthenticationAlwaysEarned` and
`AuthenticatedAlwaysKept` are about the cache alone, and every action of the shard
changes it by one method of the demultiplexer, so there is one lemma per method.
Inside a method a source is unlinked while its entry changes: `Listed(C, S)` says that
the lists thread all entries except those of `S`, and each method takes its source out
of the lists, changes the entry and links it again (`UnlinkListed`, `Retagged`,
`LinkListed`). That the two evictions of one admission keep authenticated
sources takes an argument of its own (`AdmitFacts`): the first looks at all routes and
the second at one, and each drops an authenticated source only when its lists hold no
other (`EvictedLast`). `unregister` is a loop, written as a function of the number of turns it has
made; `IterationExists` and `IterationRemoves` say what it has removed after each.
`SeatsInv` adds the registry, where `AlwaysWaitingForTaken` comes from, and that queued
events name sources. `CacheAssumption` has `"none" \notin Routes` because the model
writes a missing entry as an address with that route.

**`RoomPartitions_proofs`, `NativeGrants_proofs`** (from
`PartitionAssumption` and `GrantsAssumption`). The inductive invariant has three
parts, kept apart because few steps touch more than one.

* `PlaceInv` (in `RoomInvariant`): every participant holds at most one place, placed
  and reserved in the same partition if both; counters count holders; the claimants
  of a reservation are the materialisations in flight of its participant, each of
  which carries the slot and the shard of the reservation; a participant is placed
  while it has a current connection, on the shard of its partition.
  `OccupancyAlwaysExact` and `ClaimsAlwaysHonoured` follow. One lemma per operation
  of the room says what it does to a sound room (`Reserving`, `Placing`,
  `Releasing`, `Removing`).
* `LeaseInv`: the expiry timers are exactly those of the leases of current
  connections; the grants on their way to an endpoint have rising revisions above
  the one it holds and the last of them is the registry's lease (`Leads`); a
  pending endpoint holds what was offered to it. Without the grants in between
  `LeasesAgree` is not inductive. `LeasesAlwaysAgree` follows.
* `CutInv`: the credit is the number of open tasks and unpaid completions; a task
  answered "ok" was executed on every shard it touched; a task that has returned
  waits for nobody; the connection an HTTP deletion withdrew is neither current nor
  pending, so it cannot commit later. `CreditAlwaysExact` and
  `AlwaysWithdrawnEverywhere` follow.

The lemmas take the facts about finite sets they use as a hypothesis, `Counting`,
which `CountingHolds` discharges from the library: with the library in scope of
every step the provers are several times slower.

Only model-checked: liveness and with it the fairness part of the refinement of
`UpdateLog`, which are out of the prover's reach; `CatalogsConverge`,
`ForwardingConverges`, `PlansReachTheBound` and the clauses of `UpdatesApplyCleanly`
about seats, which depend on folds of effects over a connection (induction over data);
the event half of `LanesInOrder`, and `TimersPunctual` and the timers of
`NobodyForgotten`, where the lists of the wheel are filtered and folded; and
`NativeSignaling` and `NativeResources`, whose batches are folds over sorted keys.

## Not modelled

* Native receivers, publications over RTP, the reports of running executions,
  sources waited for, the session's memory and capacity limits (`STATE_BYTES`,
  `live_fits`, `charge`), and renewal through the connection: `native_resources`
  follows one data publication. Its grants are renewed in time, so the deferral for
  an expired one is left out, and a preparation under a grant the endpoint does not
  know yet is sent back once, where the code may do so until the renewal arrives. The
  row that tells a client of the closing of its session, and the test that keeps a
  later grant from overwriting it, are left out: a connection ends at once.
* Errors the code guards against and cannot meet in a run of this length: an
  exhausted generation number in `identity.rs:79`, an update whose header names
  another shard or an operation of one (`shard_update.rs:155`; each lane here is of
  one shard).
* A turn that splits `RetireTransport` from the `RemoveParticipant` that follows it:
  in `ShardSeats` the two are one step.
* Cross-shard frames beyond their acceptance (`RouteTable`): they may be lost, and
  what survives a loss is the RTC engine's matter. Link sequences only feed
  counters.
* The rebalancer (`placement.rs`): it moves whole shards between workers on
  measured floating-point loads, and no other part observes the move.
* Media selection, RTP processing and the RTC engine: numeric, per stream; of
  selection, the demand it sends to the controller is in `RoomRouting`.
* HTTP and SDP, wire types and tokens, sockets, ICE-TCP, steering, statistics:
  conversions and I/O without protocol state.
* Runtime primitives: a mailbox is a bounded first-in-first-out queue with
  `try_send` and `try_recv`, as the code uses it.

## Next

Proofs: `PeersAgree` of `NativeResources`, once the batches of `NativeRows` have a
closed form; `TimersPunctual`, from the operations of `TimerWheel`.
