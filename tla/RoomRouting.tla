---------------------------- MODULE RoomRouting ----------------------------
(***************************************************************************)
(* One room of one node: the controller's registry, track topology and     *)
(* track lifecycle, the update and command lanes to the shards, the        *)
(* shards' participant registries, track runtimes, routes and plans, and   *)
(* the events the participants' connections send back.                     *)
(*                                                                         *)
(* The controller runs one handler at a time (an action here).  What the   *)
(* handlers stage for a shard arrives through that shard's update lane,    *)
(* which UpdateLane shows to be an ordered log; materialisations travel on *)
(* the independent command lane, and events on one queue per shard.        *)
(*                                                                         *)
(* A connection (an incarnation of its owner) is a number: ConnectionId is *)
(* a time-ordered UUID.  Its transport address is unique to it while it    *)
(* is quarantined (RouteTable), so RemoveParticipant names a connection    *)
(* here.  TrackId is derived from the connection that publishes it.        *)
(*                                                                         *)
(* Abstracted: a participant keeps its shard when it reconnects            *)
(* (RoomShard::next_partition_index); one generation is applied in one     *)
(* step, since a generation of a room of this size is below the shard's    *)
(* budget of 256 plan operations; roster effects (ParticipantsChanged)     *)
(* leave a connection's state alone.                                       *)
(***************************************************************************)
EXTENDS Naturals, FiniteSets, SequenceOps

CONSTANTS
  Shards,       \* execution shards
  Participants, \* participant identities
  Home,         \* [Participants -> Shards]: the shard a participant is placed on
  Owner,        \* sequence of participants: Owner[c] connects with ConnectionId c
  Tracks,       \* track identities
  Origin,       \* [Tracks -> Conns]: the connection that publishes the track
  Label,        \* [Tracks -> {"audio", "video"} \cup Topics]: what selectors match
  Topics,       \* labels of data topics
  MaxToggles,   \* bound: demand changes and topic channels opened or closed
  MaxInFlight,  \* bound: materialisations of one participant in flight at once
  MaxWaiting    \* replacements a shard lets wait (256 in the code)

None == 0
Conns == 1..Len(Owner)
Publisher(t) == Owner[Origin[t]]
OriginShard(t) == Home[Publisher(t)]

ASSUME RoomAssumption ==
  /\ Home \in [Participants -> Shards]
  /\ Owner \in Seq(Participants)
  /\ IsFiniteSet(Tracks)
  /\ Origin \in [Tracks -> Conns]
  /\ Label \in [Tracks -> {"audio", "video"} \cup Topics]
  /\ MaxToggles \in Nat /\ MaxInFlight \in Nat /\ MaxWaiting \in Nat

VARIABLES
  registry,  \* controller: the current connection of each participant, or None
  superseded,\* controller: in-flight materialisations fenced by a newer commit
  life,      \* controller: topology, lifecycle state and the update lanes
  crashed,   \* controller: an expect() failed
  commands,  \* [Shards -> Seq(Conns)]: MaterializeParticipant commands
  acked,     \* connections the shard reported materialised
  failed,    \* connections the shard reported not materialised
  seat,      \* shards: the connection registered under each participant, or None
  waiting,   \* shards: replacements waiting for that seat, oldest first
  shard,     \* [Shards -> runtime, routes, plans, held]
  peer,      \* [Conns -> catalog, bound, demand, sources]: Connection state
  events,    \* [Shards -> Seq(event)]: shard events on their way to the controller
  phase,     \* a connection's progress through admission, as its client sees it
  offered,   \* [Tracks -> {"no", "yes", "closed"}]: published by its connection
  opened,    \* [Conns -> SUBSET Topics]: subscribing channels open
  toggles,   \* demand changes and topic channel changes so far
  overtaken  \* history: connections in flight while a newer one committed

ctlVars == <<registry, superseded, life, crashed>>
shardVars == <<seat, waiting, shard, peer>>
clientVars == <<phase, offered, opened, toggles>>
vars == <<ctlVars, commands, acked, failed, shardVars, events, clientVars, overtaken>>

-----------------------------------------------------------------------------
(* What one generation carries to one shard.                               *)

NoUpdate ==
  [effects |-> <<>>, views |-> <<>>, installs |-> {},
   retires |-> {}, withdraws |-> {}, leavers |-> {}]

\* stage_*_at marks only the shards it touches; publish_staged sends those.
Stage(lane, updates) ==
  [s \in Shards |->
     IF updates[s] = NoUpdate THEN lane[s] ELSE Append(lane[s], updates[s])]

Effect(p, kind, t) == [to |-> p, kind |-> kind, track |-> t]

\* stage_track_effect for each participant of ps that lives on shard s.
EffectsTo(ps, s, kind, t) ==
  SetToSeq({Effect(p, kind, t) : p \in {q \in ps : Home[q] = s}})

-----------------------------------------------------------------------------
(* Topology: who matches a track, and who receives it.                     *)

DefaultLabels == {"audio", "video"}

Candidates(L, t) == {p \in Participants : <<p, Label[t]>> \in L.subs} \ {Publisher(t)}

\* Every match is active, except that the subscriber's allocator picks video.
Bindings(L, t) ==
  {p \in Candidates(L, t) : Label[t] = "video" => <<p, t>> \in L.allocated}

ShardsOf(ps) == {Home[p] : p \in ps}

NeedsReverse(t) == Label[t] # "audio"

-----------------------------------------------------------------------------
(* Lifecycle: compile the topology into updates.                           *)

\* unsubscribe before withdrawal, candidate before subscription
Transitions(L, t, cand, bind, s) ==
  EffectsTo(L.bindings[t] \ bind, s, "Unsubscribed", t)
    \o EffectsTo(L.candidates[t] \ cand, s, "Withdrawn", t)
    \o EffectsTo(cand \ L.candidates[t], s, "Candidate", t)
    \o EffectsTo(bind \ L.bindings[t], s, "Subscribed", t)

Resident(L, t) == {OriginShard(t)} \cup ShardsOf(Candidates(L, t))

\* remote shards with a recipient
Active(L, t) == ShardsOf(Bindings(L, t)) \ {OriginShard(t)}

Routed(L, t) == Active(L, t) \cup (IF NeedsReverse(t) THEN {OriginShard(t)} ELSE {})

\* What the reconciliation of t sends to shard s; L still holds the previous
\* candidates, bindings and placements.
TrackUpdate(L, t, s) ==
  LET announced == IF OriginShard(t) \in L.resident[t] THEN {} ELSE {Publisher(t)}
      view == [local |-> {p \in Bindings(L, t) : Home[p] = s},
               remote |-> IF s = OriginShard(t) THEN Active(L, t) ELSE {}]
  IN [effects |-> Transitions(L, t, Candidates(L, t), Bindings(L, t), s)
                    \o EffectsTo(announced, s, "Published", t),
      views |-> [x \in (IF s \in Resident(L, t) THEN {t} ELSE {}) |-> view],
      installs |-> IF s \in Routed(L, t) \ L.routed[t] THEN {t} ELSE {},
      retires |-> IF s \in L.routed[t] \ Routed(L, t) THEN {t} ELSE {},
      withdraws |-> IF s \in L.resident[t] \ Resident(L, t) THEN {t} ELSE {},
      leavers |-> {}]

\* reconcile_all stages and publishes one generation per track.
StageTracks(L, ts) ==
  [s \in Shards |->
     LET touched == SetToSeq({t \in ts : TrackUpdate(L, t, s) # NoUpdate})
     IN L.lane[s] \o [i \in DOMAIN touched |-> TrackUpdate(L, touched[i], s)]]

ReconcileAll(L, ts) ==
  [L EXCEPT
     !.candidates = [t \in Tracks |-> IF t \in ts THEN Candidates(L, t) ELSE @[t]],
     !.bindings = [t \in Tracks |-> IF t \in ts THEN Bindings(L, t) ELSE @[t]],
     !.resident = [t \in Tracks |-> IF t \in ts THEN Resident(L, t) ELSE @[t]],
     !.routed = [t \in Tracks |-> IF t \in ts THEN Routed(L, t) ELSE @[t]],
     !.lane = StageTracks(L, ts)]

Reconcile(L, t) == ReconcileAll(L, {t})

RemovalEffects(L, ts, s) ==
  LET Effects(t) == EffectsTo(L.bindings[t], s, "Unsubscribed", t)
                      \o EffectsTo(L.candidates[t], s, "Withdrawn", t)
                      \o EffectsTo({Publisher(t)}, s, "Unpublished", t)
  IN FoldSet(LAMBDA t, acc : acc \o Effects(t), <<>>, ts)

\* Mutant: the routes of a removed track stay installed.
RemovalKeepingRoutes(L, ts, s) ==
  [NoUpdate EXCEPT !.effects = RemovalEffects(L, ts, s),
                   !.withdraws = {t \in ts : s \in L.resident[t]}]

\* Mutant: the subscribers are not told that the source ended.
RemovalUnannounced(L, ts, s) ==
  [NoUpdate EXCEPT !.retires = {t \in ts : s \in L.routed[t]},
                   !.withdraws = {t \in ts : s \in L.resident[t]}]

\* stage_track_removal of every track of ts, as shard s sees it
Removal(L, ts, s) ==
  [NoUpdate EXCEPT !.effects = RemovalEffects(L, ts, s),
                   !.retires = {t \in ts : s \in L.routed[t]},
                   !.withdraws = {t \in ts : s \in L.resident[t]}]

\* One generation removes the tracks ts; the topology and placements forget them.
RemoveTracks(L, ts) ==
  LET update == [s \in Shards |-> Removal(L, ts, s)]
      Forget(f) == [t \in Tracks |-> IF t \in ts THEN {} ELSE f[t]]
  IN [L EXCEPT !.tracks = @ \ ts,
               !.allocated = {a \in @ : a[2] \notin ts},
               !.candidates = Forget(@), !.bindings = Forget(@),
               !.resident = Forget(@), !.routed = Forget(@),
               !.lane = Stage(@, update)]

Dismiss(L, c) ==
  LET update == [s \in Shards |->
        IF s = Home[Owner[c]] THEN [NoUpdate EXCEPT !.leavers = {c}] ELSE NoUpdate]
  IN [L EXCEPT !.lane = Stage(@, update)]

\* Mutant: the participant is removed before the plans stop naming it.
TerminateIncarnationFirst(L, c) ==
  LET p == Owner[c]
      own == {t \in L.tracks : Publisher(t) = p}
      affected == {t \in L.tracks \ own : p \in Candidates(L, t)}
      gone == [RemoveTracks(Dismiss(L, c), own) EXCEPT
                 !.subs = {x \in @ : x[1] # p},
                 !.allocated = {a \in @ : a[1] # p}]
  IN ReconcileAll(gone, affected)

TerminateIncarnation(L, c) ==
  LET p == Owner[c]
      own == {t \in L.tracks : Publisher(t) = p}
      affected == {t \in L.tracks \ own : p \in Candidates(L, t)}
      gone == [RemoveTracks(L, own) EXCEPT
                 !.subs = {x \in @ : x[1] # p},
                 !.allocated = {a \in @ : a[1] # p}]
  IN Dismiss(ReconcileAll(gone, affected), c)

-----------------------------------------------------------------------------
(* Shards.                                                                 *)

\* What a connection does with an effect once the track has a local handle.
Applied(v, c, e) ==
  LET t == e.track IN
  CASE e.kind = "Candidate" -> [v EXCEPT !.catalog = @ \cup {t}]
    [] e.kind = "Withdrawn" -> [v EXCEPT !.catalog = @ \ {t}, !.bound = @ \ {t},
                                         !.demand = @ \ {t}]
    [] e.kind = "Subscribed" -> [v EXCEPT !.bound = @ \cup ({t} \cap v.catalog)]
    [] e.kind = "Unsubscribed" -> [v EXCEPT !.bound = @ \ {t}]
    [] e.kind = "Published" -> [v EXCEPT !.sources =
                                  IF Origin[t] = c THEN @ \cup {t} ELSE @]
    [] e.kind = "Unpublished" -> [v EXCEPT !.sources = @ \ {t}]

\* Effects are applied in order; one whose track or participant is not here
\* yet is held and tried again.
Deliver(peers, seats, runtime, effects) ==
  FoldLeft(LAMBDA acc, e :
             IF e.track \in runtime /\ seats[e.to] # None
             THEN [acc EXCEPT !.peers[seats[e.to]] = Applied(@, seats[e.to], e)]
             ELSE [acc EXCEPT !.held = Append(@, e)],
           [peers |-> peers, held |-> <<>>], effects)

\* apply_plan resolves the participants of a plan to the handles seated now.
Resolve(view, seats) ==
  [local |-> {seats[p] : p \in view.local} \ {None}, remote |-> view.remote]

\* Mutant: the seat stays empty although a replacement waits for it.
ReseatVacant(leavers, p) ==
  LET line == SelectSeq(waiting[p], LAMBDA c : c \notin leavers)
  IN [seat |-> IF seat[p] \in leavers THEN None ELSE seat[p], line |-> line]

\* RemoveParticipant: the leaver no longer waits; if it held the seat, the
\* first connection still waiting for it is seated.
Reseat(leavers, p) ==
  LET line == SelectSeq(waiting[p], LAMBDA c : c \notin leavers)
  IN CASE seat[p] \notin leavers -> [seat |-> seat[p], line |-> line]
       [] seat[p] \in leavers /\ line = <<>> -> [seat |-> None, line |-> <<>>]
       [] seat[p] \in leavers /\ line # <<>> -> [seat |-> Head(line), line |-> Tail(line)]

\* Mutant: a new connection takes the seat of the one it replaces at once.
SeatAlwaysFree(p) == TRUE

SeatFree(p) == seat[p] = None

Ack(c) == acked \cup {c}

LineFull(s) ==
  Cardinality(UNION {Range(waiting[p]) : p \in {q \in Participants : Home[q] = s}})
    >= MaxWaiting

\* MaterializeParticipant: take the free seat or wait for it, and acknowledge; or
\* report that too many replacements wait already.
Materialize(s) ==
  /\ commands[s] # <<>>
  /\ LET c == Head(commands[s])
         p == Owner[c]
         full == ~SeatFree(p) /\ LineFull(s)
         seats == IF SeatFree(p) THEN [seat EXCEPT ![p] = c] ELSE seat
         retried == Deliver(peer, seats, shard[s].runtime, shard[s].held)
     IN /\ seat' = seats
        /\ waiting' = IF SeatFree(p) \/ full THEN waiting
                      ELSE [waiting EXCEPT ![p] = Append(@, c)]
        /\ peer' = retried.peers
        /\ shard' = [shard EXCEPT ![s].held = retried.held]
        /\ acked' = IF full THEN acked ELSE Ack(c)
        /\ failed' = IF full THEN failed \cup {c} ELSE failed
  /\ commands' = [commands EXCEPT ![s] = Tail(@)]
  /\ UNCHANGED <<ctlVars, events, clientVars, overtaken>>

\* One generation: effects, runtimes, routes, plans, retirements, held effects.
ApplyUpdate(s) ==
  /\ life.lane[s] # <<>>
  /\ LET u == Head(life.lane[s])
         old == shard[s]
         first == Deliver(peer, seat, old.runtime, old.held \o u.effects)
         runtime == old.runtime \cup DOMAIN u.views
         routes == old.routes \cup (u.installs \cap runtime)
         plans == [t \in (DOMAIN old.plans \cup DOMAIN u.views) \ u.withdraws |->
                     IF t \in DOMAIN u.views THEN Resolve(u.views[t], seat)
                     ELSE old.plans[t]]
         seated == [p \in Participants |-> Reseat(u.leavers, p)]
         seats == [p \in Participants |-> seated[p].seat]
         held == SelectSeq(first.held, LAMBDA e : \A c \in u.leavers : Owner[c] # e.to)
         last == Deliver(first.peers, seats, runtime \ u.withdraws, held)
     IN /\ seat' = seats
        /\ waiting' = [p \in Participants |-> seated[p].line]
        /\ peer' = last.peers
        /\ shard' = [shard EXCEPT ![s] = [runtime |-> runtime \ u.withdraws,
                                          routes |-> routes \ u.retires,
                                          plans |-> plans,
                                          held |-> last.held]]
  /\ life' = [life EXCEPT !.lane[s] = Tail(@)]
  /\ UNCHANGED <<registry, superseded, crashed, commands, acked, failed, events,
                 clientVars, overtaken>>

-----------------------------------------------------------------------------
(* Controller.                                                             *)

InFlight(p) == {d \in Conns : Owner[d] = p /\ phase[d] = "joining"}

\* begin_create_participant and start_materialization: refused at once if the
\* participant already has this connection or a newer one.
StartMaterialization(c) ==
  /\ ~crashed
  /\ phase[c] = "new"
  /\ Cardinality(InFlight(Owner[c])) < MaxInFlight
  /\ IF registry[Owner[c]] >= c
     THEN phase' = [phase EXCEPT ![c] = "refused"] /\ UNCHANGED commands
     ELSE /\ phase' = [phase EXCEPT ![c] = "joining"]
          /\ commands' = [commands EXCEPT ![Home[Owner[c]]] = Append(@, c)]
  /\ UNCHANGED <<ctlVars, acked, failed, shardVars, events, offered, opened, toggles, overtaken>>

\* finish_materialization of a connection that must not become current: fenced,
\* older than the current one, or its authorization expired; or not materialised.
Reject(c) ==
  /\ ~crashed
  /\ phase[c] = "joining" /\ c \in acked \cup failed
  /\ phase' = [phase EXCEPT ![c] = "refused"]
  /\ life' = IF c \in acked THEN Dismiss(life, c) ELSE life
  /\ UNCHANGED <<registry, superseded, crashed, commands, acked, failed, shardVars,
                 events, offered, opened, toggles, overtaken>>

Overtaken(c) == {d \in InFlight(Owner[c]) : d < c}

\* Mutant: older materialisations in flight are not fenced by the commit of c.
FencedNone(c) == superseded

Fenced(c) == superseded \cup Overtaken(c)

\* commit_materialization: the connection becomes current, the older ones in
\* flight are fenced, the one it replaces is terminated, and the default
\* subscriptions are compiled into every track of the room; then the answer.
Commit(c) ==
  /\ ~crashed
  /\ phase[c] = "joining" /\ c \in acked
  /\ c \notin superseded
  /\ registry[Owner[c]] < c
  /\ registry' = [registry EXCEPT ![Owner[c]] = c]
  /\ superseded' = Fenced(c)
  /\ LET p == Owner[c]
         left == IF registry[p] = None THEN life
                 ELSE TerminateIncarnation(life, registry[p])
         subscribed == [left EXCEPT !.subs = @ \cup {<<p, l>> : l \in DefaultLabels}]
     IN life' = ReconcileAll(subscribed, subscribed.tracks)
  /\ phase' = [phase EXCEPT ![c] = "answered"]
  /\ overtaken' = overtaken \cup Overtaken(c)
  /\ UNCHANGED <<crashed, commands, acked, failed, shardVars, events, offered, opened, toggles>>

\* remove_incarnation of the current connection: its lease expired, or the
\* API deleted it.
RemoveIncarnation(c) ==
  /\ ~crashed
  /\ registry[Owner[c]] = c
  /\ registry' = [registry EXCEPT ![Owner[c]] = None]
  /\ life' = TerminateIncarnation(life, c)
  /\ UNCHANGED <<superseded, crashed, commands, acked, failed, shardVars, events,
                 clientVars, overtaken>>

\* The events of handle_shard_event that reach the lifecycle: each gives the
\* new lifecycle state, given that its connection is the current one.
HandlePublish(L, t) ==
  IF t \in L.tracks THEN L ELSE Reconcile([L EXCEPT !.tracks = @ \cup {t}], t)

HandleUnpublish(L, t) == IF t \in L.tracks THEN RemoveTracks(L, {t}) ELSE L

\* Mutant: the allocation is recorded and the track's plans are not recompiled.
HandleDemandUncompiled(L, p, t, on) ==
  [L EXCEPT !.allocated = IF on THEN @ \cup {<<p, t>>} ELSE @ \ {<<p, t>>}]

HandleDemand(L, p, t, on) ==
  Reconcile([L EXCEPT !.allocated = IF on THEN @ \cup {<<p, t>>} ELSE @ \ {<<p, t>>}], t)

HandleTopic(L, p, topic, on) ==
  LET changed == [L EXCEPT !.subs = IF on THEN @ \cup {<<p, topic>>} ELSE @ \ {<<p, topic>>}]
  IN IF ~on /\ <<p, topic>> \notin L.subs THEN L
     ELSE ReconcileAll(changed, {t \in L.tracks : Label[t] = topic})

\* handle_shard_event: take the oldest event of shard s and, if its connection
\* is the current one, do what it asks.
Event(s) == Head(events[s])
Current(e) == registry[Owner[e.conn]] = e.conn
Orphan(e) == e.kind \in {"demand", "release"} /\ e.arg \notin life.tracks

HandleEvent(s) ==
  /\ ~crashed
  /\ events[s] # <<>>
  /\ events' = [events EXCEPT ![s] = Tail(@)]
  /\ UNCHANGED <<superseded, commands, acked, failed, shardVars, clientVars, overtaken>>

\* Mutant: an event is applied whichever incarnation sent it.
HandleStaleEventTrusting(s) ==
  /\ HandleEvent(s)
  /\ ~Current(Event(s))
  /\ life' = IF Event(s).kind = "publish" THEN HandlePublish(life, Event(s).arg) ELSE life
  /\ UNCHANGED <<registry, crashed>>

HandleStaleEvent(s) ==
  /\ HandleEvent(s)
  /\ ~Current(Event(s))
  /\ UNCHANGED <<registry, life, crashed>>

HandleTrackEvent(s) ==
  /\ HandleEvent(s)
  /\ Current(Event(s)) /\ Event(s).kind # "exit" /\ ~Orphan(Event(s))
  /\ LET e == Event(s)
         p == Owner[e.conn]
     IN life' = CASE e.kind = "publish" -> HandlePublish(life, e.arg)
                  [] e.kind = "unpublish" -> HandleUnpublish(life, e.arg)
                  [] e.kind \in {"demand", "release"} ->
                       HandleDemand(life, p, e.arg, e.kind = "demand")
                  [] e.kind \in {"open", "close"} ->
                       HandleTopic(life, p, e.arg, e.kind = "open")
  /\ UNCHANGED <<registry, crashed>>

HandleExit(s) ==
  /\ HandleEvent(s)
  /\ Current(Event(s)) /\ Event(s).kind = "exit"
  /\ registry' = [registry EXCEPT ![Owner[Event(s).conn]] = None]
  /\ life' = TerminateIncarnation(life, Event(s).conn)
  /\ UNCHANGED crashed

\* activate and deactivate reconcile without asking whether the track is still
\* published; desired_state then fails its expect().
HandleOrphan(s) ==
  /\ HandleEvent(s)
  /\ Current(Event(s)) /\ Orphan(Event(s))
  /\ crashed' = TRUE
  /\ UNCHANGED <<registry, life>>

-----------------------------------------------------------------------------
(* Connections.  A connection acts once its client has the answer, for as   *)
(* long as it is seated on its shard.                                       *)

Live(c) == phase[c] = "answered" /\ seat[Owner[c]] = c

Send(c, kind, arg) ==
  events' = [events EXCEPT ![Home[Owner[c]]] =
               Append(@, [conn |-> c, kind |-> kind, arg |-> arg])]

Toggle == toggles < MaxToggles /\ toggles' = toggles + 1

\* An upstream slot becomes active, or a publishing data channel opens.
PublishTrack(c, t) ==
  /\ Live(c) /\ Origin[t] = c
  /\ offered[t] = "no" /\ offered' = [offered EXCEPT ![t] = "yes"]
  /\ Send(c, "publish", t)
  /\ UNCHANGED <<ctlVars, commands, acked, failed, shardVars, phase, opened, toggles, overtaken>>

\* A publishing data channel closes; media tracks end with their connection.
UnpublishTrack(c, t) ==
  /\ Live(c) /\ Origin[t] = c /\ Label[t] \in Topics
  /\ offered[t] = "yes" /\ offered' = [offered EXCEPT ![t] = "closed"]
  /\ Send(c, "unpublish", t)
  /\ UNCHANGED <<ctlVars, commands, acked, failed, shardVars, phase, opened, toggles, overtaken>>

\* reconcile_routes: the video allocator starts or stops needing a track of
\* its catalog.
ReconcileRoutes(c, t) ==
  /\ Live(c) /\ Toggle
  /\ Label[t] = "video" /\ t \in peer[c].catalog
  /\ LET wanted == t \notin peer[c].demand
     IN /\ peer' = [peer EXCEPT ![c].demand = IF wanted THEN @ \cup {t} ELSE @ \ {t}]
        /\ Send(c, IF wanted THEN "demand" ELSE "release", t)
  /\ UNCHANGED <<ctlVars, commands, acked, failed, seat, waiting, shard, phase, offered,
                 opened, overtaken>>

\* A subscribing data channel opens or closes.
ToggleTopic(c, topic) ==
  /\ Live(c) /\ Toggle
  /\ LET opening == topic \notin opened[c]
     IN /\ opened' = [opened EXCEPT ![c] = IF opening THEN @ \cup {topic} ELSE @ \ {topic}]
        /\ Send(c, IF opening THEN "open" ELSE "close", topic)
  /\ UNCHANGED <<ctlVars, commands, acked, failed, shardVars, phase, offered, overtaken>>

\* The connection closes or times out.
Exit(c) ==
  /\ Live(c)
  /\ phase' = [phase EXCEPT ![c] = "exited"]
  /\ Send(c, "exit", None)
  /\ UNCHANGED <<ctlVars, commands, acked, failed, shardVars, offered, opened, toggles, overtaken>>

-----------------------------------------------------------------------------
EmptyLife ==
  [tracks |-> {}, subs |-> {}, allocated |-> {},
   candidates |-> [t \in Tracks |-> {}], bindings |-> [t \in Tracks |-> {}],
   resident |-> [t \in Tracks |-> {}], routed |-> [t \in Tracks |-> {}],
   lane |-> [s \in Shards |-> <<>>]]

Init ==
  /\ registry = [p \in Participants |-> None]
  /\ superseded = {} /\ overtaken = {} /\ acked = {} /\ failed = {}
  /\ life = EmptyLife
  /\ crashed = FALSE
  /\ commands = [s \in Shards |-> <<>>]
  /\ seat = [p \in Participants |-> None]
  /\ waiting = [p \in Participants |-> <<>>]
  /\ shard = [s \in Shards |-> [runtime |-> {}, routes |-> {}, plans |-> <<>>, held |-> <<>>]]
  /\ peer = [c \in Conns |-> [catalog |-> {}, bound |-> {}, demand |-> {}, sources |-> {}]]
  /\ events = [s \in Shards |-> <<>>]
  /\ phase = [c \in Conns |-> "new"]
  /\ offered = [t \in Tracks |-> "no"]
  /\ opened = [c \in Conns |-> {}]
  /\ toggles = 0

Handle(s) == HandleStaleEvent(s) \/ HandleTrackEvent(s) \/ HandleExit(s) \/ HandleOrphan(s)

Controller ==
  \/ \E c \in Conns : StartMaterialization(c) \/ Reject(c) \/ Commit(c)
                      \/ RemoveIncarnation(c)
  \/ \E s \in Shards : Handle(s)

Shard(s) == Materialize(s) \/ ApplyUpdate(s)

Client(c) ==
  \/ \E t \in Tracks : PublishTrack(c, t) \/ UnpublishTrack(c, t) \/ ReconcileRoutes(c, t)
  \/ \E topic \in Topics : ToggleTopic(c, topic)
  \/ Exit(c)

Next == Controller \/ (\E s \in Shards : Shard(s)) \/ (\E c \in Conns : Client(c))

Spec == Init /\ [][Next]_vars

\* What the controller's tick and the shards' turns do: drain events and
\* acknowledgements, commands and updates.
Served ==
  \/ \E s \in Shards : Shard(s) \/ Handle(s)
  \/ \E c \in Conns : Reject(c) \/ Commit(c)

\* There is something to drain: this is when a step of Served is possible.
Waiting ==
  \/ \E s \in Shards : \/ commands[s] # <<>> \/ life.lane[s] # <<>>
                       \/ ~crashed /\ events[s] # <<>>
  \/ ~crashed /\ \E c \in Conns : phase[c] = "joining" /\ c \in acked \cup failed

\* The system does not stop while it has something to do; clients promise nothing.
\* Every thread gets its turns, which is more, but a client's input is bounded
\* here, and then this is enough.  (Weak fairness of Served, with Waiting for its
\* ENABLED: every step of Served changes the state.)
Fairness == []<>~Waiting \/ []<><<Served>>_vars

-----------------------------------------------------------------------------
(* Properties.                                                             *)

\* The update u meets the assertions of apply_lifecycle_op on shard s: a route is
\* installed on a track the shard runs, a plan removed is a plan held.
Fits(u, s) ==
  /\ u.installs \subseteq shard[s].runtime \cup DOMAIN u.views
  /\ u.withdraws \subseteq DOMAIN shard[s].plans

\* Every update a shard is about to apply meets the assertions of
\* apply_lifecycle_op, apply_plan and the connections: it fits the shard, a plan
\* names participants the shard has, a binding changes only on a known candidate.
UpdatesApplyCleanly ==
  \A s \in Shards : life.lane[s] # <<>> =>
    LET u == Head(life.lane[s]) IN
    /\ Fits(u, s)
    /\ \A t \in DOMAIN u.views : \A p \in u.views[t].local : seat[p] # None
    /\ \A i \in DOMAIN u.effects :
         u.effects[i].kind = "Unsubscribed" =>
           /\ seat[u.effects[i].to] # None
           /\ u.effects[i].track \in peer[seat[u.effects[i].to]].bound

\* A published track belongs to its publisher's current connection: stale
\* events of an earlier incarnation never bring a publication back.
PublicationsCurrent ==
  \A t \in life.tracks : registry[Publisher(t)] = Origin[t]

\* A materialisation that was in flight when a newer incarnation committed never
\* becomes current, even if the newer one has since been removed.
NoResurrection ==
  [][\A c \in overtaken : phase[c] = "joining" => phase'[c] # "answered"]_vars

Quiet ==
  /\ ~crashed
  /\ \A c \in Conns : phase[c] # "joining"
  /\ \A s \in Shards : commands[s] = <<>> /\ life.lane[s] = <<>> /\ events[s] = <<>>

\* The connections a packet of t reaches from the publisher's shard: local
\* recipients there, and at each remote address whose route is installed.
Reached(t) ==
  LET o == OriginShard(t)
      Local(s) == IF t \in DOMAIN shard[s].plans THEN shard[s].plans[t].local ELSE {}
      remote == IF t \in DOMAIN shard[o].plans THEN shard[o].plans[t].remote ELSE {}
  IN Local(o) \cup UNION {Local(s) : s \in {r \in remote : t \in shard[r].routes}}

\* What the connection c asked to receive: all audio, the topics it
\* opened, the video its allocator wants.
Asked(c, t) ==
  /\ Owner[c] # Publisher(t)
  /\ \/ Label[t] = "audio"
     \/ Label[t] = "video" /\ t \in peer[c].demand
     \/ Label[t] \in opened[c]

\* When nothing is in flight, a published track reaches exactly the current
\* connections that asked for it: the distributed plans, routes and catalogs add
\* up to the topology's bindings.
ForwardingConverges ==
  Quiet => \A t \in life.tracks :
             Reached(t) = {c \in Conns : Current([conn |-> c]) /\ Asked(c, t)}

\* When nothing is in flight, each current connection's catalog lists exactly
\* the published tracks of the others it matches, and its sources its own; no
\* effect is left waiting for its track or its participant.
CatalogsConverge ==
  Quiet =>
    /\ \A s \in Shards : shard[s].held = <<>>
    /\ \A c \in Conns : Current([conn |-> c]) =>
         /\ peer[c].catalog = {t \in life.tracks : Owner[c] \in Candidates(life, t)}
         /\ peer[c].bound = {t \in life.tracks : Owner[c] \in Bindings(life, t)}
         /\ peer[c].sources = {t \in life.tracks : Origin[t] = c}

\* desired_state's expect(): reconciliation only runs for a published track.
ReconcilesOnlyPublished == ~crashed

\* Tracks that shard s has to run: their publisher or a recipient is here.
Needed(s) ==
  {t \in life.tracks : s \in {OriginShard(t)} \cup ShardsOf(Bindings(life, t))}

\* A shard that has applied all it was sent runs and plans every published track
\* whose publisher or a recipient is here and none without its publisher or a
\* candidate here, whatever is under way elsewhere; it has a forward route exactly
\* where someone receives the track and a reverse route only at the origin, whose
\* plan forwards to exactly the shards with recipients.  It says nothing of a shard
\* with candidates only, where code and documentation differ.
NothingLeaks ==
  \A s \in Shards : life.lane[s] = <<>> =>
    /\ Needed(s) \subseteq shard[s].runtime
    /\ shard[s].runtime \subseteq {t \in life.tracks : s \in Resident(life, t)}
    /\ DOMAIN shard[s].plans = shard[s].runtime
    /\ shard[s].routes = {t \in life.tracks : s \in Routed(life, t)}
    /\ \A t \in DOMAIN shard[s].plans : shard[s].plans[t].remote =
         (IF s = OriginShard(t) THEN Active(life, t) ELSE {})

\* What a connection demands, it gets: again and again the room reaches a state
\* in which every video track that a live connection demands reaches it, or the
\* controller is gone.  With bounded input, a lasting demand is served for good.
DemandHonoured ==
  []<>(\/ crashed
       \/ \A c \in Conns : \A t \in peer[c].demand : Live(c) => c \in Reached(t))

\* Every materialisation is answered or refused, whoever holds the seat, and who
\* is answered and stays current is registered on the shard: the incarnation it
\* replaces gives up the seat it waits for.
JoinsSettled ==
  []<>(\/ crashed
       \/ \A c \in Conns :
            phase[c] # "joining" /\ (Current([conn |-> c]) => seat[Owner[c]] = c))
=============================================================================
