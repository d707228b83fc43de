----------------------------- MODULE UpdateLane -----------------------------
(***************************************************************************)
(* The update lanes from the controller to its shards (shard_update.rs,    *)
(* shard/updates.rs, and the egress side of control/controller.rs).        *)
(*                                                                         *)
(* The controller stages one generation on some writers and publishes it.  *)
(* A writer whose mailbox is full keeps the update in a backlog and is put *)
(* on a schedule that every controller tick works off within a budget.     *)
(* A shard takes updates from its mailbox and applies each one in chunks   *)
(* of PlanBudget plans: installs first, plans, retirements last, then the  *)
(* acknowledgement of a cutoff fence.                                      *)
(*                                                                         *)
(* Every try_send is a step of its own, because a shard may drain its      *)
(* mailbox between two of them.                                            *)
(***************************************************************************)
EXTENDS Naturals, Sequences

CONSTANTS
  NumShards,
  Limits,         \* bounds: lanes in use, generations, and plans per update
  Capacity,       \* SHARD_UPDATE_CAPACITY
  PlanBudget,     \* SHARD_PLAN_OPERATION_BUDGET
  FlushBudget     \* SHARD_UPDATE_EGRESS_BUDGET

ASSUME LaneAssumption ==
  /\ NumShards \in Nat \ {0}
  /\ \A l \in Limits :
       /\ l.lanes \in 1 .. NumShards
       /\ l.generations \in Nat
       /\ l.plans \subseteq Nat
  /\ \E l \in Limits : \A k \in Limits : k.generations <= l.generations
  /\ Capacity \in Nat \ {0}
  /\ PlanBudget \in Nat \ {0}
  /\ FlushBudget \in Nat \ {0}

Shards == 1 .. NumShards
PlanCounts == UNION {l.plans : l \in Limits}
MaxGeneration ==
  CHOOSE g \in {l.generations : l \in Limits} : \A l \in Limits : l.generations <= g

VARIABLES
  generation,  \* TrackLifecycle.generation: the last one handed out
  phase,       \* what the controller is in the middle of
  staged,      \* per writer: the update being published, if any
  backlog,     \* per writer: updates its mailbox had no room for
  closed,      \* per writer: a send found the receiver gone
  pending,     \* pending_updates: writers to revisit, in order
  queued,      \* update_queued: is the writer on that schedule
  budget,      \* what is left of the flush budget of this tick
  blocked,     \* writers the current flush found full
  mailbox,     \* per shard: its bounded update mailbox
  alive,       \* per shard: the receiver still exists
  work,        \* pending_update: the update being applied, if any
  begun,       \* pending_update_lifecycle
  planIndex,   \* pending_plan_index
  current,     \* ShardUpdateApplication.generation
  applied,     \* per shard: updates applied to the end
  executed,    \* per shard: the operations executed, in order
  acked,       \* cutoff fences acknowledged, as <<shard, generation>>
  published,   \* per shard: every update staged for it, in order
  limit        \* the bounds of this behaviour, a member of Limits

writerVars == <<staged, backlog, closed>>
scheduleVars == <<pending, queued, budget, blocked>>
shardVars == <<alive, work, begun, planIndex, current, applied, executed, acked>>
vars == <<generation, phase, writerVars, scheduleVars, mailbox, shardVars, published, limit>>

Lanes == 1 .. limit.lanes

Init ==
  /\ generation = 0
  /\ phase = "idle"
  /\ staged = [s \in Shards |-> << >>]
  /\ backlog = [s \in Shards |-> << >>]
  /\ closed = [s \in Shards |-> FALSE]
  /\ pending = << >>
  /\ queued = [s \in Shards |-> FALSE]
  /\ budget = 0
  /\ blocked = << >>
  /\ mailbox = [s \in Shards |-> << >>]
  /\ alive = [s \in Shards |-> TRUE]
  /\ work = [s \in Shards |-> << >>]
  /\ begun = [s \in Shards |-> FALSE]
  /\ planIndex = [s \in Shards |-> 0]
  /\ current = [s \in Shards |-> 0]
  /\ applied = [s \in Shards |-> << >>]
  /\ executed = [s \in Shards |-> << >>]
  /\ acked = {}
  /\ published = [s \in Shards |-> << >>]
  /\ limit \in Limits

-----------------------------------------------------------------------------
(* The controller.                                                         *)

\* next_generation, the stage_* calls of one outcome, mark_update_touched.
Stage(targets, plans, fence) ==
  LET update == [generation |-> generation + 1, plans |-> plans, fence |-> fence] IN
  /\ phase = "idle"
  /\ generation < limit.generations
  /\ generation' = generation + 1
  /\ phase' = "publish"
  /\ staged' = [s \in Shards |-> IF s \in targets THEN <<update>> ELSE << >>]
  /\ published' = [s \in Shards |->
       IF s \in targets THEN Append(published[s], update) ELSE published[s]]
  /\ UNCHANGED <<backlog, closed, scheduleVars, mailbox, shardVars, limit>>

\* The answers of Sender::try_send: Ok, Closed, and otherwise Full.
Accepts(s) == alive[s] /\ Len(mailbox[s]) < Capacity
Gone(s) == ~alive[s]

\* publish_staged visits the touched writers in index order.
Touched(s) ==
  /\ phase = "publish"
  /\ staged[s] # << >>
  /\ \A r \in Shards : staged[r] # << >> => s <= r

\* schedule_update
Schedule(s) ==
  IF queued[s]
  THEN UNCHANGED <<pending, queued>>
  ELSE pending' = Append(pending, s) /\ queued' = [queued EXCEPT ![s] = TRUE]

\* flush_backlog, one send: an older update goes out before the new one.
PublishFlush(s) ==
  /\ Touched(s)
  /\ ~closed[s] /\ backlog[s] # << >> /\ Accepts(s)
  /\ mailbox' = [mailbox EXCEPT ![s] = Append(@, Head(backlog[s]))]
  /\ backlog' = [backlog EXCEPT ![s] = Tail(@)]
  /\ UNCHANGED <<generation, phase, staged, closed, scheduleVars, shardVars, published, limit>>

\* Mutant: a new update may be sent past a backlog.
PublishOvertakes(s) ==
  /\ Touched(s)
  /\ ~closed[s] /\ Accepts(s)
  /\ mailbox' = [mailbox EXCEPT ![s] = @ \o staged[s]]
  /\ staged' = [staged EXCEPT ![s] = << >>]
  /\ UNCHANGED <<generation, phase, backlog, closed, scheduleVars, shardVars, published, limit>>

PublishSend(s) ==
  /\ Touched(s)
  /\ ~closed[s] /\ backlog[s] = << >> /\ Accepts(s)
  /\ mailbox' = [mailbox EXCEPT ![s] = @ \o staged[s]]
  /\ staged' = [staged EXCEPT ![s] = << >>]
  /\ UNCHANGED <<generation, phase, backlog, closed, scheduleVars, shardVars, published, limit>>

\* Full or Closed, at the backlog or at the new update: the new one queues up.
PublishDefer(s) ==
  /\ Touched(s)
  /\ closed[s] \/ ~Accepts(s)
  /\ backlog' = [backlog EXCEPT ![s] = @ \o staged[s]]
  /\ staged' = [staged EXCEPT ![s] = << >>]
  /\ closed' = [closed EXCEPT ![s] = @ \/ Gone(s)]
  /\ Schedule(s)
  /\ UNCHANGED <<generation, phase, budget, blocked, mailbox, shardVars, published, limit>>

PublishEnd ==
  /\ phase = "publish"
  /\ \A s \in Shards : staged[s] = << >>
  /\ phase' = "idle"
  /\ UNCHANGED <<generation, writerVars, scheduleVars, mailbox, shardVars, published, limit>>

\* flush_update_backlogs, entered by every tick.
FlushBegin ==
  /\ phase = "idle" /\ pending # << >>
  /\ phase' = "flush"
  /\ budget' = FlushBudget
  /\ UNCHANGED <<generation, writerVars, pending, queued, blocked, mailbox, shardVars, published, limit>>

\* Every visit takes the writer off the schedule and spends budget.
Visit(s) ==
  /\ phase = "flush" /\ budget > 0
  /\ pending # << >> /\ s = Head(pending)
  /\ budget' = budget - 1

\* flush_one sends the oldest update; more backlog goes to the back of the line.
FlushSend(s) ==
  /\ Visit(s)
  /\ ~closed[s] /\ backlog[s] # << >> /\ Accepts(s)
  /\ mailbox' = [mailbox EXCEPT ![s] = Append(@, Head(backlog[s]))]
  /\ backlog' = [backlog EXCEPT ![s] = Tail(@)]
  /\ IF Len(backlog[s]) > 1
     THEN pending' = Append(Tail(pending), s) /\ UNCHANGED queued
     ELSE pending' = Tail(pending) /\ queued' = [queued EXCEPT ![s] = FALSE]
  /\ UNCHANGED <<generation, phase, staged, closed, blocked, shardVars, published, limit>>

\* A publish in between may have emptied the backlog already.
FlushIdle(s) ==
  /\ Visit(s)
  /\ backlog[s] = << >>
  /\ pending' = Tail(pending)
  /\ queued' = [queued EXCEPT ![s] = FALSE]
  /\ UNCHANGED <<generation, phase, writerVars, blocked, mailbox, shardVars, published, limit>>

\* Mutant: a writer whose mailbox is full falls off the schedule.
FlushForgets(s) ==
  /\ Visit(s)
  /\ backlog[s] # << >>
  /\ closed[s] \/ ~Accepts(s)
  /\ closed' = [closed EXCEPT ![s] = @ \/ Gone(s)]
  /\ pending' = Tail(pending)
  /\ queued' = [queued EXCEPT ![s] = FALSE]
  /\ UNCHANGED <<generation, phase, staged, backlog, blocked, mailbox, shardVars, published, limit>>

FlushBlocked(s) ==
  /\ Visit(s)
  /\ backlog[s] # << >>
  /\ closed[s] \/ ~Accepts(s)
  /\ closed' = [closed EXCEPT ![s] = @ \/ Gone(s)]
  /\ blocked' = Append(blocked, s)
  /\ pending' = Tail(pending)
  /\ queued' = [queued EXCEPT ![s] = FALSE]
  /\ UNCHANGED <<generation, phase, staged, backlog, mailbox, shardVars, published, limit>>

\* Blocked writers are scheduled again; none of them was rescheduled meanwhile.
FlushEnd ==
  /\ phase = "flush"
  /\ budget = 0 \/ pending = << >>
  /\ phase' = "idle"
  /\ pending' = pending \o blocked
  /\ queued' = [s \in Shards |->
       queued[s] \/ \E i \in 1 .. Len(blocked) : blocked[i] = s]
  /\ blocked' = << >>
  /\ budget' = 0
  /\ UNCHANGED <<generation, writerVars, mailbox, shardVars, published, limit>>

-----------------------------------------------------------------------------
(* A shard.                                                                *)

\* One iteration of ShardUpdateApplication::apply takes the update in progress
\* or the next one from the mailbox.
Ready(s) == alive[s] /\ (work[s] # << >> \/ mailbox[s] # << >>)

Taken(s) == IF work[s] # << >> THEN work[s] ELSE <<Head(mailbox[s])>>

Takes(s) ==
  mailbox' = [mailbox EXCEPT ![s] = IF work[s] # << >> THEN @ ELSE Tail(@)]

\* validate_for
Valid(s) == Head(Taken(s)).generation > current[s]

ChunkEnd(s) ==
  LET end == planIndex[s] + PlanBudget IN
  IF end < Head(Taken(s)).plans THEN end ELSE Head(Taken(s)).plans

\* What an iteration executes: effects and installs (rank 0) when the update is
\* begun, one chunk of plans (rank 1), and with the last chunk the retirements
\* (rank 2).  An operation is <<generation, rank, index within the rank>>.
InstallOps(s) ==
  IF begun[s] THEN << >> ELSE << <<Head(Taken(s)).generation, 0, 0>> >>

PlanOps(s) ==
  [k \in 1 .. ChunkEnd(s) - planIndex[s] |->
     <<Head(Taken(s)).generation, 1, planIndex[s] + k>>]

RetireOps(s) == << <<Head(Taken(s)).generation, 2, 0>> >>

ResetPending(s) ==
  /\ work' = [work EXCEPT ![s] = << >>]
  /\ begun' = [begun EXCEPT ![s] = FALSE]
  /\ planIndex' = [planIndex EXCEPT ![s] = 0]

controllerVars == <<generation, phase, writerVars, scheduleVars, published, limit>>

\* An update that is not newer than the last one is skipped.
Discard(s) ==
  /\ Takes(s)
  /\ ResetPending(s)
  /\ UNCHANGED <<controllerVars, alive, current, applied, executed, acked>>

\* Mutant: the next chunk applies the installs again.
ApplyChunkForgets(s) ==
  /\ Takes(s)
  /\ ChunkEnd(s) < Head(Taken(s)).plans
  /\ executed' = [executed EXCEPT ![s] = @ \o InstallOps(s) \o PlanOps(s)]
  /\ work' = [work EXCEPT ![s] = Taken(s)]
  /\ planIndex' = [planIndex EXCEPT ![s] = ChunkEnd(s)]
  /\ UNCHANGED <<controllerVars, alive, begun, current, applied, acked>>

ApplyChunk(s) ==
  /\ Takes(s)
  /\ ChunkEnd(s) < Head(Taken(s)).plans
  /\ executed' = [executed EXCEPT ![s] = @ \o InstallOps(s) \o PlanOps(s)]
  /\ work' = [work EXCEPT ![s] = Taken(s)]
  /\ begun' = [begun EXCEPT ![s] = TRUE]
  /\ planIndex' = [planIndex EXCEPT ![s] = ChunkEnd(s)]
  /\ UNCHANGED <<controllerVars, alive, current, applied, acked>>

ApplyLast(s) ==
  LET update == Head(Taken(s)) IN
  /\ Takes(s)
  /\ ChunkEnd(s) = update.plans
  /\ executed' = [executed EXCEPT ![s] =
                    @ \o InstallOps(s) \o PlanOps(s) \o RetireOps(s)]
  /\ current' = [current EXCEPT ![s] = update.generation]
  /\ applied' = [applied EXCEPT ![s] = Append(@, update)]
  /\ acked' = IF update.fence THEN acked \cup {<<s, update.generation>>} ELSE acked
  /\ ResetPending(s)
  /\ UNCHANGED <<controllerVars, alive>>

\* The worker ends and drops its receiver; whatever it held is never applied.
Stop(s) ==
  /\ alive[s]
  /\ alive' = [alive EXCEPT ![s] = FALSE]
  /\ UNCHANGED <<controllerVars, mailbox, work, begun, planIndex, current,
                 applied, executed, acked>>

-----------------------------------------------------------------------------
Publish(s) == PublishFlush(s) \/ PublishSend(s) \/ PublishDefer(s)
Flush(s) == FlushSend(s) \/ FlushIdle(s) \/ FlushBlocked(s)
Apply(s) ==
  /\ Ready(s)
  /\ IF Valid(s) THEN ApplyChunk(s) \/ ApplyLast(s) ELSE Discard(s)

Controller ==
  \/ PublishEnd \/ FlushBegin \/ FlushEnd
  \/ \E s \in Shards : Publish(s) \/ Flush(s)

Next ==
  \/ \E targets \in (SUBSET Lanes) \ {{}}, plans \in limit.plans, fence \in BOOLEAN :
       Stage(targets, plans, fence)
  \/ Controller
  \/ \E s \in Lanes : Apply(s) \/ Stop(s)

\* The controller ticks on every input and at least once per poll interval; a
\* live shard polls its mailbox whenever it is readable.
Fairness ==
  /\ WF_vars(Controller)
  /\ \A s \in Shards : WF_vars(Apply(s))

Spec == Init /\ [][Next]_vars /\ Fairness

-----------------------------------------------------------------------------

Before(a, b) ==
  \/ a[1] < b[1]
  \/ a[1] = b[1] /\ a[2] < b[2]
  \/ a[1] = b[1] /\ a[2] = b[2] /\ a[3] < b[3]

Ops(u) ==
  {<<u.generation, 0, 0>>, <<u.generation, 2, 0>>}
    \cup {<<u.generation, 1, k>> : k \in 1 .. u.plans}

BegunOps(s) ==
  IF work[s] = << >> THEN {}
  ELSE {<<Head(work[s]).generation, 0, 0>>}
         \cup {<<Head(work[s]).generation, 1, k>> : k \in 1 .. planIndex[s]}

\* However its chunks interleave with ticks, a shard executes every operation of
\* every update exactly once: generations in order, and within one installs,
\* then plans by index, then retirements.
ExecutedInOrder ==
  \A s \in Shards :
    /\ \A i, j \in 1 .. Len(executed[s]) :
         i < j => Before(executed[s][i], executed[s][j])
    /\ {executed[s][i] : i \in 1 .. Len(executed[s])} =
         (UNION {Ops(applied[s][i]) : i \in 1 .. Len(applied[s])}) \cup BegunOps(s)

\* An acknowledged cutoff covers everything published to that shard up to the
\* fence, including updates that had been waiting in the writer's backlog: all
\* their plans and retirements have been executed.
FenceCoversEarlier ==
  \A s \in Shards : \A i \in 1 .. Len(published[s]) : \A g \in 1 .. generation :
    <<s, g>> \in acked /\ published[s][i].generation <= g =>
      \A op \in Ops(published[s][i]) :
        \E k \in 1 .. Len(executed[s]) : executed[s][k] = op

\* A writer's backlog and mailbox are invisible: each shard applies the log of
\* what was published to it, one whole generation per step, acknowledges a fence in
\* that step, and gets to the end of the log unless it stops.
Log == INSTANCE UpdateLog WITH
  log <- published,
  done <- [s \in Shards |-> Len(applied[s])]

ImplementsLog == Log!LogSpec
=============================================================================
