---------------------------- MODULE NativeGrants ----------------------------
(***************************************************************************)
(* What ends a native connection, on top of the registry of                *)
(* RoomPartitions: the authorization lease of the current incarnation with *)
(* the timer that ends it, and the deletions and cutoffs that wait for the *)
(* shards (control/controller.rs).                                         *)
(*                                                                         *)
(* A lease expires by the wall clock; its timer runs on the runtime clock, *)
(* never longer than Horizon, and is set again when it strikes early.  The *)
(* endpoint learns of a new lease by a command.  A deletion or a cutoff    *)
(* puts a fence into the update lanes of the shards (UpdateLane) and hands *)
(* their acknowledgements to a task of its own, which answers, and returns *)
(* the credit it was given once no fence is left in a lane.                *)
(***************************************************************************)
EXTENDS RoomPartitions, Integers

CONSTANTS
  Horizon,          \* AUTHORIZATION_TIMER_HORIZON
  ChannelCapacity,  \* API_COMMAND_BUDGET: completions on their way
  Limits            \* connections, expiries of tokens, time, revisions and tasks of a
                    \* behaviour; PENDING_NATIVE_DELETE_BYTES in tasks (credit)

ASSUME GrantsAssumption ==
  /\ Horizon \in Nat \ {0} /\ ChannelCapacity \in Nat \ {0}
  /\ \A l \in Limits : /\ l.conns \subseteq Conns /\ l.expiries \subseteq Nat
                       /\ {l.time, l.revisions, l.tasks, l.credit} \subseteq Nat

VARIABLES
  now,          \* the runtime clock
  wall,         \* the wall clock
  offered,      \* [Conns -> lease a connection was requested with, or NoLease]
  lease,        \* registry: lease of the current connection, or NoLease
  expiries,     \* authorization_expiries
  view,         \* [Conns -> revision and expiry its endpoint holds]
  lane,         \* [Conns -> commands on their way to its endpoint]
  credit,       \* deletion_bytes
  tasks,        \* complete_native_delete: every task so far
  completions,  \* deletion_tx
  stopped,      \* shards that ended
  closed,       \* lanes whose writer found out
  limit         \* the bounds of this behaviour, a member of Limits

clocks == <<now, wall>>
leaseVars == <<offered, lease, expiries, view>>
cutoffVars == <<credit, tasks, completions, stopped, closed>>
grantVars == <<clocks, leaseVars, lane, cutoffVars, limit>>
allVars == <<vars, grantVars>>

NoLease == [revision |-> 0, expiry |-> 0]

\* from_expiry
Lease(expiry, revision) ==
  LET left == expiry - wall
  IN  [expiry |-> expiry, revision |-> revision,
       deadline |-> now + (IF left < Horizon THEN left ELSE Horizon)]

\* is_expired_at
Expired(l) == l.expiry <= wall

\* AuthorizationExpiryWork
Work(p, c, l) == [deadline |-> l.deadline, participant |-> p, connection |-> c]
Works(p, c, l) == IF l = NoLease THEN {} ELSE {Work(p, c, l)}

GrantsInit ==
  /\ Init
  /\ now = 0 /\ wall = 0
  /\ offered = [c \in Conns |-> NoLease] /\ view = [c \in Conns |-> NoLease]
  /\ lease = [p \in Participants |-> NoLease] /\ expiries = {}
  /\ lane = [c \in Conns |-> <<>>]
  /\ credit = 0 /\ tasks = <<>> /\ completions = <<>> /\ stopped = {} /\ closed = {}
  /\ limit \in Limits

\* Time passes; the wall clock may lag behind or run ahead as it does.
Tick ==
  /\ now < limit.time
  /\ now' = now + 1 /\ wall' \in {wall, wall + 1, wall + 2}
  /\ UNCHANGED <<vars, leaseVars, lane, cutoffVars, limit>>

-----------------------------------------------------------------------------
(* Connections and their leases.                                           *)

\* A connection is requested with a token, or without one where none is needed.
BeginGranted(c) ==
  /\ c \in limit.conns
  /\ Begin(c)
  /\ \E l \in IF limit.expiries = {} THEN {NoLease}
              ELSE {Lease(e, 1) : e \in {x \in limit.expiries : x > wall}} :
       /\ offered' = [offered EXCEPT ![c] = l]
       /\ view' = [view EXCEPT ![c] = [revision |-> l.revision, expiry |-> l.expiry]]
  /\ UNCHANGED <<clocks, lease, expiries, lane, cutoffVars, limit>>

\* commit_candidate, then terminate_incarnation of the previous connection.
CommitGranted(c) ==
  LET p == Owner[c] IN
  /\ offered[c] = NoLease \/ ~Expired(offered[c])
  /\ Commit(c)
  /\ lease' = [lease EXCEPT ![p] = offered[c]]
  /\ expiries' = (expiries \cup Works(p, c, offered[c])) \ Works(p, current[p], lease[p])
  /\ UNCHANGED <<clocks, offered, view, lane, cutoffVars, limit>>

CancelGranted(c) == Cancel(c) /\ UNCHANGED grantVars

\* remove_incarnation, as far as the lease goes.
Ended(p) ==
  /\ lease' = [lease EXCEPT ![p] = NoLease]
  /\ expiries' = expiries \ Works(p, current[p], lease[p])
  /\ UNCHANGED <<clocks, offered, view>>

\* ParticipantClosed, DeleteParticipant, a failed native connection, and a request to
\* replace a lease that has expired.
Depart(p) == Leave(p) /\ Ended(p) /\ UNCHANGED <<lane, cutoffVars, limit>>

\* install_authorization
Install(p, c, l) ==
  /\ expiries' = (expiries \ {Work(p, c, lease[p])}) \cup {Work(p, c, l)}
  /\ lease' = [lease EXCEPT ![p] = l]

\* replace_authorization: a request that expects the lease as it stands.  Any other is
\* refused and changes nothing, or departs.
Replace(c, expiry) ==
  LET p == Owner[c]
      next == Lease(expiry, lease[p].revision + 1)
  IN  /\ current[p] = c /\ lease[p] # NoLease /\ ~Expired(lease[p])
      /\ expiry > wall /\ next.revision <= limit.revisions
      /\ Install(p, c, next)
      /\ lane' = [lane EXCEPT ![c] = Append(@, [kind |-> "grant", revision |-> next.revision,
                                                expiry |-> expiry])]
      /\ UNCHANGED <<vars, clocks, offered, view, cutoffVars, limit>>

\* Mutant: the lease is set up anew.
RefreshedAnew(l) == Lease(l.expiry, 1)

\* refresh_at: the timer struck before the wall clock reached the expiry.
Refreshed(l) == Lease(l.expiry, l.revision)

\* remove_incarnation of several participants: each gives its place back unless it
\* holds a reservation, and saturating subtractions add up.
RemoveParticipants(R, gone) ==
  LET leaving(i) == Cardinality({p \in gone : R.placed[p] = i /\ R.claimed[p] = None})
      left(i) == IF R.partitions[i].occupants < leaving(i) THEN 0
                 ELSE R.partitions[i].occupants - leaving(i)
  IN  [R EXCEPT !.placed = [p \in Participants |-> IF p \in gone THEN None ELSE R.placed[p]],
                !.partitions = [i \in DOMAIN R.partitions |->
                                  [R.partitions[i] EXCEPT !.occupants = left(i)]]]

\* expire_authorizations: all timers that are due.
Expire ==
  LET due == {w \in expiries : w.deadline <= now}
      held == {w \in due : current[w.participant] = w.connection
                             /\ lease[w.participant] # NoLease}
      over == {w.participant : w \in {x \in held : Expired(lease[x.participant])}}
      early == {w \in held : w.participant \notin over}
  IN  /\ due # {}
      /\ expiries' = (expiries \ due)
           \cup {Work(w.participant, w.connection, Refreshed(lease[w.participant])) : w \in early}
      /\ lease' = [p \in Participants |->
                     CASE p \in over -> NoLease
                       [] \E w \in early : w.participant = p -> Refreshed(lease[p])
                       [] OTHER -> lease[p]]
      /\ current' = [p \in Participants |-> IF p \in over THEN None ELSE current[p]]
      /\ home' = [p \in Participants |-> IF p \in over THEN None ELSE home[p]]
      /\ room' = Kept(RemoveParticipants(room, over))
      /\ UNCHANGED <<phase, place, fenced, clocks, offered, view, lane, cutoffVars, limit>>

-----------------------------------------------------------------------------
(* Deletions and cutoffs.                                                  *)

Waiting(t) == t.touched \ (t.executed \cup t.lost)

Unreleased == {i \in DOMAIN tasks : tasks[i].phase \in {"waiting", "replying", "draining"}}

Admitted == credit + 1 <= limit.credit /\ closed = {}

Task(kind, c, touched) ==
  [kind |-> kind, conn |-> c, touched |-> touched, executed |-> {}, lost |-> {},
   phase |-> "waiting", reply |-> "none", answers |-> 0]

\* stage_cutoff, publish_staged and the task that waits.  A send into the lane of a
\* shard that ended finds out.
Fence(kind, c, touched) ==
  /\ tasks' = Append(tasks, Task(kind, c, touched))
  /\ credit' = credit + 1
  /\ closed' = closed \cup (touched \cap stopped)
  /\ UNCHANGED <<completions, stopped>>

\* begin_native_delete for a location handed out before.
Delete(c) ==
  LET p == Owner[c] IN
  /\ Len(tasks) < limit.tasks
  /\ phase[c] = "done" /\ offered[c] # NoLease
  /\ Admitted
  /\ IF current[p] = c THEN Leave(p) /\ Ended(p)
                       ELSE UNCHANGED <<vars, clocks, leaseVars>>
  /\ Fence("http", c, Shards)
  /\ UNCHANGED <<lane, limit>>

\* release_deletion: the result for the connection that is still current.
Told(c, i, success) ==
  IF current[Owner[c]] = c /\ offered[c] # NoLease
  THEN [lane EXCEPT ![c] = Append(@, [kind |-> "cutoff", task |-> i, success |-> success])]
  ELSE lane

\* begin_owned_cutoff: the shards a withdrawal touches, the home shard always.
CutoffFenced(c, touched) ==
  /\ Admitted
  /\ Fence("publication", c, touched)
  /\ UNCHANGED lane

\* Mutant: no answer without a task.
CutoffRefusedSilently(c) ==
  /\ ~Admitted
  /\ tasks' = Append(tasks, [Task("publication", c, {}) EXCEPT !.phase = "refused",
                                                               !.reply = "failed"])
  /\ UNCHANGED <<lane, credit, completions, stopped, closed>>

\* Without credit, or with a shard gone, the answer is immediate.
CutoffRefused(c) ==
  /\ ~Admitted
  /\ tasks' = Append(tasks, [Task("publication", c, {}) EXCEPT !.phase = "refused",
                                                               !.reply = "failed"])
  /\ lane' = Told(c, Len(tasks) + 1, FALSE)
  /\ UNCHANGED <<credit, completions, stopped, closed>>

Cutoff(c) ==
  LET p == Owner[c] IN
  /\ Len(tasks) < limit.tasks
  /\ current[p] = c /\ offered[c] # NoLease
  /\ \/ \E others \in SUBSET Shards : CutoffFenced(c, others \cup {home[p]})
     \/ CutoffRefused(c)
  /\ UNCHANGED <<vars, clocks, leaseVars, limit>>

\* The shard executes the fence (UpdateLane).
Ack(i, s) ==
  /\ s \in Waiting(tasks[i]) \ stopped
  /\ tasks' = [tasks EXCEPT ![i].executed = @ \cup {s}]
  /\ UNCHANGED <<vars, clocks, leaseVars, lane, credit, completions, stopped, closed, limit>>

\* A shard ends.  A fence it was about to acknowledge is dropped; one that waits in
\* the mailbox or in the writer's backlog stays there.
Stop(s) ==
  /\ s \notin stopped /\ limit.tasks > 0
  /\ stopped' = stopped \cup {s}
  /\ \E dropped \in SUBSET {i \in Unreleased : s \in Waiting(tasks[i])} :
       tasks' = [i \in DOMAIN tasks |->
                   IF i \in dropped THEN [tasks[i] EXCEPT !.lost = @ \cup {s}] ELSE tasks[i]]
  /\ UNCHANGED <<vars, clocks, leaseVars, lane, credit, completions, closed, limit>>

\* Any other update for the shard finds the lane closed.
Discover(s) ==
  /\ s \in stopped \ closed
  /\ closed' = closed \cup {s}
  /\ UNCHANGED <<vars, clocks, leaseVars, lane, credit, tasks, completions, stopped, limit>>

Completion(bytes, i, success) == [bytes |-> bytes, task |-> i, success |-> success]

HasRoom == Len(completions) < ChannelCapacity

\* complete_native_delete has its outcome; an HTTP request is told at once.
Decide(i, success) ==
  /\ tasks[i].phase = "waiting"
  /\ tasks' = [tasks EXCEPT ![i].phase = IF tasks[i].kind = "http" THEN "draining" ELSE "replying",
                            ![i].reply = IF success THEN "ok" ELSE "failed"]
  /\ UNCHANGED <<vars, clocks, leaseVars, lane, credit, completions, stopped, closed, limit>>

\* Mutant: the last acknowledgement decides.
DrainedAny(i) == Waiting(tasks[i]) = {} /\ Decide(i, TRUE)

\* drain_cutoffs came to its end in time.
Drained(i) == Waiting(tasks[i]) = {} /\ Decide(i, tasks[i].lost = {})

\* NATIVE_DELETE_TIMEOUT
TimedOut(i) == Waiting(tasks[i]) # {} /\ Decide(i, FALSE)

\* The outcome of a cutoff goes through the controller.
Reply(i) ==
  /\ tasks[i].phase = "replying" /\ HasRoom
  /\ tasks' = [tasks EXCEPT ![i].phase = "draining"]
  /\ completions' = Append(completions, Completion(0, i, tasks[i].reply = "ok"))
  /\ UNCHANGED <<vars, clocks, leaseVars, lane, credit, stopped, closed, limit>>

\* Mutant: the credit returns with the answer.
ReturnCreditEarly(i) ==
  /\ tasks[i].phase = "draining" /\ HasRoom
  /\ tasks' = [tasks EXCEPT ![i].phase = "returned"]
  /\ completions' = Append(completions, Completion(1, i, FALSE))
  /\ UNCHANGED <<vars, clocks, leaseVars, lane, credit, stopped, closed, limit>>

\* The credit returns when no lane holds a fence of the task.
ReturnCredit(i) ==
  /\ tasks[i].phase = "draining" /\ Waiting(tasks[i]) = {} /\ HasRoom
  /\ tasks' = [tasks EXCEPT ![i].phase = "returned"]
  /\ completions' = Append(completions, Completion(1, i, FALSE))
  /\ UNCHANGED <<vars, clocks, leaseVars, lane, credit, stopped, closed, limit>>

\* release_deletion
ReleaseDeletion ==
  LET done == Head(completions) IN
  /\ completions # <<>>
  /\ completions' = Tail(completions)
  /\ credit' = credit - done.bytes
  /\ lane' = IF done.bytes = 0 THEN Told(tasks[done.task].conn, done.task, done.success)
                               ELSE lane
  /\ UNCHANGED <<vars, clocks, leaseVars, tasks, stopped, closed, limit>>

\* The endpoint takes a command: PublicationCutoff, or Authorization, of which only
\* a later revision counts.
Deliver(c) ==
  LET command == Head(lane[c]) IN
  /\ lane[c] # <<>>
  /\ current[Owner[c]] = c => home[Owner[c]] \notin stopped
  /\ lane' = [lane EXCEPT ![c] = Tail(@)]
  /\ IF command.kind = "cutoff"
     THEN tasks' = [tasks EXCEPT ![command.task].answers = @ + 1] /\ UNCHANGED view
     ELSE /\ view' = IF command.revision > view[c].revision
                     THEN [view EXCEPT ![c] = [revision |-> command.revision,
                                               expiry |-> command.expiry]]
                     ELSE view
          /\ UNCHANGED tasks
  /\ UNCHANGED <<vars, clocks, offered, lease, expiries, credit, completions, stopped,
                 closed, limit>>

-----------------------------------------------------------------------------
TaskStep ==
  \E i \in DOMAIN tasks :
    (\E s \in Shards : Ack(i, s)) \/ Drained(i) \/ TimedOut(i) \/ Reply(i)
      \/ ReturnCredit(i)

GrantsNext ==
  \/ Tick \/ Expire \/ ReleaseDeletion \/ TaskStep
  \/ \E c \in Conns : BeginGranted(c) \/ CommitGranted(c) \/ CancelGranted(c)
                        \/ Delete(c) \/ Cutoff(c) \/ Deliver(c)
                        \/ \E e \in limit.expiries : Replace(c, e)
  \/ \E p \in Participants : Depart(p)
  \/ \E s \in Shards : Stop(s) \/ Discover(s)

\* A live shard polls its lane and its commands, a task runs when an acknowledgement
\* or its timer wakes it, and the controller ticks on every completion.
GrantsFairness ==
  /\ WF_allVars(TaskStep)
  /\ WF_allVars(ReleaseDeletion)
  /\ \A c \in Conns : WF_allVars(Deliver(c))

GrantsSpec == GrantsInit /\ [][GrantsNext]_allVars /\ GrantsFairness

-----------------------------------------------------------------------------
(* Properties.                                                             *)

\* The three copies of a lease agree.  authorization_expiries holds exactly one timer
\* for every current connection with a lease, at its deadline: replacing, refreshing,
\* taking over and ending leave neither a stray timer nor a lease without one.  The
\* endpoint holds the lease of the registry once no command is on its way, and never
\* a later one: it ignores a revision that is not higher, so a timer that is set
\* again must not touch the revision.
LeasesAgree ==
  LET Here == {p \in Participants : current[p] # None} IN
  /\ expiries = UNION {Works(p, current[p], lease[p]) : p \in Here}
  /\ \A p \in Here :
       LET known == view[current[p]]
           coming == lane[current[p]]
       IN  /\ known.revision <= lease[p].revision
           /\ (\A i \in DOMAIN coming : coming[i].kind = "cutoff") =>
                known.revision = lease[p].revision /\ known.expiry = lease[p].expiry

\* A task holds one unit of credit while a lane still holds one of its fences, also
\* after its caller was told that the time is up, and until its completion is taken.
CreditExact ==
  credit = Cardinality({i \in DOMAIN tasks : i \in Unreleased \/ Waiting(tasks[i]) # {}})
             + Cardinality({k \in DOMAIN completions : completions[k].bytes > 0})

\* A deletion or cutoff reported as done was executed by every shard it touched, and
\* a connection so deleted is not current again.
WithdrawnEverywhere ==
  \A i \in DOMAIN tasks :
    tasks[i].reply = "ok" =>
      /\ tasks[i].executed = tasks[i].touched
      /\ tasks[i].kind = "http" => current[Owner[tasks[i].conn]] # tasks[i].conn

\* Every cutoff of a connection that stays is answered, once, with or without
\* credit, in time or not; and all credit returns unless a shard ends.
ReceiptsSettle ==
  <>[](/\ \A i \in DOMAIN tasks :
            LET c == tasks[i].conn IN
            tasks[i].kind = "publication" /\ current[Owner[c]] = c
              /\ home[Owner[c]] \notin stopped => tasks[i].answers = 1
       /\ stopped = {} => credit = 0)
=============================================================================
