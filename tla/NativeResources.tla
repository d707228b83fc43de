--------------------------- MODULE NativeResources ---------------------------
(***************************************************************************)
(* The life of one native publication, end to end: what the client's agent *)
(* wants (agent-core native_state.rs), what the controller's session makes *)
(* of it (control/native/session.rs), what the endpoint on the shard does  *)
(* (participant/core/native_data.rs, native_rtp.rs) and what comes back.   *)
(*                                                                         *)
(* The client names each attempt at the publication by a reference, the    *)
(* revision it was first proposed at.  The session keeps a row for the     *)
(* reference, prepares the execution of its target and retires it.  The    *)
(* endpoint installs a data channel, publishes, and withdraws; it reports  *)
(* facts.  All lanes are first-in first-out; that none of their wake-ups   *)
(* is lost is NativeSignaling's matter.                                    *)
(*                                                                         *)
(* A spec has a channel, its immutable declaration, and a setting,         *)
(* enabled.  The label is one and the same: one Resource of the client.    *)
(***************************************************************************)
EXTENDS NativeRows

CONSTANTS
    Specs,        \* what the application may want
    Limits,       \* bounds: changes of its mind (stages), grant revisions (grants)
    MaxRevision   \* bound on the client's revisions

ASSUME ResourcesAssumption ==
    /\ \A l \in Limits : l.stages \in Nat /\ l.grants \in Nat
    /\ \A spec \in Specs : spec.enabled \in BOOLEAN
    /\ DOMAIN Size = (1 .. MaxRevision) \cup {SessionKey}

VARIABLES
    client,    \* NativeState: target, owned rows, what is to be sent
    stages,    \* changes of mind so far
    toServer,  \* client frames on their way to `receive_input`
    toClient,  \* admitted batches on their way to `apply`
    session,   \* NativeSession
    cpc,       \* "facts" between the two halves of `service`
    commands,  \* execution commands on their way to the endpoint
    facts,     \* facts on their way to the controller
    output,    \* the batch on its way to the transport
    progress,  \* the sequence of the batch it admitted
    endpoint,  \* NativeExecution and NativeData
    closed,    \* why the connection ended, "no" while it is up
    limit      \* the bounds of this behaviour, a member of Limits

vars == <<client, stages, toServer, toClient, session, cpc, commands, facts,
          output, progress, endpoint, closed, limit>>

NoSpec == [channel |-> "none", enabled |-> FALSE]
NoTarget == [wanted |-> FALSE]
NoValue == [state |-> "unknown", evaluated |-> 0]

\* Confirmed values of an owned key.
Confirmed(revision, spec) ==
    [state |-> "live", evaluated |-> revision, rejected |-> FALSE, spec |-> spec]
Gone(revision, reason, rejected) ==
    [state |-> "absent", evaluated |-> revision, rejected |-> rejected, reason |-> reason]

Empty == [r \in {} |-> 0]
Without(f, r) == [j \in DOMAIN f \ {r} |-> f[j]]
With(f, r, value) == [j \in DOMAIN f \cup {r} |-> IF j = r THEN value ELSE f[j]]

Init ==
    /\ client = [revision |-> 0, target |-> NoTarget, dirty |-> FALSE, owned |-> Empty,
                 retiring |-> {}, retiringResource |-> 0, preferRetirement |-> TRUE]
    /\ stages = 0 /\ toServer = <<>> /\ toClient = <<>>
    /\ session =
         [rows |-> With(Empty, SessionKey,
                        [value |-> Live(1), owned |-> NoOwned, ordinal |-> 1, version |-> 1,
                         dirty |-> FALSE, ticket |-> 0, unavailable |-> FALSE,
                         represented |-> TRUE]),
          version |-> 1, ordinal |-> 1, opened |-> TRUE, initialEnd |-> 1,
          initialCursor |-> 1, initialComplete |-> TRUE, grant |-> 1, unavailable |-> 0,
          outputSequence |-> 0, pending |-> NoPending, retained |-> 3,
          lastRevision |-> 0, publication |-> 0, preparations |-> <<>>,
          executionSequence |-> 0, issued |-> <<>>, error |-> "no"]
    /\ cpc = "idle" /\ commands = <<>> /\ facts = <<>>
    /\ output = NoPending /\ progress = 0
    /\ endpoint = [sequence |-> 0, preparing |-> Empty, fenced |-> {},
                   publications |-> Empty, authorization |-> 1, behind |-> FALSE,
                   reports |-> <<>>]
    /\ closed = "no" /\ limit \in Limits

Up == closed = "no"

-----------------------------------------------------------------------------
(* The client *)

SameDeclaration(a, b) == a.channel = b.channel

\* `awaiting_evaluation`
Awaiting(owned) == owned.confirmed.evaluated < owned.sentRevision

\* `stage`: the application wants `spec`, or nothing.
Staged(c, spec) ==
    LET had == c.target.wanted
        wants == spec # NoSpec
        previous == IF had THEN c.target.reference ELSE 0
        replace == had /\ (~wants \/ ~SameDeclaration(c.target.spec, spec))
        waiting == IF replace /\ previous # 0 THEN previous ELSE c.retiringResource
        reference == IF replace THEN 0 ELSE previous
        sent == reference # 0 /\ c.owned[reference].sent = spec
        blocked == /\ sent
                   /\ c.owned[reference].confirmed.evaluated = c.owned[reference].sentRevision
                   /\ c.owned[reference].confirmed.rejected
        retire == replace /\ previous # 0
    IN  IF had /\ c.target.spec = spec THEN c
        ELSE [c EXCEPT
               !.target = IF wants THEN [wanted |-> TRUE, spec |-> spec,
                                         reference |-> reference, waitingFor |-> waiting, blocked |-> blocked]
                          ELSE NoTarget,
               !.dirty = wants /\ waiting = 0 /\ ~sent,
               !.owned = IF retire THEN [@ EXCEPT ![previous].retiring = TRUE] ELSE @,
               !.retiring = IF retire THEN @ \cup {previous} ELSE @,
               !.retiringResource = IF retire THEN previous ELSE @]

Stage(spec) ==
    /\ Up /\ stages < limit.stages
    /\ Staged(client, spec) # client
    /\ client' = Staged(client, spec)
    /\ stages' = stages + 1
    /\ UNCHANGED <<toServer, toClient, session, cpc, commands, facts, output, progress,
                   endpoint, closed, limit>>

\* `retry`: a rejected or ended target is tried again, any other is sent again.
Retry ==
    /\ Up /\ stages < limit.stages
    /\ client.target.wanted
    /\ client' = [client EXCEPT !.target.blocked = FALSE,
                                !.dirty = @ \/ client.target.waitingFor = 0]
    /\ stages' = stages + 1
    /\ UNCHANGED <<toServer, toClient, session, cpc, commands, facts, output, progress,
                   endpoint, closed, limit>>

\* The pieces of `next_frame`: one retirement ...
SendsRetirement(c) == c.retiring # {} /\ (c.preferRetirement \/ ~c.dirty)
RetirementSent(c, r) ==
    [c EXCEPT !.revision = @ + 1, !.retiring = @ \ {r}, !.preferRetirement = FALSE,
              !.owned[r] = [@ EXCEPT !.sentRevision = c.revision + 1, !.retiring = TRUE]]

\* ... or the target, unless it is blocked or its last proposal is not evaluated yet.
SendsTarget(c) == c.dirty /\ ~SendsRetirement(c)
\* Mutant: a proposal is sent although the last one is not evaluated.
WithheldIfBlocked(c) == c.target.blocked

Withheld(c) ==
    \/ c.target.blocked
    \/ c.target.reference # 0 /\ Awaiting(c.owned[c.target.reference])
TargetSent(c) ==
    LET r == IF c.target.reference # 0 THEN c.target.reference ELSE c.revision + 1
        confirmed == IF r \in DOMAIN c.owned THEN c.owned[r].confirmed ELSE NoValue
    IN  [c EXCEPT !.revision = @ + 1, !.dirty = FALSE, !.preferRetirement = TRUE,
                  !.target.reference = r,
                  !.owned = With(@, r, [sentRevision |-> c.revision + 1, sent |-> c.target.spec,
                                        confirmed |-> confirmed, retiring |-> FALSE])]

\* One record of the frame after another; at most one retirement and one target.
Framed(f) ==
    LET c == f.client
        r == CHOOSE r \in c.retiring : \A q \in c.retiring : r <= q
    IN  CASE SendsRetirement(c) ->
                [client |-> RetirementSent(c, r),
                 records |-> Append(f.records,
                    [reference |-> r, revision |-> c.revision + 1, spec |-> NoSpec])]
          [] SendsTarget(c) /\ Withheld(c) ->
                [f EXCEPT !.client.dirty = FALSE]
          [] SendsTarget(c) /\ ~Withheld(c) ->
                [client |-> TargetSent(c),
                 records |-> Append(f.records,
                    [reference |-> TargetSent(c).target.reference,
                     revision |-> c.revision + 1, spec |-> c.target.spec])]
          [] OTHER -> f

Unsent == client.dirty \/ client.retiring # {}

\* `next_frame`: with one resource a frame has at most three rounds.
FrameOf(c) == Framed(Framed(Framed([client |-> c, records |-> <<>>])))
NextFrame ==
    LET f == FrameOf(client)
    IN  /\ Up /\ Unsent
        /\ f.client.revision <= MaxRevision
        /\ client' = f.client
        /\ toServer' = IF f.records = <<>> THEN toServer ELSE Append(toServer, f.records)
        /\ UNCHANGED <<stages, toClient, session, cpc, commands, facts, output, progress,
                       endpoint, closed, limit>>

\* What `apply_owned` refuses.
Refused(c, r, value) ==
    IF r \in DOMAIN c.owned
    THEN \/ value.evaluated > c.owned[r].sentRevision
         \/ value.evaluated < c.owned[r].confirmed.evaluated
         \/ ~IsAbsent(value) /\ ~SameDeclaration(value.spec, c.owned[r].sent)
    ELSE ~(r <= c.revision /\ IsAbsent(value))

\* A terminal value: the reference is gone for good.
AppliedAbsence(c, r) ==
    LET mine == c.target.wanted /\ c.target.reference = r
        waited == c.target.wanted /\ c.target.waitingFor = r
    IN  [c EXCEPT
          !.target = CASE waited -> [@ EXCEPT !.waitingFor = 0]
                       [] mine /\ ~waited -> [@ EXCEPT !.reference = 0, !.blocked = TRUE]
                       [] OTHER -> @,
          !.dirty = IF waited THEN TRUE ELSE @ /\ ~mine,
          !.owned = Without(@, r),
          !.retiring = @ \ {r},
          !.retiringResource = IF @ = r THEN 0 ELSE @]

\* Mutant: a target staged during the evaluation is not taken up after it.
AppliedLiveOnly(c, r, value) ==
    [c EXCEPT !.owned[r].confirmed = value]

AppliedLive(c, r, value) ==
    LET owned == [c.owned[r] EXCEPT !.confirmed = value]
        mine == c.target.wanted /\ c.target.reference = r
        stops == /\ mine /\ value.rejected /\ value.evaluated = owned.sentRevision
                 /\ owned.sent = c.target.spec
        resend == /\ mine /\ ~owned.retiring /\ ~Awaiting(owned)
                  /\ c.target.waitingFor = 0 /\ ~(c.target.blocked \/ stops)
                  /\ owned.sent # c.target.spec
    IN  [c EXCEPT !.owned[r] = owned,
                  !.target = IF stops THEN [@ EXCEPT !.blocked = TRUE] ELSE @,
                  !.dirty = (@ /\ ~stops) \/ resend]

AppliedOwned(c, r, value) ==
    CASE r \notin DOMAIN c.owned -> c
      [] r \in DOMAIN c.owned /\ c.owned[r].confirmed = value -> c
      [] OTHER -> IF IsAbsent(value) THEN AppliedAbsence(c, r) ELSE AppliedLive(c, r, value)

\* `apply`: the records of a batch, in the order of their keys.
Apply ==
    /\ Up /\ toClient # <<>>
    /\ LET batch == Head(toClient)
           refs == SetToSortSeq(DOMAIN batch \ {SessionKey}, <)
       IN  IF \E r \in DOMAIN batch \ {SessionKey} : Refused(client, r, batch[r])
           THEN closed' = "client" /\ UNCHANGED client
           ELSE /\ client' = FoldLeft(LAMBDA c, r : AppliedOwned(c, r, batch[r]), client, refs)
                /\ UNCHANGED closed
    /\ toClient' = Tail(toClient)
    /\ UNCHANGED <<stages, toServer, session, cpc, commands, facts, output, progress,
                   endpoint, limit>>
-----------------------------------------------------------------------------
(* The session *)

HasOwned(s, r) == r \in DOMAIN s.rows /\ s.rows[r].owned.present
Failed(s, error) == [s EXCEPT !.error = IF @ = "no" THEN error ELSE @]

\* The target a row is charged for; NativeRows!ValueCost reads its state.
Target(revision, spec) ==
    [state |-> IF spec = NoSpec THEN "absent" ELSE "live", revision |-> revision, spec |-> spec]

SetTarget(s, r, target) ==
    [s EXCEPT !.rows[r].owned.target = target,
              !.retained = @ + ValueCost(target) - ValueCost(s.rows[r].owned.target)]

ReleaseLabel(s, r) ==
    IF HasOwned(s, r) /\ s.rows[r].owned.retired /\ s.publication = r
    THEN [s EXCEPT !.publication = 0] ELSE s

\* `reserve_execution`: the endpoint's storage for the resource, 1 or 0.
Reserve(s, r, bytes) ==
    IF ~HasOwned(s, r) THEN Failed(s, "invalid")
    ELSE Collect([s EXCEPT !.rows[r].owned.executionBytes = bytes,
                           !.rows[r].owned.storage = IF bytes = 0 THEN 0 ELSE @,
                           !.retained = @ + bytes - s.rows[r].owned.executionBytes], r)

\* `retirement_command`
IssueRetire(s, r) ==
    [s EXCEPT !.executionSequence = @ + 1,
              !.issued = Append(@, [kind |-> "retire", reference |-> r,
                                    sequence |-> s.executionSequence + 1])]

QueuePreparation(s, r) ==
    IF /\ HasOwned(s, r)
       /\ LET row == s.rows[r]
          IN  /\ ~row.owned.retired /\ row.owned.active = 0
              /\ ~Contains(s.preparations, r)
              /\ row.value.evaluated < row.owned.target.revision
    THEN [s EXCEPT !.preparations = Append(@, r)]
    ELSE s

\* The value that tells of a rejection: a live resource stays as it was.
RejectedValue(row, revision) ==
    IF IsAbsent(row.value) THEN Gone(revision, "createRejected", TRUE)
    ELSE [row.value EXCEPT !.evaluated = revision, !.rejected = TRUE]

\* `reject`
Reject(s, r, target) ==
    LET t == SetTarget(s, r, target)
        u == [t EXCEPT !.rows[r].owned.retired = @ \/ IsAbsent(s.rows[r].value)]
    IN  IF HasOwned(s, r)
        THEN ReleaseLabel(Put(u, r, RejectedValue(s.rows[r], target.revision)), r)
        ELSE Put(s, r, Gone(target.revision, "createRejected", TRUE))

\* `apply_input` on an absence.
Withdrawn(s, r, target) ==
    LET t == SetTarget(s, r, target)
    IN  IF HasOwned(s, r)
        THEN IssueRetire([t EXCEPT !.rows[r].owned.retired = TRUE,
                                   !.rows[r].owned.cutoffPending = TRUE,
                                   !.rows[r].owned.reason = "removed"], r)
        ELSE Put(s, r, Gone(target.revision, "gone", FALSE))

\* A pending creation: the row owns its declaration and has nothing to tell yet.
Created(s, r, target) ==
    LET put == Put(s, r, Gone(0, "gone", FALSE))
        owned == [present |-> TRUE, declaration |-> target.spec, target |-> target,
                  active |-> 0, retired |-> FALSE,
                  cutoffPending |-> FALSE, reason |-> "removed", executionBytes |-> 0,
                  storage |-> 0]
    IN  [put EXCEPT !.rows[r].owned = owned, !.rows[r].dirty = FALSE,
                    !.publication = r, !.retained = @ + OwnedCost(owned)]

\* `apply_input` on a proposal.
Proposed(s, r, target) ==
    LET alive == HasOwned(s, r) /\ ~s.rows[r].owned.retired
    IN  CASE alive /\ s.rows[r].value.evaluated < s.rows[r].owned.target.revision ->
                Failed(s, "protocol")
          [] ~alive /\ r < target.revision ->
                Put(s, r, Gone(target.revision, "gone", TRUE))
          [] \/ alive /\ ~SameDeclaration(s.rows[r].owned.declaration, target.spec)
             \/ s.publication \notin {0, r} ->
                Reject(s, r, target)
          [] OTHER ->
                QueuePreparation(IF alive THEN SetTarget(s, r, target)
                                 ELSE Created(s, r, target), r)

\* `apply_input` and `receive_input`
ReceiveRecord(s, record) ==
    LET target == Target(record.revision, record.spec)
        t == [s EXCEPT !.lastRevision = record.revision]
    IN  CASE s.error # "no" -> s
          [] s.error = "no" /\ record.revision <= s.lastRevision -> Failed(s, "protocol")
          [] OTHER -> IF record.spec = NoSpec THEN Withdrawn(t, record.reference, target)
                      ELSE Proposed(t, record.reference, target)

\* The attempt is the one under way for its reference.
IsActive(s, work) ==
    HasOwned(s, work.reference) /\ s.rows[work.reference].owned.active = work.sequence

\* Mutant: the attempt is not queued again.
DeferForgotten(s, work) ==
    IF ~IsActive(s, work) THEN s
    ELSE Collect([s EXCEPT !.rows[work.reference].owned.active = 0, !.retained = @ - 1],
                 work.reference)

\* `defer_preparation`: the attempt came to nothing; try again if still wanted.
DeferPreparation(s, work) ==
    IF ~IsActive(s, work) THEN s
    ELSE Collect(QueuePreparation([s EXCEPT !.rows[work.reference].owned.active = 0,
                                            !.retained = @ - 1],
                                  work.reference), work.reference)

\* `release_preparation_storage`: disposal belongs to the attempt that was paid for.
ReleaseStorage(s, work) ==
    IF /\ HasOwned(s, work.reference)
       /\ work.sequence \in {s.rows[work.reference].owned.active,
                             s.rows[work.reference].owned.storage}
    THEN Reserve(s, work.reference, 0) ELSE s

\* `observe_deferral`
ObserveDeferral(s, fact) ==
    LET r == fact.work.reference
        moves == IsActive(s, fact.work) /\ s.rows[r].owned.executionBytes # 0
    IN  DeferPreparation(
            CASE fact.retained = 0 -> ReleaseStorage(s, fact.work)
              [] fact.retained # 0 /\ moves ->
                    [s EXCEPT !.rows[r].owned.storage = fact.retained]
              [] OTHER -> s,
            fact.work)

\* `preparation_current`: neither the target nor the grant has moved on.
PreparationCurrent(s, work) ==
    LET owned == s.rows[work.reference].owned
    IN  /\ ~owned.retired /\ owned.active = work.sequence
        /\ owned.target.revision = work.revision /\ s.grant = work.grant

\* `complete`
Complete(s, work, ok) ==
    LET r == work.reference
        row == s.rows[r]
        done == [s EXCEPT !.rows[r].owned.active = 0, !.retained = @ - 1,
                          !.rows[r].owned.retired = @ \/ (~ok /\ IsAbsent(row.value))]
        value == IF ok THEN Confirmed(work.revision, row.owned.target.spec)
                 ELSE RejectedValue(row, work.revision)
    IN  CASE ~IsActive(s, work) -> s
          [] IsActive(s, work) /\ ~PreparationCurrent(s, work) -> DeferPreparation(s, work)
          [] OTHER -> ReleaseLabel(Put(done, r, value), r)

\* `observe_completion`
ObserveCompletion(s, fact) ==
    Complete(IF fact.released THEN ReleaseStorage(s, fact.work) ELSE s, fact.work, fact.ok)

\* `source_ended`, and the retirement it calls for.
SourceEnded(s, r) ==
    IF ~HasOwned(s, r) THEN Failed(s, "invalid")
    ELSE IssueRetire(
            IF s.rows[r].owned.retired THEN s
            ELSE [s EXCEPT !.rows[r].owned.retired = TRUE,
                           !.rows[r].owned.cutoffPending = TRUE,
                           !.rows[r].owned.reason = "sourceEnded"], r)

\* `cutoff_complete`: the absence the client is told of.
CutoffComplete(s, r) ==
    LET row == s.rows[r]
        value == CASE row.owned.reason # "removed" ->
                        Gone(row.value.evaluated, row.owned.reason, row.value.rejected)
                   [] row.owned.reason = "removed"
                        /\ row.value.evaluated > row.owned.target.revision -> row.value
                   [] OTHER -> Gone(row.owned.target.revision, "removed", FALSE)
    IN  CASE ~HasOwned(s, r) -> s
          [] HasOwned(s, r) /\ ~row.owned.retired -> Failed(s, "invalid")
          [] OTHER -> ReleaseLabel(
                        Put([s EXCEPT !.rows[r].owned.cutoffPending = FALSE], r, value), r)

\* `observe_resource`
ObserveResource(s, fact) ==
    LET r == fact.reference
        released == Reserve(s, r, 0)
    IN  CASE fact.kind = "ended" -> SourceEnded(s, r)
          [] fact.kind = "released" ->
                IF released.error # "no" THEN released ELSE CutoffComplete(released, r)
          [] fact.kind = "storage" ->
                IF HasOwned(s, r) /\ s.rows[r].owned.storage = fact.sequence
                THEN released ELSE s

\* The fact loop of `service`.
Observe(s, fact) ==
    CASE s.error # "no" -> s
      [] s.error = "no" /\ fact.kind = "completion" -> ObserveCompletion(s, fact)
      [] s.error = "no" /\ fact.kind = "deferral" -> ObserveDeferral(s, fact)
      [] OTHER -> ObserveResource(s, fact)

\* `take_preparation` and `prepare_execution` on the first queued reference.
Prepare(s) ==
    LET r == Head(s.preparations)
        t == [s EXCEPT !.preparations = Tail(@)]
        row == t.rows[r]
        n == t.executionSequence + 1
        work == [reference |-> r, revision |-> row.owned.target.revision,
                 grant |-> t.grant, sequence |-> n]
        taken == [t EXCEPT !.rows[r].owned.active = n, !.executionSequence = n,
                           !.retained = @ + 1]
        reserved == IF row.owned.executionBytes # 0 THEN taken ELSE Reserve(taken, r, 1)
    IN  IF \/ ~HasOwned(t, r)
           \/ row.owned.retired \/ row.owned.active # 0
           \/ row.value.evaluated >= row.owned.target.revision
        THEN t
        ELSE [reserved EXCEPT !.rows[r].owned.storage = n,
                              !.issued = Append(@, [kind |-> "prepare", work |-> work,
                                                    sequence |-> n,
                                                    spec |-> row.owned.target.spec])]

\* The preparation loop of `service`, which a queue of Len references ends.
Prepared(s) == FoldLeft(LAMBDA t, r : IF t.preparations = <<>> THEN t ELSE Prepare(t),
                        s, s.preparations)

\* `service` looks at the transport's progress first ...
HasWork ==
    \/ progress # 0 \/ facts # <<>> \/ toServer # <<>>
    \/ session.preparations # <<>>
    \/ ~session.pending.present /\ Poll(session).pending.present
    \/ session.pending.present /\ session.pending.held /\ ~output.present

ServiceProgress ==
    /\ Up /\ cpc = "idle" /\ HasWork
    /\ session' = IF progress = 0 THEN session ELSE CommitSent(session, progress)
    /\ progress' = 0
    /\ cpc' = "facts"
    /\ UNCHANGED <<client, stages, toServer, toClient, commands, facts, output, endpoint,
                   closed, limit>>

\* ... then at the facts, one input frame, the preparations, and the output.
ServiceFacts ==
    LET observed == FoldLeft(Observe, session, facts)
        input == IF toServer = <<>> \/ observed.error # "no" THEN observed
                 ELSE FoldLeft(ReceiveRecord, observed, Head(toServer))
        polled == Poll(Prepared(input))
        pushes == polled.pending.present /\ polled.pending.held /\ ~output.present
    IN  /\ Up /\ cpc = "facts"
        /\ cpc' = "idle"
        /\ IF input.error # "no"
           THEN /\ closed' = input.error
                /\ UNCHANGED <<session, facts, toServer, commands, output>>
           ELSE /\ facts' = <<>>
                /\ toServer' = IF toServer = <<>> THEN <<>> ELSE Tail(toServer)
                /\ session' = [IF pushes THEN [polled EXCEPT !.pending.held = FALSE]
                               ELSE polled EXCEPT !.issued = <<>>]
                /\ commands' = commands \o polled.issued
                /\ output' = IF pushes THEN polled.pending ELSE output
                /\ UNCHANGED closed
        /\ UNCHANGED <<client, stages, toClient, progress, endpoint, limit>>

\* A renewed authorization reaches the session first, the endpoint later.
Renew ==
    /\ Up /\ cpc = "idle" /\ session.grant < limit.grants
    /\ session' = Authorization(session, session.grant + 1)
    /\ UNCHANGED <<client, stages, toServer, toClient, cpc, commands, facts, output, progress,
                   endpoint, closed, limit>>
-----------------------------------------------------------------------------
(* The endpoint *)

Report(e, fact) == [e EXCEPT !.reports = Append(@, fact)]
Reports(e) == /\ endpoint' = [e EXCEPT !.reports = <<>>]
              /\ facts' = facts \o e.reports

Has(e, r) == r \in DOMAIN e.publications
Dropped(e, r) == [e EXCEPT !.publications = Without(@, r)]

\* `contains` and `finish` of the attempt under way.
Preparing(e, work) ==
    work.reference \in DOMAIN e.preparing /\ e.preparing[work.reference] = work.sequence
Finish(e, work) ==
    IF Preparing(e, work) THEN [e EXCEPT !.preparing = Without(@, work.reference)] ELSE e

\* `native_execution_current`
ExecutionCurrent(e, work) == Preparing(e, work) /\ work.grant = e.authorization

\* Mutant: a deferred attempt reports its storage as free.
DeferReleasing(e, work) ==
    Report(Finish(e, work), [kind |-> "deferral", work |-> work, retained |-> 0])

\* `defer_native_preparation`: tells whose storage is still in use, if any is.
Defer(e, work) ==
    Report(Finish(e, work),
           [kind |-> "deferral", work |-> work,
            retained |-> IF Has(e, work.reference)
                         THEN e.publications[work.reference].storage ELSE 0])

\* `complete_native_preparation`
Completed(e, work, ok) ==
    IF ~ExecutionCurrent(e, work) THEN Defer(e, work)
    ELSE Report(Finish(e, work),
                [kind |-> "completion", work |-> work, ok |-> ok,
                 released |-> ~ok /\ ~Has(e, work.reference)])

\* `commit_native_data`
Commit(e, work, enabled) ==
    IF ~ExecutionCurrent(e, work) THEN Defer(e, work)
    ELSE Completed([e EXCEPT !.publications[work.reference].enabled = enabled,
                             !.publications[work.reference].published = TRUE], work, TRUE)

\* Another resource has the channel; a publication being withdrawn has given it up.
ChannelTaken(e, channel) ==
    \E r \in DOMAIN e.publications :
        e.publications[r].channel = channel /\ ~e.publications[r].retiring

\* `execute_native_resource`; `opens` is the transport's answer.
Execute(e, work, spec, opens) ==
    LET r == work.reference
        pub == e.publications[r]
    IN  CASE Has(e, r) ->
                IF pub.channel = spec.channel /\ pub.opened THEN Commit(e, work, spec.enabled)
                ELSE Completed(e, work, FALSE)
          [] ~Has(e, r) /\ (ChannelTaken(e, spec.channel) \/ ~opens) ->
                Completed(e, work, FALSE)
          [] OTHER ->
                [e EXCEPT !.publications = With(@, r,
                    [channel |-> spec.channel, enabled |-> spec.enabled, opened |-> FALSE,
                     published |-> FALSE, retiring |-> FALSE, ended |-> FALSE,
                     work |-> work, storage |-> work.sequence])]

NoWork == [sequence |-> 0]

\* `begin`, `admit_native_preparation` and the transfer of the storage.
Admitted(e, work, spec, opens) ==
    LET r == work.reference
        begun == [e EXCEPT !.sequence = work.sequence,
                           !.preparing = With(@, r, work.sequence)]
        owner == IF Has(e, r)
                 THEN [begun EXCEPT !.publications[r].storage = work.sequence] ELSE begun
    IN  CASE work.sequence <= e.sequence -> IF Preparing(e, work) THEN e ELSE Defer(e, work)
          [] work.sequence > e.sequence /\ r \in e.fenced ->
                Defer([e EXCEPT !.sequence = work.sequence], work)
          [] OTHER -> IF work.grant # e.authorization THEN Defer(begun, work)
                      ELSE Execute(owner, work, spec, opens)

\* `apply_native_retirement` and `retire_native_data`
Retired(e, scope) ==
    LET r == scope.reference
        f == [e EXCEPT !.sequence = scope.sequence, !.fenced = @ \ {r},
                       !.preparing = Without(@, r)]
        pub == e.publications[r]
        cancelled == IF pub.work.sequence = 0 THEN Dropped(f, r)
                     ELSE Completed(Dropped(f, r), pub.work, FALSE)
        released == [kind |-> "released", reference |-> r]
    IN  CASE scope.sequence <= e.sequence -> e
          [] scope.sequence > e.sequence /\ ~Has(e, r) -> Report(f, released)
          [] scope.sequence > e.sequence /\ Has(e, r) /\ pub.retiring -> f
          [] OTHER ->
                IF pub.published
                THEN [cancelled EXCEPT !.publications =
                        With(@, r, [pub EXCEPT !.enabled = FALSE, !.retiring = TRUE,
                                               !.work = NoWork])]
                ELSE Report(cancelled, released)

\* One turn of `evaluate_native_preparations`.  A preparation under a grant the
\* endpoint does not know yet is sent back once: the wake-up for its next attempt
\* follows the renewal in the shard's command lane.
Early(command) == command.kind = "prepare" /\ command.work.grant > endpoint.authorization
Executable == commands # <<>> /\ ~(endpoint.behind /\ Early(Head(commands)))
ExecuteCommand ==
    /\ Up /\ Executable
    /\ LET command == Head(commands)
       IN  \E opens \in BOOLEAN :
             Reports([IF command.kind = "retire" THEN Retired(endpoint, command)
                      ELSE Admitted(endpoint, command.work, command.spec, opens)
                      EXCEPT !.behind = @ \/ Early(command)])
    /\ commands' = Tail(commands)
    /\ UNCHANGED <<client, stages, toServer, toClient, session, cpc, output, progress,
                   closed, limit>>

\* The events of the transport change nothing else.
EndpointOnly ==
    UNCHANGED <<client, stages, toServer, toClient, session, cpc, commands, output, progress,
                closed, limit>>

Opening(r) == Has(endpoint, r) /\ ~endpoint.publications[r].opened
Withdrawing(r) == Has(endpoint, r) /\ endpoint.publications[r].retiring

\* `native_data_opened`; the commands it executes at its end, within the turn's
\* budget, are ExecuteCommand steps.
ChannelOpened(r) ==
    /\ Up /\ Opening(r)
    /\ LET pub == endpoint.publications[r]
           e == [endpoint EXCEPT !.publications[r].opened = TRUE,
                                 !.publications[r].work = NoWork]
       IN  Reports(Commit(e, pub.work, pub.enabled))
    /\ EndpointOnly

\* `fail_native_data`: the channel failed, closed before it opened, or timed out.
ChannelFailed(r) ==
    /\ Up /\ Opening(r)
    /\ LET pub == endpoint.publications[r]
           e == Completed(Dropped(endpoint, r), pub.work, FALSE)
       IN  Reports(IF pub.work.sequence = pub.storage THEN e
                   ELSE Report(e, [kind |-> "storage", reference |-> r,
                                   sequence |-> pub.storage]))
    /\ EndpointOnly

\* `native_data_closed` on an open channel: fence, then report.
ChannelClosed(r) ==
    /\ Up /\ Has(endpoint, r)
    /\ LET pub == endpoint.publications[r]
       IN  pub.opened /\ ~pub.retiring /\ ~pub.ended
    /\ Reports(Report([endpoint EXCEPT !.publications[r].ended = TRUE,
                                       !.publications[r].enabled = FALSE,
                                       !.preparing = Without(@, r),
                                       !.fenced = @ \cup {r}],
                      [kind |-> "ended", reference |-> r]))
    /\ EndpointOnly

\* `complete_native_data_cutoff`: the room has withdrawn the track, or could not.
CutoffDone(r) ==
    /\ Up /\ Withdrawing(r)
    /\ Reports(Report(Dropped(endpoint, r), [kind |-> "released", reference |-> r]))
    /\ EndpointOnly

CutoffFailed(r) ==
    /\ Up /\ Withdrawing(r)
    /\ closed' = "cutoff"
    /\ UNCHANGED <<client, stages, toServer, toClient, session, cpc, commands, facts, output,
                   progress, endpoint, limit>>

AuthorizationResult ==
    /\ Up /\ endpoint.authorization < session.grant
    /\ endpoint' = [endpoint EXCEPT !.authorization = @ + 1, !.behind = FALSE]
    /\ UNCHANGED facts
    /\ EndpointOnly

\* The transport admits the batch to the ordered state channel.
AdmitOutput ==
    /\ Up /\ output.present /\ progress = 0
    /\ toClient' = Append(toClient, output.records)
    /\ progress' = output.sequence
    /\ output' = NoPending
    /\ UNCHANGED <<client, stages, toServer, session, cpc, commands, facts, endpoint,
                   closed, limit>>

Ended == ~Up /\ UNCHANGED vars

Refs == 1 .. MaxRevision

Next ==
    \/ \E spec \in Specs \cup {NoSpec} : Stage(spec)
    \/ Retry \/ NextFrame \/ Apply
    \/ ServiceProgress \/ ServiceFacts \/ Renew
    \/ ExecuteCommand \/ AdmitOutput \/ AuthorizationResult
    \/ \E r \in Refs : \/ ChannelOpened(r) \/ ChannelFailed(r) \/ ChannelClosed(r)
                       \/ CutoffDone(r) \/ CutoffFailed(r)
    \/ Ended

Spec == Init /\ [][Next]_vars

\* Every loop runs again while it has work; a channel opens or times out, and the
\* room answers a withdrawal.  Weak fairness, with the enabling conditions spelled out.
Fairness ==
    /\ \/ []<>~(Up /\ Unsent /\ FrameOf(client).client.revision <= MaxRevision)
       \/ []<><<NextFrame>>_vars
    /\ []<>~(Up /\ toClient # <<>>) \/ []<><<Apply>>_vars
    /\ []<>~(Up /\ cpc = "idle" /\ HasWork) \/ []<><<ServiceProgress>>_vars
    /\ []<>~(Up /\ cpc = "facts") \/ []<><<ServiceFacts>>_vars
    /\ []<>~(Up /\ Executable) \/ []<><<ExecuteCommand>>_vars
    /\ []<>~(Up /\ output.present /\ progress = 0) \/ []<><<AdmitOutput>>_vars
    /\ []<>~(Up /\ endpoint.authorization < session.grant) \/ []<><<AuthorizationResult>>_vars
    /\ \A r \in Refs :
          /\ []<>~(Up /\ Opening(r)) \/ []<><<ChannelOpened(r) \/ ChannelFailed(r)>>_vars
          /\ []<>~(Up /\ Withdrawing(r)) \/ []<><<CutoffDone(r)>>_vars

FairSpec == Spec /\ Fairness

-----------------------------------------------------------------------------
\* Neither side takes the other's records for an error.  The revision gate of
\* `apply_input` never meets a client that keeps to `next_frame`; `apply_owned` never
\* sees an evaluation regress, one of a revision it has not sent, or a reference come
\* back after its terminal absence.  The session refuses one fact as invalid: the
\* second `Released` of a reference that the transport ended and the client withdrew
\* as well, after the row was collected (`reserve_execution`).
PeersAgree ==
    /\ closed \notin {"protocol", "client"}
    /\ closed = "invalid" =>
          \E i \in DOMAIN facts :
              facts[i].kind = "released" /\ ~HasOwned(session, facts[i].reference)

\* The session's storage charge is the sum of what its rows and attempts hold,
\* and the endpoint never holds a publication the session has stopped paying for:
\* no late, repeated or out-of-date report releases storage still in use.
AccountingExact ==
    /\ session.retained = Footprint(session)
          + Cardinality({r \in DOMAIN session.rows :
                          HasOwned(session, r) /\ session.rows[r].owned.active # 0})
    /\ Up => \A r \in DOMAIN endpoint.publications :
                HasOwned(session, r) /\ session.rows[r].owned.executionBytes # 0

\* Nothing is on its way anywhere, and no channel or withdrawal is pending.
Quiet ==
    /\ cpc = "idle" /\ ~HasWork
    /\ toClient = <<>> /\ commands = <<>> /\ ~output.present
    /\ ~client.dirty /\ client.retiring = {}
    /\ \A r \in Refs : ~Opening(r) /\ ~Withdrawing(r)

\* What the three then hold of the reference r: one and the same publication.
SamePublication(r) ==
    /\ DOMAIN client.owned = {r} /\ DOMAIN session.rows = {r, SessionKey}
    /\ DOMAIN endpoint.publications = {r}
    /\ LET value == client.owned[r].confirmed
           pub == endpoint.publications[r]
       IN  /\ session.rows[r].value = value /\ value.state = "live"
           /\ session.publication = r
           /\ pub.published /\ ~pub.ended
           /\ pub.channel = value.spec.channel /\ pub.enabled = value.spec.enabled
           /\ value.spec = client.target.spec

NoPublication ==
    /\ DOMAIN client.owned = {} /\ DOMAIN session.rows = {SessionKey}
    /\ session.publication = 0
    /\ DOMAIN endpoint.publications = {}

\* When all is quiet, client, session and endpoint hold the same publication with
\* the same settings, the wanted one; or the proposal came to nothing and none of them
\* holds anything: no row, label, channel or storage is left behind.
QuietAgreement ==
    Up /\ Quiet =>
        IF client.target.wanted /\ client.target.reference # 0
        THEN SamePublication(client.target.reference)
        ELSE NoPublication /\ (client.target.wanted => client.target.blocked)

\* `converged` of the client, for the resource it wants.
Converged ==
    LET owned == client.owned[client.target.reference]
    IN  /\ client.target.reference # 0
        /\ ~Awaiting(owned) /\ owned.confirmed.state = "live" /\ ~owned.confirmed.rejected
        /\ owned.confirmed.spec = client.target.spec

\* Once the application and the authorization stop changing, the client gets what it
\* wants or is told that it does not, and keeps nothing it does not want: no
\* proposal stays unevaluated and no retirement unanswered.
DesireConverges ==
    <>[](Up => IF client.target.wanted THEN Converged \/ client.target.blocked
               ELSE client.owned = Empty)
=============================================================================
