--------------------------- MODULE NativeSignaling ---------------------------
(***************************************************************************)
(* The hand-off between the controller and the shard that owns a native    *)
(* client's connection, and the state synchronisation that runs over it:   *)
(* control/native/handoff.rs, control/native/handler.rs,                   *)
(* control/controller/native_service.rs, participant/signaling.rs and the  *)
(* signaling parts of participant/core.rs.                                 *)
(*                                                                         *)
(* Controller and endpoint are two threads.  They share bounded lanes and  *)
(* one word of three bits.  READY says that a token for this connection is *)
(* in (or on its way to) the controller's readiness mailbox,               *)
(* ENDPOINT_READY that a NativeReady command is on its way to the shard.   *)
(* Setting a bit, sending the token, clearing a bit and looking into the   *)
(* lanes are separate steps wherever the other thread can come between.    *)
(*                                                                         *)
(* A client frame is applied into one command for the endpoint, which      *)
(* answers it by a fact, at once or later; what they say is the matter of  *)
(* NativeResources, here they are counted.  The transport is reliable and  *)
(* ordered: the client has what the transport admitted.                    *)
(***************************************************************************)
EXTENDS NativeRows

CONSTANTS
    Keys,             \* the participants and tracks of the room, but the client's own
    Unnameable,       \* those among them with no external id
    Limits,           \* bounds: row versions, grant revisions and client frames
    CommandCapacity,  \* COMMANDS: length of the command lane
    Budget            \* PREPARATION_BUDGET: retained commands that stop the input

ASSUME SignalingAssumption ==
    /\ Unnameable \subseteq Keys
    /\ Keys \cup {SessionKey, "own"} = DOMAIN Size
    /\ \A l \in Limits : {l.versions, l.grants, l.frames} \subseteq Nat
    /\ CommandCapacity \in Nat \ {0} /\ Budget \in Nat \ {0}

VARIABLES
    session,        \* the NativeSession of the controller
    registered,     \* the controller has the handler in native_connections
    cpc,            \* where the controller is in `service`
    wake,           \* the service has something for the endpoint
    ready,          \* READY
    endpointReady,  \* ENDPOINT_READY
    tokens,         \* tokens of this connection in the readiness mailbox
    wakeups,        \* NativeReady commands on their way to the shard
    lanes,          \* what is in each lane
    peeked,         \* next_opened, next_progress, next_fact, next_input
    backlog,        \* StateProtocolHandler.commands, retained by the controller
    epc,            \* where the endpoint is
    due,            \* the endpoint has a turn coming
    writer,         \* SignalingWriter.pending
    frames,         \* frames sent by the client, commands executed and answered
    client,         \* what the client knows
    closed,         \* why the connection ended, "no" while it is up
    limit           \* the bounds of this behaviour, a member of Limits

controller == <<session, registered, cpc, wake, peeked, backlog>>
endpoint == <<epc, due, writer, frames, client>>
moving == <<controller, endpoint, ready, endpointReady, tokens, wakeups, lanes, closed>>
vars == <<moving, limit>>

Initially ==
    Authorization(Put(NewSession, "own", Live(0)), 1)

\* The endpoint runs, with its half of the hand-off, before the controller
\* learns of it and registers the other half.
Init ==
    /\ session = Initially
    /\ registered = FALSE /\ cpc = "idle" /\ wake = FALSE
    /\ ready = FALSE /\ endpointReady = FALSE /\ tokens = 0 /\ wakeups = 0
    /\ lanes = [opened |-> FALSE, progress |-> 0, output |-> NoPending,
                input |-> 0, facts |-> 0, commands |-> 0]
    /\ peeked = [opened |-> FALSE, progress |-> 0, facts |-> 0, input |-> 0]
    /\ backlog = 0
    /\ epc = "idle" /\ due = FALSE /\ writer = NoPending
    /\ frames = [opened |-> FALSE, sent |-> 0, executed |-> 0, answered |-> 0]
    /\ client = [mirror |-> [k \in {} |-> 0], complete |-> FALSE]
    /\ closed = "no" /\ limit \in Limits

-----------------------------------------------------------------------------
(* The controller *)

Up == closed = "no"
Idle == Up /\ cpc = "idle"

\* `schedule` on the controller's own thread.
Schedule ==
    /\ ready' = TRUE
    /\ tokens' = IF ready THEN tokens ELSE tokens + 1

\* What `finish_native_observation` does after the session changed.
Observed(s) ==
    /\ Idle /\ registered
    /\ s.version <= limit.versions
    /\ session' = s
    /\ Schedule
    /\ UNCHANGED <<registered, cpc, wake, peeked, backlog, endpoint,
                   endpointReady, wakeups, lanes, closed>>

ObservePresent(k) == k \notin Unnameable /\ Observed(Put(session, k, Live(0)))
ObserveUnavailable(k) == k \in Unnameable /\ Observed(PutUnavailable(session, k))
ObserveRemoved(k) == Observed(Put(session, k, Absent(0, "removed")))
ObserveAuthorization ==
    /\ session.grant < limit.grants
    /\ Observed(Authorization(session, session.grant + 1))

\* `commit_materialization` registers the handler; `rearm` follows: whatever the
\* endpoint announced before was announced to nobody.
Register ==
    /\ Idle /\ ~registered
    /\ registered' = TRUE /\ ready' = FALSE /\ cpc' = "rearm" /\ wake' = FALSE
    /\ UNCHANGED <<session, peeked, backlog, endpoint, endpointReady, tokens,
                   wakeups, lanes, closed>>

\* A token for a connection that is not registered is dropped.
DropToken ==
    /\ Idle /\ ~registered /\ tokens > 0
    /\ tokens' = tokens - 1
    /\ UNCHANGED <<controller, endpoint, ready, endpointReady, wakeups, lanes, closed>>

\* The part of the lane that `flush_commands` can hand over.
Room(n) == IF n < CommandCapacity - lanes.commands THEN n
           ELSE CommandCapacity - lanes.commands

(***************************************************************************)
(* `service`, up to `rearm_for`: progress, opened, facts, one input frame  *)
(* if few commands are retained, poll, output.  Its two flushes of those   *)
(* commands hand over what the lane has room for.                          *)
(***************************************************************************)
Service ==
    LET progress == IF peeked.progress # 0 THEN peeked.progress ELSE lanes.progress
        opened == peeked.opened \/ lanes.opened
        committed == IF progress = 0 THEN session ELSE CommitSent(session, progress)
        s == IF opened THEN SetCid(committed) ELSE committed
        early == Room(backlog)
        takes == backlog - early < Budget /\ peeked.input + lanes.input > 0
        commands == backlog - early + (IF takes THEN 1 ELSE 0)
        room == CommandCapacity - lanes.commands - early
        late == IF commands < room THEN commands ELSE room
        polled == Poll(s)
        pushes == polled.pending.present /\ polled.pending.held /\ ~lanes.output.present
    IN  /\ session' = IF pushes THEN [polled EXCEPT !.pending.held = FALSE] ELSE polled
        /\ backlog' = commands - late
        /\ peeked' = [opened |-> FALSE, progress |-> 0, facts |-> 0,
                      input |-> IF takes THEN 0 ELSE peeked.input]
        /\ lanes' = [lanes EXCEPT
                       !.opened = @ /\ peeked.opened,
                       !.progress = IF peeked.progress # 0 THEN @ ELSE 0,
                       !.facts = 0,
                       !.input = IF takes /\ peeked.input = 0 THEN @ - 1 ELSE @,
                       !.commands = @ + early + late,
                       !.output = IF pushes THEN polled.pending ELSE @]
        /\ wake' = (early + late > 0 \/ pushes)
        /\ IF PollFails(s)
           THEN cpc' = "idle" /\ closed' = "unavailable"
           ELSE cpc' = "clear" /\ closed' = "no"
        /\ UNCHANGED <<registered, ready, endpointReady, wakeups, endpoint>>

ServiceToken ==
    /\ Idle /\ registered /\ tokens > 0
    /\ tokens' = tokens - 1
    /\ Service

\* The progress deadline: an admission already reported still counts.
ServiceDeadline ==
    /\ Idle /\ registered
    /\ session.pending.present \/ (session.opened /\ ~session.initialComplete)
    /\ UNCHANGED tokens
    /\ \/ /\ peeked.progress # 0 \/ lanes.progress # 0
          /\ Service
       \/ /\ peeked.progress = 0 /\ lanes.progress = 0
          /\ closed' = "expired"
          /\ UNCHANGED <<controller, endpoint, ready, endpointReady, wakeups, lanes>>

\* Mutant: the rearm does not clear READY.
RearmClearForgets ==
    /\ Up /\ cpc = "clear"
    /\ cpc' = "rearm"
    /\ UNCHANGED <<session, registered, wake, peeked, backlog, endpoint, ready,
                   endpointReady, tokens, wakeups, lanes, closed>>

\* `rearm_for`: clear first, then look.
RearmClear ==
    /\ Up /\ cpc = "clear"
    /\ ready' = FALSE /\ cpc' = "rearm"
    /\ UNCHANGED <<session, registered, wake, peeked, backlog, endpoint,
                   endpointReady, tokens, wakeups, lanes, closed>>

\* What the rearm takes out of the lanes, into the peeked slots.
Peek ==
    [opened |-> peeked.opened \/ lanes.opened,
     progress |-> IF peeked.progress # 0 THEN peeked.progress ELSE lanes.progress,
     facts |-> IF peeked.facts + lanes.facts > 0 THEN 1 ELSE 0,
     input |-> IF peeked.input + lanes.input > 0 THEN 1 ELSE 0]

\* Then the endpoint is woken, unless a wake-up is on its way.
RearmPeek ==
    /\ Up /\ cpc = "rearm"
    /\ peeked' = Peek
    /\ lanes' = [lanes EXCEPT
                   !.opened = @ /\ peeked.opened,
                   !.progress = IF peeked.progress # 0 THEN @ ELSE 0,
                   !.facts = IF peeked.facts = 0 /\ @ > 0 THEN @ - 1 ELSE @,
                   !.input = IF peeked.input = 0 /\ @ > 0 THEN @ - 1 ELSE @]
    /\ IF \/ Peek.opened \/ Peek.progress # 0 \/ Peek.facts # 0
          \/ backlog < Budget /\ Peek.input # 0
       THEN Schedule ELSE UNCHANGED <<ready, tokens>>
    /\ endpointReady' = (endpointReady \/ wake)
    /\ wakeups' = IF wake /\ ~endpointReady THEN wakeups + 1 ELSE wakeups
    /\ cpc' = "idle" /\ wake' = FALSE
    /\ UNCHANGED <<session, registered, backlog, endpoint, closed>>

-----------------------------------------------------------------------------
(* The endpoint *)

\* The two halves of `Readiness::notify`: the bit, then the token.
Notify ==
    /\ Up /\ epc \in {"notify", "notify_turn"}
    /\ ready' = TRUE
    /\ epc' = CASE ~ready -> (IF epc = "notify" THEN "send" ELSE "send_turn")
                [] ready -> (IF epc = "notify" THEN "idle" ELSE "turn")
    /\ UNCHANGED <<controller, due, writer, frames, client, endpointReady, tokens,
                   wakeups, lanes, closed>>

SendToken ==
    /\ Up /\ epc \in {"send", "send_turn"}
    /\ tokens' = tokens + 1
    /\ epc' = IF epc = "send" THEN "idle" ELSE "turn"
    /\ UNCHANGED <<controller, due, writer, frames, client, ready, endpointReady,
                   wakeups, lanes, closed>>

\* `DataChannelEvent::Opened` of the signaling channel.
Opened ==
    /\ Up /\ epc = "idle" /\ ~frames.opened
    /\ frames' = [frames EXCEPT !.opened = TRUE]
    /\ lanes' = [lanes EXCEPT !.opened = TRUE]
    /\ epc' = "notify"
    /\ UNCHANGED <<controller, due, writer, client, ready, endpointReady, tokens,
                   wakeups, closed>>

\* `DataChannelEvent::Message` on it: one frame of the client.
Input ==
    /\ Up /\ epc = "idle" /\ frames.opened /\ frames.sent < limit.frames
    /\ frames' = [frames EXCEPT !.sent = @ + 1]
    /\ lanes' = [lanes EXCEPT !.input = @ + 1]
    /\ epc' = "notify"
    /\ UNCHANGED <<controller, due, writer, client, ready, endpointReady, tokens,
                   wakeups, closed>>

\* `native_ready`: the bit is cleared before the turn looks into the lanes.
NativeReady ==
    /\ Up /\ epc = "idle" /\ wakeups > 0
    /\ wakeups' = wakeups - 1
    /\ endpointReady' = FALSE /\ due' = TRUE
    /\ UNCHANGED <<controller, epc, writer, frames, client, ready, tokens, lanes, closed>>

\* `poll`, for this wake-up or for any other reason.
BeginTurn ==
    /\ Up /\ epc = "idle"
    /\ epc' = "turn" /\ due' = FALSE
    /\ UNCHANGED <<controller, writer, frames, client, ready, endpointReady, tokens,
                   wakeups, lanes, closed>>

\* `receive_command`: the lane has room again, which the controller is told.
ReceiveCommand ==
    /\ Up /\ epc = "turn" /\ lanes.commands > 0
    /\ lanes' = [lanes EXCEPT !.commands = @ - 1]
    /\ frames' = [frames EXCEPT !.executed = @ + 1]
    /\ epc' = "notify_turn"
    /\ UNCHANGED <<controller, due, writer, client, ready, endpointReady, tokens,
                   wakeups, closed>>

\* `record_native_preparation`, `record_native_resource_observation`: the answer to
\* a command, in its turn or when the transport or the room has done its part.
RecordFact ==
    /\ Up /\ epc \in {"idle", "turn"} /\ frames.answered < frames.executed
    /\ frames' = [frames EXCEPT !.answered = @ + 1]
    /\ lanes' = [lanes EXCEPT !.facts = @ + 1]
    /\ epc' = IF epc = "idle" THEN "notify" ELSE "notify_turn"
    /\ UNCHANGED <<controller, due, writer, client, ready, endpointReady, tokens,
                   wakeups, closed>>

\* The client applies an admitted batch.
Told(batch) ==
    [mirror |-> [k \in DOMAIN client.mirror \cup DOMAIN batch.records |->
                    IF k \in DOMAIN batch.records
                    THEN [value |-> batch.records[k], version |-> batch.versions[k]]
                    ELSE client.mirror[k]],
     complete |-> client.complete \/ batch.complete]

\* The batch in the endpoint's hands: the writer's, or else the lane's.
Offered == IF writer.present THEN writer ELSE lanes.output

\* `poll_native_signaling`: the transport admits the batch.  A lane that still
\* holds the previous admission, or a client told twice that the initial keys are
\* complete, ends the connection.
Admit ==
    /\ Up /\ epc = "turn" /\ lanes.commands = 0 /\ Offered.present
    /\ client' = Told(Offered)
    /\ writer' = NoPending
    /\ lanes' = [lanes EXCEPT !.output = IF writer.present THEN @ ELSE NoPending,
                              !.progress = Offered.sequence]
    /\ epc' = "notify"
    /\ closed' = CASE lanes.progress # 0 -> "lane"
                   [] lanes.progress = 0 /\ client.complete /\ Offered.complete -> "refused"
                   [] OTHER -> "no"
    /\ UNCHANGED <<controller, frames, due, ready, endpointReady, tokens, wakeups>>

\* It has no room for the batch: the writer keeps it for a later turn.
Blocked ==
    /\ Up /\ epc = "turn" /\ lanes.commands = 0 /\ Offered.present
    /\ writer' = Offered
    /\ lanes' = [lanes EXCEPT !.output = IF writer.present THEN @ ELSE NoPending]
    /\ epc' = "idle" /\ due' = TRUE
    /\ UNCHANGED <<controller, frames, client, ready, endpointReady, tokens, wakeups, closed>>

NothingToSend ==
    /\ Up /\ epc = "turn" /\ lanes.commands = 0 /\ ~Offered.present
    /\ epc' = "idle"
    /\ UNCHANGED <<controller, due, writer, frames, client, ready, endpointReady,
                   tokens, wakeups, lanes, closed>>

\* The connection is gone: `remove_incarnation`, `disconnect`.
Ended == ~Up /\ UNCHANGED moving

-----------------------------------------------------------------------------

Observation ==
    \/ \E k \in Keys : ObservePresent(k) \/ ObserveUnavailable(k) \/ ObserveRemoved(k)
    \/ ObserveAuthorization

Next ==
    \/ Observation
    \/ Register \/ DropToken
    \/ ServiceToken \/ ServiceDeadline \/ RearmClear \/ RearmPeek
    \/ Notify \/ SendToken \/ Opened \/ Input \/ NativeReady
    \/ BeginTurn \/ ReceiveCommand \/ RecordFact \/ Admit \/ Blocked \/ NothingToSend
    \/ Ended

Spec == Init /\ [][Next /\ limit' = limit]_vars

\* Both threads run; a shard gives a participant its turn when one is due; a
\* transport that is full drains.  Deadlines need never strike.
Fairness ==
    /\ WF_moving(Register)
    /\ []<>~(Idle /\ registered /\ tokens > 0) \/ []<><<ServiceToken>>_moving
    /\ WF_moving(RearmClear) /\ WF_moving(RearmPeek)
    /\ WF_moving(Notify) /\ WF_moving(SendToken) /\ SF_moving(NativeReady)
    /\ SF_moving(due /\ BeginTurn)
    /\ WF_moving(ReceiveCommand) /\ SF_moving(RecordFact)
    /\ WF_moving(NothingToSend) /\ SF_moving(Admit)

FairSpec == Spec /\ Fairness

-----------------------------------------------------------------------------
(* Properties *)

\* The endpoint has a token under way, or is about to announce its work.
Announcing == epc \in {"notify", "send", "notify_turn", "send_turn"}

\* The client has all it should have, but for the marker: the cursor over the
\* initial keys is behind, although every key ahead of it was sent as a changed
\* row.  A poll then only moves the cursor and returns nothing; nobody asks for
\* the next poll, and unless the room changes the initial deadline ends the session.
CursorLags(s) ==
    LET ahead == InitialFrom(s, s.initialCursor)
    IN  /\ Queued(s) = <<>> /\ ahead # <<>>
        /\ \A i \in DOMAIN ahead : s.rows[ahead[i]].represented

\* What a service would find to do.
ControllerWork ==
    \/ lanes.opened \/ peeked.opened \/ lanes.progress # 0 \/ peeked.progress # 0
    \/ lanes.facts + peeked.facts > 0
    \/ backlog < Budget /\ lanes.input + peeked.input > 0
    \/ ~session.pending.present /\ Poll(session).pending.present /\ ~CursorLags(session)

\* No wake-up of the controller is lost: at rest, with anything to do, it has a
\* token or the endpoint is about to send one.  (`rearm_for` clears READY before
\* it looks; `commit_materialization` rearms a hand-off used before it was known.)
\* Excepted is the poll for the marker alone while the cursor lags, which the code
\* does forget (CursorLags).
NoLostWake ==
    Idle /\ registered /\ ControllerWork => tokens > 0 \/ Announcing

\* When the client is told that the initial keys are complete, it has been told of
\* every one of them (`poll` stops its cursor before a key left out of a batch).
InitialCompleteSound ==
    client.complete =>
        \A k \in DOMAIN session.rows :
            session.rows[k].ordinal <= session.initialEnd => k \in DOMAIN client.mirror

\* The client knows every row, and of no row that is gone.
InSync ==
    /\ \A k \in DOMAIN session.rows :
          k \in DOMAIN client.mirror /\ client.mirror[k].value = session.rows[k].value
    /\ \A k \in DOMAIN client.mirror \ DOMAIN session.rows :
          IsAbsent(client.mirror[k].value)

\* The two ways a connection may end: no progress in time, or a peer without a name.
GivenUp == closed \in {"expired", "unavailable"}

\* Once the room stops changing, an open client ends up with exactly the rows of
\* the session and, unless the cursor lags, the initial_complete marker; no lane of
\* one element overflows and the marker never comes twice, either of which would end
\* the connection.  And every
\* frame of the client is applied and its command executed, although the command lane
\* may be full and the notice that it has room again may fall between the flush and
\* the rearm, which does not look at that lane: the answer to an earlier command then
\* wakes the controller for the commands it holds back.
Converges ==
    <>[](~GivenUp => /\ frames.opened =>
                          Up /\ InSync /\ (client.complete \/ CursorLags(session))
                     /\ frames.executed = frames.sent)
=============================================================================
