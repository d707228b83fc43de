----------------------------- MODULE NativeRows -----------------------------
(***************************************************************************)
(* The confirmed state a native signaling session keeps for one client,    *)
(* and the batches it cuts from it: `NativeSession` of                     *)
(* control/native/session.rs, without its commands (NativeResources).      *)
(*                                                                         *)
(* A session is a record.  rows maps a key to the row the client should    *)
(* end up with; a row is dirty until a batch holding its current version   *)
(* has been admitted by the transport, and queued for selection under its  *)
(* ticket.  The first keys, those with an ordinal up to initialEnd, are    *)
(* enumerated by a cursor of their own; the batch that finishes them       *)
(* carries the initial_complete marker.  One batch is outstanding at most: *)
(* pending.  retained is the storage charged for all of it.                *)
(*                                                                         *)
(* The indexes `order` and `dirty` of the code are functions of the rows   *)
(* here: the order of ordinals and of tickets.  Encoded lengths are the    *)
(* constants Size and the cost operators.                                  *)
(***************************************************************************)
EXTENDS Integers, FiniteSets, SequencesExt

CONSTANTS
    SessionKey,   \* the key of the session's own row
    Window,       \* SELECT_WORK / 2: keys looked at per pass and source
    MaxRecords,   \* codec::MAX_RECORDS
    FrameBytes,   \* codec::MAX_FRAME_SIZE
    MarkerBytes,  \* encoded length of initial_complete
    Size          \* encoded length of a record, by key

ASSUME RowsAssumption ==
    /\ Window \in Nat \ {0} /\ MaxRecords \in Nat \ {0} /\ FrameBytes \in Nat
    /\ MarkerBytes \in 0 .. FrameBytes
    /\ \A k \in DOMAIN Size : Size[k] \in 1 .. FrameBytes

NoOwned == [present |-> FALSE]
NoPending == [present |-> FALSE]

\* A row's value: what the client is told.  grant is the session's revision.
Live(evaluated) == [state |-> "live", evaluated |-> evaluated]
Absent(evaluated, reason) ==
    [state |-> "absent", evaluated |-> evaluated, reason |-> reason]
IsAbsent(value) == value.state = "absent"

KeyCost == 1
ValueCost(value) == IF IsAbsent(value) THEN 1 ELSE 2

NewSession ==
    [rows |-> [k \in {} |-> 0], version |-> 0, ordinal |-> 0, opened |-> FALSE,
     initialEnd |-> 0, initialCursor |-> 0, initialComplete |-> FALSE,
     grant |-> 0, unavailable |-> 0, outputSequence |-> 0,
     pending |-> NoPending, retained |-> 0]

\* The key's row, if any, holds `value` already.
Holds(s, k, value) == k \in DOMAIN s.rows /\ s.rows[k].value = value

Put(s, k, value) ==
    LET n == s.version + 1
        old == s.rows[k]
        changed ==
            [old EXCEPT !.value = value, !.version = n, !.dirty = TRUE,
                        !.unavailable = FALSE,
                        !.ticket = IF @ = 0 THEN n ELSE @]
        added ==
            [value |-> value, owned |-> NoOwned, ordinal |-> s.ordinal + 1,
             version |-> n, dirty |-> TRUE, ticket |-> n,
             unavailable |-> FALSE, represented |-> FALSE]
    IN  CASE Holds(s, k, value) -> s
          [] k \in DOMAIN s.rows /\ ~Holds(s, k, value) ->
                [s EXCEPT !.rows[k] = changed, !.version = n,
                          !.unavailable = IF old.unavailable THEN @ - 1 ELSE @,
                          !.retained = @ + ValueCost(value) - ValueCost(old.value)]
          [] OTHER ->
                [s EXCEPT !.rows = [j \in DOMAIN @ \cup {k} |->
                                        IF j = k THEN added ELSE @[j]],
                          !.version = n, !.ordinal = @ + 1,
                          !.retained = @ + KeyCost + ValueCost(value)]

\* `unavailable`: a peer the protocol has no name for.
PutUnavailable(s, k) ==
    LET put == Put(s, k, Absent(0, "gone"))
    IN  IF put.rows[k].unavailable THEN put
        ELSE [put EXCEPT !.rows[k].unavailable = TRUE, !.unavailable = @ + 1]

\* `authorization`: an older grant revision than the known one is ignored.
Authorization(s, revision) ==
    IF revision <= s.grant THEN s
    ELSE Put([s EXCEPT !.grant = revision], SessionKey, Live(revision))

\* `set_cid`: the rows known when the channel opens are the initial ones.
SetCid(s) ==
    IF s.opened THEN s ELSE [s EXCEPT !.opened = TRUE, !.initialEnd = s.ordinal]

-----------------------------------------------------------------------------
(* Selection *)

\* Withheld from the client: a cutoff is under way, or nothing was evaluated yet.
Held(row) ==
    /\ row.owned.present
    /\ \/ row.owned.cutoffPending
       \/ ~row.owned.retired /\ row.value.evaluated = 0

\* Kept for the endpoint: it may still report on the resource.
Pinned(row) ==
    /\ row.owned.present
    /\ \/ ~row.owned.retired
       \/ row.owned.cutoffPending
       \/ row.owned.active # 0
       \/ row.owned.executionBytes # 0

Prefix(seq, n) == SubSeq(seq, 1, IF Len(seq) < n THEN Len(seq) ELSE n)

\* The keys with an ordinal in (low, initialEnd], in order.
InitialFrom(s, low) ==
    SetToSortSeq({k \in DOMAIN s.rows : s.rows[k].ordinal \in (low + 1) .. s.initialEnd},
                 LAMBDA a, b : s.rows[a].ordinal < s.rows[b].ordinal)

\* The keys queued for selection, oldest ticket first.
Queued(s) ==
    SetToSortSeq({k \in DOMAIN s.rows : s.rows[k].ticket # 0},
                 LAMBDA a, b : s.rows[a].ticket < s.rows[b].ticket)

SessionDirty(s) == SessionKey \in DOMAIN s.rows /\ s.rows[SessionKey].dirty

InitialWindow(s) ==
    IF s.initialComplete \/ s.unavailable # 0 THEN <<>>
    ELSE Prefix(InitialFrom(s, s.initialCursor), Window)

Popped(s) == IF s.unavailable # 0 THEN <<>> ELSE Prefix(Queued(s), Window)

Candidates(s) ==
    LET first == IF SessionDirty(s) THEN <<SessionKey>> ELSE <<>>
        initial == SelectSeq(InitialWindow(s), LAMBDA k :
                        ~s.rows[k].represented /\ ~Contains(first, k))
        dirty == SelectSeq(Popped(s), LAMBDA k :
                        s.rows[k].dirty /\ ~Contains(first \o initial, k))
    IN  first \o initial \o dirty

\* Fills a frame in the order of the candidates; what does not fit is left.
Fill(s, batch, k) ==
    IF \/ Len(batch.keys) = MaxRecords
       \/ Held(s.rows[k])
       \/ batch.bytes + Size[k] > FrameBytes
    THEN [batch EXCEPT !.left = @ \cup {k}]
    ELSE [batch EXCEPT !.keys = Append(@, k), !.bytes = @ + Size[k]]

Batch(s) ==
    FoldLeft(LAMBDA batch, k : Fill(s, batch, k),
             [keys |-> <<>>, bytes |-> 0, left |-> {}], Candidates(s))

\* Mutant: the cursor moves past what the batch had no room for.
SelectedCursorWindow(s, selected) ==
    LET window == InitialWindow(s)
    IN  IF window = <<>> THEN s.initialEnd ELSE s.rows[Last(window)].ordinal

\* How far the enumeration gets: never past an initial key left out of the batch.
SelectedCursor(s, selected) ==
    LET window == InitialWindow(s)
        cursor == IF window = <<>> THEN s.initialCursor
                  ELSE s.rows[Last(window)].ordinal
        missing == SelectSeq(Prefix(InitialFrom(s, s.initialCursor), 2 * Window),
                             LAMBDA k : ~s.rows[k].represented /\ k \notin selected)
        reached == IF missing = <<>> THEN cursor
                   ELSE LET before == s.rows[Head(missing)].ordinal - 1
                        IN  IF before < cursor THEN before ELSE cursor
    IN  IF InitialFrom(s, reached) = <<>> THEN s.initialEnd ELSE reached

Requeued(row) == IF row.ticket = 0 THEN [row EXCEPT !.ticket = row.version] ELSE row

\* The rows once the popped tickets are spent and the left-over keys queued again.
AfterSelection(s, left) ==
    [k \in DOMAIN s.rows |->
        LET row == IF Contains(Popped(s), k) THEN [s.rows[k] EXCEPT !.ticket = 0]
                   ELSE s.rows[k]
        IN  IF k \in left THEN Requeued(row) ELSE row]

\* A peer without a name ends the session once the client has its grant.
PollFails(s) ==
    /\ ~s.pending.present /\ s.opened /\ s.grant # 0
    /\ s.unavailable # 0 /\ ~SessionDirty(s)

Poll(s) ==
    LET batch == Batch(s)
        selected == ToSet(batch.keys)
        cursor == SelectedCursor(s, selected)
        complete == /\ s.unavailable = 0 /\ ~s.initialComplete /\ cursor = s.initialEnd
                    /\ batch.bytes + MarkerBytes <= FrameBytes
        after == [s EXCEPT !.rows = AfterSelection(s, batch.left)]
    IN  IF s.pending.present \/ ~s.opened \/ s.grant = 0 THEN s
        ELSE IF selected = {} /\ ~complete
        THEN [after EXCEPT !.initialCursor = cursor]
        ELSE [after EXCEPT
                !.outputSequence = @ + 1,
                !.pending = [present |-> TRUE, held |-> TRUE,
                             sequence |-> s.outputSequence + 1,
                             records |-> [k \in selected |-> s.rows[k].value],
                             versions |-> [k \in selected |-> s.rows[k].version],
                             cursor |-> cursor, complete |-> complete]]

\* The storage a resource's row holds beside its value (NativeResources).
OwnedCost(owned) ==
    IF ~owned.present THEN 0
    ELSE 1 + ValueCost(owned.target) + owned.executionBytes

Collect(s, k) ==
    IF /\ k \in DOMAIN s.rows
       /\ ~s.rows[k].dirty /\ IsAbsent(s.rows[k].value) /\ ~Pinned(s.rows[k])
    THEN [s EXCEPT !.rows = [j \in DOMAIN @ \ {k} |-> @[j]],
                   !.retained = @ - KeyCost - ValueCost(s.rows[k].value)
                                  - OwnedCost(s.rows[k].owned)]
    ELSE s

\* Mutant: an admitted record cleans its row whatever became of it since.
SentAnyVersion(row, version) ==
    [row EXCEPT !.represented = TRUE, !.dirty = FALSE, !.ticket = 0]

\* The row of a record the transport admitted, if the row has not moved on.
Sent(row, version) ==
    IF row.version = version
    THEN [row EXCEPT !.represented = TRUE, !.dirty = FALSE, !.ticket = 0]
    ELSE [row EXCEPT !.represented = TRUE]

\* `commit_sent`: only the outstanding batch, once handed over, is confirmed.
CommitSent(s, sequence) ==
    LET p == s.pending
        sent == [s EXCEPT
            !.pending = NoPending, !.initialCursor = p.cursor,
            !.initialComplete = @ \/ p.complete,
            !.rows = [k \in DOMAIN @ |->
                        IF k \in DOMAIN p.versions THEN Sent(@[k], p.versions[k])
                        ELSE @[k]]]
    IN  IF ~p.present \/ p.held \/ p.sequence # sequence THEN s
        ELSE FoldLeft(Collect, sent, SetToSeq(DOMAIN p.versions))

\* The storage the rows account for.
Footprint(s) ==
    LET cost(k) == KeyCost + ValueCost(s.rows[k].value) + OwnedCost(s.rows[k].owned)
    IN  MapThenFoldSet(+, 0, cost, LAMBDA S : CHOOSE x \in S : TRUE, DOMAIN s.rows)
=============================================================================
