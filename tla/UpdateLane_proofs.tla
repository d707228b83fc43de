------------------------- MODULE UpdateLane_proofs -------------------------
(***************************************************************************)
(* Proofs about the update lanes, for any number of shards and updates and *)
(* every capacity and budget: a shard executes every operation once and in *)
(* order, an acknowledged fence covers what was published before it, and   *)
(* the lanes implement UpdateLog.                                          *)
(*                                                                         *)
(* The invariant says where each update is: what was applied, the update   *)
(* being applied, the mailbox, the backlog and the staged update follow    *)
(* each other as they were published.  Generations grow along this stream, *)
(* so that an update is never older than the last one applied, and the     *)
(* operations executed so far all come before those of the next chunk.     *)
(***************************************************************************)
EXTENDS UpdateLane, SequenceTheorems, TLAPS

Updates == [generation : Nat, plans : Nat, fence : BOOLEAN]
Operations == Nat \X Nat \X Nat

LaneTypeOK ==
  /\ generation \in Nat
  /\ limit \in Limits
  /\ staged \in [Shards -> Seq(Updates)]
  /\ backlog \in [Shards -> Seq(Updates)]
  /\ mailbox \in [Shards -> Seq(Updates)]
  /\ work \in [Shards -> Seq(Updates)]
  /\ applied \in [Shards -> Seq(Updates)]
  /\ published \in [Shards -> Seq(Updates)]
  /\ begun \in [Shards -> BOOLEAN]
  /\ planIndex \in [Shards -> Nat]
  /\ current \in [Shards -> Nat]
  /\ alive \in [Shards -> BOOLEAN]
  /\ executed \in [Shards -> Seq(Operations)]

\* What is still on its way to the plans of a shard, oldest first.
Coming(s) == work[s] \o (mailbox[s] \o (backlog[s] \o staged[s]))

\* Nothing is lost, doubled or overtaken.
StreamWhole == \A s \in Shards : published[s] = applied[s] \o Coming(s)

StagedOnlyWhilePublishing == phase # "publish" => \A s \in Shards : staged[s] = << >>

\* Generations grow along the stream.
GenerationsGrow ==
  \A s \in Shards :
    /\ \A i \in 1 .. Len(published[s]) : published[s][i].generation \in 1 .. generation
    /\ \A i, j \in 1 .. Len(published[s]) :
         i < j => published[s][i].generation < published[s][j].generation

\* current is the generation of the last update applied.
CurrentIsLast ==
  \A s \in Shards :
    current[s] = IF applied[s] = << >> THEN 0 ELSE applied[s][Len(applied[s])].generation

\* An update is in progress exactly after its first chunk and before its last.
InProgress ==
  \A s \in Shards :
    /\ Len(work[s]) <= 1
    /\ begun[s] <=> work[s] # << >>
    /\ work[s] = << >> => planIndex[s] = 0
    /\ work[s] # << >> => planIndex[s] < work[s][1].plans

\* An acknowledged fence was applied.
AckedApplied ==
  \A s \in Shards : \A g \in Nat : <<s, g>> \in acked =>
    \E i \in 1 .. Len(applied[s]) : applied[s][i].generation = g

StreamIInv ==
  /\ LaneTypeOK /\ StreamWhole /\ StagedOnlyWhilePublishing
  /\ GenerationsGrow /\ CurrentIsLast /\ InProgress

-----------------------------------------------------------------------------
(* Sequences.                                                              *)

\* An entry, or the head of a queue, in front of the rest or at the end of what comes before.
EntryMoved(a, e, t, c) == Append(a, e) \o (t \o c) = a \o ((<<e>> \o t) \o c)
HeadMoved(a, b, c) == Append(a, Head(b)) \o (Tail(b) \o c) = a \o (b \o c)

\* The first entry of one queue moves to the end of the queue before it.
LEMMA EntryMoves ==
  ASSUME NEW S, NEW a \in Seq(S), NEW e \in S, NEW t \in Seq(S), NEW c \in Seq(S)
  PROVE  EntryMoved(a, e, t, c)
<1>1. Append(a, e) = a \o <<e>> /\ <<e>> \in Seq(S)
  OBVIOUS
<1>2. ASSUME NEW u \in Seq(S) PROVE (a \o u) \o (t \o c) = a \o ((u \o t) \o c)
  <2>1. t \o c \in Seq(S)
    OBVIOUS
  <2>2. ASSUME NEW v \in Seq(S) PROVE (a \o u) \o v = a \o (u \o v)
    BY ConcatAssociative, SMTT(30)
  <2>3. (u \o t) \o c = u \o (t \o c)
    OBVIOUS
  <2> QED BY <2>1, <2>2, <2>3, Zenon
<1> QED BY <1>1, <1>2, Zenon DEF EntryMoved

\* The same, for the head of the second queue.
LEMMA HeadMoves ==
  ASSUME NEW S, NEW a \in Seq(S), NEW b \in Seq(S), b # << >>, NEW c \in Seq(S)
  PROVE  HeadMoved(a, b, c)
<1>1. Head(b) \in S /\ Tail(b) \in Seq(S) /\ <<Head(b)>> \o Tail(b) = b
  OBVIOUS
<1> DEFINE e == Head(b)  t == Tail(b)
<1> HIDE DEF e, t
<1>2. e \in S /\ t \in Seq(S) /\ <<e>> \o t = b
  BY <1>1, Zenon DEF e, t
<1>3. EntryMoved(a, e, t, c)
  BY <1>2, EntryMoves, Zenon
<1> QED BY <1>2, <1>3, Zenon DEF EntryMoved, HeadMoved, e, t

\* A queue of at most one entry that is not empty.
LEMMA OneEntry ==
  ASSUME NEW S, NEW w \in Seq(S), w # << >>, Len(w) <= 1
  PROVE  Head(w) \in S /\ w = <<Head(w)>>
<1>1. Len(w) \in Nat \ {0}
  BY EmptySeq
<1>2. Len(w) = 1
  <2>1. \A n \in Nat \ {0} : n <= 1 => n = 1
    OBVIOUS
  <2> QED BY <1>1, <2>1, Zenon
<1>3. Head(w) = w[1] /\ w[1] \in S
  BY <1>2
<1>4. <<w[1]>> \in Seq(S) /\ Len(<<w[1]>>) = 1 /\ <<w[1]>>[1] = w[1]
  BY <1>3
<1>5. \A v \in Seq(S) : Len(v) = 1 /\ v[1] = w[1] => v = w
  BY <1>2, SeqEqual
<1> QED BY <1>3, <1>4, <1>5, Zenon

\* Where the entries of a concatenation are.
LEMMA InConcat ==
  ASSUME NEW S, NEW a \in Seq(S), NEW b \in Seq(S)
  PROVE  /\ Len(a \o b) = Len(a) + Len(b)
         /\ a \o b \in Seq(S)
         /\ \A i \in 1 .. Len(a) : i \in 1 .. Len(a \o b) /\ (a \o b)[i] = a[i]
         /\ \A i \in 1 .. Len(b) : Len(a) + i \in 1 .. Len(a \o b) /\ (a \o b)[Len(a) + i] = b[i]
<1>1. Len(a) \in Nat /\ Len(b) \in Nat
  OBVIOUS
<1>2. Len(a \o b) = Len(a) + Len(b) /\ a \o b \in Seq(S)
  BY ConcatProperties
<1>3. ASSUME NEW i \in 1 .. Len(a) PROVE i \in 1 .. Len(a \o b) /\ (a \o b)[i] = a[i]
  BY <1>1, <1>2, ConcatProperties
<1>4. ASSUME NEW i \in 1 .. Len(b)
      PROVE Len(a) + i \in 1 .. Len(a \o b) /\ (a \o b)[Len(a) + i] = b[i]
  <2>1. Len(a) + i \in 1 .. Len(a) + Len(b) /\ ~(Len(a) + i <= Len(a)) /\ Len(a) + i - Len(a) = i
    BY <1>1
  <2> QED BY <1>2, <2>1, ConcatProperties
<1> QED BY <1>2, <1>3, <1>4

-----------------------------------------------------------------------------
(* Where the updates are.                                                  *)

\* An update moves within the stream of one shard.
LEMMA StreamMoves ==
  ASSUME StreamIInv, LaneTypeOK', StagedOnlyWhilePublishing',
         UNCHANGED <<generation, published, applied, current, work, begun, planIndex>>,
         NEW s \in Shards,
         mailbox'[s] \o (backlog'[s] \o staged'[s]) = mailbox[s] \o (backlog[s] \o staged[s]),
         \A r \in Shards : r # s =>
           mailbox'[r] = mailbox[r] /\ backlog'[r] = backlog[r] /\ staged'[r] = staged[r]
  PROVE  StreamIInv'
<1>1. ASSUME NEW r \in Shards PROVE Coming(r)' = Coming(r)
  BY Zenon DEF Coming
<1>2. StreamWhole'
  BY <1>1, Zenon DEF StreamIInv, StreamWhole
<1>3. GenerationsGrow' /\ CurrentIsLast' /\ InProgress'
  BY DEF StreamIInv, GenerationsGrow, CurrentIsLast, InProgress
<1> QED BY <1>2, <1>3 DEF StreamIInv

\* flush_one and flush_backlog
LEMMA SendStep ==
  ASSUME StreamIInv, NEW s \in Shards, PublishFlush(s) \/ FlushSend(s)
  PROVE  StreamIInv'
<1>1. /\ backlog[s] # << >>
      /\ mailbox' = [mailbox EXCEPT ![s] = Append(@, Head(backlog[s]))]
      /\ backlog' = [backlog EXCEPT ![s] = Tail(@)]
      /\ UNCHANGED <<generation, phase, limit, staged, published, shardVars>>
  BY DEF PublishFlush, FlushSend
<1>2. UNCHANGED <<alive, work, begun, planIndex, current, applied, executed>>
  BY <1>1 DEF shardVars
<1>3. LaneTypeOK /\ backlog[s] \in Seq(Updates) /\ mailbox[s] \in Seq(Updates) /\ staged[s] \in Seq(Updates)
  BY Zenon DEF StreamIInv, LaneTypeOK
<1>4. Head(backlog[s]) \in Updates /\ Tail(backlog[s]) \in Seq(Updates)
      /\ Append(mailbox[s], Head(backlog[s])) \in Seq(Updates)
  BY <1>1, <1>3
<1>5. LaneTypeOK'
  BY <1>1, <1>2, <1>3, <1>4, Zenon DEF LaneTypeOK
<1>6. mailbox'[s] = Append(mailbox[s], Head(backlog[s])) /\ backlog'[s] = Tail(backlog[s])
      /\ staged'[s] = staged[s]
  BY <1>1, <1>3 DEF LaneTypeOK
<1>7. mailbox'[s] \o (backlog'[s] \o staged'[s]) = mailbox[s] \o (backlog[s] \o staged[s])
  <2>1. backlog[s] # << >>
    BY <1>1
  <2>2. Append(mailbox[s], Head(backlog[s])) \o (Tail(backlog[s]) \o staged[s])
          = mailbox[s] \o (backlog[s] \o staged[s])
    <3>1. PICK a, b, c \in Seq(Updates) : a = mailbox[s] /\ b = backlog[s] /\ c = staged[s]
      BY <1>3, Zenon
    <3>2. b # << >>
      BY <2>1, <3>1, Zenon
    <3>3. HeadMoved(a, b, c)
      BY <3>2, HeadMoves, Zenon
    <3> QED BY <3>1, <3>3, Zenon DEF HeadMoved
  <2> QED BY <1>6, <2>2, Zenon
<1>8. \A r \in Shards : r # s =>
        mailbox'[r] = mailbox[r] /\ backlog'[r] = backlog[r] /\ staged'[r] = staged[r]
  BY <1>1, <1>3 DEF LaneTypeOK
<1>9. StagedOnlyWhilePublishing'
  BY <1>1 DEF StreamIInv, StagedOnlyWhilePublishing
<1> QED BY <1>1, <1>2, <1>5, <1>7, <1>8, <1>9, StreamMoves, Zenon

\* The new update goes to the mailbox or behind the backlog.
LEMMA PublishStep ==
  ASSUME StreamIInv, NEW s \in Shards, PublishSend(s) \/ PublishDefer(s)
  PROVE  StreamIInv'
<1>1. /\ staged' = [staged EXCEPT ![s] = << >>]
      /\ UNCHANGED <<generation, phase, limit, published, shardVars>>
      /\ \/ /\ backlog[s] = << >> /\ backlog' = backlog
            /\ mailbox' = [mailbox EXCEPT ![s] = @ \o staged[s]]
         \/ mailbox' = mailbox /\ backlog' = [backlog EXCEPT ![s] = @ \o staged[s]]
  BY Zenon DEF PublishSend, PublishDefer
<1>2. UNCHANGED <<alive, work, begun, planIndex, current, applied, executed>>
  BY <1>1 DEF shardVars
<1>3. LaneTypeOK /\ backlog[s] \in Seq(Updates) /\ mailbox[s] \in Seq(Updates) /\ staged[s] \in Seq(Updates)
  BY DEF StreamIInv, LaneTypeOK
<1>4. mailbox[s] \o staged[s] \in Seq(Updates) /\ backlog[s] \o staged[s] \in Seq(Updates)
  BY <1>3
<1>5. LaneTypeOK'
  <2>1. << >> \in Seq(Updates)
    OBVIOUS
  <2> QED BY <1>1, <1>2, <1>3, <1>4, <2>1, ZenonT(30) DEF LaneTypeOK
<1>6. /\ staged'[s] = << >>
      /\ \/ backlog[s] = << >> /\ backlog'[s] = << >> /\ mailbox'[s] = mailbox[s] \o staged[s]
         \/ mailbox'[s] = mailbox[s] /\ backlog'[s] = backlog[s] \o staged[s]
  BY <1>1, <1>3, Zenon DEF LaneTypeOK
<1>7. mailbox'[s] \o (backlog'[s] \o staged'[s]) = mailbox[s] \o (backlog[s] \o staged[s])
  <2>1. ASSUME NEW a \in Seq(Updates) PROVE a \o << >> = a /\ << >> \o a = a
    OBVIOUS
  <2>2. << >> \o << >> = << >>
    OBVIOUS
  <2> QED BY <1>3, <1>4, <1>6, <2>1, <2>2, ZenonT(30)
<1>8. \A r \in Shards : r # s =>
        mailbox'[r] = mailbox[r] /\ backlog'[r] = backlog[r] /\ staged'[r] = staged[r]
  BY <1>1, <1>3, Zenon DEF LaneTypeOK
<1>9. StagedOnlyWhilePublishing'
  BY <1>1, <1>3 DEF StreamIInv, StagedOnlyWhilePublishing, LaneTypeOK
<1> QED BY <1>1, <1>2, <1>5, <1>7, <1>8, <1>9, StreamMoves, Zenon

\* Steps that touch only the schedule, or whether a shard is alive.
LEMMA QuietStep ==
  ASSUME StreamIInv, alive' \in [Shards -> BOOLEAN],
         UNCHANGED <<generation, limit, staged, backlog, mailbox, work, begun, planIndex,
                     current, applied, executed, published>>,
         phase' # "publish" => phase # "publish" \/ \A s \in Shards : staged[s] = << >>
  PROVE  StreamIInv'
<1>1. LaneTypeOK'
  BY DEF StreamIInv, LaneTypeOK
<1>2. StagedOnlyWhilePublishing'
  BY DEF StreamIInv, StagedOnlyWhilePublishing
<1>3. StreamWhole' /\ GenerationsGrow' /\ CurrentIsLast' /\ InProgress'
  BY Zenon DEF StreamIInv, StreamWhole, Coming, GenerationsGrow, CurrentIsLast, InProgress
<1> QED BY <1>1, <1>2, <1>3 DEF StreamIInv

\* A generation is published to some shards.
LEMMA StageStep ==
  ASSUME StreamIInv, NEW targets \in SUBSET Lanes, NEW plans \in limit.plans,
         NEW fence \in BOOLEAN, Stage(targets, plans, fence)
  PROVE  StreamIInv'
<1> DEFINE update == [generation |-> generation + 1, plans |-> plans, fence |-> fence]
<1>1. /\ phase = "idle" /\ phase' = "publish" /\ generation' = generation + 1
      /\ staged' = [s \in Shards |-> IF s \in targets THEN <<update>> ELSE << >>]
      /\ published' = [s \in Shards |->
           IF s \in targets THEN Append(published[s], update) ELSE published[s]]
      /\ UNCHANGED <<backlog, mailbox, shardVars, limit>>
  BY DEF Stage
<1>2. UNCHANGED <<alive, work, begun, planIndex, current, applied, executed>>
  BY <1>1 DEF shardVars
<1>3. LaneTypeOK /\ generation \in Nat /\ update \in Updates
  <2>1. LaneTypeOK /\ generation \in Nat /\ limit \in Limits
    BY DEF StreamIInv, LaneTypeOK
  <2>2. plans \in Nat
    BY <2>1, LaneAssumption
  <2> QED BY <2>1, <2>2 DEF Updates
<1> HIDE DEF update
<1>4. \A s \in Shards : staged[s] = << >> /\ published[s] \in Seq(Updates)
  BY <1>1 DEF StreamIInv, StagedOnlyWhilePublishing, LaneTypeOK
<1>5. ASSUME NEW s \in Shards
      PROVE  \/ s \in targets /\ staged'[s] = <<update>> /\ published'[s] = Append(published[s], update)
             \/ s \notin targets /\ staged'[s] = << >> /\ published'[s] = published[s]
  BY <1>1
<1>6. LaneTypeOK'
  <2>1. staged' \in [Shards -> Seq(Updates)]
    BY <1>1, <1>3
  <2>2. published' \in [Shards -> Seq(Updates)]
    BY <1>1, <1>3, <1>4
  <2> QED BY <1>1, <1>2, <1>3, <2>1, <2>2 DEF LaneTypeOK
<1>7. StreamWhole'
  <2> SUFFICES ASSUME NEW s \in Shards
               PROVE  published'[s] = applied[s] \o (work[s] \o (mailbox[s] \o (backlog[s] \o staged'[s])))
    BY <1>1, <1>2, Zenon DEF StreamWhole, Coming
  <2>1. /\ applied[s] \in Seq(Updates) /\ work[s] \in Seq(Updates)
        /\ mailbox[s] \in Seq(Updates) /\ backlog[s] \in Seq(Updates)
    BY <1>3 DEF LaneTypeOK
  <2>2. backlog[s] \o << >> = backlog[s]
    BY <2>1
  <2>3. published[s] = applied[s] \o (work[s] \o (mailbox[s] \o backlog[s]))
    BY <1>4, <2>2, Zenon DEF StreamIInv, StreamWhole, Coming
  <2>4. CASE s \notin targets
    BY <1>5, <2>2, <2>3, <2>4, Zenon
  <2>5. CASE s \in targets
    <3>1. ASSUME NEW a \in Seq(Updates), NEW b \in Seq(Updates)
          PROVE  Append(a \o b, update) = a \o Append(b, update) /\ a \o b \in Seq(Updates)
                 /\ b \o <<update>> = Append(b, update) /\ Append(b, update) \in Seq(Updates)
      BY <1>3
    <3>2. staged'[s] = <<update>> /\ published'[s] = Append(published[s], update)
      BY <1>5, <2>5
    <3>3. backlog[s] \o <<update>> = Append(backlog[s], update)
      BY <2>1, <3>1
    <3>4. mailbox[s] \o Append(backlog[s], update) = Append(mailbox[s] \o backlog[s], update)
      BY <2>1, <3>1, Zenon
    <3>5. work[s] \o Append(mailbox[s] \o backlog[s], update)
            = Append(work[s] \o (mailbox[s] \o backlog[s]), update)
      BY <2>1, <3>1, Zenon
    <3>6. applied[s] \o Append(work[s] \o (mailbox[s] \o backlog[s]), update)
            = Append(applied[s] \o (work[s] \o (mailbox[s] \o backlog[s])), update)
      BY <2>1, <3>1, ZenonT(60)
    <3> QED BY <2>3, <3>2, <3>3, <3>4, <3>5, <3>6, Zenon
  <2> QED BY <2>4, <2>5, Zenon
<1>8. GenerationsGrow'
  <2> SUFFICES ASSUME NEW s \in Shards
               PROVE  /\ \A i \in 1 .. Len(published'[s]) :
                           published'[s][i].generation \in 1 .. generation + 1
                      /\ \A i, j \in 1 .. Len(published'[s]) : i < j =>
                           published'[s][i].generation < published'[s][j].generation
    BY <1>1 DEF GenerationsGrow
  <2>1. /\ \A i \in 1 .. Len(published[s]) : published[s][i].generation \in 1 .. generation
        /\ \A i, j \in 1 .. Len(published[s]) :
             i < j => published[s][i].generation < published[s][j].generation
    BY DEF StreamIInv, GenerationsGrow
  <2>2. CASE s \notin targets
    BY <1>3, <1>5, <2>1, <2>2, SMTT(30)
  <2>3. CASE s \in targets
    <3>1. /\ Len(published'[s]) = Len(published[s]) + 1 /\ Len(published[s]) \in Nat
          /\ \A i \in 1 .. Len(published[s]) : published'[s][i] = published[s][i]
          /\ published'[s][Len(published[s]) + 1] = update
      BY <1>3, <1>4, <1>5, <2>3
    <3>2. update.generation = generation + 1
      BY DEF update
    <3>3. ASSUME NEW i \in 1 .. Len(published'[s])
          PROVE  \/ i \in 1 .. Len(published[s]) /\ published'[s][i].generation \in 1 .. generation
                 \/ i = Len(published[s]) + 1 /\ published'[s][i].generation = generation + 1
      BY <2>1, <3>1, <3>2, SMTT(30)
    <3>4. \A i \in 1 .. Len(published'[s]) : published'[s][i].generation \in 1 .. generation + 1
      BY <1>3, <3>3
    <3>5. ASSUME NEW i \in 1 .. Len(published'[s]), NEW j \in 1 .. Len(published'[s]), i < j
          PROVE  published'[s][i].generation < published'[s][j].generation
      <4>1. i \in 1 .. Len(published[s])
        BY <3>1, <3>5
      <4>2. CASE j \in 1 .. Len(published[s])
        BY <2>1, <3>1, <3>5, <4>1, <4>2, Zenon
      <4>3. CASE j = Len(published[s]) + 1
        <5>1. published'[s][i].generation \in 1 .. generation
          BY <2>1, <3>1, <4>1, Zenon
        <5>2. published'[s][j].generation = generation + 1
          BY <3>1, <3>2, <4>3
        <5> QED BY <1>3, <5>1, <5>2
      <4> QED BY <3>1, <4>2, <4>3
    <3> QED BY <3>4, <3>5
  <2> QED BY <2>2, <2>3
<1>9. StagedOnlyWhilePublishing' /\ CurrentIsLast' /\ InProgress'
  BY <1>1, <1>2 DEF StreamIInv, StagedOnlyWhilePublishing, CurrentIsLast, InProgress
<1> QED BY <1>6, <1>7, <1>8, <1>9 DEF StreamIInv

-----------------------------------------------------------------------------
(* A shard takes the next update of its stream.                            *)

\* What an iteration leaves in the mailbox.
Left(s) == IF work[s] # << >> THEN mailbox[s] ELSE Tail(mailbox[s])

\* The update an iteration works on is the next one of the stream.
LEMMA TakenIsNext ==
  ASSUME StreamIInv, NEW s \in Shards, Ready(s)
  PROVE  /\ Head(Taken(s)) \in Updates
         /\ Taken(s) = <<Head(Taken(s))>>
         /\ Left(s) \in Seq(Updates)
         /\ published[s] = applied[s] \o (<<Head(Taken(s))>> \o (Left(s) \o (backlog[s] \o staged[s])))
<1>1. /\ mailbox[s] \in Seq(Updates) /\ work[s] \in Seq(Updates)
      /\ backlog[s] \o staged[s] \in Seq(Updates)
  BY DEF StreamIInv, LaneTypeOK
<1>2. published[s] = applied[s] \o (work[s] \o (mailbox[s] \o (backlog[s] \o staged[s])))
  BY Zenon DEF StreamIInv, StreamWhole, Coming
<1>3. CASE work[s] # << >>
  <2>1. Len(work[s]) <= 1
    BY DEF StreamIInv, InProgress
  <2>3. Head(work[s]) \in Updates /\ work[s] = <<Head(work[s])>>
    BY <1>1, <1>3, <2>1, OneEntry
  <2>4. Taken(s) = work[s] /\ Left(s) = mailbox[s]
    BY <1>3 DEF Taken, Left
  <2> QED BY <1>1, <1>2, <2>3, <2>4, Zenon
<1>4. CASE work[s] = << >>
  <2>1. mailbox[s] # << >>
    BY <1>4 DEF Ready
  <2>2. Taken(s) = <<Head(mailbox[s])>> /\ Left(s) = Tail(mailbox[s])
    BY <1>4 DEF Taken, Left
  <2>3. Head(mailbox[s]) \in Updates /\ Tail(mailbox[s]) \in Seq(Updates)
    BY <1>1, <2>1
  <2>4. Head(Taken(s)) = Head(mailbox[s])
    BY <2>2, <2>3
  <2>5. \A m, c \in Seq(Updates) : m # << >> => << >> \o (m \o c) = <<Head(m)>> \o (Tail(m) \o c)
    <3> SUFFICES ASSUME NEW m \in Seq(Updates), NEW c \in Seq(Updates), m # << >>
                 PROVE  << >> \o (m \o c) = <<Head(m)>> \o (Tail(m) \o c)
      BY Zenon
    <3>1. Append(<< >>, Head(m)) \o (Tail(m) \o c) = << >> \o (m \o c)
      <4>1. << >> \in Seq(Updates)
        OBVIOUS
      <4>2. HeadMoved(<< >>, m, c)
        BY <4>1, HeadMoves, Zenon
      <4> QED BY <4>2, Zenon DEF HeadMoved
    <3>2. Append(<< >>, Head(m)) = <<Head(m)>>
      OBVIOUS
    <3> QED BY <3>1, <3>2
  <2>6. work[s] \o (mailbox[s] \o (backlog[s] \o staged[s]))
          = <<Head(mailbox[s])>> \o (Tail(mailbox[s]) \o (backlog[s] \o staged[s]))
    BY <1>1, <1>4, <2>1, <2>5, ZenonT(30)
  <2> QED BY <1>2, <2>2, <2>3, <2>4, <2>6, Zenon
<1> QED BY <1>3, <1>4, Zenon

\* An entry that follows a prefix.
LEMMA NextEntry ==
  ASSUME NEW S, NEW a \in Seq(S), NEW e \in S, NEW r \in Seq(S)
  PROVE  /\ Len(a) + 1 \in 1 .. Len(a \o (<<e>> \o r))
         /\ (a \o (<<e>> \o r))[Len(a) + 1] = e
         /\ \A i \in 1 .. Len(a) :
              i \in 1 .. Len(a \o (<<e>> \o r)) /\ (a \o (<<e>> \o r))[i] = a[i]
<1>1. <<e>> \in Seq(S) /\ Len(<<e>>) = 1 /\ <<e>>[1] = e /\ Len(a) \in Nat /\ Len(r) \in Nat
  OBVIOUS
<1>2. <<e>> \o r \in Seq(S) /\ Len(<<e>> \o r) = 1 + Len(r) /\ (<<e>> \o r)[1] = e
  <2>1. ASSUME NEW u \in Seq(S), Len(u) = 1
        PROVE  u \o r \in Seq(S) /\ Len(u \o r) = 1 + Len(r) /\ (u \o r)[1] = u[1]
    <3>1. 1 \in 1 .. Len(u)
      BY <2>1
    <3>2. u \o r \in Seq(S) /\ Len(u \o r) = Len(u) + Len(r)
          /\ \A i \in 1 .. Len(u) : (u \o r)[i] = u[i]
      BY InConcat
    <3> QED BY <2>1, <3>1, <3>2
  <2> QED BY <1>1, <2>1
<1>3. 1 \in 1 .. Len(<<e>> \o r)
  BY <1>1, <1>2
<1>4. \A u \in Seq(S) : 1 \in 1 .. Len(u) =>
        /\ Len(a) + 1 \in 1 .. Len(a \o u) /\ (a \o u)[Len(a) + 1] = u[1]
        /\ \A i \in 1 .. Len(a) : i \in 1 .. Len(a \o u) /\ (a \o u)[i] = a[i]
  BY InConcat
<1> QED BY <1>2, <1>3, <1>4

\* Generations grow, so that validate_for never fails.
LEMMA NextIsValid ==
  ASSUME StreamIInv, NEW s \in Shards, Ready(s)
  PROVE  /\ Len(applied[s]) \in Nat
         /\ Len(applied[s]) + 1 \in 1 .. Len(published[s])
         /\ published[s][Len(applied[s]) + 1] = Head(Taken(s))
         /\ \A i \in 1 .. Len(applied[s]) : applied[s][i].generation < Head(Taken(s)).generation
         /\ Head(Taken(s)).generation \in 1 .. generation
         /\ current[s] \in Nat
         /\ Valid(s)
<1>1. /\ applied[s] \in Seq(Updates) /\ backlog[s] \o staged[s] \in Seq(Updates)
      /\ current[s] \in Nat
  BY DEF StreamIInv, LaneTypeOK
<1>2. /\ Head(Taken(s)) \in Updates /\ Left(s) \in Seq(Updates)
      /\ published[s] = applied[s] \o (<<Head(Taken(s))>> \o (Left(s) \o (backlog[s] \o staged[s])))
  BY TakenIsNext, Zenon
<1>3. Left(s) \o (backlog[s] \o staged[s]) \in Seq(Updates)
  BY <1>1, <1>2
<1>4. /\ Len(applied[s]) + 1 \in 1 .. Len(published[s])
      /\ published[s][Len(applied[s]) + 1] = Head(Taken(s))
      /\ \A i \in 1 .. Len(applied[s]) :
           i \in 1 .. Len(published[s]) /\ published[s][i] = applied[s][i]
  <2> DEFINE a == applied[s]
             e == Head(Taken(s))
             r == Left(s) \o (backlog[s] \o staged[s])
  <2>1. a \in Seq(Updates) /\ e \in Updates /\ r \in Seq(Updates) /\ published[s] = a \o (<<e>> \o r)
    BY <1>1, <1>2, <1>3
  <2> HIDE DEF a, e, r
  <2>2. /\ Len(a) + 1 \in 1 .. Len(published[s])
        /\ published[s][Len(a) + 1] = e
        /\ \A i \in 1 .. Len(a) : i \in 1 .. Len(published[s]) /\ published[s][i] = a[i]
    BY <2>1, NextEntry
  <2> QED BY <2>2 DEF a, e
<1>5. Len(applied[s]) \in Nat
  BY <1>1
<1>6. /\ \A i \in 1 .. Len(published[s]) : published[s][i].generation \in 1 .. generation
      /\ \A i, j \in 1 .. Len(published[s]) :
           i < j => published[s][i].generation < published[s][j].generation
  BY DEF StreamIInv, GenerationsGrow
<1>7. Head(Taken(s)).generation \in 1 .. generation
  BY <1>4, <1>6
<1>8. ASSUME NEW i \in 1 .. Len(applied[s])
      PROVE  applied[s][i].generation < Head(Taken(s)).generation
  <2>1. i < Len(applied[s]) + 1
    BY <1>5
  <2> QED BY <1>4, <1>6, <2>1, Zenon
<1>9. Valid(s)
  <2>1. CASE applied[s] = << >>
    <3>1. current[s] = 0
      BY <2>1 DEF StreamIInv, CurrentIsLast
    <3>2. generation \in Nat
      BY DEF StreamIInv, LaneTypeOK
    <3>3. Head(Taken(s)).generation > 0
      BY <1>7, <3>2
    <3> QED BY <3>1, <3>3 DEF Valid
  <2>2. CASE applied[s] # << >>
    <3>1. current[s] = applied[s][Len(applied[s])].generation
      BY <2>2 DEF StreamIInv, CurrentIsLast
    <3>2. Len(applied[s]) \in 1 .. Len(applied[s])
      BY <1>1, <2>2
    <3>3. current[s] < Head(Taken(s)).generation
      BY <1>8, <3>1, <3>2
    <3> QED BY <1>1, <1>2, <3>3 DEF Valid, Updates
  <2> QED BY <2>1, <2>2
<1> QED BY <1>1, <1>4, <1>5, <1>7, <1>8, <1>9

\* The operations of one iteration.
LEMMA ChunkFacts ==
  ASSUME StreamIInv, NEW s \in Shards, Ready(s)
  PROVE  /\ Head(Taken(s)).generation \in Nat /\ Head(Taken(s)).plans \in Nat
         /\ planIndex[s] \in Nat /\ planIndex[s] <= ChunkEnd(s)
         /\ ChunkEnd(s) \in Nat /\ ChunkEnd(s) <= Head(Taken(s)).plans
         /\ InstallOps(s) \in Seq(Operations)
         /\ PlanOps(s) \in Seq(Operations) /\ Len(PlanOps(s)) = ChunkEnd(s) - planIndex[s]
         /\ RetireOps(s) \in Seq(Operations)
<1>1. Head(Taken(s)) \in Updates
  BY TakenIsNext, Zenon
<1>2. Head(Taken(s)).generation \in Nat /\ Head(Taken(s)).plans \in Nat
  BY <1>1 DEF Updates
<1>3. planIndex[s] \in Nat
  BY DEF StreamIInv, LaneTypeOK
<1>4. planIndex[s] <= Head(Taken(s)).plans
  <2>1. CASE work[s] = << >>
    BY <1>2, <1>3, <2>1 DEF StreamIInv, InProgress
  <2>2. CASE work[s] # << >>
    <3>1. Taken(s) = work[s] /\ work[s] \in Seq(Updates)
      BY <2>2 DEF Taken, StreamIInv, LaneTypeOK
    <3>2. Head(Taken(s)) = work[s][1]
      BY <2>2, <3>1
    <3> QED BY <1>2, <1>3, <2>2, <3>2 DEF StreamIInv, InProgress
  <2> QED BY <2>1, <2>2
<1>5. planIndex[s] <= ChunkEnd(s) /\ ChunkEnd(s) \in Nat /\ ChunkEnd(s) <= Head(Taken(s)).plans
  BY <1>2, <1>3, <1>4, LaneAssumption DEF ChunkEnd
<1>6. InstallOps(s) \in Seq(Operations) /\ RetireOps(s) \in Seq(Operations)
  <2>1. <<Head(Taken(s)).generation, 0, 0>> \in Operations
        /\ <<Head(Taken(s)).generation, 2, 0>> \in Operations
    BY <1>2 DEF Operations
  <2> QED BY <2>1 DEF InstallOps, RetireOps
<1>7. PlanOps(s) \in Seq(Operations) /\ Len(PlanOps(s)) = ChunkEnd(s) - planIndex[s]
  <2>1. ChunkEnd(s) - planIndex[s] \in Nat
    BY <1>3, <1>5
  <2>2. \A k \in 1 .. ChunkEnd(s) - planIndex[s] :
          <<Head(Taken(s)).generation, 1, planIndex[s] + k>> \in Operations
    BY <1>2, <1>3, <2>1 DEF Operations
  <2> QED BY <2>1, <2>2 DEF PlanOps
<1> QED BY <1>2, <1>3, <1>5, <1>6, <1>7

\* A chunk that is not the last one.
LEMMA ChunkStep ==
  ASSUME StreamIInv, NEW s \in Shards, Ready(s), ApplyChunk(s)
  PROVE  StreamIInv'
<1> DEFINE u == Head(Taken(s))
<1>1. /\ u \in Updates /\ Taken(s) = <<u>> /\ Left(s) \in Seq(Updates)
      /\ published[s] = applied[s] \o (<<u>> \o (Left(s) \o (backlog[s] \o staged[s])))
  BY TakenIsNext, Zenon
<1>2. /\ ChunkEnd(s) \in Nat /\ ChunkEnd(s) < u.plans
      /\ executed[s] \o InstallOps(s) \o PlanOps(s) \in Seq(Operations)
  <2>1. InstallOps(s) \in Seq(Operations) /\ PlanOps(s) \in Seq(Operations) /\ ChunkEnd(s) \in Nat
    BY ChunkFacts
  <2>2. executed[s] \in Seq(Operations)
    BY DEF StreamIInv, LaneTypeOK
  <2> QED BY <2>1, <2>2 DEF ApplyChunk
<1>3. LaneTypeOK
  BY DEF StreamIInv
<1>4. /\ mailbox' = [mailbox EXCEPT ![s] = Left(s)]
      /\ work' = [work EXCEPT ![s] = <<u>>]
      /\ begun' = [begun EXCEPT ![s] = TRUE]
      /\ planIndex' = [planIndex EXCEPT ![s] = ChunkEnd(s)]
      /\ executed' = [executed EXCEPT ![s] = executed[s] \o InstallOps(s) \o PlanOps(s)]
      /\ UNCHANGED <<generation, phase, staged, backlog, published, limit, alive, current, applied>>
  <2>1. mailbox' = [mailbox EXCEPT ![s] = Left(s)]
    BY DEF ApplyChunk, Takes, Left
  <2> QED BY <1>1, <2>1, Zenon DEF ApplyChunk, controllerVars, writerVars
<1> HIDE DEF u
<1>5. LaneTypeOK'
  <2>1. <<u>> \in Seq(Updates)
    BY <1>1
  <2> QED BY <1>1, <1>2, <1>3, <1>4, <2>1, Zenon DEF LaneTypeOK
<1>6. /\ mailbox'[s] = Left(s) /\ work'[s] = <<u>> /\ begun'[s] /\ planIndex'[s] = ChunkEnd(s)
      /\ \A r \in Shards : r # s => /\ mailbox'[r] = mailbox[r] /\ work'[r] = work[r]
                                    /\ begun'[r] = begun[r] /\ planIndex'[r] = planIndex[r]
  BY <1>3, <1>4 DEF LaneTypeOK
<1>7. StreamWhole'
  <2> SUFFICES ASSUME NEW r \in Shards
               PROVE  published[r] = applied[r] \o (work'[r] \o (mailbox'[r] \o (backlog[r] \o staged[r])))
    BY <1>4, Zenon DEF StreamWhole, Coming
  <2>1. CASE r = s
    BY <1>1, <1>6, <2>1, Zenon
  <2>2. CASE r # s
    BY <1>6, <2>2, Zenon DEF StreamIInv, StreamWhole, Coming
  <2> QED BY <2>1, <2>2, Zenon
<1>8. InProgress'
  <2>1. Len(<<u>>) <= 1 /\ <<u>> # << >> /\ <<u>>[1] = u
    OBVIOUS
  <2>2. \A r \in Shards : r # s =>
          /\ Len(work[r]) <= 1
          /\ begun[r] <=> work[r] # << >>
          /\ work[r] = << >> => planIndex[r] = 0
          /\ work[r] # << >> => planIndex[r] < work[r][1].plans
    BY DEF StreamIInv, InProgress
  <2>3. ASSUME NEW r \in Shards
        PROVE  /\ Len(work'[r]) <= 1
               /\ begun'[r] <=> work'[r] # << >>
               /\ work'[r] = << >> => planIndex'[r] = 0
               /\ work'[r] # << >> => planIndex'[r] < work'[r][1].plans
    <3>1. CASE r = s
      BY <1>2, <1>6, <2>1, <3>1, ZenonT(30)
    <3>2. CASE r # s
      BY <1>6, <2>2, <3>2
    <3> QED BY <3>1, <3>2
  <2> QED BY <2>3 DEF InProgress
<1>9. StagedOnlyWhilePublishing' /\ GenerationsGrow' /\ CurrentIsLast'
  BY <1>4 DEF StreamIInv, StagedOnlyWhilePublishing, GenerationsGrow, CurrentIsLast
<1> QED BY <1>5, <1>7, <1>8, <1>9 DEF StreamIInv

\* The last chunk of an update.
LEMMA LastStep ==
  ASSUME StreamIInv, NEW s \in Shards, Ready(s), ApplyLast(s)
  PROVE  StreamIInv'
<1> DEFINE u == Head(Taken(s))
           new == executed[s] \o InstallOps(s) \o PlanOps(s) \o RetireOps(s)
<1>1. /\ u \in Updates /\ Left(s) \in Seq(Updates)
      /\ published[s] = applied[s] \o (<<u>> \o (Left(s) \o (backlog[s] \o staged[s])))
  BY TakenIsNext, Zenon
<1>2. new \in Seq(Operations)
  <2>1. InstallOps(s) \in Seq(Operations) /\ PlanOps(s) \in Seq(Operations)
        /\ RetireOps(s) \in Seq(Operations)
    BY ChunkFacts
  <2>2. executed[s] \in Seq(Operations)
    BY DEF StreamIInv, LaneTypeOK
  <2> QED BY <2>1, <2>2
<1>3. /\ LaneTypeOK /\ applied[s] \in Seq(Updates) /\ backlog[s] \o staged[s] \in Seq(Updates)
  BY DEF StreamIInv, LaneTypeOK
<1>4. /\ mailbox' = [mailbox EXCEPT ![s] = Left(s)]
      /\ work' = [work EXCEPT ![s] = << >>]
      /\ begun' = [begun EXCEPT ![s] = FALSE]
      /\ planIndex' = [planIndex EXCEPT ![s] = 0]
      /\ executed' = [executed EXCEPT ![s] = new]
      /\ current' = [current EXCEPT ![s] = u.generation]
      /\ applied' = [applied EXCEPT ![s] = Append(applied[s], u)]
      /\ UNCHANGED <<generation, phase, staged, backlog, published, limit, alive>>
  <2>1. mailbox' = [mailbox EXCEPT ![s] = Left(s)]
    BY DEF ApplyLast, Takes, Left
  <2> QED BY <2>1 DEF ApplyLast, ResetPending, controllerVars, writerVars
<1> HIDE DEF u, new
<1>5. LaneTypeOK'
  <2>1. << >> \in Seq(Updates) /\ Append(applied[s], u) \in Seq(Updates) /\ u.generation \in Nat
    BY <1>1, <1>3 DEF Updates
  <2> QED BY <1>1, <1>2, <1>3, <1>4, <2>1, Zenon DEF LaneTypeOK
<1>6. /\ mailbox'[s] = Left(s) /\ work'[s] = << >> /\ ~begun'[s] /\ planIndex'[s] = 0
      /\ current'[s] = u.generation /\ applied'[s] = Append(applied[s], u)
      /\ \A r \in Shards : r # s => /\ mailbox'[r] = mailbox[r] /\ work'[r] = work[r]
                                    /\ begun'[r] = begun[r] /\ planIndex'[r] = planIndex[r]
                                    /\ current'[r] = current[r] /\ applied'[r] = applied[r]
  BY <1>3, <1>4 DEF LaneTypeOK
<1>7. StreamWhole'
  <2> SUFFICES ASSUME NEW r \in Shards
               PROVE  published[r] = applied'[r] \o (work'[r] \o (mailbox'[r] \o (backlog[r] \o staged[r])))
    BY <1>4, Zenon DEF StreamWhole, Coming
  <2>1. CASE r = s
    <3>1. \A a, c \in Seq(Updates) : a \o (<<u>> \o c) = Append(a, u) \o (<< >> \o c)
      <4> SUFFICES ASSUME NEW a \in Seq(Updates), NEW c \in Seq(Updates)
                   PROVE  a \o (<<u>> \o c) = Append(a, u) \o (<< >> \o c)
        BY Zenon
      <4>1. << >> \in Seq(Updates) /\ <<u>> \o << >> = <<u>>
        BY <1>1
      <4>2. Append(a, u) \o (<< >> \o c) = a \o ((<<u>> \o << >>) \o c)
        <5>1. EntryMoved(a, u, << >>, c)
          BY <1>1, <4>1, EntryMoves, Zenon
        <5> QED BY <5>1, Zenon DEF EntryMoved
      <4> QED BY <4>1, <4>2
    <3>2. Left(s) \o (backlog[s] \o staged[s]) \in Seq(Updates)
      BY <1>1, <1>3
    <3> QED BY <1>1, <1>3, <1>6, <2>1, <3>1, <3>2, ZenonT(60)
  <2>2. CASE r # s
    BY <1>6, <2>2, Zenon DEF StreamIInv, StreamWhole, Coming
  <2> QED BY <2>1, <2>2, Zenon
<1>8. InProgress'
  <2>1. Len(<< >>) <= 1
    BY SMTT(30)
  <2>2. \A r \in Shards : r # s =>
          /\ Len(work[r]) <= 1
          /\ begun[r] <=> work[r] # << >>
          /\ work[r] = << >> => planIndex[r] = 0
          /\ work[r] # << >> => planIndex[r] < work[r][1].plans
    BY DEF StreamIInv, InProgress
  <2>3. ASSUME NEW r \in Shards
        PROVE  /\ Len(work'[r]) <= 1
               /\ begun'[r] <=> work'[r] # << >>
               /\ work'[r] = << >> => planIndex'[r] = 0
               /\ work'[r] # << >> => planIndex'[r] < work'[r][1].plans
    <3>1. CASE r = s
      BY <1>6, <2>1, <3>1
    <3>2. CASE r # s
      BY <1>6, <2>2, <3>2
    <3> QED BY <3>1, <3>2
  <2> QED BY <2>3 DEF InProgress
<1>9. CurrentIsLast'
  <2>1. ASSUME NEW r \in Shards
        PROVE  current'[r] = IF applied'[r] = << >> THEN 0 ELSE applied'[r][Len(applied'[r])].generation
    <3>1. CASE r = s
      <4>1. Append(applied[s], u) # << >> /\ Append(applied[s], u)[Len(Append(applied[s], u))] = u
        BY <1>1, <1>3
      <4> QED BY <1>6, <3>1, <4>1
    <3>2. CASE r # s
      BY <1>6, <3>2 DEF StreamIInv, CurrentIsLast
    <3> QED BY <3>1, <3>2
  <2> QED BY <2>1 DEF CurrentIsLast
<1>10. StagedOnlyWhilePublishing' /\ GenerationsGrow'
  BY <1>4 DEF StreamIInv, StagedOnlyWhilePublishing, GenerationsGrow
<1> QED BY <1>5, <1>7, <1>8, <1>9, <1>10 DEF StreamIInv

-----------------------------------------------------------------------------
(* The stream invariant holds.                                             *)

\* Nothing was published at the start.
LEMMA StreamInit == Init => StreamIInv
<1> SUFFICES ASSUME Init PROVE StreamIInv
  OBVIOUS
<1>1. /\ << >> \in Seq(Updates) /\ << >> \in Seq(Operations) /\ Len(<< >>) = 0
      /\ << >> \o << >> = << >>
  OBVIOUS
<1>2. LaneTypeOK
  BY <1>1 DEF Init, LaneTypeOK
<1>3. StreamWhole
  BY <1>1 DEF Init, StreamWhole, Coming
<1>4. StagedOnlyWhilePublishing /\ CurrentIsLast /\ InProgress
  BY <1>1 DEF Init, StagedOnlyWhilePublishing, CurrentIsLast, InProgress
<1>5. GenerationsGrow
  BY <1>1 DEF Init, GenerationsGrow
<1> QED BY <1>2, <1>3, <1>4, <1>5 DEF StreamIInv

\* Lanes in use are lanes.
LEMMA LanesAreShards == LaneTypeOK => Lanes \subseteq Shards
<1> SUFFICES ASSUME LaneTypeOK PROVE Lanes \subseteq Shards
  OBVIOUS
<1>1. limit.lanes \in 1 .. NumShards /\ NumShards \in Nat
  BY LaneAssumption DEF LaneTypeOK
<1>2. ASSUME NEW n \in 1 .. NumShards PROVE 1 .. n \subseteq 1 .. NumShards
  BY <1>1
<1> QED BY <1>1, <1>2 DEF Lanes, Shards

\* Every step keeps the stream whole.
LEMMA StreamNext == StreamIInv /\ [Next]_vars => StreamIInv'
<1> SUFFICES ASSUME StreamIInv, [Next]_vars PROVE StreamIInv'
  OBVIOUS
<1>1. alive \in [Shards -> BOOLEAN] /\ LaneTypeOK
  BY DEF StreamIInv, LaneTypeOK
<1>2. CASE \E targets \in (SUBSET Lanes) \ {{}}, plans \in limit.plans, fence \in BOOLEAN :
             Stage(targets, plans, fence)
  BY <1>2, StageStep
<1>3. CASE \E s \in Shards : Publish(s)
  BY <1>3, SendStep, PublishStep DEF Publish
<1>4. ASSUME NEW s \in Shards, Flush(s) PROVE StreamIInv'
  <2>1. CASE FlushSend(s)
    BY <2>1, SendStep, Zenon
  <2>2. CASE FlushIdle(s) \/ FlushBlocked(s)
    BY <1>1, <2>2, QuietStep, Zenon DEF FlushIdle, FlushBlocked, writerVars, shardVars
  <2> QED BY <1>4, <2>1, <2>2 DEF Flush
<1>5. CASE PublishEnd \/ FlushBegin \/ FlushEnd
  <2>1. UNCHANGED <<generation, limit, staged, backlog, mailbox, work, begun, planIndex,
                    current, applied, executed, published, alive>>
    BY <1>5 DEF PublishEnd, FlushBegin, FlushEnd, writerVars, shardVars
  <2>2. phase' # "publish" => phase # "publish" \/ \A s \in Shards : staged[s] = << >>
    BY <1>5 DEF PublishEnd, FlushBegin, FlushEnd
  <2> QED BY <1>1, <2>1, <2>2, QuietStep
<1>6. ASSUME NEW s \in Lanes, Apply(s) PROVE StreamIInv'
  <2>1. s \in Shards
    BY <1>1, LanesAreShards
  <2>2. Ready(s)
    BY <1>6 DEF Apply
  <2>3. ApplyChunk(s) \/ ApplyLast(s)
    BY <1>6, <2>1, <2>2, NextIsValid DEF Apply
  <2> QED BY <2>1, <2>2, <2>3, ChunkStep, LastStep
<1>7. ASSUME NEW s \in Lanes, Stop(s) PROVE StreamIInv'
  <2>1. alive' \in [Shards -> BOOLEAN]
    BY <1>1, <1>7, Zenon DEF Stop
  <2> QED BY <1>7, <2>1, QuietStep DEF Stop, controllerVars, writerVars
<1>8. CASE UNCHANGED vars
  BY <1>1, <1>8, QuietStep DEF vars, writerVars, shardVars
<1> QED BY <1>2, <1>3, <1>4, <1>5, <1>6, <1>7, <1>8 DEF Next, Controller

\* However sends, flushes and chunks interleave, what a shard has applied and what
\* is on its way to it are together exactly what was published to it, in order.
THEOREM StreamAlwaysWhole == Spec => []StreamIInv
BY StreamInit, StreamNext, PTL DEF Spec

-----------------------------------------------------------------------------
(* The operations executed.                                                *)

Elements(e) == {e[i] : i \in 1 .. Len(e)}
Sorted(e) == \A i, j \in 1 .. Len(e) : i < j => Before(e[i], e[j])
AllBefore(S, T) == \A a \in S, b \in T : Before(a, b)

\* The operations of the updates applied.
Older(s) == UNION {Ops(applied[s][i]) : i \in 1 .. Len(applied[s])}

\* Operations of generation g up to plan n.
Upto(g, n) == {<<g, 0, 0>>} \cup {<<g, 1, k>> : k \in 1 .. n}

\* What a concatenation holds, and when it is sorted.
LEMMA SortedConcat ==
  ASSUME NEW e \in Seq(Operations), NEW f \in Seq(Operations),
         Sorted(e), Sorted(f), AllBefore(Elements(e), Elements(f))
  PROVE  /\ e \o f \in Seq(Operations)
         /\ Sorted(e \o f)
         /\ Elements(e \o f) = Elements(e) \cup Elements(f)
<1>1. Len(e) \in Nat /\ Len(f) \in Nat
  OBVIOUS
<1>2. /\ Len(e \o f) = Len(e) + Len(f) /\ e \o f \in Seq(Operations)
      /\ \A i \in 1 .. Len(e) : i \in 1 .. Len(e \o f) /\ (e \o f)[i] = e[i]
      /\ \A i \in 1 .. Len(f) : Len(e) + i \in 1 .. Len(e \o f) /\ (e \o f)[Len(e) + i] = f[i]
  BY InConcat
<1>3. ASSUME NEW i \in 1 .. Len(e) + Len(f), i \notin 1 .. Len(e)
      PROVE  \E k \in 1 .. Len(f) : i = Len(e) + k
  <2>1. i - Len(e) \in 1 .. Len(f) /\ i = Len(e) + (i - Len(e))
    BY <1>1, <1>3
  <2> QED BY <2>1
<1> DEFINE n == Len(e)
           h == e \o f
<1>4. /\ n \in Nat /\ Len(h) = n + Len(f)
      /\ \A i \in 1 .. n : i \in 1 .. Len(h) /\ h[i] = e[i]
      /\ \A i \in 1 .. Len(f) : n + i \in 1 .. Len(h) /\ h[n + i] = f[i]
      /\ \A i \in 1 .. Len(h) : i \notin 1 .. n => \E k \in 1 .. Len(f) : i = n + k
      /\ Elements(e) = {e[i] : i \in 1 .. n}
      /\ \A i, j \in 1 .. n : i < j => Before(e[i], e[j])
  BY <1>1, <1>2, <1>3 DEF Elements, Sorted
<1> HIDE DEF n, h
<1>5. ASSUME NEW i \in 1 .. Len(h), NEW j \in 1 .. Len(h), i < j
      PROVE  Before(h[i], h[j])
  <2>1. CASE j \in 1 .. n
    <3>1. i \in 1 .. n
      BY <1>1, <1>4, <1>5, <2>1
    <3> QED BY <1>4, <1>5, <2>1, <3>1
  <2>2. CASE j \notin 1 .. n
    <3>1. PICK k \in 1 .. Len(f) : j = n + k
      BY <1>4, <2>2
    <3>2. h[j] = f[k]
      BY <1>4, <3>1
    <3>3. CASE i \in 1 .. n
      <4>1. h[i] \in Elements(e) /\ f[k] \in Elements(f)
        BY <1>4, <3>3, Zenon DEF Elements
      <4> QED BY <3>2, <4>1 DEF AllBefore
    <3>4. CASE i \notin 1 .. n
      <4>1. PICK l \in 1 .. Len(f) : i = n + l
        BY <1>4, <3>4
      <4>2. h[i] = f[l]
        BY <1>4, <4>1
      <4>3. l < k
        BY <1>1, <1>4, <1>5, <3>1, <4>1
      <4> QED BY <3>2, <4>2, <4>3 DEF Sorted
    <3> QED BY <3>3, <3>4
  <2> QED BY <2>1, <2>2
<1>6. Elements(h) \subseteq Elements(e) \cup Elements(f)
  <2> SUFFICES ASSUME NEW i \in 1 .. Len(h) PROVE h[i] \in Elements(e) \cup Elements(f)
    BY DEF Elements
  <2>1. CASE i \in 1 .. n
    BY <1>4, <2>1
  <2>2. CASE i \notin 1 .. n
    <3>1. PICK k \in 1 .. Len(f) : i = n + k
      BY <1>4, <2>2
    <3>2. h[i] = f[k]
      BY <1>4, <3>1
    <3> QED BY <3>2 DEF Elements
  <2> QED BY <2>1, <2>2
<1>7. Elements(e) \subseteq Elements(h)
  BY <1>4, Zenon DEF Elements
<1>8. Elements(f) \subseteq Elements(h)
  BY <1>4 DEF Elements
<1>9. Sorted(h)
  BY <1>5 DEF Sorted
<1> QED BY <1>2, <1>6, <1>7, <1>8, <1>9 DEF h

\* A single operation.
LEMMA SortedOne ==
  ASSUME NEW op \in Operations
  PROVE  <<op>> \in Seq(Operations) /\ Sorted(<<op>>) /\ Elements(<<op>>) = {op}
<1>1. <<op>> \in Seq(Operations) /\ Len(<<op>>) = 1 /\ <<op>>[1] = op
  OBVIOUS
<1>2. 1 .. 1 = {1}
  OBVIOUS
<1>3. Sorted(<<op>>)
  BY <1>1, <1>2 DEF Sorted
<1> QED BY <1>1, <1>2, <1>3 DEF Elements

\* The plans of a chunk.
LEMMA SortedPlans ==
  ASSUME StreamIInv, NEW s \in Shards, Ready(s)
  PROVE  /\ Sorted(PlanOps(s))
         /\ Elements(PlanOps(s)) =
              {<<Head(Taken(s)).generation, 1, k>> : k \in planIndex[s] + 1 .. ChunkEnd(s)}
<1> DEFINE g == Head(Taken(s)).generation
           n == planIndex[s]
           m == ChunkEnd(s)
<1>1. /\ g \in Nat /\ n \in Nat /\ m \in Nat /\ n <= m
      /\ Len(PlanOps(s)) = m - n
  BY ChunkFacts
<1>2. \A k \in 1 .. m - n : PlanOps(s)[k] = <<g, 1, n + k>>
  BY DEF PlanOps
<1> HIDE DEF g, n, m
<1>3. Sorted(PlanOps(s))
  <2> SUFFICES ASSUME NEW i \in 1 .. m - n, NEW j \in 1 .. m - n, i < j
               PROVE  Before(<<g, 1, n + i>>, <<g, 1, n + j>>)
    BY <1>1, <1>2, Zenon DEF Sorted
  <2>1. n + i < n + j
    BY <1>1
  <2> QED BY <2>1 DEF Before
<1>4. {<<g, 1, n + k>> : k \in 1 .. m - n} = {<<g, 1, k>> : k \in n + 1 .. m}
  <2>1. ASSUME NEW k \in 1 .. m - n PROVE n + k \in n + 1 .. m
    BY <1>1
  <2>2. ASSUME NEW k \in n + 1 .. m PROVE k - n \in 1 .. m - n /\ n + (k - n) = k
    BY <1>1
  <2> QED BY <2>1, <2>2
<1>5. Elements(PlanOps(s)) = {<<g, 1, n + k>> : k \in 1 .. m - n}
  BY <1>1, <1>2, Zenon DEF Elements
<1> QED BY <1>3, <1>4, <1>5 DEF g, n, m

\* Everything executed for older updates comes before the next update.
LEMMA OlderIsOlder ==
  ASSUME StreamIInv, NEW s \in Shards, Ready(s), NEW op \in Older(s)
  PROVE  op[1] < Head(Taken(s)).generation
<1>1. PICK i \in 1 .. Len(applied[s]) : op \in Ops(applied[s][i])
  BY DEF Older
<1>2. op[1] = applied[s][i].generation
  BY <1>1 DEF Ops
<1> QED BY <1>1, <1>2, NextIsValid

\* The installs and the plans of a chunk extend what was executed.
LEMMA ChunkExtends ==
  ASSUME StreamIInv, ExecutedInOrder, NEW s \in Shards, Ready(s)
  PROVE  LET new == executed[s] \o InstallOps(s) \o PlanOps(s) IN
         /\ new \in Seq(Operations)
         /\ Sorted(new)
         /\ Elements(new) = Older(s) \cup Upto(Head(Taken(s)).generation, ChunkEnd(s))
<1> DEFINE g == Head(Taken(s)).generation
           n == planIndex[s]
           m == ChunkEnd(s)
           e == executed[s]
           old == Older(s)
<1>1. /\ g \in Nat /\ n \in Nat /\ m \in Nat /\ n <= m
      /\ PlanOps(s) \in Seq(Operations) /\ InstallOps(s) \in Seq(Operations)
  BY ChunkFacts
<1>2. /\ Sorted(PlanOps(s)) /\ Elements(PlanOps(s)) = {<<g, 1, k>> : k \in n + 1 .. m}
  BY SortedPlans
<1>3. \A op \in old : op[1] < g
  BY OlderIsOlder
<1>4. e \in Seq(Operations) /\ Sorted(e) /\ Elements(e) = old \cup BegunOps(s)
  <2>1. e \in Seq(Operations)
    BY DEF StreamIInv, LaneTypeOK
  <2>2. Sorted(e)
    BY DEF ExecutedInOrder, Sorted
  <2>3. Elements(e) = old \cup BegunOps(s)
    <3>1. {executed[s][i] : i \in 1 .. Len(executed[s])} =
            (UNION {Ops(applied[s][i]) : i \in 1 .. Len(applied[s])}) \cup BegunOps(s)
      BY Zenon DEF ExecutedInOrder
    <3> QED BY <3>1, Zenon DEF Elements, Older
  <2> QED BY <2>1, <2>2, <2>3
<1>5. \/ begun[s] /\ BegunOps(s) = Upto(g, n) /\ InstallOps(s) = << >>
      \/ ~begun[s] /\ BegunOps(s) = {} /\ InstallOps(s) = << <<g, 0, 0>> >> /\ n = 0
  <2>1. /\ begun[s] <=> work[s] # << >>
        /\ work[s] = << >> => planIndex[s] = 0
    BY DEF StreamIInv, InProgress
  <2>2. CASE work[s] = << >>
    BY <2>1, <2>2 DEF BegunOps, InstallOps
  <2>3. CASE work[s] # << >>
    <3>1. Taken(s) = work[s]
      BY <2>3 DEF Taken
    <3> QED BY <2>1, <2>3, <3>1 DEF BegunOps, InstallOps, Upto
  <2> QED BY <2>2, <2>3
<1> HIDE DEF g, n, m, e, old
<1>6. /\ e \o InstallOps(s) \in Seq(Operations) /\ Sorted(e \o InstallOps(s))
      /\ Elements(e \o InstallOps(s)) = old \cup Upto(g, n)
  <2>1. CASE InstallOps(s) = << >> /\ BegunOps(s) = Upto(g, n)
    <3>1. e \o << >> = e
      BY <1>4
    <3> QED BY <1>4, <2>1, <3>1
  <2>2. CASE InstallOps(s) = << <<g, 0, 0>> >> /\ BegunOps(s) = {} /\ n = 0
    <3>1. <<g, 0, 0>> \in Operations
      BY <1>1 DEF Operations
    <3>2. /\ << <<g, 0, 0>> >> \in Seq(Operations) /\ Sorted(<< <<g, 0, 0>> >>)
          /\ Elements(<< <<g, 0, 0>> >>) = {<<g, 0, 0>>}
      BY <3>1, SortedOne
    <3>3. AllBefore(old, {<<g, 0, 0>>})
      BY <1>3 DEF AllBefore, Before
    <3>4. AllBefore(Elements(e), Elements(InstallOps(s)))
      BY <1>4, <2>2, <3>2, <3>3, Zenon
    <3>5. /\ e \o InstallOps(s) \in Seq(Operations) /\ Sorted(e \o InstallOps(s))
          /\ Elements(e \o InstallOps(s)) = Elements(e) \cup Elements(InstallOps(s))
      BY <1>4, <2>2, <3>2, <3>4, SortedConcat, Zenon
    <3>6. Upto(g, 0) = {<<g, 0, 0>>}
      BY DEF Upto
    <3> QED BY <1>4, <2>2, <3>2, <3>5, <3>6
  <2> QED BY <1>5, <2>1, <2>2
<1>7. AllBefore(old \cup Upto(g, n), Elements(PlanOps(s)))
  <2> SUFFICES ASSUME NEW a \in old \cup Upto(g, n), NEW k \in n + 1 .. m
               PROVE  Before(a, <<g, 1, k>>)
    BY <1>2 DEF AllBefore
  <2>1. CASE a \in old
    BY <1>3, <2>1 DEF Before
  <2>2. CASE a = <<g, 0, 0>>
    BY <2>2 DEF Before
  <2>3. ASSUME NEW l \in 1 .. n, a = <<g, 1, l>> PROVE Before(a, <<g, 1, k>>)
    <3>1. l < k
      BY <1>1
    <3> QED BY <2>3, <3>1 DEF Before
  <2> QED BY <2>1, <2>2, <2>3 DEF Upto
<1>8. /\ (e \o InstallOps(s)) \o PlanOps(s) \in Seq(Operations)
      /\ Sorted((e \o InstallOps(s)) \o PlanOps(s))
      /\ Elements((e \o InstallOps(s)) \o PlanOps(s))
           = (old \cup Upto(g, n)) \cup {<<g, 1, k>> : k \in n + 1 .. m}
  <2> DEFINE f == e \o InstallOps(s)
  <2>1. f \in Seq(Operations) /\ Sorted(f) /\ Elements(f) = old \cup Upto(g, n)
    BY <1>6
  <2> HIDE DEF f
  <2>2. /\ f \o PlanOps(s) \in Seq(Operations) /\ Sorted(f \o PlanOps(s))
        /\ Elements(f \o PlanOps(s)) = Elements(f) \cup Elements(PlanOps(s))
    BY <1>1, <1>2, <1>7, <2>1, SortedConcat, ZenonT(30)
  <2> QED BY <1>2, <2>1, <2>2 DEF f
<1>9. Upto(g, n) \cup {<<g, 1, k>> : k \in n + 1 .. m} = Upto(g, m)
  <2>1. (1 .. n) \cup (n + 1 .. m) = 1 .. m
    BY <1>1
  <2> QED BY <2>1 DEF Upto
<1> QED BY <1>8, <1>9 DEF g, m, e, old

\* Steps that apply nothing.
LEMMA NothingExecuted ==
  ASSUME ExecutedInOrder, UNCHANGED <<executed, applied, work, planIndex>>
  PROVE  ExecutedInOrder'
<1>1. ASSUME NEW s \in Shards PROVE BegunOps(s)' = BegunOps(s)
  BY DEF BegunOps
<1>2. executed' = executed /\ applied' = applied
  OBVIOUS
<1>3. ASSUME NEW s \in Shards
      PROVE  \A i, j \in 1 .. Len(executed'[s]) : i < j => Before(executed'[s][i], executed'[s][j])
  BY <1>2 DEF ExecutedInOrder
<1>4. ASSUME NEW s \in Shards
      PROVE  {executed'[s][i] : i \in 1 .. Len(executed'[s])} =
               (UNION {Ops(applied'[s][i]) : i \in 1 .. Len(applied'[s])}) \cup BegunOps(s)'
  <2>1. {executed[s][i] : i \in 1 .. Len(executed[s])} =
          (UNION {Ops(applied[s][i]) : i \in 1 .. Len(applied[s])}) \cup BegunOps(s)
    BY SMTT(30) DEF ExecutedInOrder
  <2> QED BY <1>1, <1>2, <2>1
<1> QED BY <1>3, <1>4, Zenon DEF ExecutedInOrder

\* One iteration executes the next operations of the update it works on.
LEMMA ApplyExecutes ==
  ASSUME StreamIInv, ExecutedInOrder, NEW s \in Shards, Ready(s), ApplyChunk(s) \/ ApplyLast(s)
  PROVE  ExecutedInOrder'
<1> DEFINE u == Head(Taken(s))
           g == u.generation
           m == ChunkEnd(s)
           new == executed[s] \o InstallOps(s) \o PlanOps(s)
           old == Older(s)
<1>1. new \in Seq(Operations) /\ Sorted(new) /\ Elements(new) = old \cup Upto(g, m)
  BY ChunkExtends
<1>2. u \in Updates /\ Taken(s) = <<u>> /\ g \in Nat /\ m \in Nat /\ Head(<<u>>) = u
  BY TakenIsNext, ChunkFacts, Zenon
<1>3. \A op \in old : op[1] < g
  BY OlderIsOlder
<1>4. /\ executed \in [Shards -> Seq(Operations)] /\ applied \in [Shards -> Seq(Updates)]
      /\ work \in [Shards -> Seq(Updates)] /\ planIndex \in [Shards -> Nat]
  BY SMTT(30) DEF StreamIInv, LaneTypeOK
<1>5. \A r \in Shards : r # s => /\ executed'[r] = executed[r] /\ applied'[r] = applied[r]
                                 /\ work'[r] = work[r] /\ planIndex'[r] = planIndex[r]
  BY <1>4, SMTT(30) DEF ApplyChunk, ApplyLast, ResetPending
<1>6. ASSUME NEW r \in Shards, r # s
      PROVE  /\ Sorted(executed'[r])
             /\ Elements(executed'[r]) =
                  (UNION {Ops(applied'[r][i]) : i \in 1 .. Len(applied'[r])}) \cup BegunOps(r)'
  <2>1. BegunOps(r)' = BegunOps(r)
    BY <1>5, <1>6, ZenonT(30) DEF BegunOps
  <2>2. Sorted(executed[r])
    BY DEF ExecutedInOrder, Sorted
  <2>3. Elements(executed[r]) =
          (UNION {Ops(applied[r][i]) : i \in 1 .. Len(applied[r])}) \cup BegunOps(r)
    BY ZenonT(30) DEF ExecutedInOrder, Elements
  <2> QED BY <1>5, <1>6, <2>1, <2>2, <2>3
<1>7. ASSUME ApplyChunk(s)
      PROVE  /\ Sorted(executed'[s])
             /\ Elements(executed'[s]) =
                  (UNION {Ops(applied'[s][i]) : i \in 1 .. Len(applied'[s])}) \cup BegunOps(s)'
  <2>1. /\ executed'[s] = new /\ work'[s] = <<u>> /\ planIndex'[s] = m /\ applied'[s] = applied[s]
    BY <1>2, <1>4, <1>7, SMTT(30) DEF ApplyChunk
  <2>2. BegunOps(s)' = Upto(g, m)
    <3>1. <<u>> # << >>
      OBVIOUS
    <3> QED BY <1>2, <2>1, <3>1 DEF BegunOps, Upto
  <2>3. UNION {Ops(applied'[s][i]) : i \in 1 .. Len(applied'[s])} = old
    BY <2>1 DEF Older
  <2> QED BY <1>1, <2>1, <2>2, <2>3
<1>8. ASSUME ApplyLast(s)
      PROVE  /\ Sorted(executed'[s])
             /\ Elements(executed'[s]) =
                  (UNION {Ops(applied'[s][i]) : i \in 1 .. Len(applied'[s])}) \cup BegunOps(s)'
  <2> DEFINE last == <<g, 2, 0>>
  <2>1. /\ executed'[s] = new \o <<last>> /\ work'[s] = << >> /\ m = u.plans
        /\ applied'[s] = Append(applied[s], u)
    BY <1>4, <1>8, SMTT(30) DEF ApplyLast, ResetPending, RetireOps
  <2>2. BegunOps(s)' = {}
    BY <2>1, Zenon DEF BegunOps
  <2>3. Upto(g, m) \cup {last} = Ops(u)
    BY <2>1 DEF Upto, Ops
  <2>4. UNION {Ops(applied'[s][i]) : i \in 1 .. Len(applied'[s])} = old \cup Ops(u)
    <3>1. applied[s] \in Seq(Updates) /\ Len(applied[s]) \in Nat
      BY <1>4
    <3>2. /\ Len(applied'[s]) = Len(applied[s]) + 1
          /\ \A i \in 1 .. Len(applied[s]) : applied'[s][i] = applied[s][i]
          /\ applied'[s][Len(applied[s]) + 1] = u
      BY <1>2, <2>1, <3>1
    <3>3. 1 .. Len(applied'[s]) = (1 .. Len(applied[s])) \cup {Len(applied[s]) + 1}
      BY <3>1, <3>2
    <3> HIDE DEF u
    <3> QED BY <3>2, <3>3, SMTT(30) DEF Older
  <2>5. last \in Operations
    BY <1>2 DEF Operations
  <2> HIDE DEF last, new, old, g, m
  <2>6. /\ <<last>> \in Seq(Operations) /\ Sorted(<<last>>) /\ Elements(<<last>>) = {last}
    BY <2>5, SortedOne
  <2>7. AllBefore(old \cup Upto(g, m), {last})
    <3>1. ASSUME NEW a \in old PROVE Before(a, last)
      BY <1>3 DEF Before, last
    <3>2. ASSUME NEW a \in Upto(g, m) PROVE Before(a, last)
      BY DEF Before, Upto, last
    <3> QED BY <3>1, <3>2 DEF AllBefore
  <2>8. /\ Sorted(new \o <<last>>) /\ Elements(new \o <<last>>) = Elements(new) \cup Elements(<<last>>)
    BY <1>1, <2>6, <2>7, SortedConcat, ZenonT(30)
  <2> QED BY <1>1, <2>1, <2>2, <2>3, <2>4, <2>6, <2>8, ZenonT(30)
<1>9. ASSUME NEW r \in Shards
      PROVE  /\ Sorted(executed'[r])
             /\ Elements(executed'[r]) =
                  (UNION {Ops(applied'[r][i]) : i \in 1 .. Len(applied'[r])}) \cup BegunOps(r)'
  BY <1>6, <1>7, <1>8
<1> QED BY <1>9 DEF ExecutedInOrder, Sorted, Elements

\* Nothing was executed at the start.
LEMMA ExecutedInit == Init => ExecutedInOrder
<1> SUFFICES ASSUME Init, NEW s \in Shards
             PROVE  /\ Sorted(executed[s])
                    /\ Elements(executed[s]) =
                         (UNION {Ops(applied[s][i]) : i \in 1 .. Len(applied[s])}) \cup BegunOps(s)
  BY Zenon DEF ExecutedInOrder, Sorted, Elements
<1>1. executed[s] = << >> /\ applied[s] = << >> /\ work[s] = << >>
  BY DEF Init
<1>2. 1 .. Len(<< >>) = {}
  OBVIOUS
<1>3. BegunOps(s) = {}
  BY <1>1 DEF BegunOps
<1>4. Sorted(executed[s]) /\ Elements(executed[s]) = {}
  BY <1>1, <1>2 DEF Sorted, Elements
<1>5. UNION {Ops(applied[s][i]) : i \in 1 .. Len(applied[s])} = {}
  BY <1>1, <1>2
<1> QED BY <1>3, <1>4, <1>5, Zenon

\* A shard executes every operation of what it applies once, and in order.
LEMMA ExecutedNext == StreamIInv /\ ExecutedInOrder /\ [Next]_vars => ExecutedInOrder'
<1> SUFFICES ASSUME StreamIInv, ExecutedInOrder, [Next]_vars PROVE ExecutedInOrder'
  OBVIOUS
<1>1. CASE UNCHANGED <<executed, applied, work, planIndex>>
  BY <1>1, NothingExecuted
<1>2. ASSUME NEW s \in Lanes, Apply(s) PROVE ExecutedInOrder'
  <2>1. s \in Shards
    BY LanesAreShards DEF StreamIInv
  <2>2. Ready(s)
    BY <1>2 DEF Apply
  <2>3. ApplyChunk(s) \/ ApplyLast(s)
    BY <1>2, <2>1, <2>2, NextIsValid DEF Apply
  <2> QED BY <2>1, <2>2, <2>3, ApplyExecutes
<1>3. CASE Controller
  BY <1>1, <1>3, Zenon DEF Controller, PublishEnd, FlushBegin, FlushEnd, Publish, PublishFlush, PublishSend,
     PublishDefer, Flush, FlushSend, FlushIdle, FlushBlocked, shardVars
<1>4. CASE \E targets \in (SUBSET Lanes) \ {{}}, plans \in limit.plans, fence \in BOOLEAN :
             Stage(targets, plans, fence)
  BY <1>1, <1>4, Zenon DEF Stage, shardVars
<1>5. CASE \E s \in Lanes : Stop(s)
  BY <1>1, <1>5 DEF Stop
<1>6. CASE UNCHANGED vars
  BY <1>1, <1>6 DEF vars, shardVars
<1> QED BY <1>2, <1>3, <1>4, <1>5, <1>6 DEF Next

\* For any number of shards, lanes and updates, every mailbox capacity and every
\* plan budget, a shard executes each operation of each update exactly once:
\* generations in order, and within one installs, plans, retirements.
THEOREM AlwaysExecutedInOrder == Spec => []ExecutedInOrder
BY ExecutedInit, StreamInit, StreamNext, ExecutedNext, PTL DEF Spec

-----------------------------------------------------------------------------
(* Cutoff fences.                                                          *)

\* Only the last chunk of a fenced update acknowledges, and it applies the update.
LEMMA AckedNext == StreamIInv /\ AckedApplied /\ [Next]_vars => AckedApplied'
<1> SUFFICES ASSUME StreamIInv, AckedApplied, [Next]_vars PROVE AckedApplied'
  OBVIOUS
<1>1. CASE UNCHANGED <<acked, applied>>
  BY <1>1, Zenon DEF AckedApplied
<1>2. ASSUME NEW s \in Lanes, Apply(s) PROVE AckedApplied'
  <2>1. s \in Shards
    BY LanesAreShards DEF StreamIInv
  <2>2. Ready(s)
    BY <1>2 DEF Apply
  <2>3. ApplyChunk(s) \/ ApplyLast(s)
    BY <1>2, <2>1, <2>2, NextIsValid DEF Apply
  <2>4. CASE ApplyChunk(s)
    BY <1>1, <2>4 DEF ApplyChunk
  <2>5. CASE ApplyLast(s)
    <3> DEFINE u == Head(Taken(s))
    <3>1. /\ applied' = [applied EXCEPT ![s] = Append(@, u)]
          /\ acked' = IF u.fence THEN acked \cup {<<s, u.generation>>} ELSE acked
      BY <2>5 DEF ApplyLast
    <3>2. applied \in [Shards -> Seq(Updates)] /\ u \in Updates
      BY <2>1, <2>2, TakenIsNext, Zenon DEF StreamIInv, LaneTypeOK
    <3> HIDE DEF u
    <3>3. /\ applied'[s] = Append(applied[s], u) /\ Len(applied'[s]) = Len(applied[s]) + 1
          /\ \A i \in 1 .. Len(applied[s]) :
               i \in 1 .. Len(applied'[s]) /\ applied'[s][i] = applied[s][i]
          /\ Len(applied'[s]) \in 1 .. Len(applied'[s]) /\ applied'[s][Len(applied'[s])] = u
          /\ \A r \in Shards : r # s => applied'[r] = applied[r]
      <4>1. applied'[s] = Append(applied[s], u) /\ applied[s] \in Seq(Updates)
            /\ \A r \in Shards : r # s => applied'[r] = applied[r]
        BY <2>1, <3>1, <3>2
      <4> QED BY <3>2, <4>1
    <3> SUFFICES ASSUME NEW r \in Shards, NEW g \in Nat, <<r, g>> \in acked'
                 PROVE  \E i \in 1 .. Len(applied'[r]) : applied'[r][i].generation = g
      BY DEF AckedApplied
    <3>4. CASE <<r, g>> \in acked
      <4>1. PICK i \in 1 .. Len(applied[r]) : applied[r][i].generation = g
        BY <3>4 DEF AckedApplied
      <4>2. CASE r = s
        BY <3>3, <4>1, <4>2, Zenon
      <4>3. CASE r # s
        BY <3>3, <4>1, <4>3
      <4> QED BY <4>2, <4>3
    <3>5. CASE <<r, g>> = <<s, u.generation>>
      BY <3>3, <3>5, Zenon
    <3> QED BY <3>1, <3>4, <3>5, Zenon
  <2> QED BY <2>3, <2>4, <2>5
<1>3. CASE Controller
  BY <1>1, <1>3, Zenon DEF Controller, PublishEnd, FlushBegin, FlushEnd, Publish, PublishFlush, PublishSend,
     PublishDefer, Flush, FlushSend, FlushIdle, FlushBlocked, shardVars
<1>4. CASE \E targets \in (SUBSET Lanes) \ {{}}, plans \in limit.plans, fence \in BOOLEAN :
             Stage(targets, plans, fence)
  BY <1>1, <1>4, Zenon DEF Stage, shardVars
<1>5. CASE \E s \in Lanes : Stop(s)
  BY <1>1, <1>5 DEF Stop
<1>6. CASE UNCHANGED vars
  BY <1>1, <1>6 DEF vars, shardVars
<1> QED BY <1>2, <1>3, <1>4, <1>5, <1>6 DEF Next

\* What was published up to an applied update was applied.
LEMMA AppliedIsPrefix ==
  ASSUME StreamIInv, NEW s \in Shards
  PROVE  /\ Len(applied[s]) \in Nat
         /\ \A i \in 1 .. Len(applied[s]) : i \in 1 .. Len(published[s]) /\ published[s][i] = applied[s][i]
<1> DEFINE a == applied[s]
           c == Coming(s)
<1>1. a \in Seq(Updates) /\ c \in Seq(Updates) /\ published[s] = a \o c
  <2>1. /\ a \in Seq(Updates) /\ work[s] \in Seq(Updates) /\ mailbox[s] \in Seq(Updates)
        /\ backlog[s] \o staged[s] \in Seq(Updates)
    BY DEF StreamIInv, LaneTypeOK
  <2>2. mailbox[s] \o (backlog[s] \o staged[s]) \in Seq(Updates)
    BY <2>1
  <2>3. c \in Seq(Updates)
    BY <2>1, <2>2 DEF Coming
  <2> QED BY <2>1, <2>3 DEF StreamIInv, StreamWhole
<1> HIDE DEF a, c
<1>2. Len(a) \in Nat /\ \A i \in 1 .. Len(a) : i \in 1 .. Len(published[s]) /\ published[s][i] = a[i]
  BY <1>1, InConcat
<1> QED BY <1>2, Zenon DEF a

\* An acknowledged fence covers what was published before it.
LEMMA FenceFollows == StreamIInv /\ ExecutedInOrder /\ AckedApplied => FenceCoversEarlier
<1> SUFFICES ASSUME StreamIInv, ExecutedInOrder, AckedApplied,
                    NEW s \in Shards, NEW i \in 1 .. Len(published[s]), NEW g \in 1 .. generation,
                    <<s, g>> \in acked, published[s][i].generation <= g,
                    NEW op \in Ops(published[s][i])
             PROVE  \E k \in 1 .. Len(executed[s]) : executed[s][k] = op
  BY Zenon DEF FenceCoversEarlier
<1>1. g \in Nat /\ generation \in Nat
  BY DEF StreamIInv, LaneTypeOK
<1>2. PICK j \in 1 .. Len(applied[s]) : applied[s][j].generation = g
  BY <1>1 DEF AckedApplied
<1>3. /\ Len(applied[s]) \in Nat /\ j \in 1 .. Len(published[s])
      /\ \A n \in 1 .. Len(applied[s]) : published[s][n] = applied[s][n]
  BY AppliedIsPrefix, SMTT(30)
<1>4. published[s] \in Seq(Updates) /\ Len(published[s]) \in Nat
  BY DEF StreamIInv, LaneTypeOK
<1>5. ~(j < i)
  <2> SUFFICES ASSUME j < i PROVE FALSE
    OBVIOUS
  <2>1. published[s][j].generation < published[s][i].generation
    BY <1>3 DEF StreamIInv, GenerationsGrow
  <2>2. published[s][i].generation \in 1 .. generation
    BY DEF StreamIInv, GenerationsGrow
  <2>3. published[s][j].generation = g
    BY <1>2, <1>3
  <2> QED BY <1>1, <2>1, <2>2, <2>3
<1>6. i \in 1 .. Len(applied[s])
  BY <1>3, <1>4, <1>5
<1>7. op \in Ops(applied[s][i])
  BY <1>3, <1>6
<1>8. op \in {executed[s][k] : k \in 1 .. Len(executed[s])}
  BY <1>6, <1>7, Zenon DEF ExecutedInOrder
<1> QED BY <1>8

\* For any number of shards, lanes and updates, and every capacity and budget: once
\* a shard has acknowledged a cutoff, every operation published to it up to the fence
\* has been executed, also those that had been waiting in the backlog.
THEOREM FenceAlwaysCovers == Spec => []FenceCoversEarlier
<1>1. Init => AckedApplied
  BY DEF Init, AckedApplied
<1> QED BY <1>1, ExecutedInit, StreamInit, StreamNext, ExecutedNext, AckedNext, FenceFollows, PTL DEF Spec

-----------------------------------------------------------------------------
(* The lanes implement the log.                                            *)

\* The bounds of a behaviour are within those of the log.
LEMMA WithinMax == \A l \in Limits : l.generations <= MaxGeneration
<1>1. \E g \in {l.generations : l \in Limits} : \A l \in Limits : l.generations <= g
  BY LaneAssumption
<1> QED BY <1>1 DEF MaxGeneration

\* A publication appends a generation newer than all in the logs.
LEMMA StageAppends ==
  ASSUME StreamIInv, NEW targets \in SUBSET Lanes, NEW plans \in limit.plans,
         NEW fence \in BOOLEAN, Stage(targets, plans, fence)
  PROVE  Log!LogNext
<1> DEFINE update == [generation |-> generation + 1, plans |-> plans, fence |-> fence]
<1>1. /\ generation < limit.generations
      /\ published' = [s \in Shards |->
           IF s \in targets THEN Append(published[s], update) ELSE published[s]]
      /\ UNCHANGED shardVars
  BY DEF Stage
<1>2. limit \in Limits /\ generation \in Nat /\ targets \in SUBSET Shards
  BY LanesAreShards, ZenonT(30) DEF StreamIInv, LaneTypeOK
<1>3. update \in Log!Update
  <2>1. limit.generations \in Nat /\ limit.generations <= MaxGeneration
    BY <1>2, LaneAssumption, WithinMax
  <2>2. plans \in PlanCounts
    BY <1>2 DEF PlanCounts
  <2>3. MaxGeneration \in Nat
    <3>1. \E g \in {l.generations : l \in Limits} : \A l \in Limits : l.generations <= g
      BY LaneAssumption
    <3>2. MaxGeneration \in {l.generations : l \in Limits}
      BY <3>1 DEF MaxGeneration
    <3> QED BY <3>2, LaneAssumption
  <2>4. generation + 1 \in 1 .. MaxGeneration
    BY <1>1, <1>2, <2>1, <2>3
  <2> QED BY <2>2, <2>4, SMTT(30) DEF Log!Update
<1>4. \A s \in Shards : \A i \in 1 .. Len(published[s]) : published[s][i].generation < update.generation
  <2>1. \A s \in Shards : \A i \in 1 .. Len(published[s]) : published[s][i].generation \in 1 .. generation
    BY DEF StreamIInv, GenerationsGrow
  <2> QED BY <1>2, <2>1
<1>5. Log!AppendUpdate(update, targets)
  <2> HIDE DEF update
  <2> QED BY <1>1, <1>4 DEF Log!AppendUpdate, Log!Shards, Shards, shardVars
<1> QED BY <1>2, <1>3, <1>5, SMTT(30) DEF Log!LogNext, Log!Shards, Shards

\* The last chunk of an update applies the next entry of the log.
LEMMA LastApplies ==
  ASSUME StreamIInv, NEW s \in Shards, Ready(s), ApplyLast(s)
  PROVE  Log!LogNext
<1> DEFINE u == Head(Taken(s))
           done == [r \in Shards |-> Len(applied[r])]
<1>1. /\ applied' = [applied EXCEPT ![s] = Append(@, u)]
      /\ acked' = IF u.fence THEN acked \cup {<<s, u.generation>>} ELSE acked
      /\ UNCHANGED <<published, alive>>
  BY DEF ApplyLast, controllerVars
<1>2. /\ applied \in [Shards -> Seq(Updates)] /\ u \in Updates /\ Len(applied[s]) \in Nat
      /\ Len(applied[s]) + 1 \in 1 .. Len(published[s]) /\ published[s][Len(applied[s]) + 1] = u
  BY TakenIsNext, NextIsValid, Zenon DEF StreamIInv, LaneTypeOK
<1>3. Len(published[s]) \in Nat
  BY DEF StreamIInv, LaneTypeOK
<1> HIDE DEF u
<1>4. [r \in Shards |-> Len(applied'[r])] = [done EXCEPT ![s] = @ + 1]
  <2>1. ASSUME NEW r \in Shards
        PROVE  Len(applied'[r]) = IF r = s THEN Len(applied[r]) + 1 ELSE Len(applied[r])
    BY <1>1, <1>2
  <2> QED BY <2>1, Zenon
<1>5. Log!Behind(s)
  <2>1. alive[s]
    BY DEF Ready
  <2>2. Len(applied[s]) < Len(published[s])
    BY <1>2, <1>3
  <2> QED BY <2>1, <2>2 DEF Log!Behind
<1>6. Log!ApplyNext(s)
  BY <1>1, <1>2, <1>4, <1>5, Zenon DEF Log!ApplyNext
<1> QED BY <1>6 DEF Log!LogNext, Log!Shards, Shards

\* Every step is a step of the log, or one it does not see.
LEMMA LogStep == StreamIInv /\ [Next]_vars => [Log!LogNext]_(Log!logVars)
<1> SUFFICES ASSUME StreamIInv, [Next]_vars PROVE Log!LogNext \/ UNCHANGED Log!logVars
  OBVIOUS
<1>1. CASE UNCHANGED <<published, applied, acked, alive>>
  BY <1>1 DEF Log!logVars
<1>2. ASSUME NEW s \in Lanes, Apply(s) PROVE Log!LogNext \/ UNCHANGED Log!logVars
  <2>1. s \in Shards
    BY LanesAreShards DEF StreamIInv
  <2>2. Ready(s)
    BY <1>2 DEF Apply
  <2>3. ApplyChunk(s) \/ ApplyLast(s)
    BY <1>2, <2>1, <2>2, NextIsValid DEF Apply
  <2>4. CASE ApplyChunk(s)
    BY <1>1, <2>4 DEF ApplyChunk, controllerVars
  <2>5. CASE ApplyLast(s)
    BY <2>1, <2>2, <2>5, LastApplies
  <2> QED BY <2>3, <2>4, <2>5
<1>3. CASE Controller
  BY <1>1, <1>3, ZenonT(30) DEF Controller, PublishEnd, FlushBegin, FlushEnd, Publish, PublishFlush, PublishSend,
     PublishDefer, Flush, FlushSend, FlushIdle, FlushBlocked, shardVars
<1>4. CASE \E targets \in (SUBSET Lanes) \ {{}}, plans \in limit.plans, fence \in BOOLEAN :
             Stage(targets, plans, fence)
  BY <1>4, StageAppends
<1>5. ASSUME NEW s \in Lanes, Stop(s) PROVE Log!LogNext
  <2>1. s \in Shards
    BY LanesAreShards DEF StreamIInv
  <2>2. Log!End(s)
    BY <1>5 DEF Stop, controllerVars, Log!End
  <2> QED BY <2>1, <2>2 DEF Log!LogNext, Log!Shards, Shards
<1>6. CASE UNCHANGED vars
  BY <1>1, <1>6 DEF vars, shardVars
<1> QED BY <1>2, <1>3, <1>4, <1>5, <1>6 DEF Next

\* The safety part of ImplementsLog: for any number of shards and updates and every
\* capacity and budget, mailboxes, backlogs, flushes and chunks are invisible behind
\* a log per shard that is applied one whole update at a time.
THEOREM LanesImplementLog == Spec => Log!LogInit /\ [][Log!LogNext]_(Log!logVars)
<1>1. Init => Log!LogInit
  <2>1. Len(<< >>) = 0
    OBVIOUS
  <2> QED BY <2>1 DEF Init, Log!LogInit, Log!Shards, Shards
<1> QED BY <1>1, StreamInit, StreamNext, LogStep, PTL DEF Spec
=============================================================================
