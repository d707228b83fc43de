------------------------------ MODULE UpdateLog ------------------------------
(***************************************************************************)
(* What the update lanes promise the rest of the system: the controller    *)
(* appends a generation to the log of every shard it concerns, each shard  *)
(* applies its log in order and one whole generation at a time, a cutoff   *)
(* fence is acknowledged in the step that applies it, and a shard that     *)
(* does not stop gets through its log.                                     *)
(***************************************************************************)
EXTENDS Naturals, Sequences

CONSTANTS
  NumShards,
  PlanCounts,    \* how many track plans an update may carry
  MaxGeneration  \* bound on the generations

Shards == 1 .. NumShards

VARIABLES
  log,    \* per shard: the updates published to it
  done,   \* per shard: how many of them it has applied
  acked,  \* cutoff fences acknowledged, as <<shard, generation>>
  alive   \* per shard: whether it has not stopped

logVars == <<log, done, acked, alive>>

LogInit ==
  /\ log = [s \in Shards |-> << >>]
  /\ done = [s \in Shards |-> 0]
  /\ acked = {}
  /\ alive = [s \in Shards |-> TRUE]

Update == [generation : 1 .. MaxGeneration, plans : PlanCounts, fence : BOOLEAN]

\* Every update already in a log is older than the one appended.
AppendUpdate(update, targets) ==
  /\ \A s \in Shards : \A i \in 1 .. Len(log[s]) :
       log[s][i].generation < update.generation
  /\ log' = [s \in Shards |-> IF s \in targets THEN Append(log[s], update) ELSE log[s]]
  /\ UNCHANGED <<done, acked, alive>>

Behind(s) == alive[s] /\ done[s] < Len(log[s])

ApplyNext(s) ==
  /\ Behind(s)
  /\ done' = [done EXCEPT ![s] = @ + 1]
  /\ LET update == log[s][done[s] + 1] IN
     acked' = IF update.fence THEN acked \cup {<<s, update.generation>>} ELSE acked
  /\ UNCHANGED <<log, alive>>

End(s) ==
  /\ alive[s]
  /\ alive' = [alive EXCEPT ![s] = FALSE]
  /\ UNCHANGED <<log, done, acked>>

LogNext ==
  \/ \E update \in Update, targets \in SUBSET Shards : AppendUpdate(update, targets)
  \/ \E s \in Shards : ApplyNext(s) \/ End(s)

\* Weak fairness of ApplyNext(s), which is enabled when the shard is behind.
LogSpec ==
  /\ LogInit /\ [][LogNext]_logVars
  /\ \A s \in Shards : []<>~Behind(s) \/ []<><<ApplyNext(s)>>_logVars
=============================================================================
