--------------------------- MODULE CommandBacklog ---------------------------
(***************************************************************************)
(* The command lanes from the controller to its shards: CommandBacklog     *)
(* (control/egress.rs), ShardRouter::try_send and the bounded command      *)
(* mailboxes.  Handlers push commands; each controller tick then makes at  *)
(* most Budget attempts over the shards with commands, round robin.        *)
(*                                                                         *)
(* Each attempt of a flush is a step, because the shards drain their       *)
(* mailboxes, or stop, between two attempts.  Commands are numbered per    *)
(* shard in the order they were pushed.  What a shard does with them in a  *)
(* turn is ShardTurn.                                                      *)
(***************************************************************************)
EXTENDS Naturals, FiniteSets, SequencesExt

CONSTANTS
  Shards,
  Budget,  \* SHARD_COMMAND_EGRESS_BUDGET
  Limits   \* the bounds a behaviour may run under: records with, among others,
           \*   commands  per shard, how many commands are pushed
           \*   capacity  slots of a command mailbox
           \*   stopping  the shards that may end

ASSUME BacklogAssumption ==
  /\ IsFiniteSet(Shards) /\ Budget \in Nat \ {0}
  /\ \A l \in Limits :
       /\ l.commands \in [Shards -> Nat] /\ l.capacity \in Nat \ {0}
       /\ l.stopping \subseteq Shards

VARIABLES
  pushed,   \* per shard: how many commands were pushed
  queues,   \* CommandBacklog.queues
  pending,  \* CommandBacklog.pending: shards to attempt, in order
  credit,   \* attempts left in the current flush; 0 when no flush runs
  blocked,  \* shards the current flush found full
  mailbox,  \* per shard: its command mailbox
  alive,    \* per shard: the receiver still exists
  received, \* per shard: commands the shard took
  limit     \* the bounds of this behaviour

lanes == <<pushed, queues, pending, credit, blocked, mailbox, alive, received>>

LanesInit ==
  /\ pushed = [s \in Shards |-> 0]
  /\ queues = [s \in Shards |-> <<>>]
  /\ pending = <<>> /\ blocked = <<>>
  /\ credit = 0
  /\ mailbox = [s \in Shards |-> <<>>]
  /\ alive = [s \in Shards |-> TRUE]
  /\ received = [s \in Shards |-> <<>>]

\* Mutant: a shard is scheduled for each of its commands.
ScheduledPerCommand(s) == Append(pending, s)

Scheduled(s) == IF queues[s] = <<>> THEN Append(pending, s) ELSE pending

PushBack(s) ==
  /\ credit = 0 /\ blocked = <<>>
  /\ pushed[s] < limit.commands[s]
  /\ pushed' = [pushed EXCEPT ![s] = @ + 1]
  /\ pending' = Scheduled(s)
  /\ queues' = [queues EXCEPT ![s] = Append(@, pushed[s] + 1)]
  /\ UNCHANGED <<credit, blocked, mailbox, alive, received>>

FlushBegin ==
  /\ credit = 0 /\ blocked = <<>> /\ pending # <<>>
  /\ credit' = Budget
  /\ UNCHANGED <<pushed, queues, pending, blocked, mailbox, alive, received>>

Attempt == credit > 0 /\ pending # <<>> /\ credit' = credit - 1
Target == Head(pending)

\* After a command left the queue of s: s goes to the end if it has more.
Rescheduled(s) ==
  IF Tail(queues[s]) # <<>> THEN Append(Tail(pending), s) ELSE Tail(pending)

\* try_send succeeded
FlushSend ==
  /\ Attempt
  /\ LET s == Target IN
     /\ alive[s] /\ Len(mailbox[s]) < limit.capacity
     /\ mailbox' = [mailbox EXCEPT ![s] = Append(@, Head(queues[s]))]
     /\ queues' = [queues EXCEPT ![s] = Tail(@)]
     /\ pending' = Rescheduled(s)
  /\ UNCHANGED <<pushed, blocked, alive, received>>

\* The refused command goes back to the front.
Refused(s) == <<Head(queues[s])>> \o Tail(queues[s])

\* try_send found the mailbox full
FlushFull ==
  /\ Attempt
  /\ LET s == Target IN
     /\ alive[s] /\ Len(mailbox[s]) >= limit.capacity
     /\ queues' = [queues EXCEPT ![s] = Refused(s)]
     /\ blocked' = Append(blocked, s)
  /\ pending' = Tail(pending)
  /\ UNCHANGED <<pushed, mailbox, alive, received>>

\* try_send found the shard gone: the command is dropped
FlushClosed ==
  /\ Attempt
  /\ ~alive[Target]
  /\ queues' = [queues EXCEPT ![Target] = Tail(@)]
  /\ pending' = Rescheduled(Target)
  /\ UNCHANGED <<pushed, blocked, mailbox, alive, received>>

Restored == pending \o blocked

\* The budget is spent or nothing is scheduled; blocked shards come back last.
FlushEnd ==
  /\ (credit = 0 /\ blocked # <<>>) \/ (credit > 0 /\ pending = <<>>)
  /\ pending' = Restored
  /\ blocked' = <<>> /\ credit' = 0
  /\ UNCHANGED <<pushed, queues, mailbox, alive, received>>

\* The shard's turn takes the first k commands.
Take(s, k) ==
  /\ received' = [received EXCEPT ![s] = @ \o SubSeq(mailbox[s], 1, k)]
  /\ mailbox' = [mailbox EXCEPT ![s] = SubSeq(@, k + 1, Len(@))]
  /\ UNCHANGED <<pushed, queues, pending, credit, blocked, alive>>

\* The shard ends and its receiver is dropped, with what it holds.
Close(s) ==
  /\ alive[s] /\ s \in limit.stopping
  /\ alive' = [alive EXCEPT ![s] = FALSE]
  /\ mailbox' = [mailbox EXCEPT ![s] = <<>>]
  /\ UNCHANGED <<pushed, queues, pending, credit, blocked, received>>

Flush == FlushBegin \/ FlushSend \/ FlushFull \/ FlushClosed \/ FlushEnd

-----------------------------------------------------------------------------
(* Properties.                                                             *)

\* The shards with commands are exactly those on the schedule or set aside as
\* blocked, each once: flush never pops a shard with an empty queue (it would
\* abort the process), and no shard with commands is forgotten.
EachScheduledOnce ==
  /\ IsInjective(pending \o blocked)
  /\ Range(pending \o blocked) = {s \in Shards : queues[s] # <<>>}
=============================================================================
