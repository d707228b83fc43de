---------------------------- MODULE ShardTurnMC -----------------------------
(***************************************************************************)
(* Instances of ShardTurn.                                                 *)
(***************************************************************************)
EXTENDS ShardTurn

\* Three shards, two of which may stall with a full mailbox; the commands are
\* of the kind that no participant answers, and no statistics are reported.
Wide ==
  [commands |-> [s \in Shards |-> IF s \in Draining THEN 3 ELSE 2], capacity |-> 1, stopping |-> Shards,
   answered |-> {}, relayed |-> {}, reports |-> FALSE]

\* One shard whose participants answer, two of the commands by way of a packet.
Deep ==
  [commands |-> [s \in Shards |-> IF s \in Draining THEN 4 ELSE 0],
   capacity |-> 2, stopping |-> Draining,
   answered |-> 1..4, relayed |-> {2, 3}, reports |-> TRUE]

Scenarios == {Wide, Deep}
=============================================================================
