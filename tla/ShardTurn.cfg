\* Mailboxes of one slot and a flush of two attempts over three shards; turns
\* with budgets of one or two, which every phase exceeds.
CONSTANTS
  Shards = {1, 2, 3}
  Draining = {1}
  Participants = {alice, bob}
  Budget = 2
  CommandBudget = 2
  ParticipantBudget = 1
  PipelineBudget = 1
  EventBudget = 2
  PacketCapacity = 1
  EventCapacity = 1
  alice = alice
  bob = bob
  Limits <- Scenarios
SPECIFICATION Spec
INVARIANTS LanesInOrder EachScheduledOnce
PROPERTIES EveryCommandAnswered
CHECK_DEADLOCK FALSE
