\* A mailbox of one, so that the backlog grows behind it, chunks of two plans, and
\* one visit per flush: with two lanes, a blocked or stopped shard could keep the
\* other writer's backlog from going out.
CONSTANTS
  NumShards = 2
  Limits <- MCLimits
  Capacity = 1
  PlanBudget = 2
  FlushBudget = 1
SPECIFICATION Spec
INVARIANTS
  ExecutedInOrder
  FenceCoversEarlier
PROPERTIES
  ImplementsLog
CHECK_DEADLOCK FALSE
