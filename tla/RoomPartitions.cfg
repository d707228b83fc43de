\* Three participants, two of which reconnect, in partitions of two places; leases,
\* deletions and cutoffs of fewer connections.
CONSTANTS
  a = a
  b = b
  d = d
  Participants = {a, b, d}
  Shards = {1, 2}
  Owner <- Reconnecting
  Capacity = 2
  MaxPending = 3
  Horizon = 2
  ChannelCapacity = 1
  Limits <- Scenarios
SPECIFICATION GrantsSpec
INVARIANTS OccupancyExact ClaimsHonoured LeasesAgree CreditExact WithdrawnEverywhere
PROPERTIES ReceiptsSettle
CHECK_DEADLOCK FALSE
