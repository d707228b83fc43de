CONSTANTS
  Addresses = {1, 2}
  Retention = 1
  Limits <- Scenarios
SPECIFICATION Spec
\* a node may stay down for ever
CHECK_DEADLOCK FALSE
INVARIANTS GenerationsFresh FenceHolds
PROPERTIES UpIsUsable
