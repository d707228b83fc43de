SPECIFICATION Spec
CONSTANTS
  MaxSlots = 2
  EpochModulus = 2
  Quarantine = 2
  Tenants = {t1, t2}
  NoTenant = NoTenant
  FrameLifetime = 2
  LaneLag = 1
  LaneCapacity = 3
INVARIANTS
  SlotsAccounted
  ExhaustedOnlyWhenFull
  NoMisdelivery
  TableConverges
CHECK_DEADLOCK FALSE
