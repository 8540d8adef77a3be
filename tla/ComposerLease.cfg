SPECIFICATION Spec
CONSTANTS
  Displays = {d1}
  NoDisplay = NoDisplay
  Failsafe = 2
  Backstop = 1
  MaxUEvents = 1
  Faults = {"reset", "screen"}
INVARIANTS
  TypeOK
  MutualExclusion
  NoLeftoverReservation
  WatchdogArmed
  SecureNeverLeased
PROPERTY
  OwnershipRefined
