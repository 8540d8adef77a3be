SPECIFICATION Spec
CONSTANTS
  Topologies <- MCTopologies
  Faults = {"commit", "ignored"}
INVARIANTS
  TypeOK
  NoCircularWait
  LeaseExclusive
PROPERTIES
  CleanHandoff
  SanitizeKeepsOthers
