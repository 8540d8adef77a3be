SPECIFICATION FairSpec
CONSTANT Agents = {a1, a2}
INVARIANTS
  TypeOK
  GroupGone
  PidsOwned
  LeaseReturned
  OneServer
  PathsFresh
PROPERTIES
  PreflightAccepts
  OperationEnds
