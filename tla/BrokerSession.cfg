SPECIFICATION FairSpec
CONSTANT MaxStarts = 2
INVARIANTS
  TypeOK
  NoLeaseWithoutSession
  GuardsMatchSession
PROPERTY
  XorgStops
