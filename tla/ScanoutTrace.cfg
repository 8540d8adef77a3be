SPECIFICATION Spec
CONSTANTS
  main = main
  worker = worker
  b1 = b1
  fb = fb
  nofb = nofb
  native = native
  other = other
  v0 = v0
  v1 = v1
  unknown = unknown
  Threads <- MCThreads
  Main <- main
  Buffers <- MCBuffers
  AndroidFb <- fb
  NoFb <- nofb
  Modes <- MCModes
  AndroidMode <- native
  Values <- MCValues
  Unknown <- unknown
  MaxSeq = 3
SYMMETRY MCSymmetry
INVARIANTS
  TypeOK
  ReportedWasShown
PROPERTIES
  TracedFirst
  ChangeReachesKernel
