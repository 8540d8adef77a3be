SPECIFICATION FairSpec
CONSTANTS
  Displays = {d1}
  NoDisplay = NoDisplay
  Failsafe = 1
  Backstop = 1
  MaxUEvents = 1
  Faults = {}
PROPERTY TakeoverEnds
