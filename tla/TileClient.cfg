SPECIFICATION FairSpec
CONSTANTS
  MaxTile = 2
  MaxLine = 3
INVARIANTS
  TypeOK
  PollingFollowsScreen
PROPERTIES
  LabelsMeanWhatTheySay
  ScreenCatchesUp
