SPECIFICATION FairSpec
CONSTANTS
  Native = Native
  P1080 = P1080
  Fine = Fine
  NoMode = NoMode
  Modes <- MCModes
  Rounded <- MCRounded
  StableSamples = 2
  MaxEvents = 2
  Faults = {}
PROPERTY
  UnplugIsProgress
