SPECIFICATION Spec
CONSTANT MaxStarts = 2
PROPERTY
  StopBeforeRelease
