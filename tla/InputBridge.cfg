SPECIFICATION Spec
CONSTANTS
  keyboard = keyboard
  receiver = receiver
  key = key
  button = button
  Sources <- MCSources
  Codes <- MCCodes
  Keys <- MCKeys
  Accepts <- MCAccepts
  MaxQueue = 5
  Batch = 5
INVARIANTS
  TypeOK
  HoldersExact
  KeysFollowDevice
