SPECIFICATION Spec
CONSTANTS
  c1 = c1
  c2 = c2
  home = home
  away = away
  pwd1 = pwd1
  pwd2 = pwd2
  ds = ds
  Conn = {c1, c2}
  WifiId <- DefaultSlot
  Lower <- LowerOf
  Ssid = {home}
  Password = {pwd1, pwd2}
  ThreadId <- TwoCases
  Dataset = {ds}
  Label = {home, away}
  NoPin = NoPin
  Pins = {NoPin, away}
  MaxCommands = 3
  MaxRestarts = 1
INVARIANTS
  NoUpdateIsLost
  LabelsAgree
SYMMETRY ConnSymmetry
CHECK_DEADLOCK FALSE
