\* The boot line of the firmware answers the first acknowledged move.
SPECIFICATION NodeSpec
CONSTANTS
  Points = {A, B}
  Unknown = Elsewhere
  Goals = {g1, g2}
  Nothing = Nothing
  Places = {A, B}
  Nowhere = Nothing
  Drives = {g1, g2}
  Moves = {m1, m2}
  SpeakerDepth = 3
  MaxCalls = 3
  TopFloor = 2
  StartFloor = 1
  Thresholds <- ShortThresholds
  Confirm = 2
  ThreshCount = 2
  Window = 2
  Baseline = 1
  UseBaseline = TRUE
  Gaps = {0, 1, 2}
  Commands = {0, 1, 7}
  NoTime = NoTime
  NoFloor = NoFloor
  Reach = 1
  Sticks = {0, 1}
  Hands <- MCHands
  MaxFaults = 2
CHECK_DEADLOCK FALSE
PROPERTIES
  AckIsOwn
