\* The ride when nobody uses the lift before the robot is ready.
SPECIFICATION FairRide
CONSTANTS
  TopFloor = 5
  StartFloor = 3
  TargetFloor = 0
  Thresholds <- HalfSeconds
  Confirm = 3
  ThreshCount = 1
  Window = 1
  Baseline = 1
  UseBaseline = TRUE
  Gaps = {1}
  Commands = {0}
  NoTime = NoTime
  NoFloor = NoFloor
  StartRepeats = 2
  QueueDepth = 2
  Stops = {0, 1, 3, 5}
  DepartWindows = {3, 7}
  BrakeWindows = {3, 5}
  MaxLag = 0
  LongestRide = 32
  CalmStart = TRUE
INVARIANTS
  RideTypeOK
  EstimateIsLiftFloor
PROPERTIES
  LeavesAtTarget
  OpenTargetDoorIsTaken
