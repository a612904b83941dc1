\* Safety of the mission: three counted iterations, at most two without a scan.
SPECIFICATION Spec
CONSTANTS
  Floors = {0, 3}
  TargetFloor = 0
  NoFloor = NoFloor
  StableRequired = 3
  MaxScanGap = 2
  Fronts = {"none", "near", "clear"}
  LoadReplies = {"success"}
  Params <- SafetyParams
INVARIANTS
  TypeOK
  ArmWorksAtStandstill
  OneMotionAuthority
  DoorSeenOpen
  NavStartsLocalised
  EndsAtRest
  CompleteMeansDelivered
PROPERTIES
  StopsOnObstacle
