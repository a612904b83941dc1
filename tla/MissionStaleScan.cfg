\* The lidar may stay silent for as many iterations as the count needs.
SPECIFICATION Spec
CONSTANTS
  Floors = {0, 3}
  TargetFloor = 0
  NoFloor = NoFloor
  StableRequired = 2
  MaxScanGap = 2
  Fronts = {"none", "near", "clear"}
  LoadReplies = {"success"}
  Params <- DefaultParams
INVARIANTS
  EarlierOpenDoorIgnored
