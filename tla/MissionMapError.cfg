\* The map server may answer with an error code.
SPECIFICATION Spec
CONSTANTS
  Floors = {0, 3}
  TargetFloor = 0
  NoFloor = NoFloor
  StableRequired = 2
  MaxScanGap = 1
  Fronts = {"none", "near", "clear"}
  LoadReplies = {"error", "success"}
  Params <- DefaultParams
INVARIANTS
  TargetMapServed
