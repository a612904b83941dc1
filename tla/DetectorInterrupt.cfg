\* Ctrl-C before the finally clause has told the detector to stop.
SPECIFICATION VariantSpec
CONSTANTS
  Floors = {0, 1}
  TargetFloor = 0
  NoFloor = NoFloor
  StableRequired = 2
  MaxScanGap = 1
  Fronts = {"clear"}
  LoadReplies = {"success"}
  Params <- VariantParams
  Topics = {best, plain}
  Stale = 1
  Confirm = 2
CHECK_DEADLOCK FALSE
INVARIANTS
  DetectorNeverLeft
