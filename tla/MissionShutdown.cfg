\* The end of a mission and its last announcement.
SPECIFICATION Spec
CONSTANTS
  Floors = {0, 3}
  TargetFloor = 0
  NoFloor = NoFloor
  StableRequired = 2
  MaxScanGap = 1
  Fronts = {"none", "near", "clear"}
  LoadReplies = {"success"}
  Params <- DefaultParams
PROPERTIES
  AnnouncementsPlayOut
