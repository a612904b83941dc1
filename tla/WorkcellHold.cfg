SPECIFICATION Spec
CONSTANTS
  None = None
  Pick = Pick
  Place = Place
  W1 = W1
  W2 = W2
  Hall = Hall
  S1 = S1
  S2 = S2
  Waypoints = {W1, W2, Hall}
  Stations = {S1, S2}
  Configs <- HoldingConfigs
  QueueDepth = 2
  LineDepth = 2
CHECK_DEADLOCK FALSE
INVARIANTS
  ResendsPerTask
