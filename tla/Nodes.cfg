\* The estimator: windows of two ticks, samples one tick apart or bunched.  The base
\* node: three positions, two exchanges that go wrong.  The others: two goals or
\* moves, two places, three calls of the arm.
SPECIFICATION NodeSpec
CONSTANTS
  Points = {A, B}
  Unknown = Elsewhere
  Goals = {g1, g2}
  Nothing = Nothing
  Places = {A, B}
  Nowhere = Nothing
  Drives = {g1, g2}
  Moves = {m1, m2}
  SpeakerDepth = 3
  MaxCalls = 3
  TopFloor = 2
  StartFloor = 1
  Thresholds <- ShortThresholds
  Confirm = 2
  ThreshCount = 2
  Window = 2
  Baseline = 1
  UseBaseline = TRUE
  Gaps = {0, 1, 2}
  Commands = {0, 1, 7}
  NoTime = NoTime
  NoFloor = NoFloor
  Reach = 1
  Sticks = {0, 1}
  Hands <- MCHands
  MaxFaults = 2
CHECK_DEADLOCK FALSE
INVARIANTS
  TypeOK
  SessionStartsFromRest
  UnaskedNeverMoves
  PeripheralTypes
  LatestCommandWins
  OneGoalAtATime
  CenterInCommand
  OneMotion
PROPERTIES
  BrakingIsNoDeparture
  ArrivalNeedsATrip
  TakesOverInPlace
  Settles
  PendingIsServed
  AlarmObeysLastWord
  AnswersInOrder
