SPECIFICATION FairSpec
CONSTANTS
  Timer = {1, 2, 3}
  NoTimer = 0
  HwTimer = {1}
  W = 24
  Slack = 4
  Khz = 2
  Speed <- Speeds
  Count <- Counts
  Period <- Periods
  MaxOp = 2
  HaltStep = 2
  MaxCalls = 2
INVARIANTS
  TypeOK
  OneListEach
  TimersInOrder
PROPERTIES
  RunEndsInTime
  ImplementsTimerSet
  RunReturns
