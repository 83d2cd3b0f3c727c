SPECIFICATION Spec
CONSTANTS
  t1 = t1
  t2 = t2
  NoTask = NoTask
  Task = {t1, t2}
  Successor <- MacroSuccessor
  ChainsOnCancel = {t1}
  RunsUnlocked = {t2}
  Receives = {}
  Budget = 1
  MaxCalc = 2
  LimitChoices = {TRUE, FALSE}
  DeviceChoices = {TRUE, FALSE}
INVARIANT CancelLeavesNothing
