SPECIFICATION Spec
CONSTANTS
  Paths = {"camera"}
  NoPath = "none"
  TimerFails = TRUE
  Budget <- BudgetAll
INVARIANTS
  OneAnswerPerSwitch
  MuteHasOwner
  MutedWhileSwitching
PROPERTIES
  SwitchAnswered
CHECK_DEADLOCK FALSE
