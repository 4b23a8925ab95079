SPECIFICATION Spec
CONSTANTS
  Captures = {"camera", "hdmi"}
  HdmiInput = "hdmi"
  HdmiStates = {"on"}
  None = "none"
  Failing = {"open", "start", "stop", "post"}
  Budget <- BudgetWatch
INVARIANTS
  StartedIsWatched
PROPERTIES
  SilentIsReset
  MainReturns
CHECK_DEADLOCK FALSE
