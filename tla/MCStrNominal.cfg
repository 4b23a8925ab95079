SPECIFICATION FairSpec
CONSTANTS
  Workers = {w1}
  Displays = {front, rear}
  Surfaces = {front, rear}
  KeepMuted = {front}
  SlowSteps <- NoSlowStep
  MaxCycles = 2
  MaxQueue = 2
  MaxPending = 2
INVARIANTS LeakAtMostOnePerWriter StrModeUntilResumed
PROPERTIES ImplementsContract ResumeCompletes
CHECK_DEADLOCK FALSE
