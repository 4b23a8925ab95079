SPECIFICATION FairSpec
CONSTANTS
  Workers = {w1}
  Displays = {front, rear}
  Surfaces = {front, rear}
  KeepMuted = {front}
  SlowSteps <- SlowResume
  MaxCycles = 2
  MaxQueue = 2
  MaxPending = 2
PROPERTIES ResumeCompletes
CHECK_DEADLOCK FALSE
