SPECIFICATION FairStartup
CONSTANTS
  hdmi = hdmi
  service = service
  v0 = v0
  v1 = v1
  Paths <- MCPaths
  HdmiPaths <- MCHdmi
  Values <- MCValues
  Default = v0
  None = None
  Callers <- MCCallers
  Retries = 3
  MaxSets = 3
INVARIANTS QueuedOrWritten
PROPERTIES FinalizeReturnsWithoutThread
CHECK_DEADLOCK FALSE
