SPECIFICATION Spec
CONSTANTS
  Types = {"DPVM", "PVM"}
  NoType = "NONE"
  kCameraCapStby2WaitCnt = 1
  MaxCalls = 8
INVARIANTS StandbyIsAllowed FrameIsAnnounced CapturedByRight CaptureIsAsAsked
CHECK_DEADLOCK FALSE
