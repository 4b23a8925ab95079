SPECIFICATION ChannelsSpec
CONSTANTS
  Paths = {"A", "B"}
  NoPath = "none"
  RearPaths = {"none"}
  RseTypes = {"DOP"}
  MaxRequests = 4
  MaxSuspends = 1
  MaxEvents = 1
  Values <- AFewValues
  Topics <- KindsThatMeet
  MaxCalls = 4
  MaxShots = 3
  MaxQueue = 1
CHECK_DEADLOCK FALSE
INVARIANTS
  WaitingIsTimed
  QueuedBehindCurrent
  ActiveIsShownOrLeft
  RefusedOnlyWhenStale
  LatestIsKnown
  HudShowsOnlyCorrected
  ShotsEndWithTheirOwn
