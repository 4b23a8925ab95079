SPECIFICATION Spec
CONSTANTS
  Steps = {1, 2}
  InitStep = 1
  Kinds = {"contrast"}
  DayNights = {"day", "night"}
  Night = "night"
  Themes = {"dark"}
  AutoDark = "dark"
  FrontPaths = {"", "HDMI", "MULTISENSORY"}
  Selections = {"OTHER", "DTV", "HDMI", "MULTISENSORY"}
  MaxCalls = 5
INVARIANTS CoverFollowsRequests NotifiedIsWanted
CHECK_DEADLOCK FALSE
