SPECIFICATION Spec
CONSTANTS
  Apps = {"app"}
  Hdmi = "HDMI"
  NoPath = "none"
  Keys = {"key"}
  NoKey = "nokey"
INVARIANTS
  ReadyIsPlayed
  PlayingIsShownOrLeaked
  WithheldIsOwed
PROPERTIES
  CoverFollowsVerdict
