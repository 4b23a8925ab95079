SPECIFICATION Spec
CONSTANTS
  Apps <- OutputApps
  Outputs = {"front", "rear", "ic", "camera"}
  Initial <- AllInvisible
  Layers <- TwoLayers
  Order <- FirstOrder
  Sizes <- NoSizeOrTwo
  Clips <- SmallOrLarge
  Wides = {"normal", "zoomed"}
  NewOrders = {3}
  Part <- PartRect
  Screen <- ScreenRect
  Default <- DefaultRect
  Drawn <- DrawnRect
  MaxQueue = 2
  MaxCalls = 5
INVARIANTS OnlyTheCurrentPathShows SurfaceAsSet PlanesFollowTheVideo StatusFollows
CHECK_DEADLOCK FALSE
