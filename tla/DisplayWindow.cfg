SPECIFICATION Spec
CONSTANTS
  PanelWidth = 3
  PanelHeight = 3
  Setups <- LandingSetups
  MaxSpans = 2
INVARIANTS
  TypeOK
  WindowCacheCoherent
  DisplayShowsBuffer1
