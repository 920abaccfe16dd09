SPECIFICATION Spec
CONSTANTS
  PanelWidth = 3
  PanelHeight = 3
  Setups <- WidenSetups
  MaxSpans = 2
INVARIANTS
  DisplayShowsBuffer1
