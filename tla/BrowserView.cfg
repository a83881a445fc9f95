CONSTANTS
  Panels = {"overview", "trades"}
  Refreshes = {1, 2}
  Whales = {"w1"}
  MaxVersion = 1
  MaxFailures = 1
  None = None
SPECIFICATION FairSpec
PROPERTIES PageSettles DrawerSettles
