SPECIFICATION Spec
CONSTANTS
  None = None
  Screens <- MCScreens
  MaxFrame <- MCMaxFrame
  Area <- MCArea
  Points <- MCPoints
  MaxFlights = 2
INVARIANT PointedPixel
