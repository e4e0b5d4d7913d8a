SPECIFICATION FairSpec
CONSTANTS
  None = None
  Pictures = {p1, p2}
  Options <- MCOptions
  MaxWire = 1
  MaxChanges = 1
  MaxDrop = 1
INVARIANTS
  TunedWithinOptions
PROPERTIES
  PictureArrives
