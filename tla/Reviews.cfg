SPECIFICATION Spec
CONSTANTS
  None = None
  Parts = 2
  DayLength = 2
  Anchors <- SomeAnchors
  Places <- SomePlaces
  Pages <- Boards
  p1 = p1  p2 = p2
  ConvAge = 1
  CallTime = 1
SYMMETRY Symmetry
INVARIANTS RepliedIsReviewed ReviewOnItsDay
PROPERTIES SprintsPartition NumbersTellApart
CHECK_DEADLOCK FALSE
