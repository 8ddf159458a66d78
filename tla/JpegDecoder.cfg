SPECIFICATION FairSpec
CONSTANTS
  Images <- McImages
  Modes <- McModes
  Frames <- McFrames
  MaxLines = 3
  MaxPasses = 2
  MaxImages = 1
  None = None
INVARIANTS
  TypeOK
  RowsInOrder
  ShowsRequestedScan
  LayoutCoversImage
PROPERTIES
  SmoothingSeesNeighbours
  Finishes
CHECK_DEADLOCK FALSE
