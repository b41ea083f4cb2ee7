CONSTANTS
  Video <- MCVideo
  Frames <- MCFrames
  Folders <- MCFolders
  Walks <- SortedWalk
  Setups = {s1, s2}
  Anchors <- MCAnchors
  Fps = 25
  Seconds = {}
  Segments <- MCSegments
  Limits = {9}
  MaxCrashes = 1
  NoFrame = NoFrame
  NoAnswer = NoAnswer
SPECIFICATION FairSpec
INVARIANT PointsAreGenuine
PROPERTIES ReadyMeansComplete SetupEnds
