CONSTANTS
  Video <- MCVideo
  Frames <- MCFrames
  Folders <- MCFolders
  Walks <- SortedWalk
  Setups = {s1}
  Anchors <- MCAnchors
  Fps = 25
  Seconds = {0, 1, 2}
  Segments <- MCSegments
  Limits = {2, 9}
  MaxCrashes = 0
  NoFrame = NoFrame
  NoAnswer = NoAnswer
SPECIFICATION Spec
INVARIANTS ScrollStaysInVideo ScrollCoversWindow ExcludedNeverShown
