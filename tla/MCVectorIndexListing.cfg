CONSTANTS
  Video <- MCVideo
  Frames <- MCFrames
  Folders <- MCFolders
  Walks <- AnyWalk
  Setups = {s1}
  Anchors <- MCAnchors
  Fps = 25
  Seconds = {1}
  Segments <- MCSegments
  Limits = {9}
  MaxCrashes = 0
  NoFrame = NoFrame
  NoAnswer = NoAnswer
SPECIFICATION Spec
INVARIANT ScrollStaysInVideo
