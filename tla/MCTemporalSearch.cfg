SPECIFICATION Spec
CONSTANTS
  NoFrame = NoFrame
  Video <- MCVideo
  Frames <- MCFrames
  Shots <- MCShots
  Anchors <- MCAnchors
  Spoken <- MCSpoken
  Similarity <- MCSimilarity
  Requests <- MCRequests
INVARIANTS
  MomentsAreDistinct
  ScoresAddUp
  BestPairIsFirst
