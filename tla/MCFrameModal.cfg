CONSTANTS
  r1 = r1
  r2 = r2
  NoRecord = NoRecord
  Records = {r1, r2}
  Before <- MCBefore
  After <- MCAfter
  Video <- MCVideo
  Place <- MCPlace
  MaxCalls = 3
  CallsPerClick = 2
SPECIFICATION Spec
INVARIANTS
  DisplayedIsCurrent
  StripShowsList
PROPERTIES
  SubmitsDisplayed
CHECK_DEADLOCK FALSE
