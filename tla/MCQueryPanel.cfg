CONSTANTS
  Batches <- MCBatches
  Videos <- MCVideos
  Folder <- MCFolder
  FolderOrder <- MCFolderOrder
  Frames = {f1, f2}
  Typings <- MCTypings
  NoTyping = NoTyping
  MaxAsks = 3
  Spoken = spoken
  MaxWaits = 2
  Written <- MCWritten
  NoText = silence
  Texts <- MCTexts
  silence = silence
  Stories <- MCStories
  Translation <- MCTranslation
  SegmentTimes = shotTimes
  MaxSearches = 2
  MaxActs = 5
  v1 = v1
  v2 = v2
  l1 = l1
  l2 = l2
  spoken = spoken
  words = words
  wordsTranslated = wordsTranslated
  spokenTranslated = spokenTranslated
  minutes = minutes
  shotTimes = shotTimes
SPECIFICATION Spec
INVARIANTS ListShowsExclusions DropdownFollowsBatches RecorderHasItsButton HistoryTellsTheSearch
PROPERTIES HeardRecordingEnds
CHECK_DEADLOCK FALSE
