CONSTANTS
  g3 = g3
  t2 = t2
  e0 = e0
  NoList = NoList
  Results <- MCResults
  PageSizes = {1, 2}
  InitialSize = 2
  MaxSearches = 3
  HistoryCap = 2
SPECIFICATION Spec
INVARIANTS
  PagesInRange
  ShownIsCurrentPage
  ControlsTellTheView
  OverlayMeansPending
  StoredIsListed
  HistoryIsRecentAnswers
PROPERTIES
  OverlayLifts
