CONSTANTS
  Workers = {w1, w2}
  Clicks = {c1}
  Fetches = {f1, f2}
  InitFetch = f1
  Evaluations = {e1}
  MaxSession = 2
  Nobody = Nobody
SPECIFICATION Spec
INVARIANTS
  PairFromOneFetch
PROPERTIES
  
  ImplementsAnswerBox
  ServedIfServerAnswers
