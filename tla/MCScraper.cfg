CONSTANTS
  w1 = w1
  w2 = w2
  k1 = k1
  k2 = k2
  lr = lr
  lb = lb
  ss = ss
  None = None
  Jobs = {1, 2}
  Games = {1, 2, 3}
  Details = k2
  Workers = {w1, w2}
  Kinds = {k1, k2}
  Offers <- MCOffers
  Sources = {lr, lb, ss}
  Limited = {ss}
  Databases = {lb}
  Covers <- MCCovers
  Uploaded <- MCUploaded
  Slots = 1
  Scenarios <- MCScenarios
SPECIFICATION Spec
CHECK_DEADLOCK FALSE
INVARIANTS GamesAreHeld JobIsTold
PROPERTY JobEnds
