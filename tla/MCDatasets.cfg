SPECIFICATION Spec
CONSTANTS
  h1 = h1
  h2 = h2
  Handler = {h1, h2}
  Query = {q1}
  Mine = mine
  Tickets = tickets
  Others = {other}
  CallsMayFail = TRUE
  MaxStalls = 0
  MaxOverruns = 1
  MaxCrashes = 1
INVARIANTS DoneIsQueryable TempFilesRemoved
PROPERTIES DatasetSettles
CHECK_DEADLOCK FALSE
