CONSTANTS
  h1 = h1
  h2 = h2
  a = a
  b = b
  Handler = {h1, h2}
  Hash = {a, b}
  Content <- MCContent
  CallsMayFail = TRUE
  MaxKey = 2
  Id = {1, 2, 3}
  Attempts = 2
  MaxStalls = 1
  MaxOverruns = 1
  MaxCrashes = 1
SPECIFICATION FairSpec
INVARIANTS
  UploadDoneIsIndexed
  NoChunksOfDeleted
  ChangesAnnounced
PROPERTY QueuedSettles
CHECK_DEADLOCK FALSE
