CONSTANTS
  c1 = c1
  c2 = c2
  h1 = h1
  h2 = h2
  r1 = r1
  r2 = r2
  text1 = text1
  text2 = text2
  Creator = {c1, c2}
  Handler = {h1, h2}
  Reviewer = {r1, r2}
  Backfill = Backfill
  Text = {text1, text2}
  Blank = Blank
  CallsMayFail = TRUE
  MaxStalls = 1
  MaxPatches = 2
  MaxOverruns = 1
  MaxCrashes = 1
SPECIFICATION FairSpec
INVARIANTS
  SingleExtraction
  ChangesAnnounced
  ChunkFollowsReview
PROPERTIES DoneIsFinal PendingSettles
