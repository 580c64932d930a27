CONSTANTS
  s1 = s1
  h1 = h1
  h2 = h2
  Starter = {s1}
  Handler = {h1, h2}
  MaxRuns = 2
  CallsMayFail = TRUE
  MaxStalls = 1
  MaxOverruns = 1
  MaxCrashes = 1
SPECIFICATION FairSpec
INVARIANTS
  SingleOpenRun
PROPERTY RunSettles
