SPECIFICATION Spec
CONSTANTS
  r1 = r1
  r2 = r2
  DocumentOf <- MCDocumentOf
  TicketOf <- MCTicketOf
  Limit = 2
  Reserve = 1
  MinScore = 1
  Threshold = 1
  GradeBelow = 2
  MaxScore = 2
  MaxRewrites = 1
  Budget = 5
  Size = 3
  Excerpt = 1
  Gap = {g1, g2}
  Cluster = {c1}
  Draft = {d1, d2}
  Review <- Reviewers
  Weeks = 1
  MaxStalls = 1
  MaxOverruns = 1
  MaxCrashes = 1
SYMMETRY Symmetry
INVARIANTS EvidenceIsCited FoundOnce ReviewedOnce SentAsSet
CHECK_DEADLOCK FALSE
