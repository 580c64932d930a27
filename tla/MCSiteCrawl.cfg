CONSTANTS
  a = a
  b = b
  c = c
  d = d
  e = e
  f = f
  g = g
  b2 = b2
  mailto = mailto
  none = none
  Page = {a, b, c, d, e, f, g}
  Href = {a, b, c, d, e, f, g, b2, mailto}
  NoUrl = none
  Canonical <- Spelt
  Outside = {g}
  Seed = a
  Sites <- SomeSites
  Disallowed = {e}
  Private = {f}
  MaxDepth = 2
  Concurrency = 2
  Wanted = 5
  Cap = 5
  CrawlMayFail = TRUE
SPECIFICATION FairCrawlSpec
INVARIANTS ReachIsFetched PagesAddUp
PROPERTY Terminates
CHECK_DEADLOCK FALSE
