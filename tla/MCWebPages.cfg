SPECIFICATION FairSpec
CONSTANTS
  MaxTurns = 2
  MessagesPerPage = 2
  MaxMessageLoads = 1
  RowsPerPage = 1
  Existing <- MCExisting
  Fresh = {2}
  MaxMoves = 1
  MaxDocumentLoads = 2
  MaxHandlers = 1
  MaxTicketLoads = 1
  MaxDetails = 2
  MaxRunLoads = 2
  Seed = {u}
  MaxRuns = 2
  MaxRunMoves = 2
  Dataset = {d1, d2}
  Initial = {d1}
  MaxPolls = 1
  Text = {a, b}
  MaxRequests = 2
  Phrase = {a}
  DailyLimit = 1
  MaxRefined = 1
  MaxSaves = 1
  EventId = {1, 2, 3}
INVARIANTS TickedIsShown EditorOfSelected FoundForText SavedAsRefined FeedComplete RestShowsAll
PROPERTIES PostedWhereShown ComposerFreed WorkSettles
CHECK_DEADLOCK FALSE
