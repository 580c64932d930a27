------------------------------ MODULE WebPages ------------------------------
(***************************************************************************)
(* A tab of the web client: it shows one page, mounted with fresh state,   *)
(* and the pages share nothing but the server. ChatPage, ChatComposer,     *)
(* DocumentsPage, CrawlRunsList, TicketsPage, DatasetsPage,                *)
(* WorkspaceSearch and ActivityFeed are composed here as the alternatives  *)
(* a tab can be at; a tab that goes elsewhere starts again. The composer   *)
(* belongs to the chat page, with which it shares only whether an answer   *)
(* is under way.                                                           *)
(***************************************************************************)
EXTENDS Naturals, Sequences, FiniteSets

CONSTANTS
  MaxTurns, MessagesPerPage, MaxMessageLoads,       \* ChatPage
  RowsPerPage, Existing, Fresh, MaxMoves,           \* DocumentsPage and TicketsPage
  MaxDocumentLoads, MaxHandlers,                    \* DocumentsPage
  MaxTicketLoads, MaxDetails,                       \* TicketsPage
  MaxRunLoads, Seed, MaxRuns, MaxRunMoves,          \* CrawlRunsList
  Dataset, Initial, MaxPolls,                       \* DatasetsPage
  Text, MaxRequests,                                \* WorkspaceSearch
  Phrase, DailyLimit, MaxRefined, MaxSaves,         \* ChatComposer
  EventId                                           \* ActivityFeed

ASSUME ChatBounds == {MaxTurns, MaxMessageLoads} \subseteq Nat /\ MessagesPerPage \in Nat \ {0}
ASSUME PagingBounds ==
  {RowsPerPage, MaxDocumentLoads, MaxTicketLoads, MaxRunLoads} \subseteq Nat \ {0}
ASSUME ExistingBounds == Existing \in Seq({Existing[i] : i \in DOMAIN Existing})
ASSUME PollBound == MaxPolls \in Nat \ {0}
ASSUME ComposerBounds == {DailyLimit, MaxRefined, MaxSaves} \subseteq Nat
ASSUME FeedBounds == IsFiniteSet(EventId) /\ EventId \subseteq Nat

VARIABLES
  at, \* the page the tab shows
  log, sessions, turn, active, shown, cursor, streams, loading, pending, loads, strayed,
  docs, newDocs, docList, ticked, work, docMoves,
  runs, runList, form, runMoves,
  tickets, newTickets, ticketList, selected, editor, details, astray, creation, ticketMoves,
  table, shownSets, load, upload, uploading, deletion, behind,
  open, text, status, found, timer, asked,
  input, busy, refine, lastRefine, remaining, statuses, used, saved, saving,
  clock, events, pages, eventsCursor, listing, marking, seenAt, badge, first, missed

Chat == INSTANCE ChatPage WITH PageSize <- MessagesPerPage, MaxLoads <- MaxMessageLoads
Documents == INSTANCE DocumentsPage
  WITH PageSize <- RowsPerPage, MaxLoads <- MaxDocumentLoads,
       unused <- newDocs, list <- docList, moves <- docMoves
Runs == INSTANCE CrawlRunsList
  WITH PageSize <- RowsPerPage, MaxLoads <- MaxRunLoads, MaxMoves <- MaxRunMoves,
       list <- runList, moves <- runMoves
Tickets == INSTANCE TicketsPage
  WITH PageSize <- RowsPerPage, MaxLoads <- MaxTicketLoads,
       unused <- newTickets, list <- ticketList, moves <- ticketMoves
Sets == INSTANCE DatasetsPage WITH shown <- shownSets
Finder == INSTANCE WorkspaceSearch
Composer == INSTANCE ChatComposer
Feed == INSTANCE ActivityFeed WITH PageSize <- RowsPerPage, cursor <- eventsCursor

chatVars == <<log, sessions, turn, active, shown, cursor, streams, loading, pending, loads, strayed>>
documentVars == <<docs, newDocs, docList, ticked, work, docMoves>>
runVars == <<runs, runList, form, runMoves>>
ticketVars == <<tickets, newTickets, ticketList, selected, editor, details, astray, creation,
                ticketMoves>>
datasetVars == <<table, shownSets, load, upload, uploading, deletion, behind>>
searchVars == <<open, text, status, found, timer, asked>>
composerVars == <<input, busy, refine, lastRefine, remaining, statuses, used, saved, saving>>
feedVars == <<clock, events, pages, eventsCursor, listing, marking, seenAt, badge, first, missed>>
vars == <<at, chatVars, documentVars, runVars, ticketVars, datasetVars,
          searchVars, composerVars, feedVars>>

Init == /\ at \in {"chat", "documents", "runs", "tickets", "datasets", "search", "composer", "activity"}
        /\ Chat!Init /\ Documents!Init /\ Runs!Init /\ Tickets!Init /\ Sets!Init
        /\ Finder!Init /\ Composer!Init /\ Feed!Init

AtChat(A) == at = "chat" /\ A
  /\ UNCHANGED <<at, documentVars, runVars, ticketVars, datasetVars, searchVars, composerVars, feedVars>>
AtDocuments(A) == at = "documents" /\ A
  /\ UNCHANGED <<at, chatVars, runVars, ticketVars, datasetVars, searchVars, composerVars, feedVars>>
AtRuns(A) == at = "runs" /\ A
  /\ UNCHANGED <<at, chatVars, documentVars, ticketVars, datasetVars, searchVars, composerVars, feedVars>>
AtTickets(A) == at = "tickets" /\ A
  /\ UNCHANGED <<at, chatVars, documentVars, runVars, datasetVars, searchVars, composerVars, feedVars>>
AtDatasets(A) == at = "datasets" /\ A
  /\ UNCHANGED <<at, chatVars, documentVars, runVars, ticketVars, searchVars, composerVars, feedVars>>
AtSearch(A) == at = "search" /\ A
  /\ UNCHANGED <<at, chatVars, documentVars, runVars, ticketVars, datasetVars, composerVars, feedVars>>
AtComposer(A) == at = "composer" /\ A
  /\ UNCHANGED <<at, chatVars, documentVars, runVars, ticketVars, datasetVars, searchVars, feedVars>>
AtFeed(A) == at = "activity" /\ A
  /\ UNCHANGED <<at, chatVars, documentVars, runVars, ticketVars, datasetVars, searchVars, composerVars>>

Next == \/ AtChat(Chat!Next) \/ AtDocuments(Documents!Next) \/ AtRuns(Runs!Next)
        \/ AtTickets(Tickets!Next) \/ AtDatasets(Sets!Next) \/ AtSearch(Finder!Next)
        \/ AtComposer(Composer!Next) \/ AtFeed(Feed!Next)

(* The fairness of the pages, of the one the tab shows.                      *)
Fairness ==
  /\ \A t \in 1 .. MaxTurns :
       /\ WF_vars(AtChat(t \in Chat!Posted /\ Chat!Serve(t)))
       /\ WF_vars(AtChat(\E s \in streams : s.turn = t /\ Chat!Reads(s)))
  /\ WF_vars(AtRuns(Runs!Poll) \/ AtDatasets(Sets!Poll))
  /\ WF_vars(\/ AtRuns(\E i \in DOMAIN runs : Runs!EndRun(i))
              \/ AtDatasets(\E d \in Dataset : Sets!Settle(d)))
  /\ SF_vars(\/ AtRuns(\E r \in Runs!Asked(runList) : Runs!ListRuns(r))
              \/ AtDatasets(\E l \in DOMAIN load : Sets!List(l)))
  /\ WF_vars(\/ AtRuns(\E r \in Runs!Asked(runList) : Runs!ShowRuns(r))
              \/ AtDatasets(\E l \in DOMAIN load : Sets!ShowDatasets(l)))

Spec == Init /\ [][Next]_vars
FairSpec == Spec /\ Fairness

-----------------------------------------------------------------------------

(* The chat page posts a question to the session of the messages above it    *)
(* (page.tsx: handleSend).                                                   *)
PostedWhereShown == Chat!PostedWhereShown

(* The composer of the chat page does not stay disabled (page.tsx: isLoading).*)
ComposerFreed == Chat!ComposerFreed

(* Only documents that are shown are ticked (loadDocuments prunes).          *)
TickedIsShown == Documents!TickedIsShown

(* The page of datasets comes to rest with what there is (loadDatasets).     *)
RestShowsAll == Sets!RestShowsAll

(* Nothing stays shown as in progress, neither a crawl run nor a dataset,    *)
(* each on its page (the polling effects).                                   *)
WorkSettles == []<>(~Runs!InFlight(runList) /\ ~Sets!InFlight(shownSets))

(* The ticket editor holds the selected ticket's fields, unless they are on  *)
(* their way or went astray (loadTicketDetail).                              *)
EditorOfSelected == Tickets!EditorOfSelected

(* Found results belong to the text in the box (the AbortController).        *)
FoundForText == Finder!FoundForText

(* What is saved for reuse is a text and its own refinement (handleRefine).   *)
SavedAsRefined == Composer!SavedAsRefined

(* The activity page lists, reaches or leaves unread every event (list).     *)
FeedComplete == Feed!FeedComplete
=============================================================================
