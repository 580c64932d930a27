---------------------------- MODULE CrawlRunsList ----------------------------
(***************************************************************************)
(* The crawl runs of a knowledge base in the web client: their list, with  *)
(* the filter, the pages and the polling of DocumentsPage, and the form    *)
(* that starts a crawl. ScrapeRuns, external here, ends the runs.          *)
(***************************************************************************)
EXTENDS PagedList

CONSTANTS Seed,     \* seed URLs
          MaxRuns,  \* bound: runs of the knowledge base
          MaxMoves  \* bound: changes of filter and page

VARIABLES
  runs,   \* scrape_runs, latest createdAt first
  list,   \* scrapeRuns, scrapeRunMeta, scrapeRunPage, the filters, isScrapeRunsLoading
  form,   \* the scrape form: whether it is open, its URL, and the request it submitted
  moves   \* changes of filter and page so far

vars == <<runs, list, form, moves>>

NoUrl == "no url"
NotSubmitted == [stage |-> "none", url |-> NoUrl, query |-> [filter |-> "all", page |-> 1]]

Init == /\ runs = <<>> /\ list = FirstLoad /\ moves = 0
        /\ form = [open |-> FALSE, url |-> NoUrl, request |-> NotSubmitted]

-----------------------------------------------------------------------------
(* The table *)

EndRun(i) ==
  /\ runs[i].open
  /\ runs' = [runs EXCEPT ![i].open = FALSE]
  /\ UNCHANGED <<list, form, moves>>

ListRuns(r) ==
  /\ ~r.served
  /\ list' = Served(list, r, runs)
  /\ UNCHANGED <<runs, form, moves>>

-----------------------------------------------------------------------------
(* The list *)

ShowRuns(r) ==
  /\ r.served
  /\ list' = Applied(list, r)
  /\ UNCHANGED <<runs, form, moves>>

LoadFails(r) ==
  /\ ~r.served
  /\ list' = Dropped(list, r)
  /\ UNCHANGED <<runs, form, moves>>

(* mutant: the timer runs on the first page only *)
PollFirstPage ==
  /\ InFlight(list) /\ Room(list, 1) /\ list.page = 1
  /\ list' = Ask(list, Query(list))
  /\ UNCHANGED <<runs, form, moves>>

Poll ==
  /\ InFlight(list) /\ Room(list, 1)
  /\ list' = Ask(list, Query(list))
  /\ UNCHANGED <<runs, form, moves>>

(* A change of the query of the documents loads both lists again.            *)
Reload ==
  /\ Room(list, 1)
  /\ list' = Ask(list, Query(list))
  /\ UNCHANGED <<runs, form, moves>>

ChangeFilter(f) ==
  /\ moves < MaxMoves /\ f # list.filter /\ Room(list, IF list.page = 1 THEN 1 ELSE 2)
  /\ list' = Refiltered(list, f) /\ moves' = moves + 1
  /\ UNCHANGED <<runs, form>>

TurnPage(p) ==
  /\ moves < MaxMoves /\ CanTurnTo(list, p) /\ Room(list, 1)
  /\ list' = TurnedTo(list, p) /\ moves' = moves + 1
  /\ UNCHANGED <<runs, form>>

-----------------------------------------------------------------------------
(* The form *)

OpenForm ==
  /\ ~form.open
  /\ form' = [form EXCEPT !.open = TRUE]
  /\ UNCHANGED <<runs, list, moves>>

EnterUrl(u) ==
  /\ form.open /\ form.url # u
  /\ form' = [form EXCEPT !.url = u]
  /\ UNCHANGED <<runs, list, moves>>

(* Closing the form keeps what was entered, and the request under way. *)
CloseForm ==
  /\ form.open
  /\ form' = [form EXCEPT !.open = FALSE]
  /\ UNCHANGED <<runs, list, moves>>

SubmitScrape ==
  /\ form.open /\ form.url # NoUrl /\ form.request.stage = "none"
  /\ form' = [form EXCEPT !.request = [stage |-> "asked", url |-> form.url, query |-> Query(list)]]
  /\ UNCHANGED <<runs, list, moves>>

(* A run of the URL that is not over is reused instead of a second one.      *)
StartScrape ==
  LET running == \E i \in DOMAIN runs : runs[i].open /\ runs[i].url = form.request.url
  IN  /\ form.request.stage = "asked"
      /\ form' = [form EXCEPT !.request.stage = "stored"]
      /\ IF running THEN runs' = runs
         ELSE /\ Len(runs) < MaxRuns
              /\ runs' = <<[id |-> Len(runs) + 1, open |-> TRUE, url |-> form.request.url]>> \o runs
      /\ UNCHANGED <<list, moves>>

(* The form is closed and emptied, whatever was entered meanwhile.           *)
Started ==
  /\ form.request.stage = "stored" /\ Room(list, 1)
  /\ form' = [open |-> FALSE, url |-> NoUrl, request |-> [NotSubmitted EXCEPT !.stage = "reloading"]]
  /\ list' = Ask(list, form.request.query)
  /\ UNCHANGED <<runs, moves>>

(* The button is free again when both lists were loaded, or failed to be.    *)
Reloaded ==
  /\ form.request.stage = "reloading"
  /\ form' = [form EXCEPT !.request = NotSubmitted]
  /\ UNCHANGED <<runs, list, moves>>

(* A failure keeps what was entered, also when the run was started and only  *)
(* the answer was lost.                                                      *)
ScrapeFails ==
  /\ form.request.stage \in {"asked", "stored"}
  /\ form' = [form EXCEPT !.request = NotSubmitted]
  /\ UNCHANGED <<runs, list, moves>>

-----------------------------------------------------------------------------

FormStep ==
  \/ OpenForm \/ CloseForm \/ SubmitScrape \/ StartScrape \/ Started \/ Reloaded \/ ScrapeFails
  \/ \E u \in Seed \cup {NoUrl} : EnterUrl(u)

ListStep ==
  \/ Poll \/ Reload
  \/ \E r \in Asked(list) : ListRuns(r) \/ ShowRuns(r) \/ LoadFails(r)
  \/ \E f \in Filter : ChangeFilter(f)
  \/ \E p \in 1 .. list.pages + 1 : TurnPage(p)

Next == FormStep \/ ListStep \/ \E i \in DOMAIN runs : EndRun(i)

(* The timer fires, the worker ends its runs, answers are shown, and a load  *)
(* that is repeated does not fail every time.                                *)
Fairness ==
  /\ WF_vars(Poll)
  /\ WF_vars(\E i \in DOMAIN runs : EndRun(i))
  /\ SF_vars(\E r \in Asked(list) : ListRuns(r))
  /\ WF_vars(\E r \in Asked(list) : ShowRuns(r))

Spec == Init /\ [][Next]_vars /\ Fairness
=============================================================================
