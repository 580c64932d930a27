---------------------------- MODULE DocumentsPage ----------------------------
(***************************************************************************)
(* The documents of a knowledge base in the web client: the list with its  *)
(* filter, pages and 3-second polling, the ticked rows, uploads and        *)
(* deletes. A handler that awaits uses the query and the ticked ids of the *)
(* render it was started from. Other members delete documents meanwhile,   *)
(* and DocumentIngest, external here, settles them.                        *)
(***************************************************************************)
EXTENDS PagedList

CONSTANTS Existing,     \* ids of the documents the page is opened with, newest first
          Fresh,        \* ids for documents uploaded later
          MaxMoves,     \* bound: changes of filter and page
          MaxHandlers   \* bound: handlers under way at a time

VARIABLES
  docs,     \* documents of the knowledge base, latest updatedAt first
  unused,   \* ids not given to a document yet
  list,     \* documents, documentMeta, documentPage, the filters, isDocumentsRefreshing
  ticked,   \* selectedDocumentIds
  work,     \* the handlers that await: an upload, a delete, a bulk delete, a crawl's start
  moves     \* changes of filter and page so far

vars == <<docs, unused, list, ticked, work, moves>>

Init ==
  /\ docs = [i \in DOMAIN Existing |-> [id |-> Existing[i], open |-> TRUE]]
  /\ unused = Fresh /\ list = FirstLoad /\ ticked = {} /\ work = {} /\ moves = 0

-----------------------------------------------------------------------------
(* The table *)

Without(ids) == Kept(docs, {i \in DOMAIN docs : docs[i].id \notin ids})

Settle(i) ==
  /\ docs[i].open
  /\ docs' = <<[docs[i] EXCEPT !.open = FALSE]>> \o Without({docs[i].id})
  /\ UNCHANGED <<unused, list, ticked, work, moves>>

DeletedElsewhere(i) ==
  /\ docs' = Without({docs[i].id})
  /\ UNCHANGED <<unused, list, ticked, work, moves>>

ListForKnowledgeBase(r) ==
  /\ ~r.served
  /\ list' = Served(list, r, docs)
  /\ UNCHANGED <<docs, unused, ticked, work, moves>>

-----------------------------------------------------------------------------
(* The list *)

(* The ticks of rows that are not shown any more go with the rows.           *)
(* mutant: the ticks are kept *)
TicksKeptAll(rows) == ticked

TicksKept(rows) == ticked \cap Ids(rows)

ShowDocuments(r) ==
  /\ r.served
  /\ list' = Applied(list, r)
  /\ ticked' = TicksKept(r.rows)
  /\ UNCHANGED <<docs, unused, work, moves>>

(* A load that fails, before or after the query ran, only raises a toast.    *)
LoadFails(r) ==
  /\ ~r.served
  /\ list' = Dropped(list, r)
  /\ UNCHANGED <<docs, unused, ticked, work, moves>>

Poll ==
  /\ InFlight(list) /\ Room(list, 1)
  /\ list' = Ask(list, Query(list))
  /\ UNCHANGED <<docs, unused, ticked, work, moves>>

(* A change of the query of the crawl runs runs the effect of the mount again, *)
(* which loads both lists.                                                    *)
Reload ==
  /\ Room(list, 1)
  /\ list' = Ask(list, Query(list))
  /\ UNCHANGED <<docs, unused, ticked, work, moves>>

ChangeFilter(f) ==
  /\ f # list.filter /\ Room(list, IF list.page = 1 THEN 1 ELSE 2)
  /\ list' = Refiltered(list, f)
  /\ moves < MaxMoves /\ moves' = moves + 1
  /\ UNCHANGED <<docs, unused, ticked, work>>

TurnPage(p) ==
  /\ CanTurnTo(list, p) /\ Room(list, 1)
  /\ list' = TurnedTo(list, p)
  /\ moves < MaxMoves /\ moves' = moves + 1
  /\ UNCHANGED <<docs, unused, ticked, work>>

Tick(id) ==
  /\ ticked' = IF id \in ticked THEN ticked \ {id} ELSE ticked \cup {id}
  /\ UNCHANGED <<docs, unused, list, work, moves>>

(* The box in the header ticks every row shown, or none. *)
TickAll ==
  /\ list.rows # <<>>
  /\ ticked' = IF Ids(list.rows) \subseteq ticked THEN {} ELSE Ids(list.rows)
  /\ UNCHANGED <<docs, unused, list, work, moves>>

-----------------------------------------------------------------------------
(* The handlers *)

Idle(handler) == Cardinality(work) < MaxHandlers /\ \A w \in work : w.handler # handler
Start(handler, ids) ==
  work' = work \cup {[handler |-> handler, stage |-> "asked", ids |-> ids, query |-> Query(list)]}
To(w, stage, ids) == work' = (work \ {w}) \cup {[w EXCEPT !.stage = stage, !.ids = ids]}

StartUpload ==
  /\ Idle("upload") /\ unused # {}
  /\ Start("upload", {})
  /\ UNCHANGED <<docs, unused, list, ticked, moves>>

Upload(w) ==
  /\ w.handler = "upload" /\ w.stage = "asked"
  /\ \E id \in unused :
       /\ unused' = unused \ {id}
       /\ docs' = <<[id |-> id, open |-> TRUE]>> \o docs
       /\ To(w, "stored", {id})
  /\ UNCHANGED <<list, ticked, moves>>

(* The new row is put on top, whatever the query; the next file follows, or  *)
(* the reload. A poll may have shown the row already: it is there twice.     *)
Uploaded(w) ==
  /\ w.handler = "upload" /\ w.stage = "stored"
  /\ \E id \in w.ids :
       LET shown == [list EXCEPT !.rows = <<[id |-> id, open |-> TRUE]>> \o @]
       IN  \/ /\ unused # {} /\ To(w, "asked", {}) /\ list' = shown
           \/ /\ Room(list, 1) /\ work' = work \ {w} /\ list' = Ask(shown, w.query)
  /\ UNCHANGED <<docs, unused, ticked, moves>>

(* The row was shown when its dialog was opened. *)
ConfirmDelete(id) ==
  /\ Idle("delete") /\ id \notin unused
  /\ Start("delete", {id})
  /\ UNCHANGED <<docs, unused, list, ticked, moves>>

ConfirmBulkDelete ==
  /\ Idle("bulk") /\ ticked # {}
  /\ Start("bulk", ticked)
  /\ UNCHANGED <<docs, unused, list, ticked, moves>>

(* The single delete of a document that is gone is refused; the bulk delete  *)
(* skips it.                                                                 *)
Remove(w) ==
  /\ w.handler \in {"delete", "bulk"} /\ w.stage = "asked"
  /\ IF w.handler = "delete" /\ w.ids \cap Ids(docs) = {} THEN work' = work \ {w}
     ELSE To(w, "stored", w.ids)
  /\ docs' = Without(w.ids)
  /\ UNCHANGED <<unused, list, ticked, moves>>

(* All ticks are cleared, also those made while the request was under way.   *)
Removed(w) ==
  /\ w.handler \in {"delete", "bulk"} /\ w.stage = "stored" /\ Room(list, 1)
  /\ work' = work \ {w}
  /\ ticked' = IF w.handler = "bulk" THEN {} ELSE ticked
  /\ list' = Ask(list, w.query)
  /\ UNCHANGED <<docs, unused, moves>>

SubmitScrape ==
  /\ Idle("scrape")
  /\ Start("scrape", {})
  /\ UNCHANGED <<docs, unused, list, ticked, moves>>

ScrapeStarted(w) ==
  /\ w.handler = "scrape" /\ Room(list, 1)
  /\ work' = work \ {w}
  /\ list' = Ask(list, w.query)
  /\ UNCHANGED <<docs, unused, ticked, moves>>

(* A request that fails, before or after it took effect, is only reported.   *)
Fails(w) ==
  /\ work' = work \ {w}
  /\ UNCHANGED <<docs, unused, list, ticked, moves>>

-----------------------------------------------------------------------------

Next ==
  \/ Poll \/ Reload \/ TickAll \/ StartUpload \/ ConfirmBulkDelete \/ SubmitScrape
  \/ \E i \in DOMAIN docs : Settle(i) \/ DeletedElsewhere(i)
  \/ \E r \in Asked(list) : ListForKnowledgeBase(r) \/ ShowDocuments(r) \/ LoadFails(r)
  \/ \E f \in Filter : ChangeFilter(f)
  \/ \E p \in 1 .. list.pages + 1 : TurnPage(p)
  \/ \E id \in Ids(list.rows) : Tick(id)
  \/ \E id \in {Existing[i] : i \in DOMAIN Existing} \cup Fresh : ConfirmDelete(id)
  \/ \E w \in work : Upload(w) \/ Uploaded(w) \/ Remove(w) \/ Removed(w)
                     \/ ScrapeStarted(w) \/ Fails(w)

Spec == Init /\ [][Next]_vars

-----------------------------------------------------------------------------

(* A tick is of a row that is shown: polls, late answers, uploads and        *)
(* deletes never leave one behind that "Delete selected" would act on        *)
(* without the user seeing the document.                                     *)
TickedIsShown == ticked \subseteq Ids(list.rows)
=============================================================================
