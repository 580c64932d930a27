----------------------------- MODULE TicketsPage -----------------------------
(***************************************************************************)
(* The tickets of a workspace in the web client: the list with its filter, *)
(* pages and polling, the selected ticket, and the editor, which is filled *)
(* by every detail that arrives, whichever ticket is selected by then.     *)
(* TicketLifecycle, external here, ends the extractions.                   *)
(***************************************************************************)
EXTENDS PagedList, Bags

CONSTANTS Existing,   \* ids of the tickets the page is opened with, newest first
          Fresh,      \* ids for tickets created later
          MaxMoves,   \* bound: changes of filter and page
          MaxDetails  \* bound: detail requests under way at a time

VARIABLES
  tickets,   \* tickets of the workspace, latest updatedAt first
  unused,    \* ids not given to a ticket yet
  list,      \* tickets, meta, page, the filters, isTicketsLoading
  selected,  \* selectedTicketId
  editor,    \* the ticket whose fields the editor holds
  details,   \* requests that fill the editor: the latest, until it is answered, and older ones
  astray,    \* history: the editor was filled by an older answer than the last, or the
             \* request for the selected ticket failed before the editor held it
  creation,  \* handleCreate: idle, posted, stored or reloading, and its ticket and query
  moves      \* changes of filter and page so far

selection == <<selected, editor, details, astray>>
vars == <<tickets, unused, list, selection, creation, moves>>

None == 0

Idle == [stage |-> "idle", ticket |-> None, query |-> [filter |-> "all", page |-> 1]]

Init ==
  /\ tickets = [i \in DOMAIN Existing |-> [id |-> Existing[i], open |-> TRUE]]
  /\ unused = Fresh /\ list = FirstLoad /\ moves = 0
  /\ selected = None /\ editor = None /\ details = [latest |-> {}, older |-> EmptyBag] /\ astray = FALSE
  /\ creation = Idle

-----------------------------------------------------------------------------
(* The table *)

Touched(id, row) == <<row>> \o Kept(tickets, {i \in DOMAIN tickets : tickets[i].id # id})

Settle(i) ==
  /\ tickets[i].open
  /\ tickets' = Touched(tickets[i].id, [tickets[i] EXCEPT !.open = FALSE])
  /\ UNCHANGED <<unused, list, selection, creation, moves>>

ListTickets(r) ==
  /\ ~r.served
  /\ list' = Served(list, r, tickets)
  /\ UNCHANGED <<tickets, unused, selection, creation, moves>>

-----------------------------------------------------------------------------
(* The selected ticket and its detail *)

Detail(kind, ticket) == [kind |-> kind, ticket |-> ticket]

(* At most one at a time. *)
AskDetail(ds, asks) ==
  IF asks = {} THEN ds ELSE [latest |-> asks, older |-> BagUnion({ds.older, SetToBag(ds.latest)})]

Under(ds, last) == IF last THEN ds.latest ELSE BagToSet(ds.older)
Without(ds, d, last) ==
  IF last THEN [ds EXCEPT !.latest = {}] ELSE [ds EXCEPT !.older = BagExt!BagRemove(@, d)]

UnderWay(ds) == ds.latest \cup BagToSet(ds.older)
OfTicket(d, ticket) == d.kind # "created" /\ d.ticket = ticket

RoomFor(ds, n) == Cardinality(ds.latest) + BagCardinality(ds.older) + n <= MaxDetails
Asking(ds, before, asks) ==
  /\ RoomFor(ds, Cardinality(before) + Cardinality(asks))
  /\ details' = AskDetail(AskDetail(ds, before), asks)

(* mutant: the fallback asks for a detail only when nothing was selected *)
FallbackUnasked(settled, t) ==
  IF t # None \/ settled = None THEN {} ELSE {Detail("load", settled)}

Fallback(settled, t) == IF settled \in {None, t} THEN {} ELSE {Detail("load", settled)}

(* The selection is one of the tickets shown, the first one when it was not; *)
(* whatever it becomes on the way is asked for.                              *)
SelectAmong(rows, t, ds, shown, stray) ==
  LET settled == IF rows = <<>> THEN None ELSE IF t \in Ids(rows) THEN t ELSE rows[1].id
      opened == IF t \in {None, selected} THEN {} ELSE {Detail("load", t)}
      asks == Fallback(settled, t)
  IN  /\ selected' = settled
      /\ editor' = IF rows = <<>> THEN None ELSE shown
      /\ Asking(ds, opened, asks)
      /\ astray' = (stray /\ opened \cup asks = {})

OpenReview(t) ==
  /\ SelectAmong(list.rows, t, details, editor, astray)
  /\ UNCHANGED <<tickets, unused, list, creation, moves>>

Due == \E d \in details.latest : d.kind # "created"

(* An answer fills the editor, whatever is selected by now. *)
Fill(d, last) ==
  /\ details' = Without(details, d, last)
  /\ editor' = d.ticket
  /\ astray' = (~last /\ d.ticket # selected /\ (astray \/ ~Due))

ShowDetail(d, last) ==
  /\ d.kind = "load"
  /\ Fill(d, last)
  /\ UNCHANGED <<tickets, unused, list, selected, creation, moves>>

DetailFails(d, last) ==
  /\ d.kind # "created"
  /\ details' = Without(details, d, last)
  /\ astray' = (astray \/ (d.ticket = selected /\ editor # selected))
  /\ UNCHANGED <<tickets, unused, list, selected, editor, creation, moves>>

-----------------------------------------------------------------------------
(* The list *)

By(r, handler) == "by" \in DOMAIN r.query /\ r.query.by = handler
For(query, handler) == [filter |-> query.filter, page |-> query.page, by |-> handler]

(* handleCreate goes on when its own reload is answered or has failed.       *)
Continue(r) ==
  creation' = IF By(r, "create") THEN [creation EXCEPT !.stage = "reloaded"] ELSE creation

ShowTickets(r) ==
  /\ r.served
  /\ list' = Applied(list, r)
  /\ SelectAmong(r.rows, selected, details, editor, astray)
  /\ Continue(r)
  /\ UNCHANGED <<tickets, unused, moves>>

LoadFails(r) ==
  /\ ~r.served
  /\ list' = Dropped(list, r)
  /\ Continue(r)
  /\ UNCHANGED <<tickets, unused, selection, moves>>

Poll ==
  /\ InFlight(list) /\ Room(list, 1)
  /\ list' = Ask(list, Query(list))
  /\ Asking(details, {}, IF selected = None THEN {} ELSE {Detail("load", selected)})
  /\ UNCHANGED <<tickets, unused, selected, editor, astray, creation, moves>>

Refresh ==
  /\ Room(list, 1)
  /\ list' = Ask(list, Query(list))
  /\ UNCHANGED <<tickets, unused, selection, creation, moves>>

ChangeFilter(f) ==
  /\ moves < MaxMoves /\ f # list.filter /\ Room(list, IF list.page = 1 THEN 1 ELSE 2)
  /\ list' = Refiltered(list, f) /\ moves' = moves + 1
  /\ UNCHANGED <<tickets, unused, selection, creation>>

TurnPage(p) ==
  /\ moves < MaxMoves /\ CanTurnTo(list, p) /\ Room(list, 1)
  /\ list' = TurnedTo(list, p) /\ moves' = moves + 1
  /\ UNCHANGED <<tickets, unused, selection, creation>>

-----------------------------------------------------------------------------
(* handleSave: the fields of the editor are sent as those of the selection.  *)

Saving ==
  \/ \E d \in UnderWay(details) : d.kind \in {"save", "saved"}
  \/ \E r \in Asked(list) : By(r, "save")

Save ==
  /\ selected # None /\ editor # None /\ ~Saving
  /\ Asking(details, {}, {[kind |-> "save", ticket |-> selected, query |-> Query(list)]})
  /\ UNCHANGED <<tickets, unused, list, selected, editor, astray, creation, moves>>

(* PATCH: the UPDATE is made, and its answer is on the way. *)
UpdateTicket(d, last) ==
  LET answer == [kind |-> "saved", ticket |-> d.ticket, query |-> d.query]
      left == Without(details, d, last)
  IN /\ d.kind = "save"
     /\ \E i \in DOMAIN tickets :
          tickets[i].id = d.ticket /\ tickets' = Touched(d.ticket, tickets[i])
     /\ details' = IF last THEN [left EXCEPT !.latest = {answer}]
                           ELSE [left EXCEPT !.older = BagExt!BagAdd(@, answer)]
     /\ UNCHANGED <<unused, list, selected, editor, astray, creation, moves>>

Saved(d, last) ==
  /\ d.kind = "saved" /\ Room(list, 1)
  /\ Fill(d, last)
  /\ list' = Ask(list, For(d.query, "save"))
  /\ UNCHANGED <<tickets, unused, selected, creation, moves>>

-----------------------------------------------------------------------------
(* handleCreate *)

Create ==
  /\ creation.stage = "idle"
  /\ creation' = [stage |-> "posted", ticket |-> None, query |-> Query(list)]
  /\ UNCHANGED <<tickets, unused, list, selection, moves>>

(* The ticket that already has the transcript is returned, or a new one.     *)
CreateTicket ==
  /\ creation.stage = "posted" /\ Room(list, 1)
  /\ \/ \E t \in Ids(tickets) :
          /\ creation' = [creation EXCEPT !.stage = "reloading", !.ticket = t]
          /\ UNCHANGED <<tickets, unused>>
     \/ \E t \in unused :
          /\ creation' = [creation EXCEPT !.stage = "reloading", !.ticket = t]
          /\ tickets' = Touched(t, [id |-> t, open |-> TRUE])
          /\ unused' = unused \ {t}
  /\ list' = Ask(list, For(creation.query, "create"))
  /\ UNCHANGED <<selection, moves>>

CreateFails ==
  /\ creation.stage = "posted"
  /\ creation' = Idle
  /\ UNCHANGED <<tickets, unused, list, selection, moves>>

AskCreated ==
  /\ creation.stage = "reloaded"
  /\ Asking(details, {}, {Detail("created", creation.ticket)})
  /\ creation' = [creation EXCEPT !.stage = "asked"]
  /\ UNCHANGED <<tickets, unused, list, selected, editor, astray, moves>>

(* The detail of the new ticket is shown, unless it failed; either way its   *)
(* review is opened, and the selection effect may take it away again.        *)
OpenCreated(d, last) ==
  /\ d.kind = "created"
  /\ \E shown \in {editor, d.ticket} :
       SelectAmong(list.rows, d.ticket, Without(details, d, last), shown,
                   astray /\ shown = editor)
  /\ creation' = Idle
  /\ UNCHANGED <<tickets, unused, list, moves>>

-----------------------------------------------------------------------------

ListStep ==
  \/ Poll \/ Refresh
  \/ \E r \in Asked(list) : ListTickets(r) \/ ShowTickets(r) \/ LoadFails(r)
  \/ \E f \in Filter : ChangeFilter(f)
  \/ \E p \in 1 .. list.pages + 1 : TurnPage(p)

DetailStep ==
  \/ \E t \in Ids(list.rows) : OpenReview(t)
  \/ \E last \in BOOLEAN : \E d \in Under(details, last) :
       \/ ShowDetail(d, last) \/ DetailFails(d, last) \/ OpenCreated(d, last)
       \/ UpdateTicket(d, last) \/ Saved(d, last)

Next ==
  \/ ListStep \/ DetailStep \/ Save
  \/ Create \/ CreateTicket \/ CreateFails \/ AskCreated
  \/ \E i \in DOMAIN tickets : Settle(i)

Spec == Init /\ [][Next]_vars

-----------------------------------------------------------------------------

(* The fields in the editor are those of the selected ticket, the one that    *)
(* handleSave writes them to, whatever changed the selection: a click, a       *)
(* reload without the ticket, or a creation outside the filter. When they are  *)
(* another ticket's, the selected one's are still on the way, or went astray:  *)
(* their request failed, or an older answer was shown after them.              *)
EditorOfSelected ==
  selected # None /\ editor # selected =>
    astray \/ \E d \in UnderWay(details) : OfTicket(d, selected)
=============================================================================
