------------------------------ MODULE PagedList ------------------------------
(***************************************************************************)
(* A filtered, paged list of the web client and the query that answers it. *)
(* A list is a record: the query the controls stand for, the rows and page *)
(* count last shown, whether a load is believed to be under way, and the   *)
(* requests asked for. Nothing relates an answer to the query that is      *)
(* current when it arrives: the last answer to arrive is what is shown.    *)
(*                                                                         *)
(* A row is an id and whether the work on it is still under way; the       *)
(* search text, the status and the other filters are one filter.           *)
(***************************************************************************)
EXTENDS TableRows

CONSTANTS PageSize, \* rows of a page
          MaxLoads  \* bound: requests of one list under way at a time

Bag == INSTANCE Bags
BagExt == INSTANCE BagsExt

Filter == {"all", "settled"}
Query(l) == [filter |-> l.filter, page |-> l.page]

(* The server's side: the WHERE, the ORDER BY (the table is kept in that     *)
(* order), OFFSET and LIMIT, and the count of pages beside them, which is a  *)
(* SELECT of its own, taken here at the same point.                          *)
Matching(table, filter) == Kept(table, {i \in DOMAIN table : filter = "all" \/ ~table[i].open})

PageOf(table, q) ==
  LET rows == Matching(table, q.filter)
      offset == (q.page - 1) * PageSize
  IN  SubSeq(rows, offset + 1, IF offset + PageSize < Len(rows) THEN offset + PageSize ELSE Len(rows))

TotalPages(table, q) == (Len(Matching(table, q.filter)) + PageSize - 1) \div PageSize

(* The client's side *)
Room(l, n) == Bag!BagCardinality(l.asked) + n <= MaxLoads
Asked(l) == Bag!BagToSet(l.asked)
Request(q) == [query |-> q, served |-> FALSE, rows |-> <<>>, pages |-> 0]

Ask(l, q) == [l EXCEPT !.busy = TRUE, !.asked = BagExt!BagAdd(@, Request(q))]

Answer(r, table) ==
  [r EXCEPT !.served = TRUE, !.rows = PageOf(table, r.query), !.pages = TotalPages(table, r.query)]

Served(l, r, table) == [l EXCEPT !.asked = BagExt!BagAdd(BagExt!BagRemove(@, r), Answer(r, table))]

Applied(l, r) ==
  [l EXCEPT !.rows = r.rows, !.pages = r.pages, !.busy = FALSE, !.asked = BagExt!BagRemove(@, r)]

Dropped(l, r) == [l EXCEPT !.busy = FALSE, !.asked = BagExt!BagRemove(@, r)]

(* A new filter is asked for with the old page first: the effect that goes   *)
(* back to page 1 runs after the render whose load it comes too late for.    *)
Refiltered(l, f) ==
  LET asked == Ask([l EXCEPT !.filter = f], [filter |-> f, page |-> l.page])
  IN  IF l.page = 1 THEN asked
      ELSE Ask([asked EXCEPT !.page = 1], [filter |-> f, page |-> 1])

(* An empty table shows no page controls, also when it is past the last page. *)
CanTurnTo(l, p) ==
  /\ ~l.busy /\ l.rows # <<>>
  /\ p # l.page /\ p \in 1 .. (IF l.pages = 0 THEN 1 ELSE l.pages)
TurnedTo(l, p) == Ask([l EXCEPT !.page = p], [filter |-> l.filter, page |-> p])

InFlight(l) == \E i \in DOMAIN l.rows : l.rows[i].open
Ids(rows) == {rows[i].id : i \in DOMAIN rows}

FirstLoad ==
  Ask([filter |-> "all", page |-> 1, rows |-> <<>>, pages |-> 0, busy |-> FALSE, asked |-> Bag!EmptyBag],
      [filter |-> "all", page |-> 1])
=============================================================================
