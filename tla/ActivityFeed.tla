---------------------------- MODULE ActivityFeed ----------------------------
(***************************************************************************)
(* The activity of a workspace: the events the processors record, the      *)
(* overview page that lists them page by page below a keyset cursor, and   *)
(* the count of unread ones in the navigation. Rows are compared by the    *)
(* millisecond of their time stamp, then by their random id; the database  *)
(* and the server keep one time here, of two ticks to a millisecond.       *)
(***************************************************************************)
EXTENDS Naturals, Sequences, FiniteSets

CONSTANTS EventId,  \* ids of workspace_events; one bounds the other: events ever recorded
          PageSize  \* rows of a page

VARIABLES
  clock,   \* ticks
  events,  \* workspace_events
  pages,   \* events: the pages that were loaded, one below the other
  cursor,  \* eventsNextCursor: none, or one
  listing, \* the call of listEvents that is under way, if any
  marking, \* markEventsSeen is under way
  seenAt,  \* workspace_members.events_seen_at: none, or one
  badge,   \* unreadCount
  first,   \* history: the events there were when the first page was read
  missed   \* history: those recorded from then until the mark

vars == <<clock, events, pages, cursor, listing, marking, seenAt, badge, first, missed>>

Ms(at) == at \div 2
Key(e) == [ms |-> Ms(e.at), id |-> e.id]
Call(after) == [after |-> after, read |-> FALSE, page |-> {}, next |-> {}]

Init ==
  /\ clock = 1 /\ events = {} /\ pages = <<>> /\ cursor = {} /\ listing = {Call({})}
  /\ marking = FALSE /\ seenAt = {} /\ badge = 0 /\ first = {} /\ missed = {}

-----------------------------------------------------------------------------
(* EventsService *)

(* No two statements take the same tick. *)
Record(id, ticks) ==
  /\ id \notin {e.id : e \in events}
  /\ clock' = clock + ticks
  /\ events' = events \cup {[id |-> id, at |-> clock']}
  /\ UNCHANGED <<pages, cursor, listing, marking, seenAt, badge, first, missed>>

(* orderBy *)
Before(j, k) == j.ms > k.ms \/ (j.ms = k.ms /\ j.id > k.id)

(* mutant: no tie-break by id *)
BelowMs(c, k) == k.ms < c.ms

(* where *)
Below(c, k) == k.ms < c.ms \/ (k.ms = c.ms /\ k.id < c.id)

After(cursors) == {e \in events : \A c \in cursors : Below(c, Key(e))}

FirstOf(rows) ==
  {e \in rows : Cardinality({f \in rows : Before(Key(f), Key(e))}) < PageSize}

NextCursor(rows, page) ==
  IF rows = page THEN {}
  ELSE {Key(e) : e \in {e \in page : \A f \in page : f = e \/ Before(Key(f), Key(e))}}

List(l) ==
  /\ ~l.read
  /\ LET rows == After(l.after)
         page == FirstOf(rows)
     IN  listing' = {[l EXCEPT !.read = TRUE, !.page = page, !.next = NextCursor(rows, page)]}
  /\ first' = IF l.after = {} THEN events ELSE first
  /\ UNCHANGED <<clock, events, pages, cursor, marking, seenAt, badge, missed>>

(* new Date(), in milliseconds; the page does not wait for it, nor tries again. *)
MarkSeen ==
  /\ marking /\ marking' = FALSE
  /\ \/ seenAt' = {2 * Ms(clock)} /\ missed' = events \ first
     \/ UNCHANGED <<seenAt, missed>>
  /\ UNCHANGED <<clock, events, pages, cursor, listing, badge, first>>

Unread == {e \in events : \A t \in seenAt : e.at > t}

-----------------------------------------------------------------------------
(* The overview page and the navigation *)

(* loadPage, and the mark it asks for the first time. *)
ShowFirst(l) ==
  /\ l.read /\ l.after = {}
  /\ pages' = <<l.page>> /\ cursor' = l.next /\ listing' = {} /\ marking' = TRUE
  /\ UNCHANGED <<clock, events, seenAt, badge, first, missed>>

(* The button is disabled while a page is loaded. *)
CanLoadMore == cursor # {} /\ listing = {}

LoadMore ==
  /\ CanLoadMore /\ listing' = {Call(cursor)}
  /\ UNCHANGED <<clock, events, pages, cursor, marking, seenAt, badge, first, missed>>

ShowMore(l) ==
  /\ l.read /\ l.after # {}
  /\ pages' = Append(pages, l.page) /\ cursor' = l.next /\ listing' = {}
  /\ UNCHANGED <<clock, events, marking, seenAt, badge, first, missed>>

(* Nothing asks again, and nothing is marked. *)
FirstFails(l) ==
  /\ l.after = {} /\ listing' = {}
  /\ UNCHANGED <<clock, events, pages, cursor, marking, seenAt, badge, first, missed>>

(* The cursor stays, and with it the button. *)
MoreFails(l) ==
  /\ l.after # {} /\ listing' = {}
  /\ UNCHANGED <<clock, events, pages, cursor, marking, seenAt, badge, first, missed>>

(* When the navigation is mounted; nothing counts again. *)
CountUnread ==
  /\ badge' \in {0, Cardinality(Unread)}
  /\ UNCHANGED <<clock, events, pages, cursor, listing, marking, seenAt, first, missed>>

-----------------------------------------------------------------------------

Next ==
  \/ \E id \in EventId, ticks \in 1 .. 2 : Record(id, ticks)
  \/ \E l \in listing : List(l) \/ ShowFirst(l) \/ ShowMore(l) \/ FirstFails(l) \/ MoreFails(l)
  \/ LoadMore \/ MarkSeen \/ CountUnread

Spec == Init /\ [][Next]_vars

(* Once the page is there, an event it lists is listed once; one that it does *)
(* not list is below the cursor, and so reached by "Load more", or is counted *)
(* as unread, except when it was recorded between the first read and the mark. *)
FeedComplete ==
  pages # <<>> => \A e \in events :
    LET listed == {i \in DOMAIN pages : e \in pages[i]}
        reached == \A c \in cursor : ~Before(c, Key(e))
    IN  IF listed # {} THEN Cardinality(listed) = 1 /\ reached
        ELSE ~reached \/ e \in Unread \/ e \in missed
=============================================================================
