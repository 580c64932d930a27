------------------------------ MODULE ChatPage ------------------------------
(***************************************************************************)
(* The chat page of the web client: what it shows, the session it would    *)
(* post to, the streams it reads through the chat route, and its loads of  *)
(* stored messages, whose answers may come late, in any order, or not at   *)
(* all. The server is the abstract Conversation, which ChatTurn implements, *)
(* with the ways a response can end.                                       *)
(*                                                                         *)
(* useChat (ai) is external: it appends the question, replaces what is     *)
(* shown by the messages it sent and the text so far with every token, and *)
(* calls the page's callbacks as they were when the request was sent.      *)
(***************************************************************************)
EXTENDS TableRows

CONSTANTS
  MaxTurns,  \* bound: chat requests ever posted
  PageSize,  \* messages in one answer of getMessages
  MaxLoads   \* bound: loads under way when the user asks for another

VARIABLES
  log,      \* chat_messages, in the order of their INSERTs
  sessions, \* chat_sessions rows, numbered
  turn,     \* the requests, in the order in which they were posted
  active,   \* activeSessionId
  shown,    \* messages
  cursor,   \* nextMessageCursor: how many messages of the session were loaded
  streams,  \* requests of useChat that are neither finished nor stopped
  loading,  \* isLoading
  pending,  \* pendingSessionIdRef
  loads,    \* calls of getChatMessages
  strayed   \* history: what is shown may not be of the active session

server == <<log, sessions, turn>>
screen == <<active, shown, cursor>>
page == <<screen, streams, loading, pending, loads, strayed>>
vars == <<server, page>>

None == 0
Turn == 1 .. MaxTurns
Session == 1 .. MaxTurns
Conv == INSTANCE Conversation

Posted == DOMAIN turn

(* answering: the headers are sent; broken: the stream failed after them;    *)
(* failed: the apology is sent without them; refused: an HttpException;      *)
(* lost: the process died.                                                   *)
Request == [session : {None} \cup Session,
            state : {"posted", "asked", "answering", "done", "broken", "failed", "refused", "lost"}]

Shown == [turn : Turn, role : {"user", "assistant"}]
Stream == [turn : Turn, base : Seq(Shown), active : {None} \cup Session, opened : BOOLEAN]
Load == [kind : {"open", "finish", "older"}, session : Session, after : Nat,
         answered : BOOLEAN, items : Seq(Shown), next : Nat]

TypeOK ==
  /\ Conv!TypeOK /\ sessions \in 0 .. MaxTurns /\ turn \in Seq(Request) /\ Len(turn) <= MaxTurns
  /\ active \in {None} \cup Session /\ shown \in Seq(Shown) /\ cursor \in Nat
  /\ streams \subseteq Stream /\ loading \in BOOLEAN
  /\ pending \in {None} \cup Session /\ strayed \in BOOLEAN
  /\ loads \subseteq Load

Init ==
  /\ log = <<>> /\ sessions = 0 /\ turn = <<>>
  /\ active = None /\ shown = <<>> /\ cursor = None
  /\ streams = {} /\ loading = FALSE /\ pending = None /\ loads = {} /\ strayed = FALSE

-----------------------------------------------------------------------------
(* The server *)

At(t, states) == turn[t].state \in states
Goto(t, state) == turn' = [turn EXCEPT ![t].state = state]

Ask(t) ==
  /\ At(t, {"posted"})
  /\ LET s == IF turn[t].session # None THEN turn[t].session ELSE sessions + 1 IN
     /\ sessions' = IF s > sessions THEN s ELSE sessions
     /\ log' = Append(log, Conv!Question(t, s))
     /\ turn' = [turn EXCEPT ![t] = [session |-> s, state |-> "asked"]]
  /\ UNCHANGED page

Respond(t) ==
  /\ At(t, {"asked"}) /\ Goto(t, "answering")
  /\ UNCHANGED <<log, sessions, page>>

(* onComplete stores the answer, or fails to, before the response ends. *)
Complete(t) ==
  /\ At(t, {"answering"}) /\ Goto(t, "done")
  /\ \/ log' = Append(log, Conv!Answer(t, turn[t].session))
     \/ UNCHANGED log
  /\ UNCHANGED <<sessions, page>>

RespondFails(t) ==
  /\ \/ At(t, {"posted", "asked"}) /\ \E end \in {"failed", "refused"} : Goto(t, end)
     \/ At(t, {"answering"}) /\ Goto(t, "broken")
     \/ At(t, {"posted", "asked", "answering"}) /\ Goto(t, "lost")
  /\ UNCHANGED <<log, sessions, page>>

Serve(t) == Ask(t) \/ Respond(t) \/ Complete(t) \/ RespondFails(t)

-----------------------------------------------------------------------------
(* Requests *)

Submit(messages) ==
  /\ Len(turn) < MaxTurns
  /\ turn' = Append(turn, [session |-> active, state |-> "posted"])
  /\ streams' = streams \cup {[turn |-> Len(turn) + 1, base |-> messages,
                               active |-> active, opened |-> FALSE]}
  /\ shown' = messages /\ loading' = TRUE
  /\ strayed' = (strayed \/ (active = None /\ streams # {}))
  /\ UNCHANGED <<log, sessions, active, cursor, pending, loads>>

Send ==
  /\ ~loading
  /\ Submit(Append(shown, [turn |-> Len(turn) + 1, role |-> "user"]))

WithoutAnswer(messages) ==
  IF messages[Len(messages)].role = "assistant"
  THEN SubSeq(messages, 1, Len(messages) - 1) ELSE messages

(* "Retry last answer" asks the last question again, as a new turn. *)
Retry ==
  /\ \E i \in DOMAIN shown : shown[i].role = "assistant"
  /\ Submit(WithoutAnswer(shown))

(* An answer without the headers of ChatController.chat names no session. *)
SentHeaders(t) == At(t, {"answering", "done", "broken"})

OnResponse(s) ==
  /\ ~s.opened /\ (SentHeaders(s.turn) \/ At(s.turn, {"failed"}))
  /\ pending' = IF SentHeaders(s.turn) THEN turn[s.turn].session ELSE None
  /\ streams' = (streams \ {s}) \cup {[s EXCEPT !.opened = TRUE]}
  /\ UNCHANGED <<server, screen, loading, loads, strayed>>

StreamToken(s) ==
  /\ s.opened
  /\ shown' = Append(s.base, [turn |-> s.turn, role |-> "assistant"])
  /\ strayed' = (strayed \/ s.active # active)
  /\ UNCHANGED <<server, active, cursor, streams, loading, pending, loads>>

StartLoad(kind, s, after) ==
  loads' = loads \cup {[kind |-> kind, session |-> s, after |-> after,
                        answered |-> FALSE, items |-> <<>>, next |-> None]}

ClosedWhenComplete(t) == At(t, {"done"})

(* res.end() in every path of ChatController.chat, and the end of an error     *)
(* answer: the end of the body.                                               *)
Closed(t) == At(t, {"done", "broken", "failed"})

FinishInPlace(s) ==
  /\ s.opened /\ Closed(s.turn)
  /\ streams' = streams \ {s} /\ loading' = FALSE /\ pending' = None
  /\ LET next == IF pending # None THEN pending ELSE s.active IN
     /\ IF next # None THEN StartLoad("finish", next, 0) ELSE UNCHANGED loads
     /\ strayed' = (strayed \/ s.active # active \/ next \notin {turn[s.turn].session} \ {None})
  /\ UNCHANGED <<server, screen>>

(* onFinish: the session in pendingSessionIdRef, whose answer ever set it    *)
(* last, becomes the active one, and its first page replaces what is shown.  *)
Finish(s) ==
  /\ s.opened /\ Closed(s.turn)
  /\ streams' = streams \ {s} /\ loading' = FALSE /\ pending' = None
  /\ LET next == IF pending # None THEN pending ELSE s.active IN
     /\ IF next # None
        THEN active' = next /\ StartLoad("finish", next, 0)
        ELSE UNCHANGED <<active, loads>>
     /\ strayed' = (strayed \/ s.active # active \/ next \notin {turn[s.turn].session} \ {None})
  /\ UNCHANGED <<server, shown, cursor>>

(* onError: refused, or the connection ended. *)
OnError(s) ==
  /\ At(s.turn, {"refused", "lost"})
  /\ streams' = streams \ {s} /\ loading' = FALSE
  /\ pending' = IF At(s.turn, {"refused"}) THEN None ELSE pending
  /\ strayed' = (strayed \/ s.active = None)
  /\ UNCHANGED <<server, screen, loads>>

(* The server does not notice; of a new chat the page never learns the session. *)
Stop(s) ==
  /\ \A r \in streams : r.turn <= s.turn
  /\ streams' = streams \ {s} /\ loading' = FALSE
  /\ strayed' = (strayed \/ s.active = None)
  /\ UNCHANGED <<server, screen, pending, loads>>

-----------------------------------------------------------------------------
(* Stored messages *)

SessionMessages(s) ==
  LET rows == Kept(log, {i \in DOMAIN log : log[i].session = s}) IN
  [i \in DOMAIN rows |-> [turn |-> rows[i].turn, role |-> rows[i].role]]

(* The messages after the cursor, in ascending order. *)
GetMessages(l) ==
  /\ ~l.answered
  /\ LET rows == SessionMessages(l.session)
         end == l.after + PageSize
         more == end < Len(rows) IN
     loads' = (loads \ {l}) \cup
       {[l EXCEPT !.answered = TRUE,
                  !.items = SubSeq(rows, l.after + 1, IF more THEN end ELSE Len(rows)),
                  !.next = IF more THEN end ELSE None]}
  /\ UNCHANGED <<server, screen, streams, loading, pending, strayed>>

OpenSession(s) ==
  /\ s <= sessions /\ Cardinality(loads) < MaxLoads
  /\ StartLoad("open", s, 0)
  /\ UNCHANGED <<server, screen, streams, loading, pending, strayed>>

LoadOlder ==
  /\ active # None /\ cursor # None /\ \A l \in loads : l.kind # "older"
  /\ Cardinality(loads) < MaxLoads
  /\ StartLoad("older", active, cursor)
  /\ UNCHANGED <<server, screen, streams, loading, pending, strayed>>

(* A stream that was posted with strayed messages can bring them back.       *)
StaysStrayed == strayed /\ streams # {}

ShowSession(l) ==
  /\ l.answered /\ l.kind = "open"
  /\ loads' = loads \ {l}
  /\ active' = l.session /\ shown' = l.items /\ cursor' = l.next
  /\ strayed' = StaysStrayed
  /\ UNCHANGED <<server, streams, loading, pending>>

ShowFinished(l) ==
  /\ l.answered /\ l.kind = "finish"
  /\ loads' = loads \ {l}
  /\ shown' = l.items /\ cursor' = l.next
  /\ strayed' = (l.session # active \/ StaysStrayed)
  /\ UNCHANGED <<server, active, streams, loading, pending>>

ShowOlder(l) ==
  /\ l.answered /\ l.kind = "older"
  /\ loads' = loads \ {l}
  /\ shown' = l.items \o shown /\ cursor' = l.next
  /\ strayed' = (strayed \/ l.session # active)
  /\ UNCHANGED <<server, active, streams, loading, pending>>

LoadFails(l) ==
  /\ loads' = loads \ {l}
  /\ UNCHANGED <<server, screen, streams, loading, pending, strayed>>

NewChat ==
  /\ active' = None /\ shown' = <<>> /\ cursor' = None /\ strayed' = StaysStrayed
  /\ UNCHANGED <<server, streams, loading, pending, loads>>

-----------------------------------------------------------------------------

Reads(s) == OnResponse(s) \/ Finish(s) \/ OnError(s)

PageStep ==
  \/ Send \/ Retry \/ NewChat \/ LoadOlder
  \/ \E s \in streams : Reads(s) \/ StreamToken(s) \/ Stop(s)
  \/ \E s \in Session : OpenSession(s)
  \/ \E l \in loads : GetMessages(l) \/ ShowSession(l) \/ ShowFinished(l) \/ ShowOlder(l)
                      \/ LoadFails(l)

Next == PageStep \/ \E t \in Posted : Serve(t)

(* Every call of the server settles, and the browser reads what arrives. *)
Fairness ==
  /\ \A t \in Turn : WF_vars(t \in Posted /\ Serve(t))
  /\ \A t \in Turn : WF_vars(\E s \in streams : s.turn = t /\ Reads(s))

Spec == Init /\ [][Next]_vars /\ Fairness

-----------------------------------------------------------------------------
(* What the page promises *)

(* A question goes to the session of all messages above it: no retry, late   *)
(* load or stream mixes conversations, unless the page strayed. It strays by *)
(* a load or stream of another session than the active one, an answer that   *)
(* brings no session or another's, a stop or an error in a new chat, and a   *)
(* retry in one that is not answered, until a chat is opened with no stream  *)
(* under way.                                                                *)
PostedWhereShown ==
  [][\A t \in DOMAIN turn' \ Posted : ~strayed /\ streams = {} =>
       \A i \in DOMAIN shown : turn[shown[i].turn].session = turn'[t].session]_vars

(* The composer does not stay disabled: every request ends, whatever fails. *)
ComposerFreed == []<>~loading

(* "Load older messages" puts older messages above those shown. *)
Places(m) == {i \in DOMAIN log : log[i].turn = m.turn /\ log[i].role = m.role}

OlderMessagesAreOlder ==
  [][\A l \in loads : ShowOlder(l) /\ l.session = active /\ ~strayed =>
       \A i \in DOMAIN l.items, j \in DOMAIN shown :
         \A p \in Places(l.items[i]), q \in Places(shown[j]) : p <= q]_vars
=============================================================================
