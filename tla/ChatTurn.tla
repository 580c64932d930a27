------------------------------ MODULE ChatTurn ------------------------------
(***************************************************************************)
(* The chat requests of one user in one workspace: the rate-limit guard,   *)
(* ChatService.answer with its session, history, structured branch, cache  *)
(* lookups, token budget and answer graph (chains/graph.ts and the light   *)
(* path of chains/index.ts), the streamed response of ChatController, and  *)
(* onComplete. Requests overlap; every call of a model, of Postgres and of *)
(* Redis may fail, and the process may die.                                *)
(*                                                                         *)
(* What the caches hold and whether it is fresh is ChatCache's; here a     *)
(* lookup may hit whatever has been stored. An answer costs one token.     *)
(***************************************************************************)
EXTENDS Naturals, Sequences, FiniteSets

CONSTANTS
  MaxTurns,     \* bound: chat requests ever posted
  MaxSessions,  \* bound: chat_sessions rows
  MaxRewrites,  \* MAX_QUERY_REWRITES
  PerMinute,    \* CHAT_RATE_LIMIT_PER_MIN_PER_USER
  Budget        \* MAX_TOKENS_PER_WORKSPACE_MONTH

ASSUME ChatBounds ==
  {MaxTurns, MaxSessions, MaxRewrites, PerMinute, Budget} \subseteq Nat

VARIABLES
  rate,      \* rl:user: requests counted in this minute
  used,      \* usage:tok: tokens counted this month
  sessions,  \* chat_sessions rows, numbered in the order of their INSERTs
  log,       \* chat_messages rows, in the order of their INSERTs
  metrics,   \* turns with a chat_query_metrics row
  cached,    \* turns whose answer was handed to setExact and saveSemantic
  turn,      \* the requests, in the order in which they were posted
  most,      \* history: most requests ever between the budget check and addUsage
  unchecked  \* history: a limit was not enforced because Redis failed

store == <<sessions, log, metrics, cached>>
limits == <<rate, used, most, unchecked>>
vars == <<store, limits, turn>>

None == 0
Turn == 1 .. MaxTurns
Session == 1 .. MaxSessions
Conv == INSTANCE Conversation

Posted == DOMAIN turn

(* The awaits of answer(), in their order; then those of onComplete. *)
Answering == {"guard", "session", "ask", "history", "condense", "intent", "structured",
              "exact", "semantic", "budget", "light", "retrieve", "rewrite", "generate",
              "grade", "regenerate"}
Completing == {"usage", "persist", "touch", "metrics", "cache"}

(* broken: the stream failed after the headers were sent; failed: answer()   *)
(* threw, and the apology is sent without them; refused: an HttpException.   *)
Ended == {"done", "broken", "failed", "refused", "dead"}

Request == [pc : Answering \cup {"stream", "chunk"} \cup Completing \cup Ended,
            session : {None} \cup Session,
            status : {"miss", "exact", "semantic", "structured"},
            rewrites : 0 .. MaxRewrites, fallback : BOOLEAN]

TypeOK ==
  /\ rate \in Nat /\ used \in Nat /\ most \in 0 .. MaxTurns /\ unchecked \in BOOLEAN
  /\ sessions \in 0 .. MaxSessions
  /\ Conv!TypeOK
  /\ metrics \subseteq Turn /\ cached \subseteq Turn
  /\ turn \in Seq(Request) /\ Len(turn) <= MaxTurns

Init ==
  /\ rate = 0 /\ used = 0 /\ most = 0 /\ unchecked = FALSE
  /\ sessions = 0 /\ log = <<>> /\ metrics = {} /\ cached = {}
  /\ turn = <<>>

At(t, pc) == turn[t].pc = pc
Goto(t, pc) == turn' = [turn EXCEPT ![t].pc = pc]

-----------------------------------------------------------------------------
(* The guard and the beginning of answer() *)

Post(s) ==
  /\ Len(turn) < MaxTurns
  /\ turn' = Append(turn, [pc |-> "guard", session |-> s, status |-> "miss",
                           rewrites |-> 0, fallback |-> FALSE])
  /\ UNCHANGED <<store, limits>>

(* ChatRateLimitGuard: INCR, and 429 above the limit. *)
CheckRate(t) ==
  /\ At(t, "guard")
  /\ rate' = rate + 1
  /\ Goto(t, IF rate' > PerMinute THEN "refused" ELSE "session")
  /\ UNCHANGED <<store, used, most, unchecked>>

(* Redis fails, before or after it counted: the request is let through. *)
CheckRateFails(t) ==
  /\ At(t, "guard")
  /\ rate' \in {rate, rate + 1}
  /\ Goto(t, "session")
  /\ unchecked' = TRUE
  /\ UNCHANGED <<store, used, most>>

NextMinute ==
  /\ rate > 0
  /\ rate' = 0
  /\ UNCHANGED <<store, used, most, unchecked, turn>>

GetOwnedSession(t) ==
  /\ At(t, "session") /\ turn[t].session # None
  /\ Goto(t, "ask")
  /\ UNCHANGED <<store, limits>>

CreateSession(t) ==
  /\ At(t, "session") /\ turn[t].session = None /\ sessions < MaxSessions
  /\ sessions' = sessions + 1
  /\ turn' = [turn EXCEPT ![t].pc = "ask", ![t].session = sessions + 1]
  /\ UNCHANGED <<log, metrics, cached, limits>>

InsertQuestion(t) ==
  /\ At(t, "ask")
  /\ log' = Append(log, Conv!Question(t, turn[t].session))
  /\ Goto(t, "history")
  /\ UNCHANGED <<sessions, metrics, cached, limits>>

(* Other messages of the session. Without history, or when none of it fits   *)
(* the token budget (boundHistory), the question is not condensed.           *)
GetRecentHistory(t) ==
  /\ At(t, "history")
  /\ \/ /\ \E i \in DOMAIN log : log[i].session = turn[t].session /\ log[i].turn # t
        /\ Goto(t, "condense")
     \/ Goto(t, "intent")
  /\ UNCHANGED <<store, limits>>

CondenseQuestion(t) ==
  /\ At(t, "condense")
  /\ Goto(t, "intent")
  /\ UNCHANGED <<store, limits>>

(* A structured question, and hasReadyDatasets. *)
ClassifyIntent(t) ==
  /\ At(t, "intent")
  /\ \E next \in {"structured", "exact"} : Goto(t, next)
  /\ UNCHANGED <<store, limits>>

(* structuredQuery.answer: a confident answer, or one that asks again. *)
AnswerStructured(t) ==
  /\ At(t, "structured")
  /\ \E confident \in BOOLEAN :
       turn' = [turn EXCEPT ![t].pc = "chunk", ![t].status = "structured",
                            ![t].fallback = ~confident]
  /\ UNCHANGED <<store, limits>>

ExactLookup(t) ==
  /\ At(t, "exact")
  /\ \/ cached # {} /\ turn' = [turn EXCEPT ![t].pc = "chunk", ![t].status = "exact"]
     \/ Goto(t, "semantic")
  /\ UNCHANGED <<store, limits>>

SemanticLookup(t) ==
  /\ At(t, "semantic")
  /\ \/ cached # {} /\ turn' = [turn EXCEPT ![t].pc = "chunk", ![t].status = "semantic"]
     \/ Goto(t, "budget")
  /\ UNCHANGED <<store, limits>>

-----------------------------------------------------------------------------
(* The budget and the answer *)

(* Past the check, and not yet counted. *)
Spending == {t \in Posted :
  /\ turn[t].pc \in {"light", "retrieve", "rewrite", "generate", "grade", "regenerate",
                     "stream", "chunk", "usage"}
  /\ turn[t].status = "miss"}

AnswerQuestion(t) ==
  /\ \E path \in {"light", "retrieve"} : Goto(t, path)
  /\ most' = IF Cardinality(Spending) + 1 > most THEN Cardinality(Spending) + 1 ELSE most
  /\ UNCHANGED <<store, rate, used>>

AssertWithinBudgetLate(t) ==
  /\ At(t, "budget") /\ used <= Budget
  /\ AnswerQuestion(t) /\ UNCHANGED unchecked

AssertWithinBudget(t) ==
  /\ At(t, "budget") /\ used < Budget
  /\ AnswerQuestion(t) /\ UNCHANGED unchecked

(* 402, although the question is stored. *)
BudgetReached(t) ==
  /\ At(t, "budget") /\ used >= Budget
  /\ Goto(t, "refused")
  /\ UNCHANGED <<store, limits>>

AssertWithinBudgetFails(t) ==
  /\ At(t, "budget")
  /\ AnswerQuestion(t) /\ unchecked' = TRUE

Fallback(t) == turn' = [turn EXCEPT ![t].pc = "chunk", ![t].fallback = TRUE]

(* Without the graph: any chunk is answered from. *)
AnswerLight(t) ==
  /\ At(t, "light")
  /\ Goto(t, "stream") \/ Fallback(t)
  /\ UNCHANGED <<store, limits>>

(* retrieveNode and routeAfterRetrieve: confident, to be graded, or too low. *)
Retrieve(t) ==
  /\ At(t, "retrieve")
  /\ \/ Goto(t, "stream")
     \/ Goto(t, "generate")
     \/ turn[t].rewrites < MaxRewrites /\ Goto(t, "rewrite")
     \/ turn[t].rewrites >= MaxRewrites /\ Fallback(t)
  /\ UNCHANGED <<store, limits>>

RewriteUncounted(t) ==
  /\ At(t, "rewrite")
  /\ Goto(t, "retrieve")
  /\ UNCHANGED <<store, limits>>

Rewrite(t) ==
  /\ At(t, "rewrite")
  /\ turn' = [turn EXCEPT ![t].pc = "retrieve", ![t].rewrites = @ + 1]
  /\ UNCHANGED <<store, limits>>

Generate(t) ==
  /\ At(t, "generate")
  /\ Goto(t, "grade")
  /\ UNCHANGED <<store, limits>>

(* An answer that is not grounded is generated once more, and not graded again. *)
Grade(t) ==
  /\ At(t, "grade")
  /\ \E next \in {"chunk", "regenerate"} : Goto(t, next)
  /\ UNCHANGED <<store, limits>>

Regenerate(t) ==
  /\ At(t, "regenerate")
  /\ Goto(t, "chunk")
  /\ UNCHANGED <<store, limits>>

-----------------------------------------------------------------------------
(* The response: a live stream, or one chunk; then onComplete *)

Respond(t) ==
  /\ turn[t].pc \in {"stream", "chunk"}
  /\ Goto(t, IF turn[t].status = "miss" THEN "usage" ELSE "persist")
  /\ UNCHANGED <<store, limits>>

StreamFails(t) ==
  /\ At(t, "stream")
  /\ Goto(t, "broken")
  /\ UNCHANGED <<store, limits>>

AddUsage(t) ==
  /\ At(t, "usage")
  /\ used' = used + 1
  /\ Goto(t, "persist")
  /\ UNCHANGED <<store, rate, most, unchecked>>

AddUsageFails(t) ==
  /\ At(t, "usage")
  /\ used' \in {used, used + 1}
  /\ Goto(t, "persist")
  /\ unchecked' = TRUE
  /\ UNCHANGED <<store, rate, most>>

PersistAssistant(t) ==
  /\ At(t, "persist")
  /\ log' = Append(log, Conv!Answer(t, turn[t].session))
  /\ Goto(t, "touch")
  /\ UNCHANGED <<sessions, metrics, cached, limits>>

TouchAgain(t) ==
  /\ At(t, "touch")
  /\ \E next \in {"metrics", "persist"} : Goto(t, next)
  /\ UNCHANGED <<store, limits>>

(* UPDATE chat_sessions SET updated_at *)
Touch(t) ==
  /\ At(t, "touch")
  /\ Goto(t, "metrics")
  /\ UNCHANGED <<store, limits>>

AfterMetricsAny(t) == "cache"

AfterMetrics(t) ==
  IF turn[t].status = "miss" /\ ~turn[t].fallback THEN "cache" ELSE "done"

RecordMetrics(t) ==
  /\ At(t, "metrics")
  /\ metrics' = metrics \cup {t}
  /\ Goto(t, AfterMetrics(t))
  /\ UNCHANGED <<sessions, log, cached, limits>>

(* Logged, and onComplete goes on. *)
RecordMetricsFails(t) ==
  /\ At(t, "metrics")
  /\ Goto(t, AfterMetrics(t))
  /\ UNCHANGED <<store, limits>>

CacheAnswer(t) ==
  /\ At(t, "cache")
  /\ cached' = cached \cup {t}
  /\ Goto(t, "done")
  /\ UNCHANGED <<sessions, log, metrics, limits>>

(* The controller logs it and ends the response. *)
CompletionFails(t) ==
  /\ turn[t].pc \in {"persist", "touch"}
  /\ Goto(t, "done")
  /\ UNCHANGED <<store, limits>>

(* A call of answer() throws: the apology ends the response. *)
AnswerFails(t) ==
  /\ turn[t].pc \in Answering \ {"guard", "exact", "budget"}
  /\ Goto(t, "failed")
  /\ UNCHANGED <<store, limits>>

Die(t) ==
  /\ turn[t].pc \notin Ended
  /\ Goto(t, "dead")
  /\ UNCHANGED <<store, limits>>

TurnStep(t) ==
  \/ CheckRate(t) \/ CheckRateFails(t) \/ GetOwnedSession(t) \/ CreateSession(t)
  \/ InsertQuestion(t) \/ GetRecentHistory(t) \/ CondenseQuestion(t)
  \/ ClassifyIntent(t) \/ AnswerStructured(t) \/ ExactLookup(t) \/ SemanticLookup(t)
  \/ AssertWithinBudget(t) \/ BudgetReached(t) \/ AssertWithinBudgetFails(t)
  \/ AnswerLight(t) \/ Retrieve(t) \/ Rewrite(t) \/ Generate(t) \/ Grade(t) \/ Regenerate(t)
  \/ Respond(t) \/ StreamFails(t)
  \/ AddUsage(t) \/ AddUsageFails(t) \/ PersistAssistant(t) \/ Touch(t)
  \/ RecordMetrics(t) \/ RecordMetricsFails(t) \/ CacheAnswer(t)
  \/ CompletionFails(t) \/ AnswerFails(t) \/ Die(t)

Next ==
  \/ \E s \in {None} \cup 1 .. sessions : Post(s)
  \/ NextMinute
  \/ \E t \in Posted : TurnStep(t)

(* Every awaited call returns or fails. *)
Fairness == \A t \in Turn : WF_vars(t \in Posted /\ TurnStep(t))

Spec == Init /\ [][Next]_vars /\ Fairness

-----------------------------------------------------------------------------
(* What the server promises *)

(* The monthly budget is overdrawn by no more than the answers that were     *)
(* being given at once: the check and the count are two Redis calls, with    *)
(* the whole answer between them. Only failing Redis calls add to that.      *)
OverdraftBounded == ~unchecked => used <= Budget + most - 1 \/ used = 0

(* Only what was retrieved for, graded or confident, is cached, and its      *)
(* answer is in the conversation by then: no fallback, no computed answer,   *)
(* no copy of a cached one.                                                  *)
CachedIsStored ==
  \A t \in cached :
    /\ turn[t].status = "miss" /\ ~turn[t].fallback
    /\ Conv!Stored(Conv!Answer(t, turn[t].session))

(* A request ends, however often its question is rewritten, its answer graded *)
(* and its calls fail: nothing leads back more than MAX_QUERY_REWRITES times. *)
TurnEnds == \A t \in Turn : t \in Posted ~> t \in Posted /\ turn[t].pc \in Ended

(* The messages of overlapping and failing requests form a conversation.     *)
Conversation == Conv!Spec
=============================================================================
