--------------------------- MODULE ChatTurn_proofs ---------------------------
(***************************************************************************)
(* For any number of chat requests, sessions and rewrites and any limits:  *)
(* the messages of overlapping and failing requests form a conversation,   *)
(* and what is cached and spent is bounded.                                *)
(***************************************************************************)
EXTENDS ChatTurn, FiniteSetTheorems, TLAPS

(* The phases of a request: before its question is stored, before its answer *)
(* is stored, and after.                                                     *)
Unasked == {"guard", "session", "ask"}
Asked == (Answering \ Unasked) \cup {"stream", "chunk", "usage", "persist"}
Answered == {"touch", "metrics", "cache"}

-----------------------------------------------------------------------------
(* The inductive invariant *)

(* Each message is one of a request that has got so far. *)
Accounted ==
  \A i \in DOMAIN log :
    /\ log[i].turn \in Posted
    /\ log[i].session = turn[log[i].turn].session
    /\ turn[log[i].turn].pc \notin Unasked
    /\ log[i].role = "assistant" => turn[log[i].turn].pc \in Answered \cup Ended

(* What a request relies on where it is: its session, its stored messages,   *)
(* and whether it spends and may be cached.                                  *)
InOrder(t) ==
  /\ turn[t].pc \in {"ask"} \cup Asked \cup Answered => turn[t].session # None
  /\ turn[t].pc \in Asked \cup Answered => Conv!Stored(Conv!Question(t, turn[t].session))
  /\ turn[t].pc \in Answered => Conv!Stored(Conv!Answer(t, turn[t].session))
  /\ turn[t].pc = "usage" => turn[t].status = "miss"
  /\ turn[t].pc = "cache" => turn[t].status = "miss" /\ ~turn[t].fallback
  /\ turn[t].pc = "rewrite" => turn[t].rewrites < MaxRewrites

(* A request is done when its answer is cached. *)
CachedInOrder ==
  \A t \in cached : t \in Posted /\ turn[t].pc = "done"

(* What will be counted is as good as counted. *)
SpendingBounded ==
  ~unchecked => \/ used + Cardinality(Spending) <= Budget + most - 1
                \/ used + Cardinality(Spending) = 0

IInv ==
  /\ TypeOK
  /\ Accounted
  /\ \A t \in Posted : InOrder(t)
  /\ CachedInOrder
  /\ CachedIsStored
  /\ SpendingBounded

-----------------------------------------------------------------------------
(* Steps of one request *)

(* Only request t changes; it stays in its session and does not go back to   *)
(* an earlier phase or enter a later one that is not over.                   *)
Move(t) ==
  /\ turn' = [turn EXCEPT ![t] = turn'[t]]
  /\ turn'[t] \in Request /\ turn'[t].session = turn[t].session
  /\ turn[t].pc \notin Ended
  /\ turn'[t].pc \in Unasked => turn[t].pc \in Unasked
  /\ turn'[t].pc \in Asked => turn[t].pc \in Asked
  /\ turn'[t].pc \in Answered => turn[t].pc \in Answered
  /\ turn'[t].pc = "ask" => turn[t].session # None
  /\ turn'[t].pc = "usage" => turn'[t].status = "miss"
  /\ turn'[t].pc = "cache" => turn'[t].status = "miss" /\ ~turn'[t].fallback
  /\ turn'[t].pc = "rewrite" => turn'[t].rewrites < MaxRewrites

LEMMA Phases ==
  ASSUME NEW q \in Request
  PROVE  q.pc \in Unasked \cup Asked \cup Answered \cup Ended
  BY DEF Request, Unasked, Asked, Answered, Ended, Answering, Completing

LEMMA Typed ==
  ASSUME TypeOK
  PROVE  /\ turn \in Seq(Request) /\ Len(turn) \in Nat /\ Len(turn) <= MaxTurns
         /\ Posted = 1 .. Len(turn) /\ Posted \subseteq Turn
         /\ \A t \in Posted : turn[t] \in Request
         /\ MaxTurns \in Nat /\ MaxSessions \in Nat /\ MaxRewrites \in Nat /\ Budget \in Nat
<1> turn \in Seq(Request) /\ Len(turn) <= MaxTurns
  BY DEF TypeOK
<1> MaxTurns \in Nat /\ MaxSessions \in Nat /\ MaxRewrites \in Nat /\ Budget \in Nat
  BY ChatBounds
<1> QED
  BY DEF Posted, Turn

(* One request of the sequence replaced. *)
LEMMA Replaced ==
  ASSUME TypeOK, NEW t \in Posted, NEW q \in Request, turn' = [turn EXCEPT ![t] = q]
  PROVE  /\ turn' \in Seq(Request) /\ Len(turn') = Len(turn) /\ Posted' = Posted
         /\ turn'[t] = q
         /\ \A u \in Posted : u # t => turn'[u] = turn[u]
  BY Typed DEF Posted

(* Goto is the replacement by the request at another step. *)
LEMMA Went ==
  ASSUME TypeOK, NEW t \in Posted, NEW pc, Goto(t, pc),
         pc \in Answering \cup {"stream", "chunk"} \cup Completing \cup Ended
  PROVE  /\ turn' = [turn EXCEPT ![t] = turn'[t]]
         /\ turn'[t] \in Request /\ turn'[t].pc = pc
         /\ turn'[t].session = turn[t].session /\ turn'[t].status = turn[t].status
         /\ turn'[t].fallback = turn[t].fallback /\ turn'[t].rewrites = turn[t].rewrites
<1>1. turn[t] \in Request /\ turn \in Seq(Request)
  BY Typed
<1>2. turn'[t] = [turn[t] EXCEPT !.pc = pc] /\ turn' = [turn EXCEPT ![t] = turn'[t]]
  BY <1>1 DEF Goto, Posted
<1> QED
  BY <1>1, <1>2 DEF Request

(* The steps that store nothing. *)
QuietStep(t) ==
  \/ CheckRate(t) \/ CheckRateFails(t) \/ GetOwnedSession(t)
  \/ GetRecentHistory(t) \/ CondenseQuestion(t) \/ ClassifyIntent(t)
  \/ AnswerStructured(t) \/ ExactLookup(t) \/ SemanticLookup(t)
  \/ AssertWithinBudget(t) \/ BudgetReached(t) \/ AssertWithinBudgetFails(t)
  \/ AnswerLight(t) \/ Retrieve(t) \/ Rewrite(t) \/ Generate(t) \/ Grade(t) \/ Regenerate(t)
  \/ Respond(t) \/ StreamFails(t) \/ AddUsage(t) \/ AddUsageFails(t) \/ Touch(t)
  \/ RecordMetrics(t) \/ RecordMetricsFails(t)
  \/ CompletionFails(t) \/ AnswerFails(t) \/ Die(t)

(* A step to another place moves the request when the place is in order. *)
LEMMA GoesOn ==
  ASSUME TypeOK, NEW t \in Posted, NEW pc, Goto(t, pc), turn[t].pc \notin Ended,
         \/ pc \in Ended
         \/ pc \in {"guard", "session", "ask"} /\ turn[t].pc \in Unasked
            /\ (pc = "ask" => turn[t].session # None)
         \/ pc \in Asked /\ turn[t].pc \in Asked /\ (pc = "usage" => turn[t].status = "miss")
            /\ (pc = "rewrite" => turn[t].rewrites < MaxRewrites)
         \/ pc \in Answered /\ turn[t].pc \in Answered
            /\ (pc = "cache" => turn[t].status = "miss" /\ ~turn[t].fallback)
  PROVE  Move(t)
<1>1. pc \in Answering \cup {"stream", "chunk"} \cup Completing \cup Ended
  BY DEF Answering, Completing, Ended, Asked, Answered
<1>2. /\ turn' = [turn EXCEPT ![t] = turn'[t]]
      /\ turn'[t] \in Request /\ turn'[t].pc = pc
      /\ turn'[t].session = turn[t].session /\ turn'[t].status = turn[t].status
      /\ turn'[t].fallback = turn[t].fallback /\ turn'[t].rewrites = turn[t].rewrites
  BY <1>1, Went
<1>3. /\ pc \in Asked => pc \notin Unasked \cup Answered \cup Ended \cup {"ask", "cache"}
      /\ pc \in Answered => pc \notin Unasked \cup Asked \cup Ended
                                     \cup {"ask", "usage", "rewrite"}
      /\ pc \in Ended => pc \notin Unasked \cup Asked \cup Answered
                                  \cup {"ask", "usage", "cache", "rewrite"}
      /\ pc \in Unasked => pc \notin Asked \cup Answered \cup Ended
                                    \cup {"usage", "cache", "rewrite"}
  BY DEF Unasked, Asked, Answered, Ended, Answering
<1> QED
  BY <1>2, <1>3 DEF Move, Unasked

(* A request that is given its answer's first chunk goes on in order. *)
LEMMA GivesChunk ==
  ASSUME NEW t \in Posted, turn[t].pc \in Asked, turn' = [turn EXCEPT ![t] = turn'[t]],
         turn'[t] \in Request, turn'[t].session = turn[t].session, turn'[t].pc = "chunk"
  PROVE  Move(t)
  BY DEF Move, Unasked, Asked, Answered, Ended, Answering

LEMMA QuietStepsMove ==
  ASSUME TypeOK, NEW t \in Posted, InOrder(t), QuietStep(t)
  PROVE  Move(t)
<1> USE DEF At
<1>1. turn[t] \in Request /\ turn \in Seq(Request)
  BY Typed
<1>2. CASE CheckRate(t) \/ CheckRateFails(t) \/ GetOwnedSession(t)
  <2>1. PICK pc \in {"refused", "session", "ask"} :
          Goto(t, pc) /\ (pc = "ask" => turn[t].session # None)
    BY <1>2 DEF CheckRate, CheckRateFails, GetOwnedSession
  <2>2. turn[t].pc \in Unasked /\ turn[t].pc \notin Ended
    BY <1>2 DEF CheckRate, CheckRateFails, GetOwnedSession, Unasked, Ended
  <2> QED
    BY <2>1, <2>2, GoesOn DEF Ended
<1>3. CASE \/ GetRecentHistory(t) \/ CondenseQuestion(t) \/ ClassifyIntent(t)
           \/ BudgetReached(t) \/ AssertWithinBudget(t) \/ AssertWithinBudgetFails(t)
           \/ Generate(t) \/ Grade(t) \/ Regenerate(t)
  <2>1. PICK pc \in {"condense", "intent", "structured", "exact", "refused", "light",
                     "retrieve", "grade", "chunk", "regenerate"} : Goto(t, pc)
    BY <1>3 DEF GetRecentHistory, CondenseQuestion, ClassifyIntent, BudgetReached,
       AssertWithinBudget, AssertWithinBudgetFails, AnswerQuestion, Generate, Grade, Regenerate
  <2>2. turn[t].pc \in {"history", "condense", "intent", "budget", "generate", "grade",
                        "regenerate"}
    BY <1>3 DEF GetRecentHistory, CondenseQuestion, ClassifyIntent, BudgetReached,
       AssertWithinBudget, AssertWithinBudgetFails, Generate, Grade, Regenerate
  <2>3. turn[t].pc \in Asked /\ turn[t].pc \notin Ended
    BY <2>2 DEF Asked, Answering, Unasked, Ended
  <2>4. pc \in Asked \ {"usage", "rewrite"} \/ pc \in Ended
    BY <2>1 DEF Asked, Answering, Unasked, Ended
  <2> QED
    BY <2>1, <2>3, <2>4, GoesOn
<1>4. ASSUME turn[t].pc \in Asked, Fallback(t)
      PROVE  Move(t)
  <2>1. /\ turn'[t] = [turn[t] EXCEPT !.pc = "chunk", !.fallback = TRUE]
        /\ turn' = [turn EXCEPT ![t] = turn'[t]]
    BY <1>1, <1>4 DEF Fallback, Posted
  <2>2. turn'[t] \in Request /\ turn'[t].session = turn[t].session /\ turn'[t].pc = "chunk"
    BY <1>1, <2>1 DEF Request
  <2> QED
    BY <1>4, <2>1, <2>2, GivesChunk
<1>5. CASE AnswerStructured(t)
  <2>1. turn[t].pc \in Asked
    BY <1>5 DEF AnswerStructured, Asked, Answering, Unasked
  <2>2. \E fallback \in {TRUE, FALSE} :
          turn' = [turn EXCEPT ![t].pc = "chunk", ![t].status = "structured",
                               ![t].fallback = fallback]
    BY <1>5 DEF AnswerStructured
  <2>3. /\ \/ turn'[t] = [turn[t] EXCEPT !.pc = "chunk", !.status = "structured",
                                        !.fallback = TRUE]
           \/ turn'[t] = [turn[t] EXCEPT !.pc = "chunk", !.status = "structured",
                                        !.fallback = FALSE]
        /\ turn' = [turn EXCEPT ![t] = turn'[t]]
    BY <1>1, <2>2 DEF Posted
  <2>4. turn'[t] \in Request /\ turn'[t].session = turn[t].session /\ turn'[t].pc = "chunk"
    BY <1>1, <2>3 DEF Request
  <2> QED
    BY <2>1, <2>3, <2>4, GivesChunk
<1>6. CASE ExactLookup(t) \/ SemanticLookup(t)
  <2>1. turn[t].pc \in Asked /\ turn[t].pc \notin Ended
    BY <1>6 DEF ExactLookup, SemanticLookup, Asked, Answering, Unasked, Ended
  <2>2. ASSUME NEW hit \in {"exact", "semantic"},
               turn' = [turn EXCEPT ![t].pc = "chunk", ![t].status = hit]
        PROVE  Move(t)
    <3>1. /\ turn'[t] = [turn[t] EXCEPT !.pc = "chunk", !.status = hit]
          /\ turn' = [turn EXCEPT ![t] = turn'[t]]
      BY <1>1, <2>2 DEF Posted
    <3>2. turn'[t] \in Request /\ turn'[t].session = turn[t].session /\ turn'[t].pc = "chunk"
      BY <1>1, <3>1 DEF Request
    <3> QED
      BY <2>1, <3>1, <3>2, GivesChunk
  <2>3. ASSUME NEW pc \in {"semantic", "budget"}, Goto(t, pc)
        PROVE  Move(t)
    <3>1. pc \in Asked \ {"usage", "rewrite"}
      BY DEF Asked, Answering, Unasked
    <3> QED
      BY <2>1, <2>3, <3>1, GoesOn
  <2> QED
    BY <1>6, <2>2, <2>3 DEF ExactLookup, SemanticLookup
<1>7. CASE AnswerLight(t) \/ Retrieve(t)
  <2>1. turn[t].pc \in Asked /\ turn[t].pc \notin Ended
    BY <1>7 DEF AnswerLight, Retrieve, Asked, Answering, Unasked, Ended
  <2>2. ASSUME NEW pc \in {"stream", "generate", "rewrite"}, Goto(t, pc),
               pc = "rewrite" => turn[t].rewrites < MaxRewrites
        PROVE  Move(t)
    <3>1. pc \in Asked \ {"usage"}
      BY DEF Asked, Answering, Unasked
    <3> QED
      BY <2>1, <2>2, <3>1, GoesOn
  <2> QED
    BY <1>4, <1>7, <2>1, <2>2 DEF AnswerLight, Retrieve
<1>8. CASE Rewrite(t)
  <2>1. /\ turn'[t] = [turn[t] EXCEPT !.pc = "retrieve", !.rewrites = @ + 1]
        /\ turn' = [turn EXCEPT ![t] = turn'[t]]
    BY <1>1, <1>8 DEF Rewrite, Posted
  <2>2. turn[t].rewrites + 1 \in 0 .. MaxRewrites
    BY <1>1, <1>8, Typed DEF Rewrite, InOrder, Request
  <2>3. turn'[t] \in Request /\ turn'[t].session = turn[t].session /\ turn'[t].pc = "retrieve"
    BY <1>1, <2>1, <2>2 DEF Request, Answering
  <2> QED
    BY <1>8, <2>1, <2>3 DEF Rewrite, Move, Unasked, Asked, Answered, Ended, Answering
<1>9. CASE Respond(t) \/ StreamFails(t) \/ AddUsage(t) \/ AddUsageFails(t)
  <2>1. PICK pc \in {"usage", "persist", "broken"} :
          Goto(t, pc) /\ (pc = "usage" => turn[t].status = "miss")
    BY <1>9 DEF Respond, StreamFails, AddUsage, AddUsageFails
  <2>2. turn[t].pc \in Asked /\ turn[t].pc \notin Ended
    BY <1>9 DEF Respond, StreamFails, AddUsage, AddUsageFails, Asked, Ended, Answering, Unasked
  <2>3. pc \in Asked \ {"rewrite"} \/ pc \in Ended
    BY <2>1 DEF Asked, Ended, Answering, Unasked
  <2> QED
    BY <2>1, <2>2, <2>3, GoesOn
<1>10. CASE Touch(t) \/ RecordMetrics(t) \/ RecordMetricsFails(t)
  <2>1. PICK pc \in {"metrics", "cache", "done"} :
          Goto(t, pc) /\ (pc = "cache" => turn[t].status = "miss" /\ ~turn[t].fallback)
    BY <1>10 DEF Touch, RecordMetrics, RecordMetricsFails, AfterMetrics
  <2>2. turn[t].pc \in Answered /\ turn[t].pc \notin Ended
    BY <1>10 DEF Touch, RecordMetrics, RecordMetricsFails, Answered, Ended
  <2>3. pc \in Answered \/ pc \in Ended
    BY <2>1 DEF Answered, Ended
  <2> QED
    BY <2>1, <2>2, <2>3, GoesOn
<1>11. CASE CompletionFails(t) \/ AnswerFails(t) \/ Die(t)
  <2>1. PICK pc \in Ended : Goto(t, pc)
    BY <1>11 DEF CompletionFails, AnswerFails, Die, Ended
  <2>2. turn[t].pc \notin Ended
    BY <1>11 DEF CompletionFails, AnswerFails, Die, Ended, Answering
  <2> QED
    BY <2>1, <2>2, GoesOn
<1> QED
  BY <1>2, <1>3, <1>5, <1>6, <1>7, <1>8, <1>9, <1>10, <1>11 DEF QuietStep

-----------------------------------------------------------------------------
(* The order of requests and messages *)

Ordered == Accounted /\ (\A t \in Posted : InOrder(t)) /\ CachedInOrder /\ CachedIsStored

(* The log after one more message. *)
LEMMA LogGrows ==
  ASSUME log \in Seq(Conv!Entry), NEW e \in Conv!Entry, log' = Append(log, e)
  PROVE  /\ log' \in Seq(Conv!Entry)
         /\ \A x : Conv!Stored(x) => Conv!Stored(x)'
         /\ Conv!Stored(e)'
         /\ \A i \in DOMAIN log' : \/ log'[i] = e
                                   \/ i \in DOMAIN log /\ log'[i] = log[i]
<1>1. /\ log' \in Seq(Conv!Entry) /\ DOMAIN log = 1 .. Len(log) /\ Len(log) \in Nat
      /\ DOMAIN log' = 1 .. Len(log) + 1
      /\ \A i \in DOMAIN log : log'[i] = log[i]
      /\ log'[Len(log) + 1] = e
  OBVIOUS
<1> QED
  BY <1>1 DEF Conv!Stored

(* A step of one request leaves the others in order. *)
LEMMA OthersInOrder ==
  ASSUME TypeOK, Ordered, NEW t \in Posted, turn' = [turn EXCEPT ![t] = turn'[t]],
         turn'[t] \in Request, turn[t].pc \notin Ended, cached' = cached,
         \A x : Conv!Stored(x) => Conv!Stored(x)', Accounted', InOrder(t)'
  PROVE  Ordered'
<1>1. Posted' = Posted /\ \A u \in Posted : u # t => turn'[u] = turn[u]
  BY Replaced
<1>2. t \notin cached
  BY DEF Ordered, CachedInOrder, Ended
<1>3. ASSUME NEW u \in Posted, u # t
      PROVE  InOrder(u)'
  <2>1. InOrder(u) /\ turn'[u] = turn[u]
    BY <1>1, <1>3 DEF Ordered
  <2> QED
    BY <2>1 DEF InOrder, Conv!Question, Conv!Answer
<1>4. CachedInOrder'
  BY <1>1, <1>2 DEF Ordered, CachedInOrder
<1>5. CachedIsStored'
  <2> SUFFICES ASSUME NEW u \in cached
               PROVE  /\ turn'[u].status = "miss" /\ ~turn'[u].fallback
                      /\ Conv!Stored(Conv!Answer(u, turn[u].session))'
    BY DEF CachedIsStored
  <2>1. turn'[u] = turn[u]
    BY <1>1, <1>2 DEF Ordered, CachedInOrder
  <2>2. /\ turn[u].status = "miss" /\ ~turn[u].fallback
        /\ Conv!Stored(Conv!Answer(u, turn[u].session))
    BY DEF Ordered, CachedIsStored
  <2> QED
    BY <2>1, <2>2
<1> QED
  BY <1>1, <1>3, <1>4, <1>5 DEF Ordered

LEMMA MoveKeepsOrder ==
  ASSUME TypeOK, Ordered, NEW t \in Posted, Move(t), UNCHANGED <<log, cached>>
  PROVE  Ordered'
<1>1. /\ Posted' = Posted /\ \A u \in Posted : u # t => turn'[u] = turn[u]
      /\ turn[t] \in Request /\ turn'[t] \in Request
      /\ turn'[t].session = turn[t].session
  BY Replaced, Typed DEF Move
<1>2. turn[t].pc \in Unasked \cup Asked \cup Answered /\ turn[t].pc \notin Ended
  BY <1>1, Phases DEF Move
<1>3. turn'[t].pc \in Unasked \cup Asked \cup Answered \cup Ended
  BY <1>1, Phases
<1>4. Accounted'
  <2> SUFFICES ASSUME NEW i \in DOMAIN log
               PROVE  /\ log[i].turn \in Posted
                      /\ log[i].session = turn'[log[i].turn].session
                      /\ turn'[log[i].turn].pc \notin Unasked
                      /\ log[i].role = "assistant"
                           => turn'[log[i].turn].pc \in Answered \cup Ended
    BY <1>1 DEF Accounted
  <2>1. /\ log[i].turn \in Posted
        /\ log[i].session = turn[log[i].turn].session
        /\ turn[log[i].turn].pc \notin Unasked
        /\ log[i].role = "assistant" => turn[log[i].turn].pc \in Answered \cup Ended
    BY DEF Ordered, Accounted
  <2>2. /\ Answered \cap Asked = {} /\ Answered \cap Unasked = {} /\ Asked \cap Unasked = {}
    BY DEF Answered, Asked, Unasked, Answering
  <2>3. CASE log[i].turn # t
    BY <1>1, <2>1, <2>3
  <2>4. CASE log[i].turn = t
    BY <1>1, <1>2, <1>3, <2>1, <2>2, <2>4 DEF Move
  <2> QED
    BY <2>3, <2>4
<1>5. InOrder(t)'
  <2>1. InOrder(t)
    BY DEF Ordered
  <2>2. /\ \A x : Conv!Stored(x) => Conv!Stored(x)'
        /\ turn'[t].session = turn[t].session
    BY <1>1 DEF Conv!Stored
  <2>3. turn'[t].pc \in {"ask"} \cup Asked \cup Answered => turn'[t].session # None
    BY <1>1, <2>1 DEF InOrder, Move
  <2>4. turn'[t].pc \in Asked \cup Answered
          => Conv!Stored(Conv!Question(t, turn[t].session))'
    <3>1. turn'[t].pc \in Asked \cup Answered => Conv!Stored(Conv!Question(t, turn[t].session))
      BY <2>1 DEF InOrder, Move
    <3> QED
      BY <2>2, <3>1
  <2>5. turn'[t].pc \in Answered => Conv!Stored(Conv!Answer(t, turn[t].session))'
    <3>1. turn'[t].pc \in Answered => Conv!Stored(Conv!Answer(t, turn[t].session))
      BY <2>1 DEF InOrder, Move
    <3> QED
      BY <2>2, <3>1
  <2>6. /\ turn'[t].pc = "usage" => turn'[t].status = "miss"
        /\ turn'[t].pc = "cache" => turn'[t].status = "miss" /\ ~turn'[t].fallback
        /\ turn'[t].pc = "rewrite" => turn'[t].rewrites < MaxRewrites
    BY DEF Move
  <2> QED
    BY <2>3, <2>4, <2>5, <2>6 DEF InOrder
<1>6. \A x : Conv!Stored(x) => Conv!Stored(x)'
  BY DEF Conv!Stored
<1>7. turn' = [turn EXCEPT ![t] = turn'[t]] /\ turn'[t] \in Request /\ turn[t].pc \notin Ended
  BY DEF Move
<1> QED
  BY <1>4, <1>5, <1>6, <1>7, OthersInOrder

(* A request about to store its question is in a session and has stored      *)
(* nothing; one about to store its answer has stored its question only.      *)
LEMMA Asks ==
  ASSUME TypeOK, Ordered, NEW t \in Posted, turn[t].pc = "ask"
  PROVE  /\ turn[t].session \in Session
         /\ \A i \in DOMAIN log : log[i].turn # t
<1>1. turn[t].session \in Session
  BY Typed DEF Ordered, InOrder, Request
<1> QED
  BY <1>1 DEF Ordered, Accounted, Unasked

LEMMA Answers ==
  ASSUME TypeOK, Ordered, NEW t \in Posted, turn[t].pc = "persist"
  PROVE  /\ turn[t].session \in Session
         /\ Conv!Stored(Conv!Question(t, turn[t].session))
         /\ \A i \in DOMAIN log : log[i].turn = t => log[i].role # "assistant"
<1>1. InOrder(t) /\ "persist" \in Asked /\ "persist" \notin Answered \cup Ended
  BY DEF Ordered, Asked, Answered, Ended
<1>2. turn[t].session \in Session
  BY <1>1, Typed DEF InOrder, Request
<1> QED
  BY <1>1, <1>2 DEF Ordered, Accounted, InOrder

LEMMA QuestionKeepsOrder ==
  ASSUME TypeOK, Ordered, NEW t \in Posted, InsertQuestion(t)
  PROVE  Ordered'
<1>0. PICK e : e = Conv!Question(t, turn[t].session)
  OBVIOUS
<1>1. turn[t].pc = "ask" /\ log' = Append(log, e) /\ cached' = cached /\ Goto(t, "history")
  BY <1>0 DEF InsertQuestion, At
<1>2. /\ turn' = [turn EXCEPT ![t] = turn'[t]]
      /\ turn'[t] \in Request /\ turn'[t].pc = "history"
      /\ turn'[t].session = turn[t].session
  BY <1>1, Went DEF Answering
<1>3. /\ e \in Conv!Entry /\ e.turn = t /\ e.session = turn[t].session /\ e.role = "user"
  BY <1>0, <1>1, Asks, Typed DEF Conv!Question, Conv!Entry
<1>4. log \in Seq(Conv!Entry)
  BY DEF TypeOK, Conv!TypeOK
<1>5. /\ \A x : Conv!Stored(x) => Conv!Stored(x)'
      /\ Conv!Stored(e)'
      /\ \A i \in DOMAIN log' : \/ log'[i] = e
                                \/ i \in DOMAIN log /\ log'[i] = log[i]
  BY <1>1, <1>3, <1>4, LogGrows
<1>6. Posted' = Posted /\ \A u \in Posted : u # t => turn'[u] = turn[u]
  BY <1>2, Replaced
<1>7. \A i \in DOMAIN log : log[i].turn # t
  BY <1>1, Asks
<1>8. Accounted'
  <2>1. ASSUME NEW i \in DOMAIN log', log'[i] = e
        PROVE  /\ log'[i].turn = t /\ log'[i].session = turn'[t].session
               /\ turn'[t].pc \notin Unasked /\ log'[i].role # "assistant"
    BY <1>2, <1>3, <2>1 DEF Unasked
  <2>2. ASSUME NEW i \in DOMAIN log, log'[i] = log[i]
        PROVE  /\ log'[i].turn \in Posted
               /\ log'[i].session = turn'[log'[i].turn].session
               /\ turn'[log'[i].turn].pc \notin Unasked
               /\ log'[i].role = "assistant"
                    => turn'[log'[i].turn].pc \in Answered \cup Ended
    BY <1>6, <1>7, <2>2 DEF Ordered, Accounted
  <2> QED
    BY <1>5, <1>6, <2>1, <2>2 DEF Accounted
<1>9. InOrder(t)'
  <2>1. turn[t].session # None
    BY <1>1 DEF Ordered, InOrder
  <2>2. Conv!Stored(Conv!Question(t, turn[t].session))'
    BY <1>0, <1>2, <1>5 DEF Conv!Question
  <2> QED
    BY <1>2, <2>1, <2>2 DEF InOrder, Answered, Conv!Question
<1> QED
  BY <1>1, <1>2, <1>5, <1>8, <1>9, OthersInOrder DEF Ended

LEMMA AnswerKeepsOrder ==
  ASSUME TypeOK, Ordered, NEW t \in Posted, PersistAssistant(t)
  PROVE  Ordered'
<1>0. PICK e : e = Conv!Answer(t, turn[t].session)
  OBVIOUS
<1>1. turn[t].pc = "persist" /\ log' = Append(log, e) /\ cached' = cached /\ Goto(t, "touch")
  BY <1>0 DEF PersistAssistant, At
<1>2. /\ turn' = [turn EXCEPT ![t] = turn'[t]]
      /\ turn'[t] \in Request /\ turn'[t].pc = "touch"
      /\ turn'[t].session = turn[t].session
  BY <1>1, Went DEF Completing
<1>3. /\ e \in Conv!Entry /\ e.turn = t /\ e.session = turn[t].session
  BY <1>0, <1>1, Answers, Typed DEF Conv!Answer, Conv!Entry
<1>4. log \in Seq(Conv!Entry)
  BY DEF TypeOK, Conv!TypeOK
<1>5. /\ \A x : Conv!Stored(x) => Conv!Stored(x)'
      /\ Conv!Stored(e)'
      /\ \A i \in DOMAIN log' : \/ log'[i] = e
                                \/ i \in DOMAIN log /\ log'[i] = log[i]
  BY <1>1, <1>3, <1>4, LogGrows
<1>6. Posted' = Posted /\ \A u \in Posted : u # t => turn'[u] = turn[u]
  BY <1>2, Replaced
<1>7. Accounted'
  <2>1. ASSUME NEW i \in DOMAIN log', log'[i] = e
        PROVE  /\ log'[i].turn = t /\ log'[i].session = turn'[t].session
               /\ turn'[t].pc \notin Unasked /\ turn'[t].pc \in Answered
    BY <1>2, <1>3, <2>1 DEF Unasked, Answered
  <2>2. ASSUME NEW i \in DOMAIN log, log'[i] = log[i]
        PROVE  /\ log'[i].turn \in Posted
               /\ log'[i].session = turn'[log'[i].turn].session
               /\ turn'[log'[i].turn].pc \notin Unasked
               /\ log'[i].role = "assistant"
                    => turn'[log'[i].turn].pc \in Answered \cup Ended
    BY <1>2, <1>6, <2>2 DEF Ordered, Accounted, Unasked, Answered
  <2> QED
    BY <1>5, <1>6, <2>1, <2>2 DEF Accounted
<1>8. InOrder(t)'
  <2>1. /\ turn[t].session # None
        /\ Conv!Stored(Conv!Question(t, turn[t].session))
    BY <1>1 DEF Ordered, InOrder, Asked
  <2>2. /\ Conv!Stored(Conv!Question(t, turn[t].session))'
        /\ Conv!Stored(Conv!Answer(t, turn[t].session))'
    BY <1>0, <1>2, <1>5, <2>1 DEF Conv!Answer, Conv!Question
  <2> QED
    BY <1>2, <2>1, <2>2 DEF InOrder, Conv!Answer, Conv!Question
<1> QED
  BY <1>1, <1>2, <1>5, <1>7, <1>8, OthersInOrder DEF Ended

LEMMA SessionKeepsOrder ==
  ASSUME TypeOK, Ordered, NEW t \in Posted, CreateSession(t)
  PROVE  Ordered'
<1>1. /\ turn[t].pc = "session" /\ log' = log /\ cached' = cached
      /\ turn'[t] = [turn[t] EXCEPT !.pc = "ask", !.session = sessions + 1]
      /\ turn' = [turn EXCEPT ![t] = turn'[t]]
      /\ turn[t] \in Request
  BY Typed DEF CreateSession, At, Posted
<1>2. sessions + 1 \in Session /\ sessions + 1 # None
  BY Typed DEF CreateSession, TypeOK, Session, None
<1>3. turn'[t] \in Request /\ turn'[t].pc = "ask" /\ turn'[t].session # None
  BY <1>1, <1>2 DEF Request, Answering
<1>4. Posted' = Posted /\ \A u \in Posted : u # t => turn'[u] = turn[u]
  BY <1>1, <1>3, Replaced
<1>5. \A i \in DOMAIN log : log[i].turn # t
  BY <1>1 DEF Ordered, Accounted, Unasked
<1>6. Accounted'
  BY <1>1, <1>4, <1>5 DEF Ordered, Accounted
<1>7. InOrder(t)'
  BY <1>3 DEF InOrder, Asked, Answered, Answering, Unasked
<1>8. \A x : Conv!Stored(x) => Conv!Stored(x)'
  BY <1>1 DEF Conv!Stored
<1> QED
  BY <1>1, <1>3, <1>6, <1>7, <1>8, OthersInOrder DEF Ended

LEMMA CacheKeepsOrder ==
  ASSUME TypeOK, Ordered, NEW t \in Posted, CacheAnswer(t)
  PROVE  Ordered'
<1>1. /\ turn[t].pc = "cache" /\ log' = log /\ cached' = cached \cup {t} /\ Goto(t, "done")
  BY DEF CacheAnswer, At
<1>2. /\ turn' = [turn EXCEPT ![t] = turn'[t]]
      /\ turn'[t] \in Request /\ turn'[t].pc = "done"
      /\ turn'[t].session = turn[t].session /\ turn'[t].status = turn[t].status
      /\ turn'[t].fallback = turn[t].fallback
  BY <1>1, Went DEF Ended
<1>3. Posted' = Posted /\ \A u \in Posted : u # t => turn'[u] = turn[u]
  BY <1>2, Replaced
<1>4. /\ turn[t].status = "miss" /\ ~turn[t].fallback
      /\ Conv!Stored(Conv!Answer(t, turn[t].session))
  BY <1>1 DEF Ordered, InOrder, Answered
<1>5. \A x : Conv!Stored(x) => Conv!Stored(x)'
  BY <1>1 DEF Conv!Stored
<1>6. Accounted'
  <2>1. "done" \in Ended /\ "done" \notin Unasked
    BY DEF Ended, Unasked
  <2> QED
    BY <1>1, <1>2, <1>3, <2>1 DEF Ordered, Accounted
<1>7. ASSUME NEW u \in Posted
      PROVE  InOrder(u)'
  <2>1. CASE u = t
    BY <1>2, <2>1 DEF InOrder, Asked, Answered, Answering, Unasked
  <2>2. CASE u # t
    <3>1. InOrder(u) /\ turn'[u] = turn[u]
      BY <1>3, <2>2 DEF Ordered
    <3> QED
      BY <1>5, <3>1 DEF InOrder, Conv!Question, Conv!Answer
  <2> QED
    BY <2>1, <2>2
<1>8. CachedInOrder'
  BY <1>1, <1>2, <1>3 DEF Ordered, CachedInOrder
<1>9. CachedIsStored'
  <2> SUFFICES ASSUME NEW u \in cached \cup {t}
               PROVE  /\ turn'[u].status = "miss" /\ ~turn'[u].fallback
                      /\ Conv!Stored(Conv!Answer(u, turn[u].session))'
                      /\ turn'[u].session = turn[u].session
    BY <1>1 DEF CachedIsStored, Conv!Answer
  <2>1. CASE u = t
    BY <1>2, <1>4, <1>5, <2>1
  <2>2. CASE u # t
    <3>1. turn'[u] = turn[u]
      BY <1>3, <2>2 DEF Ordered, CachedInOrder
    <3>2. /\ turn[u].status = "miss" /\ ~turn[u].fallback
          /\ Conv!Stored(Conv!Answer(u, turn[u].session))
      BY <2>2 DEF Ordered, CachedIsStored
    <3> QED
      BY <1>5, <3>1, <3>2
  <2> QED
    BY <2>1, <2>2
<1> QED
  BY <1>3, <1>6, <1>7, <1>8, <1>9 DEF Ordered

(* A new request has stored nothing. *)
LEMMA PostKeepsOrder ==
  ASSUME TypeOK, Ordered, NEW s \in {None} \cup 1 .. sessions, Post(s)
  PROVE  /\ Ordered' /\ Spending' = Spending
         /\ turn' \in Seq(Request) /\ Len(turn') <= MaxTurns
<1> DEFINE n == Len(turn) + 1
           q == [pc |-> "guard", session |-> s, status |-> "miss",
                 rewrites |-> 0, fallback |-> FALSE]
<1>1. q \in Request /\ q.pc = "guard"
  <2>1. s \in {None} \cup Session
    BY Typed DEF Session, TypeOK
  <2> QED
    BY <2>1, Typed DEF Request, Answering
<1>2. /\ turn' = Append(turn, q) /\ UNCHANGED <<log, cached>> /\ Len(turn) < MaxTurns
  BY DEF Post, store
<1> HIDE DEF q
<1>3. /\ turn' \in Seq(Request) /\ Len(turn') = n /\ Posted' = Posted \cup {n}
      /\ n \notin Posted /\ turn'[n] = q
      /\ \A u \in Posted : turn'[u] = turn[u]
  BY <1>1, <1>2, Typed DEF Posted
<1> HIDE DEF n
<1>4. \A x : Conv!Stored(x) => Conv!Stored(x)'
  BY <1>2 DEF Conv!Stored
<1>5. Accounted'
  BY <1>2, <1>3 DEF Ordered, Accounted
<1>6. ASSUME NEW u \in Posted'
      PROVE  InOrder(u)'
  <2>1. CASE u = n
    BY <1>1, <1>3, <2>1 DEF InOrder, Asked, Answered, Answering, Unasked
  <2>2. CASE u \in Posted
    <3>1. InOrder(u) /\ turn'[u] = turn[u]
      BY <1>3, <2>2 DEF Ordered
    <3> QED
      BY <1>4, <3>1 DEF InOrder, Conv!Question, Conv!Answer
  <2> QED
    BY <1>3, <2>1, <2>2
<1>7. CachedInOrder'
  BY <1>2, <1>3 DEF Ordered, CachedInOrder
<1>8. CachedIsStored'
  <2> SUFFICES ASSUME NEW u \in cached
               PROVE  /\ turn'[u].status = "miss" /\ ~turn'[u].fallback
                      /\ Conv!Stored(Conv!Answer(u, turn[u].session))'
                      /\ turn'[u].session = turn[u].session
    BY <1>2 DEF CachedIsStored, Conv!Answer
  <2>1. turn'[u] = turn[u]
    BY <1>3 DEF Ordered, CachedInOrder
  <2>2. /\ turn[u].status = "miss" /\ ~turn[u].fallback
        /\ Conv!Stored(Conv!Answer(u, turn[u].session))
    BY DEF Ordered, CachedIsStored
  <2> QED
    BY <1>4, <2>1, <2>2
<1>9. Spending' = Spending
  BY <1>1, <1>3 DEF Spending
<1> QED
  BY <1>2, <1>3, <1>5, <1>6, <1>7, <1>8, <1>9, Typed DEF Ordered, n

-----------------------------------------------------------------------------
(* The budget *)

(* No more answers are being given than there are requests. *)
LEMMA SpendingFinite ==
  ASSUME TypeOK
  PROVE  IsFiniteSet(Spending) /\ Cardinality(Spending) \in Nat
<1>1. IsFiniteSet(1 .. Len(turn)) /\ Spending \in SUBSET (1 .. Len(turn))
  BY Typed, FS_Interval DEF Spending
<1> QED
  BY <1>1, FS_Subset, FS_CardinalityType

(* A request that takes a step joins the spending ones or leaves them. *)
LEMMA SpendingAfter ==
  ASSUME TypeOK, NEW t \in Posted, turn' = [turn EXCEPT ![t] = turn'[t]],
         turn'[t] \in Request
  PROVE  /\ t \notin Spending' => Spending' = Spending \ {t}
         /\ t \in Spending' => Spending' = Spending \cup {t}
<1>1. Posted' = Posted /\ \A u \in Posted : u # t => turn'[u] = turn[u]
  BY Replaced
<1>2. \A u \in Posted : u # t => (u \in Spending' <=> u \in Spending)
  BY <1>1 DEF Spending
<1>3. Spending \subseteq Posted /\ Spending' \subseteq Posted
  BY <1>1 DEF Spending
<1> QED
  BY <1>2, <1>3

(* A step that no request begins to spend with keeps the bound. *)
LEMMA NobodyJoins ==
  ASSUME TypeOK, SpendingBounded, Spending' \in SUBSET Spending,
         used' = used, most' = most, unchecked' = unchecked \/ unchecked'
  PROVE  SpendingBounded'
<1>1. /\ Cardinality(Spending) \in Nat /\ Cardinality(Spending') \in Nat
      /\ Cardinality(Spending') <= Cardinality(Spending)
  BY SpendingFinite, FS_Subset, FS_CardinalityType
<1>2. used \in Nat /\ most \in Nat /\ Budget \in Nat
  BY Typed DEF TypeOK
<1> QED
  BY <1>1, <1>2 DEF SpendingBounded

(* The steps of an answer that are neither a check of the budget nor a count. *)
Unbudgeted(t) ==
  \/ CheckRate(t) \/ CheckRateFails(t) \/ GetOwnedSession(t) \/ CreateSession(t)
  \/ InsertQuestion(t) \/ GetRecentHistory(t) \/ CondenseQuestion(t)
  \/ ClassifyIntent(t) \/ AnswerStructured(t) \/ ExactLookup(t) \/ SemanticLookup(t)
  \/ BudgetReached(t)
  \/ AnswerLight(t) \/ Retrieve(t) \/ Rewrite(t) \/ Generate(t) \/ Grade(t) \/ Regenerate(t)
  \/ Respond(t) \/ StreamFails(t) \/ PersistAssistant(t) \/ Touch(t)
  \/ RecordMetrics(t) \/ RecordMetricsFails(t) \/ CacheAnswer(t)
  \/ CompletionFails(t) \/ AnswerFails(t) \/ Die(t)

LEMMA UnbudgetedJoinsNobody ==
  ASSUME TypeOK, NEW t \in Posted, Unbudgeted(t)
  PROVE  t \in Spending' => t \in Spending
<1> USE DEF At
<1>1. turn[t] \in Request /\ turn \in Seq(Request)
  BY Typed
<1>2. SUFFICES ASSUME t \in Spending'
               PROVE  t \in Spending
  OBVIOUS
<1>3. /\ turn'[t].pc \in {"light", "retrieve", "rewrite", "generate", "grade", "regenerate",
                         "stream", "chunk", "usage"}
      /\ turn'[t].status = "miss"
  BY <1>2 DEF Spending
<1>4. ASSUME NEW pc, Goto(t, pc)
      PROVE  turn'[t].pc = pc /\ turn'[t].status = turn[t].status
  BY <1>1, <1>4 DEF Goto, Posted, Request
<1>5. CASE \/ CheckRate(t) \/ CheckRateFails(t) \/ GetOwnedSession(t) \/ InsertQuestion(t)
           \/ GetRecentHistory(t) \/ CondenseQuestion(t) \/ ClassifyIntent(t)
           \/ BudgetReached(t) \/ StreamFails(t) \/ PersistAssistant(t) \/ Touch(t)
           \/ RecordMetrics(t) \/ RecordMetricsFails(t) \/ CacheAnswer(t)
           \/ CompletionFails(t) \/ AnswerFails(t) \/ Die(t)
  <2>1. PICK pc \in {"refused", "session", "ask", "history", "condense", "intent",
                     "structured", "exact", "broken", "touch", "metrics", "cache", "done",
                     "failed", "dead"} : Goto(t, pc)
    BY <1>5 DEF CheckRate, CheckRateFails, GetOwnedSession, InsertQuestion, GetRecentHistory,
       CondenseQuestion, ClassifyIntent, BudgetReached, StreamFails, PersistAssistant, Touch,
       RecordMetrics, RecordMetricsFails, CacheAnswer, CompletionFails, AnswerFails, Die,
       AfterMetrics
  <2> QED
    BY <1>3, <1>4, <2>1
<1>6. CASE CreateSession(t)
  BY <1>1, <1>3, <1>6 DEF CreateSession, Posted, Request
<1>7. CASE AnswerStructured(t) \/ ExactLookup(t) \/ SemanticLookup(t)
  <2>1. CASE \E pc \in {"semantic", "budget"} : Goto(t, pc)
    BY <1>3, <1>4, <2>1
  <2>2. CASE turn'[t].status \in {"structured", "exact", "semantic"}
    BY <1>3, <2>2
  <2>3. CASE AnswerStructured(t)
    <3>1. \E fallback \in {TRUE, FALSE} :
            turn' = [turn EXCEPT ![t].pc = "chunk", ![t].status = "structured",
                                 ![t].fallback = fallback]
      BY <2>3 DEF AnswerStructured
    <3>2. \E fallback \in {TRUE, FALSE} :
            turn'[t] = [turn[t] EXCEPT !.pc = "chunk", !.status = "structured",
                                       !.fallback = fallback]
      BY <1>1, <3>1 DEF Posted
    <3>3. turn'[t].status = "structured"
      BY <1>1, <3>2 DEF Request
    <3> QED
      BY <2>2, <3>3
  <2>4. CASE \E hit \in {"exact", "semantic"} :
               turn' = [turn EXCEPT ![t].pc = "chunk", ![t].status = hit]
    BY <1>1, <2>2, <2>4 DEF Posted, Request
  <2> QED
    BY <1>7, <2>1, <2>3, <2>4 DEF ExactLookup, SemanticLookup
<1>8. CASE \/ AnswerLight(t) \/ Retrieve(t) \/ Rewrite(t) \/ Generate(t) \/ Grade(t)
           \/ Regenerate(t) \/ Respond(t)
  <2>1. turn[t].pc \in {"light", "retrieve", "rewrite", "generate", "grade", "regenerate",
                        "stream", "chunk"}
    BY <1>8 DEF AnswerLight, Retrieve, Rewrite, Generate, Grade, Regenerate, Respond
  <2>2. turn'[t].status = turn[t].status
    <3>1. CASE \E pc : Goto(t, pc)
      BY <1>4, <3>1
    <3>2. CASE Fallback(t) \/ Rewrite(t)
      BY <1>1, <3>2 DEF Fallback, Rewrite, Posted, Request
    <3> QED
      BY <1>8, <3>1, <3>2 DEF AnswerLight, Retrieve, Generate, Grade, Regenerate, Respond
  <2> QED
    BY <1>3, <2>1, <2>2 DEF Spending
<1> QED
  BY <1>5, <1>6, <1>7, <1>8 DEF Unbudgeted

(* Every step of a request keeps the bound and the types of the counters. *)
LEMMA BudgetKept ==
  ASSUME TypeOK, SpendingBounded, NEW t \in Posted, InOrder(t), TurnStep(t),
         turn' = [turn EXCEPT ![t] = turn'[t]], turn'[t] \in Request
  PROVE  SpendingBounded' /\ used' \in Nat /\ most' \in 0 .. MaxTurns /\ unchecked' \in BOOLEAN
<1> USE DEF At
<1>1. /\ IsFiniteSet(Spending) /\ Cardinality(Spending) \in Nat
      /\ used \in Nat /\ most \in 0 .. MaxTurns /\ unchecked \in BOOLEAN
      /\ MaxTurns \in Nat /\ Budget \in Nat
  BY SpendingFinite, Typed DEF TypeOK
<1>2. /\ t \notin Spending' => Spending' = Spending \ {t}
      /\ t \in Spending' => Spending' = Spending \cup {t}
  BY SpendingAfter
<1>3. CASE Unbudgeted(t)
  <2>1. used' = used /\ most' = most /\ (unchecked' = unchecked \/ unchecked' = TRUE)
    <3>1. CASE CheckRate(t) \/ CheckRateFails(t)
      BY <3>1 DEF CheckRate, CheckRateFails
    <3>2. CASE \/ GetOwnedSession(t) \/ CreateSession(t) \/ InsertQuestion(t)
               \/ GetRecentHistory(t) \/ CondenseQuestion(t) \/ ClassifyIntent(t)
               \/ AnswerStructured(t) \/ ExactLookup(t) \/ SemanticLookup(t)
               \/ BudgetReached(t)
      <4>1. UNCHANGED limits
        BY <3>2 DEF GetOwnedSession, CreateSession, InsertQuestion, GetRecentHistory,
           CondenseQuestion, ClassifyIntent, AnswerStructured, ExactLookup, SemanticLookup,
           BudgetReached
      <4> QED
        BY <4>1 DEF limits
    <3>3. CASE \/ AnswerLight(t) \/ Retrieve(t) \/ Rewrite(t) \/ Generate(t) \/ Grade(t)
               \/ Regenerate(t) \/ Respond(t) \/ StreamFails(t) \/ PersistAssistant(t)
               \/ Touch(t) \/ RecordMetrics(t) \/ RecordMetricsFails(t) \/ CacheAnswer(t)
               \/ CompletionFails(t) \/ AnswerFails(t) \/ Die(t)
      <4>1. UNCHANGED limits
        BY <3>3 DEF AnswerLight, Retrieve, Rewrite, Generate, Grade, Regenerate, Respond,
           StreamFails, PersistAssistant, Touch, RecordMetrics, RecordMetricsFails,
           CacheAnswer, CompletionFails, AnswerFails, Die
      <4> QED
        BY <4>1 DEF limits
    <3> QED
      BY <1>3, <3>1, <3>2, <3>3 DEF Unbudgeted
  <2>2. Spending' \in SUBSET Spending
    BY <1>2, <1>3, UnbudgetedJoinsNobody
  <2> QED
    BY <1>1, <2>1, <2>2, NobodyJoins
<1>4. CASE AssertWithinBudget(t) \/ AssertWithinBudgetFails(t)
  <2>1. /\ used' = used /\ turn[t].pc = "budget"
        /\ most' = IF Cardinality(Spending) + 1 > most THEN Cardinality(Spending) + 1 ELSE most
    BY <1>4 DEF AssertWithinBudget, AssertWithinBudgetFails, AnswerQuestion
  <2>2. t \notin Spending /\ Spending \subseteq 1 .. MaxTurns /\ t \in 1 .. MaxTurns
    BY <2>1, Typed DEF Spending
  <2>3. Cardinality(Spending) + 1 <= MaxTurns
    <3>1. Spending \cup {t} \in SUBSET (1 .. MaxTurns)
      BY <2>2
    <3>2. IsFiniteSet(1 .. MaxTurns) /\ Cardinality(1 .. MaxTurns) = MaxTurns
      BY <1>1, FS_Interval
    <3>3. Cardinality(Spending \cup {t}) <= MaxTurns
      BY <3>1, <3>2, FS_Subset
    <3>4. Cardinality(Spending \cup {t}) = Cardinality(Spending) + 1
      BY <1>1, <2>2, FS_AddElement, Zenon
    <3> QED
      BY <3>3, <3>4
  <2>4. most' \in 0 .. MaxTurns /\ most' >= Cardinality(Spending) + 1
    BY <1>1, <2>1, <2>3
  <2>5. /\ Cardinality(Spending') \in Nat
        /\ Cardinality(Spending') <= Cardinality(Spending) + 1
    <3>1. CASE t \in Spending'
      <4>1. Cardinality(Spending \cup {t}) = Cardinality(Spending) + 1
        BY <1>1, <2>2, FS_AddElement, Zenon
      <4>2. Spending' = Spending \cup {t}
        BY <1>2, <3>1
      <4> QED
        BY <1>1, <4>1, <4>2
    <3>2. CASE t \notin Spending'
      <4>1. Spending' = Spending
        BY <1>2, <2>2, <3>2
      <4> QED
        BY <1>1, <4>1
    <3> QED
      BY <3>1, <3>2
  <2>6. unchecked' = TRUE \/ (unchecked' = unchecked /\ used < Budget)
    BY <1>4, Zenon DEF AssertWithinBudget, AssertWithinBudgetFails
  <2>7. unchecked' \in BOOLEAN
    BY <1>1, <1>4 DEF AssertWithinBudget, AssertWithinBudgetFails
  <2>8. SpendingBounded'
    <3>1. used' + Cardinality(Spending') <= Budget + most' - 1 \/ unchecked' = TRUE
      BY <1>1, <2>1, <2>4, <2>5, <2>6
    <3> QED
      BY <3>1 DEF SpendingBounded
  <2> QED
    BY <1>1, <2>1, <2>4, <2>7, <2>8
<1>5. CASE AddUsage(t)
  <2>1. /\ used' = used + 1 /\ most' = most /\ unchecked' = unchecked
        /\ turn[t].pc = "usage" /\ Goto(t, "persist")
    BY <1>5 DEF AddUsage
  <2>2. t \in Spending /\ t \notin Spending'
    <3>1. turn'[t].pc = "persist"
      BY <2>1, Went DEF Completing
    <3> QED
      BY <2>1, <3>1 DEF Spending, InOrder
  <2>3. /\ Cardinality(Spending') = Cardinality(Spending) - 1
        /\ Cardinality(Spending') \in Nat
    BY <1>1, <1>2, <2>2, FS_RemoveElement, FS_CardinalityType
  <2> QED
    BY <1>1, <2>1, <2>3 DEF SpendingBounded
<1>6. CASE AddUsageFails(t)
  BY <1>1, <1>6 DEF AddUsageFails, SpendingBounded
<1> QED
  BY <1>3, <1>4, <1>5, <1>6 DEF TurnStep, Unbudgeted

-----------------------------------------------------------------------------
(* The invariant is inductive *)

LEMMA QuietStepsStoreNothing ==
  ASSUME NEW t, QuietStep(t)
  PROVE  UNCHANGED <<log, cached>>
<1>1. CASE \/ CheckRate(t) \/ CheckRateFails(t) \/ GetOwnedSession(t)
           \/ GetRecentHistory(t) \/ CondenseQuestion(t) \/ ClassifyIntent(t)
           \/ AnswerStructured(t) \/ ExactLookup(t) \/ SemanticLookup(t)
           \/ AssertWithinBudget(t) \/ BudgetReached(t) \/ AssertWithinBudgetFails(t)
  BY <1>1 DEF CheckRate, CheckRateFails, GetOwnedSession, GetRecentHistory,
     CondenseQuestion, ClassifyIntent, AnswerStructured, ExactLookup, SemanticLookup,
     AssertWithinBudget, BudgetReached, AssertWithinBudgetFails, AnswerQuestion, store
<1>2. CASE \/ AnswerLight(t) \/ Retrieve(t) \/ Rewrite(t) \/ Generate(t) \/ Grade(t)
           \/ Regenerate(t) \/ Respond(t) \/ StreamFails(t)
  BY <1>2 DEF AnswerLight, Retrieve, Rewrite, Generate, Grade, Regenerate, Respond,
     StreamFails, store
<1>3. CASE \/ AddUsage(t) \/ AddUsageFails(t) \/ Touch(t) \/ RecordMetrics(t)
           \/ RecordMetricsFails(t) \/ CompletionFails(t) \/ AnswerFails(t) \/ Die(t)
  BY <1>3 DEF AddUsage, AddUsageFails, Touch, RecordMetrics, RecordMetricsFails,
     CompletionFails, AnswerFails, Die, store
<1> QED
  BY <1>1, <1>2, <1>3 DEF QuietStep

LEMMA TurnStepKeepsOrder ==
  ASSUME TypeOK, Ordered, NEW t \in Posted, TurnStep(t)
  PROVE  /\ Ordered'
         /\ turn' = [turn EXCEPT ![t] = turn'[t]] /\ turn'[t] \in Request
<1>1. CASE QuietStep(t)
  <2>1. InOrder(t)
    BY DEF Ordered
  <2>2. Move(t)
    BY <1>1, <2>1, QuietStepsMove
  <2>3. UNCHANGED <<log, cached>>
    BY <1>1, QuietStepsStoreNothing
  <2> QED
    BY <2>2, <2>3, MoveKeepsOrder DEF Move
<1>2. CASE InsertQuestion(t)
  <2>1. Goto(t, "history")
    BY <1>2 DEF InsertQuestion
  <2> QED
    BY <1>2, <2>1, QuestionKeepsOrder, Went DEF Answering
<1>3. CASE PersistAssistant(t)
  <2>1. Goto(t, "touch")
    BY <1>3 DEF PersistAssistant
  <2> QED
    BY <1>3, <2>1, AnswerKeepsOrder, Went DEF Completing
<1>4. CASE CreateSession(t)
  <2>1. /\ turn'[t] = [turn[t] EXCEPT !.pc = "ask", !.session = sessions + 1]
        /\ turn' = [turn EXCEPT ![t] = turn'[t]]
        /\ turn[t] \in Request
    BY <1>4, Typed DEF CreateSession, Posted
  <2>2. sessions + 1 \in Session
    BY <1>4, Typed DEF CreateSession, TypeOK, Session
  <2>3. turn'[t] \in Request
    BY <2>1, <2>2 DEF Request, Answering
  <2> QED
    BY <1>4, <2>1, <2>3, SessionKeepsOrder
<1>5. CASE CacheAnswer(t)
  <2>1. Goto(t, "done")
    BY <1>5 DEF CacheAnswer
  <2> QED
    BY <1>5, <2>1, CacheKeepsOrder, Went DEF Ended
<1> QED
  BY <1>1, <1>2, <1>3, <1>4, <1>5 DEF TurnStep, QuietStep

(* A step leaves the log or adds the next question or answer to it. *)
LEMMA StepConverses ==
  ASSUME TypeOK, Ordered, [Next]_vars
  PROVE  [Conv!Next]_log /\ log' \in Seq(Conv!Entry)
<1>1. log \in Seq(Conv!Entry)
  BY DEF TypeOK, Conv!TypeOK
<1>2. CASE log' = log
  BY <1>1, <1>2
<1>3. ASSUME NEW t \in Posted, InsertQuestion(t)
      PROVE  Conv!Next /\ log' \in Seq(Conv!Entry)
  <2>1. turn[t].pc = "ask" /\ log' = Append(log, Conv!Question(t, turn[t].session))
    BY <1>3 DEF InsertQuestion, At
  <2>2. t \in Turn /\ turn[t].session \in Session /\ \A i \in DOMAIN log : log[i].turn # t
    BY <2>1, Asks, Typed
  <2>3. \A r \in Session : ~Conv!Stored(Conv!Question(t, r))
    BY <2>2 DEF Conv!Stored, Conv!Question
  <2>4. Conv!AskQuestion(t, turn[t].session)
    BY <2>1, <2>3 DEF Conv!AskQuestion
  <2>5. Conv!Question(t, turn[t].session) \in Conv!Entry
    BY <2>2 DEF Conv!Question, Conv!Entry
  <2> QED
    BY <1>1, <2>1, <2>2, <2>4, <2>5 DEF Conv!Next
<1>4. ASSUME NEW t \in Posted, PersistAssistant(t)
      PROVE  Conv!Next /\ log' \in Seq(Conv!Entry)
  <2>1. turn[t].pc = "persist" /\ log' = Append(log, Conv!Answer(t, turn[t].session))
    BY <1>4 DEF PersistAssistant, At
  <2>2. /\ t \in Turn /\ turn[t].session \in Session
        /\ Conv!Stored(Conv!Question(t, turn[t].session))
        /\ \A i \in DOMAIN log : log[i].turn = t => log[i].role # "assistant"
    BY <2>1, Answers, Typed
  <2>3. ~Conv!Stored(Conv!Answer(t, turn[t].session))
    BY <2>2 DEF Conv!Stored, Conv!Answer
  <2>4. Conv!AnswerQuestion(t, turn[t].session)
    BY <2>1, <2>2, <2>3 DEF Conv!AnswerQuestion
  <2>5. Conv!Answer(t, turn[t].session) \in Conv!Entry
    BY <2>2 DEF Conv!Answer, Conv!Entry
  <2> QED
    BY <1>1, <2>1, <2>2, <2>4, <2>5 DEF Conv!Next
<1>5. CASE UNCHANGED vars
  BY <1>2, <1>5 DEF vars, store
<1>6. CASE \E s \in {None} \cup 1 .. sessions : Post(s)
  BY <1>2, <1>6 DEF Post, store
<1>7. CASE NextMinute
  BY <1>2, <1>7 DEF NextMinute, store
<1>8. ASSUME NEW t \in Posted, TurnStep(t), ~InsertQuestion(t), ~PersistAssistant(t)
      PROVE  log' = log
  <2>1. CASE QuietStep(t)
    BY <2>1, QuietStepsStoreNothing
  <2>2. CASE CreateSession(t) \/ CacheAnswer(t)
    BY <2>2 DEF CreateSession, CacheAnswer
  <2> QED
    BY <1>8, <2>1, <2>2 DEF TurnStep, QuietStep
<1> QED
  BY <1>2, <1>3, <1>4, <1>5, <1>6, <1>7, <1>8 DEF Next

(* What TypeOK says beyond the requests and the messages. *)
LEMMA CountersTyped ==
  ASSUME TypeOK, NEW t \in Posted, TurnStep(t)
  PROVE  /\ rate' \in Nat /\ sessions' \in 0 .. MaxSessions
         /\ metrics' \subseteq Turn /\ cached' \subseteq Turn
<1>1. /\ rate \in Nat /\ sessions \in 0 .. MaxSessions /\ t \in Turn
      /\ metrics \subseteq Turn /\ cached \subseteq Turn /\ MaxSessions \in Nat
  BY Typed DEF TypeOK
<1>2. CASE CheckRate(t) \/ CheckRateFails(t)
  BY <1>1, <1>2 DEF CheckRate, CheckRateFails, store
<1>3. CASE CreateSession(t) \/ InsertQuestion(t) \/ PersistAssistant(t)
  BY <1>1, <1>3 DEF CreateSession, InsertQuestion, PersistAssistant, limits
<1>4. CASE RecordMetrics(t) \/ CacheAnswer(t)
  BY <1>1, <1>4 DEF RecordMetrics, CacheAnswer, limits
<1>5. CASE \/ GetOwnedSession(t) \/ GetRecentHistory(t) \/ CondenseQuestion(t)
           \/ ClassifyIntent(t) \/ AnswerStructured(t) \/ ExactLookup(t)
           \/ SemanticLookup(t) \/ BudgetReached(t) \/ AnswerLight(t) \/ Retrieve(t)
           \/ Rewrite(t) \/ Generate(t) \/ Grade(t) \/ Regenerate(t) \/ Respond(t)
           \/ StreamFails(t) \/ Touch(t) \/ RecordMetricsFails(t) \/ CompletionFails(t)
           \/ AnswerFails(t) \/ Die(t)
  <2>1. UNCHANGED <<store, limits>>
    BY <1>5 DEF GetOwnedSession, GetRecentHistory, CondenseQuestion, ClassifyIntent,
       AnswerStructured, ExactLookup, SemanticLookup, BudgetReached, AnswerLight, Retrieve,
       Rewrite, Generate, Grade, Regenerate, Respond, StreamFails, Touch, RecordMetricsFails,
       CompletionFails, AnswerFails, Die
  <2> QED
    BY <1>1, <2>1 DEF store, limits
<1>6. CASE \/ AssertWithinBudget(t) \/ AssertWithinBudgetFails(t)
           \/ AddUsage(t) \/ AddUsageFails(t)
  BY <1>1, <1>6 DEF AssertWithinBudget, AssertWithinBudgetFails, AnswerQuestion, AddUsage,
     AddUsageFails, store
<1> QED
  BY <1>2, <1>3, <1>4, <1>5, <1>6 DEF TurnStep

LEMMA InvariantInductive ==
  /\ Init => IInv
  /\ IInv /\ [Next]_vars => IInv'
<1>1. Init => IInv
  <2> SUFFICES ASSUME Init
               PROVE  IInv
    OBVIOUS
  <2>1. /\ rate = 0 /\ used = 0 /\ most = 0 /\ unchecked = FALSE /\ sessions = 0
        /\ log = <<>> /\ metrics = {} /\ cached = {} /\ turn = <<>> /\ Posted = {}
    BY DEF Init, Posted
  <2>2. MaxTurns \in Nat /\ MaxSessions \in Nat
    BY ChatBounds
  <2>3. TypeOK
    <3>1. turn \in Seq(Request) /\ Len(turn) = 0 /\ log \in Seq(Conv!Entry)
      BY <2>1
    <3>2. /\ rate \in Nat /\ used \in Nat /\ most \in 0 .. MaxTurns
          /\ sessions \in 0 .. MaxSessions /\ Len(turn) <= MaxTurns
      BY <2>1, <2>2, <3>1
    <3>3. unchecked \in BOOLEAN /\ metrics \subseteq Turn /\ cached \subseteq Turn
      BY <2>1
    <3> QED
      BY <3>1, <3>2, <3>3 DEF TypeOK, Conv!TypeOK
  <2>4. SpendingBounded
    <3>1. Spending = {}
      BY <2>1 DEF Spending
    <3> QED
      BY <2>1, <3>1, FS_EmptySet DEF SpendingBounded
  <2> QED
    BY <2>1, <2>3, <2>4 DEF IInv, Accounted, CachedInOrder, CachedIsStored
<1> SUFFICES ASSUME IInv, [Next]_vars
             PROVE  IInv'
  BY <1>1
<1>3. TypeOK /\ Ordered /\ SpendingBounded
  BY DEF IInv, Ordered
<1>4. log' \in Seq(Conv!Entry)
  BY <1>3, StepConverses
<1>5. ASSUME NEW t \in Posted, TurnStep(t)
      PROVE  IInv'
  <2>1. Ordered' /\ turn' = [turn EXCEPT ![t] = turn'[t]] /\ turn'[t] \in Request
    BY <1>3, <1>5, TurnStepKeepsOrder
  <2>2. /\ SpendingBounded' /\ used' \in Nat /\ most' \in 0 .. MaxTurns
        /\ unchecked' \in BOOLEAN
    <3>1. InOrder(t)
      BY <1>3 DEF Ordered
    <3> QED
      BY <1>3, <1>5, <2>1, <3>1, BudgetKept
  <2>3. turn' \in Seq(Request) /\ Len(turn') <= MaxTurns
    BY <1>3, <2>1, Replaced, Typed
  <2>4. TypeOK'
    BY <1>3, <1>4, <1>5, <2>2, <2>3, CountersTyped DEF TypeOK, Conv!TypeOK
  <2> QED
    BY <2>1, <2>2, <2>4 DEF IInv, Ordered
<1>6. ASSUME NEW s \in {None} \cup 1 .. sessions, Post(s)
      PROVE  IInv'
  <2>1. /\ Ordered' /\ Spending' = Spending
        /\ turn' \in Seq(Request) /\ Len(turn') <= MaxTurns
    BY <1>3, <1>6, PostKeepsOrder
  <2>2. UNCHANGED <<sessions, metrics, cached, rate, used, most, unchecked>>
    BY <1>6 DEF Post, store, limits
  <2>3. TypeOK'
    BY <1>3, <1>4, <2>1, <2>2 DEF TypeOK, Conv!TypeOK
  <2>4. SpendingBounded'
    BY <1>3, <2>1, <2>2 DEF SpendingBounded
  <2> QED
    BY <2>1, <2>3, <2>4 DEF IInv, Ordered
<1>7. ASSUME rate' \in Nat, UNCHANGED <<store, used, most, unchecked, turn>>
      PROVE  IInv'
  <2>1. TypeOK'
    BY <1>3, <1>7 DEF TypeOK, Conv!TypeOK, store
  <2>2. Ordered'
    <3>1. UNCHANGED <<log, cached, turn, Posted>>
      BY <1>7 DEF Posted, store
    <3>2. Accounted' /\ CachedInOrder'
      BY <1>3, <3>1 DEF Ordered, Accounted, CachedInOrder
    <3>3. ASSUME NEW t \in Posted
          PROVE  InOrder(t)'
      <4>1. InOrder(t)
        BY <1>3 DEF Ordered
      <4> QED
        BY <3>1, <4>1 DEF InOrder, Conv!Stored, Conv!Question, Conv!Answer
    <3>4. CachedIsStored'
      BY <1>3, <3>1 DEF Ordered, CachedIsStored, Conv!Stored, Conv!Answer
    <3> QED
      BY <3>1, <3>2, <3>3, <3>4 DEF Ordered
  <2>3. SpendingBounded'
    BY <1>3, <1>7 DEF SpendingBounded, Spending, Posted
  <2> QED
    BY <2>1, <2>2, <2>3 DEF IInv, Ordered
<1>8. CASE NextMinute
  <2>1. rate' \in Nat /\ UNCHANGED <<store, used, most, unchecked, turn>>
    BY <1>8 DEF NextMinute
  <2> QED
    BY <1>7, <2>1
<1>9. CASE UNCHANGED vars
  <2>1. rate' \in Nat /\ UNCHANGED <<store, used, most, unchecked, turn>>
    BY <1>3, <1>9 DEF vars, limits, TypeOK
  <2> QED
    BY <1>7, <2>1
<1> QED
  BY <1>5, <1>6, <1>8, <1>9 DEF Next

-----------------------------------------------------------------------------
(* The theorems *)

LEMMA InvariantHolds == Spec => []IInv
  BY InvariantInductive, PTL DEF Spec

(* Type correctness: whatever requests overlap and fail, none is at a step or *)
(* in a session that does not exist.                                          *)
THEOREM ChatTypeCorrect == Spec => []TypeOK
<1>1. IInv => TypeOK
  BY DEF IInv
<1> QED
  BY <1>1, InvariantHolds, PTL

(* The budget is overdrawn by no more than the answers given at once, for any *)
(* number of requests and any budget.                                         *)
THEOREM OverdraftLimited == Spec => []OverdraftBounded
<1>1. IInv => OverdraftBounded
  <2> SUFFICES ASSUME IInv, ~unchecked
               PROVE  used <= Budget + most - 1 \/ used = 0
    BY DEF OverdraftBounded
  <2>1. /\ used \in Nat /\ most \in Nat /\ Budget \in Nat /\ Cardinality(Spending) \in Nat
    BY SpendingFinite, Typed DEF IInv, TypeOK
  <2> QED
    BY <2>1 DEF IInv, SpendingBounded
<1> QED
  BY <1>1, InvariantHolds, PTL

(* Only grounded or confident answers that are in the conversation are cached. *)
THEOREM CachedAnswersStored == Spec => []CachedIsStored
<1>1. IInv => CachedIsStored
  BY DEF IInv
<1> QED
  BY <1>1, InvariantHolds, PTL

(* ChatTurn implements Conversation: whatever requests overlap, are retried, *)
(* fail or die, the messages they store form a conversation.                 *)
THEOREM ImplementsConversation == Spec => Conversation
<1>1. Init => Conv!Init
  BY DEF Init, Conv!Init
<1>2. IInv /\ [Next]_vars => [Conv!Next]_log
  BY StepConverses DEF IInv, Ordered
<1> QED
  BY <1>1, <1>2, InvariantHolds, PTL DEF Spec, Conversation, Conv!Spec

-----------------------------------------------------------------------------
(* What any conversation promises *)

(* Together the promises are inductive: that a question cannot be asked in a *)
(* second session rests on answers following their questions.                *)
Promises == Conv!TypeOK /\ Conv!StoredOnce /\ Conv!AnswerFollowsQuestion /\ Conv!OneSessionPerTurn

(* The log after one more message. *)
LEMMA Appended ==
  ASSUME log \in Seq(Conv!Entry), NEW e \in Conv!Entry, log' = Append(log, e)
  PROVE  /\ log' \in Seq(Conv!Entry)
         /\ DOMAIN log = 1 .. Len(log) /\ Len(log) \in Nat
         /\ DOMAIN log' = 1 .. Len(log) + 1
         /\ \A i \in DOMAIN log : log'[i] = log[i] /\ log[i] \in Conv!Entry
         /\ log'[Len(log) + 1] = e
  OBVIOUS

(* A message is the question or the answer of its turn. *)
LEMMA Roles ==
  ASSUME NEW e \in Conv!Entry
  PROVE  \/ e.role = "user" /\ e = Conv!Question(e.turn, e.session)
         \/ e.role = "assistant" /\ e = Conv!Answer(e.turn, e.session)
  BY DEF Conv!Entry, Conv!Question, Conv!Answer

(* A turn whose question has been stored nowhere has no message at all. *)
LEMMA NothingBefore ==
  ASSUME Promises, NEW t \in Turn, \A r \in Session : ~Conv!Stored(Conv!Question(t, r))
  PROVE  \A i \in DOMAIN log : log[i].turn # t
<1> SUFFICES ASSUME NEW i \in DOMAIN log, log[i].turn = t
             PROVE  FALSE
  OBVIOUS
<1> log \in Seq(Conv!Entry)
  BY DEF Promises, Conv!TypeOK
<1>1. log[i] \in Conv!Entry /\ DOMAIN log = 1 .. Len(log) /\ Len(log) \in Nat
  OBVIOUS
<1> log[i].session \in Session
  BY <1>1 DEF Conv!Entry
<1>2. CASE log[i].role = "user"
  <2>1. log[i] = Conv!Question(t, log[i].session)
    BY <1>1, <1>2, Roles
  <2> QED
    BY <2>1, <1>1 DEF Conv!Stored
<1>3. CASE log[i].role = "assistant"
  <2>1. PICK j \in 1 .. i - 1 : log[j] = Conv!Question(t, log[i].session)
    BY <1>3 DEF Promises, Conv!AnswerFollowsQuestion
  <2>2. j \in DOMAIN log
    BY <2>1, <1>1
  <2> QED
    BY <2>1, <2>2, <1>1 DEF Conv!Stored
<1> QED
  BY <1>1, <1>2, <1>3, Roles

(* A new message that is in nobody's way: it is not stored yet, an answer    *)
(* has its question, and what its turn has stored is in the same session.    *)
LEMMA NewMessage ==
  ASSUME Promises, NEW e \in Conv!Entry, log' = Append(log, e), ~Conv!Stored(e),
         e.role = "assistant" => Conv!Stored(Conv!Question(e.turn, e.session)),
         \A i \in DOMAIN log : log[i].turn = e.turn => log[i].session = e.session
  PROVE  Promises'
<1> DEFINE n == Len(log) + 1
<1>1. log \in Seq(Conv!Entry)
  BY DEF Promises, Conv!TypeOK
<1>2. /\ log' \in Seq(Conv!Entry) /\ DOMAIN log = 1 .. Len(log) /\ Len(log) \in Nat
      /\ DOMAIN log' = 1 .. n
      /\ \A i \in DOMAIN log : log'[i] = log[i] /\ log[i] \in Conv!Entry
      /\ log'[n] = e
  BY <1>1, Appended
<1> HIDE DEF n
<1>3. n \in Nat /\ \A i \in DOMAIN log' : i = n \/ i \in DOMAIN log
  BY <1>2 DEF n
<1>4. Conv!StoredOnce'
  <2> SUFFICES ASSUME NEW i \in DOMAIN log', NEW j \in DOMAIN log', log'[i] = log'[j]
               PROVE  i = j
    BY DEF Conv!StoredOnce
  <2> QED
    BY <1>2, <1>3 DEF Promises, Conv!StoredOnce, Conv!Stored
<1>5. Conv!AnswerFollowsQuestion'
  <2> SUFFICES ASSUME NEW i \in DOMAIN log', log'[i].role = "assistant"
               PROVE  \E j \in 1 .. i - 1 :
                        log'[j] = Conv!Question(log'[i].turn, log'[i].session)
    BY DEF Conv!AnswerFollowsQuestion, Conv!Question
  <2>1. CASE i = n
    <3>1. PICK j \in DOMAIN log : log[j] = Conv!Question(e.turn, e.session)
      BY <2>1, <1>2 DEF Conv!Stored
    <3>2. j \in 1 .. n - 1
      BY <1>2 DEF n
    <3> QED
      BY <2>1, <3>1, <3>2, <1>2
  <2>2. CASE i \in DOMAIN log
    <3>1. PICK j \in 1 .. i - 1 : log[j] = Conv!Question(log[i].turn, log[i].session)
      BY <2>2, <1>2 DEF Promises, Conv!AnswerFollowsQuestion
    <3>2. j \in DOMAIN log
      BY <2>2, <3>1, <1>2
    <3> QED
      BY <2>2, <3>1, <3>2, <1>2
  <2> QED
    BY <2>1, <2>2, <1>3
<1>6. Conv!OneSessionPerTurn'
  <2> SUFFICES ASSUME NEW i \in DOMAIN log', NEW j \in DOMAIN log',
                      log'[i].turn = log'[j].turn
               PROVE  log'[i].session = log'[j].session
    BY DEF Conv!OneSessionPerTurn
  <2> QED
    BY <1>2, <1>3 DEF Promises, Conv!OneSessionPerTurn
<1> QED
  BY <1>2, <1>4, <1>5, <1>6 DEF Promises, Conv!TypeOK

(* The promises hold of the empty log and survive every message. *)
LEMMA PromisesInductive ==
  /\ Conv!Init => Promises
  /\ Promises /\ [Conv!Next]_log => Promises'
<1>1. Conv!Init => Promises
  BY DEF Conv!Init, Promises, Conv!TypeOK, Conv!StoredOnce, Conv!AnswerFollowsQuestion, Conv!OneSessionPerTurn
<1>2. ASSUME Promises, UNCHANGED log
      PROVE  Promises'
  BY <1>2 DEF Promises, Conv!TypeOK, Conv!StoredOnce, Conv!AnswerFollowsQuestion, Conv!OneSessionPerTurn
<1>3. ASSUME Promises, NEW t \in Turn, NEW s \in Session, Conv!AskQuestion(t, s)
      PROVE  Promises'
  <2> DEFINE e == Conv!Question(t, s)
  <2>1. e \in Conv!Entry /\ e.role = "user" /\ e.turn = t /\ e.session = s
    BY DEF Conv!Entry, Conv!Question
  <2>2. /\ log' = Append(log, e) /\ ~Conv!Stored(e)
        /\ \A i \in DOMAIN log : log[i].turn # t
    BY <1>3, NothingBefore DEF Conv!AskQuestion
  <2> QED
    BY <1>3, <2>1, <2>2, NewMessage
<1>4. ASSUME Promises, NEW t \in Turn, NEW s \in Session, Conv!AnswerQuestion(t, s)
      PROVE  Promises'
  <2> DEFINE e == Conv!Answer(t, s)
  <2>1. e \in Conv!Entry /\ e.turn = t /\ e.session = s
    BY DEF Conv!Entry, Conv!Answer
  <2>2. log' = Append(log, e) /\ ~Conv!Stored(e) /\ Conv!Stored(Conv!Question(t, s))
    BY <1>4 DEF Conv!AnswerQuestion
  <2>3. \A i \in DOMAIN log : log[i].turn = t => log[i].session = s
    BY <1>4, <2>2 DEF Promises, Conv!OneSessionPerTurn, Conv!Stored, Conv!Question
  <2> QED
    BY <1>4, <2>1, <2>2, <2>3, NewMessage
<1> QED
  BY <1>1, <1>2, <1>3, <1>4 DEF Conv!Next

(* Of every conversation: a message is stored once, an answer is in the      *)
(* session of its question and after it, and a turn belongs to one session.  *)
THEOREM PromisesKept ==
  Conv!Spec => [](Conv!StoredOnce /\ Conv!AnswerFollowsQuestion /\ Conv!OneSessionPerTurn)
<1>1. Promises => Conv!StoredOnce /\ Conv!AnswerFollowsQuestion /\ Conv!OneSessionPerTurn
  BY DEF Promises
<1> QED
  BY <1>1, PromisesInductive, PTL DEF Conv!Spec

(* So every promise of a conversation holds of the stored messages: each is   *)
(* stored once, an answer follows its question in the same session, and a     *)
(* request stays in one session.                                              *)
THEOREM StoredMessagesConverse ==
  Spec => [](Conv!StoredOnce /\ Conv!AnswerFollowsQuestion /\ Conv!OneSessionPerTurn)
  BY ImplementsConversation, PromisesKept, PTL DEF Conversation
=============================================================================
