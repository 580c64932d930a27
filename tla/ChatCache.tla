----------------------------- MODULE ChatCache -----------------------------
(***************************************************************************)
(* The two-layer chat answer cache of one workspace: CacheService, its     *)
(* caller ChatService.answer / onComplete, and the writers that change     *)
(* retrievable chunks and then bump the workspace's version key.           *)
(*                                                                         *)
(* Every Redis key and every chat_cache row carries the workspace id, so   *)
(* workspaces do not interact and one is modelled.                         *)
(*                                                                         *)
(* Content is abstracted to a revision number per retrieval statement:     *)
(* corpus[s] counts the committed changes of the chunks statement s reads, *)
(* and an answer is the pair of revisions its two retrieval statements saw.*)
(***************************************************************************)
EXTENDS Naturals, FiniteSets

CONSTANTS
  Writer,      \* handlers that change chunks and then bump the version
  Query,       \* chat requests in flight
  Question,    \* normalised standalone questions
  Near,        \* Near[k]: the questions within SEMANTIC_CACHE_THRESHOLD of k
  RedisMayFail, \* whether the environment may fail a version read
  MaxVersion,  \* bound: the version key is bumped up to this value
  MaxChanges   \* bound: chunk changes in all

ASSUME QuestionAssumption ==
  /\ Question # {}
  /\ Near \in [Question -> SUBSET Question]
  /\ \A k \in Question : k \in Near[k]

ASSUME BoundAssumption == MaxVersion \in Nat \ {0} /\ MaxChanges \in Nat

(* The two statements of similaritySearchWithTicketSlot, run in this order. *)
Source == {"documents", "tickets"}

Version  == 0 .. MaxVersion
Revision == [Source -> 0 .. MaxChanges]
Nothing  == [s \in Source |-> 0]

(* a reflects at least everything b reflects *)
Covers(a, b) == \A s \in Source : b[s] <= a[s]

VARIABLES
  version,   \* Redis chat:ver:<ws>; 0 is the absent key
  exact,     \* Redis chat:ans:<ws>:<version>:<hash>, what the stored
             \* answer is based on: a singleton, or empty when there is no key
  rows,      \* Postgres chat_cache
  corpus,    \* committed revision of the chunks each statement reads
  writer,    \* writer[w]: "idle", or "changed" between its commit and its bump
  req,       \* the chat requests
  invalidated, \* history: the corpus when the last INCR succeeded
  floor      \* history: floor[v] is the corpus when the key was bumped to v

cacheVars == <<version, exact, rows, corpus, writer, req, invalidated, floor>>

CachedRow == [version : Version, question : Question, based : Revision,
              healthy : BOOLEAN]

(* The five places of answer() and onComplete() where getVersion is called, *)
(* and the step each of them goes on to.                                    *)
VersionCall == {"exactVersion", "semanticVersion", "promoteVersion",
                "captureVersion", "generated"}

Phase == VersionCall \cup {"exactGet", "semanticGet", "promoteSet",
  "readDocuments", "readTickets", "storeSet", "saveRow", "done"}

AfterVersion(p) ==
  CASE p = "exactVersion"    -> "exactGet"
    [] p = "semanticVersion" -> "semanticGet"
    [] p = "promoteVersion"  -> "promoteSet"
    [] p = "captureVersion"  -> "readDocuments"
    [] p = "generated"       -> "storeSet"

Request == [pc : Phase,
            question : Question,
            since : Revision,   \* what was invalidated when the request started
            boot : BOOLEAN,     \* GET found no key, SETNX not yet sent
            got : Version,      \* what the last getVersion call returned
            captured : Version, \* the version saveSemantic will be given
            based : Revision,   \* what the answer in hand is based on
            origin : {"none", "exact", "semantic", "miss"},
            healthy : BOOLEAN]  \* no getVersion call has failed so far

CacheTypeOK ==
  /\ version \in Version
  /\ exact \in [Question \X Version -> SUBSET Revision]
  /\ rows \in SUBSET CachedRow
  /\ corpus \in Revision
  /\ writer \in [Writer -> {"idle", "changed"}]
  /\ req \in [Query -> Request]
  /\ invalidated \in Revision
  /\ floor \in [Version -> Revision]

Asked(k, since) ==
  [pc |-> "exactVersion", question |-> k, since |-> since, boot |-> FALSE,
   got |-> 0, captured |-> 0, based |-> Nothing, origin |-> "none",
   healthy |-> TRUE]

(* The response has ended: only what the answer was based on still matters.  *)
Ended(r) == [r EXCEPT !.pc = "done", !.got = 0, !.captured = 0]

AnyQuestion == CHOOSE k \in Question : TRUE

CacheInit ==
  /\ version = 0
  /\ exact = [key \in Question \X Version |-> {}]
  /\ rows = {}
  /\ corpus = Nothing
  /\ writer = [w \in Writer |-> "idle"]
  /\ req = [q \in Query |-> Ended(Asked(AnyQuestion, Nothing))]
  /\ invalidated = Nothing
  /\ floor = [v \in Version |-> Nothing]

-----------------------------------------------------------------------------
(* Writers: IngestProcessor, DocumentsService.remove and TicketsService      *)
(* commit one or more chunk statements and then call bumpVersion.            *)

(* One committed DELETE or INSERT of chunks. *)
ChangeChunks(w, s) ==
  /\ corpus["documents"] + corpus["tickets"] < MaxChanges
  /\ corpus' = [corpus EXCEPT ![s] = @ + 1]
  /\ writer' = [writer EXCEPT ![w] = "changed"]
  /\ UNCHANGED <<version, exact, rows, req, invalidated, floor>>

(* INCR: an absent key counts from 0, so the first INCR makes it 1. *)
BumpVersion(w) ==
  /\ writer[w] = "changed"
  /\ version < MaxVersion
  /\ version' = version + 1
  /\ invalidated' = corpus
  /\ floor' = [floor EXCEPT ![version + 1] = corpus]
  /\ writer' = [writer EXCEPT ![w] = "idle"]
  /\ UNCHANGED <<exact, rows, corpus, req>>

(* INCR failed and the error was swallowed, or the handler failed or its     *)
(* process died after the commit and before the bump.                        *)
LoseBump(w) ==
  /\ writer[w] = "changed"
  /\ writer' = [writer EXCEPT ![w] = "idle"]
  /\ UNCHANGED <<version, exact, rows, corpus, req, invalidated, floor>>

-----------------------------------------------------------------------------
(* getVersion *)

(* What the caller goes on with: saveSemantic is later given the version     *)
(* that was read before retrieval.                                           *)
ReturnCapturingLate(r, v) ==
  [r EXCEPT !.pc = AfterVersion(r.pc), !.boot = FALSE, !.got = v,
            !.captured = IF r.pc = "generated" THEN v ELSE @]

Return(r, v) ==
  [r EXCEPT !.pc = AfterVersion(r.pc), !.boot = FALSE, !.got = v,
            !.captured = IF r.pc = "captureVersion" THEN v ELSE @]

GetVersion(q) ==
  /\ req[q].pc \in VersionCall
  /\ ~req[q].boot
  /\ req' = [req EXCEPT ![q] = IF version = 0 THEN [@ EXCEPT !.boot = TRUE]
                                              ELSE Return(@, version)]
  /\ UNCHANGED <<version, exact, rows, corpus, writer, invalidated, floor>>

(* The key was absent when read: SETNX it and go on with 1, whatever the key *)
(* holds by now.                                                             *)
BootstrapVersion(q) ==
  /\ req[q].boot /\ req[q].pc \in VersionCall
  /\ version' = IF version = 0 THEN 1 ELSE version
  /\ req' = [req EXCEPT ![q] = Return(@, 1)]
  /\ UNCHANGED <<exact, rows, corpus, writer, invalidated, floor>>

(* GET or SETNX failed: the call is logged and returns 1. *)
GetVersionFails(q) ==
  /\ RedisMayFail
  /\ req[q].pc \in VersionCall
  /\ req' = [req EXCEPT ![q] = [Return(@, 1) EXCEPT !.healthy = FALSE]]
  /\ UNCHANGED <<version, exact, rows, corpus, writer, invalidated, floor>>

-----------------------------------------------------------------------------
(* ChatService.answer and the controller's call of onComplete *)

Ask(q, k) ==
  /\ req[q].pc = "done"
  /\ req' = [req EXCEPT ![q] = Asked(k, invalidated)]
  /\ UNCHANGED <<version, exact, rows, corpus, writer, invalidated, floor>>

ExactHit(q) ==
  /\ req[q].pc = "exactGet"
  /\ \E b \in exact[<<req[q].question, req[q].got>>] :
       req' = [req EXCEPT ![q] =
                 Ended([@ EXCEPT !.origin = "exact", !.based = b])]
  /\ UNCHANGED <<version, exact, rows, corpus, writer, invalidated, floor>>

(* No entry under the key, its TTL ran out, or the GET failed: a lookup may  *)
(* always miss, so the passing of time needs no action of its own.           *)
ExactMiss(q) ==
  /\ req[q].pc = "exactGet"
  /\ req' = [req EXCEPT ![q].pc = "semanticVersion"]
  /\ UNCHANGED <<version, exact, rows, corpus, writer, invalidated, floor>>

(* The nearest row of the version read, if its score passes. *)
SemanticHit(q) ==
  /\ req[q].pc = "semanticGet"
  /\ \E r \in rows :
       /\ r.version = req[q].got
       /\ r.question \in Near[req[q].question]
       /\ req' = [req EXCEPT ![q] = [@ EXCEPT !.pc = "promoteVersion",
                        !.origin = "semantic", !.based = r.based,
                        !.healthy = req[q].healthy /\ r.healthy]]
  /\ UNCHANGED <<version, exact, rows, corpus, writer, invalidated, floor>>

(* No row near enough, the rows are past SEMANTIC_CACHE_TTL_HOURS, or the     *)
(* SELECT failed. Rows are never taken out of "rows": a row that a lookup may *)
(* miss stands for one that has expired.                                     *)
SemanticMiss(q) ==
  /\ req[q].pc = "semanticGet"
  /\ req' = [req EXCEPT ![q].pc = "captureVersion"]
  /\ UNCHANGED <<version, exact, rows, corpus, writer, invalidated, floor>>

ReadDocuments(q) ==
  /\ req[q].pc = "readDocuments"
  /\ req' = [req EXCEPT ![q] = [@ EXCEPT !.pc = "readTickets",
               !.based = [req[q].based EXCEPT !["documents"] = corpus["documents"]]]]
  /\ UNCHANGED <<version, exact, rows, corpus, writer, invalidated, floor>>

ReadTickets(q) ==
  /\ req[q].pc = "readTickets"
  /\ req' = [req EXCEPT ![q] = [@ EXCEPT !.pc = "generated",
               !.origin = "miss",
               !.based = [req[q].based EXCEPT !["tickets"] = corpus["tickets"]]]]
  /\ UNCHANGED <<version, exact, rows, corpus, writer, invalidated, floor>>

(* The graph rewrote the query and retrieves again. *)
Rewrite(q) ==
  /\ req[q].pc = "generated" /\ ~req[q].boot
  /\ req' = [req EXCEPT ![q] = [@ EXCEPT !.pc = "readDocuments",
                                         !.origin = "none"]]
  /\ UNCHANGED <<version, exact, rows, corpus, writer, invalidated, floor>>

(* The budget is spent, the stream failed, or the answer is a fallback: the  *)
(* request ends and neither layer is written.                                *)
EndUncached(q) ==
  /\ req[q].pc \in {"readDocuments", "readTickets", "generated"}
  /\ ~req[q].boot
  /\ req' = [req EXCEPT ![q] = Ended(@)]
  /\ UNCHANGED <<version, exact, rows, corpus, writer, invalidated, floor>>

(* setExact: SET under the version read just now. After a semantic hit this  *)
(* ends the request; in onComplete, once the answer has been streamed,       *)
(* saveSemantic follows.                                                     *)
AfterSet(r) == IF r.pc = "promoteSet" THEN Ended(r)
                                      ELSE [r EXCEPT !.pc = "saveRow", !.got = 0]

SetExact(q) ==
  /\ req[q].pc \in {"promoteSet", "storeSet"}
  /\ exact' = [exact EXCEPT ![<<req[q].question, req[q].got>>] = {req[q].based}]
  /\ req' = [req EXCEPT ![q] = AfterSet(@)]
  /\ UNCHANGED <<version, rows, corpus, writer, invalidated, floor>>

(* The SET failed and the error was swallowed. *)
SetExactFails(q) ==
  /\ req[q].pc \in {"promoteSet", "storeSet"}
  /\ req' = [req EXCEPT ![q] = AfterSet(@)]
  /\ UNCHANGED <<version, exact, rows, corpus, writer, invalidated, floor>>

NewRow(r) == [version |-> r.captured, question |-> r.question,
              based |-> r.based, healthy |-> r.healthy]

(* INSERT under the version captured before retrieval. The DELETE that       *)
(* follows it removes expired rows, which no lookup returns any more.        *)
SaveSemantic(q) ==
  /\ req[q].pc = "saveRow"
  /\ rows' = rows \cup {NewRow(req[q])}
  /\ req' = [req EXCEPT ![q] = Ended(@)]
  /\ UNCHANGED <<version, exact, corpus, writer, invalidated, floor>>

(* The INSERT failed and the error was swallowed. *)
SaveSemanticFails(q) ==
  /\ req[q].pc = "saveRow"
  /\ req' = [req EXCEPT ![q] = Ended(@)]
  /\ UNCHANGED <<version, exact, rows, corpus, writer, invalidated, floor>>

-----------------------------------------------------------------------------
QueryStep(q) ==
  \/ GetVersion(q) \/ BootstrapVersion(q) \/ GetVersionFails(q)
  \/ \E k \in Question : Ask(q, k)
  \/ ExactHit(q) \/ ExactMiss(q) \/ SemanticHit(q) \/ SemanticMiss(q)
  \/ ReadDocuments(q) \/ ReadTickets(q) \/ Rewrite(q)
  \/ EndUncached(q)
  \/ SetExact(q) \/ SetExactFails(q)
  \/ SaveSemantic(q) \/ SaveSemanticFails(q)

WriterStep(w) ==
  \/ \E s \in Source : ChangeChunks(w, s)
  \/ BumpVersion(w)
  \/ LoseBump(w)

CacheNext ==
  \/ \E w \in Writer : WriterStep(w)
  \/ \E q \in Query : QueryStep(q)

CacheSpec == CacheInit /\ [][CacheNext]_cacheVars

-----------------------------------------------------------------------------
(* Properties *)

(* A request whose version reads all succeeded, answered from the semantic   *)
(* layer or by fresh retrieval, reflects every chunk change that had been    *)
(* invalidated (committed, then INCR done) when the request started. This is *)
(* why answer() captures the version before retrieval and hands that one to  *)
(* saveSemantic.                                                             *)
SemanticAnswersFresh ==
  \A q \in Query :
    req[q].origin \in {"semantic", "miss"} /\ req[q].healthy
      => Covers(req[q].based, req[q].since)

(* Every chat_cache row that getSemantic would now accept reflects the       *)
(* corpus of the last successful bump, so a bump makes all older rows cold;  *)
(* rows whose writer had a failed version read are set apart.                *)
WarmRowsFresh ==
  \A r \in rows :
    r.version = version /\ r.healthy => Covers(r.based, invalidated)

(* What docs/ai/risk-register.md says of the exact layer: bumps make old     *)
(* exact keys go dark, so an exact hit reflects what was invalidated before  *)
(* the request. setExact re-reads the version when the answer is complete,   *)
(* so an answer computed before a bump is stored under the new version.      *)
ExactAnswersFresh ==
  \A q \in Query :
    req[q].origin = "exact" /\ req[q].healthy
      => Covers(req[q].based, req[q].since)
=============================================================================
