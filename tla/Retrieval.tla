------------------------------ MODULE Retrieval ------------------------------
(***************************************************************************)
(* What an answer is made of: the search of document chunks with its slot  *)
(* for ticket chunks (vectorstore), the rows of their documents and        *)
(* tickets that become the sources shown (buildSources), the evidence pack *)
(* put in the prompt (chains/context.ts), and the route from one to the    *)
(* next on the light path (chains/index.ts) and through the answer graph   *)
(* (chains/graph.ts); and the workspace search (SearchService), which goes *)
(* from the same chunks to the documents it lists. Between the SELECTs of  *)
(* a request documents are deleted and ingested again and tickets are      *)
(* reviewed. Embeddings are external: a query gives any chunk any score.   *)
(* Rows of equal score have no order.                                      *)
(***************************************************************************)
EXTENDS Naturals, FiniteSets, FiniteSetsExt

CONSTANTS
  DocumentOf,  \* document chunks, and the document of each
  TicketOf,    \* ticket chunks, and the ticket of each
  Limit,       \* results asked for
  Reserve,     \* TICKET_SLOT_RESERVE
  MinScore,    \* TICKET_SLOT_MIN_SCORE
  Threshold,   \* RETRIEVAL_SCORE_THRESHOLD
  GradeBelow,  \* SELF_GRADE_MIN_SCORE; 0 unless SELF_GRADE_ENABLED
  MaxScore,    \* scores are 0 .. MaxScore
  MaxRewrites, \* MAX_QUERY_REWRITES
  Budget,      \* RAG_CONTEXT_TOKEN_BUDGET
  Size,        \* tokens of a block: its header and a whole chunk
  Excerpt      \* tokens of a header and TRIM_MARGIN, without any of the chunk

DocumentChunk == DOMAIN DocumentOf
TicketChunk == DOMAIN TicketOf
Chunk == DocumentChunk \cup TicketChunk
Owner(c) == IF c \in TicketChunk THEN TicketOf[c] ELSE DocumentOf[c]
Document == {DocumentOf[c] : c \in DocumentChunk}

VARIABLES
  rows,     \* documents and tickets rows
  chunks,   \* chunks rows
  path,     \* light or graph, of a question; or search
  step,     \* the next await of the request
  rewrites, \* rewrites
  score,    \* the score of every chunk for the query that was searched last
  found,    \* documentRows of the search
  results,  \* what similaritySearchWithTicketSlot returned
  named,    \* documentMap: the documents whose rows were found
  sources,  \* sources
  evidence, \* chunks of which the prompt holds all or a part
  gone      \* history: documents deleted since the request began

tables == <<rows, chunks, gone>>
request == <<path, step, rewrites, score, found, results, named, sources, evidence>>
vars == <<tables, request>>

Paths == {"light", "graph", "search"}
Steps == {"documents", "tickets", "documentRows", "ticketRows", "route", "rewrite", "fallback",
          "list", "generate", "grade", "regenerate", "answer", "answered"}

TypeOK ==
  /\ rows \subseteq {Owner(c) : c \in Chunk} /\ gone \subseteq Document
  /\ chunks \subseteq Chunk /\ \A c \in chunks : Owner(c) \in rows
  /\ path \in Paths /\ step \in Steps /\ rewrites \in 0 .. MaxRewrites
  /\ score \in [Chunk -> 0 .. MaxScore]
  /\ found \subseteq DocumentChunk /\ results \subseteq Chunk /\ Cardinality(results) <= Limit
  /\ named \subseteq Document /\ evidence \subseteq Chunk
  /\ sources \subseteq [of : {Owner(c) : c \in Chunk}, score : 0 .. MaxScore]

Init ==
  /\ rows = {Owner(c) : c \in Chunk} /\ chunks = Chunk /\ gone = {}
  /\ path \in Paths /\ step = "documents" /\ rewrites = 0
  /\ score = [c \in Chunk |-> 0]
  /\ found = {} /\ results = {} /\ named = {} /\ sources = {} /\ evidence = {}

-----------------------------------------------------------------------------
(* The tables *)

(* Its chunks go with it. *)
DeleteDocument(d) ==
  /\ d \in rows
  /\ rows' = rows \ {d} /\ gone' = gone \cup {d}
  /\ chunks' = {c \in chunks : Owner(c) # d}
  /\ UNCHANGED request

(* Ingested again, or a ticket whose review changed. *)
ChangeChunk(c) ==
  /\ Owner(c) \in rows
  /\ chunks' \in {chunks \cup {c}, chunks \ {c}}
  /\ UNCHANGED <<rows, gone, request>>

-----------------------------------------------------------------------------
(* The search *)

(* ORDER BY the distance LIMIT n. *)
Top(set, n, s) ==
  {kept \in SUBSET set :
     /\ Cardinality(kept) = IF Cardinality(set) < n THEN Cardinality(set) ELSE n
     /\ \A a \in kept, b \in set \ kept : s[a] >= s[b]}

SearchDocuments ==
  /\ step = "documents" /\ path # "search"
  /\ score' \in [Chunk -> 0 .. MaxScore]
  /\ found' \in Top(chunks \cap DocumentChunk, Limit, score')
  /\ step' = "tickets"
  /\ UNCHANGED <<tables, path, rewrites, results, named, sources, evidence>>

(* Tickets that qualify take the places of the last documents. *)
Merged(tickets) ==
  IF tickets = {} THEN {found}
  ELSE {kept \cup tickets :
          kept \in Top(found, IF Cardinality(tickets) < Limit THEN Limit - Cardinality(tickets) ELSE 0, score)}

Qualifying(tickets) == {c \in tickets : score[c] >= MinScore}

SearchTickets ==
  /\ step = "tickets"
  /\ \E tickets \in Top(chunks \cap TicketChunk, Reserve, score) :
       results' \in Merged(Qualifying(tickets))
  /\ step' = IF path = "light" /\ results' = {} THEN "fallback" ELSE "documentRows"
  /\ UNCHANGED <<tables, path, rewrites, score, found, named, sources, evidence>>

-----------------------------------------------------------------------------
(* The sources *)

OwnersOf(set) == {Owner(c) : c \in set}

SelectDocuments ==
  /\ step = "documentRows"
  /\ named' = OwnersOf(results \cap DocumentChunk) \cap rows
  /\ step' = IF path = "search" THEN "list" ELSE "ticketRows"
  /\ UNCHANGED <<tables, path, rewrites, score, found, results, sources, evidence>>

LastScore(o) == Min({score[c] : c \in {c \in results : Owner(c) = o}})

(* The best chunk of an owner. *)
BestScore(o) == Max({score[c] : c \in {c \in results : Owner(c) = o}})

(* An owner whose row is gone is no source, though its chunk stays. *)
SelectTickets ==
  /\ step = "ticketRows"
  /\ LET tickets == OwnersOf(results \cap TicketChunk) \cap rows IN
     sources' = {[of |-> o, score |-> BestScore(o)] : o \in named \cup tickets}
  /\ step' = IF path = "light" THEN "answer" ELSE "route"
  /\ UNCHANGED <<tables, path, rewrites, score, found, results, named, evidence>>

-----------------------------------------------------------------------------
(* The workspace search *)

(* Over all chunks: those of tickets take places, and nothing is listed for   *)
(* them. Tickets and messages are found by one statement each, by their text. *)
SearchChunks ==
  /\ step = "documents" /\ path = "search"
  /\ score' \in [Chunk -> 0 .. MaxScore]
  /\ results' \in Top(chunks, Limit, score')
  /\ step' = "documentRows"
  /\ UNCHANGED <<tables, path, rewrites, found, named, sources, evidence>>

ListFound ==
  /\ step = "list" /\ step' = "answered"
  /\ sources' = {[of |-> d, score |-> BestScore(d)] : d \in named}
  /\ UNCHANGED <<tables, path, rewrites, score, found, results, named, evidence>>

-----------------------------------------------------------------------------
(* The answer *)

TopScore == Max({0} \cup {score[c] : c \in results})

RouteAfterRetrieve ==
  /\ step = "route"
  /\ step' = CASE TopScore >= Threshold -> IF TopScore < GradeBelow THEN "generate" ELSE "answer"
               [] TopScore < Threshold -> IF rewrites < MaxRewrites THEN "rewrite" ELSE "fallback"
  /\ UNCHANGED <<tables, path, rewrites, score, found, results, named, sources, evidence>>

Rewrite ==
  /\ step = "rewrite" /\ step' = "documents"
  /\ rewrites' = rewrites + 1
  /\ UNCHANGED <<tables, path, score, found, results, named, sources, evidence>>

(* The fixed message, without sources. *)
Fallback ==
  /\ step = "fallback" /\ step' = "answered" /\ evidence' = {}
  /\ sources' = {}
  /\ UNCHANGED <<tables, path, rewrites, score, found, results, named>>

(* The best blocks that fit whole, and of the first that does not fit what   *)
(* still fits of it.                                                         *)
EvidencePacks ==
  {whole \in SUBSET results :
     /\ Cardinality(whole) * Size <= Budget
     /\ \A a \in whole, b \in results \ whole : score[a] >= score[b]
     /\ whole = results \/ (Cardinality(whole) + 1) * Size > Budget}

Trimmed(whole) ==
  IF Cardinality(whole) * Size + Excerpt >= Budget THEN {{}}
  ELSE {{c} : c \in {c \in results \ whole : \A b \in results \ whole : score[c] >= score[b]}}

Evidence == UNION {
  IF whole = results THEN {results} ELSE {whole \cup part : part \in Trimmed(whole)}
    : whole \in EvidencePacks}

(* prepareStream, and the light path: the tokens are passed on as they come. *)
Answer ==
  /\ step = "answer" /\ step' = "answered"
  /\ evidence' \in Evidence
  /\ UNCHANGED <<tables, path, rewrites, score, found, results, named, sources>>

(* The answer is kept until it is graded.                                     *)
Generate ==
  /\ step = "generate" /\ step' = "grade"
  /\ evidence' \in Evidence
  /\ UNCHANGED <<tables, path, rewrites, score, found, results, named, sources>>

GradeAnswer ==
  /\ step = "grade"
  /\ \E grounded \in BOOLEAN : step' = IF grounded THEN "answered" ELSE "regenerate"
  /\ UNCHANGED <<tables, path, rewrites, score, found, results, named, sources, evidence>>

(* From the same chunks, and not graded again. *)
Regenerate ==
  /\ step = "regenerate" /\ step' = "answered"
  /\ UNCHANGED <<tables, path, rewrites, score, found, results, named, sources, evidence>>

-----------------------------------------------------------------------------

Next ==
  \/ SearchDocuments \/ SearchTickets \/ SearchChunks \/ ListFound
  \/ SelectDocuments \/ SelectTickets
  \/ RouteAfterRetrieve \/ Rewrite \/ Fallback
  \/ Answer \/ Generate \/ GradeAnswer \/ Regenerate
  \/ \E d \in Document : DeleteDocument(d)
  \/ \E c \in Chunk : ChangeChunk(c)

Spec == Init /\ [][Next]_vars

Shown == IF path = "search" THEN results \cap DocumentChunk ELSE evidence

(* What the model is given is cited: every document and ticket in its context *)
(* is a source, with the score of its best chunk, unless it was deleted while *)
(* the sources were looked up; and no source is one nothing was retrieved of  *)
(* (buildSources and buildEvidencePack start from the same chunks). So is     *)
(* every document a workspace search has found (searchDocuments). The answer  *)
(* that nothing was found has no sources, and only it has a prompt without a  *)
(* best chunk, whole or in part (buildEvidencePack).                          *)
EvidenceIsCited ==
  step = "answered" =>
    /\ \A c \in Shown : Owner(c) \in gone
         \/ \E s \in sources : s.of = Owner(c) /\ s.score >= score[c]
    /\ \A s \in sources : \E c \in results : Owner(c) = s.of /\ score[c] = s.score
    /\ \/ path = "search"
       \/ IF evidence = {} THEN sources = {} /\ (path = "graph" => TopScore < Threshold)
                          ELSE \E c \in evidence : score[c] = TopScore
=============================================================================
