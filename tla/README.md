# Mnemra: a TLA+ verification project

Mnemra is a multi-tenant knowledge-base assistant: a NestJS API
(`src/apps/api`), a Next.js web client (`src/apps/web`), and packages for
retrieval, embeddings and crawling (`src/packages/ai`) and for the Postgres
schema (`src/packages/db`). The state lives in Postgres (with pgvector), Redis
(the answer cache, limits and the Bull queues), an S3-compatible object store, and
in the pages of the browser.

Nearly every operation of the API is a sequence of awaited calls to these
stores, without a transaction around it, and every page of the client shows
answers that may arrive late. The models in this directory take one such call, or one
answer, as one step and let the sequences of different requests, queue handlers,
pages, crashes and restarts interleave. TLC checks them on small instances; TLAPS proves
the main safety properties for every value of the constants.

    tlc -workers 2 -config MCTicketLifecycle.cfg MCTicketLifecycle
    tlapm ChatTurn_proofs.tla

Paths below are relative to `src/`; `api/` is `apps/api/src/`, `ai/` is
`packages/ai/src/`, `web/` is `apps/web/`, `[id]/` is `web/app/workspaces/[id]/`.

## 1. Inventory

| component | source | state it keeps | operations | modelled in |
|---|---|---|---|---|
| chat answer cache | `api/cache` | Redis version key and exact answers, Postgres `chat_cache` | getVersion, bumpVersion, get/set exact, get/save semantic | `ChatCache` |
| chat answering | `api/chat`, `ai/chains` | sessions, messages, query metrics | rate limit, session, history, structured branch, cache, budget, graph, stream, onComplete | `ChatTurn`, `Conversation`, `Retrieval` |
| limits | `api/limits` | Redis counters | per-minute limit, monthly tokens, refinements a day | `ChatTurn`, `ChatComposer` |
| vector store | `ai/vectorstore` | `chunks` | syncChunks, syncTicketChunk, the search with a slot for tickets | `DocumentIngest`, `TicketLifecycle`, `Retrieval` |
| document ingestion, documents | `api/ingest`, `api/documents`, `api/storage` | `documents`, stored objects, Bull queue `ingest` | upload, handleIngest, remove, removeMany, boot reconciliation | `DocumentIngest`, `Workspaces` |
| scrape runs | `api/scrape` | `scrape_runs`, Bull queue `scrape` | startScrape, handleScrape, failed event, boot reconciliation | `ScrapeRuns` |
| the crawl | `ai/web/crawl.ts`, `api/scrape` | frontier and counters in memory, run counters | crawlSite, crawlPage, onPage, quota clamp | `SiteCrawl` |
| tickets | `api/tickets` | `tickets`, one chunk per ticket, Bull queue `ticket-extraction` | create, handleExtraction, update, backfill, boot reconciliation | `TicketLifecycle` |
| datasets, structured queries | `api/datasets`, `api/structured-query`, `ai/chains/text-to-sql.ts` | `datasets`, stored files, temporary files | upload, profiling, removal, questions with one repair | `Datasets` |
| authentication, client session | `api/auth`, `web/src/lib/api/client.ts`, `web/middleware.ts` | users, codes, refresh tokens, cookies | register, verify, login, refresh, change password, logout; the shared refresh | `Accounts` |
| workspaces, knowledge bases | `api/workspaces`, `api/knowledge-bases` | members, invitations, knowledge bases | invite, accept, remove; create, delete | `Workspaces` |
| insights | `api/insights` | flags, FAQ drafts, digest settings, background runs | ticks, the three runs, dismiss, approve, reject, change settings | `Insights` |
| search, refine | `api/search`, `api/refine` | saved refined messages | search, refine, save | `Retrieval`, `ChatComposer` |
| events | `api/events` | `workspace_events`, seen-at of each member | record, list, unreadCount, markSeen | `ActivityFeed` |
| web client: pages | `web/app`, `web/src/components` | React state of each page | loads, polls, forms, streams | `ChatPage`, `ChatComposer`, `DocumentsPage`, `CrawlRunsList`, `TicketsPage`, `DatasetsPage`, `WorkspaceSearch`, `ActivityFeed` |
| insights: topic gaps, coverage | `api/insights` | one report per run | | no, see 7 |
| notifications; loaders, chunking, embeddings; other pages; deployment | | none of their own | adapters, pure functions, forms | no, see 7 |

How they interact. A request handler or a queue processor calls the vector
store directly, and then `CacheService.bumpVersion`; the chat path reads the
version before it retrieves. Producers (upload, crawl, ticket creation, dataset upload, an
approved FAQ draft) write a row, write `queueJobId` into it, and add a Bull job whose id is
derived from the row's id. Bull calls the processor in the same process, and the queue's
`failed` event calls back into `ScrapeService`. A crawl's page callback calls the
producer of documents. Cron ticks add one job per workspace. At boot (`onModuleInit`) each
service reads the rows that are still open and asks Bull whether their jobs exist. The
client polls what it shows as in progress, and refreshes its tokens from the page and from
`middleware.ts` independently.

What is hard. Bull may give up a job (its `timeout`, or its lock that expired)
and run it again or fail it *while its handler lives on*. A lost reply makes an
`add` look failed. The process may die between any two statements, and Redis may
come back without its data. An UPDATE by id alone overwrites whatever was written
since the row was read. The version of the cache is read at one time and used at
another; so are the token budget, an invitation, the settings of a digest. A page's answers
come in any order, and its handlers use the values of the render they were started from.
All hazards, at their lines, are listed under `hazards` in `PROJECT.json`.

What makes each component correct:

* the cache: what a request is served reflects everything that had been
  invalidated when it started;
* chat: overlapping and failing requests store a conversation, spend no more than the
  answers being given at once beyond the budget, cache only what was retrieved for, and end;
* retrieval: what the model is given is cited, and nothing else;
* ingestion: a document that says done is retrievable as exactly its content, a
  deleted one not at all, a change of chunks is followed by a bump, a queued row settles;
* tickets: one extraction at a time, done is final, the ticket's one chunk follows
  its reviews, a change of it is followed by a bump;
* scrape runs: one run of a seed URL is open at a time, and every run ends;
* the crawl: each page once, exactly the pages in reach, within the quota, counters
  that add up, and an end;
* datasets: done means queryable, no temporary file is left, a queued one settles;
* accounts: an ended session stays ended, the client never looks like a thief, the jar
  holds the live token; codes and invitations are spent once;
* workspaces: rows and stored objects match;
* insights: one open flag per gap, one draft per cluster, an approved draft enters
  the corpus once, a digest is sent once to each channel that is on;
* pages: a question goes to the session it is shown under, the composer is freed, ticks
  and editors belong to what is shown, what is in progress does not stay so, every event is
  listed or unread.

## 2. Modules

Each module has the component's state as variables, one action per statement of
its handlers (or, for a page, per event, request and answer), and its properties at the end.
`map` in `PROJECT.json` gives the source lines of every definition. A definition ending in
the name of a slip (`StartUnguarded`, `InsertUnparented`, `TouchAgain`, ...) belongs to no
specification: it is a plausible bug that the property named under `mutants` must catch.
Variables marked *history* are read by no guard; they say what happened, so that a property
can name its exceptions.

### BullJob

What Bull 4 does with one job, as far as the queues use it: added under an
id that exists, an `add` changes nothing; a failed attempt goes back to waiting
or, after the last one, to failed; a stalled job waits again at most
`maxStalledCount` times and is then failed. Jobs that fail are kept
(`removeOnFail: false`), jobs that complete are not, so a failed job blocks its
id. "lost" is a job that Redis lost with its data. External code, modelled from
the options and calls in `src`. `DocumentIngest`, `TicketLifecycle`, `ScrapeRuns`,
`Datasets` and `Insights` extend it.

### ChatCache

One workspace: the version key (0 when absent), the exact answers, the semantic rows
and the requests of `ChatService.answer` / `onComplete`. A request's program
counter names the Redis or Postgres call it is about to make; `got` is the version
its last `getVersion` returned and `captured` the one that `saveSemantic` will be
given. Bootstrapping the key is two steps, GET and SETNX, so that it can race an
INCR. Content is abstracted to revisions: `corpus[s]` counts the committed changes
that the document or the ticket statement of `similaritySearchWithTicketSlot`
sees, and an answer *is* the pair of revisions its two statements read. That is
enough to say that one answer is older than another. Every call may fail the way
its catch block handles it: a read of the version falls back to 1, writes are
dropped, a bump may be lost. An expired key or row is a lookup that misses.

### ChatTurn and Conversation

`ChatTurn` has the requests of one user in one workspace, from the rate-limit guard to the
last await of `onComplete`: one program counter per request over the awaits of
`ChatController.chat`, `ChatService.answer`, `answerQuestion`, the nodes of the graph
and `onComplete`. A call that fails does what its catch block does: the guards of the limits
let the request through (`unchecked`), before the headers the request is refused, afterwards
the stream is cut, and whatever was not awaited yet is not done. What the caches hold is
`ChatCache`'s subject; here a lookup hits or misses freely once something has been cached.

`Conversation` is what this promises, in two actions: a turn asks its question in one
session, and is answered there at most once. `ChatTurn` implements it,
`Conv == INSTANCE Conversation` with `Turn` and `Session` as the numbers in use and `log` as
itself: the actions that insert a message map to `AskQuestion` and `AnswerQuestion`, all
others to stuttering. TLC checks the property `Conversation == Conv!Spec`; the theorem
`ImplementsConversation` proves it. `ChatPage` uses the same abstraction as its server.

### Retrieval

One question, or one workspace search, from the first SELECT to what is shown: the search of
document chunks with its reserve for tickets, the rows of their documents and tickets
(`buildSources`), the evidence pack with its budget and its one trimmed block, and the route
on the light path and in the graph (threshold, rewrite, fallback, grading). Scores are
arbitrary at every query; documents are deleted and chunks replaced between the SELECTs.

### DocumentIngest

One document with its row, its chunks, its job, and all that works on it: the
request or crawl callback that stores content and queues it (`caller`), two or
more executions of `handleIngest` (`handler`, of which one at most holds the job's
lock), `remove` / `removeMany` (`remover`) and `reconcileDocuments` (`recon`).
`syncChunks` is its three statements; what the SELECT saw is kept until the
INSERT. `Content[k]` is the set of chunk hashes of the k-th stored object, so a
recrawl is a new `key`. The ids of chunk rows are kept because without a unique
index the same hash can be there twice.

### TicketLifecycle

One transcript: POST requests that find it by hash or insert it and lose or win
the unique index, the extraction handler with its guarded UPDATE from pending, the
PATCH requests with the `syncTicketChunk` that follows each UPDATE, the backfill
script (which synchronises a row it read earlier), reconciliation. Fields are one
text. A reviewer keeps both the row `getOne` read and the row its UPDATE
returned, since `update` uses them to decide what to synchronise. Two history
variables mark what the code does not guard against (`excused`, `disturbed`).

### ScrapeRuns

The runs of one seed URL, numbered in the order of their INSERTs: requests
between `findInFlightRun` and the answer, the handler from its unguarded UPDATE to
running to its unguarded UPDATE to completed, the `failed` event with the UPDATE
it does not await (whose rejection ends the process), and `reconcileRuns` row by row.
Times are not kept: an open row may be stale or not whenever the code asks.

### SiteCrawl

One crawl: the frontier loop of `crawlSite`, the concurrent `crawlPage` calls with
the point where each awaits, robots.txt (which, when it cannot be read, allows everything),
the callback that stores pages and counts them, and the clamp of maxPages by the quota. The
site is a link graph from a small set whose links are hrefs; `Canonical` is
`canonicalizeUrl`, several hrefs to one page and some to none. The order in which a
page's links are pushed and in which concurrent calls advance is free.

### Datasets

One dataset with its row, its stored object ("file" until an XLSX has been
overwritten by its CSV), its job, the request that uploads it, the one that removes it, the
handlers and the reconciliation, as in `DocumentIngest`; and structured questions answered
from it, from several datasets at once or from exported tickets, with the temporary files
each has downloaded, the statement that is generated, refused or run, and its one repair.

### Accounts, Workspaces, Tenancy

`Accounts` is one e-mail address: its users row, its code, the chain of refresh tokens, and a
browser with forms, tabs, in each of which the fetches share one refresh (`refreshInFlight` is a
variable of the page), and navigations on which `middleware.ts` refreshes by itself. All of them
share the cookie jar. A call to the service is its reads up to the first write, then one action
per statement or transaction; its answer may be lost. A logout is three steps: the route sends
on the cookie it was called with (`LogoutSend`), the service's UPDATE revokes that token alone
(`Logout`) or fails (`LogoutRefused`), and the answer deletes both cookies, whatever they hold
by then (`LoggedOut`).
`Workspaces` has the members of one workspace with invitations that are accepted and members
that are removed, and the rows and objects of one knowledge base under uploads and deletions.
`Tenancy` instantiates both: they share no row that either changes after its INSERT, so a
behaviour is of one or of the other (`service`).

### Insights, Knowledge

`Insights` is one workspace's weekly work: a tick, its job and the one worker, for
freshness flags, FAQ drafts or the digest (`kind`), with the requests that dismiss, approve,
reject, or change the digest settings. `Knowledge` instantiates it beside `Retrieval`, again
one or the other per behaviour: both read the corpus, neither writes what the other reads.

### The web client

`ChatPage` (the streams of `useChat`, the session it would post to, loads of stored
messages), `ChatComposer` (the text box, its refinement and what is saved of it, with the
API's daily limit), `DocumentsPage`, `CrawlRunsList` and `TicketsPage` (lists with filter,
pages and polling, built on `PagedList`), `DatasetsPage` (a list that is not paged),
`WorkspaceSearch` (debounce and abort) and `ActivityFeed` (a keyset cursor in milliseconds
over time stamps that are finer, and the mark of what was seen). In each, a request is asked
for, served at some later point with what the database holds then, and shown later still, or
fails; answers overtake each other. The rows that a SELECT returns of a table, in its order, are
`Kept` of `TableRows`, which `PagedList` and `ChatPage` share. `WebPages` instantiates all pages
as the one a tab shows (`at`): they share no state, and one run checks them all.

### Composition

The modules of the producers and `ChatCache` meet in one contract: a chunk change is
followed by `bumpVersion`. `ChangesAnnounced` states the producers' side, with the
exceptions (`excused`) in which the bump does not come; `ChangeChunks` /
`BumpVersion` / `LoseBump` of `ChatCache` is the consumer's side, and its
properties speak of what has been *invalidated*, so they need nothing of the
producers but that. `ChatTurn` and `ChatPage` meet in `Conversation`: the page is checked
against any server that implements it. A page stored by the crawl is the `Recrawl` or
`Create` of `DocumentIngest` and the `Store` of `SiteCrawl`. What settles rows in
`DocumentIngest`, `ScrapeRuns`, `TicketLifecycle` and `Datasets` is the `Settle` or `EndRun`
of the pages.

## 3. Runs

| run | what it shows | instance |
|---|---|---|
| `chat_cache` | semantic hits and fresh answers never predate what was invalidated before the request | 2 requests, 1 writer, 1 question, versions to 2, 1 change, all failures |
| `exact_stale` (violation) | the exact layer does serve such answers, with no failure at all | the same, version reads do not fail |
| `chat` | budget, cached answers, ends of requests, refinement of `Conversation` | 2 requests, 2 sessions, 1 rewrite, 1 request a minute, a budget of 1 (852,008 states) |
| `ingest` | done uploads are indexed, deleted documents are not, changes are announced, queued rows settle | 2 handlers, 2 objects sharing a chunk, 2 attempts, 1 stall, 1 overrun, 1 crash (1,172,499 states) |
| `tickets` | one extraction, announced changes, chunk follows review, done is final, pending tickets settle | 2 POSTs, 2 handlers, 2 reviewers and the backfill, 2 texts, 1 crash (750,039 states) |
| `scrape` | one run open, runs settle | 1 request at a time, 2 handlers, 2 runs, 1 overrun, 1 crash (684,892 states) |
| `site_crawl` | exactly the reach, each page once, counters and quota, termination | 5 sites of 7 pages, depth 2, concurrency 2, room for 1 to 5 pages |
| `datasets` | done is queryable, no file is left, queued datasets settle | 2 handlers, 1 question, 1 other dataset, 1 overrun, 1 crash |
| `tenancy` | ended sessions, no false theft, current jar; codes, invitations, rows and objects | 2 forms, 3 fetches in 2 tabs, 1 navigation, 2 requests in flight, 3 tokens; 2 users, 2 invitations, 2 documents, 2 requests (2,293,445 states) |
| `knowledge` | evidence is cited; flags, drafts, reviews and digests happen once | 3 document chunks of 2 documents, 1 ticket chunk; 2 gaps, 1 cluster, 2 drafts, 2 reviews, 1 week (4,766,605 states) |
| `web_pages` | what pages show, tick, edit, save, list and post belongs together; the composer is freed, what is in progress is shown to end | 2 turns and 2 messages a page; 2 rows, 1 a page; 2 loads under way; 2 details of tickets; 3 events (1,375,086 states) |
| `older_messages` (violation) | "Load older messages" shows newer messages above | 2 turns, 2 messages a page |

Every property of a passing run is also run against a plausible bug of the code
(`mutants`) and must fail there.

Type invariants. No passing run repeats one: those of `ChatCache` (`CacheTypeOK`),
`DocumentIngest`, `TicketLifecycle`, `ScrapeRuns`, `SiteCrawl` (`CrawlTypeOK`), `ChatTurn`,
`Conversation`, `Accounts` and `Workspaces` are theorems; those of `Retrieval`, `Insights`,
`Datasets` and `ChatPage` hold on the instances of the table (add them to a configuration), and
what a proof needs of them is part of its invariant.

Why these bounds are enough. The interesting cases need two overlapping executions of
one handler (hence two handlers and one overrun), a process death between two
statements (one crash), two versions of some content (two keys, two texts), and a
version that has moved past the bootstrapped 1 (MaxVersion 2). One job is enough,
because ids keep jobs apart. Two attempts have a first one that is retried and a last one that is
not; the theorems about `DocumentIngest` hold for any number. In `ChatCache` the second request
stores what the first one reads. The five sites have a cycle, a hub, a diamond, a page
reached along paths of different lengths, a page out of scope, pages closed by robots.txt or
by the address check, and two spellings of one link; the quotas leave room for one page to
five. Refresh tokens are three, so that a rotated one can be rotated again while the
first is presented late. Two requests to the API overlap at a time (`MaxInFlight`); any two of
them may, a form with a fetch, two fetches of different tabs, or a fetch with the navigation. The pages need a second answer to overtake the first, hence two
loads; a list of one row a page has a second page. The budget of `chat` is one
answer, so that two overlapping ones overdraw it. `Datasets` has no stall of a living
handler (`MaxStalls = 0`), since an overrun and a crash already give it two executions.
With one question, nearness cannot vary; `Near` is a constant, and the proofs hold for any
relation. The bounds themselves (`Max...`, `Weeks`, `Draft`, `Document`, `Invitation`,
`EventId`) are guards of the actions that count or add; nothing else depends on them.

In `scrape` one request follows another, so that the state space stays small with
fairness; `raced` is then never TRUE. The theorem `OneOpenRun` covers any number
of overlapping requests. That two overlapping requests may insert two open runs is
the hazard at `scrape.service.ts:70`, and the property excludes just that.

Deadlock is checked in `chat_cache`, `exact_stale`, `tickets` and `scrape`. In the others
the system may really stop: a deleted document, a crawl that has returned, chat
requests, tokens or weeks that are used up have nothing left to do.

### What the properties exclude

A property that the code keeps only under a condition names it: `entangled` drafts are those
whose reviews overlapped (`approve`'s last UPDATE has no guard); `doubled` users those with
overlapping acceptances; `overlapped` verifications of one code; `contended` refreshes those of
`middleware.ts`, or of a second tab, beside another: each presents the cookie it found, and the
later of them presents a token that the earlier has rotated, which looks like theft; `late`
tokens those issued by a call that had read its row before its session was ended; `outrun`
sessions those whose logout named a token that a refresh had rotated since the logout was sent:
the UPDATE of `auth.service.ts:200` then revokes nothing and the successor stays live, until the
session is ended once more; `astray` editors of tickets those that an older answer filled after
the last one, or whose own request failed (while the selected ticket's detail is under way, the
editor may hold another's as well, and `handleSave` would write it); `unchecked` requests those a failing Redis let through;
`strayed` chats those that show, or may show, messages of another session than the active one
(after a late load or stream of another session, an answer that brings no session or another's,
a stop or an error in a new chat, a retry in one that is not answered), until a chat is opened
with no stream under way; `behind` lists those whose last shown answer is older than a change;
`missed` events those recorded between the list and the mark; `spilled` files those that a
failed download, a failed unlink or a death left. Each is set at the step where the code has no
guard, and the `hazards` list has the line.

### Fairness

`FairSpec` (`FairCrawlSpec` of `SiteCrawl`, `Spec` of `Datasets` and `ChatTurn`) assumes what the
deployment does: the process is restarted when it dies (`restart: unless-stopped` in
`docker-compose.prod.yml`) and runs its reconciliation; Bull's worker takes waiting jobs and
checks for stalled ones; every awaited call of a handler returns or fails. The crawler's
fetches have a timeout of 20 seconds; of the clients of Postgres, Redis, S3 and the
model API it is an assumption, and a call that hung would cost its job one attempt, by
the job's timeout, as a handler that overruns does in the model. Requests, reviews,
deletions, crashes, timeouts and stalls of living handlers have no fairness.

The pages assume that their 3-second timer fires, that the worker ends its work, that
answers that were sent are shown, and, as the only strong fairness, that a load that
is repeated for ever does not fail every time.

## 4. Proofs

Every safety property that a run checks is also a theorem, for all values of the constants that the
ASSUMEs allow. Each `*_proofs` module proves the inductive invariants of its components, step by
step of their actions, and what follows from them. The listed theorems:

| module | theorems | inductive invariant |
|---|---|---|
| `Freshness_proofs`, on `ChatCache` | `TypeCorrect`, `SemanticFreshness`, `WarmRows` | `IInv`: the types; `FloorInv`, `floor[v]` is what had been invalidated when the key got to v, it grows with v, and nothing above `version` is set; `RowInv`, each healthy row reflects the floor of the version it carries; `RequestsInv`, each request's `got` and `captured` are versions the key has had, and what it has read so far covers the floor of `captured` |
| the same, on `DocumentIngest` | `IngestTypeCorrect`, `DeletedUnretrievable`, `AnnouncedChanges`, `UploadIndexed` | `LockInv`, one handler at most owns the job, which is then active; `AbsentInv`, nothing runs before the INSERT; `UploadInv`, an uploaded document has one content, so no handler ever deletes a chunk of it: what a handler has seen stays, and past its INSERT all of the content is there |
| `ChatTurn_proofs` | `ChatTypeCorrect`, `OverdraftLimited`, `CachedAnswersStored`, `ImplementsConversation`, `PromisesKept`, `StoredMessagesConverse` | of the abstraction: `Promises`, the three promises and the type together, since a question cannot be asked in a second session because answers follow questions. Of the requests, `IInv`: the types; `Accounted`, every message is of a request that has got so far; `InOrder`, what a request relies on at each await: its session, its stored question and answer, whether it may be cached; `CachedInOrder`; `SpendingBounded`, what will be counted is as good as counted |
| `TicketLifecycle_proofs` | `TicketTypeCorrect`, `OneExtraction`, `ProcessingIsWorkedOn`, `TicketChangesAnnounced`, `DoneStaysDone`, `ChunkInStep` | `LockInv`; `TextInv`, a ticket that is done, or that somebody is about to embed, has a text; `SoloInv`, only the request that inserted the ticket queues it, nothing handles the ticket before that, and a handler works only on a ticket that is processing or failed; `QueueInv`, requests run only while the process serves; `FollowInv`, while nothing has disturbed the ticket, one review or sync works on it at a time (`OneCall`), knows the row as it is (`Knows`), leaves the chunk as the row wants it (`InStep`), and no ticket still to be extracted has been reviewed (`Unopened`) |
| `Scraping_proofs`, on `ScrapeRuns` | `ScrapeTypeCorrect`, `RunningIsCrawled`, `OneOpenRun` | `LockInv`, as above, with the run of each handler; `StarterInv`, a request past its SELECT or INSERT has a run; `ExistInv`, what has a job, a handler or such a request is a row; `SingleInv`, without a race one request at most is between its check and its INSERT and it knows of every open run |
| the same, on `SiteCrawl` | `CrawlTypeCorrect`, `CrawlReaches`, `CrawlAddsUp` | `PlaceInv`, a queued page is at one place, within its depth of the seed, and unfetched until its call has got so far; `FetchInv`; `OverInv`; `LevelInv`, there is a level n such that all pages less than n links away have been queued, the queue holds none of those and the frontier only pages one link nearer; `CountInv`, each page found is stored, failed, or at a stage between |
| `Datasets_proofs` | `DoneQueryable`, `NoTempFilesLeft` | `StoredInv`, the object is put before the row, a row that is read as a CSV has one, only a removal takes it, and a handler past the conversion leaves a readable object; `FilesInv`, a question has files only from its downloads on, and none is being downloaded while its statements run |
| `Tenancy_proofs`, accounts | `TenancyTypes`, `EndedSessionsStayEnded`, `SpentOnceAlways`, `RefreshesNeverLookStolen`, `CookieStaysCurrent` | `TokensIssued`, every token a cookie, a call or a session names has been issued; `OneChain`, of the tokens of a session the last alone was not rotated away; `LateIsKnown`, a refresh that holds a token of an ended session, other than one whose logout was outrun, is marked late; `CodeInv`, the code is inserted once and whoever verifies it second overlaps the first. Of the browser: `OneRefresh`, the fetches of a tab share one refresh, and while nothing contended no two refreshes are in flight; `AnswersApart`, a token on its way to the browser is nobody else's and unused; `RevokedKnown`, a token is revoked by its rotation or with its session; `RotationKnown`, while the cookie is a token rotated away, the answer with the next one is under way |
| the same, workspaces | `RowsMatchObjects`, `SpentOnceAlways` | `UploadsApart`, an upload's document is its own until it is recorded, and stored by then; `RemovalsHaveUnstored`; `InvitationsInOrder`; `JoinsApart`, an acceptance past its check still finds no row of its user, unless it was overtaken |
| `Knowledge_proofs`, on `Retrieval` | `AnswersAreCited` | `RequestInv`, by step: the rows looked up are of what was found and the others gone (`NamedFound`), each source has the score of its best chunk (`SourcesFound`), what is kept of the evidence holds the best chunk (`HasBest`) |
| the same, on `Insights` | `NothingFoundTwice`, `DraftsEnterOnce`, `DigestSentOnce` | `QueueTypes`, with one run under way at a time; `FreshInv`, a gap that is to be recorded has no open flag; `FaqInv`, a draft has entered the corpus as often as its status and its reviews say (`DraftInOrder`), and one approval at a time looks for the knowledge base of the drafts (`BaseInOrder`); `DigestInv`, until its job has run to the end nothing of a week is sent but what its one run has sent (`WeekInOrder`), and changes of the settings start from what they are (`SettingsInOrder`) |
| `WebPages_proofs` | `TicksAreShown`, `EditsAreOfSelected`, `FoundIsAsked`, `SavedAreRefined`, `EveryEventReached`, `QuestionsStayInPlace`, `RestIsComplete` | one of each page: `DocumentInv`, what a load brings is a sequence of rows, so that an upload put on top leaves the others shown; `DetailInv`, the latest detail asked for, of which there is one at most, is of the selected ticket unless it is of one just created; `SearchInv`, a request that is not aborted is for the text in the box; `ComposerInv`, what is remembered, being saved or saved is a text with its refinement; `FeedInv`, the cursor parts what is listed from what is below it (`PagesInv`), a call brings what continues the list (`CallOK`), the mark is no later than the clock (`TimesInv`); `ChatInv`, a stream is of the session that was active when its question was posted, a load is of the session it asks for, and what is shown and what a stream can bring back is of one session (`InPlace`); `SetsInv`, a list that is not behind lacks nothing stored and shows what is gone only until its deletion answers |

Why the strengthenings are needed. `SemanticAnswersFresh` speaks of a row's content and a
request's start, which no step relates; the version does: a row was captured under v *before*
its content was read, so it covers `floor[v]`, and a request that accepts it read v *after* it
started. `UploadDoneIsIndexed` needs to know that what an execution has seen is still there when
it decides what to insert, although other executions, with or without the job's lock, write the
same chunks. `RunningHasCrawler` (proved as `RunningIsCrawled`) needs that every job handed to a
handler belongs to a row, and that a handler whose rejection is heard owns its job, so that the
failed event follows. `SingleOpenRun` needs that an ended run is never opened again except by
`Start`, which sets `revived`. `OverdraftBounded` compares what has been counted with the most
requests that were ever answering at once; it is kept by counting the ones that are answering
now as spent. `EndedStayEnded` needs both chain facts: a rotation could extend an ended session
through a second live token of it (`OneChain` says there is none), or through a call that read
its row before the end (`LateIsKnown` says the end has marked that call). `StoredAsRecorded`
needs that no other upload or removal holds the document that is being stored.
`ChunkFollowsReview` says something only when nobody is at work; between, a review has a copy of
the row from before its UPDATE, which `Knows` keeps equal to the row in what `shouldSync` reads.
`NoFalseTheft` is about a token that is presented, which depends on what the browser will have
received by then: `RotationKnown` carries it over the time between the rotation and the answer.
`ReachIsFetched` needs the order of the queue, breadth first: a page popped at depth n has had
all nearer pages queued before it, so that no page is first met on a longer path than its
shortest, beyond `maxDepth` (`AtLevel`). `FeedComplete` needs that the rows of one millisecond
on either side of the cursor are told apart by their ids.

`CrawlReaches` relates the reach of a crawl, a recursive function (`Within`), to its steps. The
library's induction theorems take an operator as a parameter, so `Scraping_proofs` proves an
induction of its own, stated about a *set* of naturals (`NatSetInduction`, from `LeastNat`), and
from it that the function that the recursion defines exists (`Iteration`) and is `Within`.

What the attempts found. `PostedWhereShown` was not inductive, and not even true: a question
posted with strayed messages above starts a stream that shows them again after the user has
opened another chat in between. The run has two turns and this takes three, so it passed. Now
the page stays strayed while such a stream is under way (`StaysStrayed` in `ChatPage`); only
this history variable changed. What the list of datasets comes to rest with was part of
`WorkSettles`; as it is safety it is stated apart, as `RestShowsAll`, and proved.

The refinement. `ImplementsConversation` maps the initial state (an empty log), and every
step: the lemma on `TurnStep` splits it by await; the INSERT of the question is an
`AskQuestion` because by `Accounted` no message of a request exists before its "ask" is
over, the INSERT of the answer an `AnswerQuestion` because by `InOrder` the question is
stored and by `Accounted` no answer is, and all other steps leave the log alone.
`StoredMessagesConverse` instantiates `PromisesKept` through the refinement, so that the
promises hold of the implementation without a proof about its steps.

`DoneIsFinal` and `PostedWhereShown` are action properties; they are proved from the invariants
by cases on the next-state relation. `ProcessingHasWorker`, `RunningHasCrawler` and
`WarmRowsFresh` are stated in their modules and proved, and are in no run.

Assumptions: the named ASSUMEs of the modules. Bounds are natural numbers, a page of a list
holds a row; `Content` and `Near` have their types; the text of a transcript is not blank,
callers differ, the owner is a user; the seed of a crawl is a public page, and a page has
finitely many links; events are finitely many; a score of zero is below the threshold, and an
excerpt of a chunk is smaller than the budget of the prompt. Nothing is assumed of how many
requests, handlers, sessions, runs, drafts, documents or hashes there are.

Only model-checked: the liveness properties `QueuedSettles`, `PendingSettles`, `RunSettles`,
`DatasetSettles`, `Terminates`, `TurnEnds`, `ComposerFreed`, `WorkSettles` (fairness and ENABLED
are outside TLAPS); the full type invariants named in section 3; and the disagreements below,
which are counterexamples.

## 5. Disagreements with the documents

Two runs are violations: the code does something a document of the repository says
it does not. Each is quoted in `findings` with the line.

* The exact cache layer stores an old answer under a new version (`exact_stale`).
* "Load older messages" loads newer ones and shows them above (`older_messages`).

Others were met while modelling. The models behave as the code does, and the properties
exclude these cases by the condition given; no run is spent on them:

* during a Redis outage, semantic rows of version 1 are warm again, though
  `docs/ai/contracts/db-contracts.md:43` says a bump makes older rows cold immediately
  (`cache.service.ts:43`; `healthy`);
* an overlapping retry may insert the same chunks twice, though `db-contracts.md:39`
  says re-processing does not duplicate them (`vectorstore/index.ts:42`; chunks are compared
  by hash);
* a recrawl during an active ingest is ignored by Bull, though `risk-register.md:181` says it
  reuses ingest safely (`ingest.service.ts:46`; `UploadDoneIsIndexed` speaks of uploads);
* overlapping reviews may leave the chunk of a ticket judged not useful, though
  `risk-register.md:277` says that transition removes it (`tickets.service.ts:294`; `disturbed`);
* a crawl that outlives its job is failed by the event and completed afterwards, though
  `db-contracts.md:45` gives `queued -> running -> completed|failed`
  (`scrape.processor.ts:134`; `revived`);
* overlapping verifications of one code each open a workspace, though `db-contracts.md:34` says
  every user gets exactly one (`auth.service.ts:90`; `overlapped`), and two overlapping
  acceptances of one invitation may both pass the check of `acceptedAt`, though
  `db-contracts.md:36` calls its token single-use (`workspaces.service.ts:154`; `doubled`);
* a refresh or a login that has read its row before a password change and writes after it goes
  on with a live token, though `api-contracts.md:56` says the change forces re-login on every
  other device (`auth.service.ts:164`; `late`);
* a weekly job whose tick is run again after the job has completed is added again, since completed
  jobs free their ids, though `risk-register.md:325` says that a redeploy in mid-week cannot
  enqueue a freshness check twice (`freshness-tick.processor.ts:35-38`; a check that is run twice flags
  nothing twice, and for the digest, which is enqueued in the same way, `redone` names the case);
* downloads for a comparison of datasets are outside the `try`, though
  `risk-register.md:309` says every downloaded file is unlinked in `finally`
  (`structured-query.service.ts:200`; `spilled`).

Known consequences of the code that no document denies, and that no property forbids: a row
of `ingest` that reconciliation selected may be overwritten after it became done; a job that
used up its attempts is kept, so reconciliation always finds it and leaves its row; a ticket
reviewed as useful before its extraction is done is embedded by no later step; a
registration whose mail fails leaves an account that cannot be verified; two tabs that meet an
expired access token at the same time both refresh, and the later refresh may end every session
of the user; a logout that a refresh has outrun ends no session (`api-contracts.md:54` calls it a
no-op); the editor of tickets is overwritten by the poll while a user types; deleting the
last row of the last page leaves an empty page; the abandoned statement of a DuckDB query that
timed out goes on until its connection closes.

## 6. Assumptions and what is abstracted

* One API process. The deployment has one replica; two would add overlaps of boot
  reconciliation with live handlers.
* One SQL statement, or one transaction, is atomic; one that fails has had no effect. A
  Redis `add` may lose its reply after it was carried out. The process dies between calls,
  never inside one.
* Requests arrive after `onModuleInit` is over (`app.listen` follows it) in tickets and
  scrape; in `DocumentIngest` requests may also overlap reconciliation, which is a superset.
* Redis may lose all its jobs with a crash; eviction of the version key alone is
  not modelled (no compose file sets a limit or an eviction policy for it).
* In `DocumentIngest` storage objects are the `key` of the row; a load may fail at any time.
  `Workspaces` follows the objects.
* Event-log writes inside other handlers, metrics and logging are left out; their callers
  swallow the failures.
* The chunks of one object have different texts. `EMBED` calls are part of the statement
  they precede: their failure is the failure of the step.
* `SiteCrawl`: the three tries of one fetch are one fetch with an outcome; no other upload
  runs at the same time, since `startScrape` reads the quota once and concurrent growth
  is outside what it promises.
* `ChatTurn`: an answer costs one token, and so do all others; prompts and texts are data.
* `ActivityFeed`: one clock; the skew between the clocks of Postgres and the API
  (`events.service.ts:93`) is left out.
* React applies a state update before the next event; `useChat` is external and modelled from
  the callbacks the page gives it. A filter change on a later page loads twice, as it does there.

## 7. Not modelled

Adapters without state (notifications), pure functions (loaders, chunking, embeddings, Markdown,
prompts), layout and animation. Renaming a workspace and the name of a knowledge base: one
UPDATE or INSERT of a text nothing depends on. Topic gaps: a weekly run like the three of
`Insights` that writes one report. The coverage dashboard: one SELECT. The pages of
insights, settings, members and workspaces, which post a form and reload without polling.
DuckDB, Bull, `useChat` and the model API are external. The row of each in `components`
says why.

## 8. Plan

Done, in this order: `ChatCache`, `BullJob`, `DocumentIngest`, `TicketLifecycle`,
`ScrapeRuns`, `SiteCrawl`; then `ChatTurn` with `Conversation` and their refinement,
`Retrieval`, `Datasets`, `Accounts`, `Workspaces` and the proofs of both, `Insights`, and the
pages; then the proofs of every other safety property the runs check.

Next, proofs:

1. the type invariants that are only model-checked: `Retrieval`, `Insights`, `Datasets`, `ChatPage`;
2. the safety half of the liveness properties: what is open has a job, a handler or a
   reconciliation to come, from which fairness settles it;
3. one abstract job of Bull (added, owned by one handler, given up, settled) that the queues of
   `DocumentIngest`, `TicketLifecycle`, `ScrapeRuns` and `Datasets` implement, so that the lock
   invariants are stated once.
