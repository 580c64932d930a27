----------------------------- MODULE SiteCrawl -----------------------------
(***************************************************************************)
(* One crawl: crawlSite with crawlPage running concurrently over each      *)
(* frontier, the onPage callback of ScrapeProcessor.handleScrape, and the  *)
(* clamp of maxPages by the document quota in startScrape.                 *)
(*                                                                         *)
(* A page is its canonical URL; a link of a page is an href, of which      *)
(* several may canonicalise to one page. The three tries of fetchWithRetry *)
(* are one fetch with an outcome. The run's own row is in ScrapeRuns.      *)
(***************************************************************************)
EXTENDS Naturals, Sequences, FiniteSets

CONSTANTS
  Page,         \* canonical URLs
  Href, NoUrl,
  Canonical,    \* canonicalizeUrl of each href, NoUrl where it throws
  Outside,      \* pages out of the scope of origin, prefixes and excluded directories
  Seed,
  Sites,        \* what the pages of the site may link to
  Disallowed,   \* pages robots.txt disallows
  Private,      \* pages assertPublicUrl rejects
  MaxDepth,
  Concurrency,  \* concurrency of the limiter
  Wanted,       \* maxPages of the request, or its default
  Cap,          \* MAX_DOCS_PER_WORKSPACE
  CrawlMayFail  \* whether fetches, storage and statements may fail

ASSUME CrawlBounds ==
  /\ Seed \in Page /\ Seed \notin Private
  /\ NoUrl \notin Page /\ Canonical \in [Href -> Page \cup {NoUrl}]
  /\ Sites \subseteq [Page -> {H \in SUBSET Href : IsFiniteSet(H)}]
  /\ MaxDepth \in Nat /\ Concurrency \in Nat \ {0}
  /\ Wanted \in Nat \ {0} /\ Cap \in Nat \ {0}
  /\ CrawlMayFail \in BOOLEAN

VARIABLES
  links,     \* the site
  robots,    \* whether robots.txt could be read; if not, all is allowed
  maxPages,  \* after the quota
  queue, queued, visited,   \* crawlSite: queue, queued, visited
  tasks,     \* the frontier's crawlPage calls, in order
  results,   \* results.length
  over,      \* crawlSite has returned
  found, succeeded, failed, \* handleScrape: pagesFound, pagesSucceeded, pagesFailed
  docs,      \* documents of the workspace
  fetches,   \* history: fetches of each page
  limited,   \* history: maxPages dropped a link, cut a frontier short or ended the crawl
  skipped,   \* history: a page was not fetched or not html
  unwritten  \* history: an UPDATE of the run's counters failed

crawlVars == <<links, robots, maxPages, queue, queued, visited, tasks, results, over, found,
          succeeded, failed, docs, fetches, limited, skipped, unwritten>>

Entry == [url : Page, depth : 0 .. MaxDepth]

Stage == {"waiting", "check", "fetch", "announce", "store", "count", "countFailed",
          "page", "null"}

Task == [url : Page, depth : 0 .. MaxDepth, stage : Stage]

Settled == {"page", "null"}
ActiveOrSettled == Stage \ {"waiting"}

Active  == Stage \ (Settled \cup {"waiting"})

Lower(m, n) == IF m <= n THEN m ELSE n

(* startScrape refuses the request when no quota is left. *)
ClampedPages(count) == Lower(Wanted, Cap - count)

CrawlTypeOK ==
  /\ links \in Sites
  /\ maxPages \in 1 .. Wanted
  /\ queue \in Seq(Entry) /\ Len(queue) <= maxPages
  /\ queued \subseteq Page /\ visited \subseteq queued
  /\ tasks \in Seq(Task) /\ Len(tasks) <= maxPages
  /\ results \in 0 .. maxPages
  /\ {robots, over, limited, skipped, unwritten} \subseteq BOOLEAN
  /\ found \in Nat
  /\ succeeded \in 0 .. found /\ failed \in 0 .. found
  /\ docs \in Nat
  /\ fetches \in [Page -> Nat]

(* An error status counts as an empty file, a failed request as none.         *)
LoadRobots == robots \in IF CrawlMayFail THEN BOOLEAN ELSE {TRUE}

CrawlInit ==
  /\ links \in Sites /\ LoadRobots
  /\ docs \in 0 .. (Cap - 1)
  /\ maxPages = ClampedPages(docs)
  /\ queue = <<[url |-> Seed, depth |-> 0]>>
  /\ queued = {Seed} /\ visited = {}
  /\ tasks = <<>>
  /\ results = 0 /\ over = FALSE
  /\ found = 0 /\ succeeded = 0 /\ failed = 0
  /\ fetches = [p \in Page |-> 0]
  /\ limited = FALSE /\ skipped = FALSE /\ unwritten = FALSE

site == <<links, robots>>
counters == <<found, succeeded, failed>>
history  == <<fetches, limited, skipped, unwritten>>

-----------------------------------------------------------------------------
(* crawlSite *)

FrontierSize == Lower(Len(queue), maxPages - results)

(* The next frontier is taken off the queue, or the crawl is over. *)
TakeFrontier ==
  /\ ~over /\ tasks = <<>>
  /\ queue # <<>> /\ results < maxPages
  /\ LET n == FrontierSize
     IN  /\ tasks' = [i \in 1 .. n |-> [url |-> queue[i].url, depth |-> queue[i].depth,
                                        stage |-> "waiting"]]
         /\ queue' = SubSeq(queue, n + 1, Len(queue))
         /\ limited' = (limited \/ n < Len(queue))
  /\ UNCHANGED <<site, maxPages, queued, visited, results, over, counters, docs,
                 fetches, skipped, unwritten>>

Finish ==
  /\ ~over /\ tasks = <<>>
  /\ queue = <<>> \/ results >= maxPages
  /\ over' = TRUE
  /\ limited' = (limited \/ queue # <<>>)
  /\ UNCHANGED <<site, maxPages, queue, queued, visited, tasks, results, counters,
                 docs, fetches, skipped, unwritten>>

(* Promise.all of the frontier is settled: its pages are added to the results. *)
EndFrontier ==
  /\ tasks # <<>> /\ \A i \in DOMAIN tasks : tasks[i].stage \in Settled
  /\ results' = results + Cardinality({i \in DOMAIN tasks : tasks[i].stage = "page"})
  /\ tasks' = <<>>
  /\ UNCHANGED <<site, maxPages, queue, queued, visited, over, counters, docs,
                 history>>

-----------------------------------------------------------------------------
(* crawlPage *)

MoveTo(i, stage) == tasks' = [tasks EXCEPT ![i].stage = stage]

At(i, stage) == i \in DOMAIN tasks /\ tasks[i].stage = stage

(* The limiter starts the calls in order. Up to the await of assertPublicUrl. *)
Begin(i) ==
  /\ At(i, "waiting") /\ \A j \in 1 .. (i - 1) : tasks[j].stage # "waiting"
  /\ Cardinality({j \in DOMAIN tasks : tasks[j].stage \in Active}) < Concurrency
  /\ LET url == tasks[i].url
     IN  IF url \in visited \cup Outside
           THEN MoveTo(i, "null") /\ visited' = visited
           ELSE IF robots /\ url \in Disallowed
                  THEN MoveTo(i, "null") /\ visited' = visited \cup {url}
                  ELSE MoveTo(i, "check") /\ visited' = visited
  /\ UNCHANGED <<site, maxPages, queue, queued, results, over, counters, docs, history>>

(* assertPublicUrl lets the page be fetched, or throws, for a private address   *)
(* or a failed lookup, and crawlSite makes the call null.                      *)
Check(i) ==
  /\ At(i, "check")
  /\ \/ /\ tasks[i].url \notin Private
        /\ MoveTo(i, "fetch")
        /\ visited' = visited \cup {tasks[i].url}
        /\ fetches' = [fetches EXCEPT ![tasks[i].url] = @ + 1]
        /\ skipped' = skipped
     \/ /\ tasks[i].url \in Private \/ CrawlMayFail
        /\ MoveTo(i, "null")
        /\ skipped' = (skipped \/ tasks[i].url \notin Private)
        /\ UNCHANGED <<visited, fetches>>
  /\ UNCHANGED <<site, maxPages, queue, queued, results, over, counters, docs,
                 limited, unwritten>>

(* No answer in three tries, an error status, or not html. *)
Skip(i) ==
  /\ CrawlMayFail /\ At(i, "fetch")
  /\ MoveTo(i, "null")
  /\ skipped' = TRUE
  /\ UNCHANGED <<site, maxPages, queue, queued, visited, results, over, counters,
                 docs, fetches, limited, unwritten>>

(* canonicalizeUrl throws for an href that is no http or https URL.           *)
Links(url) == {Canonical[href] : href \in links[url]} \ {NoUrl}

InScope(urls) == urls \ Outside

NewLinks(url) == InScope(Links(url)) \ (visited \cup queued)

(* Room in the queue, with results.length as the frontier found it. *)
Room == IF Len(queue) + results >= maxPages THEN 0 ELSE maxPages - (Len(queue) + results)

Arrangements(S, n) ==
  {s \in [1 .. n -> S] : \A j, k \in 1 .. n : s[j] = s[k] => j = k}

FollowsOneLess(depth) == depth + 1 < MaxDepth

Follows(depth) == depth < MaxDepth

(* extractContent: Readability's text, or the whole body's; may be too short. *)
Extract(i) ==
  \/ MoveTo(i, "null") /\ found' = found
  \/ MoveTo(i, "announce") /\ found' = found + 1

(* The page is html: its links are queued, in the order of the page and as     *)
(* many as there is room for, before its text is looked at. A thin page is not *)
(* a result.                                                                   *)
Parse(i) ==
  /\ At(i, "fetch")
  /\ LET url   == tasks[i].url
         depth == tasks[i].depth
         new   == IF Follows(depth) THEN NewLinks(url) ELSE {}
         n     == Lower(Cardinality(new), Room)
     IN  /\ \E pushed \in Arrangements(new, n) :
              /\ queue' = queue \o [k \in 1 .. n |-> [url |-> pushed[k], depth |-> depth + 1]]
              /\ queued' = queued \cup {pushed[k] : k \in 1 .. n}
         /\ limited' = (limited \/ n < Cardinality(new))
  /\ Extract(i)
  /\ UNCHANGED <<site, maxPages, visited, results, over, succeeded, failed, docs,
                 fetches, skipped, unwritten>>

-----------------------------------------------------------------------------
(* onPage of handleScrape *)

(* The UPDATE of pagesFound is outside the try block: when it fails the page   *)
(* is dropped.                                                                *)
Announce(i) ==
  /\ At(i, "announce")
  /\ \/ MoveTo(i, "store") /\ unwritten' = unwritten
     \/ CrawlMayFail /\ MoveTo(i, "null") /\ unwritten' = TRUE
  /\ UNCHANGED <<site, maxPages, queue, queued, visited, results, over, counters,
                 docs, fetches, limited, skipped>>

(* The text is saved, the document of this URL inserted or updated, and queued. *)
Store(i) ==
  /\ At(i, "store")
  /\ docs' \in {docs, docs + 1}
  /\ succeeded' = succeeded + 1
  /\ MoveTo(i, "count")
  /\ UNCHANGED <<site, maxPages, queue, queued, visited, results, over, found,
                 failed, history>>

StoreFailsCountedBoth(i) ==
  /\ CrawlMayFail /\ At(i, "store")
  /\ docs' \in {docs, docs + 1}
  /\ succeeded' = succeeded + 1
  /\ failed' = failed + 1
  /\ MoveTo(i, "countFailed")
  /\ UNCHANGED <<site, maxPages, queue, queued, visited, results, over, found, history>>

(* One of these failed; the document may be there already. *)
StoreFails(i) ==
  /\ CrawlMayFail /\ At(i, "store")
  /\ docs' \in {docs, docs + 1}
  /\ failed' = failed + 1
  /\ MoveTo(i, "countFailed")
  /\ UNCHANGED <<site, maxPages, queue, queued, visited, results, over, found,
                 succeeded, history>>

(* The UPDATE of the counters; its failure is caught and counted as a failed   *)
(* page, which has been counted as a success.                                 *)
Count(i) ==
  /\ At(i, "count")
  /\ \/ MoveTo(i, "page") /\ UNCHANGED <<failed, unwritten>>
     \/ /\ CrawlMayFail
        /\ MoveTo(i, "countFailed") /\ failed' = failed + 1 /\ unwritten' = TRUE
  /\ UNCHANGED <<site, maxPages, queue, queued, visited, results, over, found,
                 succeeded, docs, fetches, limited, skipped>>

(* The UPDATE in the catch block; when it fails too onPage rejects. *)
CountFailed(i) ==
  /\ At(i, "countFailed")
  /\ \/ MoveTo(i, "page") /\ unwritten' = unwritten
     \/ CrawlMayFail /\ MoveTo(i, "null") /\ unwritten' = TRUE
  /\ UNCHANGED <<site, maxPages, queue, queued, visited, results, over, counters,
                 docs, fetches, limited, skipped>>

CrawlPage(i) ==
  \/ Begin(i) \/ Check(i) \/ Skip(i) \/ Parse(i) \/ Announce(i)
  \/ Store(i) \/ StoreFails(i) \/ Count(i) \/ CountFailed(i)

-----------------------------------------------------------------------------
CrawlNext ==
  \/ TakeFrontier \/ Finish \/ EndFrontier
  \/ \E i \in DOMAIN tasks : CrawlPage(i)

CrawlSpec == CrawlInit /\ [][CrawlNext]_crawlVars

(* A fetch has a timeout of timeoutMs; the calls of onPage are taken to return *)
(* or reject.                                                                 *)
FairCrawlSpec == CrawlSpec /\ WF_crawlVars(CrawlNext)

-----------------------------------------------------------------------------
(* Properties *)

(* Reference definition: pages within n links of the seed, through pages that  *)
(* the crawler may open.                                                      *)
Opened == Page \ (Outside \cup Private \cup (IF robots THEN Disallowed ELSE {}))

Within[n \in Nat] ==
  IF n = 0 THEN {Seed}
  ELSE Within[n - 1] \cup UNION {Links(p) : p \in Within[n - 1] \cap Opened}

Reach == Within[MaxDepth] \cap Opened

(* Whatever order the calls run in, nothing is fetched beyond maxDepth, out of *)
(* scope, or that robots.txt or the address check excludes; and a crawl that   *)
(* maxPages did not limit and that no page failed has fetched all the rest: no *)
(* interleaving gives a page a depth at which its links would be lost. A page  *)
(* reached from several pages, or by several calls at once, is fetched once:   *)
(* "visited" is only written after an await, "queued" before it.               *)
ReachIsFetched ==
  /\ \A p \in Reach : fetches[p] <= 1
  /\ \A p \in Page \ Reach : fetches[p] = 0
  /\ over /\ ~limited /\ ~skipped => \A p \in Reach : fetches[p] > 0

(* What the run's row says at the end adds up: every page found was stored or  *)
(* failed and is a result, and the workspace is within its document quota;     *)
(* unless an UPDATE's failure kept a stored page from being a result.          *)
PagesAddUp ==
  ~unwritten => docs <= Cap /\ (over => found = succeeded + failed /\ results = found)

(* The crawl ends, on a site with cycles too. *)
Terminates == <>over
=============================================================================
