-------------------------- MODULE WebPages_proofs --------------------------
(***************************************************************************)
(* Proofs about the pages of WebPages, for every number of rows, requests, *)
(* handlers and events. The pages share no state, so that each has an      *)
(* invariant of its own, which the steps of the others leave alone.        *)
(***************************************************************************)
EXTENDS WebPages, SequenceTheorems, FiniteSetTheorems, WellFoundedInduction, TLAPS

-----------------------------------------------------------------------------
(* The search box *)

(* A request that was not aborted is one for the text in the box.             *)
SearchInv ==
  /\ asked \subseteq [text : Finder!Entry, live : BOOLEAN]
  /\ \A r \in asked : r.live => r.text = text
  /\ text \in Finder!Entry
  /\ FoundForText

LEMMA SearchStarts == Finder!Init => SearchInv
  BY DEF Finder!Init, SearchInv, FoundForText, Finder!FoundForText, Finder!Entry

LEMMA SearchSteps ==
  ASSUME SearchInv, Finder!Next
  PROVE  SearchInv'
  <1> USE DEF SearchInv, FoundForText, Finder!FoundForText
  <1>0. /\ Finder!Aborted \subseteq [text : Finder!Entry, live : BOOLEAN]
        /\ \A r \in Finder!Aborted : ~r.live
    BY DEF Finder!Aborted
  <1>1. CASE Finder!Open
    BY <1>0, <1>1 DEF Finder!Open, Finder!Search
  <1>2. CASE Finder!Close
    BY <1>0, <1>2 DEF Finder!Close
  <1>3. CASE Finder!SearchWorkspace
    <2>1. /\ asked' = asked \cup {[text |-> text, live |-> TRUE]}
          /\ UNCHANGED <<text, status, found>>
      BY <1>3, Zenon DEF Finder!SearchWorkspace
    <2>2. [text |-> text, live |-> TRUE] \in [text : Finder!Entry, live : BOOLEAN]
      OBVIOUS
    <2>3. \A r \in asked' : r.live => r.text = text
      BY <2>1
    <2>4. asked' \subseteq [text : Finder!Entry, live : BOOLEAN]
      BY <2>1, <2>2
    <2> QED
      BY <2>1, <2>3, <2>4
  <1>4. CASE \E t \in Finder!Entry : Finder!Type(t)
    BY <1>0, <1>4 DEF Finder!Type, Finder!Search
  <1>5. CASE \E r \in asked : Finder!Answer(r) \/ Finder!Fail(r)
    BY <1>5 DEF Finder!Answer, Finder!Fail
  <1> QED
    BY <1>1, <1>2, <1>3, <1>4, <1>5 DEF Finder!Next

LEMMA SearchStays == SearchInv /\ UNCHANGED searchVars => SearchInv'
  BY DEF SearchInv, searchVars, FoundForText, Finder!FoundForText

(* What a step of the tab is to the search box.                               *)
LEMMA SearchAlone ==
  ASSUME [Next]_vars
  PROVE  Finder!Next \/ UNCHANGED searchVars
  BY DEF Next, vars, AtChat, AtDocuments, AtRuns, AtTickets, AtDatasets, AtSearch, AtComposer, AtFeed

(* What is found is what the text in the box asks for (the AbortController).   *)
THEOREM FoundIsAsked == Spec => []FoundForText
  <1>1. Init => SearchInv
    BY SearchStarts DEF Init
  <1>2. SearchInv /\ [Next]_vars => SearchInv'
    BY SearchSteps, SearchStays, SearchAlone
  <1>3. SearchInv => FoundForText
    BY DEF SearchInv
  <1> QED
    BY <1>1, <1>2, <1>3, PTL DEF Spec
-----------------------------------------------------------------------------
(* The composer *)

Wording == [phrase : Phrase \cup {"nothing"}, refined : Nat]
Pairs == [original : Wording, refined : Wording]

(* A pair that may be saved is a text and its own refinement.                 *)
IsRefinement(m) == Composer!Valid(m) => m.refined = Composer!Refined(m.original)

ComposerInv ==
  /\ input \in Wording
  /\ refine \in [original : Wording, result : Wording,
                 state : {"idle", "asked", "counted", "answered", "failed", "shown"}]
  /\ refine.state = "answered" =>
       refine.result \in {Composer!Refined(refine.original), Composer!Blank}
  /\ IsRefinement(lastRefine)
  /\ lastRefine \in Pairs /\ saving \subseteq Pairs /\ saved \subseteq Pairs
  /\ \A m \in saving : IsRefinement(m)
  /\ SavedAsRefined

LEMMA WordingClosed ==
  /\ Composer!Blank \in Wording /\ Composer!Entry \subseteq Wording
  /\ \A t \in Wording : Composer!Refined(t) \in Wording
  /\ Composer!Blank # Composer!Refined(Composer!Blank)
  /\ \A o, r \in Wording :
       /\ Composer!Pair(o, r) \in Pairs
       /\ Composer!Pair(o, r).original = o /\ Composer!Pair(o, r).refined = r
  BY DEF Wording, Pairs, Composer!Blank, Composer!Entry, Composer!Entered, Composer!Refined,
         Composer!Pair

LEMMA NoPairIsNone == IsRefinement(Composer!NoPair)
  BY WordingClosed DEF IsRefinement, Composer!Valid, Composer!NoPair

LEMMA ComposerStarts == Composer!Init => ComposerInv
  BY WordingClosed, NoPairIsNone
     DEF Composer!Init, ComposerInv, Composer!Idle, Composer!NoPair, SavedAsRefined,
         Composer!SavedAsRefined

(* An edit of the box, which may also forget the last refinement.             *)
LEMMA BoxStep ==
  ASSUME ComposerInv, input' \in Wording, lastRefine' \in {lastRefine, Composer!NoPair},
         UNCHANGED <<refine, saved, saving>>
  PROVE  ComposerInv'
  <1>1. Composer!NoPair \in Pairs
    BY WordingClosed DEF Composer!NoPair
  <1> QED
    BY <1>1, NoPairIsNone DEF ComposerInv, IsRefinement, SavedAsRefined, Composer!SavedAsRefined

(* A step of the request of handleRefine.                                     *)
LEMMA RefineStep ==
  ASSUME ComposerInv, UNCHANGED <<saved, saving>>, input' \in Wording,
         lastRefine' \in Pairs, IsRefinement(lastRefine'),
         refine' \in [original : Wording, result : Wording,
                     state : {"idle", "asked", "counted", "answered", "failed", "shown"}],
         refine'.state = "answered" =>
           refine'.result \in {Composer!Refined(refine'.original), Composer!Blank}
  PROVE  ComposerInv'
  BY DEF ComposerInv, IsRefinement, SavedAsRefined, Composer!SavedAsRefined

LEMMA ComposerSteps ==
  ASSUME ComposerInv, Composer!Next
  PROVE  ComposerInv'
  <1> USE DEF Composer!quota, Composer!reuse
  <1>1. ASSUME NEW t \in Wording, Composer!SetInput(t) PROVE ComposerInv'
    BY <1>1, BoxStep DEF Composer!SetInput
  <1>2. CASE \/ Composer!ApplyTemplate \/ Composer!SuggestedPrompt \/ Composer!StartNewChat
             \/ Composer!ApplySavedMessage
    <2>1. \A m \in saved : m.refined \in Wording
      BY DEF ComposerInv, Pairs
    <2> QED
      BY <1>1, <1>2, <2>1, WordingClosed
         DEF Composer!ApplyTemplate, Composer!SuggestedPrompt, Composer!StartNewChat,
             Composer!ApplySavedMessage, Composer!ListSavedRefinedMessages
  <1>3. CASE \E t \in Composer!Entry \cup {Composer!Blank} : Composer!Type(t)
    BY <1>3, BoxStep, WordingClosed DEF Composer!Type
  <1>4. CASE Composer!Send \/ Composer!Answered
    BY <1>4, BoxStep, WordingClosed DEF Composer!Send, Composer!Answered, ComposerInv
  <1>5. CASE Composer!HandleRefine
    <2>1. /\ refine' = [original |-> input, state |-> "asked", result |-> Composer!Blank]
          /\ UNCHANGED <<input, lastRefine, saved, saving>>
      BY <1>5 DEF Composer!HandleRefine, Composer!Asked
    <2> QED
      BY <2>1, RefineStep, WordingClosed DEF ComposerInv
  <1>6. CASE Composer!CheckRefineDaily
    <2>1. \E s \in {"failed", "counted"} : refine' = [refine EXCEPT !.state = s]
      BY <1>6 DEF Composer!CheckRefineDaily, Composer!Refused, Composer!Goto
    <2>2. UNCHANGED <<input, lastRefine, saved, saving>>
      BY <1>6 DEF Composer!CheckRefineDaily
    <2> QED
      BY <2>1, <2>2, RefineStep DEF ComposerInv
  <1>7. CASE Composer!RefineMessage
    <2>1. UNCHANGED <<input, lastRefine, saved, saving>>
      BY <1>7 DEF Composer!RefineMessage
    <2>2. CASE Composer!Refused
      BY <2>1, <2>2, RefineStep DEF ComposerInv, Composer!Refused, Composer!Goto
    <2>3. ASSUME NEW result \in {Composer!Refined(refine.original), Composer!Blank},
                 refine' = [refine EXCEPT !.state = "answered", !.result = result]
          PROVE  ComposerInv'
      <3>1. result \in Wording
        BY WordingClosed DEF ComposerInv
      <3> QED
        BY <2>1, <2>3, <3>1, RefineStep DEF ComposerInv
    <2> QED
      BY <1>7, <2>2, <2>3 DEF Composer!RefineMessage
  <1>8. CASE Composer!ShowRefined
    <2>1. /\ refine.state = "answered"
          /\ refine' = [original |-> Composer!Blank, state |-> "shown", result |-> Composer!Blank]
          /\ lastRefine' = Composer!Pair(refine.original, refine.result)
          /\ input' = refine.result
          /\ UNCHANGED <<saved, saving>>
      BY <1>8 DEF Composer!ShowRefined, Composer!At, Composer!Idle
    <2>2. refine.original \in Wording /\ refine.result \in Wording
      BY DEF ComposerInv
    <2>3. lastRefine' \in Pairs /\ IsRefinement(lastRefine')
      BY <2>1, <2>2, WordingClosed DEF ComposerInv, IsRefinement, Composer!Valid
    <2> QED
      BY <2>1, <2>2, <2>3, RefineStep, WordingClosed
  <1>9. CASE Composer!RefineFails
    BY <1>9, RefineStep, WordingClosed DEF Composer!RefineFails, Composer!Idle, ComposerInv
  <1>10. CASE Composer!UndoRefine
    <2>1. lastRefine.original \in Wording
      BY DEF ComposerInv, Pairs
    <2> QED
      BY <1>10, <2>1, BoxStep DEF Composer!UndoRefine
  <1>11. CASE Composer!NextDay \/ \E s \in statuses : Composer!GetRefineStatus(s)
    BY <1>11, BoxStep DEF Composer!NextDay, Composer!GetRefineStatus, ComposerInv
  <1>12. ASSUME NEW s \in statuses, Composer!RefreshRefineStatus(s) PROVE ComposerInv'
    <2>1. refine' = refine \/ refine' = Composer!Idle
      BY <1>12 DEF Composer!RefreshRefineStatus
    <2>2. UNCHANGED <<input, lastRefine, saved, saving>>
      BY <1>12 DEF Composer!RefreshRefineStatus
    <2> QED
      BY <2>1, <2>2, RefineStep, WordingClosed DEF ComposerInv, Composer!Idle
  <1>13. CASE Composer!SaveRefined
    BY <1>13 DEF Composer!SaveRefined, ComposerInv, IsRefinement, SavedAsRefined,
                 Composer!SavedAsRefined
  <1>14. ASSUME NEW m \in saving, Composer!SaveRefinedMessage(m) PROVE ComposerInv'
    <2>1. \/ Composer!Valid(m) /\ saved' = saved \cup {m}
          \/ saved' = saved
      BY <1>14 DEF Composer!SaveRefinedMessage
    <2>2. saving' = saving \ {m} /\ UNCHANGED <<input, refine, lastRefine>>
      BY <1>14 DEF Composer!SaveRefinedMessage
    <2> QED
      BY <2>1, <2>2 DEF ComposerInv, IsRefinement, SavedAsRefined, Composer!SavedAsRefined
  <1> QED
    BY <1>2, <1>3, <1>4, <1>5, <1>6, <1>7, <1>8, <1>9, <1>10, <1>11, <1>12, <1>13, <1>14
       DEF Composer!Next

LEMMA ComposerStays == ComposerInv /\ UNCHANGED composerVars => ComposerInv'
  BY DEF ComposerInv, composerVars, IsRefinement, SavedAsRefined, Composer!SavedAsRefined

LEMMA ComposerAlone ==
  ASSUME [Next]_vars
  PROVE  Composer!Next \/ UNCHANGED composerVars
  BY DEF Next, vars, AtChat, AtDocuments, AtRuns, AtTickets, AtDatasets, AtSearch, AtComposer, AtFeed

(* Every saved message is a text with the model's refinement of that text,     *)
(* whatever happened to the box while the model worked (handleRefine).         *)
THEOREM SavedAreRefined == Spec => []SavedAsRefined
  <1>1. Init => ComposerInv
    BY ComposerStarts DEF Init
  <1>2. ComposerInv /\ [Next]_vars => ComposerInv'
    BY ComposerSteps, ComposerStays, ComposerAlone
  <1>3. ComposerInv => SavedAsRefined
    BY DEF ComposerInv
  <1> QED
    BY <1>1, <1>2, <1>3, PTL DEF Spec

-----------------------------------------------------------------------------
(* Sequences of rows, and bags of requests *)

(* A sequence, of whatever it holds. *)
IsSeq(s) == \E S : s \in Seq(S)

LEMMA SameCounts == \A S : Documents!Cardinality(S) = Cardinality(S)
  BY DEF Documents!Cardinality, Cardinality

LEMMA FunctionIsSeq ==
  ASSUME NEW n \in Nat, NEW g, g = [k \in 1 .. n |-> g[k]]
  PROVE  IsSeq(g) /\ Len(g) = n
  <1>1. g \in [1 .. n -> {g[k] : k \in 1 .. n}]
    OBVIOUS
  <1>2. g \in Seq({g[k] : k \in 1 .. n})
    BY <1>1, SeqDef
  <1>3. Len(g) \in Nat /\ 1 .. Len(g) = 1 .. n
    BY <1>1, <1>2, LenProperties
  <1>4. Len(g) = n
    BY <1>3
  <1> QED
    BY <1>2, <1>4, Zenon DEF IsSeq

LEMMA PlacesCounted ==
  ASSUME NEW s, IsSeq(s), NEW I \in SUBSET DOMAIN s
  PROVE  Cardinality(I) \in Nat
  <1>1. Len(s) \in Nat /\ DOMAIN s = 1 .. Len(s)
    BY LenProperties, Zenon DEF IsSeq
  <1>2. IsFiniteSet(1 .. Len(s)) 
    BY <1>1, FS_Interval
  <1>3. IsFiniteSet(I)
    BY <1>1, <1>2, FS_Subset, Zenon
  <1> QED
    BY <1>3, FS_CardinalityType

LEMMA KeptIsSeq ==
  ASSUME NEW s, IsSeq(s), NEW I \in SUBSET DOMAIN s
  PROVE  IsSeq(Documents!Kept(s, I))
  <1> DEFINE g == Documents!Kept(s, I)
  <1>1. Cardinality(I) \in Nat
    BY PlacesCounted
  <1>2. g = [k \in 1 .. Documents!Cardinality(I) |-> s[Documents!Place(I, k)]]
    BY DEF Documents!Kept
  <1>3. g = [k \in 1 .. Cardinality(I) |-> g[k]]
    <2> HIDE DEF g
    <2> QED
      BY <1>2, SameCounts
  <1> HIDE DEF g
  <1> QED
    BY <1>1, <1>3, FunctionIsSeq DEF g

LEMMA PageIsSeq ==
  ASSUME NEW s, IsSeq(s), NEW q, q.page \in Nat
  PROVE  IsSeq(Documents!PageOf(s, q))
  <1> DEFINE rows == Documents!Matching(s, q.filter)
             m == (q.page - 1) * RowsPerPage
             n == IF m + RowsPerPage < Len(rows) THEN m + RowsPerPage ELSE Len(rows)
  <1>1. Len(rows) \in Nat
    BY KeptIsSeq, LenProperties DEF IsSeq, Documents!Matching
  <1>2. m + 1 \in Int /\ n \in Int
    <2>1. RowsPerPage \in Int
      BY PagingBounds
    <2>2. (q.page - 1) * RowsPerPage \in Int
      BY <2>1
    <2> HIDE DEF rows
    <2> QED
      BY <1>1, <2>1, <2>2
  <1>3. Documents!PageOf(s, q) = SubSeq(rows, m + 1, n)
    BY DEF Documents!PageOf
  <1> HIDE DEF rows, m, n
  <1>4. SubSeq(rows, m + 1, n) \in Seq({rows[i] : i \in m + 1 .. n})
    BY <1>2, SubSeqProperties
  <1> QED
    BY <1>3, <1>4 DEF IsSeq

LEMMA BagOps ==
  ASSUME NEW b, NEW x
  PROVE /\ DOMAIN Documents!BagExt!BagAdd(b, x) = DOMAIN b \cup {x}
        /\ DOMAIN Documents!BagExt!BagRemove(b, x) \subseteq DOMAIN b
        /\ Documents!Bag!BagToSet(b) = DOMAIN b
        /\ DOMAIN Documents!Bag!EmptyBag = {}
  BY DEF Documents!BagExt!BagAdd, Documents!BagExt!BagRemove, Documents!Bag!BagToSet,
         Documents!Bag!EmptyBag, Documents!Bag!SetToBag

-----------------------------------------------------------------------------
(* A list and its requests *)

(* Every answer brings a sequence of rows. *)
AnswerOK(r) ==
  /\ DOMAIN r = {"query", "served", "rows", "pages"}
  /\ r.query.page \in Nat /\ IsSeq(r.rows)

ListOK(l) ==
  /\ DOMAIN l = {"filter", "page", "rows", "pages", "busy", "asked"}
  /\ l.page \in Nat /\ IsSeq(l.rows)
  /\ \A r \in DOMAIN l.asked : AnswerOK(r)

LEMMA EmptyIsSeq == IsSeq(<<>>)
  <1>1. <<>> \in Seq({})
    OBVIOUS
  <1> QED
    BY <1>1 DEF IsSeq

LEMMA AskKeeps ==
  ASSUME NEW l, ListOK(l), NEW q, q.page \in Nat
  PROVE  ListOK(Documents!Ask(l, q)) /\ Documents!Ask(l, q).rows = l.rows
  <1>1. AnswerOK(Documents!Request(q))
    BY EmptyIsSeq DEF AnswerOK, Documents!Request
  <1>2. Documents!Ask(l, q) =
          [l EXCEPT !.busy = TRUE, !.asked = Documents!BagExt!BagAdd(@, Documents!Request(q))]
    BY DEF Documents!Ask
  <1>3. DOMAIN Documents!BagExt!BagAdd(l.asked, Documents!Request(q))
          = DOMAIN l.asked \cup {Documents!Request(q)}
    BY BagOps
  <1> QED
    BY <1>1, <1>2, <1>3 DEF ListOK

LEMMA ServedKeeps ==
  ASSUME NEW l, ListOK(l), NEW r \in DOMAIN l.asked, NEW t, IsSeq(t)
  PROVE  ListOK(Documents!Served(l, r, t)) /\ Documents!Served(l, r, t).rows = l.rows
  <1> DEFINE a == Documents!Answer(r, t)
             b == Documents!BagExt!BagAdd(Documents!BagExt!BagRemove(l.asked, r), a)
  <1>1. AnswerOK(a)
    <2>1. a = [r EXCEPT !.served = TRUE, !.rows = Documents!PageOf(t, r.query),
                        !.pages = Documents!TotalPages(t, r.query)]
      BY DEF Documents!Answer
    <2>2. AnswerOK(r)
      BY DEF ListOK
    <2>3. IsSeq(Documents!PageOf(t, r.query))
      BY <2>2, PageIsSeq DEF AnswerOK
    <2> HIDE DEF a
    <2> QED
      BY <2>1, <2>2, <2>3 DEF AnswerOK
  <1>2. DOMAIN b \subseteq DOMAIN l.asked \cup {a}
    <2> DEFINE c == Documents!BagExt!BagRemove(l.asked, r)
    <2>1. DOMAIN c \subseteq DOMAIN l.asked
      BY BagOps
    <2> HIDE DEF a, c
    <2>2. DOMAIN Documents!BagExt!BagAdd(c, a) = DOMAIN c \cup {a}
      BY BagOps
    <2> QED
      BY <2>1, <2>2 DEF c
  <1>3. Documents!Served(l, r, t) = [l EXCEPT !.asked = b]
    BY DEF Documents!Served
  <1> HIDE DEF a, b
  <1> QED
    BY <1>1, <1>2, <1>3 DEF ListOK

LEMMA AppliedKeeps ==
  ASSUME NEW l, ListOK(l), NEW r \in DOMAIN l.asked
  PROVE  /\ ListOK(Documents!Applied(l, r)) /\ Documents!Applied(l, r).rows = r.rows
         /\ ListOK(Documents!Dropped(l, r)) /\ Documents!Dropped(l, r).rows = l.rows
  <1> DEFINE b == Documents!BagExt!BagRemove(l.asked, r)
  <1>1. DOMAIN b \subseteq DOMAIN l.asked
    BY BagOps
  <1>2. Documents!Applied(l, r) = [l EXCEPT !.rows = r.rows, !.pages = r.pages, !.busy = FALSE, !.asked = b]
    BY DEF Documents!Applied
  <1>3. Documents!Dropped(l, r) = [l EXCEPT !.busy = FALSE, !.asked = b]
    BY DEF Documents!Dropped
  <1> HIDE DEF b
  <1> QED
    BY <1>1, <1>2, <1>3 DEF ListOK, AnswerOK

LEMMA TurnedKeeps ==
  ASSUME NEW l, ListOK(l), NEW p \in Nat
  PROVE  ListOK(Documents!TurnedTo(l, p)) /\ Documents!TurnedTo(l, p).rows = l.rows
  <1> DEFINE k == [l EXCEPT !.page = p]
  <1>1. ListOK(k) /\ k.rows = l.rows
    BY DEF ListOK
  <1> HIDE DEF k
  <1> QED
    BY <1>1, AskKeeps DEF Documents!TurnedTo, k

LEMMA RefilteredKeeps ==
  ASSUME NEW l, ListOK(l), NEW f
  PROVE  ListOK(Documents!Refiltered(l, f)) /\ Documents!Refiltered(l, f).rows = l.rows
  <1> DEFINE k == [l EXCEPT !.filter = f]
             q == [filter |-> f, page |-> l.page]
             a == Documents!Ask(k, q)
             back == [a EXCEPT !.page = 1]
  <1>1. ListOK(k) /\ k.rows = l.rows /\ q.page \in Nat
    BY DEF ListOK
  <1>2. ListOK(a) /\ a.rows = l.rows
    <2> HIDE DEF k, q
    <2> QED
      BY <1>1, AskKeeps
  <1>3. ListOK(back) /\ back.rows = l.rows
    <2> HIDE DEF a
    <2> QED
      BY <1>2 DEF ListOK
  <1>4. /\ ListOK(Documents!Ask(back, [filter |-> f, page |-> 1]))
        /\ Documents!Ask(back, [filter |-> f, page |-> 1]).rows = l.rows
    <2> HIDE DEF back
    <2> QED
      BY <1>3, AskKeeps
  <1>5. Documents!Refiltered(l, f) = IF l.page = 1 THEN a ELSE Documents!Ask(back, [filter |-> f, page |-> 1])
    BY DEF Documents!Refiltered
  <1> HIDE DEF a, back
  <1> QED
    BY <1>2, <1>4, <1>5

LEMMA FirstLoadKeeps == ListOK(Documents!FirstLoad)
  <1> DEFINE l == [filter |-> "all", page |-> 1, rows |-> <<>>, pages |-> 0, busy |-> FALSE,
                   asked |-> Documents!Bag!EmptyBag]
             q == [filter |-> "all", page |-> 1]
  <1>1. ListOK(l) /\ q.page \in Nat
    BY EmptyIsSeq, BagOps DEF ListOK
  <1> HIDE DEF l, q
  <1> QED
    BY <1>1, AskKeeps DEF Documents!FirstLoad, l, q

LEMMA PutOnTop ==
  ASSUME NEW s, IsSeq(s), NEW x
  PROVE  IsSeq(<<x>> \o s) /\ Documents!Ids(s) \subseteq Documents!Ids(<<x>> \o s)
  <1>1. PICK S : s \in Seq(S)
    BY DEF IsSeq
  <1>2. s \in Seq(S \cup {x}) /\ <<x>> \in Seq(S \cup {x}) /\ Len(<<x>>) = 1
    BY <1>1
  <1>3. /\ <<x>> \o s \in Seq(S \cup {x})
        /\ Len(<<x>> \o s) = 1 + Len(s)
        /\ \A i \in 1 .. Len(s) : (<<x>> \o s)[i + 1] = s[i]
    BY <1>2, ConcatProperties
  <1>4. \A i \in DOMAIN s : i + 1 \in DOMAIN (<<x>> \o s) /\ (<<x>> \o s)[i + 1] = s[i]
    BY <1>2, <1>3, LenProperties
  <1> QED
    BY <1>3, <1>4 DEF IsSeq, Documents!Ids

-----------------------------------------------------------------------------
(* The page of documents *)

LEMMA WithoutIsSeq == ASSUME NEW ids, IsSeq(docs) PROVE IsSeq(Documents!Without(ids))
  BY KeptIsSeq DEF Documents!Without

HandlerOK(w) == DOMAIN w = {"handler", "stage", "ids", "query"} /\ w.query.page \in Nat

(* What is ticked stays shown when a row is put on top, since what an answer  *)
(* brings is a sequence.                                                      *)
DocumentInv ==
  /\ IsSeq(docs) /\ ListOK(docList)
  /\ \A w \in work : HandlerOK(w)
  /\ TickedIsShown

LEMMA DocumentsStart == Documents!Init => DocumentInv
  <1> SUFFICES ASSUME Documents!Init PROVE DocumentInv
    OBVIOUS
  <1>1. IsSeq(docs)
    <2>1. Len(Existing) \in Nat /\ DOMAIN Existing = 1 .. Len(Existing)
      BY ExistingBounds, LenProperties
    <2>2. docs = [k \in 1 .. Len(Existing) |-> docs[k]]
      BY <2>1 DEF Documents!Init
    <2> QED
      BY <2>1, <2>2, FunctionIsSeq
  <1>2. ListOK(docList)
    BY FirstLoadKeeps DEF Documents!Init
  <1>3. work = {} /\ ticked = {}
    BY DEF Documents!Init
  <1> QED
    BY <1>1, <1>2, <1>3 DEF DocumentInv, TickedIsShown, Documents!TickedIsShown

LEMMA CurrentQuery == ListOK(docList) => Documents!Query(docList).page \in Nat
  BY DEF ListOK, Documents!Query

(* A step that leaves the rows shown and the ticks, or only clears these.     *)
LEMMA ListMoves ==
  ASSUME DocumentInv, ListOK(docList'), docList'.rows = docList.rows, ticked' \subseteq ticked,
         IsSeq(docs'), \A w \in work' : HandlerOK(w)
  PROVE  DocumentInv'
  BY DEF DocumentInv, TickedIsShown, Documents!TickedIsShown, Documents!Ids

LEMMA Asking ==
  ASSUME DocumentInv, NEW q, q.page \in Nat, docList' = Documents!Ask(docList, q),
         ticked' \subseteq ticked, work' \subseteq work, UNCHANGED docs
  PROVE  DocumentInv'
  <1>1. ListOK(docList') /\ docList'.rows = docList.rows
    BY AskKeeps DEF DocumentInv
  <1> QED
    BY <1>1, ListMoves DEF DocumentInv

LEMMA Starting ==
  ASSUME DocumentInv, NEW handler, NEW ids, Documents!Start(handler, ids)
  PROVE  \A w \in work' : HandlerOK(w)
  <1>1. HandlerOK([handler |-> handler, stage |-> "asked", ids |-> ids, query |-> Documents!Query(docList)])
    BY CurrentQuery DEF DocumentInv, HandlerOK
  <1> QED
    BY <1>1 DEF DocumentInv, Documents!Start

LEMMA GoingOn ==
  ASSUME DocumentInv, NEW w \in work, NEW stage, NEW ids, Documents!To(w, stage, ids)
  PROVE  \A v \in work' : HandlerOK(v)
  <1>1. HandlerOK([w EXCEPT !.stage = stage, !.ids = ids])
    BY DEF DocumentInv, HandlerOK
  <1> QED
    BY <1>1 DEF DocumentInv, Documents!To

LEMMA TableSteps ==
  ASSUME DocumentInv, NEW i \in DOMAIN docs, Documents!Settle(i) \/ Documents!DeletedElsewhere(i)
  PROVE  DocumentInv'
  <1>1. IsSeq(docs')
    BY WithoutIsSeq, PutOnTop DEF DocumentInv, Documents!Settle, Documents!DeletedElsewhere
  <1>2. UNCHANGED <<docList, ticked, work>>
    BY DEF Documents!Settle, Documents!DeletedElsewhere
  <1> QED
    BY <1>1, <1>2, ListMoves DEF DocumentInv

LEMMA AnswerSteps ==
  ASSUME DocumentInv, NEW r \in Documents!Asked(docList),
         Documents!ListForKnowledgeBase(r) \/ Documents!ShowDocuments(r) \/ Documents!LoadFails(r)
  PROVE  DocumentInv'
  <1>0. r \in DOMAIN docList.asked /\ AnswerOK(r)
    BY DEF Documents!Asked, Documents!Bag!BagToSet, DocumentInv, ListOK
  <1>1. CASE Documents!ListForKnowledgeBase(r)
    <2>1. docList' = Documents!Served(docList, r, docs) /\ UNCHANGED <<docs, ticked, work>>
      BY <1>1 DEF Documents!ListForKnowledgeBase
    <2>2. ListOK(docList') /\ docList'.rows = docList.rows
      BY <1>0, <2>1, ServedKeeps DEF DocumentInv
    <2> QED
      BY <2>1, <2>2, ListMoves DEF DocumentInv
  <1>2. CASE Documents!ShowDocuments(r)
    <2>1. /\ docList' = Documents!Applied(docList, r) /\ ticked' = ticked \cap Documents!Ids(r.rows)
          /\ UNCHANGED <<docs, work>>
      BY <1>2 DEF Documents!ShowDocuments, Documents!TicksKept
    <2>2. ListOK(docList') /\ docList'.rows = r.rows
      BY <1>0, <2>1, AppliedKeeps DEF DocumentInv
    <2> QED
      BY <2>1, <2>2 DEF DocumentInv, TickedIsShown, Documents!TickedIsShown, Documents!Ids
  <1>3. CASE Documents!LoadFails(r)
    <2>1. docList' = Documents!Dropped(docList, r) /\ UNCHANGED <<docs, ticked, work>>
      BY <1>3 DEF Documents!LoadFails
    <2>2. ListOK(docList') /\ docList'.rows = docList.rows
      BY <1>0, <2>1, AppliedKeeps DEF DocumentInv
    <2> QED
      BY <2>1, <2>2, ListMoves DEF DocumentInv
  <1> QED
    BY <1>1, <1>2, <1>3

LEMMA ControlSteps ==
  ASSUME DocumentInv,
         \/ Documents!Poll \/ Documents!Reload
         \/ \E f \in Documents!Filter : Documents!ChangeFilter(f)
         \/ \E p \in 1 .. docList.pages + 1 : Documents!TurnPage(p)
  PROVE  DocumentInv'
  <1>1. CASE Documents!Poll \/ Documents!Reload
    BY <1>1, Asking, CurrentQuery DEF DocumentInv, Documents!Poll, Documents!Reload
  <1>2. ASSUME NEW f \in Documents!Filter, Documents!ChangeFilter(f) PROVE DocumentInv'
    <2>1. docList' = Documents!Refiltered(docList, f) /\ UNCHANGED <<docs, ticked, work>>
      BY <1>2 DEF Documents!ChangeFilter
    <2>2. ListOK(docList') /\ docList'.rows = docList.rows
      BY <2>1, RefilteredKeeps DEF DocumentInv
    <2> QED
      BY <2>1, <2>2, ListMoves DEF DocumentInv
  <1>3. ASSUME NEW p \in 1 .. docList.pages + 1, Documents!TurnPage(p) PROVE DocumentInv'
    <2>1. docList' = Documents!TurnedTo(docList, p) /\ UNCHANGED <<docs, ticked, work>>
      BY <1>3 DEF Documents!TurnPage
    <2>2. ListOK(docList') /\ docList'.rows = docList.rows
      BY <2>1, TurnedKeeps DEF DocumentInv
    <2> QED
      BY <2>1, <2>2, ListMoves DEF DocumentInv
  <1> QED
    BY <1>1, <1>2, <1>3

LEMMA TickSteps ==
  ASSUME DocumentInv, Documents!TickAll \/ \E id \in Documents!Ids(docList.rows) : Documents!Tick(id)
  PROVE  DocumentInv'
  BY DEF DocumentInv, TickedIsShown, Documents!TickedIsShown, Documents!Ids, Documents!TickAll, Documents!Tick

LEMMA StartSteps ==
  ASSUME DocumentInv,
         \/ Documents!StartUpload \/ Documents!ConfirmBulkDelete \/ Documents!SubmitScrape
         \/ \E id : Documents!ConfirmDelete(id)
  PROVE  DocumentInv'
  <1>1. UNCHANGED <<docs, docList, ticked>>
    BY DEF Documents!StartUpload, Documents!ConfirmBulkDelete, Documents!SubmitScrape,
           Documents!ConfirmDelete
  <1>2. \A w \in work' : HandlerOK(w)
    BY Starting DEF Documents!StartUpload, Documents!ConfirmBulkDelete, Documents!SubmitScrape,
                    Documents!ConfirmDelete
  <1> QED
    BY <1>1, <1>2, ListMoves DEF DocumentInv

LEMMA UploadSteps ==
  ASSUME DocumentInv, NEW w \in work, Documents!Upload(w) \/ Documents!Uploaded(w)
  PROVE  DocumentInv'
  <1>1. CASE Documents!Upload(w)
    <2>1. PICK id \in newDocs : /\ docs' = <<[id |-> id, open |-> TRUE]>> \o docs
                                /\ Documents!To(w, "stored", {id})
      BY <1>1 DEF Documents!Upload
    <2>2. UNCHANGED <<docList, ticked>>
      BY <1>1 DEF Documents!Upload
    <2>3. IsSeq(docs')
      BY <2>1, PutOnTop DEF DocumentInv
    <2>4. \A v \in work' : HandlerOK(v)
      BY <2>1, GoingOn
    <2> QED
      BY <2>2, <2>3, <2>4, ListMoves DEF DocumentInv
  <1>2. CASE Documents!Uploaded(w)
    <2>1. PICK id \in w.ids :
            LET grown == [docList EXCEPT !.rows = <<[id |-> id, open |-> TRUE]>> \o @]
            IN  \/ Documents!To(w, "asked", {}) /\ docList' = grown
                \/ work' = work \ {w} /\ docList' = Documents!Ask(grown, w.query)
      BY <1>2 DEF Documents!Uploaded
    <2> DEFINE more == <<[id |-> id, open |-> TRUE]>> \o docList.rows
               grown == [docList EXCEPT !.rows = more]
    <2>2. IsSeq(more) /\ Documents!Ids(docList.rows) \subseteq Documents!Ids(more)
      BY PutOnTop DEF DocumentInv, ListOK
    <2>3. ListOK(grown) /\ grown.rows = more
      <3> HIDE DEF more
      <3> QED
        BY <2>2 DEF DocumentInv, ListOK
    <2>4. w.query.page \in Nat
      BY DEF DocumentInv, HandlerOK
    <2>5. \/ Documents!To(w, "asked", {}) /\ docList' = grown
          \/ work' = work \ {w} /\ docList' = Documents!Ask(grown, w.query)
      BY <2>1
    <2> HIDE DEF more, grown
    <2>6. ListOK(docList') /\ docList'.rows = more
      BY <2>3, <2>4, <2>5, AskKeeps
    <2>7. \A v \in work' : HandlerOK(v)
      BY <2>5, GoingOn DEF DocumentInv
    <2>8. UNCHANGED <<docs, ticked>>
      BY <1>2 DEF Documents!Uploaded
    <2> QED
      BY <2>2, <2>6, <2>7, <2>8 DEF DocumentInv, TickedIsShown, Documents!TickedIsShown
  <1> QED
    BY <1>1, <1>2

LEMMA DeleteSteps ==
  ASSUME DocumentInv, NEW w \in work, Documents!Remove(w) \/ Documents!Removed(w)
  PROVE  DocumentInv'
  <1>1. CASE Documents!Remove(w)
    <2>1. UNCHANGED <<docList, ticked>> /\ docs' = Documents!Without(w.ids)
      BY <1>1 DEF Documents!Remove
    <2>2. work' = work \ {w} \/ Documents!To(w, "stored", w.ids)
      BY <1>1 DEF Documents!Remove
    <2>3. \A v \in work' : HandlerOK(v)
      BY <2>2, GoingOn DEF DocumentInv
    <2>4. IsSeq(docs')
      BY <2>1, WithoutIsSeq DEF DocumentInv
    <2> QED
      BY <2>1, <2>3, <2>4, ListMoves DEF DocumentInv
  <1>2. CASE Documents!Removed(w)
    <2>1. w.query.page \in Nat
      BY DEF DocumentInv, HandlerOK
    <2> QED
      BY <1>2, <2>1, Asking DEF Documents!Removed
  <1> QED
    BY <1>1, <1>2

LEMMA EndSteps ==
  ASSUME DocumentInv, NEW w \in work, Documents!ScrapeStarted(w) \/ Documents!Fails(w)
  PROVE  DocumentInv'
  <1>1. w.query.page \in Nat
    BY DEF DocumentInv, HandlerOK
  <1>2. CASE Documents!ScrapeStarted(w)
    BY <1>1, <1>2, Asking DEF Documents!ScrapeStarted
  <1>3. CASE Documents!Fails(w)
    BY <1>3, ListMoves DEF Documents!Fails, DocumentInv
  <1> QED
    BY <1>2, <1>3

LEMMA DocumentSteps ==
  ASSUME DocumentInv, Documents!Next
  PROVE  DocumentInv'
  <1>1. CASE Documents!Poll \/ Documents!Reload
    BY <1>1, ControlSteps
  <1>2. CASE Documents!TickAll
    BY <1>2, TickSteps
  <1>3. CASE Documents!StartUpload \/ Documents!ConfirmBulkDelete \/ Documents!SubmitScrape
    BY <1>3, StartSteps
  <1>4. CASE \E i \in DOMAIN docs : Documents!Settle(i) \/ Documents!DeletedElsewhere(i)
    BY <1>4, TableSteps
  <1>5. CASE \E r \in Documents!Asked(docList) :
               \/ Documents!ListForKnowledgeBase(r) \/ Documents!ShowDocuments(r)
               \/ Documents!LoadFails(r)
    BY <1>5, AnswerSteps
  <1>6. CASE \E f \in Documents!Filter : Documents!ChangeFilter(f)
    BY <1>6, ControlSteps
  <1>7. CASE \E p \in 1 .. docList.pages + 1 : Documents!TurnPage(p)
    BY <1>7, ControlSteps
  <1>8. CASE \E id \in Documents!Ids(docList.rows) : Documents!Tick(id)
    BY <1>8, TickSteps
  <1>9. CASE \E id \in {Existing[i] : i \in DOMAIN Existing} \cup Fresh : Documents!ConfirmDelete(id)
    BY <1>9, StartSteps
  <1>10. CASE \E w \in work : Documents!Upload(w) \/ Documents!Uploaded(w)
    BY <1>10, UploadSteps
  <1>11. CASE \E w \in work : Documents!Remove(w) \/ Documents!Removed(w)
    BY <1>11, DeleteSteps
  <1>12. CASE \E w \in work : Documents!ScrapeStarted(w) \/ Documents!Fails(w)
    BY <1>12, EndSteps
  <1> QED
    BY <1>1, <1>2, <1>3, <1>4, <1>5, <1>6, <1>7, <1>8, <1>9, <1>10, <1>11, <1>12, Zenon
    DEF Documents!Next

LEMMA DocumentsStay == DocumentInv /\ UNCHANGED documentVars => DocumentInv'
  BY DEF DocumentInv, documentVars, TickedIsShown, Documents!TickedIsShown

LEMMA DocumentsAlone ==
  ASSUME [Next]_vars
  PROVE  Documents!Next \/ UNCHANGED documentVars
  BY DEF Next, vars, AtChat, AtDocuments, AtRuns, AtTickets, AtDatasets, AtSearch, AtComposer, AtFeed

(* Whatever polls, late answers, uploads and deletes overlap, a ticked        *)
(* document is one of those shown (loadDocuments prunes selectedDocumentIds). *)
THEOREM TicksAreShown == Spec => []TickedIsShown
  <1>1. Init => DocumentInv
    BY DocumentsStart DEF Init
  <1>2. DocumentInv /\ [Next]_vars => DocumentInv'
    BY DocumentSteps, DocumentsStay, DocumentsAlone
  <1>3. DocumentInv => TickedIsShown
    BY DEF DocumentInv
  <1> QED
    BY <1>1, <1>2, <1>3, PTL DEF Spec

-----------------------------------------------------------------------------
(* The editor of the page of tickets *)

AtMostOne(set) == \A x, y \in set : x = y

(* The latest detail asked for, unless it is that of a new ticket, is of the  *)
(* selected ticket: whoever changes the selection asks again.                 *)
DetailInv ==
  /\ DOMAIN details = {"latest", "older"} /\ AtMostOne(details.latest)
  /\ \A d \in details.latest : d.kind # "created" =>
       selected = Tickets!None \/ d.ticket = selected
  /\ EditorOfSelected

(* What EditorOfSelected says, of any ticket and any requests under way.      *)
Accounted(ticket, held, ds, stray) ==
  ticket # Tickets!None /\ held # ticket =>
    stray \/ \E d \in Tickets!UnderWay(ds) : Tickets!OfTicket(d, ticket)

LEMMA EditorAccounted == EditorOfSelected <=> Accounted(selected, editor, details, astray)
  BY DEF EditorOfSelected, Tickets!EditorOfSelected, Accounted

LEMMA TicketsStart == Tickets!Init => DetailInv
  BY DEF Tickets!Init, DetailInv, AtMostOne, EditorOfSelected, Tickets!EditorOfSelected

(* What is in a bag after an addition, a removal and a union.                 *)
LEMMA DetailBags ==
  ASSUME NEW bag, NEW d, NEW set
  PROVE  /\ Tickets!BagToSet(Tickets!BagExt!BagAdd(bag, d)) = Tickets!BagToSet(bag) \cup {d}
         /\ Tickets!BagToSet(bag) \ {d} \subseteq Tickets!BagToSet(Tickets!BagExt!BagRemove(bag, d))
         /\ Tickets!BagToSet(Tickets!BagUnion({bag, Tickets!SetToBag(set)}))
              = Tickets!BagToSet(bag) \cup set
  <1>1. Tickets!BagToSet(Tickets!BagExt!BagAdd(bag, d)) = Tickets!BagToSet(bag) \cup {d}
    BY DEF Tickets!BagToSet, Tickets!BagExt!BagAdd
  <1>2. Tickets!BagToSet(bag) \ {d} \subseteq Tickets!BagToSet(Tickets!BagExt!BagRemove(bag, d))
    BY DEF Tickets!BagToSet, Tickets!BagExt!BagRemove
  <1>3. Tickets!BagToSet(Tickets!BagUnion({bag, Tickets!SetToBag(set)}))
          = UNION {Tickets!BagToSet(b) : b \in {bag, Tickets!SetToBag(set)}}
    BY Zenon DEF Tickets!BagToSet, Tickets!BagUnion
  <1>4. Tickets!BagToSet(Tickets!SetToBag(set)) = set
    BY DEF Tickets!BagToSet, Tickets!SetToBag
  <1> QED
    BY <1>1, <1>2, <1>3, <1>4

(* One more request is the latest; none leaves it what it was.                *)
LEMMA AskedLast ==
  ASSUME NEW ds, DOMAIN ds = {"latest", "older"}, NEW asks
  PROVE  /\ DOMAIN Tickets!AskDetail(ds, asks) = {"latest", "older"}
         /\ Tickets!AskDetail(ds, asks).latest = IF asks = {} THEN ds.latest ELSE asks
         /\ Tickets!UnderWay(ds) \subseteq Tickets!UnderWay(Tickets!AskDetail(ds, asks))
  <1> DEFINE bag == Tickets!BagUnion({ds.older, Tickets!SetToBag(ds.latest)})
  <1>1. Tickets!BagToSet(bag) = Tickets!BagToSet(ds.older) \cup ds.latest
    BY DetailBags
  <1>2. Tickets!AskDetail(ds, asks) = IF asks = {} THEN ds ELSE [latest |-> asks, older |-> bag]
    BY DEF Tickets!AskDetail
  <1> HIDE DEF bag
  <1> QED
    BY <1>1, <1>2 DEF Tickets!UnderWay

LEMMA AskedOfTwo ==
  ASSUME NEW ds, DOMAIN ds = {"latest", "older"}, NEW before, NEW asks,
         Tickets!Asking(ds, before, asks)
  PROVE  /\ DOMAIN details' = {"latest", "older"}
         /\ details'.latest = IF asks # {} THEN asks ELSE IF before # {} THEN before ELSE ds.latest
         /\ Tickets!UnderWay(ds) \subseteq Tickets!UnderWay(details')
  <1> DEFINE once == Tickets!AskDetail(ds, before)
  <1>1. /\ DOMAIN once = {"latest", "older"}
        /\ once.latest = IF before = {} THEN ds.latest ELSE before
        /\ Tickets!UnderWay(ds) \subseteq Tickets!UnderWay(once)
    BY AskedLast
  <1>2. details' = Tickets!AskDetail(once, asks)
    BY DEF Tickets!Asking
  <1> HIDE DEF once
  <1>3. Tickets!UnderWay(once) \subseteq Tickets!UnderWay(details')
    BY <1>1, <1>2, AskedLast
  <1> QED
    BY <1>1, <1>2, <1>3, AskedLast

(* An answer takes its own request away and no other.                         *)
LEMMA AnsweredAsked ==
  ASSUME DOMAIN details = {"latest", "older"}, NEW last \in BOOLEAN,
         NEW d \in Tickets!Under(details, last)
  PROVE  /\ DOMAIN Tickets!Without(details, d, last) = {"latest", "older"}
         /\ Tickets!Without(details, d, last).latest = IF last THEN {} ELSE details.latest
         /\ Tickets!BagToSet(details.older) \ {d}
              \subseteq Tickets!BagToSet(Tickets!Without(details, d, last).older)
  <1>1. CASE last
    BY <1>1 DEF Tickets!Without
  <1>2. CASE ~last
    <2> DEFINE left == Tickets!BagExt!BagRemove(details.older, d)
    <2>1. Tickets!Without(details, d, last) = [details EXCEPT !.older = left]
      BY <1>2 DEF Tickets!Without
    <2>2. Tickets!BagToSet(details.older) \ {d} \subseteq Tickets!BagToSet(left)
      BY DetailBags
    <2> HIDE DEF left
    <2> QED
      BY <1>2, <2>1, <2>2
  <1> QED
    BY <1>1, <1>2

(* The requests for the selected ticket that an answer to another leaves.     *)
LEMMA AnotherAnswered ==
  ASSUME DetailInv, selected # Tickets!None, NEW last \in BOOLEAN,
         NEW d \in Tickets!Under(details, last), ~Tickets!OfTicket(d, selected),
         NEW e \in Tickets!UnderWay(details), Tickets!OfTicket(e, selected)
  PROVE  e \in Tickets!UnderWay(Tickets!Without(details, d, last))
  <1> DEFINE ds == Tickets!Without(details, d, last)
  <1>1. e # d
    OBVIOUS
  <1>2. /\ ds.latest = IF last THEN {} ELSE details.latest
        /\ Tickets!BagToSet(details.older) \ {d} \subseteq Tickets!BagToSet(ds.older)
    BY AnsweredAsked DEF DetailInv
  <1>3. last => e \notin details.latest
    BY <1>1 DEF DetailInv, AtMostOne, Tickets!Under
  <1> HIDE DEF ds
  <1>4. e \in Tickets!UnderWay(ds)
    BY <1>1, <1>2, <1>3 DEF Tickets!UnderWay
  <1> QED
    BY <1>4 DEF ds

(* A selection that changes is asked for.                                     *)
LEMMA SelectionAsked ==
  ASSUME NEW rows, NEW t, NEW ds, NEW held, NEW stray,
         DOMAIN ds = {"latest", "older"}, AtMostOne(ds.latest),
         t = selected => Accounted(t, held, ds, stray),
         \A d \in ds.latest : d.kind # "created" => selected = Tickets!None \/ d.ticket = selected,
         Tickets!SelectAmong(rows, t, ds, held, stray)
  PROVE  DetailInv'
  <1> DEFINE settled == IF rows = <<>> THEN Tickets!None
                        ELSE IF t \in Tickets!Ids(rows) THEN t ELSE rows[1].id
             opened == IF t \in {Tickets!None, selected} THEN {} ELSE {Tickets!Detail("load", t)}
             asks == Tickets!Fallback(settled, t)
  <1>1. /\ selected' = settled
        /\ editor' = IF rows = <<>> THEN Tickets!None ELSE held
        /\ Tickets!Asking(ds, opened, asks)
        /\ astray' = (stray /\ opened \cup asks = {})
    BY DEF Tickets!SelectAmong
  <1>2. rows = <<>> => settled = Tickets!None
    OBVIOUS
  <1>3. asks = IF settled \in {Tickets!None, t} THEN {} ELSE {Tickets!Detail("load", settled)}
    BY DEF Tickets!Fallback
  <1> HIDE DEF settled, asks
  <1>4. /\ DOMAIN details' = {"latest", "older"}
        /\ details'.latest = IF asks # {} THEN asks ELSE IF opened # {} THEN opened ELSE ds.latest
        /\ Tickets!UnderWay(ds) \subseteq Tickets!UnderWay(details')
    BY <1>1, AskedOfTwo
  <1>5. CASE opened \cup asks # {}
    <2>0. /\ settled # Tickets!None => details'.latest = {Tickets!Detail("load", settled)}
          /\ AtMostOne(details'.latest)
      BY <1>3, <1>4, <1>5 DEF AtMostOne
    <2>1. settled # Tickets!None => details'.latest = {Tickets!Detail("load", settled)}
      BY <2>0
    <2>2. /\ Tickets!Detail("load", settled).kind = "load"
          /\ Tickets!Detail("load", settled).ticket = settled
      BY DEF Tickets!Detail
    <2>3. \A d \in details'.latest : d.kind # "created" =>
            selected' = Tickets!None \/ d.ticket = selected'
      BY <1>1, <2>1, <2>2
    <2>4. Accounted(selected', editor', details', astray')
      BY <1>1, <2>1, <2>2 DEF Accounted, Tickets!UnderWay, Tickets!OfTicket
    <2> QED
      BY <1>4, <2>0, <2>3, <2>4 DEF DetailInv, EditorOfSelected, Tickets!EditorOfSelected, Accounted
  <1>6. CASE opened \cup asks = {}
    <2>0. opened = {} /\ asks = {}
      BY <1>6
    <2>1. settled \in {Tickets!None, t} /\ t \in {Tickets!None, selected}
      BY <1>3, <2>0
    <2>2. (astray' <=> stray) /\ details'.latest = ds.latest
      BY <1>1, <1>4, <1>6, <2>0
    <2>3. \A d \in details'.latest : d.kind # "created" =>
            selected' = Tickets!None \/ d.ticket = selected'
      BY <1>1, <2>1, <2>2
    <2>4. selected' # Tickets!None => selected' = t /\ t = selected /\ editor' = held
      BY <1>1, <1>2, <2>1
    <2>5. Accounted(selected', editor', details', astray')
      BY <1>4, <2>2, <2>4 DEF Accounted
    <2> QED
      BY <1>4, <2>2, <2>3, <2>5 DEF DetailInv, EditorOfSelected, Tickets!EditorOfSelected, Accounted
  <1> QED
    BY <1>5, <1>6

(* An answer that fills the editor with another ticket than the selected one  *)
(* is an older one: the selected one's is on the way, or the editor astray.   *)
LEMMA EditorFilled ==
  ASSUME DetailInv, NEW last \in BOOLEAN, NEW d \in Tickets!Under(details, last),
         d.kind # "created", Tickets!Fill(d, last), UNCHANGED selected
  PROVE  DetailInv'
  <1> DEFINE ds == Tickets!Without(details, d, last)
  <1>1. /\ DOMAIN ds = {"latest", "older"} /\ ds.latest = IF last THEN {} ELSE details.latest
    BY AnsweredAsked DEF DetailInv
  <1>2. /\ details' = ds /\ editor' = d.ticket
        /\ astray' = (~last /\ d.ticket # selected /\ (astray \/ ~Tickets!Due))
    BY DEF Tickets!Fill
  <1> HIDE DEF ds
  <1>3. last => d \in details.latest
    BY DEF Tickets!Under
  <1>4. Accounted(selected, d.ticket, ds, astray')
    <2> SUFFICES ASSUME selected # Tickets!None, d.ticket # selected, ~astray'
                 PROVE  \E e \in Tickets!UnderWay(ds) : Tickets!OfTicket(e, selected)
      BY DEF Accounted
    <2>1. ~last /\ Tickets!Due
      BY <1>2, <1>3 DEF DetailInv
    <2>2. PICK e \in details.latest : e.kind # "created"
      BY <2>1 DEF Tickets!Due
    <2> QED
      BY <1>1, <2>1, <2>2 DEF DetailInv, Tickets!UnderWay, Tickets!OfTicket
  <1> QED
    BY <1>1, <1>2, <1>4
       DEF DetailInv, AtMostOne, EditorOfSelected, Tickets!EditorOfSelected, Accounted

(* The answer to an UPDATE takes the place of its request.                    *)
LEMMA TicketUpdated ==
  ASSUME DetailInv, NEW last \in BOOLEAN, NEW d \in Tickets!Under(details, last),
         Tickets!UpdateTicket(d, last)
  PROVE  DetailInv'
  <1> DEFINE ds == Tickets!Without(details, d, last)
             answer == [kind |-> "saved", ticket |-> d.ticket, query |-> d.query]
  <1>1. /\ d.kind = "save" /\ UNCHANGED <<selected, editor, astray>>
        /\ details' = IF last THEN [ds EXCEPT !.latest = {answer}]
                      ELSE [ds EXCEPT !.older = Tickets!BagExt!BagAdd(@, answer)]
    BY DEF Tickets!UpdateTicket
  <1>2. /\ DOMAIN ds = {"latest", "older"} /\ ds.latest = IF last THEN {} ELSE details.latest
        /\ Tickets!BagToSet(details.older) \ {d} \subseteq Tickets!BagToSet(ds.older)
    BY AnsweredAsked DEF DetailInv
  <1>3. answer.kind # "created" /\ answer.ticket = d.ticket
    OBVIOUS
  <1> HIDE DEF ds, answer
  <1>4. /\ DOMAIN details' = {"latest", "older"}
        /\ details'.latest = IF last THEN {answer} ELSE details.latest
        /\ Tickets!BagToSet(ds.older) \subseteq Tickets!BagToSet(details'.older)
        /\ answer \in Tickets!UnderWay(details')
    <2>1. CASE last
      BY <1>1, <1>2, <2>1 DEF Tickets!UnderWay
    <2>2. CASE ~last
      <3> DEFINE bag == Tickets!BagExt!BagAdd(ds.older, answer)
      <3>1. details' = [ds EXCEPT !.older = bag]
        BY <1>1, <2>2
      <3>2. Tickets!BagToSet(bag) = Tickets!BagToSet(ds.older) \cup {answer}
        BY DetailBags
      <3> HIDE DEF bag
      <3> QED
        BY <1>2, <2>2, <3>1, <3>2 DEF Tickets!UnderWay
    <2> QED
      BY <2>1, <2>2
  <1>5. \A e \in details'.latest : e.kind # "created" => selected = Tickets!None \/ e.ticket = selected
    BY <1>1, <1>3, <1>4 DEF DetailInv, Tickets!Under
  <1>6. ASSUME NEW e \in Tickets!UnderWay(details), Tickets!OfTicket(e, selected)
        PROVE  \E a \in Tickets!UnderWay(details') : Tickets!OfTicket(a, selected)
    <2>1. CASE e = d
      BY <1>3, <1>4, <1>6, <2>1 DEF Tickets!OfTicket
    <2>2. CASE e # d
      <3>1. last => details.latest = {d}
        BY DEF DetailInv, AtMostOne, Tickets!Under
      <3> QED
        BY <1>2, <1>4, <1>6, <2>2, <3>1 DEF Tickets!UnderWay
    <2> QED
      BY <2>1, <2>2
  <1>7. Accounted(selected, editor, details', astray)
    BY <1>6, EditorAccounted DEF DetailInv, Accounted
  <1> QED
    BY <1>1, <1>4, <1>5, <1>7
       DEF DetailInv, AtMostOne, EditorOfSelected, Tickets!EditorOfSelected, Accounted

(* A request of the selected ticket is the latest, and not yet answered.      *)
LEMMA DetailAsked ==
  ASSUME DetailInv, NEW asks, Tickets!Asking(details, {}, asks),
         \A d \in asks : d.kind # "created" => d.ticket = selected, AtMostOne(asks),
         UNCHANGED <<selected, editor, astray>>
  PROVE  DetailInv'
  <1>1. /\ DOMAIN details' = {"latest", "older"}
        /\ details'.latest = IF asks # {} THEN asks ELSE details.latest
        /\ Tickets!UnderWay(details) \subseteq Tickets!UnderWay(details')
    BY AskedOfTwo DEF DetailInv
  <1> QED
    BY <1>1 DEF DetailInv, EditorOfSelected, Tickets!EditorOfSelected

LEMMA DetailsStay == DetailInv /\ UNCHANGED <<selected, editor, details, astray>> => DetailInv'
  BY DEF DetailInv, EditorOfSelected, Tickets!EditorOfSelected

LEMMA TicketListSteps ==
  ASSUME DetailInv, Tickets!ListStep
  PROVE  DetailInv'
  <1>1. CASE Tickets!Poll
    <2> DEFINE asks == IF selected = Tickets!None THEN {} ELSE {Tickets!Detail("load", selected)}
    <2>1. Tickets!Asking(details, {}, asks) /\ UNCHANGED <<selected, editor, astray>>
      BY <1>1 DEF Tickets!Poll
    <2>2. \A d \in asks : d.kind # "created" => d.ticket = selected
      BY DEF Tickets!Detail
    <2>3. AtMostOne(asks)
      BY DEF AtMostOne
    <2> HIDE DEF asks
    <2> QED
      BY <2>1, <2>2, <2>3, DetailAsked
  <1>2. ASSUME NEW r \in Tickets!Asked(ticketList), Tickets!ShowTickets(r) PROVE DetailInv'
    <2>1. Tickets!SelectAmong(r.rows, selected, details, editor, astray)
      BY <1>2 DEF Tickets!ShowTickets
    <2> QED
      BY <2>1, SelectionAsked, EditorAccounted DEF DetailInv
  <1>3. CASE \/ Tickets!Refresh
             \/ \E r \in Tickets!Asked(ticketList) : Tickets!ListTickets(r) \/ Tickets!LoadFails(r)
             \/ \E f \in Tickets!Filter : Tickets!ChangeFilter(f)
             \/ \E p \in 1 .. ticketList.pages + 1 : Tickets!TurnPage(p)
    BY <1>3, DetailsStay DEF Tickets!Refresh, Tickets!ListTickets, Tickets!LoadFails,
       Tickets!ChangeFilter, Tickets!TurnPage, Tickets!selection
  <1> QED
    BY <1>1, <1>2, <1>3 DEF Tickets!ListStep

LEMMA TicketDetailSteps ==
  ASSUME DetailInv, Tickets!DetailStep
  PROVE  DetailInv'
  <1>1. ASSUME NEW t, Tickets!OpenReview(t) PROVE DetailInv'
    <2>1. Tickets!SelectAmong(ticketList.rows, t, details, editor, astray)
      BY <1>1 DEF Tickets!OpenReview
    <2> QED
      BY <2>1, SelectionAsked, EditorAccounted DEF DetailInv
  <1>2. ASSUME NEW last \in BOOLEAN, NEW d \in Tickets!Under(details, last),
               \/ Tickets!ShowDetail(d, last) \/ Tickets!DetailFails(d, last)
               \/ Tickets!OpenCreated(d, last)
               \/ Tickets!UpdateTicket(d, last) \/ Tickets!Saved(d, last)
        PROVE  DetailInv'
    <2> DEFINE ds == Tickets!Without(details, d, last)
    <2>0. /\ DOMAIN ds = {"latest", "older"} /\ ds.latest = IF last THEN {} ELSE details.latest
          /\ Tickets!BagToSet(details.older) \ {d} \subseteq Tickets!BagToSet(ds.older)
      BY AnsweredAsked DEF DetailInv
    <2>1. CASE Tickets!ShowDetail(d, last)
      BY <2>1, EditorFilled DEF Tickets!ShowDetail
    <2>2. CASE Tickets!DetailFails(d, last)
      <3>1. /\ d.kind # "created" /\ details' = ds /\ UNCHANGED <<selected, editor>>
            /\ astray' = (astray \/ (d.ticket = selected /\ editor # selected))
        BY <2>2 DEF Tickets!DetailFails
      <3>2. Accounted(selected, editor, ds, astray')
        <4> SUFFICES ASSUME selected # Tickets!None, editor # selected, ~astray'
                     PROVE  \E e \in Tickets!UnderWay(ds) : Tickets!OfTicket(e, selected)
          BY DEF Accounted
        <4>1. ~Tickets!OfTicket(d, selected) /\ ~astray
          BY <3>1 DEF Tickets!OfTicket
        <4>2. PICK e \in Tickets!UnderWay(details) : Tickets!OfTicket(e, selected)
          BY <4>1, EditorAccounted DEF DetailInv, Accounted
        <4> QED
          BY <1>2, <4>1, <4>2, AnotherAnswered
      <3> QED
        BY <2>0, <3>1, <3>2
           DEF DetailInv, AtMostOne, EditorOfSelected, Tickets!EditorOfSelected, Accounted
    <2>3. CASE Tickets!Saved(d, last)
      BY <2>3, EditorFilled DEF Tickets!Saved
    <2>4. CASE Tickets!UpdateTicket(d, last)
      BY <2>4, TicketUpdated
    <2>5. CASE Tickets!OpenCreated(d, last)
      <3>1. d.kind = "created"
        BY <2>5 DEF Tickets!OpenCreated
      <3>2. PICK held \in {editor, d.ticket} :
              Tickets!SelectAmong(ticketList.rows, d.ticket, ds, held, astray /\ held = editor)
        BY <2>5 DEF Tickets!OpenCreated
      <3>3. d.ticket = selected => Accounted(d.ticket, held, ds, astray /\ held = editor)
        <4> SUFFICES ASSUME d.ticket = selected, selected # Tickets!None, held # selected,
                            ~(astray /\ held = editor)
                     PROVE  \E e \in Tickets!UnderWay(ds) : Tickets!OfTicket(e, selected)
          BY DEF Accounted
        <4>1. editor # selected /\ ~astray
          BY <3>2
        <4>2. PICK e \in Tickets!UnderWay(details) : Tickets!OfTicket(e, selected)
          BY <4>1, EditorAccounted DEF DetailInv, Accounted
        <4>3. ~Tickets!OfTicket(d, selected)
          BY <3>1 DEF Tickets!OfTicket
        <4> QED
          BY <1>2, <4>2, <4>3, AnotherAnswered
      <3>4. AtMostOne(ds.latest) /\ \A e \in ds.latest : e \in details.latest
        BY <2>0 DEF DetailInv, AtMostOne
      <3>5. \A e \in ds.latest : e.kind # "created" => selected = Tickets!None \/ e.ticket = selected
        BY <3>4 DEF DetailInv
      <3> HIDE DEF ds
      <3> QED
        BY <2>0, <3>2, <3>3, <3>4, <3>5, SelectionAsked
    <2> QED
      BY <1>2, <2>1, <2>2, <2>3, <2>4, <2>5
  <1> QED
    BY <1>1, <1>2 DEF Tickets!DetailStep

LEMMA TicketSteps ==
  ASSUME DetailInv, Tickets!Next
  PROVE  DetailInv'
  <1>1. CASE Tickets!ListStep
    BY <1>1, TicketListSteps
  <1>2. CASE Tickets!DetailStep
    BY <1>2, TicketDetailSteps
  <1>3. CASE Tickets!Save
    <2> DEFINE asks == {[kind |-> "save", ticket |-> selected, query |-> Tickets!Query(ticketList)]}
    <2>1. Tickets!Asking(details, {}, asks) /\ UNCHANGED <<selected, editor, astray>>
      BY <1>3 DEF Tickets!Save
    <2>2. \A d \in asks : d.ticket = selected
      OBVIOUS
    <2>3. AtMostOne(asks)
      BY DEF AtMostOne
    <2> HIDE DEF asks
    <2> QED
      BY <2>1, <2>2, <2>3, DetailAsked
  <1>4. CASE Tickets!AskCreated
    <2> DEFINE asks == {Tickets!Detail("created", creation.ticket)}
    <2>1. Tickets!Asking(details, {}, asks) /\ UNCHANGED <<selected, editor, astray>>
      BY <1>4 DEF Tickets!AskCreated
    <2>2. \A d \in asks : d.kind = "created"
      BY DEF Tickets!Detail
    <2>3. AtMostOne(asks)
      BY DEF AtMostOne
    <2> HIDE DEF asks
    <2> QED
      BY <2>1, <2>2, <2>3, DetailAsked
  <1>5. CASE \/ Tickets!Create \/ Tickets!CreateTicket \/ Tickets!CreateFails
             \/ \E i \in DOMAIN tickets : Tickets!Settle(i)
    BY <1>5, DetailsStay DEF Tickets!Create, Tickets!CreateTicket, Tickets!CreateFails,
       Tickets!Settle, Tickets!selection
  <1> QED
    BY <1>1, <1>2, <1>3, <1>4, <1>5 DEF Tickets!Next

LEMMA TicketsAlone ==
  ASSUME [Next]_vars
  PROVE  Tickets!Next \/ UNCHANGED ticketVars
  BY DEF Next, vars, AtChat, AtDocuments, AtRuns, AtTickets, AtDatasets, AtSearch, AtComposer, AtFeed

(* For any list of tickets and any overlap of loads, saves, polls and          *)
(* creations, the editor whose fields handleSave sends holds the selected      *)
(* ticket, unless a request for that ticket is still under way, has failed, or *)
(* was followed by an older answer (loadTicketDetail, handleSave).             *)
THEOREM EditsAreOfSelected == Spec => []EditorOfSelected
  <1>1. Init => DetailInv
    BY TicketsStart DEF Init
  <1>2. DetailInv /\ [Next]_vars => DetailInv'
    <2> SUFFICES ASSUME DetailInv, [Next]_vars PROVE DetailInv'
      OBVIOUS
    <2>1. CASE Tickets!Next
      BY <2>1, TicketSteps
    <2>2. CASE UNCHANGED ticketVars
      BY <2>2, DetailsStay DEF ticketVars
    <2> QED
      BY <2>1, <2>2, TicketsAlone
  <1>3. DetailInv => EditorOfSelected
    BY DEF DetailInv
  <1> QED
    BY <1>1, <1>2, <1>3, PTL DEF Spec

-----------------------------------------------------------------------------
(* The feed of the activity page *)

(* A set of numbers has a least one: how the newest and the oldest row of a   *)
(* finite set are found.                                                      *)
LEMMA LeastNat ==
  ASSUME NEW T \in SUBSET Nat, T # {}
  PROVE  \E n \in T : \A m \in T : n <= m
  <1> DEFINE R == OpToRel(<, Nat)
  <1>1. IsWellFoundedOn(R, Nat)
    BY NatLessThanWellFounded
  <1>2. \A m, n \in Nat : m < n => <<m, n>> \in R
    BY Zenon DEF OpToRel
  <1> HIDE DEF R
  <1>3. PICK n \in T : \A m \in T : ~(<<m, n>> \in R)
    BY <1>1, WFMin
  <1>4. \A m \in T : ~(m < n)
    BY <1>2, <1>3, Zenon
  <1> QED
    BY <1>4

LEMMA FeedCounts == \A S : Feed!Cardinality(S) = Cardinality(S)
  BY DEF Feed!Cardinality, Cardinality

(* The order of the rows: newer before older, told apart by their ids.        *)
RowKey == [ms : Nat, id : Nat]
Row == [id : EventId, at : Nat]

LEMMA RowKeys == \A e \in Row : Feed!Key(e) \in RowKey /\ Feed!Key(e).id = e.id
  <1>1. \A n \in Nat : n \div 2 \in Nat
    OBVIOUS
  <1> QED
    BY <1>1, FeedBounds DEF Row, RowKey, Feed!Key, Feed!Ms

LEMMA BeforeOrders ==
  ASSUME NEW i \in RowKey, NEW j \in RowKey, NEW k \in RowKey
  PROVE  /\ Feed!Before(i, j) => ~Feed!Before(j, i)
         /\ Feed!Before(i, j) /\ Feed!Before(j, k) => Feed!Before(i, k)
         /\ i.id # j.id => Feed!Before(i, j) \/ Feed!Before(j, i)
         /\ Feed!Below(i, j) <=> Feed!Before(i, j)
  BY DEF RowKey, Feed!Before, Feed!Below

LEMMA RowOrder ==
  ASSUME NEW e \in Row, NEW f \in Row, NEW g \in Row
  PROVE  /\ ~Feed!Before(Feed!Key(e), Feed!Key(e))
         /\ Feed!Before(Feed!Key(e), Feed!Key(f)) => ~Feed!Before(Feed!Key(f), Feed!Key(e))
         /\ Feed!Before(Feed!Key(e), Feed!Key(f)) /\ Feed!Before(Feed!Key(f), Feed!Key(g))
              => Feed!Before(Feed!Key(e), Feed!Key(g))
         /\ e.id # f.id => Feed!Before(Feed!Key(e), Feed!Key(f)) \/ Feed!Before(Feed!Key(f), Feed!Key(e))
  BY RowKeys, BeforeOrders

Rows(S) ==
  /\ IsFiniteSet(S) /\ S \subseteq Row
  /\ \A e, f \in S : e.id = f.id => e = f

(* The rows before a row, and those after it. *)
Above(S, e) == {f \in S : Feed!Before(Feed!Key(f), Feed!Key(e))}
Under(S, e) == {f \in S : Feed!Before(Feed!Key(e), Feed!Key(f))}

LEMMA Counted ==
  ASSUME NEW S, Rows(S), NEW T \in SUBSET S
  PROVE  IsFiniteSet(T) /\ Cardinality(T) \in Nat
  BY FS_Subset, FS_CardinalityType DEF Rows

LEMMA FewerRows ==
  ASSUME NEW S, Rows(S), NEW T \in SUBSET S, NEW U \in SUBSET T, U # T
  PROVE  Cardinality(U) < Cardinality(T)
  <1>1. IsFiniteSet(T) /\ Cardinality(T) \in Nat /\ Cardinality(U) \in Nat
    BY Counted
  <1>2. Cardinality(U) <= Cardinality(T) /\ Cardinality(U) # Cardinality(T)
    BY <1>1, FS_Subset
  <1> QED
    BY <1>1, <1>2

LEMMA NewestRow ==
  ASSUME NEW S, Rows(S), S # {}
  PROVE  \E e \in S : Above(S, e) = {}
  <1> DEFINE T == {Cardinality(Above(S, e)) : e \in S}
  <1>1. \A e \in S : Above(S, e) \subseteq S
    BY DEF Above
  <1>2. T \subseteq Nat /\ T # {}
    BY <1>1, Counted
  <1>3. PICK n \in T : \A m \in T : n <= m
    BY <1>2, LeastNat
  <1>4. PICK e \in S : n = Cardinality(Above(S, e))
    OBVIOUS
  <1>5. SUFFICES ASSUME NEW f \in Above(S, e) PROVE FALSE
    OBVIOUS
  <1>6. f \in S /\ Feed!Before(Feed!Key(f), Feed!Key(e))
    BY DEF Above
  <1>7. \A g \in Above(S, f) : g \in Above(S, e)
    BY <1>6, RowOrder DEF Above, Rows
  <1>8. f \notin Above(S, f)
    BY <1>6, RowOrder DEF Above, Rows
  <1>9. Cardinality(Above(S, f)) < Cardinality(Above(S, e))
    <2>1. Above(S, f) \in SUBSET Above(S, e) /\ Above(S, f) # Above(S, e)
      BY <1>7, <1>8
    <2> QED
      BY <1>1, <2>1, FewerRows
  <1>10. Cardinality(Above(S, f)) \in T /\ n \in Nat /\ Cardinality(Above(S, f)) \in Nat
    BY <1>1, <1>2, <1>6, Counted
  <1> QED
    BY <1>3, <1>4, <1>9, <1>10

LEMMA OldestRow ==
  ASSUME NEW S, Rows(S), S # {}
  PROVE  \E e \in S : Under(S, e) = {}
  <1> DEFINE T == {Cardinality(Under(S, e)) : e \in S}
  <1>1. \A e \in S : Under(S, e) \subseteq S
    BY DEF Under
  <1>2. T \subseteq Nat /\ T # {}
    BY <1>1, Counted
  <1>3. PICK n \in T : \A m \in T : n <= m
    BY <1>2, LeastNat
  <1>4. PICK e \in S : n = Cardinality(Under(S, e))
    OBVIOUS
  <1>5. SUFFICES ASSUME NEW f \in Under(S, e) PROVE FALSE
    OBVIOUS
  <1>6. f \in S /\ Feed!Before(Feed!Key(e), Feed!Key(f))
    BY DEF Under
  <1>7. \A g \in Under(S, f) : g \in Under(S, e)
    BY <1>6, RowOrder DEF Under, Rows
  <1>8. f \notin Under(S, f)
    BY <1>6, RowOrder DEF Under, Rows
  <1>9. Cardinality(Under(S, f)) < Cardinality(Under(S, e))
    <2>1. Under(S, f) \in SUBSET Under(S, e) /\ Under(S, f) # Under(S, e)
      BY <1>7, <1>8
    <2> QED
      BY <1>1, <2>1, FewerRows
  <1>10. Cardinality(Under(S, f)) \in T /\ n \in Nat /\ Cardinality(Under(S, f)) \in Nat
    BY <1>1, <1>2, <1>6, Counted
  <1> QED
    BY <1>3, <1>4, <1>9, <1>10

(* A page is the newest rows; the cursor it gives is that of its oldest one,  *)
(* when rows are left, and these are all below it.                            *)
LEMMA PageOfRows ==
  ASSUME NEW S, Rows(S)
  PROVE  LET page == Feed!FirstOf(S)
             next == Feed!NextCursor(S, page)
         IN  /\ page \subseteq S
             /\ \A n \in next : \E e \in page : n = Feed!Key(e)
             /\ \A n \in next, e \in page : ~Feed!Before(n, Feed!Key(e))
             /\ \A n, m \in next : n = m
             /\ \A e \in S \ page : \E n \in next : Feed!Before(n, Feed!Key(e))
  <1> DEFINE page == Feed!FirstOf(S)
             next == Feed!NextCursor(S, page)
             Last(e) == \A f \in page : f = e \/ Feed!Before(Feed!Key(f), Feed!Key(e))
  <1>1. page = {e \in S : Cardinality(Above(S, e)) < RowsPerPage}
    BY FeedCounts DEF Feed!FirstOf, Above
  <1>2. next = IF S = page THEN {} ELSE {Feed!Key(e) : e \in {e \in page : Last(e)}}
    BY DEF Feed!NextCursor
  <1> HIDE DEF page, next
  <1>3. page \subseteq S /\ Rows(page)
    BY <1>1, FS_Subset DEF Rows
  <1>4. \A n \in next : \E e \in page : n = Feed!Key(e) /\ Last(e)
    BY <1>2
  <1>5. \A e, f \in page : Last(e) => ~Feed!Before(Feed!Key(e), Feed!Key(f))
    BY <1>3, RowOrder DEF Rows
  <1>6. \A e, f \in page : Last(e) /\ Last(f) => e = f
    BY <1>5
  <1>7. ASSUME NEW e \in S \ page, NEW f \in page
        PROVE  Feed!Before(Feed!Key(f), Feed!Key(e))
    <2>1. SUFFICES ASSUME Feed!Before(Feed!Key(e), Feed!Key(f)) PROVE FALSE
      BY <1>3, RowOrder DEF Rows
    <2>2. \A g \in Above(S, e) : g \in Above(S, f)
      BY <1>3, <2>1, RowOrder DEF Above, Rows
    <2>3. Above(S, e) \in SUBSET Above(S, f) /\ Above(S, f) \in SUBSET S
      BY <2>2 DEF Above
    <2>4. /\ IsFiniteSet(Above(S, f)) /\ Cardinality(Above(S, e)) \in Nat
          /\ Cardinality(Above(S, f)) \in Nat
      BY <2>3, Counted
    <2>5. Cardinality(Above(S, e)) <= Cardinality(Above(S, f))
      BY <2>3, <2>4, FS_Subset
    <2>6. RowsPerPage \in Nat
      BY PagingBounds
    <2> QED
      BY <1>1, <2>4, <2>5, <2>6
  <1>8. ASSUME NEW e \in S \ page
        PROVE  \E n \in next : Feed!Before(n, Feed!Key(e))
    <2>1. page # {}
      <3>1. PICK f \in S : Above(S, f) = {}
        BY NewestRow
      <3>2. Cardinality(Above(S, f)) = 0
        BY <3>1, FS_EmptySet
      <3> QED
        BY <1>1, <3>2, PagingBounds
    <2>2. PICK f \in page : Under(page, f) = {}
      BY <1>3, <2>1, OldestRow
    <2>3. Last(f)
      BY <1>3, <2>2, RowOrder DEF Under, Rows
    <2>4. Feed!Key(f) \in next
      BY <1>2, <2>3
    <2> QED
      BY <1>7, <2>4
  <1>9. \A n, m \in next : n = m
    BY <1>4, <1>6
  <1>10. \A n \in next, e \in page : ~Feed!Before(n, Feed!Key(e))
    BY <1>4, <1>5
  <1> QED
    BY <1>3, <1>4, <1>8, <1>9, <1>10 DEF page, next

(* An event that "Load more" still reaches. *)
Beneath(cursors, e) == \E c \in cursors : Feed!Before(c, Feed!Key(e))
OneKey(cursors) == cursors \subseteq RowKey /\ \A c, d \in cursors : c = d

TimesInv ==
  /\ clock \in Nat /\ Rows(events) /\ (\A e \in events : e.at <= clock)
  /\ first \subseteq events
  /\ seenAt \subseteq Nat /\ (\A t \in seenAt : t <= clock)
  /\ \A e \in events, t \in seenAt : e \in first \/ e \in missed \/ e.at > t

(* An event is on one page at most, above the cursor; those there were at the *)
(* first read are on a page or below it.                                      *)
PagesInv ==
  /\ IsSeq(pages) /\ OneKey(eventsCursor) /\ (pages = <<>> => eventsCursor = {})
  /\ \A i \in DOMAIN pages : pages[i] \subseteq events
  /\ \A i, j \in DOMAIN pages : pages[i] \cap pages[j] # {} => i = j
  /\ \A i \in DOMAIN pages : \A e \in pages[i] : ~Beneath(eventsCursor, e)
  /\ pages # <<>> => \A e \in first : Beneath(eventsCursor, e) \/ \E i \in DOMAIN pages : e \in pages[i]

(* What a call brings continues what is listed where the cursor is.           *)
CallOK(l) ==
  /\ DOMAIN l = {"after", "read", "page", "next"}
  /\ l.after = {} => pages = <<>> /\ eventsCursor = {} /\ seenAt = {} /\ ~marking
  /\ l.after # {} => pages # <<>> /\ l.after = eventsCursor
  /\ l.read => /\ l.page \subseteq events /\ OneKey(l.next)
               /\ \A n \in l.next : \E e \in l.page : n = Feed!Key(e)
               /\ \A e \in l.page : ~Beneath(l.next, e) /\ (l.after # {} => Beneath(l.after, e))
               /\ \A e \in first : l.after = {} \/ Beneath(l.after, e) =>
                                     e \in l.page \/ Beneath(l.next, e)

FeedInv == TimesInv /\ PagesInv /\ \A l \in listing : CallOK(l)

LEMMA FeedStarts == Feed!Init => FeedInv
  <1> SUFFICES ASSUME Feed!Init PROVE FeedInv
    OBVIOUS
  <1>1. /\ clock = 1 /\ events = {} /\ pages = <<>> /\ eventsCursor = {} /\ listing = {Feed!Call({})}
        /\ marking = FALSE /\ seenAt = {} /\ first = {} /\ missed = {}
    BY DEF Feed!Init
  <1>2. Rows(events)
    BY <1>1, FS_EmptySet DEF Rows
  <1>3. TimesInv
    BY <1>1, <1>2 DEF TimesInv
  <1>4. IsSeq(pages)
    <2>1. pages \in Seq({})
      BY <1>1
    <2> QED
      BY <2>1 DEF IsSeq
  <1>5. PagesInv
    BY <1>1, <1>4 DEF PagesInv, OneKey
  <1>6. CallOK(Feed!Call({}))
    BY <1>1 DEF CallOK, Feed!Call
  <1> QED
    BY <1>1, <1>3, <1>5, <1>6 DEF FeedInv

LEMMA RecordStep ==
  ASSUME FeedInv, NEW id \in EventId, NEW ticks \in 1 .. 2, Feed!Record(id, ticks)
  PROVE  FeedInv'
  <1> DEFINE e == [id |-> id, at |-> clock']
  <1>1. /\ \A f \in events : f.id # id
        /\ clock' = clock + ticks /\ events' = events \cup {e}
        /\ UNCHANGED <<pages, eventsCursor, listing, marking, seenAt, first, missed>>
    BY DEF Feed!Record
  <1>2. clock' \in Nat /\ clock' > clock /\ clock \in Nat
    BY <1>1 DEF FeedInv, TimesInv
  <1>3. e \in Row /\ e.id = id /\ e.at = clock'
    BY <1>2 DEF Row
  <1> HIDE DEF e
  <1>4. Rows(events)'
    <2>1. IsFiniteSet(events')
      BY <1>1, FS_AddElement DEF FeedInv, TimesInv, Rows
    <2> QED
      BY <1>1, <1>3, <2>1 DEF FeedInv, TimesInv, Rows
  <1>5. \A f \in events' : f.at <= clock'
    BY <1>1, <1>2, <1>3 DEF FeedInv, TimesInv, Rows, Row
  <1>6. \A t \in seenAt' : t \in Nat /\ t <= clock' /\ e.at > t
    BY <1>1, <1>2, <1>3 DEF FeedInv, TimesInv
  <1>7. TimesInv'
    BY <1>1, <1>2, <1>4, <1>5, <1>6 DEF FeedInv, TimesInv
  <1>8. PagesInv'
    BY <1>1 DEF FeedInv, PagesInv, Beneath
  <1>9. \A l \in listing' : CallOK(l)'
    BY <1>1 DEF FeedInv, CallOK, Beneath
  <1> QED
    BY <1>7, <1>8, <1>9 DEF FeedInv

LEMMA ListStep ==
  ASSUME FeedInv, NEW l \in listing, Feed!List(l)
  PROVE  FeedInv'
  <1> DEFINE rows == Feed!After(l.after)
             page == Feed!FirstOf(rows)
             next == Feed!NextCursor(rows, page)
             r == [l EXCEPT !.read = TRUE, !.page = page, !.next = next]
  <1>1. /\ listing' = {r} /\ first' = IF l.after = {} THEN events ELSE first
        /\ UNCHANGED <<clock, events, pages, eventsCursor, marking, seenAt, missed>>
    BY DEF Feed!List
  <1>2. /\ CallOK(l) /\ OneKey(eventsCursor) /\ Rows(events) /\ first \subseteq events
        /\ TimesInv /\ PagesInv
    BY DEF FeedInv, PagesInv, TimesInv
  <1>3. rows \subseteq events /\ Rows(rows)
    BY <1>2, FS_Subset DEF Feed!After, Rows
  <1>4. \A e \in events : e \in rows <=> l.after = {} \/ Beneath(l.after, e)
    <2>1. CASE l.after = {}
      BY <2>1 DEF Feed!After
    <2>2. CASE l.after # {}
      <3>1. PICK c : l.after = {c} /\ c \in RowKey
        BY <1>2, <2>2 DEF CallOK, OneKey
      <3>2. \A e \in events : Feed!Below(c, Feed!Key(e)) <=> Feed!Before(c, Feed!Key(e))
        BY <1>2, <3>1, RowKeys, BeforeOrders DEF Rows
      <3> QED
        BY <2>2, <3>1, <3>2 DEF Feed!After, Beneath
    <2> QED
      BY <2>1, <2>2
  <1> HIDE DEF rows
  <1>5. /\ page \subseteq rows
        /\ \A n \in next : \E e \in page : n = Feed!Key(e)
        /\ \A n \in next, e \in page : ~Feed!Before(n, Feed!Key(e))
        /\ \A n, m \in next : n = m
        /\ \A e \in rows \ page : \E n \in next : Feed!Before(n, Feed!Key(e))
    BY <1>3, PageOfRows
  <1> HIDE DEF page, next
  <1>6. /\ DOMAIN r = {"after", "read", "page", "next"} /\ r.after = l.after
        /\ r.read = TRUE /\ r.page = page /\ r.next = next
    BY <1>2 DEF CallOK
  <1> HIDE DEF r
  <1>7. OneKey(next)
    BY <1>2, <1>3, <1>5, RowKeys DEF OneKey, Rows
  <1>8. \A e \in first' : l.after = {} \/ Beneath(l.after, e) => e \in page \/ Beneath(next, e)
    BY <1>1, <1>2, <1>4, <1>5 DEF Beneath
  <1>9. \A e \in page : ~Beneath(next, e) /\ (l.after # {} => Beneath(l.after, e))
    <2>1. \A e \in page : ~Beneath(next, e)
      BY <1>5 DEF Beneath
    <2>2. \A e \in page : l.after # {} => Beneath(l.after, e)
      BY <1>3, <1>4, <1>5
    <2> QED
      BY <2>1, <2>2
  <1>10. ASSUME NEW m \in listing' PROVE CallOK(m)'
    <2>0. /\ DOMAIN m = {"after", "read", "page", "next"} /\ m.after = l.after
          /\ m.page = page /\ m.next = next
      BY <1>1, <1>6
    <2>1. /\ m.page \subseteq events' /\ OneKey(m.next)
          /\ \A n \in m.next : \E e \in m.page : n = Feed!Key(e)
          /\ \A e \in m.page : ~Beneath(m.next, e) /\ (m.after # {} => Beneath(m.after, e))
          /\ \A e \in first' : m.after = {} \/ Beneath(m.after, e) =>
                                 e \in m.page \/ Beneath(m.next, e)
      BY <1>1, <1>3, <1>5, <1>7, <1>8, <1>9, <2>0
    <2>2. /\ m.after = {} => pages' = <<>> /\ eventsCursor' = {} /\ seenAt' = {} /\ ~marking'
          /\ m.after # {} => pages' # <<>> /\ m.after = eventsCursor'
      BY <1>1, <1>2, <2>0 DEF CallOK
    <2> QED
      BY <2>0, <2>1, <2>2 DEF CallOK
  <1>11. TimesInv'
    BY <1>1, <1>2 DEF TimesInv, CallOK
  <1>12. PagesInv'
    <2>1. pages' # <<>> => first' = first
      BY <1>1, <1>2 DEF CallOK
    <2> QED
      BY <1>1, <1>2, <2>1 DEF PagesInv, Beneath
  <1> QED
    BY <1>1, <1>10, <1>11, <1>12 DEF FeedInv

LEMMA FirstShown ==
  ASSUME FeedInv, NEW l \in listing, Feed!ShowFirst(l)
  PROVE  FeedInv'
  <1>1. /\ l.read /\ l.after = {} /\ pages' = <<l.page>> /\ eventsCursor' = l.next /\ listing' = {}
        /\ UNCHANGED <<clock, events, seenAt, first, missed>>
    BY DEF Feed!ShowFirst
  <1>2. CallOK(l) /\ TimesInv
    BY DEF FeedInv
  <1>3. /\ l.page \subseteq events /\ OneKey(l.next)
        /\ \A e \in l.page : ~Beneath(l.next, e)
        /\ \A e \in first : e \in l.page \/ Beneath(l.next, e)
    BY <1>1, <1>2 DEF CallOK
  <1>4. IsSeq(pages') /\ DOMAIN pages' = {1} /\ pages'[1] = l.page /\ pages' # <<>>
    <2>1. /\ <<l.page>> \in Seq({l.page}) /\ <<l.page>> # <<>>
          /\ DOMAIN <<l.page>> = {1} /\ <<l.page>>[1] = l.page
      OBVIOUS
    <2> QED
      BY <1>1, <2>1, Zenon DEF IsSeq
  <1>5. PagesInv'
    <2>1. \A i \in DOMAIN pages' : i = 1 /\ pages'[i] = l.page
      BY <1>4
    <2>2. \A i \in DOMAIN pages' : \A e \in pages'[i] : ~Beneath(eventsCursor', e)
      BY <1>1, <1>3, <2>1
    <2>3. \A e \in first' : Beneath(eventsCursor', e) \/ \E i \in DOMAIN pages' : e \in pages'[i]
      BY <1>1, <1>3, <1>4
    <2> QED
      BY <1>1, <1>3, <1>4, <2>1, <2>2, <2>3 DEF PagesInv
  <1>6. TimesInv'
    BY <1>1, <1>2 DEF TimesInv
  <1> QED
    BY <1>1, <1>5, <1>6 DEF FeedInv

LEMMA MoreShown ==
  ASSUME FeedInv, NEW l \in listing, Feed!ShowMore(l)
  PROVE  FeedInv'
  <1>1. /\ l.read /\ l.after # {} /\ pages' = Append(pages, l.page) /\ eventsCursor' = l.next
        /\ listing' = {} /\ UNCHANGED <<clock, events, seenAt, first, missed>>
    BY DEF Feed!ShowMore
  <1>2. CallOK(l) /\ TimesInv /\ PagesInv
    BY DEF FeedInv
  <1>3. /\ l.page \subseteq events /\ OneKey(l.next) /\ l.after = eventsCursor /\ pages # <<>>
        /\ \A n \in l.next : \E e \in l.page : n = Feed!Key(e)
        /\ \A e \in l.page : ~Beneath(l.next, e) /\ Beneath(eventsCursor, e)
        /\ \A e \in first : Beneath(eventsCursor, e) => e \in l.page \/ Beneath(l.next, e)
    BY <1>1, <1>2 DEF CallOK
  <1>4. PICK n \in Nat : /\ DOMAIN pages = 1 .. n /\ DOMAIN pages' = 1 .. (n + 1)
                         /\ IsSeq(pages') /\ pages'[n + 1] = l.page
                         /\ \A i \in 1 .. n : pages'[i] = pages[i]
    <2>1. PICK S : pages \in Seq(S)
      BY <1>2 DEF PagesInv, IsSeq
    <2>2. pages \in Seq(S \cup {l.page}) /\ l.page \in S \cup {l.page}
      BY <2>1
    <2>3. /\ pages' \in Seq(S \cup {l.page}) /\ Len(pages') = Len(pages) + 1
          /\ pages'[Len(pages) + 1] = l.page
          /\ \A i \in 1 .. Len(pages) : pages'[i] = pages[i]
      BY <1>1, <2>2, AppendProperties
    <2>4. Len(pages) \in Nat /\ DOMAIN pages = 1 .. Len(pages) /\ DOMAIN pages' = 1 .. Len(pages')
      BY <2>2, <2>3, LenProperties
    <2> QED
      BY <2>3, <2>4 DEF IsSeq
  <1>5. ASSUME NEW i \in 1 .. n, NEW e \in pages[i]
        PROVE  ~Beneath(eventsCursor, e) /\ ~Beneath(l.next, e) /\ e \in events
    <2>1. ~Beneath(eventsCursor, e) /\ e \in events
      BY <1>2, <1>4 DEF PagesInv
    <2>2. ASSUME NEW m \in l.next, Feed!Before(m, Feed!Key(e)) PROVE FALSE
      <3>1. PICK p \in l.page : m = Feed!Key(p)
        BY <1>3
      <3>2. PICK c \in eventsCursor : Feed!Before(c, Feed!Key(p))
        BY <1>3 DEF Beneath
      <3>3. c \in RowKey /\ Feed!Key(p) \in RowKey /\ Feed!Key(e) \in RowKey
        BY <1>2, <1>3, <2>1, RowKeys DEF PagesInv, OneKey, TimesInv, Rows
      <3>4. Feed!Before(c, Feed!Key(e))
        BY <2>2, <3>1, <3>2, <3>3, BeforeOrders
      <3> QED
        BY <2>1, <3>4 DEF Beneath
    <2> QED
      BY <2>1, <2>2 DEF Beneath
  <1>6. \A i \in DOMAIN pages' : \/ (i \in 1 .. n /\ pages'[i] = pages[i])
                                \/ (i = n + 1 /\ pages'[i] = l.page)
    BY <1>4
  <1>7. ASSUME NEW i \in DOMAIN pages', NEW j \in DOMAIN pages', pages'[i] \cap pages'[j] # {}
        PROVE  i = j
    <2>1. PICK e : e \in pages'[i] /\ e \in pages'[j]
      BY <1>7
    <2>2. CASE e \in l.page
      <3>1. i = n + 1 /\ j = n + 1
        BY <1>3, <1>5, <1>6, <2>1, <2>2
      <3> QED
        BY <3>1
    <2>3. CASE e \notin l.page
      <3>1. i \in 1 .. n /\ j \in 1 .. n /\ e \in pages[i] \cap pages[j]
        BY <1>6, <2>1, <2>3
      <3> QED
        BY <1>2, <1>4, <3>1 DEF PagesInv
    <2> QED
      BY <2>2, <2>3
  <1>8. \A i \in DOMAIN pages' : pages'[i] \subseteq events
    BY <1>3, <1>5, <1>6
  <1>9. \A i \in DOMAIN pages' : \A e \in pages'[i] : ~Beneath(l.next, e)
    BY <1>3, <1>5, <1>6
  <1>10. \A e \in first : Beneath(l.next, e) \/ \E i \in DOMAIN pages' : e \in pages'[i]
    <2> SUFFICES ASSUME NEW e \in first, ~Beneath(l.next, e)
                 PROVE  \E i \in DOMAIN pages' : e \in pages'[i]
      OBVIOUS
    <2>1. CASE Beneath(eventsCursor, e)
      BY <1>3, <1>4, <2>1
    <2>2. CASE \E i \in DOMAIN pages : e \in pages[i]
      BY <1>4, <2>2
    <2> QED
      BY <1>2, <1>3, <2>1, <2>2 DEF PagesInv
  <1>11. pages' # <<>>
    BY <1>4
  <1>12. PagesInv'
    BY <1>1, <1>3, <1>4, <1>7, <1>8, <1>9, <1>10, <1>11 DEF PagesInv
  <1>13. TimesInv'
    BY <1>1, <1>2 DEF TimesInv
  <1> QED
    BY <1>1, <1>12, <1>13 DEF FeedInv

LEMMA MarkStep ==
  ASSUME FeedInv, Feed!MarkSeen
  PROVE  FeedInv'
  <1>1. /\ marking /\ marking' = FALSE
        /\ UNCHANGED <<clock, events, pages, eventsCursor, listing, first>>
    BY DEF Feed!MarkSeen
  <1>2. TimesInv'
    <2>1. CASE seenAt' = {2 * Feed!Ms(clock)} /\ missed' = events \ first
      <3>1. 2 * Feed!Ms(clock) \in Nat /\ 2 * Feed!Ms(clock) <= clock
        BY DEF Feed!Ms, FeedInv, TimesInv
      <3> QED
        BY <1>1, <2>1, <3>1 DEF FeedInv, TimesInv
    <2>2. CASE UNCHANGED <<seenAt, missed>>
      BY <1>1, <2>2 DEF FeedInv, TimesInv
    <2> QED
      BY <2>1, <2>2 DEF Feed!MarkSeen
  <1>3. PagesInv'
    BY <1>1 DEF FeedInv, PagesInv, Beneath
  <1>4. \A l \in listing' : CallOK(l)'
    BY <1>1 DEF FeedInv, CallOK, Beneath
  <1> QED
    BY <1>2, <1>3, <1>4 DEF FeedInv

LEMMA OtherFeedSteps ==
  ASSUME FeedInv, 
         \/ Feed!LoadMore \/ Feed!CountUnread
         \/ \E l \in listing : Feed!FirstFails(l) \/ Feed!MoreFails(l)
  PROVE  FeedInv'
  <1>1. UNCHANGED <<clock, events, pages, eventsCursor, marking, seenAt, first, missed>>
    BY DEF Feed!LoadMore, Feed!CountUnread, Feed!FirstFails, Feed!MoreFails
  <1>2. TimesInv' /\ PagesInv'
    <2>1. TimesInv'
      BY <1>1 DEF FeedInv, TimesInv
    <2>2. PagesInv'
      BY <1>1 DEF FeedInv, PagesInv, Beneath
    <2> QED
      BY <2>1, <2>2
  <1>3. \A l \in listing' : CallOK(l)'
    <2>1. CASE Feed!LoadMore
      <3>1. eventsCursor # {} /\ listing' = {Feed!Call(eventsCursor)} /\ pages # <<>>
        BY <2>1 DEF Feed!LoadMore, Feed!CanLoadMore, FeedInv, PagesInv
      <3>2. /\ DOMAIN Feed!Call(eventsCursor) = {"after", "read", "page", "next"}
            /\ Feed!Call(eventsCursor).after = eventsCursor /\ Feed!Call(eventsCursor).read = FALSE
        BY DEF Feed!Call
      <3> QED
        BY <1>1, <3>1, <3>2 DEF CallOK
    <2>2. CASE listing' = {} \/ listing' = listing
      BY <1>1, <2>2 DEF FeedInv, CallOK, Beneath
    <2> QED
      BY <2>1, <2>2 DEF Feed!CountUnread, Feed!FirstFails, Feed!MoreFails
  <1> QED
    BY <1>2, <1>3 DEF FeedInv

LEMMA FeedSteps ==
  ASSUME FeedInv, Feed!Next
  PROVE  FeedInv'
  <1>1. CASE \E id \in EventId, ticks \in 1 .. 2 : Feed!Record(id, ticks)
    BY <1>1, RecordStep
  <1>2. CASE \E l \in listing : Feed!List(l)
    BY <1>2, ListStep
  <1>3. CASE \E l \in listing : Feed!ShowFirst(l)
    BY <1>3, FirstShown
  <1>4. CASE \E l \in listing : Feed!ShowMore(l)
    BY <1>4, MoreShown
  <1>5. CASE Feed!MarkSeen
    BY <1>5, MarkStep
  <1>6. CASE \/ Feed!LoadMore \/ Feed!CountUnread
             \/ \E l \in listing : Feed!FirstFails(l) \/ Feed!MoreFails(l)
    BY <1>6, OtherFeedSteps
  <1> QED
    BY <1>1, <1>2, <1>3, <1>4, <1>5, <1>6, Zenon DEF Feed!Next

LEMMA FeedStays == FeedInv /\ UNCHANGED feedVars => FeedInv'
  <1> SUFFICES ASSUME FeedInv, UNCHANGED feedVars PROVE FeedInv'
    OBVIOUS
  <1>1. UNCHANGED <<clock, events, pages, eventsCursor, listing, marking, seenAt, first, missed>>
    BY DEF feedVars
  <1> QED
    BY <1>1 DEF FeedInv, TimesInv, PagesInv, CallOK, Beneath

LEMMA FeedListed == FeedInv => FeedComplete
  <1> SUFFICES ASSUME FeedInv, pages # <<>>, NEW e \in events
               PROVE  LET listed == {i \in DOMAIN pages : e \in pages[i]}
                          reached == \A c \in eventsCursor : ~Feed!Before(c, Feed!Key(e))
                      IN  IF listed # {} THEN Feed!Cardinality(listed) = 1 /\ reached
                          ELSE ~reached \/ e \in Feed!Unread \/ e \in missed
    BY DEF FeedComplete, Feed!FeedComplete
  <1> DEFINE listed == {i \in DOMAIN pages : e \in pages[i]}
  <1>1. CASE listed # {}
    <2>1. PICK i \in DOMAIN pages : e \in pages[i]
      BY <1>1
    <2>2. \A j \in listed : j = i
      BY <2>1 DEF FeedInv, PagesInv
    <2>3. listed = {i}
      BY <2>1, <2>2
    <2>4. Feed!Cardinality(listed) = 1
      BY <2>3, FS_Singleton, FeedCounts
    <2>5. \A c \in eventsCursor : ~Feed!Before(c, Feed!Key(e))
      BY <2>1 DEF FeedInv, PagesInv, Beneath
    <2> QED
      BY <1>1, <2>4, <2>5
  <1>2. CASE listed = {}
    <2>1. CASE e \in first
      BY <1>2, <2>1 DEF FeedInv, PagesInv, Beneath
    <2>2. CASE e \notin first
      BY <1>2, <2>2 DEF FeedInv, TimesInv, Feed!Unread
    <2> QED
      BY <2>1, <2>2
  <1> QED
    BY <1>1, <1>2

LEMMA FeedAlone ==
  ASSUME [Next]_vars
  PROVE  Feed!Next \/ UNCHANGED feedVars
  BY DEF Next, vars, AtChat, AtDocuments, AtRuns, AtTickets, AtDatasets, AtSearch, AtComposer, AtFeed

(* For any number of events, pages and failing calls: an event is listed once, *)
(* or below the cursor, or unread, unless it came between the first read and   *)
(* the mark (EventsService, the overview page and the badge).                  *)
THEOREM EveryEventReached == Spec => []FeedComplete
  <1>1. Init => FeedInv
    BY FeedStarts DEF Init
  <1>2. FeedInv /\ [Next]_vars => FeedInv'
    BY FeedSteps, FeedStays, FeedAlone
  <1> QED
    BY <1>1, <1>2, FeedListed, PTL DEF Spec
-----------------------------------------------------------------------------
(* The chat page *)

LEMMA ChatCounts == \A S : Chat!Cardinality(S) = Cardinality(S)
  BY DEF Chat!Cardinality, Cardinality

(* The turns some messages are of. *)
Turns(messages) == {messages[i].turn : i \in DOMAIN messages}

LEMMA NoTurns == Turns(<<>>) = {}
  BY DEF Turns

LEMMA TurnsAppended ==
  ASSUME NEW m, IsSeq(m), NEW e
  PROVE  IsSeq(Append(m, e)) /\ Turns(Append(m, e)) = Turns(m) \cup {e.turn}
  <1>1. PICK S : m \in Seq(S)
    BY DEF IsSeq
  <1>2. m \in Seq(S \cup {e}) /\ e \in S \cup {e}
    BY <1>1
  <1>3. /\ Append(m, e) \in Seq(S \cup {e}) /\ Len(Append(m, e)) = Len(m) + 1
        /\ \A i \in 1 .. Len(m) : Append(m, e)[i] = m[i]
        /\ Append(m, e)[Len(m) + 1] = e
    BY <1>2, AppendProperties
  <1>4. Len(m) \in Nat /\ DOMAIN m = 1 .. Len(m) /\ DOMAIN Append(m, e) = 1 .. Len(m) + 1
    BY <1>2, <1>3, LenProperties
  <1>5. Turns(Append(m, e)) \subseteq Turns(m) \cup {e.turn}
    BY <1>3, <1>4 DEF Turns
  <1>6. Turns(m) \subseteq Turns(Append(m, e)) /\ e.turn \in Turns(Append(m, e))
    BY <1>3, <1>4 DEF Turns
  <1> QED
    BY <1>3, <1>5, <1>6 DEF IsSeq

LEMMA TurnsJoined ==
  ASSUME NEW m, IsSeq(m), NEW n, IsSeq(n)
  PROVE  IsSeq(m \o n) /\ Turns(m \o n) \subseteq Turns(m) \cup Turns(n)
  <1>1. PICK S, T : m \in Seq(S) /\ n \in Seq(T)
    BY DEF IsSeq
  <1>2. m \in Seq(S \cup T) /\ n \in Seq(S \cup T)
    BY <1>1
  <1>3. /\ m \o n \in Seq(S \cup T) /\ Len(m \o n) = Len(m) + Len(n)
        /\ \A i \in 1 .. Len(m) + Len(n) :
             (m \o n)[i] = IF i <= Len(m) THEN m[i] ELSE n[i - Len(m)]
    BY <1>2, ConcatProperties
  <1>4. /\ Len(m) \in Nat /\ DOMAIN m = 1 .. Len(m) /\ Len(n) \in Nat /\ DOMAIN n = 1 .. Len(n)
        /\ DOMAIN (m \o n) = 1 .. Len(m) + Len(n)
    BY <1>2, <1>3, LenProperties
  <1>5. ASSUME NEW i \in DOMAIN (m \o n) PROVE (m \o n)[i].turn \in Turns(m) \cup Turns(n)
    <2>1. CASE i <= Len(m)
      BY <1>3, <1>4, <2>1 DEF Turns
    <2>2. CASE ~(i <= Len(m))
      <3>1. i - Len(m) \in DOMAIN n /\ (m \o n)[i] = n[i - Len(m)]
        BY <1>3, <1>4, <2>2
      <3> QED
        BY <3>1 DEF Turns
    <2> QED
      BY <2>1, <2>2
  <1> QED
    BY <1>3, <1>5 DEF IsSeq, Turns

(* A part of some messages. *)
LEMMA TurnsOfPart ==
  ASSUME NEW m, IsSeq(m), NEW a \in Nat, NEW b \in Nat, b <= Len(m)
  PROVE  IsSeq(SubSeq(m, a + 1, b)) /\ Turns(SubSeq(m, a + 1, b)) \subseteq Turns(m)
  <1>1. Len(m) \in Nat /\ DOMAIN m = 1 .. Len(m)
    BY LenProperties DEF IsSeq
  <1>2. /\ SubSeq(m, a + 1, b) \in Seq({m[i] : i \in a + 1 .. b})
        /\ Len(SubSeq(m, a + 1, b)) = IF a + 1 <= b THEN b - (a + 1) + 1 ELSE 0
        /\ \A i \in 1 .. b - (a + 1) + 1 : SubSeq(m, a + 1, b)[i] = m[a + 1 + i - 1]
    BY SubSeqProperties
  <1>3. DOMAIN SubSeq(m, a + 1, b) = 1 .. Len(SubSeq(m, a + 1, b))
    BY <1>2, LenProperties
  <1>4. ASSUME NEW i \in DOMAIN SubSeq(m, a + 1, b) PROVE SubSeq(m, a + 1, b)[i].turn \in Turns(m)
    <2>1. i \in 1 .. b - (a + 1) + 1
      BY <1>2, <1>3
    <2>2. a + 1 + i - 1 \in DOMAIN m /\ SubSeq(m, a + 1, b)[i] = m[a + 1 + i - 1]
      BY <1>1, <1>2, <2>1
    <2> QED
      BY <2>2 DEF Turns
  <1> QED
    BY <1>2, <1>4 DEF IsSeq, Turns

LEMMA TurnsWithoutAnswer ==
  ASSUME NEW m, IsSeq(m), NEW i \in DOMAIN m
  PROVE  IsSeq(Chat!WithoutAnswer(m)) /\ Turns(Chat!WithoutAnswer(m)) \subseteq Turns(m)
  <1>1. Len(m) \in Nat /\ Len(m) # 0
    BY LenProperties DEF IsSeq
  <1>2. IsSeq(SubSeq(m, 0 + 1, Len(m) - 1)) /\ Turns(SubSeq(m, 0 + 1, Len(m) - 1)) \subseteq Turns(m)
    BY <1>1, TurnsOfPart
  <1> QED
    BY <1>2 DEF Chat!WithoutAnswer

(* The rows of a table at some places are rows of the table. *)
LEMMA PlaceOfRow ==
  ASSUME NEW n \in Nat, NEW P \in SUBSET (1 .. n), NEW k \in 1 .. Cardinality(P)
  PROVE  Chat!Place(P, k) \in P
  <1> DEFINE upto(i) == {j \in P : j <= i}
             T == {i \in Nat : Cardinality(upto(i)) >= k}
  <1>1. IsFiniteSet(P) /\ Cardinality(P) \in Nat /\ k \in Nat /\ k # 0
    <2>1. IsFiniteSet(1 .. n) /\ P \subseteq 1 .. n
      BY FS_Interval
    <2>2. IsFiniteSet(P)
      BY <2>1, FS_Subset, Zenon
    <2> QED
      BY <2>2, FS_CardinalityType
  <1>2. \A i \in Nat : IsFiniteSet(upto(i)) /\ Cardinality(upto(i)) \in Nat
    BY <1>1, FS_Subset, FS_CardinalityType
  <1>3. n \in T
    <2>1. \A j \in P : j <= n
      OBVIOUS
    <2>2. upto(n) = P
      BY <2>1
    <2> QED
      BY <1>1, <2>2
  <1>4. PICK i \in Nat : /\ Cardinality(upto(i)) >= k
                        /\ \A h \in Nat : Cardinality(upto(h)) >= k => i <= h
    <2>1. T \in SUBSET Nat /\ T # {}
      BY <1>3
    <2>2. PICK i \in T : \A h \in T : i <= h
      <3> HIDE DEF T
      <3> QED
        BY <2>1, LeastNat
    <2>3. i \in Nat /\ Cardinality(upto(i)) >= k
      BY <2>2
    <2>4. \A h \in Nat : Cardinality(upto(h)) >= k => i <= h
      BY <2>2
    <2> QED
      BY <2>3, <2>4
  <1>5. i # 0
    <2>1. \A j \in P : ~(j <= 0)
      OBVIOUS
    <2>2. upto(0) = {}
      BY <2>1
    <2>3. Cardinality(upto(0)) = 0
      BY <2>2, FS_EmptySet
    <2> QED
      BY <1>1, <1>4, <2>3
  <1>6. i - 1 \in Nat /\ \A j \in P : j <= i <=> j <= i - 1 \/ j = i
    BY <1>5
  <1>7. Cardinality(upto(i - 1)) < k
    <2>1. ~(Cardinality(upto(i - 1)) >= k)
      <3> HIDE DEF upto
      <3> QED
        BY <1>4, <1>6
    <2>2. Cardinality(upto(i - 1)) \in Nat
      BY <1>2, <1>6
    <2> HIDE DEF upto
    <2> QED
      BY <1>1, <2>1, <2>2
  <1>8. i \in P
    <2> SUFFICES ASSUME i \notin P PROVE FALSE
      OBVIOUS
    <2>1. upto(i) = upto(i - 1)
      BY <1>6
    <2> QED
      BY <1>1, <1>2, <1>4, <1>7, <2>1
  <1>9. Cardinality(upto(i)) = k
    <2>0. ~(i <= i - 1)
      OBVIOUS
    <2>1. upto(i) = upto(i - 1) \cup {i} /\ i \notin upto(i - 1)
      <3>1. upto(i) = upto(i - 1) \cup {i}
        BY <1>6, <1>8
      <3> QED
        BY <2>0, <3>1
    <2>2. IsFiniteSet(upto(i - 1)) /\ Cardinality(upto(i - 1)) \in Nat
      BY <1>2, <1>6
    <2>3. Cardinality(upto(i)) = Cardinality(upto(i - 1)) + 1
      <3> HIDE DEF upto
      <3> QED
        BY <2>1, <2>2, FS_AddElement
    <2> QED
      BY <1>1, <1>4, <1>7, <2>2, <2>3
  <1>10. \E j \in P : Chat!Cardinality({h \in P : h <= j}) = k
    BY <1>8, <1>9, ChatCounts
  <1> QED
    BY <1>10 DEF Chat!Place

LEMMA RowsOfPlaces ==
  ASSUME NEW s, IsSeq(s), NEW P \in SUBSET DOMAIN s
  PROVE  /\ IsSeq(Chat!Kept(s, P))
         /\ \A k \in DOMAIN Chat!Kept(s, P) : \E i \in P : Chat!Kept(s, P)[k] = s[i]
  <1> DEFINE g == Chat!Kept(s, P)
  <1>1. Len(s) \in Nat /\ DOMAIN s = 1 .. Len(s)
    BY LenProperties DEF IsSeq
  <1>2. Cardinality(P) \in Nat
    <2>1. IsFiniteSet(DOMAIN s)
      BY <1>1, FS_Interval
    <2>2. IsFiniteSet(P)
      BY <2>1, FS_Subset, Zenon
    <2> QED
      BY <2>2, FS_CardinalityType
  <1>3. g = [k \in 1 .. Cardinality(P) |-> s[Chat!Place(P, k)]]
    BY ChatCounts DEF Chat!Kept
  <1>4. \A k \in 1 .. Cardinality(P) : Chat!Place(P, k) \in P
    BY <1>1, PlaceOfRow
  <1> HIDE DEF g
  <1>5. DOMAIN g = 1 .. Cardinality(P) /\ \A k \in DOMAIN g : g[k] = s[Chat!Place(P, k)]
    BY <1>3
  <1>6. g = [k \in 1 .. Cardinality(P) |-> g[k]]
    BY <1>3
  <1>7. IsSeq(g)
    BY <1>2, <1>6, FunctionIsSeq
  <1> QED
    BY <1>4, <1>5, <1>7 DEF g

(* The requests the server keeps: one that was asked has its session.         *)
TurnRow == [session : Nat, state : {"posted", "asked", "answering", "done", "broken", "failed",
                                    "refused", "lost"}]

TurnsOK(turns) ==
  /\ turns \in Seq(TurnRow)
  /\ \A t \in DOMAIN turns :
       turns[t].state \in {"asked", "answering", "done"} => turns[t].session # Chat!None

(* A stored message is in the session of its turn, which is settled.          *)
LogOK(turns, stored) ==
  /\ IsSeq(stored)
  /\ \A i \in DOMAIN stored :
       /\ stored[i].turn \in DOMAIN turns /\ stored[i].session # Chat!None
       /\ turns[stored[i].turn].session = stored[i].session

Known(turns, messages) == IsSeq(messages) /\ Turns(messages) \subseteq DOMAIN turns

(* A stream is of the session that was active when its question was posted.   *)
StreamOK(turns, s) ==
  /\ DOMAIN s = {"turn", "base", "active", "opened"}
  /\ s.turn \in DOMAIN turns /\ Known(turns, s.base) /\ s.active \in Nat
  /\ s.active # Chat!None => turns[s.turn].session = s.active

(* A load brings messages of the session it asks for. *)
LoadOK(turns, l) ==
  /\ DOMAIN l = {"kind", "session", "after", "answered", "items", "next"}
  /\ l.session \in Nat \ {Chat!None} /\ {l.after, l.next} \subseteq Nat
  /\ Known(turns, l.items) /\ \A t \in Turns(l.items) : turns[t].session = l.session

(* What is shown, and what a stream can bring back, is of one session. A new  *)
(* chat has no session yet: it shows the one turn whose stream will name it.  *)
InPlace(turns, session, messages, reading) ==
  /\ session # Chat!None => \A t \in Turns(messages) : turns[t].session = session
  /\ session = Chat!None =>
       \A t \in Turns(messages) : \E s \in reading : s.active = Chat!None /\ t = s.turn
  /\ \A r, s \in reading : r.active = Chat!None /\ s.active = Chat!None => r = s
  /\ \A s \in reading : \A t \in Turns(s.base) :
       t = s.turn \/ (s.active # Chat!None /\ turns[t].session = s.active)

ServerInv == sessions \in Nat /\ TurnsOK(turn) /\ LogOK(turn, log)

PageInv ==
  /\ active \in Nat /\ cursor \in Nat /\ pending \in Nat /\ Known(turn, shown)
  /\ \A s \in streams : StreamOK(turn, s)
  /\ \A l \in loads : LoadOK(turn, l)
  /\ strayed \/ InPlace(turn, active, shown, streams)

ChatInv == ServerInv /\ PageInv

LEMMA ChatStarts == Chat!Init => ChatInv
  <1> SUFFICES ASSUME Chat!Init PROVE ChatInv
    OBVIOUS
  <1>1. /\ log = <<>> /\ sessions = 0 /\ turn = <<>> /\ active = 0 /\ shown = <<>> /\ cursor = 0
        /\ streams = {} /\ pending = 0 /\ loads = {} /\ strayed = FALSE
    BY DEF Chat!Init, Chat!None
  <1>2. TurnsOK(turn)
    BY <1>1 DEF TurnsOK
  <1>3. LogOK(turn, log) /\ Known(turn, shown)
    BY <1>1, EmptyIsSeq, NoTurns DEF LogOK, Known
  <1>4. InPlace(turn, active, shown, streams)
    BY <1>1, NoTurns DEF InPlace
  <1> QED
    BY <1>1, <1>2, <1>3, <1>4 DEF ChatInv, ServerInv, PageInv

(* Requests are added, and get their session, which they keep.                *)
Grown(old, new) ==
  \A t \in DOMAIN old :
    t \in DOMAIN new /\ (old[t].session # Chat!None => new[t].session = old[t].session)

LEMMA GrownKeeps ==
  ASSUME NEW old, NEW new, Grown(old, new)
  PROVE  /\ \A m : Known(old, m) => Known(new, m)
         /\ \A s : StreamOK(old, s) => StreamOK(new, s)
         /\ \A l : LoadOK(old, l) => LoadOK(new, l)
         /\ \A stored : LogOK(old, stored) => LogOK(new, stored)
  <1>1. \A m : Known(old, m) => Known(new, m)
    BY DEF Grown, Known
  <1>2. \A s : StreamOK(old, s) => StreamOK(new, s)
    BY <1>1 DEF Grown, StreamOK
  <1>3. \A l : LoadOK(old, l) => LoadOK(new, l)
    BY <1>1 DEF Grown, LoadOK, Known
  <1>4. \A stored : LogOK(old, stored) => LogOK(new, stored)
    BY DEF Grown, LogOK
  <1> QED
    BY <1>1, <1>2, <1>3, <1>4

LEMMA GrownInPlace ==
  ASSUME NEW old, NEW new, Grown(old, new), NEW session, NEW m, Known(old, m), NEW reading,
         \A s \in reading : StreamOK(old, s), InPlace(old, session, m, reading)
  PROVE  InPlace(new, session, m, reading)
  <1>1. session # Chat!None => \A t \in Turns(m) : new[t].session = session
    BY DEF Grown, InPlace, Known
  <1>2. ASSUME NEW s \in reading, NEW t \in Turns(s.base)
        PROVE  t = s.turn \/ (s.active # Chat!None /\ new[t].session = s.active)
    <2>1. t \in DOMAIN old
      BY DEF StreamOK, Known
    <2> QED
      BY <2>1 DEF Grown, InPlace
  <1> QED
    BY <1>1, <1>2 DEF InPlace

-----------------------------------------------------------------------------
(* The steps of the server *)

LEMMA ServerKeeps ==
  ASSUME ChatInv, ServerInv', Grown(turn, turn'),
         UNCHANGED <<active, shown, cursor, streams, pending, loads, strayed>>
  PROVE  ChatInv'
  <1>1. /\ Known(turn', shown')
        /\ \A s \in streams' : StreamOK(turn', s)
        /\ \A l \in loads' : LoadOK(turn', l)
    BY GrownKeeps DEF ChatInv, PageInv
  <1>2. strayed \/ InPlace(turn', active, shown, streams)
    BY GrownInPlace DEF ChatInv, PageInv
  <1> QED
    BY <1>1, <1>2 DEF ChatInv, PageInv

(* One request goes on; its session stays, or it gets one.                    *)
LEMMA TurnGoesOn ==
  ASSUME TurnsOK(turn), NEW t \in DOMAIN turn, NEW row \in TurnRow,
         turn' = [turn EXCEPT ![t] = row],
         turn[t].session # Chat!None => row.session = turn[t].session,
         row.state \in {"asked", "answering", "done"} => row.session # Chat!None
  PROVE  TurnsOK(turn') /\ Grown(turn, turn') /\ DOMAIN turn' = DOMAIN turn /\ turn'[t] = row
  <1>1. turn' \in Seq(TurnRow) /\ DOMAIN turn' = DOMAIN turn
    BY DEF TurnsOK
  <1>2. \A u \in DOMAIN turn : turn'[u] = IF u = t THEN row ELSE turn[u]
    BY DEF TurnsOK
  <1>3. TurnsOK(turn')
    BY <1>1, <1>2 DEF TurnsOK
  <1>4. Grown(turn, turn')
    BY <1>1, <1>2 DEF Grown
  <1> QED
    BY <1>1, <1>2, <1>3, <1>4

(* A message is stored in the session of its turn.                            *)
LEMMA MessageStored ==
  ASSUME NEW turns, NEW stored, LogOK(turns, stored), NEW e, e.turn \in DOMAIN turns,
         e.session # Chat!None, turns[e.turn].session = e.session
  PROVE  LogOK(turns, Append(stored, e))
  <1>1. PICK S : stored \in Seq(S)
    BY DEF LogOK, IsSeq
  <1>2. stored \in Seq(S \cup {e}) /\ e \in S \cup {e}
    BY <1>1
  <1>3. /\ Append(stored, e) \in Seq(S \cup {e}) /\ Len(Append(stored, e)) = Len(stored) + 1
        /\ \A i \in 1 .. Len(stored) : Append(stored, e)[i] = stored[i]
        /\ Append(stored, e)[Len(stored) + 1] = e
    BY <1>2, AppendProperties
  <1>4. Len(stored) \in Nat /\ DOMAIN stored = 1 .. Len(stored)
        /\ DOMAIN Append(stored, e) = 1 .. Len(stored) + 1
    BY <1>2, <1>3, LenProperties
  <1>5. \A i \in DOMAIN Append(stored, e) :
          \/ i \in DOMAIN stored /\ Append(stored, e)[i] = stored[i]
          \/ Append(stored, e)[i] = e
    BY <1>3, <1>4
  <1>6. IsSeq(Append(stored, e))
    BY <1>3 DEF IsSeq
  <1> HIDE DEF IsSeq
  <1> QED
    BY <1>5, <1>6 DEF LogOK

LEMMA TurnStateIs ==
  ASSUME TurnsOK(turn), NEW t \in DOMAIN turn
  PROVE  turn[t] \in TurnRow /\ turn[t].session \in Nat
  <1>1. turn[t] \in TurnRow
    BY DEF TurnsOK
  <1> QED
    BY <1>1 DEF TurnRow

LEMMA AskStep ==
  ASSUME ChatInv, NEW t \in DOMAIN turn, Chat!Ask(t)
  PROVE  ChatInv'
  <1> DEFINE s == IF turn[t].session # Chat!None THEN turn[t].session ELSE sessions + 1
             row == [session |-> s, state |-> "asked"]
             e == [turn |-> t, role |-> "user", session |-> s]
  <1>1. /\ sessions' = IF s > sessions THEN s ELSE sessions
        /\ log' = Append(log, e) /\ turn' = [turn EXCEPT ![t] = row]
        /\ UNCHANGED <<active, shown, cursor, streams, pending, loads, strayed>>
    BY DEF Chat!Ask, Chat!Conv!Question, Chat!page, Chat!screen
  <1>2. sessions \in Nat /\ TurnsOK(turn) /\ LogOK(turn, log) /\ turn[t].session \in Nat
    BY TurnStateIs DEF ChatInv, ServerInv
  <1>3. s \in Nat /\ s # Chat!None /\ (turn[t].session # Chat!None => s = turn[t].session)
    BY <1>2 DEF Chat!None
  <1>4. sessions' \in Nat
    BY <1>1, <1>2, <1>3
  <1>5. row \in TurnRow /\ row.session = s /\ row.state = "asked"
    BY <1>3 DEF TurnRow
  <1>6. e.turn = t /\ e.session = s
    OBVIOUS
  <1> HIDE DEF s, row, e
  <1>7. TurnsOK(turn') /\ Grown(turn, turn') /\ DOMAIN turn' = DOMAIN turn /\ turn'[t] = row
    BY <1>1, <1>2, <1>3, <1>5, TurnGoesOn
  <1>8. LogOK(turn', log)
    BY <1>2, <1>7, GrownKeeps
  <1>9. LogOK(turn', Append(log, e))
    BY <1>3, <1>5, <1>6, <1>7, <1>8, MessageStored
  <1> QED
    BY <1>1, <1>4, <1>7, <1>9, ServerKeeps DEF ServerInv

LEMMA StateStep ==
  ASSUME ChatInv, NEW t \in DOMAIN turn, Chat!Respond(t) \/ Chat!Complete(t) \/ Chat!RespondFails(t)
  PROVE  ChatInv'
  <1> DEFINE e == [turn |-> t, role |-> "assistant", session |-> turn[t].session]
  <1>1. PICK state \in {"answering", "done", "failed", "refused", "broken", "lost"} :
          /\ turn' = [turn EXCEPT ![t].state = state]
          /\ state \in {"answering", "done"} => turn[t].state \in {"asked", "answering"}
          /\ log' = log \/ (log' = Append(log, e) /\ state = "done")
          /\ UNCHANGED <<sessions, active, shown, cursor, streams, pending, loads, strayed>>
    BY DEF Chat!Respond, Chat!Complete, Chat!RespondFails, Chat!Goto, Chat!At, Chat!Conv!Answer,
           Chat!page, Chat!screen
  <1> DEFINE row == [turn[t] EXCEPT !.state = state]
  <1>2. sessions \in Nat /\ TurnsOK(turn) /\ LogOK(turn, log) /\ turn[t] \in TurnRow
    BY TurnStateIs DEF ChatInv, ServerInv
  <1>3. row \in TurnRow /\ row.session = turn[t].session /\ row.state = state
    BY <1>2 DEF TurnRow
  <1>4. state \in {"answering", "done"} => row.session # Chat!None
    BY <1>1, <1>2, <1>3 DEF TurnsOK
  <1>5. turn' = [turn EXCEPT ![t] = row]
    BY <1>1
  <1>6. e.turn = t /\ e.session = turn[t].session
    OBVIOUS
  <1>7. row.state # "asked"
    BY <1>3
  <1> HIDE DEF row, e
  <1>8. TurnsOK(turn') /\ Grown(turn, turn') /\ DOMAIN turn' = DOMAIN turn /\ turn'[t] = row
    BY <1>2, <1>3, <1>4, <1>5, <1>7, TurnGoesOn
  <1>9. LogOK(turn', log)
    BY <1>2, <1>8, GrownKeeps
  <1>10. state = "done" => LogOK(turn', Append(log, e))
    BY <1>3, <1>4, <1>6, <1>8, <1>9, MessageStored
  <1> QED
    BY <1>1, <1>2, <1>8, <1>9, <1>10, ServerKeeps DEF ServerInv

-----------------------------------------------------------------------------
(* The steps of the chat page *)

LEMMA OneTurn ==
  ASSUME NEW turns, TurnsOK(turns), NEW row \in TurnRow, row.state = "posted"
  PROVE  LET n == Len(turns) + 1 IN
         /\ n \in Nat /\ n \notin DOMAIN turns /\ DOMAIN Append(turns, row) = DOMAIN turns \cup {n}
         /\ Append(turns, row)[n] = row
         /\ TurnsOK(Append(turns, row)) /\ Grown(turns, Append(turns, row))
  <1> DEFINE n == Len(turns) + 1
             more == Append(turns, row)
  <1>1. turns \in Seq(TurnRow) /\ Len(turns) \in Nat /\ DOMAIN turns = 1 .. Len(turns)
    BY LenProperties DEF TurnsOK
  <1>2. /\ more \in Seq(TurnRow) /\ Len(more) = n /\ DOMAIN more = 1 .. n
        /\ \A i \in DOMAIN turns : more[i] = turns[i]
        /\ more[n] = row
    BY <1>1, AppendProperties, LenProperties
  <1>3. n \in Nat /\ n \notin DOMAIN turns /\ DOMAIN more = DOMAIN turns \cup {n}
    BY <1>1, <1>2
  <1> HIDE DEF n, more
  <1>4. TurnsOK(more)
    BY <1>1, <1>2, <1>3 DEF TurnsOK
  <1>5. Grown(turns, more)
    BY <1>2, <1>3 DEF Grown
  <1> QED
    BY <1>2, <1>3, <1>4, <1>5 DEF n, more

(* Only a post adds a request: of the active session, under messages that are *)
(* those shown, all or all but the last, and the question.                    *)
LEMMA Submitted ==
  ASSUME ChatInv, Chat!Send \/ Chat!Retry
  PROVE  \E messages, n :
           /\ Chat!Submit(messages) /\ n = Len(turn) + 1 /\ n \in Nat
           /\ IsSeq(messages) /\ Turns(messages) \subseteq Turns(shown) \cup {n}
  <1>1. IsSeq(shown) /\ turn \in Seq(TurnRow)
    BY DEF ChatInv, ServerInv, PageInv, Known, TurnsOK
  <1>2. Len(turn) + 1 \in Nat
    BY <1>1, LenProperties
  <1>3. CASE Chat!Send
    <2> DEFINE e == [turn |-> Len(turn) + 1, role |-> "user"]
    <2>1. Chat!Submit(Append(shown, e)) /\ e.turn = Len(turn) + 1
      BY <1>3 DEF Chat!Send
    <2> HIDE DEF e
    <2>2. IsSeq(Append(shown, e)) /\ Turns(Append(shown, e)) = Turns(shown) \cup {Len(turn) + 1}
      BY <1>1, <2>1, TurnsAppended
    <2> QED
      BY <1>2, <2>1, <2>2
  <1>4. CASE Chat!Retry
    <2>1. Chat!Submit(Chat!WithoutAnswer(shown)) /\ \E i \in DOMAIN shown : TRUE
      BY <1>4 DEF Chat!Retry
    <2>2. IsSeq(Chat!WithoutAnswer(shown)) /\ Turns(Chat!WithoutAnswer(shown)) \subseteq Turns(shown)
      BY <1>1, <2>1, TurnsWithoutAnswer
    <2> QED
      BY <1>2, <2>1, <2>2
  <1> QED
    BY <1>3, <1>4

LEMMA SubmitStep ==
  ASSUME ChatInv, Chat!Send \/ Chat!Retry
  PROVE  ChatInv'
  <1>1. PICK messages, n :
          /\ Chat!Submit(messages) /\ n = Len(turn) + 1 /\ n \in Nat
          /\ IsSeq(messages) /\ Turns(messages) \subseteq Turns(shown) \cup {n}
    BY Submitted
  <1> DEFINE row == [session |-> active, state |-> "posted"]
             s == [turn |-> n, base |-> messages, active |-> active, opened |-> FALSE]
  <1>2. /\ turn' = Append(turn, row) /\ streams' = streams \cup {s} /\ shown' = messages
        /\ strayed' = (strayed \/ (active = Chat!None /\ streams # {}))
        /\ UNCHANGED <<log, sessions, active, cursor, pending, loads>>
    BY <1>1 DEF Chat!Submit
  <1>3. /\ sessions \in Nat /\ TurnsOK(turn) /\ LogOK(turn, log) /\ active \in Nat
        /\ Known(turn, shown) /\ \A r \in streams : StreamOK(turn, r)
    BY DEF ChatInv, ServerInv, PageInv
  <1>4. row \in TurnRow /\ row.session = active /\ row.state = "posted"
    BY <1>3 DEF TurnRow
  <1>5. /\ DOMAIN s = {"turn", "base", "active", "opened"} /\ s.turn = n /\ s.base = messages
        /\ s.active = active
    OBVIOUS
  <1> HIDE DEF row, s
  <1>6. /\ n \notin DOMAIN turn /\ DOMAIN turn' = DOMAIN turn \cup {n} /\ turn'[n] = row
        /\ TurnsOK(turn') /\ Grown(turn, turn')
    BY <1>1, <1>2, <1>3, <1>4, OneTurn
  <1>7. ServerInv'
    BY <1>2, <1>3, <1>6, GrownKeeps DEF ServerInv
  <1>8. Known(turn', messages)
    BY <1>1, <1>3, <1>6 DEF Known
  <1>9. ASSUME NEW r \in streams' PROVE StreamOK(turn', r)
    <2>1. CASE r \in streams
      BY <1>3, <1>6, <2>1, GrownKeeps
    <2>2. CASE r = s
      BY <1>3, <1>4, <1>5, <1>6, <1>8, <2>2 DEF StreamOK
    <2> QED
      BY <1>2, <2>1, <2>2
  <1>10. \A l \in loads' : LoadOK(turn', l)
    BY <1>2, <1>6, GrownKeeps DEF ChatInv, PageInv
  <1>11. ASSUME ~strayed' PROVE InPlace(turn', active', shown', streams')
    <2>1. ~strayed /\ (active # Chat!None \/ streams = {})
      BY <1>2, <1>11
    <2>2. InPlace(turn, active, shown, streams)
      BY <2>1 DEF ChatInv, PageInv
    <2>3. InPlace(turn', active, shown, streams)
      BY <1>3, <1>6, <2>2, GrownInPlace
    <2>4. CASE active # Chat!None
      <3>1. \A t \in Turns(messages) : turn'[t].session = active
        BY <1>1, <1>4, <1>6, <2>3, <2>4 DEF InPlace
      <3>2. \A q, r \in streams' : q.active = Chat!None /\ r.active = Chat!None => q = r
        BY <1>2, <1>5, <2>3, <2>4 DEF InPlace
      <3>3. \A r \in streams' : \A t \in Turns(r.base) :
              t = r.turn \/ (r.active # Chat!None /\ turn'[t].session = r.active)
        BY <1>2, <1>5, <2>3, <2>4, <3>1 DEF InPlace
      <3> QED
        BY <1>2, <2>4, <3>1, <3>2, <3>3 DEF InPlace
    <2>5. CASE active = Chat!None
      <3>1. streams = {} /\ streams' = {s}
        BY <1>2, <2>1, <2>5
      <3>2. Turns(messages) \subseteq {n}
        BY <1>1, <2>2, <2>5, <3>1 DEF InPlace
      <3> QED
        BY <1>2, <1>5, <2>5, <3>1, <3>2 DEF InPlace
    <2> QED
      BY <2>4, <2>5
  <1> QED
    BY <1>2, <1>3, <1>7, <1>8, <1>9, <1>10, <1>11 DEF ChatInv, PageInv

(* A step of the page that posts nothing. *)
LEMMA PageKeeps ==
  ASSUME ChatInv, UNCHANGED <<log, sessions, turn>>, PageInv'
  PROVE  ChatInv'
  BY DEF ChatInv, ServerInv

(* Fewer streams, none left out that explains what is shown.                  *)
LEMMA FewerStreams ==
  ASSUME NEW turns, NEW session, NEW m, NEW reading, InPlace(turns, session, m, reading),
         NEW fewer \in SUBSET reading, \A s \in reading \ fewer : s.active # Chat!None
  PROVE  InPlace(turns, session, m, fewer)
  BY DEF InPlace

LEMMA ResponseStep ==
  ASSUME ChatInv, NEW s \in streams, Chat!OnResponse(s)
  PROVE  ChatInv'
  <1> DEFINE o == [s EXCEPT !.opened = TRUE]
  <1>1. /\ pending' \in {turn[s.turn].session, Chat!None}
        /\ streams' = (streams \ {s}) \cup {o}
        /\ UNCHANGED <<log, sessions, turn, active, shown, cursor, loads, strayed>>
    BY DEF Chat!OnResponse, Chat!server, Chat!screen
  <1>2. PageInv /\ TurnsOK(turn) /\ StreamOK(turn, s)
    BY DEF ChatInv, ServerInv, PageInv
  <1>3. pending' \in Nat
    BY <1>1, <1>2, TurnStateIs DEF StreamOK, Chat!None
  <1>4. /\ DOMAIN o = {"turn", "base", "active", "opened"}
        /\ o.turn = s.turn /\ o.base = s.base /\ o.active = s.active
    BY <1>2 DEF StreamOK
  <1> HIDE DEF o
  <1>5. StreamOK(turn, o)
    BY <1>2, <1>4 DEF StreamOK
  <1>6. ASSUME ~strayed PROVE InPlace(turn, active, shown, streams')
    <2>1. InPlace(turn, active, shown, streams)
      BY <1>2, <1>6 DEF PageInv
    <2>2. active = Chat!None =>
            \A t \in Turns(shown) : \E r \in streams' : r.active = Chat!None /\ t = r.turn
      BY <1>1, <1>4, <2>1 DEF InPlace
    <2>3. \A q, r \in streams' : q.active = Chat!None /\ r.active = Chat!None => q = r
      BY <1>1, <1>4, <2>1 DEF InPlace
    <2>4. \A r \in streams' : \A t \in Turns(r.base) :
            t = r.turn \/ (r.active # Chat!None /\ turn[t].session = r.active)
      BY <1>1, <1>4, <2>1 DEF InPlace
    <2> QED
      BY <2>1, <2>2, <2>3, <2>4 DEF InPlace
  <1>7. PageInv'
    BY <1>1, <1>2, <1>3, <1>5, <1>6 DEF PageInv
  <1> QED
    BY <1>1, <1>7, PageKeeps

LEMMA TokenStep ==
  ASSUME ChatInv, NEW s \in streams, Chat!StreamToken(s)
  PROVE  ChatInv'
  <1> DEFINE e == [turn |-> s.turn, role |-> "assistant"]
  <1>1. /\ shown' = Append(s.base, e) /\ e.turn = s.turn
        /\ strayed' = (strayed \/ s.active # active)
        /\ UNCHANGED <<log, sessions, turn, active, cursor, streams, pending, loads>>
    BY DEF Chat!StreamToken, Chat!server
  <1> HIDE DEF e
  <1>2. PageInv /\ StreamOK(turn, s)
    BY DEF ChatInv, PageInv
  <1>3. IsSeq(shown') /\ Turns(shown') = Turns(s.base) \cup {s.turn}
    BY <1>1, <1>2, TurnsAppended DEF StreamOK, Known
  <1>4. Known(turn, shown')
    BY <1>2, <1>3 DEF StreamOK, Known
  <1>5. ASSUME ~strayed' PROVE InPlace(turn, active, shown', streams)
    <2>1. ~strayed /\ s.active = active
      BY <1>1, <1>5
    <2>2. InPlace(turn, active, shown, streams)
      BY <1>2, <2>1 DEF PageInv
    <2> QED
      BY <1>2, <1>3, <2>1, <2>2 DEF InPlace, StreamOK
  <1>6. PageInv'
    BY <1>1, <1>2, <1>4, <1>5 DEF PageInv
  <1> QED
    BY <1>1, <1>6, PageKeeps

LEMMA StartedLoad ==
  ASSUME NEW turns, NEW kind, NEW session \in Nat \ {Chat!None}, NEW after \in Nat
  PROVE  LoadOK(turns, [kind |-> kind, session |-> session, after |-> after,
                        answered |-> FALSE, items |-> <<>>, next |-> Chat!None])
  BY EmptyIsSeq, NoTurns DEF LoadOK, Known, Chat!None

LEMMA FinishStep ==
  ASSUME ChatInv, NEW s \in streams, Chat!Finish(s)
  PROVE  ChatInv'
  <1> DEFINE next == IF pending # Chat!None THEN pending ELSE s.active
             l == [kind |-> "finish", session |-> next, after |-> 0,
                   answered |-> FALSE, items |-> <<>>, next |-> Chat!None]
  <1>1. /\ streams' = streams \ {s} /\ pending' = Chat!None
        /\ IF next # Chat!None THEN active' = next /\ loads' = loads \cup {l}
                               ELSE UNCHANGED <<active, loads>>
        /\ strayed' = (strayed \/ s.active # active \/ next \notin {turn[s.turn].session} \ {Chat!None})
        /\ UNCHANGED <<log, sessions, turn, shown, cursor>>
    BY DEF Chat!Finish, Chat!StartLoad, Chat!server
  <1>2. PageInv /\ StreamOK(turn, s)
    BY DEF ChatInv, PageInv
  <1>3. next \in Nat /\ pending' \in Nat
    BY <1>1, <1>2 DEF PageInv, StreamOK, Chat!None
  <1>4. next # Chat!None => LoadOK(turn, l)
    BY <1>3, StartedLoad
  <1> HIDE DEF next, l
  <1>5. active' \in Nat /\ \A k \in loads' : LoadOK(turn, k)
    BY <1>1, <1>2, <1>3, <1>4 DEF PageInv
  <1>6. ASSUME ~strayed' PROVE InPlace(turn, active', shown, streams')
    <2>1. ~strayed /\ s.active = active /\ next = turn[s.turn].session /\ next # Chat!None
      BY <1>1, <1>6
    <2>2. InPlace(turn, active, shown, streams) /\ active' = next
      BY <1>1, <1>2, <2>1 DEF PageInv
    <2>3. \A t \in Turns(shown) : turn[t].session = next
      <3>1. CASE active # Chat!None
        BY <1>2, <2>1, <2>2, <3>1 DEF InPlace, StreamOK
      <3>2. CASE active = Chat!None
        BY <2>1, <2>2, <3>2 DEF InPlace
      <3> QED
        BY <3>1, <3>2
    <2> QED
      BY <1>1, <2>1, <2>2, <2>3 DEF InPlace
  <1>7. PageInv'
    BY <1>1, <1>2, <1>3, <1>5, <1>6 DEF PageInv
  <1> QED
    BY <1>1, <1>7, PageKeeps

LEMMA BrokenOffStep ==
  ASSUME ChatInv, NEW s \in streams, Chat!OnError(s) \/ Chat!Stop(s)
  PROVE  ChatInv'
  <1>1. /\ streams' = streams \ {s} /\ pending' \in {pending, Chat!None}
        /\ strayed' = (strayed \/ s.active = Chat!None)
        /\ UNCHANGED <<log, sessions, turn, active, shown, cursor, loads>>
    BY DEF Chat!OnError, Chat!Stop, Chat!server, Chat!screen
  <1>2. PageInv
    BY DEF ChatInv
  <1>3. pending' \in Nat
    BY <1>1, <1>2 DEF PageInv, Chat!None
  <1>4. ASSUME ~strayed' PROVE InPlace(turn, active, shown, streams')
    <2>1. ~strayed /\ s.active # Chat!None
      BY <1>1, <1>4
    <2>2. InPlace(turn, active, shown, streams)
      BY <1>2, <2>1 DEF PageInv
    <2> QED
      BY <1>1, <2>1, <2>2, FewerStreams
  <1>5. PageInv'
    BY <1>1, <1>2, <1>3, <1>4 DEF PageInv
  <1> QED
    BY <1>1, <1>5, PageKeeps

(* The stored messages of a session are of turns of that session.             *)
LEMMA StoredOfSession ==
  ASSUME ChatInv, NEW session
  PROVE  /\ IsSeq(Chat!SessionMessages(session))
         /\ \A t \in Turns(Chat!SessionMessages(session)) :
              t \in DOMAIN turn /\ turn[t].session = session
  <1> DEFINE P == {i \in DOMAIN log : log[i].session = session}
             rows == Chat!Kept(log, P)
             m == [i \in DOMAIN rows |-> [turn |-> rows[i].turn, role |-> rows[i].role]]
  <1>1. LogOK(turn, log)
    BY DEF ChatInv, ServerInv
  <1>2. IsSeq(rows) /\ \A k \in DOMAIN rows : \E i \in P : rows[k] = log[i]
    <2>1. P \in SUBSET DOMAIN log
      OBVIOUS
    <2>2. IsSeq(log)
      BY <1>1 DEF LogOK
    <2> HIDE DEF P
    <2> QED
      BY <2>1, <2>2, RowsOfPlaces
  <1>3. Chat!SessionMessages(session) = m
    BY DEF Chat!SessionMessages
  <1> HIDE DEF rows
  <1>4. Len(rows) \in Nat /\ DOMAIN rows = 1 .. Len(rows)
    BY <1>2, LenProperties DEF IsSeq
  <1>5. DOMAIN m = DOMAIN rows /\ \A k \in DOMAIN rows : m[k].turn = rows[k].turn
    OBVIOUS
  <1>6. IsSeq(m)
    <2>1. m = [k \in 1 .. Len(rows) |-> m[k]]
      BY <1>4
    <2> HIDE DEF m
    <2> QED
      BY <1>4, <2>1, FunctionIsSeq
  <1> HIDE DEF m
  <1>7. ASSUME NEW k \in DOMAIN m PROVE m[k].turn \in DOMAIN turn /\ turn[m[k].turn].session = session
    <2>1. PICK i \in P : rows[k] = log[i]
      BY <1>2, <1>5
    <2> QED
      BY <1>1, <1>5, <2>1 DEF LogOK
  <1> QED
    BY <1>3, <1>6, <1>7 DEF Turns

LEMMA AnswerStep ==
  ASSUME ChatInv, NEW l \in loads, Chat!GetMessages(l)
  PROVE  ChatInv'
  <1> DEFINE rows == Chat!SessionMessages(l.session)
             end == l.after + MessagesPerPage
             items == SubSeq(rows, l.after + 1, IF end < Len(rows) THEN end ELSE Len(rows))
             k == [l EXCEPT !.answered = TRUE, !.items = items,
                            !.next = IF end < Len(rows) THEN end ELSE Chat!None]
  <1>1. /\ loads' = (loads \ {l}) \cup {k}
        /\ UNCHANGED <<log, sessions, turn, active, shown, cursor, streams, pending, strayed>>
    BY DEF Chat!GetMessages, Chat!server, Chat!screen
  <1>2. PageInv /\ LoadOK(turn, l)
    BY DEF ChatInv, PageInv
  <1>3. IsSeq(rows) /\ \A t \in Turns(rows) : t \in DOMAIN turn /\ turn[t].session = l.session
    BY StoredOfSession
  <1> HIDE DEF rows
  <1>4. l.after \in Nat /\ end \in Nat /\ Len(rows) \in Nat
    <2>1. l.after \in Nat /\ MessagesPerPage \in Nat
      BY <1>2, ChatBounds DEF LoadOK
    <2>2. Len(rows) \in Nat
      BY <1>3, LenProperties DEF IsSeq
    <2> QED
      BY <2>1, <2>2
  <1> HIDE DEF end
  <1>5. IsSeq(items) /\ Turns(items) \subseteq Turns(rows)
    <2>1. \A b \in Nat : b <= Len(rows) => IsSeq(SubSeq(rows, l.after + 1, b))
                                          /\ Turns(SubSeq(rows, l.after + 1, b)) \subseteq Turns(rows)
      BY <1>3, <1>4, TurnsOfPart
    <2> QED
      BY <1>4, <2>1
  <1> HIDE DEF items
  <1>6. /\ DOMAIN k = {"kind", "session", "after", "answered", "items", "next"}
        /\ k.session = l.session /\ k.after = l.after /\ k.items = items /\ k.next \in Nat
    BY <1>2, <1>4 DEF LoadOK, Chat!None
  <1> HIDE DEF k
  <1>7. LoadOK(turn, k)
    BY <1>2, <1>3, <1>4, <1>5, <1>6 DEF LoadOK, Known
  <1>8. PageInv'
    BY <1>1, <1>2, <1>7 DEF PageInv
  <1> QED
    BY <1>1, <1>8, PageKeeps

LEMMA LoadStarts ==
  ASSUME ChatInv, Chat!LoadOlder \/ \E s \in Chat!Session : Chat!OpenSession(s)
  PROVE  ChatInv'
  <1>1. PICK kind, session, after :
          /\ loads' = loads \cup {[kind |-> kind, session |-> session, after |-> after,
                                   answered |-> FALSE, items |-> <<>>, next |-> Chat!None]}
          /\ session \in Nat \ {Chat!None} /\ after \in Nat
    <2>1. CASE Chat!LoadOlder
      BY <2>1 DEF Chat!LoadOlder, Chat!StartLoad, ChatInv, PageInv
    <2>2. CASE \E s \in Chat!Session : Chat!OpenSession(s)
      <3>1. PICK s \in Chat!Session : Chat!OpenSession(s)
        BY <2>2
      <3>2. s \in Nat \ {Chat!None} /\ 0 \in Nat
        BY ChatBounds DEF Chat!Session, Chat!None
      <3> QED
        BY <3>1, <3>2 DEF Chat!OpenSession, Chat!StartLoad
    <2> QED
      BY <2>1, <2>2
  <1>2. UNCHANGED <<log, sessions, turn, active, shown, cursor, streams, pending, strayed>>
    BY DEF Chat!LoadOlder, Chat!OpenSession, Chat!server, Chat!screen
  <1>3. \A l \in loads' : LoadOK(turn, l)
    BY <1>1, StartedLoad DEF ChatInv, PageInv
  <1>4. PageInv'
    BY <1>2, <1>3 DEF ChatInv, PageInv
  <1> QED
    BY <1>2, <1>4, PageKeeps

(* The messages of the session that is active now, while the streams stay.    *)
LEMMA ShownInPlace ==
  ASSUME NEW turns, NEW session, NEW m, NEW reading, InPlace(turns, session, m, reading) \/ reading = {},
         NEW next \in Nat \ {Chat!None}, NEW items, \A t \in Turns(items) : turns[t].session = next
  PROVE  InPlace(turns, next, items, reading)
  BY DEF InPlace

LEMMA OpenedStep ==
  ASSUME ChatInv, NEW l \in loads, Chat!ShowSession(l) \/ Chat!ShowFinished(l)
  PROVE  ChatInv'
  <1>1. /\ loads' = loads \ {l} /\ shown' = l.items /\ cursor' = l.next
        /\ active' \in {active, l.session}
        /\ ~strayed' => (~strayed \/ streams = {}) /\ active' = l.session
        /\ UNCHANGED <<log, sessions, turn, streams, pending>>
    BY DEF Chat!ShowSession, Chat!ShowFinished, Chat!StaysStrayed, Chat!server
  <1>2. PageInv /\ LoadOK(turn, l)
    BY DEF ChatInv, PageInv
  <1>3. active' \in Nat /\ cursor' \in Nat
    BY <1>1, <1>2 DEF PageInv, LoadOK
  <1>4. Known(turn, shown')
    BY <1>1, <1>2 DEF LoadOK
  <1>5. ASSUME ~strayed' PROVE InPlace(turn, active', shown', streams)
    <2>1. InPlace(turn, active, shown, streams) \/ streams = {}
      BY <1>1, <1>2, <1>5 DEF PageInv
    <2>2. active' \in Nat \ {Chat!None} /\ \A t \in Turns(shown') : turn[t].session = active'
      BY <1>1, <1>2, <1>5 DEF LoadOK
    <2> QED
      BY <2>1, <2>2, ShownInPlace
  <1>6. PageInv'
    BY <1>1, <1>2, <1>3, <1>4, <1>5 DEF PageInv
  <1> QED
    BY <1>1, <1>6, PageKeeps

LEMMA OlderStep ==
  ASSUME ChatInv, NEW l \in loads, Chat!ShowOlder(l)
  PROVE  ChatInv'
  <1>1. /\ loads' = loads \ {l} /\ shown' = l.items \o shown /\ cursor' = l.next
        /\ strayed' = (strayed \/ l.session # active)
        /\ UNCHANGED <<log, sessions, turn, active, streams, pending>>
    BY DEF Chat!ShowOlder, Chat!server
  <1>2. PageInv /\ LoadOK(turn, l)
    BY DEF ChatInv, PageInv
  <1>3. IsSeq(shown') /\ Turns(shown') \subseteq Turns(l.items) \cup Turns(shown)
    BY <1>1, <1>2, TurnsJoined DEF PageInv, LoadOK, Known
  <1>4. Known(turn, shown') /\ cursor' \in Nat
    BY <1>1, <1>2, <1>3 DEF PageInv, LoadOK, Known
  <1>5. ASSUME ~strayed' PROVE InPlace(turn, active, shown', streams)
    <2>1. ~strayed /\ l.session = active /\ active \in Nat \ {Chat!None}
      BY <1>1, <1>2, <1>5 DEF LoadOK
    <2>2. InPlace(turn, active, shown, streams)
      BY <1>2, <2>1 DEF PageInv
    <2>3. \A t \in Turns(shown') : turn[t].session = active
      BY <1>2, <1>3, <2>1, <2>2 DEF InPlace, LoadOK
    <2> QED
      BY <2>1, <2>2, <2>3, ShownInPlace
  <1>6. PageInv'
    BY <1>1, <1>2, <1>4, <1>5 DEF PageInv
  <1> QED
    BY <1>1, <1>6, PageKeeps

LEMMA EmptiedStep ==
  ASSUME ChatInv, Chat!NewChat \/ \E l \in loads : Chat!LoadFails(l)
  PROVE  ChatInv'
  <1>1. CASE Chat!NewChat
    <2>1. /\ active' = Chat!None /\ shown' = <<>> /\ cursor' = Chat!None
          /\ ~strayed' => ~strayed \/ streams = {}
          /\ UNCHANGED <<log, sessions, turn, streams, pending, loads>>
      BY <1>1 DEF Chat!NewChat, Chat!StaysStrayed, Chat!server
    <2>2. PageInv
      BY DEF ChatInv
    <2>3. Known(turn, shown') /\ Turns(shown') = {} /\ active' \in Nat /\ cursor' \in Nat
      BY <2>1, EmptyIsSeq, NoTurns DEF Known, Chat!None
    <2>4. ASSUME ~strayed' PROVE InPlace(turn, active', shown', streams)
      BY <2>1, <2>2, <2>3, <2>4 DEF InPlace, PageInv
    <2>5. PageInv'
      BY <2>1, <2>2, <2>3, <2>4 DEF PageInv
    <2> QED
      BY <2>1, <2>5, PageKeeps
  <1>2. CASE \E l \in loads : Chat!LoadFails(l)
    <2>1. /\ loads' \subseteq loads
          /\ UNCHANGED <<log, sessions, turn, active, shown, cursor, streams, pending, strayed>>
      BY <1>2 DEF Chat!LoadFails, Chat!server, Chat!screen
    <2>2. PageInv'
      BY <2>1 DEF ChatInv, PageInv
    <2> QED
      BY <2>1, <2>2, PageKeeps
  <1> QED
    BY <1>1, <1>2

LEMMA ChatSteps ==
  ASSUME ChatInv, Chat!Next
  PROVE  ChatInv'
  <1>1. CASE \E t \in DOMAIN turn : Chat!Serve(t)
    BY <1>1, AskStep, StateStep DEF Chat!Serve
  <1>2. CASE Chat!Send \/ Chat!Retry
    BY <1>2, SubmitStep
  <1>3. CASE Chat!NewChat \/ \E l \in loads : Chat!LoadFails(l)
    BY <1>3, EmptiedStep
  <1>4. CASE Chat!LoadOlder \/ \E s \in Chat!Session : Chat!OpenSession(s)
    BY <1>4, LoadStarts
  <1>5. CASE \E s \in streams : Chat!Reads(s) \/ Chat!StreamToken(s) \/ Chat!Stop(s)
    BY <1>5, ResponseStep, TokenStep, FinishStep, BrokenOffStep DEF Chat!Reads
  <1>6. CASE \E l \in loads : Chat!GetMessages(l) \/ Chat!ShowSession(l) \/ Chat!ShowFinished(l)
                              \/ Chat!ShowOlder(l)
    BY <1>6, AnswerStep, OpenedStep, OlderStep
  <1> QED
    BY <1>1, <1>2, <1>3, <1>4, <1>5, <1>6, Zenon DEF Chat!Next, Chat!PageStep, Chat!Posted

LEMMA ChatStays == ChatInv /\ UNCHANGED chatVars => ChatInv'
  BY DEF ChatInv, ServerInv, PageInv, chatVars

LEMMA ChatAlone ==
  ASSUME [Next]_vars
  PROVE  Chat!Next \/ UNCHANGED chatVars
  BY DEF Next, vars, AtChat, AtDocuments, AtRuns, AtTickets, AtDatasets, AtSearch, AtComposer, AtFeed

(* A step that posts a request.                                               *)
LEMMA PostedInPlace ==
  ASSUME ChatInv, Chat!Next, NEW t \in DOMAIN turn' \ DOMAIN turn, ~strayed, streams = {},
         NEW i \in DOMAIN shown
  PROVE  turn[shown[i].turn].session = turn'[t].session
  <1>1. TurnsOK(turn) /\ InPlace(turn, active, shown, streams) /\ active \in Nat
    BY DEF ChatInv, ServerInv, PageInv
  <1>2. CASE Chat!Send \/ Chat!Retry
    <2> DEFINE row == [session |-> active, state |-> "posted"]
    <2>1. turn' = Append(turn, row)
      BY <1>2, Submitted DEF Chat!Submit
    <2>2. row \in TurnRow /\ row.session = active /\ row.state = "posted"
      BY <1>1 DEF TurnRow
    <2> HIDE DEF row
    <2>3. t = Len(turn) + 1 /\ turn'[t] = row
      BY <1>1, <2>1, <2>2, OneTurn
    <2>4. shown[i].turn \in Turns(shown)
      BY DEF Turns
    <2>5. active # Chat!None
      BY <1>1, <2>4 DEF InPlace
    <2> QED
      BY <1>1, <2>2, <2>3, <2>4, <2>5 DEF InPlace
  <1>3. CASE ~(Chat!Send \/ Chat!Retry)
    <2>1. DOMAIN turn' = DOMAIN turn
      <3>1. CASE \E u \in DOMAIN turn : Chat!Serve(u)
        BY <1>1, <3>1 DEF TurnsOK, Chat!Serve, Chat!Ask, Chat!Respond, Chat!Complete,
                          Chat!RespondFails, Chat!Goto
      <3>2. CASE Chat!PageStep
        <4>1. UNCHANGED turn
          BY <1>3, <3>2 DEF Chat!PageStep, Chat!Reads, Chat!NewChat, Chat!LoadOlder, Chat!OnResponse,
               Chat!Finish, Chat!OnError, Chat!StreamToken, Chat!Stop, Chat!OpenSession,
               Chat!GetMessages, Chat!ShowSession, Chat!ShowFinished, Chat!ShowOlder,
               Chat!LoadFails, Chat!server
        <4> QED
          BY <4>1
      <3> QED
        BY <3>1, <3>2 DEF Chat!Next, Chat!Posted
    <2> QED
      BY <2>1
  <1> QED
    BY <1>2, <1>3

(* For any number of turns, loads and messages per page, and whatever streams *)
(* and loads overlap: with no stream under way and the page not strayed, a    *)
(* question is posted to the session of every message above it (handleSend,   *)
(* handleRetry, onFinish, loadSession, loadOlderMessages).                    *)
THEOREM QuestionsStayInPlace == Spec => PostedWhereShown
  <1>1. Init => ChatInv
    BY ChatStarts DEF Init
  <1>2. ChatInv /\ [Next]_vars => ChatInv'
    BY ChatSteps, ChatStays, ChatAlone
  <1>3. ChatInv /\ [Next]_vars =>
          [\A t \in DOMAIN turn' \ Chat!Posted : ~strayed /\ streams = {} =>
             \A i \in DOMAIN shown : turn[shown[i].turn].session = turn'[t].session]_(Chat!vars)
    <2> SUFFICES ASSUME ChatInv, [Next]_vars, ~(UNCHANGED Chat!vars)
                 PROVE  \A t \in DOMAIN turn' \ Chat!Posted : ~strayed /\ streams = {} =>
                          \A i \in DOMAIN shown : turn[shown[i].turn].session = turn'[t].session
      OBVIOUS
    <2>1. Chat!Next
      BY ChatAlone DEF Chat!vars, Chat!server, Chat!page, Chat!screen, chatVars
    <2> QED
      BY <2>1, PostedInPlace DEF Chat!Posted
  <1> QED
    BY <1>1, <1>2, <1>3, PTL DEF Spec, PostedWhereShown, Chat!PostedWhereShown
-----------------------------------------------------------------------------
(* The page of datasets *)

SetRow == [id : Dataset, open : BOOLEAN]
SetLoad == [stage : {"none", "asked", "served"}, rows : SUBSET SetRow, old : BOOLEAN]
Stored == {d \in Dataset : table[d] \in {"open", "settled"}}

SetsTypeOK ==
  /\ table \in [Dataset -> {"unused", "open", "settled", "removed"}]
  /\ shownSets \subseteq SetRow /\ behind \in BOOLEAN
  /\ load \in [Sets!Timer \cup Dataset -> SetLoad]
  /\ upload \in [Dataset -> {"none", "sent", "stored", "listing"}]
  /\ deletion \in [Dataset -> {"none", "sent", "removed"}]

(* Rows that lack none that is stored, and are not ahead of their work.       *)
UpToDate(rows) ==
  /\ \A d \in Stored : \E r \in rows : r.id = d
  /\ \A r \in rows : r.id \in Stored /\ ~r.open => table[r.id] = "settled"

(* A row of a dataset that is gone is shown only until its deletion answers;  *)
(* an answer that is not old has none.                                        *)
SetsInv ==
  /\ SetsTypeOK
  /\ \A d \in Dataset : /\ upload[d] = "sent" => table[d] = "unused"
                        /\ deletion[d] = "removed" => table[d] = "removed"
  /\ ~behind => /\ UpToDate(shownSets)
                /\ \A r \in shownSets : r.id \in Stored \/ deletion[r.id] = "removed"
  /\ \A l \in DOMAIN load : load[l].stage = "served" /\ ~load[l].old =>
       UpToDate(load[l].rows) /\ \A r \in load[l].rows : r.id \in Stored

LEMMA SetLoads ==
  /\ Sets!NoLoad \in SetLoad /\ Sets!NoLoad.stage = "none"
  /\ Sets!Asked \in SetLoad /\ Sets!Asked.stage = "asked"
  BY DEF SetLoad, Sets!NoLoad, Sets!Asked

LEMMA SetsStart == Sets!Init => SetsInv
  <1> SUFFICES ASSUME Sets!Init PROVE SetsInv
    OBVIOUS
  <1>1. SetsTypeOK
    BY SetLoads DEF Sets!Init, SetsTypeOK
  <1>2. \A l \in DOMAIN load : load[l].stage # "served"
    BY SetLoads DEF Sets!Init
  <1>3. /\ behind = TRUE /\ upload = [d \in Dataset |-> "none"]
        /\ deletion = [d \in Dataset |-> "none"]
    BY DEF Sets!Init
  <1> QED
    BY <1>1, <1>2, <1>3 DEF SetsInv

(* A step of one call leaves the others, and what the table holds.            *)
LEMMA LoadOfSets ==
  ASSUME SetsInv, NEW l \in DOMAIN load, NEW r \in SetLoad, load' = [load EXCEPT ![l] = r],
         r.stage = "served" => /\ UpToDate(r.rows) /\ \A x \in r.rows : x.id \in Stored
                               /\ r.old = FALSE,
         UNCHANGED <<table, shownSets, upload, deletion, behind>>
  PROVE  SetsInv'
  <1>1. SetsTypeOK'
    BY DEF SetsInv, SetsTypeOK
  <1>2. \A k \in DOMAIN load' : k \in DOMAIN load /\ load'[k] = IF k = l THEN r ELSE load[k]
    BY DEF SetsInv, SetsTypeOK
  <1>3. \A k \in DOMAIN load' : load'[k].stage = "served" /\ ~load'[k].old =>
          UpToDate(load'[k].rows) /\ \A x \in load'[k].rows : x.id \in Stored
    BY <1>2 DEF SetsInv
  <1> QED
    BY <1>1, <1>3 DEF SetsInv, UpToDate, Stored

LEMMA SetsListed ==
  ASSUME SetsInv, NEW l \in Sets!Timer \cup Dataset, Sets!List(l)
  PROVE  SetsInv'
  <1> DEFINE r == [stage |-> "served", rows |-> Sets!Rows, old |-> FALSE]
  <1>0. Sets!Rows = {[id |-> d, open |-> table[d] = "open"] : d \in Stored}
    BY DEF Sets!Rows, Stored
  <1>1. ASSUME NEW x \in Sets!Rows
        PROVE  x \in SetRow /\ x.id \in Stored /\ (~x.open => table[x.id] = "settled")
    <2>1. PICK d \in Stored : x = [id |-> d, open |-> table[d] = "open"]
      BY <1>0
    <2>2. x.id = d /\ (x.open <=> table[d] = "open") /\ d \in Dataset
      BY <2>1 DEF Stored
    <2>3. x \in SetRow
      BY <2>1, <2>2 DEF SetRow
    <2> QED
      BY <2>2, <2>3 DEF Stored
  <1>2. ASSUME NEW d \in Stored PROVE \E x \in Sets!Rows : x.id = d
    <2>1. [id |-> d, open |-> table[d] = "open"] \in Sets!Rows
      BY <1>0
    <2> QED
      BY <2>1
  <1>3. UpToDate(Sets!Rows)
    BY <1>1, <1>2 DEF UpToDate, Stored
  <1>4. r \in SetLoad
    BY <1>1 DEF SetLoad
  <1>5. l \in DOMAIN load
    BY DEF SetsInv, SetsTypeOK
  <1>6. /\ load' = [load EXCEPT ![l] = r]
        /\ UNCHANGED <<table, shownSets, upload, deletion, behind>>
    BY DEF Sets!List
  <1>7. r.rows = Sets!Rows /\ r.old = FALSE
    OBVIOUS
  <1> HIDE DEF r
  <1> QED
    BY <1>1, <1>3, <1>4, <1>5, <1>6, <1>7, LoadOfSets

LEMMA SetsShown ==
  ASSUME SetsInv, NEW l \in Sets!Timer \cup Dataset, Sets!ShowDatasets(l)
  PROVE  SetsInv'
  <1>1. /\ load[l].stage = "served" /\ shownSets' = load[l].rows /\ behind' = load[l].old
        /\ load' = [load EXCEPT ![l] = Sets!NoLoad]
        /\ UNCHANGED <<table, upload, deletion>>
    BY DEF Sets!ShowDatasets
  <1>2. l \in DOMAIN load /\ load[l] \in SetLoad
    BY DEF SetsInv, SetsTypeOK
  <1>3. SetsTypeOK'
    BY <1>1, <1>2, SetLoads DEF SetsInv, SetsTypeOK, SetLoad
  <1>4. ~behind' => UpToDate(shownSets') /\ \A r \in shownSets' : r.id \in Stored
    BY <1>1, <1>2 DEF SetsInv
  <1>5. \A k \in DOMAIN load' : load'[k].stage = "served" => k \in DOMAIN load /\ load'[k] = load[k]
    BY <1>1, <1>2, SetLoads DEF SetsInv, SetsTypeOK
  <1>6. \A k \in DOMAIN load' : load'[k].stage = "served" /\ ~load'[k].old =>
          UpToDate(load'[k].rows) /\ \A r \in load'[k].rows : r.id \in Stored
    BY <1>5 DEF SetsInv
  <1> QED
    BY <1>1, <1>3, <1>4, <1>6 DEF SetsInv, UpToDate, Stored

LEMMA SetsAsked ==
  ASSUME SetsInv, \/ Sets!Poll
                  \/ \E l \in Sets!Timer \cup Dataset : Sets!LoadFails(l)
  PROVE  SetsInv'
  <1>1. PICK l \in DOMAIN load, r \in {Sets!NoLoad, Sets!Asked} :
          /\ load' = [load EXCEPT ![l] = r]
          /\ UNCHANGED <<table, shownSets, upload, deletion, behind>>
    BY DEF Sets!Poll, Sets!LoadFails, SetsInv, SetsTypeOK
  <1> QED
    BY <1>1, SetLoads, LoadOfSets

(* A step of the page that starts or ends a call.                             *)
LEMMA SetsCalls ==
  ASSUME SetsInv, NEW d \in Dataset,
         Sets!SelectFile(d) \/ Sets!Uploaded(d) \/ Sets!UploadEnds(d) \/ Sets!Delete(d)
  PROVE  SetsInv'
  <1>1. CASE Sets!SelectFile(d) \/ Sets!UploadEnds(d)
    <2>1. PICK stage \in {"sent", "none"} :
            /\ upload' = [upload EXCEPT ![d] = stage] /\ (stage = "sent" => table[d] = "unused")
            /\ UNCHANGED <<table, shownSets, load, deletion, behind>>
      BY <1>1 DEF Sets!SelectFile, Sets!UploadEnds
    <2>2. SetsTypeOK'
      BY <2>1 DEF SetsInv, SetsTypeOK
    <2>3. \A e \in Dataset : upload'[e] = "sent" => table[e] = "unused"
      BY <2>1 DEF SetsInv, SetsTypeOK
    <2> QED
      BY <2>1, <2>2, <2>3 DEF SetsInv, UpToDate, Stored
  <1>2. CASE Sets!Uploaded(d)
    <2>1. /\ upload' = [upload EXCEPT ![d] = "listing"] /\ load' = [load EXCEPT ![d] = Sets!Asked]
          /\ UNCHANGED <<table, shownSets, deletion, behind>>
      BY <1>2 DEF Sets!Uploaded
    <2>2. SetsTypeOK'
      BY <2>1, SetLoads DEF SetsInv, SetsTypeOK
    <2>3. \A e \in Dataset : upload'[e] = "sent" => table[e] = "unused"
      BY <2>1 DEF SetsInv, SetsTypeOK
    <2>4. \A k \in DOMAIN load' : load'[k].stage = "served" => k \in DOMAIN load /\ load'[k] = load[k]
      BY <2>1, SetLoads DEF SetsInv, SetsTypeOK
    <2>5. \A k \in DOMAIN load' : load'[k].stage = "served" /\ ~load'[k].old =>
            UpToDate(load'[k].rows) /\ \A r \in load'[k].rows : r.id \in Stored
      BY <2>4 DEF SetsInv
    <2> QED
      BY <2>1, <2>2, <2>3, <2>5 DEF SetsInv, UpToDate, Stored
  <1>3. CASE Sets!Delete(d)
    <2>1. /\ deletion[d] = "none" /\ deletion' = [deletion EXCEPT ![d] = "sent"]
          /\ UNCHANGED <<table, shownSets, load, upload, behind>>
      BY <1>3 DEF Sets!Delete
    <2>2. SetsTypeOK'
      BY <2>1 DEF SetsInv, SetsTypeOK
    <2>3. \A e \in Dataset : deletion'[e] = "removed" <=> deletion[e] = "removed"
      BY <2>1 DEF SetsInv, SetsTypeOK
    <2>4. \A r \in shownSets : deletion'[r.id] = "removed" <=> deletion[r.id] = "removed"
      BY <2>3 DEF SetsInv, SetsTypeOK, SetRow
    <2> QED
      BY <2>1, <2>2, <2>3, <2>4 DEF SetsInv, UpToDate, Stored
  <1> QED
    BY <1>1, <1>2, <1>3

LEMMA SetSettled ==
  ASSUME SetsInv, NEW d \in Dataset, Sets!Settle(d)
  PROVE  SetsInv'
  <1>1. /\ table[d] = "open" /\ table' = [table EXCEPT ![d] = "settled"]
        /\ UNCHANGED <<shownSets, load, upload, deletion, behind>>
    BY DEF Sets!Settle
  <1>2. SetsTypeOK'
    BY <1>1 DEF SetsInv, SetsTypeOK
  <1>3. Stored' = Stored /\ \A e \in Dataset : /\ table[e] = "settled" => table'[e] = "settled"
                                               /\ table'[e] = "unused" <=> table[e] = "unused"
                                               /\ table'[e] = "removed" <=> table[e] = "removed"
    BY <1>1 DEF SetsInv, SetsTypeOK, Stored
  <1>4. \A rows : UpToDate(rows) => /\ \A e \in Stored' : \E r \in rows : r.id = e
                                    /\ \A r \in rows : r.id \in Stored' /\ ~r.open => table'[r.id] = "settled"
    BY <1>3 DEF UpToDate, Stored
  <1> QED
    BY <1>1, <1>2, <1>3, <1>4 DEF SetsInv, UpToDate

(* An upload and a deletion make old what was answered before.                *)
LEMMA SetsOutdated ==
  ASSUME SetsInv
  PROVE  /\ Sets!Outdated \in [Sets!Timer \cup Dataset -> SetLoad]
         /\ \A l \in DOMAIN Sets!Outdated :
              ~(Sets!Outdated[l].stage = "served" /\ ~Sets!Outdated[l].old)
  <1>1. DOMAIN load = Sets!Timer \cup Dataset /\ \A l \in DOMAIN load : load[l] \in SetLoad
    BY DEF SetsInv, SetsTypeOK
  <1>2. \A l \in DOMAIN load : /\ [load[l] EXCEPT !.old = load[l].stage = "served"] \in SetLoad
                               /\ [load[l] EXCEPT !.old = load[l].stage = "served"].stage = load[l].stage
                               /\ [load[l] EXCEPT !.old = load[l].stage = "served"].old = (load[l].stage = "served")
    BY <1>1 DEF SetLoad
  <1> QED
    BY <1>1, <1>2 DEF Sets!Outdated

LEMMA SetUploaded ==
  ASSUME SetsInv, NEW d \in Dataset, Sets!Upload(d)
  PROVE  SetsInv'
  <1>1. /\ upload[d] = "sent" /\ table' = [table EXCEPT ![d] = "open"]
        /\ upload' = [upload EXCEPT ![d] = "stored"] /\ load' = Sets!Outdated /\ behind' = TRUE
        /\ UNCHANGED <<shownSets, deletion>>
    BY DEF Sets!Upload
  <1>2. SetsTypeOK'
    BY <1>1, SetsOutdated DEF SetsInv, SetsTypeOK
  <1>3. \A e \in Dataset : /\ upload'[e] = "sent" => table'[e] = "unused"
                           /\ deletion'[e] = "removed" => table'[e] = "removed"
    BY <1>1 DEF SetsInv, SetsTypeOK
  <1> QED
    BY <1>1, <1>2, <1>3, SetsOutdated DEF SetsInv

LEMMA SetRemoved ==
  ASSUME SetsInv, NEW d \in Dataset, Sets!Remove(d)
  PROVE  SetsInv'
  <1>1. /\ d \in Stored /\ table' = [table EXCEPT ![d] = "removed"]
        /\ deletion' = [deletion EXCEPT ![d] = "removed"] /\ load' = Sets!Outdated
        /\ UNCHANGED <<shownSets, upload, behind>>
    BY DEF Sets!Remove, Stored
  <1>2. SetsTypeOK'
    BY <1>1, SetsOutdated DEF SetsInv, SetsTypeOK
  <1>3. /\ Stored' = Stored \ {d}
        /\ \A e \in Dataset : /\ e # d => table'[e] = table[e] /\ deletion'[e] = deletion[e]
                              /\ deletion'[d] = "removed" /\ table'[d] = "removed"
    BY <1>1 DEF SetsInv, SetsTypeOK, Stored
  <1>4. \A e \in Dataset : /\ upload'[e] = "sent" => table'[e] = "unused"
                           /\ deletion'[e] = "removed" => table'[e] = "removed"
    BY <1>1, <1>3 DEF SetsInv, Stored
  <1>5. ~behind => /\ \A e \in Stored' : \E r \in shownSets : r.id = e
                   /\ \A r \in shownSets : r.id \in Stored' /\ ~r.open => table'[r.id] = "settled"
                   /\ \A r \in shownSets : r.id \in Stored' \/ deletion'[r.id] = "removed"
    BY <1>3 DEF SetsInv, SetsTypeOK, SetRow, UpToDate
  <1> QED
    BY <1>1, <1>2, <1>4, <1>5, SetsOutdated DEF SetsInv, UpToDate

LEMMA SetUnlisted ==
  ASSUME SetsInv, NEW d \in Dataset, Sets!Deleted(d) \/ Sets!DeleteFails(d)
  PROVE  SetsInv'
  <1>1. /\ deletion' = [deletion EXCEPT ![d] = "none"] /\ UNCHANGED <<table, load, upload>>
        /\ \/ shownSets' = {r \in shownSets : r.id # d} /\ behind' = behind /\ deletion[d] = "removed"
           \/ shownSets' = shownSets /\ behind' = (behind \/ deletion[d] = "removed")
    BY DEF Sets!Deleted, Sets!DeleteFails
  <1>2. SetsTypeOK'
    BY <1>1 DEF SetsInv, SetsTypeOK
  <1>3. \A e \in Dataset : deletion'[e] = IF e = d THEN "none" ELSE deletion[e]
    BY <1>1 DEF SetsInv, SetsTypeOK
  <1>4. deletion[d] = "removed" => d \notin Stored
    BY DEF SetsInv, Stored
  <1>5. ASSUME ~behind'
        PROVE  UpToDate(shownSets') /\ \A r \in shownSets' : r.id \in Stored \/ deletion'[r.id] = "removed"
    <2>1. ~behind /\ shownSets \subseteq SetRow
      BY <1>1, <1>5 DEF SetsInv, SetsTypeOK
    <2>2. UpToDate(shownSets) /\ \A r \in shownSets : r.id \in Stored \/ deletion[r.id] = "removed"
      BY <2>1 DEF SetsInv
    <2>3. CASE shownSets' = {r \in shownSets : r.id # d} /\ deletion[d] = "removed"
      BY <1>3, <1>4, <2>1, <2>2, <2>3 DEF UpToDate, SetRow
    <2>4. CASE shownSets' = shownSets /\ behind' = (behind \/ deletion[d] = "removed")
      BY <1>3, <1>5, <2>1, <2>2, <2>4 DEF SetRow
    <2> QED
      BY <1>1, <2>3, <2>4
  <1> QED
    BY <1>1, <1>2, <1>3, <1>5 DEF SetsInv, UpToDate, Stored

LEMMA SetsSteps ==
  ASSUME SetsInv, Sets!Next
  PROVE  SetsInv'
  <1>1. CASE \E l \in Sets!Timer \cup Dataset : Sets!List(l) \/ Sets!ShowDatasets(l) \/ Sets!LoadFails(l)
    BY <1>1, SetsListed, SetsShown, SetsAsked
  <1>2. CASE Sets!Poll
    BY <1>2, SetsAsked
  <1>3. CASE \E d \in Dataset :
               \/ Sets!Settle(d) \/ Sets!SelectFile(d) \/ Sets!Upload(d) \/ Sets!Uploaded(d)
               \/ Sets!UploadEnds(d) \/ Sets!Delete(d) \/ Sets!Remove(d) \/ Sets!Deleted(d)
               \/ Sets!DeleteFails(d)
    BY <1>3, SetSettled, SetsCalls, SetUploaded, SetRemoved, SetUnlisted
  <1> QED
    BY <1>1, <1>2, <1>3 DEF Sets!Next

LEMMA SetsStay == SetsInv /\ UNCHANGED datasetVars => SetsInv'
  BY DEF SetsInv, SetsTypeOK, UpToDate, Stored, datasetVars

LEMMA SetsAlone ==
  ASSUME [Next]_vars
  PROVE  Sets!Next \/ UNCHANGED datasetVars
  BY DEF Next, vars, AtChat, AtDocuments, AtRuns, AtTickets, AtDatasets, AtSearch, AtComposer, AtFeed

(* For any datasets and any overlap of polls, uploads and deletions, the page *)
(* at rest shows what is stored, unless it is known to lag behind             *)
(* (loadDatasets, handleDelete).                                              *)
THEOREM RestIsComplete == Spec => []RestShowsAll
  <1>1. Init => SetsInv
    BY SetsStart DEF Init
  <1>2. SetsInv /\ [Next]_vars => SetsInv'
    BY SetsSteps, SetsStay, SetsAlone
  <1>3. SetsInv => RestShowsAll
    <2> SUFFICES ASSUME SetsInv, Sets!AtRest, ~behind PROVE shownSets = Sets!Rows
      BY DEF RestShowsAll, Sets!RestShowsAll
    <2>1. \A r \in shownSets : ~r.open /\ r \in SetRow
      BY DEF Sets!AtRest, Sets!InFlight, SetsInv, SetsTypeOK
    <2>2. \A r \in shownSets : r.id \in Stored /\ table[r.id] = "settled"
      BY <2>1 DEF Sets!AtRest, SetsInv, UpToDate, SetRow
    <2>3. \A r \in shownSets : r = [id |-> r.id, open |-> table[r.id] = "open"]
      BY <2>1, <2>2 DEF SetRow
    <2>4. shownSets \subseteq Sets!Rows
      BY <2>2, <2>3 DEF Sets!Rows, Stored
    <2>5. ASSUME NEW d \in Stored PROVE [id |-> d, open |-> table[d] = "open"] \in shownSets
      <3>1. PICK r \in shownSets : r.id = d
        BY <2>5 DEF SetsInv, UpToDate
      <3> QED
        BY <2>3, <3>1
    <2>6. Sets!Rows \subseteq shownSets
      BY <2>5 DEF Sets!Rows, Stored
    <2> QED
      BY <2>4, <2>6
  <1> QED
    BY <1>1, <1>2, <1>3, PTL DEF Spec
=============================================================================
