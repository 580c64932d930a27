-------------------------- MODULE Knowledge_proofs --------------------------
(***************************************************************************)
(* For any chunks, scores, limits and budgets an answer is made of what it *)
(* cites; and for any number of weeks, gaps, drafts and reviews the weekly *)
(* work finds, reviews and sends nothing twice.                            *)
(***************************************************************************)
EXTENDS Knowledge, FiniteSetTheorems, WellFoundedInduction, TLAPS

(* A set of natural numbers that is not empty has a least element. *)
LEMMA LeastNat ==
  ASSUME NEW T \in SUBSET Nat, T # {}
  PROVE  \E n \in T : \A m \in T : n <= m
<1> DEFINE R == OpToRel(<, Nat)
<1>1. IsWellFoundedOn(R, Nat)
  BY NatLessThanWellFounded
<1>2. \A m, n \in Nat : m < n => <<m, n>> \in R
  BY Zenon DEF OpToRel
<1> HIDE DEF R
<1>3. PICK n \in T : \A m \in T : ~(<<m, n>> \in R)
  BY <1>1, WFMin
<1>4. \A m \in T : ~(m < n)
  BY <1>2, <1>3, Zenon
<1> QED
  BY <1>4

(* A bounded set of natural numbers that is not empty has a greatest one. *)
LEMMA GreatestNat ==
  ASSUME NEW T, NEW N \in Nat, T \subseteq 0 .. N, T # {}
  PROVE  Request!Max(T) \in T /\ \A m \in T : m <= Request!Max(T)
<1> DEFINE Bounds == {n \in Nat : \A m \in T : m <= n}
<1>1. N \in Bounds
  OBVIOUS
<1>2. PICK n \in Bounds : \A k \in Bounds : n <= k
  BY <1>1, LeastNat
<1>3. n \in T
  <2> SUFFICES ASSUME n \notin T PROVE FALSE
    OBVIOUS
  <2>1. PICK m \in T : TRUE
    OBVIOUS
  <2>2. n # 0
    BY <1>2, <2>1
  <2>3. n - 1 \in Bounds
    BY <1>2, <2>2
  <2> QED
    BY <1>2, <2>2, <2>3
<1>4. \E x \in T : \A y \in T : x >= y
  BY <1>2, <1>3
<1>5. Request!Max(T) \in T /\ \A y \in T : Request!Max(T) >= y
  BY <1>4, Zenon DEF Request!Max
<1> QED
  BY <1>5

-----------------------------------------------------------------------------
(* Requests *)

(* Steps at which the sources are those of what was found. *)
Sourced == {"route", "answer", "generate", "grade", "regenerate"}

(* Documents whose rows were looked up are of what was found, and the others *)
(* are gone.                                                                 *)
NamedFound ==
  /\ named \subseteq {Request!Owner(c) : c \in results \cap Request!DocumentChunk}
  /\ \A c \in results \cap Request!DocumentChunk : Request!Owner(c) \in named \cup gone

(* The sources are the owners of what was found, with their best scores.     *)
SourcesFound ==
  /\ \A c \in results : \/ Request!Owner(c) \in gone
                        \/ \E s \in sources : s.of = Request!Owner(c) /\ s.score >= score[c]
  /\ \A s \in sources : \E c \in results : Request!Owner(c) = s.of /\ score[c] = s.score

HasBest == evidence \subseteq results /\ \E c \in evidence : score[c] = Request!TopScore

RetrievalTypes ==
  /\ score \in [Request!Chunk -> 0 .. MaxScore]
  /\ chunks \subseteq Request!Chunk /\ found \subseteq Request!Chunk
  /\ results \subseteq Request!Chunk
  /\ \A c \in Request!Chunk : Request!Owner(c) \in rows \cup gone
  /\ path \in Request!Paths

(* What a request relies on where it is. *)
RequestInv ==
  /\ RetrievalTypes
  /\ step \in {"list", "ticketRows"} => NamedFound
  /\ step = "list" => path = "search"
  /\ step \in Sourced \cup {"ticketRows", "tickets"} => path # "search"
  /\ step \in {"route", "rewrite", "generate", "grade", "regenerate"} => path = "graph"
  /\ step \in Sourced => SourcesFound
  /\ step \in {"documentRows", "ticketRows"} /\ path = "light" => results # {}
  /\ step \in Sourced \ {"route"} => results # {}
  /\ step = "fallback" => path # "search"
  /\ step = "fallback" /\ path = "graph" => Request!TopScore < Threshold
  /\ step \in {"grade", "regenerate"} => HasBest
  /\ Request!EvidenceIsCited

(* The best of what was found, if anything was. *)
LEMMA TopScoreIsBest ==
  ASSUME RetrievalTypes
  PROVE  /\ results = {} => Request!TopScore = 0
         /\ results # {} => \E c \in results : score[c] = Request!TopScore
         /\ \A c \in results : score[c] <= Request!TopScore
         /\ Request!TopScore \in Nat
<1> DEFINE S == {0} \cup {score[c] : c \in results}
<1>1. MaxScore \in Nat
  BY RetrievalBounds
<1>2. S \subseteq 0 .. MaxScore /\ S # {}
  BY <1>1 DEF RetrievalTypes
<1>3. Request!TopScore \in S /\ \A m \in S : m <= Request!TopScore
  <2> HIDE DEF S
  <2>1. Request!TopScore = Request!Max(S)
    BY Zenon DEF Request!TopScore, S
  <2> QED
    BY <1>1, <1>2, <2>1, GreatestNat
<1>4. ASSUME NEW d \in results, Request!TopScore = 0
      PROVE  score[d] = 0
  BY <1>2, <1>3, <1>4 DEF RetrievalTypes
<1> QED
  BY <1>1, <1>2, <1>3, <1>4

LEMMA BestScoreIsBest ==
  ASSUME RetrievalTypes, NEW d \in results
  PROVE  /\ Request!BestScore(Request!Owner(d)) >= score[d]
         /\ \E c \in results : /\ Request!Owner(c) = Request!Owner(d)
                               /\ score[c] = Request!BestScore(Request!Owner(d))
<1> DEFINE o == Request!Owner(d)
           S == {score[c] : c \in {c \in results : Request!Owner(c) = o}}
<1>1. MaxScore \in Nat
  BY RetrievalBounds
<1>2. S \subseteq 0 .. MaxScore /\ S \subseteq Nat /\ score[d] \in S
  BY <1>1 DEF RetrievalTypes
<1>3. Request!BestScore(o) = Request!Max(S)
  BY Zenon DEF Request!BestScore
<1> HIDE DEF S
<1>4. Request!Max(S) \in S /\ score[d] <= Request!Max(S)
  BY <1>1, <1>2, GreatestNat
<1>5. Request!Max(S) \in Nat /\ score[d] \in Nat
  BY <1>1, <1>2, <1>4
<1>6. PICK c \in results : Request!Owner(c) = o /\ score[c] = Request!Max(S)
  BY <1>4 DEF S
<1> QED
  BY <1>3, <1>4, <1>5, <1>6

(* Of the sources the documents and tickets make.                            *)
LEMMA SourcesMade ==
  ASSUME RetrievalTypes,
         NEW O, O \subseteq {Request!Owner(c) : c \in results},
         NEW T, T = {[of |-> o, score |-> Request!BestScore(o)] : o \in O}
  PROVE  /\ \A c \in results : Request!Owner(c) \in O =>
              \E s \in T : s.of = Request!Owner(c) /\ s.score >= score[c]
         /\ \A s \in T : \E c \in results : Request!Owner(c) = s.of /\ score[c] = s.score
<1>1. ASSUME NEW c \in results, Request!Owner(c) \in O
      PROVE  \E s \in T : s.of = Request!Owner(c) /\ s.score >= score[c]
  <2> DEFINE s == [of |-> Request!Owner(c), score |-> Request!BestScore(Request!Owner(c))]
  <2>1. s \in T
    BY <1>1
  <2>2. s.of = Request!Owner(c) /\ s.score >= score[c]
    BY BestScoreIsBest
  <2> QED
    BY <2>1, <2>2
<1>2. ASSUME NEW s \in T
      PROVE  \E c \in results : Request!Owner(c) = s.of /\ score[c] = s.score
  <2>1. PICK d \in results : s = [of |-> Request!Owner(d), score |-> Request!BestScore(Request!Owner(d))]
    OBVIOUS
  <2> QED
    BY <2>1, BestScoreIsBest
<1> QED
  BY <1>1, <1>2

(* What is put in the prompt is of what was found, and has the best of it.   *)
LEMMA EvidenceHasBest ==
  ASSUME RetrievalTypes, results # {}, evidence' \in Request!Evidence,
         UNCHANGED <<score, results>>
  PROVE  HasBest'
<1>1. /\ {Size, Excerpt, Budget} \subseteq Nat \ {0} /\ Excerpt < Budget
  BY SomethingFits
<1>2. \E c \in results : score[c] = Request!TopScore
  BY TopScoreIsBest
<1>3. \A c \in results : score[c] <= Request!TopScore /\ score[c] \in Nat /\ Request!TopScore \in Nat
  BY TopScoreIsBest DEF RetrievalTypes
<1>4. Request!TopScore' = Request!TopScore
  BY DEF Request!TopScore, Request!Max
<1>5. PICK whole \in Request!EvidencePacks :
        evidence' \in IF whole = results THEN {results}
                      ELSE {whole \cup part : part \in Request!Trimmed(whole)}
  BY DEF Request!Evidence
<1>6. /\ whole \in SUBSET results
      /\ \A a \in whole, b \in results \ whole : score[a] >= score[b]
  BY <1>5 DEF Request!EvidencePacks
<1>7. CASE whole = results
  BY <1>2, <1>4, <1>5, <1>7 DEF HasBest
<1>8. CASE whole # results /\ whole # {}
  <2>1. PICK part \in Request!Trimmed(whole) : evidence' = whole \cup part
    BY <1>5, <1>8
  <2>2. part \subseteq results
    BY <2>1 DEF Request!Trimmed
  <2>3. \E c \in whole : score[c] = Request!TopScore
    <3>1. PICK best \in results : score[best] = Request!TopScore
      BY <1>2
    <3>2. PICK a \in whole : TRUE
      BY <1>8
    <3>3. a \in results
      BY <1>6
    <3>4. CASE best \notin whole
      <4>1. score[a] >= score[best]
        BY <1>6, <3>1, <3>4
      <4>2. score[a] = Request!TopScore
        BY <4>1, <3>1, <3>3, <1>3
      <4> QED
        BY <4>2
    <3> QED
      BY <3>1, <3>4
  <2> QED
    BY <1>4, <1>6, <2>1, <2>2, <2>3 DEF HasBest
<1>9. CASE whole # results /\ whole = {}
  <2>1. Request!Cardinality(whole) = 0
    <3>1. Request!Cardinality(whole) = Cardinality(whole)
      BY DEF Request!Cardinality, Cardinality
    <3> QED
      BY <1>9, <3>1, FS_EmptySet
  <2>2. ~(Request!Cardinality(whole) * Size + Excerpt >= Budget)
    BY <1>1, <2>1
  <2>3. PICK part \in Request!Trimmed(whole) : evidence' = whole \cup part
    BY <1>5, <1>9
  <2>4. PICK c \in results : (\A b \in results : score[c] >= score[b]) /\ part = {c}
    <3>1. part \in {{c} : c \in {c \in results \ whole :
                                \A b \in results \ whole : score[c] >= score[b]}}
      BY <2>2, <2>3 DEF Request!Trimmed
    <3> QED
      BY <1>9, <3>1
  <2>5. score[c] = Request!TopScore
    BY <1>2, <1>3, <2>4
  <2> QED
    BY <1>4, <1>9, <2>3, <2>4, <2>5 DEF HasBest
<1> QED
  BY <1>7, <1>8, <1>9

(* A step that leaves a request alone, or only takes rows away from it. *)
LEMMA RequestFrame ==
  ASSUME RequestInv, RetrievalTypes', UNCHANGED Request!request, gone \subseteq gone'
  PROVE  RequestInv'
<1> USE DEF Request!request
<1>1. /\ Request!TopScore' = Request!TopScore /\ Request!Shown' = Request!Shown
      /\ \A c : Request!Owner(c)' = Request!Owner(c)
  BY DEF Request!TopScore, Request!Shown, Request!Owner, Request!TicketChunk,
     Request!DocumentChunk, Request!Max
<1>2. NamedFound => NamedFound'
  BY DEF NamedFound, Request!Owner, Request!TicketChunk, Request!DocumentChunk
<1>3. SourcesFound => SourcesFound'
  BY DEF SourcesFound, Request!Owner, Request!TicketChunk, Request!DocumentChunk
<1>4. HasBest => HasBest'
  BY <1>1 DEF HasBest
<1>5. Request!EvidenceIsCited'
  BY <1>1 DEF RequestInv, Request!EvidenceIsCited, Request!Owner, Request!TicketChunk,
     Request!DocumentChunk
<1> QED
  BY <1>1, <1>2, <1>3, <1>4, <1>5 DEF RequestInv

LEMMA RequestInit == Request!Init => RequestInv
  BY RetrievalBounds DEF Request!Init, RequestInv, RetrievalTypes, Request!EvidenceIsCited, Sourced,
     Request!Chunk

(* What is searched and found are chunks. *)
LEMMA RetrievalTypesStep ==
  ASSUME RetrievalTypes, Request!Next
  PROVE  RetrievalTypes'
<1> USE DEF RetrievalTypes, Request!tables
<1> SUFFICES /\ score' \in [Request!Chunk -> 0 .. MaxScore]
             /\ chunks' \subseteq Request!Chunk /\ found' \subseteq Request!Chunk
             /\ results' \subseteq Request!Chunk
             /\ \A c \in Request!Chunk : Request!Owner(c) \in rows' \cup gone'
             /\ path' \in Request!Paths
  BY DEF Request!Chunk, Request!Owner, Request!TicketChunk, Request!DocumentChunk, Request!Paths
<1>1. CASE Request!SearchDocuments
  BY <1>1 DEF Request!SearchDocuments, Request!Top
<1>2. CASE Request!SearchTickets
  <2>1. PICK tickets \in Request!Top(chunks \cap Request!TicketChunk, Reserve, score) :
          results' \in Request!Merged(Request!Qualifying(tickets))
    BY <1>2 DEF Request!SearchTickets
  <2>2. Request!Qualifying(tickets) \subseteq Request!Chunk
    BY <2>1 DEF Request!Qualifying, Request!Top
  <2>3. results' \subseteq Request!Chunk
    BY <2>1, <2>2 DEF Request!Merged, Request!Top
  <2> QED
    BY <1>2, <2>3 DEF Request!SearchTickets
<1>3. CASE Request!SearchChunks
  BY <1>3 DEF Request!SearchChunks, Request!Top
<1>4. ASSUME NEW d \in Request!Document, Request!DeleteDocument(d)
      PROVE  /\ score' \in [Request!Chunk -> 0 .. MaxScore]
             /\ chunks' \subseteq Request!Chunk /\ found' \subseteq Request!Chunk
             /\ results' \subseteq Request!Chunk
             /\ \A c \in Request!Chunk : Request!Owner(c) \in rows' \cup gone'
             /\ path' \in Request!Paths
  BY <1>4 DEF Request!DeleteDocument, Request!request
<1>5. ASSUME NEW c \in Request!Chunk, Request!ChangeChunk(c)
      PROVE  /\ score' \in [Request!Chunk -> 0 .. MaxScore]
             /\ chunks' \subseteq Request!Chunk /\ found' \subseteq Request!Chunk
             /\ results' \subseteq Request!Chunk
             /\ \A d \in Request!Chunk : Request!Owner(d) \in rows' \cup gone'
             /\ path' \in Request!Paths
  BY <1>5 DEF Request!ChangeChunk, Request!request
<1>6. CASE \/ Request!ListFound \/ Request!SelectDocuments \/ Request!SelectTickets
           \/ Request!RouteAfterRetrieve \/ Request!Rewrite \/ Request!Fallback
           \/ Request!Answer \/ Request!Generate \/ Request!GradeAnswer \/ Request!Regenerate
  BY <1>6 DEF Request!ListFound, Request!SelectDocuments, Request!SelectTickets,
     Request!RouteAfterRetrieve, Request!Rewrite, Request!Fallback,
     Request!Answer, Request!Generate, Request!GradeAnswer, Request!Regenerate
<1> QED
  BY <1>1, <1>2, <1>3, <1>4, <1>5, <1>6 DEF Request!Next

(* A request goes on: every answer it may end with is cited. *)
LEMMA RequestNext ==
  ASSUME RequestInv, Request!Next
  PROVE  RequestInv'
<1>1. RetrievalTypes /\ RetrievalTypes'
  BY RetrievalTypesStep DEF RequestInv
<1> USE DEF Request!tables
<1>2. CASE Request!SearchDocuments
  BY <1>1, <1>2 DEF Request!SearchDocuments, RequestInv, Request!EvidenceIsCited, Sourced
<1>3. CASE Request!SearchTickets
  <2>1. step' = (IF path = "light" /\ results' = {} THEN "fallback" ELSE "documentRows")
        /\ path' = path /\ path # "search"
    BY <1>3 DEF Request!SearchTickets, RequestInv
  <2>2. step' = "fallback" => path' # "graph"
    BY <2>1
  <2>3. step' \in {"documentRows", "ticketRows"} /\ path' = "light" => results' # {}
    BY <2>1
  <2>4. step' \in {"fallback", "documentRows"}
    BY <2>1
  <2> QED
    BY <1>1, <2>1, <2>2, <2>3, <2>4 DEF RequestInv, Request!EvidenceIsCited, Sourced
<1>4. CASE Request!SearchChunks
  BY <1>1, <1>4 DEF Request!SearchChunks, RequestInv, Request!EvidenceIsCited, Sourced
<1>5. CASE Request!SelectDocuments
  <2>1. NamedFound'
    BY <1>1, <1>5 DEF Request!SelectDocuments, NamedFound, RetrievalTypes, Request!OwnersOf,
       Request!Owner, Request!TicketChunk, Request!DocumentChunk, Request!Chunk
  <2>2. /\ step' = (IF path = "search" THEN "list" ELSE "ticketRows")
        /\ path' = path /\ results' = results /\ step = "documentRows"
    BY <1>5 DEF Request!SelectDocuments
  <2>3. step' = "ticketRows" => path' # "search"
    BY <2>2
  <2>4. step' = "list" => path' = "search"
    BY <2>2
  <2>5. step' \in {"list", "ticketRows"}
    BY <2>2
  <2>6. path' = "light" => results' # {}
    BY <2>2 DEF RequestInv
  <2> QED
    BY <1>1, <2>1, <2>3, <2>4, <2>5, <2>6 DEF RequestInv, Request!EvidenceIsCited, Sourced
<1>6. CASE Request!SelectTickets
  <2> DEFINE O == named \cup (Request!OwnersOf(results \cap Request!TicketChunk) \cap rows)
  <2>1. /\ sources' = {[of |-> o, score |-> Request!BestScore(o)] : o \in O}
        /\ step = "ticketRows" /\ path' = path
        /\ step' = (IF path = "light" THEN "answer" ELSE "route")
        /\ UNCHANGED <<rows, chunks, gone, path, rewrites, score, found, results, named, evidence>>
    BY <1>6 DEF Request!SelectTickets
  <2>2. NamedFound
    BY <2>1 DEF RequestInv
  <2>3. O \subseteq {Request!Owner(c) : c \in results}
    BY <2>2 DEF NamedFound, Request!OwnersOf
  <2>4. \A c \in results : Request!Owner(c) \in O \cup gone
    BY <1>1, <2>2 DEF NamedFound, Request!OwnersOf, RetrievalTypes, Request!Chunk
  <2> HIDE DEF O
  <2>5. SourcesFound'
    <3>1. /\ \A c \in results : Request!Owner(c) \in O =>
               \E s \in sources' : s.of = Request!Owner(c) /\ s.score >= score[c]
          /\ \A s \in sources' : \E c \in results : Request!Owner(c) = s.of /\ score[c] = s.score
      BY <1>1, <2>1, <2>3, SourcesMade
    <3> QED
      BY <2>1, <2>4, <3>1 DEF SourcesFound, Request!Owner, Request!TicketChunk
  <2>6. path # "search" /\ path \in Request!Paths
    BY <1>1, <2>1 DEF RequestInv, RetrievalTypes
  <2>7. path = "light" => results' # {}
    BY <2>1 DEF RequestInv
  <2>8. CASE path = "light"
    <3>1. step' = "answer"
      BY <2>1, <2>8
    <3> QED
      BY <1>1, <2>1, <2>5, <2>7, <2>8, <3>1 DEF RequestInv, Request!EvidenceIsCited, Sourced
  <2>9. CASE path = "graph"
    <3>1. step' = "route"
      BY <2>1, <2>9
    <3> QED
      BY <1>1, <2>1, <2>5, <2>9, <3>1 DEF RequestInv, Request!EvidenceIsCited, Sourced
  <2> QED
    BY <2>6, <2>8, <2>9 DEF Request!Paths
<1>7. CASE Request!ListFound
  <2>1. /\ sources' = {[of |-> o, score |-> Request!BestScore(o)] : o \in named}
        /\ step = "list" /\ path' = path /\ step' = "answered" /\ path = "search"
        /\ UNCHANGED <<score, results, gone>>
    BY <1>7 DEF Request!ListFound, RequestInv
  <2>2. NamedFound
    BY <2>1 DEF RequestInv
  <2>3. /\ \A c \in results : Request!Owner(c) \in named =>
             \E s \in sources' : s.of = Request!Owner(c) /\ s.score >= score[c]
        /\ \A s \in sources' : \E c \in results : Request!Owner(c) = s.of /\ score[c] = s.score
    BY <1>1, <2>1, <2>2, SourcesMade DEF NamedFound
  <2>4. Request!EvidenceIsCited'
    BY <2>1, <2>2, <2>3 DEF Request!EvidenceIsCited, Request!Shown, NamedFound, Request!Owner,
       Request!TicketChunk, Request!DocumentChunk
  <2> QED
    BY <1>1, <2>1, <2>4 DEF RequestInv, Sourced
<1>8. CASE Request!RouteAfterRetrieve
  <2>1. /\ step = "route" /\ path = "graph" /\ SourcesFound
        /\ UNCHANGED <<path, score, found, results, named, sources, evidence, gone>>
    BY <1>8 DEF Request!RouteAfterRetrieve, RequestInv, Sourced
  <2>2. Request!TopScore' = Request!TopScore
    BY <2>1 DEF Request!TopScore, Request!Max
  <2>3. SourcesFound'
    BY <2>1 DEF SourcesFound, Request!Owner, Request!TicketChunk, Request!DocumentChunk
  <2>4. Request!TopScore \in Nat /\ Threshold \in Nat /\ Threshold # 0
    BY <1>1, TopScoreIsBest, RetrievalBounds
  <2>5. CASE Request!TopScore >= Threshold
    <3>1. results # {}
      BY <1>1, <2>4, <2>5, TopScoreIsBest
    <3>2. step' \in {"generate", "answer"}
      BY <1>8, <2>4, <2>5 DEF Request!RouteAfterRetrieve
    <3> QED
      BY <1>1, <2>1, <2>3, <3>1, <3>2 DEF RequestInv, Request!EvidenceIsCited, Sourced
  <2>6. CASE Request!TopScore < Threshold
    <3>1. step' \in {"rewrite", "fallback"}
      BY <1>8, <2>4, <2>6 DEF Request!RouteAfterRetrieve
    <3> QED
      BY <1>1, <2>1, <2>2, <2>6, <3>1 DEF RequestInv, Request!EvidenceIsCited, Sourced
  <2> QED
    BY <2>4, <2>5, <2>6
<1>9. CASE Request!Rewrite
  BY <1>1, <1>9 DEF Request!Rewrite, RequestInv, Request!EvidenceIsCited, Sourced
<1>10. CASE Request!Fallback
  <2>1. /\ step = "fallback" /\ step' = "answered" /\ evidence' = {} /\ sources' = {}
        /\ path # "search"
        /\ UNCHANGED <<path, score, found, results, named, gone>>
        /\ path = "graph" => Request!TopScore < Threshold
    BY <1>10 DEF Request!Fallback, RequestInv
  <2>2. Request!TopScore' = Request!TopScore
    BY <2>1 DEF Request!TopScore, Request!Max
  <2>3. Request!EvidenceIsCited'
    BY <2>1, <2>2 DEF Request!EvidenceIsCited, Request!Shown
  <2> QED
    BY <1>1, <2>1, <2>3 DEF RequestInv, Sourced
<1>11. CASE Request!Answer \/ Request!Generate
  <2>1. /\ step \in {"answer", "generate"} /\ evidence' \in Request!Evidence
        /\ results # {} /\ SourcesFound /\ path # "search"
        /\ step' \in {"answered", "grade"}
        /\ step' = "grade" => path = "graph"
        /\ UNCHANGED <<path, score, found, results, named, sources, gone>>
    BY <1>11 DEF Request!Answer, Request!Generate, RequestInv, Sourced
  <2>2. HasBest'
    BY <1>1, <2>1, EvidenceHasBest
  <2>3. SourcesFound'
    BY <2>1 DEF SourcesFound, Request!Owner, Request!TicketChunk, Request!DocumentChunk
  <2>4. Request!EvidenceIsCited'
    <3>1. Request!Shown' = evidence'
      BY <2>1 DEF Request!Shown
    <3>2. evidence' # {}
      BY <2>2 DEF HasBest
    <3> QED
      BY <2>2, <2>3, <3>1, <3>2 DEF Request!EvidenceIsCited, HasBest, SourcesFound
  <2> QED
    BY <1>1, <2>1, <2>2, <2>3, <2>4 DEF RequestInv, Sourced
<1>12. CASE Request!GradeAnswer \/ Request!Regenerate
  <2>1. /\ step \in {"grade", "regenerate"}
        /\ results # {} /\ SourcesFound /\ path = "graph" /\ HasBest
        /\ step' \in {"answered", "regenerate"}
        /\ UNCHANGED <<path, score, found, results, named, sources, evidence, gone>>
    BY <1>12 DEF Request!GradeAnswer, Request!Regenerate, RequestInv, Sourced
  <2>2. HasBest'
    BY <2>1 DEF HasBest, Request!TopScore, Request!Max
  <2>3. SourcesFound'
    BY <2>1 DEF SourcesFound, Request!Owner, Request!TicketChunk, Request!DocumentChunk
  <2>4. Request!EvidenceIsCited'
    BY <2>1, <2>2, <2>3 DEF Request!EvidenceIsCited, Request!Shown, HasBest, SourcesFound
  <2> QED
    BY <1>1, <2>1, <2>2, <2>3, <2>4 DEF RequestInv, Sourced
<1>13. ASSUME NEW d \in Request!Document, Request!DeleteDocument(d)
       PROVE  RequestInv'
  BY <1>1, <1>13, RequestFrame DEF Request!DeleteDocument
<1>14. ASSUME NEW c \in Request!Chunk, Request!ChangeChunk(c)
       PROVE  RequestInv'
  BY <1>1, <1>14, RequestFrame DEF Request!ChangeChunk
<1> QED
  BY <1>2, <1>3, <1>4, <1>5, <1>6, <1>7, <1>8, <1>9, <1>10, <1>11, <1>12, <1>13, <1>14
     DEF Request!Next

-----------------------------------------------------------------------------
(* The queue of the week *)

JobState == {"none", "waiting", "active", "failed", "lost"}

QueueTypes ==
  /\ kind \in Weekly!Kind
  /\ tick \in [week : 0 .. Weeks, pc : {"over", "select", "stalled"}]
  /\ tick.pc # "over" => tick.week \in Weekly!Week
  /\ job \in [Weekly!Week -> [state : JobState, attemptsMade : Nat, stalls : Nat]]
  /\ worker \in [pc : {"idle", "start", "read", "compare", "record", "succeed", "catch"},
                 week : 0 .. Weeks, owns : BOOLEAN,
                 todo : SUBSET (Gap \cup Cluster \cup Weekly!Channel)]
  /\ worker.pc # "idle" => worker.week \in Weekly!Week
  /\ worker.owns => worker.pc # "idle"

(* What the queue does to a job. *)
LEMMA JobSteps ==
  ASSUME NEW j \in [state : JobState, attemptsMade : Nat, stalls : Nat], NEW n \in Nat
  PROVE  /\ Weekly!Enqueued(j) \in [state : JobState, attemptsMade : Nat, stalls : Nat]
         /\ j.state = "none" => Weekly!Enqueued(j).state = "waiting"
         /\ Weekly!FailedAttempt(j, n) \in [state : JobState, attemptsMade : Nat, stalls : Nat]
         /\ Weekly!FailedAttempt(j, n).state \in {"waiting", "failed"}
         /\ Weekly!StalledJob(j, n) \in [state : JobState, attemptsMade : Nat, stalls : Nat]
         /\ Weekly!NoJob \in [state : JobState, attemptsMade : Nat, stalls : Nat]
         /\ Weekly!NoJob.state = "none"
<1> USE DEF JobState
<1>1. /\ Weekly!NoJob \in [state : JobState, attemptsMade : Nat, stalls : Nat]
      /\ Weekly!NoJob.state = "none"
  BY DEF Weekly!NoJob
<1>2. /\ Weekly!Enqueued(j) \in [state : JobState, attemptsMade : Nat, stalls : Nat]
      /\ j.state = "none" => Weekly!Enqueued(j).state = "waiting"
  BY DEF Weekly!Enqueued, Weekly!Found, Weekly!NoJob
<1>3. /\ Weekly!FailedAttempt(j, n) \in [state : JobState, attemptsMade : Nat, stalls : Nat]
      /\ Weekly!FailedAttempt(j, n).state \in {"waiting", "failed"}
  <2>1. j.attemptsMade + 1 \in Nat
    OBVIOUS
  <2> QED
    BY <2>1 DEF Weekly!FailedAttempt
<1>4. Weekly!StalledJob(j, n) \in [state : JobState, attemptsMade : Nat, stalls : Nat]
  <2>1. j.stalls + 1 \in Nat
    OBVIOUS
  <2> QED
    BY <2>1 DEF Weekly!StalledJob
<1> QED
  BY <1>1, <1>2, <1>3, <1>4

(* A step never finds more to do than it looked up. *)
StillRecording ==
  worker'.pc = "record" => worker.pc = "record" /\ worker'.todo \subseteq worker.todo

LEMMA QueueTypesStep ==
  ASSUME QueueTypes, Weekly!Queue
  PROVE  QueueTypes' /\ StillRecording /\ UNCHANGED kind
<1> USE InsightBounds DEF StillRecording
<1>0. \A w \in Weekly!Week : job[w] \in [state : JobState, attemptsMade : Nat, stalls : Nat]
  BY DEF QueueTypes
<1>1. CASE Weekly!Tick
  BY <1>1 DEF Weekly!Tick, QueueTypes, Weekly!Week
<1>2. CASE Weekly!FanOut \/ Weekly!TickCutOff
  <2>1. /\ tick.pc = "select" /\ job' = [job EXCEPT ![tick.week] = Weekly!Enqueued(@)]
        /\ tick' \in {[tick EXCEPT !.pc = "over"], [tick EXCEPT !.pc = "stalled"]}
        /\ UNCHANGED <<kind, worker>>
    BY <1>2 DEF Weekly!FanOut, Weekly!TickCutOff
  <2>2. Weekly!Enqueued(job[tick.week]) \in [state : JobState, attemptsMade : Nat, stalls : Nat]
    BY <1>0, <2>1, JobSteps DEF QueueTypes
  <2> QED
    BY <2>1, <2>2 DEF QueueTypes
<1>3. CASE Weekly!TickFails \/ Weekly!TickAgain
  BY <1>3 DEF Weekly!TickFails, Weekly!TickAgain, QueueTypes
<1>4. ASSUME NEW w \in Weekly!Week, Weekly!TakeJob(w)
      PROVE  QueueTypes' /\ StillRecording /\ UNCHANGED kind
  <2>1. [job[w] EXCEPT !.state = "active"] \in [state : JobState, attemptsMade : Nat, stalls : Nat]
    BY <1>0 DEF JobState
  <2>2. /\ job' = [job EXCEPT ![w] = [job[w] EXCEPT !.state = "active"]]
        /\ worker' = [pc |-> "start", week |-> w, owns |-> TRUE, todo |-> {}]
        /\ UNCHANGED <<kind, tick>>
    BY <1>4 DEF Weekly!TakeJob, Weekly!NoWork
  <2>3. w \in 0 .. Weeks
    BY DEF Weekly!Week
  <2> QED
    BY <2>1, <2>2, <2>3 DEF QueueTypes
<1>5. ASSUME NEW w \in Weekly!Week, Weekly!Stalled(w)
      PROVE  QueueTypes' /\ StillRecording /\ UNCHANGED kind
  <2>1. Weekly!StalledJob(job[w], MaxStalls) \in [state : JobState, attemptsMade : Nat, stalls : Nat]
    BY <1>0, JobSteps
  <2> QED
    BY <1>5, <2>1 DEF Weekly!Stalled, QueueTypes
<1>6. CASE \/ Weekly!StartRun \/ Weekly!CallFails \/ Weekly!SucceedFails
  BY <1>6 DEF Weekly!StartRun, Weekly!CallFails, Weekly!SucceedFails, Weekly!At, Weekly!Goto, QueueTypes
<1>7. CASE Weekly!StartFails \/ Weekly!Succeed \/ Weekly!Fail
  <2>1. PICK j \in {Weekly!NoJob, Weekly!FailedAttempt(job[worker.week], Weekly!Attempts)} :
          Weekly!EndJob(j) /\ worker.pc # "idle" /\ UNCHANGED <<kind, tick>>
    BY <1>7 DEF Weekly!StartFails, Weekly!Succeed, Weekly!Fail, Weekly!At
  <2>2. j \in [state : JobState, attemptsMade : Nat, stalls : Nat]
    <3>1. worker.week \in Weekly!Week /\ Weekly!Attempts \in Nat
      BY <2>1 DEF QueueTypes, Weekly!Attempts
    <3>2. job[worker.week] \in [state : JobState, attemptsMade : Nat, stalls : Nat]
      BY <1>0, <3>1
    <3>3. /\ Weekly!NoJob \in [state : JobState, attemptsMade : Nat, stalls : Nat]
          /\ Weekly!FailedAttempt(job[worker.week], Weekly!Attempts)
               \in [state : JobState, attemptsMade : Nat, stalls : Nat]
      BY <3>1, <3>2, JobSteps
    <3> QED
      BY <2>1, <3>3
  <2> QED
    BY <2>1, <2>2 DEF Weekly!EndJob, QueueTypes, Weekly!NoWork
<1>8. CASE Weekly!Overrun
  <2>1. worker.week \in Weekly!Week
    BY <1>8 DEF Weekly!Overrun, QueueTypes
  <2>2. Weekly!StalledJob(job[worker.week], MaxStalls)
          \in [state : JobState, attemptsMade : Nat, stalls : Nat]
    BY <1>0, <2>1, JobSteps
  <2> QED
    BY <1>8, <2>1, <2>2 DEF Weekly!Overrun, QueueTypes
<1>9. CASE Weekly!Crash
  <2>1. tick' \in {[tick EXCEPT !.pc = "stalled"], tick}
        /\ (tick' = [tick EXCEPT !.pc = "stalled"] => tick.pc = "select" \/ tick' = tick)
    BY <1>9 DEF Weekly!Crash
  <2> QED
    BY <1>9, <2>1 DEF Weekly!Crash, QueueTypes, Weekly!NoWork
<1> QED
  BY <1>1, <1>2, <1>3, <1>4, <1>5, <1>6, <1>7, <1>8, <1>9 DEF Weekly!Queue

(* The steps of the other work: what they do to the worker. *)
LEMMA WorkTypesStep ==
  ASSUME QueueTypes, settings \subseteq Weekly!Channel,
         Weekly!Freshness \/ Weekly!Faq \/ Weekly!Digest
  PROVE  QueueTypes' /\ UNCHANGED <<kind, tick, job, redone>>
<1> USE DEF Weekly!queue, Weekly!history, Weekly!At, Weekly!Goto
<1>0. ASSUME UNCHANGED <<kind, tick, job>>, UNCHANGED redone,
             worker' = worker \/ /\ worker' \in [pc : {"record", "catch", "succeed"}, week : {worker.week},
                                                 owns : {worker.owns}, todo : SUBSET (Gap \cup Cluster \cup Weekly!Channel)]
                                 /\ worker.pc # "idle"
      PROVE  QueueTypes' /\ UNCHANGED <<kind, tick, job, redone>>
  BY <1>0 DEF QueueTypes
<1>00. ASSUME UNCHANGED <<kind, tick, job, redone>>, worker.pc # "idle",
              NEW p \in {"record", "catch", "succeed"}, NEW T \in SUBSET worker.todo,
              worker' = [worker EXCEPT !.pc = p, !.todo = T]
       PROVE  QueueTypes' /\ UNCHANGED <<kind, tick, job, redone>>
  BY <1>00 DEF QueueTypes
<1>1. CASE Weekly!Freshness
  <2>1. CASE Weekly!FindGaps
    BY <1>0, <2>1 DEF Weekly!FindGaps, QueueTypes
  <2>2. CASE Weekly!InsertFlags
    BY <1>0, <2>2 DEF Weekly!InsertFlags, QueueTypes
  <2>3. ASSUME NEW g \in Gap, Weekly!DismissFlag(g)
        PROVE  QueueTypes' /\ UNCHANGED <<kind, tick, job, redone>>
    BY <1>0, <2>3 DEF Weekly!DismissFlag
  <2> QED
    BY <1>1, <2>1, <2>2, <2>3 DEF Weekly!Freshness
<1>2. CASE Weekly!Faq
  <2>1. CASE Weekly!FindUncovered
    <3>1. PICK uncovered \in SUBSET Cluster :
            worker' = [worker EXCEPT !.pc = "compare", !.todo = uncovered]
      BY <2>1 DEF Weekly!FindUncovered
    <3> QED
      BY <2>1, <3>1 DEF Weekly!FindUncovered, QueueTypes
  <2>2. CASE Weekly!SkipDrafted \/ Weekly!SkipCluster \/ Weekly!DraftsDone
    <3>1. worker.todo \in SUBSET worker.todo
      OBVIOUS
    <3>2. CASE Weekly!SkipDrafted
      BY <1>00, <3>2 DEF Weekly!SkipDrafted, QueueTypes
    <3>3. CASE Weekly!SkipCluster
      <4>1. PICK c \in worker.todo : worker' = [worker EXCEPT !.todo = @ \ {c}]
        BY <3>3 DEF Weekly!SkipCluster
      <4>2. worker' = [worker EXCEPT !.pc = "record", !.todo = worker.todo \ {c}]
        BY <3>3, <4>1 DEF Weekly!SkipCluster, QueueTypes
      <4> QED
        BY <1>00, <3>3, <4>2 DEF Weekly!SkipCluster
    <3>4. CASE Weekly!DraftsDone
      BY <1>0, <3>4 DEF Weekly!DraftsDone, QueueTypes
    <3> QED
      BY <2>2, <3>2, <3>3, <3>4
  <2>3. ASSUME NEW d \in Draft, Weekly!InsertDraft(d) \/ Weekly!Reject(d)
        PROVE  QueueTypes' /\ UNCHANGED <<kind, tick, job, redone>>
    <3>1. CASE Weekly!InsertDraft(d)
      <4>1. PICK c \in worker.todo, p \in {"record", "catch"} :
              worker' = [worker EXCEPT !.pc = p, !.todo = worker.todo \ {c}]
        BY <3>1 DEF Weekly!InsertDraft
      <4> QED
        BY <1>00, <3>1, <4>1 DEF Weekly!InsertDraft
    <3>2. CASE Weekly!Reject(d)
      BY <1>0, <3>2 DEF Weekly!Reject
    <3> QED
      BY <2>3, <3>1, <3>2
  <2>4. ASSUME NEW r \in Review,
               \/ \E d \in Draft : Weekly!SelectDraft(r, d)
               \/ Weekly!FindFaqBase(r) \/ Weekly!CreateFaqBase(r) \/ Weekly!InsertDocument(r)
               \/ Weekly!Approve(r) \/ Weekly!ApprovalFails(r)
        PROVE  QueueTypes' /\ UNCHANGED <<kind, tick, job, redone>>
    BY <1>0, <2>4 DEF Weekly!SelectDraft, Weekly!FindFaqBase, Weekly!CreateFaqBase,
       Weekly!InsertDocument, Weekly!Approve, Weekly!ApprovalFails
  <2> QED
    BY <1>2, <2>1, <2>2, <2>3, <2>4 DEF Weekly!Faq
<1>3. CASE Weekly!Digest
  <2>0. CASE Weekly!BuildDigest
    BY <1>0, <2>0 DEF Weekly!BuildDigest, QueueTypes
  <2>1. CASE Weekly!DigestDone
    BY <1>0, <2>1 DEF Weekly!DigestDone, QueueTypes
  <2>2. ASSUME NEW c \in Weekly!Channel, Weekly!SendDigest(c) \/ Weekly!SendFails(c)
        PROVE  QueueTypes' /\ UNCHANGED <<kind, tick, job, redone>>
    <3>1. worker' = [worker EXCEPT !.pc = "record", !.todo = worker.todo \ {c}]
      BY <2>2 DEF Weekly!SendDigest, Weekly!SendFails, QueueTypes
    <3> QED
      BY <1>00, <2>2, <3>1 DEF Weekly!SendDigest, Weekly!SendFails
  <2>3. ASSUME NEW r \in Review,
               \/ \E c \in Weekly!Channel, on \in BOOLEAN : Weekly!ReadSettings(r, c, on)
               \/ Weekly!WriteSettings(r) \/ Weekly!WriteFails(r)
        PROVE  QueueTypes' /\ UNCHANGED <<kind, tick, job, redone>>
    BY <1>0, <2>3 DEF Weekly!ReadSettings, Weekly!WriteSettings, Weekly!WriteFails
  <2> QED
    BY <1>3, <2>0, <2>1, <2>2, <2>3 DEF Weekly!Digest
<1> QED
  BY <1>1, <1>2, <1>3

-----------------------------------------------------------------------------
(* The freshness check *)

(* A gap that is to be recorded has no open flag. *)
FreshInv ==
  /\ flags \in [Gap -> Nat]
  /\ \A g \in Gap : flags[g] <= 1
  /\ kind = "freshness-check" /\ worker.pc = "record" =>
       \A g \in Gap : g \in worker.todo => flags[g] = 0

LEMMA FreshFrame ==
  ASSUME FreshInv, StillRecording, UNCHANGED <<kind, flags>>
  PROVE  FreshInv'
  BY DEF FreshInv, StillRecording

LEMMA FreshNext ==
  ASSUME FreshInv, QueueTypes, Weekly!Freshness
  PROVE  FreshInv'
<1>1. CASE Weekly!FindGaps
  BY <1>1 DEF Weekly!FindGaps, Weekly!At, FreshInv, QueueTypes
<1>2. CASE Weekly!InsertFlags
  <2>1. /\ flags' = [g \in Gap |-> IF g \in worker.todo THEN flags[g] + 1 ELSE flags[g]]
        /\ \A g \in Gap : g \in worker.todo => flags[g] = 0
        /\ worker'.pc # "record"
    BY <1>2 DEF Weekly!InsertFlags, Weekly!At, Weekly!Goto, FreshInv, QueueTypes
  <2> QED
    BY <2>1 DEF FreshInv
<1>3. ASSUME NEW g \in Gap, Weekly!DismissFlag(g)
      PROVE  FreshInv'
  BY <1>3 DEF Weekly!DismissFlag, Weekly!queue, FreshInv
<1> QED
  BY <1>1, <1>2, <1>3 DEF Weekly!Freshness

-----------------------------------------------------------------------------
(* FAQ drafts *)

Statuses == {"absent", "pending", "approved", "rejected"}
InReview(r, d) == review[r].pc # "idle" /\ review[r].draft = d
IsKept(d) == drafts[d].status \in {"pending", "approved"}

(* The reviews of a draft that no fault and no second review has touched.    *)
DraftInOrder(d) ==
  /\ \A r, s \in Review : InReview(r, d) /\ InReview(s, d) => r = s
  /\ \A r \in Review : InReview(r, d) =>
       /\ drafts[d].status # "approved"
       /\ drafts[d].documents = IF review[r].pc = "approve" THEN 1 ELSE 0
  /\ (\A r \in Review : ~InReview(r, d)) =>
       drafts[d].documents = IF drafts[d].status = "approved" THEN 1 ELSE 0

(* One approval at a time looks for the knowledge base, while there is none. *)
BaseInOrder ==
  /\ faqBases <= 1
  /\ \A r, s \in Review : review[r].pc = "create" =>
       faqBases = 0 /\ (review[s].pc = "create" => r = s)

BaseInv == raced \/ BaseInOrder

AnyCluster == Gap \cup Cluster \cup Weekly!Channel \cup {Weekly!NoDraft.cluster}
AnyDraft == Draft \cup {Weekly!NoReview.draft}
ReviewStep == {"idle", "find", "create", "insert", "approve"}

FaqInv ==
  /\ drafts \in [Draft -> [status : Statuses, cluster : AnyCluster, documents : 0 .. 2]]
  /\ review \in [Review -> [pc : ReviewStep, draft : AnyDraft]]
  /\ \A r \in Review : review[r].pc # "idle" => review[r].draft \in Draft
                                                /\ drafts[review[r].draft].status # "absent"
  /\ faqBases \in Nat
  /\ BaseInv
  /\ \A d \in Draft \ entangled : DraftInOrder(d)
  /\ \A d, e \in Draft \ entangled :
       IsKept(d) /\ IsKept(e) /\ drafts[d].cluster = drafts[e].cluster => d = e
  /\ kind = "faq-cluster" /\ worker.pc = "record" =>
       \A d \in Draft \ entangled : IsKept(d) => drafts[d].cluster \notin worker.todo

LEMMA FaqFrame ==
  ASSUME FaqInv, StillRecording, UNCHANGED <<kind, Weekly!faq>>, raced => raced'
  PROVE  FaqInv'
<1> USE DEF Weekly!faq
<1>1. BaseInOrder => BaseInOrder'
  BY DEF BaseInOrder
<1>2. BaseInv'
  BY <1>1, Zenon DEF FaqInv, BaseInv
<1>3. \A d \in Draft \ entangled : DraftInOrder(d)'
  BY DEF FaqInv, DraftInOrder, InReview
<1> QED
  BY <1>2, <1>3 DEF FaqInv, StillRecording, IsKept

(* A draft whose row and reviews a step leaves alone. *)
LEMMA DraftFrame ==
  ASSUME NEW d, DraftInOrder(d), drafts'[d] = drafts[d],
         \A r \in Review : InReview(r, d) \/ InReview(r, d)' => review'[r] = review[r]
  PROVE  DraftInOrder(d)'
  BY DEF DraftInOrder, InReview

(* What the reviews do to the drafts: only draft c and the reviews of it      *)
(* change, and unless c is entangled it stays in order and is not kept anew.  *)
LEMMA OneDraft ==
  ASSUME FaqInv, NEW c \in Draft, UNCHANGED <<kind, worker>>,
         drafts' \in [Draft -> [status : Statuses, cluster : AnyCluster, documents : 0 .. 2]],
         review' \in [Review -> [pc : ReviewStep, draft : AnyDraft]],
         \A d \in Draft \ {c} : drafts'[d] = drafts[d],
         drafts'[c].cluster = drafts[c].cluster,
         drafts[c].status # "absent" => drafts'[c].status # "absent",
         \A r \in Review : \/ review'[r] = review[r]
                           \/ /\ review[r].pc = "idle" \/ review[r].draft = c
                              /\ review'[r].pc = "idle" \/ review'[r].draft = c
                              /\ drafts'[c].status # "absent",
         entangled \subseteq entangled',
         c \notin entangled' => DraftInOrder(c)' /\ (IsKept(c)' => IsKept(c)),
         faqBases' \in Nat, BaseInv'
  PROVE  FaqInv'
<1>1. \A r \in Review : review'[r].pc # "idle" =>
        review'[r].draft \in Draft /\ drafts'[review'[r].draft].status # "absent"
  BY DEF FaqInv
<1>2. ASSUME NEW d \in Draft \ entangled'
      PROVE  DraftInOrder(d)'
  <2>1. CASE d = c
    BY <1>2, <2>1
  <2>2. CASE d # c
    <3>1. \A r \in Review : InReview(r, d) \/ InReview(r, d)' => review'[r] = review[r]
      BY <2>2 DEF InReview
    <3>2. DraftInOrder(d)
      BY <1>2 DEF FaqInv
    <3> QED
      BY <1>2, <2>2, <3>1, <3>2, DraftFrame
  <2> QED
    BY <2>1, <2>2
<1>3. \A d \in Draft \ entangled' : /\ d \in Draft \ entangled
                                    /\ IsKept(d)' => IsKept(d)
                                    /\ drafts'[d].cluster = drafts[d].cluster
  BY DEF IsKept
<1>4. \A d, e \in Draft \ entangled' :
        IsKept(d)' /\ IsKept(e)' /\ drafts'[d].cluster = drafts'[e].cluster => d = e
  BY <1>3 DEF FaqInv
<1>5. kind' = "faq-cluster" /\ worker'.pc = "record" =>
        \A d \in Draft \ entangled' : IsKept(d)' => drafts'[d].cluster \notin worker'.todo
  BY <1>3 DEF FaqInv
<1> QED
  BY <1>1, <1>2, <1>4, <1>5 DEF FaqInv

LEMMA ReviewNext ==
  ASSUME FaqInv, NEW r \in Review,
         \/ \E d \in Draft : Weekly!SelectDraft(r, d)
         \/ Weekly!FindFaqBase(r) \/ Weekly!CreateFaqBase(r) \/ Weekly!InsertDocument(r)
         \/ Weekly!Approve(r) \/ Weekly!ApprovalFails(r)
  PROVE  FaqInv'
<1> USE DEF Weekly!queue, Weekly!Reviewing, Weekly!GotoReview
<1>1. /\ drafts \in [Draft -> [status : Statuses, cluster : AnyCluster, documents : 0 .. 2]]
      /\ review \in [Review -> [pc : ReviewStep, draft : AnyDraft]]
      /\ faqBases \in Nat /\ BaseInv
      /\ review[r].pc # "idle" => /\ review[r].draft \in Draft
                                  /\ drafts[review[r].draft].status # "absent"
      /\ \A d \in Draft \ entangled : DraftInOrder(d)
  BY DEF FaqInv
<1>2. UNCHANGED <<kind, worker>>
  BY DEF Weekly!SelectDraft, Weekly!FindFaqBase, Weekly!CreateFaqBase, Weekly!InsertDocument,
     Weekly!Approve, Weekly!ApprovalFails
<1>3. ASSUME NEW d \in Draft, Weekly!SelectDraft(r, d)
      PROVE  FaqInv'
  <2>1. /\ review[r].pc = "idle" /\ drafts[d].status = "pending"
        /\ review' = [review EXCEPT ![r] = [pc |-> "find", draft |-> d]]
        /\ entangled' = IF Weekly!Reviews(d) = {} THEN entangled ELSE entangled \cup {d}
        /\ UNCHANGED <<drafts, faqBases, raced>>
    BY <1>3 DEF Weekly!SelectDraft
  <2>2. BaseInv'
    <3>1. BaseInOrder => BaseInOrder'
      BY <1>1, <2>1 DEF BaseInOrder
    <3> QED
      BY <1>1, <2>1, <3>1, Zenon DEF BaseInv
  <2>3. ASSUME d \notin entangled' PROVE DraftInOrder(d)' /\ (IsKept(d)' => IsKept(d))
    <3>1. d \notin entangled /\ Weekly!Reviews(d) = {}
      BY <2>1, <2>3
    <3>2. \A s \in Review : ~InReview(s, d)
      BY <3>1 DEF Weekly!Reviews, InReview
    <3>3. drafts[d].documents = 0
      BY <1>1, <2>1, <3>1, <3>2 DEF DraftInOrder
    <3>4. \A s \in Review : InReview(s, d)' => s = r
      BY <1>1, <2>1, <3>2 DEF InReview
    <3>5. review'[r].pc = "find"
      BY <1>1, <2>1
    <3> QED
      BY <1>1, <2>1, <3>3, <3>4, <3>5 DEF DraftInOrder, InReview, IsKept
  <2>4. review' \in [Review -> [pc : ReviewStep, draft : AnyDraft]]
    BY <1>1, <2>1 DEF ReviewStep, AnyDraft
  <2>5. \A s \in Review : \/ review'[s] = review[s]
                          \/ review[s].pc = "idle" /\ review'[s].draft = d
    BY <1>1, <2>1
  <2> QED
    BY <1>1, <1>2, <2>1, <2>2, <2>3, <2>4, <2>5, OneDraft
<1>4. CASE Weekly!FindFaqBase(r) \/ Weekly!CreateFaqBase(r)
  <2>0. PICK d \in Draft : d = review[r].draft
    BY <1>1, <1>4 DEF Weekly!FindFaqBase, Weekly!CreateFaqBase
  <2>1. PICK p \in {"create", "insert"} : review' = [review EXCEPT ![r].pc = p]
    BY <1>4 DEF Weekly!FindFaqBase, Weekly!CreateFaqBase
  <2>2. /\ review[r].pc \in {"find", "create"} /\ UNCHANGED <<drafts, entangled>>
        /\ faqBases' \in Nat
    <3>1. CASE Weekly!FindFaqBase(r)
      BY <2>0, <1>1, <3>1 DEF Weekly!FindFaqBase
    <3>2. CASE Weekly!CreateFaqBase(r)
      BY <2>0, <1>1, <3>2 DEF Weekly!CreateFaqBase
    <3> QED
      BY <1>4, <3>1, <3>2
  <2>3. BaseInv'
    <3>1. CASE Weekly!FindFaqBase(r)
      <4>1. /\ review' = [review EXCEPT ![r].pc = IF faqBases > 0 THEN "insert" ELSE "create"]
            /\ raced' = (raced \/ \E s \in Review : review[s].pc = "create")
            /\ faqBases' = faqBases
        BY <3>1 DEF Weekly!FindFaqBase
      <4>2. CASE raced \/ \E s \in Review : review[s].pc = "create"
        BY <4>1, <4>2, Zenon DEF BaseInv
      <4>3. CASE BaseInOrder /\ ~ \E s \in Review : review[s].pc = "create"
        <5>1. CASE faqBases > 0
          <6>1. review' = [review EXCEPT ![r].pc = "insert"]
            BY <4>1, <5>1
          <6> QED
            BY <2>0, <1>1, <4>1, <4>3, <6>1 DEF BaseInOrder, BaseInv
        <5>2. CASE ~(faqBases > 0)
          <6>1. review' = [review EXCEPT ![r].pc = "create"]
            BY <4>1, <5>2
          <6>2. faqBases = 0
            BY <2>0, <1>1, <5>2
          <6>3. \A s \in Review : review'[s].pc = "create" => s = r
            BY <2>0, <1>1, <4>3, <6>1
          <6> QED
            BY <2>0, <1>1, <4>1, <6>2, <6>3 DEF BaseInOrder, BaseInv
        <5> QED
          BY <5>1, <5>2 DEF BaseInv
      <4> QED
        BY <2>0, <1>1, <4>2, <4>3, Zenon DEF BaseInv
    <3>2. CASE Weekly!CreateFaqBase(r)
      <4>1. /\ review[r].pc = "create" /\ faqBases' = faqBases + 1 /\ raced' = raced
            /\ review' = [review EXCEPT ![r].pc = "insert"]
        BY <3>2 DEF Weekly!CreateFaqBase
      <4>2. BaseInOrder => BaseInOrder'
        BY <2>0, <1>1, <4>1 DEF BaseInOrder
      <4> QED
        BY <2>0, <1>1, <4>1, <4>2, Zenon DEF BaseInv
    <3> QED
      BY <1>4, <3>1, <3>2
  <2>4. review' \in [Review -> [pc : ReviewStep, draft : AnyDraft]]
    BY <2>0, <1>1, <2>1 DEF ReviewStep
  <2>5. ASSUME d \notin entangled' PROVE DraftInOrder(d)' /\ (IsKept(d)' => IsKept(d))
    <3>1. DraftInOrder(d)
      BY <2>0, <1>1, <2>2, <2>5
    <3>2. \A s \in Review : /\ InReview(s, d)' <=> InReview(s, d)
                            /\ review'[s].pc = "approve" <=> review[s].pc = "approve"
      BY <2>0, <1>1, <2>1, <2>2 DEF InReview
    <3> QED
      BY <2>2, <3>1, <3>2 DEF DraftInOrder, IsKept
  <2>6. \A s \in Review : \/ review'[s] = review[s]
                          \/ review[s].draft = d /\ review'[s].draft = d
    BY <2>0, <1>1, <2>1
  <2> QED
    BY <2>0, <1>1, <1>2, <2>2, <2>3, <2>4, <2>5, <2>6, OneDraft
<1>5. CASE Weekly!InsertDocument(r)
  <2>0. PICK d \in Draft : d = review[r].draft
    BY <1>1, <1>5 DEF Weekly!InsertDocument
  <2>1. /\ review[r].pc = "insert" /\ review' = [review EXCEPT ![r].pc = "approve"]
        /\ UNCHANGED <<entangled, faqBases, raced>>
        /\ drafts' = [drafts EXCEPT ![review[r].draft].documents = IF @ < 2 THEN @ + 1 ELSE @]
    BY <1>5 DEF Weekly!InsertDocument
  <2>2. PICK n \in 0 .. 2 : /\ drafts' = [drafts EXCEPT ![d] = [drafts[d] EXCEPT !.documents = n]]
                            /\ drafts[d].documents = 0 => n = 1
    <3>1. drafts[d].documents \in 0 .. 2 /\ drafts[d] \in [status : Statuses, cluster : AnyCluster, documents : 0 .. 2]
      BY <1>1
    <3>2. PICK n \in 0 .. 2 : n = IF drafts[d].documents < 2 THEN drafts[d].documents + 1
                                                             ELSE drafts[d].documents
      BY <3>1
    <3>3. drafts' = [drafts EXCEPT ![d].documents = n]
      BY <2>0, <2>1, <3>2
    <3>4. drafts' = [drafts EXCEPT ![d] = [drafts[d] EXCEPT !.documents = n]]
      BY <1>1, <3>3
    <3>5. drafts[d].documents = 0 => n = 1
      BY <3>2
    <3> QED
      BY <3>4, <3>5
  <2>3. BaseInv'
    <3>1. BaseInOrder => BaseInOrder'
      BY <2>0, <1>1, <2>1 DEF BaseInOrder
    <3> QED
      BY <2>0, <1>1, <2>1, <3>1, Zenon DEF BaseInv
  <2>4. review' \in [Review -> [pc : ReviewStep, draft : AnyDraft]]
    BY <2>0, <1>1, <2>1 DEF ReviewStep
  <2>5. /\ drafts' \in [Draft -> [status : Statuses, cluster : AnyCluster, documents : 0 .. 2]]
        /\ drafts'[d].status = drafts[d].status /\ drafts'[d].cluster = drafts[d].cluster
        /\ drafts'[d].documents = n
        /\ \A e \in Draft \ {d} : drafts'[e] = drafts[e]
    BY <2>0, <1>1, <2>1, <2>2
  <2>6. ASSUME d \notin entangled' PROVE DraftInOrder(d)' /\ (IsKept(d)' => IsKept(d))
    <3>1. DraftInOrder(d) /\ InReview(r, d)
      BY <2>0, <1>1, <2>1, <2>6 DEF InReview
    <3>2. drafts'[d].documents = 1 /\ drafts[d].status # "approved"
      BY <2>1, <2>2, <2>5, <3>1 DEF DraftInOrder
    <3>3. \A s \in Review : InReview(s, d)' => s = r
      BY <2>0, <1>1, <2>1, <3>1 DEF InReview, DraftInOrder
    <3>4. review'[r].pc = "approve" /\ InReview(r, d)'
      BY <2>0, <1>1, <2>1 DEF InReview
    <3> QED
      BY <2>5, <3>2, <3>3, <3>4 DEF DraftInOrder, IsKept
  <2>7. \A s \in Review : \/ review'[s] = review[s]
                          \/ review[s].draft = d /\ review'[s].draft = d
    BY <2>0, <1>1, <2>1
  <2> QED
    BY <2>0, <1>1, <1>2, <2>1, <2>3, <2>4, <2>5, <2>6, <2>7, OneDraft
<1>6. CASE Weekly!Approve(r) \/ Weekly!ApprovalFails(r)
  <2>0. PICK d \in Draft : d = review[r].draft
    BY <1>1, <1>6 DEF Weekly!Approve, Weekly!ApprovalFails
  <2>1. /\ review[r].pc # "idle" /\ review' = [review EXCEPT ![r] = Weekly!NoReview]
        /\ UNCHANGED <<faqBases, raced>>
    BY <1>6 DEF Weekly!Approve, Weekly!ApprovalFails
  <2>2. review' \in [Review -> [pc : ReviewStep, draft : AnyDraft]] /\ review'[r].pc = "idle"
        /\ \A s \in Review \ {r} : review'[s] = review[s]
    BY <2>0, <1>1, <2>1 DEF ReviewStep, AnyDraft, Weekly!NoReview
  <2>3. BaseInv'
    <3>1. BaseInOrder => BaseInOrder'
      BY <2>0, <1>1, <2>1, <2>2 DEF BaseInOrder
    <3> QED
      BY <2>0, <1>1, <2>1, <3>1, Zenon DEF BaseInv
  <2>4. /\ drafts' \in [Draft -> [status : Statuses, cluster : AnyCluster, documents : 0 .. 2]]
        /\ drafts'[d].cluster = drafts[d].cluster /\ drafts'[d].documents = drafts[d].documents
        /\ drafts'[d].status # "absent"
        /\ \A e \in Draft \ {d} : drafts'[e] = drafts[e]
        /\ entangled \subseteq entangled'
    <3>1. CASE Weekly!Approve(r)
      BY <2>0, <1>1, <2>1, <3>1 DEF Weekly!Approve, Statuses
    <3>2. CASE Weekly!ApprovalFails(r)
      BY <2>0, <1>1, <2>1, <3>2 DEF Weekly!ApprovalFails
    <3> QED
      BY <1>6, <3>1, <3>2
  <2>5. ASSUME d \notin entangled' PROVE DraftInOrder(d)' /\ (IsKept(d)' => IsKept(d))
    <3>1. DraftInOrder(d) /\ InReview(r, d) /\ d \in Draft
      BY <2>0, <1>1, <2>1, <2>4, <2>5 DEF InReview
    <3>2. \A s \in Review : ~InReview(s, d)'
      BY <2>2, <3>1 DEF InReview, DraftInOrder
    <3>3. CASE Weekly!Approve(r)
      <4>1. /\ review[r].pc = "approve" /\ drafts'[d].status = "approved"
            /\ drafts[d].status # "rejected"
        BY <2>0, <1>1, <2>5, <3>1, <3>3 DEF Weekly!Approve
      <4>2. drafts[d].documents = 1 /\ drafts[d].status # "approved"
        BY <3>1, <4>1 DEF DraftInOrder
      <4>3. IsKept(d)
        BY <2>0, <1>1, <2>1, <3>1, <4>1, <4>2 DEF IsKept, Statuses
      <4> QED
        BY <2>4, <3>2, <4>1, <4>2, <4>3 DEF DraftInOrder
    <3>4. CASE Weekly!ApprovalFails(r)
      <4>1. review[r].pc # "approve" /\ drafts' = drafts
        BY <2>0, <2>5, <3>4 DEF Weekly!ApprovalFails
      <4>2. drafts[d].documents = 0 /\ drafts[d].status # "approved"
        BY <3>1, <4>1 DEF DraftInOrder
      <4> QED
        BY <3>2, <4>1, <4>2 DEF DraftInOrder, IsKept
    <3> QED
      BY <1>6, <3>3, <3>4
  <2>6. \A s \in Review : \/ review'[s] = review[s]
                          \/ review[s].draft = d /\ review'[s].pc = "idle"
    BY <2>0, <2>2
  <2> QED
    BY <2>0, <1>1, <1>2, <2>1, <2>2, <2>3, <2>4, <2>5, <2>6, OneDraft
<1> QED
  BY <1>3, <1>4, <1>5, <1>6

LEMMA FaqNext ==
  ASSUME FaqInv, QueueTypes, Weekly!Faq
  PROVE  FaqInv'
<1> USE DEF Weekly!queue, Weekly!At, Weekly!Goto
<1>1. CASE Weekly!FindUncovered \/ Weekly!SkipCluster \/ Weekly!DraftsDone
  <2>1. StillRecording /\ UNCHANGED <<kind, Weekly!faq, raced>>
    BY <1>1 DEF Weekly!FindUncovered, Weekly!SkipCluster, Weekly!DraftsDone, StillRecording, QueueTypes
  <2> QED
    BY <2>1, FaqFrame
<1>2. CASE Weekly!SkipDrafted
  <2> USE DEF Weekly!faq
  <2>1. /\ UNCHANGED <<kind, drafts, faqBases, review, entangled, raced>>
        /\ worker' = [worker EXCEPT !.pc = "record", !.todo = @ \ Weekly!DraftedAs({"pending", "approved"})]
    BY <1>2 DEF Weekly!SkipDrafted
  <2>2. BaseInv'
    BY <2>1 DEF FaqInv, BaseInv, BaseInOrder
  <2>3. \A d \in Draft \ entangled : DraftInOrder(d)'
    BY <2>1 DEF FaqInv, DraftInOrder, InReview
  <2>4. \A d \in Draft : IsKept(d) => drafts[d].cluster \notin worker'.todo
    BY <2>1 DEF IsKept, Weekly!DraftedAs, Weekly!Kept, QueueTypes
  <2> QED
    BY <2>1, <2>2, <2>3, <2>4 DEF FaqInv, IsKept
<1>3. ASSUME NEW d \in Draft, Weekly!InsertDraft(d)
      PROVE  FaqInv'
  <2>1. PICK c \in worker.todo, p \in {"record", "catch"} :
          /\ drafts' = [drafts EXCEPT ![d] = [Weekly!NoDraft EXCEPT !.status = "pending", !.cluster = c]]
          /\ worker' = [worker EXCEPT !.pc = p, !.todo = @ \ {c}]
    BY <1>3 DEF Weekly!InsertDraft
  <2>2. /\ kind = "faq-cluster" /\ worker.pc = "record" /\ drafts[d].status = "absent"
        /\ UNCHANGED <<kind, faqBases, review, entangled, raced>>
    BY <1>3 DEF Weekly!InsertDraft
  <2>3. /\ drafts' \in [Draft -> [status : Statuses, cluster : AnyCluster, documents : 0 .. 2]]
        /\ \A e \in Draft \ {d} : drafts'[e] = drafts[e]
        /\ drafts'[d].status = "pending" /\ drafts'[d].cluster = c /\ drafts'[d].documents = 0
    <3>1. PICK n : Weekly!NoDraft = [status |-> "absent", cluster |-> n, documents |-> 0]
      BY Zenon DEF Weekly!NoDraft
    <3>2. PICK new : new = [Weekly!NoDraft EXCEPT !.status = "pending", !.cluster = c]
      OBVIOUS
    <3>3. new \in [status : {"pending"}, cluster : {c}, documents : {0}]
      BY <3>1, <3>2
    <3>4. new \in [status : Statuses, cluster : AnyCluster, documents : 0 .. 2]
      <4>1. c \in AnyCluster
        BY <2>1 DEF QueueTypes, AnyCluster
      <4> QED
        BY <3>3, <4>1 DEF Statuses
    <3>5. drafts' = [drafts EXCEPT ![d] = new]
      BY <2>1, <3>2
    <3> QED
      BY <3>3, <3>4, <3>5 DEF FaqInv
  <2>5. BaseInv'
    BY <2>2 DEF FaqInv, BaseInv, BaseInOrder
  <2>6. \A r \in Review : ~InReview(r, d)
    BY <2>2 DEF FaqInv, InReview
  <2>7. ASSUME NEW e \in Draft \ entangled PROVE DraftInOrder(e)'
    <3>1. CASE e = d
      BY <2>2, <2>3, <2>6, <3>1 DEF DraftInOrder, InReview
    <3>2. CASE e # d
      BY <2>2, <2>3, <3>2 DEF FaqInv, DraftInOrder, InReview
    <3> QED
      BY <3>1, <3>2
  <2>8. \A e \in Draft \ entangled : e # d /\ IsKept(e)' => IsKept(e) /\ drafts'[e].cluster \in AnyCluster
                                                          /\ drafts'[e].cluster \notin worker.todo
    BY <2>2, <2>3 DEF FaqInv, IsKept
  <2>9. worker'.todo \subseteq worker.todo \ {c}
    BY <2>1 DEF QueueTypes
  <2>10. drafts'[d].cluster = c
    BY <2>3
  <2>11. \A e, f \in Draft \ entangled :
           IsKept(e)' /\ IsKept(f)' /\ drafts'[e].cluster = drafts'[f].cluster => e = f
    BY <2>1, <2>3, <2>8, <2>10 DEF FaqInv
  <2>12. \A e \in Draft \ entangled : IsKept(e)' => drafts'[e].cluster \notin worker'.todo
    BY <2>8, <2>9, <2>10
  <2>13. \A r \in Review : review[r].pc # "idle" => drafts'[review[r].draft].status # "absent"
    BY <2>3 DEF FaqInv
  <2> QED
    BY <2>2, <2>3, <2>5, <2>7, <2>11, <2>12, <2>13 DEF FaqInv
<1>4. ASSUME NEW d \in Draft, Weekly!Reject(d)
      PROVE  FaqInv'
  <2>1. /\ drafts[d].status = "pending" /\ drafts' = [drafts EXCEPT ![d].status = "rejected"]
        /\ UNCHANGED <<kind, worker, faqBases, review, entangled, raced>>
    BY <1>4 DEF Weekly!Reject
  <2>2. /\ drafts' \in [Draft -> [status : Statuses, cluster : AnyCluster, documents : 0 .. 2]]
        /\ drafts'[d].status = "rejected"
        /\ drafts'[d].cluster = drafts[d].cluster /\ drafts'[d].documents = drafts[d].documents
        /\ \A e \in Draft \ {d} : drafts'[e] = drafts[e]
    BY <2>1 DEF FaqInv, Statuses
  <2>3. BaseInv'
    BY <2>1 DEF FaqInv, BaseInv, BaseInOrder
  <2>4. d \notin entangled => DraftInOrder(d)' /\ (IsKept(d)' => IsKept(d))
    BY <2>1, <2>2 DEF FaqInv, DraftInOrder, InReview, IsKept
  <2>5. review' \in [Review -> [pc : ReviewStep, draft : AnyDraft]] /\ faqBases' \in Nat
    BY <2>1 DEF FaqInv
  <2> QED
    BY <2>1, <2>2, <2>3, <2>4, <2>5, OneDraft
<1> QED
  BY <1>1, <1>2, <1>3, <1>4, ReviewNext DEF Weekly!Faq

LEMMA FaqCrash ==
  ASSUME FaqInv, StillRecording, UNCHANGED <<kind, drafts, faqBases, raced>>,
         review' = [r \in Review |-> Weekly!NoReview],
         entangled' = entangled \cup {review[r].draft : r \in {s \in Review : review[s].pc # "idle"}}
  PROVE  FaqInv'
<1>1. review' \in [Review -> [pc : ReviewStep, draft : AnyDraft]]
      /\ \A r \in Review : review'[r].pc = "idle"
  BY DEF ReviewStep, AnyDraft, Weekly!NoReview
<1>2. BaseInv'
  <2>1. BaseInOrder => BaseInOrder'
    BY <1>1 DEF BaseInOrder
  <2> QED
    BY <2>1, Zenon DEF FaqInv, BaseInv
<1>3. ASSUME NEW d \in Draft \ entangled'
      PROVE  DraftInOrder(d)'
  <2>1. \A r \in Review : ~InReview(r, d) /\ ~InReview(r, d)'
    BY <1>1, <1>3 DEF InReview
  <2>2. DraftInOrder(d)
    BY <1>3 DEF FaqInv
  <2> QED
    BY <2>1, <2>2 DEF DraftInOrder
<1> QED
  BY <1>1, <1>2, <1>3 DEF FaqInv, IsKept, StillRecording

LEMMA FaqKept ==
  FaqInv => /\ Weekly!ReviewedOnce
            /\ \A d, e \in Draft \ entangled :
                 /\ Weekly!Kept(d, {"pending", "approved"}) /\ Weekly!Kept(e, {"pending", "approved"})
                 /\ drafts[d].cluster = drafts[e].cluster
                 => d = e
<1> SUFFICES ASSUME FaqInv
             PROVE  /\ Weekly!ReviewedOnce
                    /\ \A d, e \in Draft \ entangled :
                         /\ Weekly!Kept(d, {"pending", "approved"})
                         /\ Weekly!Kept(e, {"pending", "approved"})
                         /\ drafts[d].cluster = drafts[e].cluster
                         => d = e
  OBVIOUS
<1>1. ASSUME NEW d \in Draft \ entangled
      PROVE  /\ drafts[d].documents <= 1
             /\ drafts[d].status = "approved" => drafts[d].documents = 1
             /\ Weekly!Reviews(d) = {} /\ drafts[d].status # "approved" => drafts[d].documents = 0
  <2>1. DraftInOrder(d)
    BY DEF FaqInv
  <2>2. Weekly!Reviews(d) = {} <=> \A r \in Review : ~InReview(r, d)
    BY DEF Weekly!Reviews, InReview
  <2>3. CASE \A r \in Review : ~InReview(r, d)
    BY <2>1, <2>2, <2>3 DEF DraftInOrder
  <2>4. CASE \E r \in Review : InReview(r, d)
    BY <2>1, <2>2, <2>4 DEF DraftInOrder
  <2> QED
    BY <2>3, <2>4
<1>2. raced \/ faqBases <= 1
  BY DEF FaqInv, BaseInv, BaseInOrder
<1>3. Weekly!ReviewedOnce
  BY <1>1, <1>2, Zenon DEF Weekly!ReviewedOnce
<1> QED
  BY <1>3 DEF FaqInv, Weekly!Kept, IsKept

-----------------------------------------------------------------------------
(* The digest *)

Unsent(w) == \A c \in Weekly!Channel : sent[w][c] = 0

(* A week's digest that no fault has started again: until its job runs to     *)
(* the end nothing is sent but what its one run has sent.                     *)
WeekInOrder(w) ==
  /\ \A c \in Weekly!Channel : sent[w][c] <= 1
  /\ tick.week < w \/ (tick.week = w /\ tick.pc # "over") => job[w].state = "none" /\ Unsent(w)
  /\ job[w].state = "waiting" => Unsent(w)
  /\ job[w].state = "active" => worker.week = w /\ worker.owns
  /\ worker.pc # "idle" /\ worker.week = w =>
       /\ worker.owns /\ job[w].state = "active"
       /\ worker.pc \in {"start", "read", "catch"} => Unsent(w)
       /\ worker.pc = "record" => \A c \in worker.todo : c \in Weekly!Channel => sent[w][c] = 0

(* One change of the settings at a time, from the settings as they are. *)
SettingsInOrder ==
  /\ settings = wanted
  /\ \A r, s \in Review : patch[r].pc # "idle" => /\ patch[r].base = settings
                                                  /\ patch[s].pc # "idle" => r = s
SettingsInv == raced \/ SettingsInOrder

DigestInv ==
  /\ sent \in [Weekly!Week -> [Weekly!Channel -> Nat]]
  /\ settings \subseteq Weekly!Channel
  /\ patch \in [Review -> [pc : {"idle", "write"}, channel : Weekly!Channel, on : BOOLEAN,
                           base : SUBSET Weekly!Channel]]
  /\ SettingsInv
  /\ kind # "digest" => \A w \in Weekly!Week : Unsent(w)
  /\ kind = "digest" => \A w \in Weekly!Week \ redone : WeekInOrder(w)

(* A step that sends nothing and redoes no week but by saying so. *)
LEMMA QueueWeeks ==
  ASSUME QueueTypes, kind = "digest", Weekly!Queue,
         NEW w \in Weekly!Week \ redone', w \notin redone => WeekInOrder(w)
  PROVE  WeekInOrder(w)' /\ UNCHANGED sent
<1> USE DEF Weekly!digest, Weekly!history
<1>0. UNCHANGED sent
  BY DEF Weekly!Queue, Weekly!Tick, Weekly!FanOut, Weekly!TickFails, Weekly!TickCutOff, Weekly!TickAgain,
     Weekly!TakeJob, Weekly!Stalled, Weekly!StartRun, Weekly!StartFails, Weekly!CallFails,
     Weekly!Succeed, Weekly!SucceedFails, Weekly!Fail, Weekly!Overrun, Weekly!Crash
<1>1. redone \subseteq redone'
  BY DEF Weekly!Queue, Weekly!Tick, Weekly!FanOut, Weekly!TickFails, Weekly!TickCutOff, Weekly!TickAgain,
     Weekly!TakeJob, Weekly!Stalled, Weekly!StartRun, Weekly!StartFails, Weekly!CallFails,
     Weekly!Succeed, Weekly!SucceedFails, Weekly!Fail, Weekly!Overrun, Weekly!Crash, Weekly!Redo
<1>2. WeekInOrder(w)
  BY <1>1
<1>3. /\ w \in Nat /\ tick.week \in Nat
      /\ job[w] \in [state : JobState, attemptsMade : Nat, stalls : Nat]
  BY InsightBounds DEF QueueTypes, Weekly!Week
<1>4. \A v \in Weekly!Week : job[v] \in [state : JobState, attemptsMade : Nat, stalls : Nat]
  BY DEF QueueTypes
<1> USE <1>0, <1>2 DEF Unsent, WeekInOrder
<1>5. CASE Weekly!Tick
  <2>1. tick'.week = tick.week + 1 /\ UNCHANGED <<job, worker>>
    BY <1>5 DEF Weekly!Tick
  <2>2. tick'.week < w \/ tick'.week = w => tick.week < w
    BY <1>3, <2>1
  <2> QED
    BY <2>1, <2>2
<1>6. CASE Weekly!FanOut
  <2>1. /\ tick.pc = "select" /\ job' = [job EXCEPT ![tick.week] = Weekly!Enqueued(job[tick.week])]
        /\ tick' = [tick EXCEPT !.pc = "over"] /\ UNCHANGED worker
    BY <1>6 DEF Weekly!FanOut
  <2>2. CASE tick.week = w
    <3>1. job'[w].state = "waiting"
      BY <1>3, <2>1, <2>2, JobSteps DEF QueueTypes
    <3> QED
      BY <1>3, <2>1, <2>2, <3>1 DEF QueueTypes
  <2>3. CASE tick.week # w
    BY <1>3, <2>1, <2>3 DEF QueueTypes
  <2> QED
    BY <2>2, <2>3
<1>7. CASE Weekly!TickCutOff
  BY <1>3, <1>7 DEF Weekly!TickCutOff, Weekly!Redo, QueueTypes
<1>8. CASE Weekly!TickFails \/ Weekly!TickAgain
  BY <1>3, <1>8 DEF Weekly!TickFails, Weekly!TickAgain, QueueTypes
<1>9. ASSUME NEW v \in Weekly!Week, Weekly!TakeJob(v)
      PROVE  WeekInOrder(w)' /\ UNCHANGED sent
  <2>1. /\ worker.pc = "idle" /\ job[v].state = "waiting"
        /\ job' = [job EXCEPT ![v] = [job[v] EXCEPT !.state = "active"]]
        /\ worker' = [pc |-> "start", week |-> v, owns |-> TRUE, todo |-> {}]
        /\ UNCHANGED tick
    BY <1>9 DEF Weekly!TakeJob, Weekly!NoWork
  <2>2. CASE v = w
    <3>1. job'[w].state = "active"
      BY <1>3, <2>1, <2>2 DEF QueueTypes
    <3> QED
      BY <1>3, <2>1, <2>2, <3>1
  <2>3. CASE v # w
    <3>1. job'[w] = job[w]
      BY <2>1, <2>3 DEF QueueTypes
    <3>2. job[w].state # "active"
      BY <2>1 DEF QueueTypes
    <3> QED
      BY <1>3, <2>1, <2>3, <3>1, <3>2
  <2> QED
    BY <2>2, <2>3
<1>10. ASSUME NEW v \in Weekly!Week, Weekly!Stalled(v)
       PROVE  WeekInOrder(w)' /\ UNCHANGED sent
  <2>1. v # w
    BY <1>10 DEF Weekly!Stalled
  <2> QED
    BY <1>3, <1>10, <2>1 DEF Weekly!Stalled, QueueTypes
<1>11. CASE Weekly!StartRun \/ Weekly!CallFails
  BY <1>3, <1>11 DEF Weekly!StartRun, Weekly!CallFails, Weekly!At, Weekly!Goto, QueueTypes
<1>12. CASE Weekly!SucceedFails
  BY <1>3, <1>12 DEF Weekly!SucceedFails, Weekly!At, Weekly!Goto, Weekly!Redo, QueueTypes
<1>13. CASE Weekly!StartFails \/ Weekly!Succeed \/ Weekly!Fail
  <2>1. PICK j : /\ worker' = Weekly!NoWork /\ worker.pc # "idle" /\ UNCHANGED tick
                 /\ job' = IF worker.owns THEN [job EXCEPT ![worker.week] = j] ELSE job
                 /\ \/ j.state = "none"
                    \/ j.state \in {"waiting", "failed"} /\ worker.pc \in {"start", "catch"}
    <3>1. worker.pc # "idle" => job[worker.week] \in [state : JobState, attemptsMade : Nat, stalls : Nat]
      BY <1>4 DEF QueueTypes
    <3>2. CASE Weekly!Succeed
      <4>1. Weekly!NoJob.state = "none"
        BY DEF Weekly!NoJob
      <4>2. Weekly!EndJob(Weekly!NoJob) /\ worker.pc = "succeed" /\ UNCHANGED tick
        BY <3>2 DEF Weekly!Succeed, Weekly!At
      <4> QED
        BY <4>1, <4>2 DEF Weekly!EndJob
    <3>3. CASE Weekly!StartFails \/ Weekly!Fail
      <4>1. /\ worker.pc \in {"start", "catch"} /\ UNCHANGED tick
            /\ Weekly!EndJob(Weekly!FailedAttempt(job[worker.week], Weekly!Attempts))
        BY <3>3 DEF Weekly!StartFails, Weekly!Fail, Weekly!At
      <4>2. Weekly!FailedAttempt(job[worker.week], Weekly!Attempts).state \in {"waiting", "failed"}
        BY <3>1, <4>1, JobSteps DEF Weekly!Attempts
      <4> QED
        BY <4>1, <4>2 DEF Weekly!EndJob
    <3> QED
      BY <1>13, <3>2, <3>3
  <2>3. worker'.pc = "idle" /\ worker'.week = 0
    BY <2>1 DEF Weekly!NoWork
  <2>4. CASE worker.week = w
    <3>1. job'[w] = j /\ job[w].state = "active"
      BY <2>1, <2>4 DEF QueueTypes
    <3> QED
      BY <2>1, <2>3, <2>4, <3>1
  <2>5. CASE worker.week # w
    <3>1. job'[w] = job[w] /\ job[w].state # "active"
      BY <2>1, <2>5 DEF QueueTypes
    <3> QED
      BY <2>1, <2>3, <3>1
  <2> QED
    BY <2>4, <2>5
<1>14. CASE Weekly!Overrun
  <2>1. worker.week # w
    BY <1>14 DEF Weekly!Overrun, Weekly!Redo
  <2> QED
    BY <1>3, <1>14, <2>1 DEF Weekly!Overrun, QueueTypes
<1>15. CASE Weekly!Crash
  <2>1. worker.pc = "idle" \/ worker.week # w
    BY <1>15 DEF Weekly!Crash, Weekly!Redo
  <2>2. job[w].state # "active"
    BY <2>1 DEF QueueTypes
  <2>3. /\ worker'.pc = "idle" /\ UNCHANGED job /\ tick'.week = tick.week
        /\ tick'.pc # "over" => tick.pc # "over"
    BY <1>15 DEF Weekly!Crash, Weekly!NoWork, QueueTypes
  <2> QED
    BY <2>2, <2>3
<1> QED
  BY <1>5, <1>6, <1>7, <1>8, <1>9, <1>10, <1>11, <1>12, <1>13, <1>14, <1>15 DEF Weekly!Queue

LEMMA DigestFrame ==
  ASSUME DigestInv, UNCHANGED <<kind, sent, settings, wanted>>, raced => raced',
         UNCHANGED patch \/ patch' = [r \in Review |-> Weekly!NoPatch],
         kind = "digest" => \A w \in Weekly!Week \ redone' : WeekInOrder(w)'
  PROVE  DigestInv'
<1>0. Weekly!NoPatch.pc = "idle"
  BY DEF Weekly!NoPatch
<1>1. SettingsInOrder => SettingsInOrder'
  BY <1>0 DEF SettingsInOrder
<1>2. SettingsInv'
  BY <1>1, Zenon DEF DigestInv, SettingsInv
<1>3. patch' \in [Review -> [pc : {"idle", "write"}, channel : Weekly!Channel, on : BOOLEAN,
                           base : SUBSET Weekly!Channel]]
  <2>1. Weekly!NoPatch \in [pc : {"idle", "write"}, channel : Weekly!Channel, on : BOOLEAN,
                            base : SUBSET Weekly!Channel]
    BY DEF Weekly!NoPatch, Weekly!Channel
  <2>2. CASE patch' = [r \in Review |-> Weekly!NoPatch]
    BY <2>1, <2>2
  <2>3. CASE UNCHANGED patch
    BY <2>3 DEF DigestInv
  <2> QED
    BY <2>2, <2>3
<1> QED
  BY <1>2, <1>3 DEF DigestInv, Unsent

(* A step of the digest: what is sent is sent by the run of its week. *)
LEMMA DigestNext ==
  ASSUME DigestInv, QueueTypes, Weekly!Digest
  PROVE  DigestInv'
<1> USE DEF Weekly!queue, Weekly!history, Weekly!At, Weekly!Goto
<1>1. CASE Weekly!BuildDigest
  <2>1. /\ kind = "digest" /\ worker.pc = "read" /\ worker' = [worker EXCEPT !.pc = "record", !.todo = settings]
        /\ UNCHANGED <<kind, tick, job, sent, settings, patch, wanted, raced, redone>>
    BY <1>1 DEF Weekly!BuildDigest, Weekly!digest
  <2>2. \A w \in Weekly!Week \ redone : WeekInOrder(w)'
    BY <2>1 DEF DigestInv, WeekInOrder, Unsent, QueueTypes
  <2> QED
    BY <2>1, <2>2, DigestFrame
<1>2. CASE Weekly!DigestDone
  <2>1. /\ kind = "digest" /\ worker.pc = "record" /\ worker' = [worker EXCEPT !.pc = "succeed"]
        /\ UNCHANGED <<kind, tick, job, sent, settings, patch, wanted, raced, redone>>
    BY <1>2 DEF Weekly!DigestDone, Weekly!digest
  <2>2. \A w \in Weekly!Week \ redone : WeekInOrder(w)'
    BY <2>1 DEF DigestInv, WeekInOrder, Unsent, QueueTypes
  <2> QED
    BY <2>1, <2>2, DigestFrame
<1>3. ASSUME NEW c \in Weekly!Channel, Weekly!SendFails(c)
      PROVE  DigestInv'
  <2>1. /\ kind = "digest" /\ worker.pc = "record" /\ worker' = [worker EXCEPT !.todo = @ \ {c}]
        /\ UNCHANGED <<kind, tick, job, sent, settings, patch, wanted, raced, redone>>
    BY <1>3 DEF Weekly!SendFails, Weekly!digest
  <2>2. \A w \in Weekly!Week \ redone : WeekInOrder(w)'
    BY <2>1 DEF DigestInv, WeekInOrder, Unsent, QueueTypes
  <2> QED
    BY <2>1, <2>2, DigestFrame
<1>4. ASSUME NEW c \in Weekly!Channel, Weekly!SendDigest(c)
      PROVE  DigestInv'
  <2> DEFINE v == worker.week
  <2>1. /\ kind = "digest" /\ worker.pc = "record" /\ worker' = [worker EXCEPT !.todo = @ \ {c}]
        /\ c \in worker.todo /\ sent' = [sent EXCEPT ![v][c] = @ + 1]
        /\ UNCHANGED <<kind, tick, job, settings, patch, wanted, raced, redone>>
    BY <1>4 DEF Weekly!SendDigest, Weekly!Deliver, Weekly!InOrder
  <2>2. v \in Weekly!Week
    BY <2>1 DEF QueueTypes
  <2>3. /\ sent' \in [Weekly!Week -> [Weekly!Channel -> Nat]]
        /\ \A w \in Weekly!Week \ {v} : sent'[w] = sent[w]
        /\ \A b \in Weekly!Channel \ {c} : sent'[v][b] = sent[v][b]
        /\ sent'[v][c] = sent[v][c] + 1
    BY <2>1, <2>2 DEF DigestInv
  <2>4. SettingsInv'
    BY <2>1 DEF DigestInv, SettingsInv, SettingsInOrder
  <2>5. /\ worker'.pc = "record" /\ worker'.week = v /\ worker'.owns = worker.owns
        /\ worker'.todo = worker.todo \ {c}
    BY <2>1 DEF QueueTypes
  <2>6. ASSUME NEW w \in Weekly!Week \ redone
        PROVE  WeekInOrder(w)'
    <3>0. WeekInOrder(w)
      BY <2>1 DEF DigestInv
    <3>1. CASE w = v
      <4>1. /\ sent[v][c] = 0 /\ job[v].state = "active" /\ worker.owns
            /\ ~(tick.week < v \/ (tick.week = v /\ tick.pc # "over"))
        BY <2>1, <3>0, <3>1 DEF WeekInOrder
      <4>2. \A b \in Weekly!Channel : sent'[v][b] <= 1
        BY <2>1, <2>3, <3>0, <3>1, <4>1 DEF WeekInOrder
      <4>3. \A b \in worker'.todo : b \in Weekly!Channel => sent'[v][b] = 0
        BY <2>1, <2>3, <2>5, <3>0, <3>1 DEF WeekInOrder
      <4> QED
        BY <2>1, <2>5, <3>1, <4>1, <4>2, <4>3 DEF WeekInOrder
    <3>2. CASE w # v
      BY <2>1, <2>3, <2>5, <3>0, <3>2 DEF WeekInOrder, Unsent
    <3> QED
      BY <3>1, <3>2
  <2> QED
    BY <2>1, <2>3, <2>4, <2>6 DEF DigestInv
<1>5. ASSUME NEW r \in Review,
             \/ \E c \in Weekly!Channel, on \in BOOLEAN : Weekly!ReadSettings(r, c, on)
             \/ Weekly!WriteSettings(r) \/ Weekly!WriteFails(r)
      PROVE  DigestInv'
  <2>1. UNCHANGED <<kind, tick, job, worker, sent, redone>>
    BY <1>5 DEF Weekly!ReadSettings, Weekly!WriteSettings, Weekly!WriteFails
  <2>2. kind = "digest" => \A w \in Weekly!Week \ redone : WeekInOrder(w)'
    BY <2>1 DEF DigestInv, WeekInOrder, Unsent
  <2>3. kind # "digest" => \A w \in Weekly!Week : Unsent(w)'
    BY <2>1 DEF DigestInv, Unsent
  <2>4. /\ patch' \in [Review -> [pc : {"idle", "write"}, channel : Weekly!Channel, on : BOOLEAN,
                                  base : SUBSET Weekly!Channel]]
        /\ settings' \subseteq Weekly!Channel /\ SettingsInv'
    <3>1. ASSUME NEW c \in Weekly!Channel, NEW on \in BOOLEAN, Weekly!ReadSettings(r, c, on)
          PROVE  /\ patch' \in [Review -> [pc : {"idle", "write"}, channel : Weekly!Channel, on : BOOLEAN,
                                           base : SUBSET Weekly!Channel]]
                 /\ settings' \subseteq Weekly!Channel /\ SettingsInv'
      <4>1. /\ patch[r].pc = "idle" /\ UNCHANGED <<settings, wanted>>
            /\ patch' = [patch EXCEPT ![r] = [pc |-> "write", channel |-> c, on |-> on, base |-> settings]]
        BY <3>1 DEF Weekly!ReadSettings
      <4>2. raced' = (raced \/ \E s \in Review : patch[s].pc # "idle")
        BY <3>1 DEF Weekly!ReadSettings
      <4>3. CASE raced \/ \E s \in Review : patch[s].pc # "idle"
        <5>1. SettingsInv'
          BY <4>2, <4>3, Zenon DEF SettingsInv
        <5> QED
          BY <4>1, <5>1 DEF DigestInv
      <4>4. CASE SettingsInOrder /\ ~ \E s \in Review : patch[s].pc # "idle"
        <5>1. SettingsInOrder'
          BY <4>1, <4>4 DEF SettingsInOrder, DigestInv
        <5> QED
          BY <4>1, <5>1 DEF DigestInv, SettingsInv
      <4> QED
        BY <4>3, <4>4, Zenon DEF DigestInv, SettingsInv
    <3>2. CASE Weekly!WriteSettings(r)
      <4>1. /\ patch[r].pc = "write" /\ patch' = [patch EXCEPT ![r] = Weekly!NoPatch]
            /\ settings' = Weekly!Merged(patch[r].base, patch[r].channel, patch[r].on)
            /\ wanted' = Weekly!Merged(wanted, patch[r].channel, patch[r].on)
            /\ raced' = raced
        BY <3>2 DEF Weekly!WriteSettings
      <4>2. settings' \subseteq Weekly!Channel
        BY <4>1 DEF Weekly!Merged, DigestInv
      <4>3. SettingsInOrder => SettingsInOrder'
        <5>1. SettingsInOrder => patch[r].base = wanted
          BY <4>1 DEF SettingsInOrder
        <5>2. SettingsInOrder => settings' = wanted'
          BY <4>1, <5>1
        <5>3. SettingsInOrder => \A s \in Review : patch'[s].pc = "idle"
          BY <4>1 DEF SettingsInOrder, DigestInv, Weekly!NoPatch
        <5> QED
          BY <5>2, <5>3 DEF SettingsInOrder
      <4>4. SettingsInv'
        BY <4>1, <4>3, Zenon DEF SettingsInv, DigestInv
      <4> QED
        BY <4>1, <4>2, <4>4 DEF DigestInv, Weekly!NoPatch, Weekly!Channel
    <3>3. CASE Weekly!WriteFails(r)
      <4>1. /\ patch' = [patch EXCEPT ![r] = Weekly!NoPatch]
            /\ UNCHANGED <<settings, wanted, raced>>
        BY <3>3 DEF Weekly!WriteFails
      <4>2. SettingsInOrder => SettingsInOrder'
        BY <4>1 DEF SettingsInOrder, DigestInv, Weekly!NoPatch
      <4>3. SettingsInv'
        BY <4>1, <4>2, Zenon DEF SettingsInv, DigestInv
      <4> QED
        BY <4>1, <4>3 DEF DigestInv, Weekly!NoPatch, Weekly!Channel
    <3> QED
      BY <1>5, <3>1, <3>2, <3>3
  <2> QED
    BY <2>1, <2>2, <2>3, <2>4 DEF DigestInv
<1> QED
  BY <1>1, <1>2, <1>3, <1>4, <1>5 DEF Weekly!Digest

-----------------------------------------------------------------------------
(* The week *)

WeeklyInv == QueueTypes /\ FreshInv /\ FaqInv /\ DigestInv

LEMMA WeeklyInit == Weekly!Init => WeeklyInv
<1> SUFFICES ASSUME Weekly!Init PROVE WeeklyInv
  OBVIOUS
<1> USE InsightBounds DEF Weekly!Init
<1>1. QueueTypes
  BY DEF QueueTypes, Weekly!NoJob, JobState, Weekly!NoWork, Weekly!Week
<1>2. FreshInv
  BY DEF FreshInv
<1>3. FaqInv
  <2>1. PICK n : Weekly!NoDraft = [status |-> "absent", cluster |-> n, documents |-> 0]
    BY Zenon DEF Weekly!NoDraft
  <2>2. PICK m : Weekly!NoReview = [pc |-> "idle", draft |-> m]
    BY Zenon DEF Weekly!NoReview
  <2>3. drafts \in [Draft -> [status : Statuses, cluster : AnyCluster, documents : 0 .. 2]]
    BY <2>1 DEF Statuses, AnyCluster
  <2>4. review \in [Review -> [pc : ReviewStep, draft : AnyDraft]]
    BY <2>2 DEF ReviewStep, AnyDraft
  <2>5. \A r \in Review : review[r].pc = "idle"
    BY <2>2
  <2>6. \A d \in Draft : drafts[d].status = "absent" /\ drafts[d].documents = 0
    BY <2>1
  <2>7. BaseInv
    BY <2>5 DEF BaseInv, BaseInOrder
  <2>8. \A d \in Draft : DraftInOrder(d) /\ ~IsKept(d)
    BY <2>5, <2>6 DEF DraftInOrder, InReview, IsKept
  <2> QED
    BY <2>3, <2>4, <2>5, <2>7, <2>8 DEF FaqInv
<1>4. DigestInv
  <2>1. /\ sent \in [Weekly!Week -> [Weekly!Channel -> Nat]]
        /\ \A w \in Weekly!Week : Unsent(w) /\ job[w].state = "none"
        /\ worker.pc = "idle"
    BY DEF Unsent, Weekly!NoJob, Weekly!NoWork
  <2>2. \A w \in Weekly!Week : WeekInOrder(w)
    BY <2>1 DEF WeekInOrder, Unsent
  <2>3. SettingsInv
    BY DEF SettingsInv, SettingsInOrder, Weekly!NoPatch
  <2> QED
    BY <2>1, <2>2, <2>3 DEF DigestInv, Weekly!NoPatch, Weekly!Channel
<1> QED
  BY <1>1, <1>2, <1>3, <1>4 DEF WeeklyInv

LEMMA WeeklyNext == WeeklyInv /\ Weekly!Next => WeeklyInv'
<1> SUFFICES ASSUME WeeklyInv, Weekly!Next PROVE WeeklyInv'
  OBVIOUS
<1> USE DEF WeeklyInv
<1>1. CASE Weekly!Queue
  <2>1. QueueTypes' /\ StillRecording /\ UNCHANGED kind
    BY <1>1, QueueTypesStep
  <2>2. /\ UNCHANGED <<flags, raced, drafts, faqBases, settings, sent, wanted>>
        /\ UNCHANGED patch \/ patch' = [r \in Review |-> Weekly!NoPatch]
        /\ ~Weekly!Crash => UNCHANGED Weekly!faq
    BY <1>1 DEF Weekly!Queue, Weekly!Tick, Weekly!FanOut, Weekly!TickFails, Weekly!TickCutOff,
       Weekly!TickAgain, Weekly!TakeJob, Weekly!Stalled, Weekly!StartRun, Weekly!StartFails,
       Weekly!CallFails, Weekly!Succeed, Weekly!SucceedFails, Weekly!Fail, Weekly!Overrun,
       Weekly!Crash, Weekly!faq, Weekly!digest
  <2>3. FreshInv'
    BY <2>1, <2>2, FreshFrame
  <2>4. FaqInv'
    <3>1. CASE Weekly!Crash
      <4>1. /\ review' = [r \in Review |-> Weekly!NoReview]
            /\ entangled' = entangled \cup {review[r].draft : r \in {s \in Review : review[s].pc # "idle"}}
        BY <3>1 DEF Weekly!Crash
      <4> QED
        BY <2>1, <2>2, <4>1, FaqCrash
    <3>2. CASE ~Weekly!Crash
      BY <2>1, <2>2, <3>2, FaqFrame
    <3> QED
      BY <3>1, <3>2
  <2>5. DigestInv'
    <3>1. kind = "digest" => \A w \in Weekly!Week \ redone' : WeekInOrder(w)'
      BY <1>1, QueueWeeks DEF DigestInv
    <3> QED
      BY <2>1, <2>2, <3>1, DigestFrame
  <2> QED
    BY <2>1, <2>3, <2>4, <2>5
<1>2. CASE Weekly!Freshness
  <2>1. QueueTypes' /\ UNCHANGED <<kind, tick, job, redone>>
    BY <1>2, WorkTypesStep DEF DigestInv
  <2>2. /\ UNCHANGED <<Weekly!faq, raced, settings, patch, sent, wanted>>
        /\ kind = "freshness-check" \/ UNCHANGED worker
    BY <1>2 DEF Weekly!Freshness, Weekly!FindGaps, Weekly!InsertFlags, Weekly!DismissFlag,
       Weekly!digest, Weekly!queue
  <2>3. FreshInv'
    BY <1>2, FreshNext
  <2>4. FaqInv'
    BY <2>1, <2>2 DEF FaqInv, Weekly!faq, BaseInv, BaseInOrder, DraftInOrder, InReview, IsKept
  <2>5. DigestInv'
    <3>1. kind = "digest" => \A w \in Weekly!Week \ redone' : WeekInOrder(w)'
      BY <2>1, <2>2 DEF DigestInv, WeekInOrder, Unsent
    <3> QED
      BY <2>1, <2>2, <3>1, DigestFrame
  <2> QED
    BY <2>1, <2>3, <2>4, <2>5
<1>3. CASE Weekly!Faq
  <2>1. QueueTypes' /\ UNCHANGED <<kind, tick, job, redone>>
    BY <1>3, WorkTypesStep DEF DigestInv
  <2>2. /\ UNCHANGED <<flags, settings, patch, sent, wanted>>
        /\ kind = "faq-cluster" \/ UNCHANGED worker
    BY <1>3 DEF Weekly!Faq, Weekly!FindUncovered, Weekly!SkipDrafted, Weekly!SkipCluster,
       Weekly!DraftsDone, Weekly!InsertDraft, Weekly!Reject, Weekly!SelectDraft,
       Weekly!FindFaqBase, Weekly!CreateFaqBase, Weekly!InsertDocument, Weekly!Approve,
       Weekly!ApprovalFails, Weekly!digest, Weekly!queue
  <2>3. FreshInv'
    BY <2>1, <2>2 DEF FreshInv
  <2>4. FaqInv'
    BY <1>3, FaqNext
  <2>5. raced => raced'
    BY <1>3, Zenon DEF Weekly!Faq, Weekly!FindUncovered, Weekly!SkipDrafted, Weekly!SkipCluster,
       Weekly!DraftsDone, Weekly!InsertDraft, Weekly!Reject, Weekly!SelectDraft,
       Weekly!FindFaqBase, Weekly!CreateFaqBase, Weekly!InsertDocument, Weekly!Approve,
       Weekly!ApprovalFails
  <2>6. DigestInv'
    <3>1. kind = "digest" => \A w \in Weekly!Week \ redone' : WeekInOrder(w)'
      BY <2>1, <2>2 DEF DigestInv, WeekInOrder, Unsent
    <3> QED
      BY <2>1, <2>2, <2>5, <3>1, DigestFrame
  <2> QED
    BY <2>1, <2>3, <2>4, <2>6
<1>4. CASE Weekly!Digest
  <2>1. QueueTypes' /\ UNCHANGED <<kind, tick, job, redone>>
    BY <1>4, WorkTypesStep DEF DigestInv
  <2>0. kind = "digest" \/ UNCHANGED worker
    BY <1>4 DEF Weekly!Digest, Weekly!BuildDigest, Weekly!DigestDone, Weekly!SendDigest,
       Weekly!SendFails, Weekly!ReadSettings, Weekly!WriteSettings, Weekly!WriteFails, Weekly!queue
  <2>2. UNCHANGED <<flags, Weekly!faq>>
    BY <1>4 DEF Weekly!Digest, Weekly!BuildDigest, Weekly!DigestDone, Weekly!SendDigest,
       Weekly!SendFails, Weekly!ReadSettings, Weekly!WriteSettings, Weekly!WriteFails
  <2>3. FreshInv'
    BY <2>0, <2>1, <2>2 DEF FreshInv
  <2>4. raced => raced'
    BY <1>4, Zenon DEF Weekly!Digest, Weekly!BuildDigest, Weekly!DigestDone, Weekly!SendDigest,
       Weekly!SendFails, Weekly!ReadSettings, Weekly!WriteSettings, Weekly!WriteFails
  <2>5. FaqInv'
    <3>1. BaseInv'
      <4>1. BaseInOrder => BaseInOrder'
        BY <2>2 DEF BaseInOrder, Weekly!faq
      <4> QED
        BY <2>4, <4>1, Zenon DEF FaqInv, BaseInv
    <3> QED
      BY <2>0, <2>1, <2>2, <3>1 DEF FaqInv, Weekly!faq, DraftInOrder, InReview, IsKept
  <2>6. DigestInv'
    BY <1>4, DigestNext
  <2> QED
    BY <2>1, <2>3, <2>5, <2>6
<1> QED
  BY <1>1, <1>2, <1>3, <1>4 DEF Weekly!Next

LEMMA WeekKept == WeeklyInv => Weekly!FoundOnce /\ Weekly!ReviewedOnce /\ Weekly!SentAsSet
<1> SUFFICES ASSUME WeeklyInv PROVE Weekly!FoundOnce /\ Weekly!ReviewedOnce /\ Weekly!SentAsSet
  OBVIOUS
<1>1. Weekly!FoundOnce
  <2>1. \A g \in Gap : flags[g] <= 1
    BY DEF WeeklyInv, FreshInv
  <2> QED
    BY <2>1, FaqKept, Zenon DEF WeeklyInv, Weekly!FoundOnce
<1>2. Weekly!ReviewedOnce
  BY FaqKept DEF WeeklyInv
<1>3. Weekly!SentAsSet
  <2>1. ASSUME NEW w \in Weekly!Week \ redone, NEW c \in Weekly!Channel
        PROVE  sent[w][c] <= 1
    BY DEF WeeklyInv, DigestInv, WeekInOrder, Unsent
  <2>2. raced \/ settings = wanted
    BY DEF WeeklyInv, DigestInv, SettingsInv, SettingsInOrder
  <2> QED
    BY <2>1, <2>2, Zenon DEF Weekly!SentAsSet
<1> QED
  BY <1>1, <1>2, <1>3

-----------------------------------------------------------------------------
(* Both uses *)

KnowledgeInv == RequestInv /\ WeeklyInv

LEMMA KnowledgeInductive ==
  /\ Init => KnowledgeInv
  /\ KnowledgeInv /\ [Next]_vars => KnowledgeInv'
<1>1. Init => KnowledgeInv
  BY RequestInit, WeeklyInit DEF Init, KnowledgeInv
<1>2. ASSUME KnowledgeInv, [Next]_vars
      PROVE  KnowledgeInv'
  <2>1. ASSUME UNCHANGED requestVars
        PROVE  RequestInv'
    <3>1. RetrievalTypes'
      BY <1>2, <2>1 DEF requestVars, KnowledgeInv, RequestInv, RetrievalTypes, Request!Chunk, Request!Owner,
         Request!TicketChunk, Request!DocumentChunk
    <3> QED
      BY <1>2, <2>1, <3>1, RequestFrame DEF KnowledgeInv, requestVars, Request!request
  <2>2. ASSUME UNCHANGED weeklyVars
        PROVE  WeeklyInv'
    <3> USE <1>2, <2>2 DEF weeklyVars, KnowledgeInv, WeeklyInv
    <3>1. QueueTypes'
      BY DEF QueueTypes
    <3>2. FreshInv'
      BY DEF FreshInv
    <3>3. StillRecording
      BY DEF StillRecording
    <3>4. FaqInv'
      BY <3>3, FaqFrame DEF Weekly!faq
    <3>5. DigestInv'
      <4>1. kind = "digest" => \A w \in Weekly!Week \ redone' : WeekInOrder(w)'
        BY DEF DigestInv, WeekInOrder, Unsent
      <4> QED
        BY <4>1, DigestFrame
    <3> QED
      BY <3>1, <3>2, <3>4, <3>5
  <2>3. CASE Request!Next /\ UNCHANGED <<used, weeklyVars>>
    BY <1>2, <2>2, <2>3, RequestNext DEF KnowledgeInv
  <2>4. CASE Weekly!Next /\ UNCHANGED <<used, requestVars>>
    BY <1>2, <2>1, <2>4, WeeklyNext DEF KnowledgeInv
  <2>5. CASE UNCHANGED vars
    BY <2>1, <2>2, <2>5 DEF vars, KnowledgeInv
  <2> QED
    BY <1>2, <2>3, <2>4, <2>5 DEF Next
<1> QED
  BY <1>1, <1>2

(* Whatever the scores, the limits and the budget, and whatever documents are *)
(* deleted or ingested again between the statements of a request: what is put *)
(* in the prompt of an answer, or listed by a search, is cited by a source    *)
(* with its score, and a prompt has the best of what was found.               *)
THEOREM AnswersAreCited == Spec => []EvidenceIsCited
<1>1. KnowledgeInv => EvidenceIsCited
  BY DEF KnowledgeInv, RequestInv, EvidenceIsCited
<1> QED
  BY <1>1, KnowledgeInductive, PTL DEF Spec

(* However often the weekly checks are run again, a gap has at most one open  *)
(* flag and a cluster at most one draft pending or approved.                  *)
THEOREM NothingFoundTwice == Spec => []FoundOnce
<1>1. KnowledgeInv => FoundOnce
  BY WeekKept DEF KnowledgeInv, FoundOnce
<1> QED
  BY <1>1, KnowledgeInductive, PTL DEF Spec

(* A draft whose reviews do not overlap enters the corpus at most once, when  *)
(* it is approved, and there is one knowledge base for drafts unless two      *)
(* approvals looked for it at once.                                           *)
THEOREM DraftsEnterOnce == Spec => []ReviewedOnce
<1>1. KnowledgeInv => ReviewedOnce
  BY WeekKept DEF KnowledgeInv, ReviewedOnce
<1> QED
  BY <1>1, KnowledgeInductive, PTL DEF Spec

(* Without a fault no channel gets the digest of a week twice, and without an *)
(* overlap of two changes the settings are what was last asked for.           *)
THEOREM DigestSentOnce == Spec => []SentAsSet
<1>1. KnowledgeInv => SentAsSet
  BY WeekKept DEF KnowledgeInv, SentAsSet
<1> QED
  BY <1>1, KnowledgeInductive, PTL DEF Spec
=============================================================================
