-------------------------- MODULE Datasets_proofs --------------------------
(***************************************************************************)
(* Proofs about Datasets, for every set of handlers, questions and files,  *)
(* and every number of attempts.                                           *)
(***************************************************************************)
EXTENDS Datasets, TLAPS

-----------------------------------------------------------------------------
(* What is stored under the dataset's key *)

HandlersIdle == \A h \in Handler : handler[h] = Idle

(* The object is the CSV, or a removal has taken it. *)
Readable == object = "csv" \/ (removed /\ object = "none")

RowTypes == row \in Dataset /\ handler \in [Handler -> Execution]

(* Nothing else touches a dataset before its row is inserted, under the name   *)
(* of what was stored. From then on a row that is read as a CSV has one, only  *)
(* a removal takes the object away, and who is past the conversion, or the     *)
(* lack of one, leaves a readable object if the row is still there.            *)
StoredInv ==
  /\ upload \in {"new", "insert"} =>
       ~Present /\ job.state = "none" /\ HandlersIdle /\ remover = "idle"
  /\ upload = "insert" => object \in {"csv", "xlsx"}
  /\ Present => (row.name = "csv" => Readable) /\ (object = "none" => removed)
  /\ \A h \in Handler : handler[h].pc = "profile" => (Present => Readable)
  /\ row.status = "done" => row.profiled /\ Readable

LEMMA StoredInit == Init => RowTypes /\ StoredInv
  BY DEF Init, RowTypes, StoredInv, Dataset, Execution, Absent, Idle, NoJob, Present,
         HandlersIdle, Open

(* The steps of the questions change none of it.                              *)
LEMMA QueryStep ==
  ASSUME NEW q \in Query, Ask(q) \/ Answer(q)
  PROVE  UNCHANGED lifecycle
  BY DEF Ask, Answer, ExportTickets, SelectCandidates, Arrive, DownloadFails,
         GenerateSql, GenerateFails, RejectSql, RunQuery, RunQueryFails, Cleanup

LEMMA StoredUpload ==
  ASSUME RowTypes, StoredInv, Upload
  PROVE  RowTypes' /\ StoredInv'
  <1>0. row \in Dataset
    BY DEF RowTypes
  <1>1. CASE \E name \in {"csv", "xlsx"} : Save(name)
    BY <1>1 DEF Save, RowTypes, StoredInv, Present, HandlersIdle
  <1>2. CASE InsertDataset
    <2>1. row' = [Absent EXCEPT !.status = "pending", !.name = object] /\ object \in {"csv", "xlsx"}
          /\ upload' = "link" /\ UNCHANGED <<object, job, remover, handler, removed>>
      BY <1>2 DEF InsertDataset, StoredInv
    <2>2. row' \in Dataset /\ row'.status = "pending" /\ row'.name = object
      BY <2>1 DEF Absent, Dataset, Open
    <2> QED
      BY <1>2, <2>1, <2>2 DEF InsertDataset, RowTypes, StoredInv, HandlersIdle, Idle,
                              Readable, Present
  <1>3. CASE LinkJob \/ AddFailed
    <2>1. /\ row' \in Dataset /\ row'.name = row.name
          /\ row'.status # "done" \/ row' = row
          /\ Present' => Present
          /\ UNCHANGED <<object, job, remover, handler, removed>>
          /\ upload' \notin {"new", "insert"}
      BY <1>0, <1>3 DEF LinkJob, AddFailed, Set, Dataset, Open, Present
    <2> QED
      BY <2>1 DEF RowTypes, StoredInv, HandlersIdle, Readable
  <1>4. CASE AddJob \/ AddJobFails \/ UploadFails
    BY <1>4 DEF AddJob, AddJobFails, UploadFails, RowTypes, StoredInv, HandlersIdle,
                Readable, Present
  <1> QED
    BY <1>1, <1>2, <1>3, <1>4 DEF Upload

LEMMA StoredRemove ==
  ASSUME RowTypes, StoredInv, Remove
  PROVE  RowTypes' /\ StoredInv'
  <1>1. CASE SelectToRemove
    BY <1>1 DEF SelectToRemove, RowTypes, StoredInv, HandlersIdle, Readable, Present
  <1>2. CASE DeleteObject
    <2>1. /\ object' = "none" \/ object' = object
          /\ removed' /\ upload \notin {"new", "insert"}
          /\ UNCHANGED <<row, job, upload, handler>>
      BY <1>2 DEF DeleteObject, StoredInv
    <2> QED
      BY <2>1 DEF RowTypes, StoredInv, HandlersIdle, Readable, Present
  <1>3. CASE DeleteRow
    <2>1. /\ row' = Absent \/ row' = row
          /\ UNCHANGED <<object, job, upload, handler, removed>>
          /\ remover' = "idle"
      BY <1>3 DEF DeleteRow
    <2>2. Absent \in Dataset /\ Absent.status = "absent"
      BY DEF Absent, Dataset
    <2> QED
      BY <2>1, <2>2 DEF RowTypes, StoredInv, HandlersIdle, Readable, Present
  <1> QED
    BY <1>1, <1>2, <1>3 DEF Remove

LEMMA StoredHandle ==
  ASSUME RowTypes, StoredInv, NEW h \in Handler, TakeJob(h) \/ LoseJob(h) \/ Handle(h)
  PROVE  RowTypes' /\ StoredInv'
  <1>0. /\ row \in Dataset /\ handler \in [Handler -> Execution]
        /\ handler[h] \in Execution /\ Idle \in Execution /\ Idle.pc = "idle"
    BY DEF RowTypes, Idle, Execution
  (* no handler runs and no job waits before the row is there *)
  <1>1. upload \notin {"new", "insert"} /\ UNCHANGED <<upload, remover, removed>>
    <2>1. handler[h].pc # "idle" \/ job.state # "none" \/ handler[h].owns
      BY DEF TakeJob, LoseJob, Handle, Start, SelectDataset, RejectEarly, Download,
             ConvertXlsx, MarkDone, ProfilingFails, MarkFailed, MarkFailedFails
    <2>2. UNCHANGED <<upload, remover, removed>>
      BY DEF TakeJob, LoseJob, Handle, Start, SelectDataset, RejectEarly, Download,
             ConvertXlsx, MarkDone, ProfilingFails, MarkFailed, MarkFailedFails
    <2> QED
      BY <1>0, <2>1, <2>2 DEF StoredInv, HandlersIdle, Idle
  <1>2. ASSUME NEW e \in Execution, handler' = [handler EXCEPT ![h] = e],
               row' \in Dataset, row'.name = row.name, Present' <=> Present,
               object' = object \/ object' = "csv",
               e.pc = "profile" => (Present => Readable'),
               row'.status = "done" => row'.profiled /\ Readable'
        PROVE  RowTypes' /\ StoredInv'
    <2>1. handler' \in [Handler -> Execution]
          /\ \A g \in Handler : handler'[g] = handler[g] \/ (g = h /\ handler'[g] = e)
      BY <1>0, <1>2
    <2>2. Readable => Readable'
      BY <1>1, <1>2 DEF Readable
    <2> QED
      BY <1>1, <1>2, <2>1, <2>2 DEF RowTypes, StoredInv
  <1>3. ASSUME UNCHANGED <<row, object>>, NEW e \in Execution,
               handler' = [handler EXCEPT ![h] = e], e.pc \notin {"profile"} \/ e.pc = handler[h].pc
        PROVE  RowTypes' /\ StoredInv'
    <2>1. (Present' <=> Present) /\ (Readable' <=> Readable)
      BY <1>1, <1>3 DEF Present, Readable
    <2>2. e.pc = "profile" => (Present => Readable')
      BY <1>3, <2>1 DEF StoredInv
    <2>3. row'.status = "done" => row'.profiled /\ Readable'
      BY <1>3, <2>1 DEF StoredInv
    <2> QED
      BY <1>0, <1>2, <1>3, <2>1, <2>2, <2>3
  <1>4. CASE TakeJob(h)
    <2> DEFINE e == [pc |-> "start", owns |-> TRUE]
    <2>1. e \in Execution /\ e.pc = "start" /\ handler' = [handler EXCEPT ![h] = e]
          /\ UNCHANGED <<row, object>>
      BY <1>4 DEF TakeJob, Execution
    <2> QED
      BY <1>3, <2>1
  <1>5. CASE LoseJob(h)
    <2> DEFINE e == [handler[h] EXCEPT !.owns = FALSE]
    <2>1. e \in Execution /\ e.pc = handler[h].pc /\ handler' = [handler EXCEPT ![h] = e]
          /\ UNCHANGED <<row, object>>
      BY <1>0, <1>5 DEF LoseJob, Execution
    <2> QED
      BY <1>3, <2>1
  <1>6. ASSUME NEW pc \in {"idle", "start", "select", "download", "convert", "profile", "catch"}
        PROVE  /\ [handler[h] EXCEPT !.pc = pc] \in Execution
               /\ [handler[h] EXCEPT !.pc = pc].pc = pc
    BY <1>0 DEF Execution
  <1>7. CASE Start(h)
    <2> DEFINE e == [handler[h] EXCEPT !.pc = "select"]
    <2>1. e \in Execution /\ e.pc = "select" /\ handler' = [handler EXCEPT ![h] = e]
          /\ object' = object
      BY <1>6, <1>7 DEF Start
    <2>2. /\ row' \in Dataset /\ row'.name = row.name /\ (Present' <=> Present)
          /\ row'.status # "done" \/ row' = row
      BY <1>0, <1>7 DEF Start, Set, Dataset, Open, Present
    <2>3. row'.status = "done" => row'.profiled /\ Readable'
      BY <1>1, <2>1, <2>2 DEF StoredInv, Readable
    <2> HIDE DEF e
    <2> QED
      BY <1>2, <2>1, <2>2, <2>3
  <1>8. CASE Download(h)
    <2>1. PICK pc \in {"convert", "profile"} :
            /\ handler' = [handler EXCEPT ![h] = [handler[h] EXCEPT !.pc = pc]]
            /\ pc = "profile" => row.name # "xlsx"
      BY <1>8 DEF Download
    <2> DEFINE e == [handler[h] EXCEPT !.pc = pc]
    <2>2. e \in Execution /\ e.pc = pc
      BY <1>6
    <2>3. UNCHANGED <<row, object>>
      BY <1>8 DEF Download
    <2>4. (Present' <=> Present) /\ (Readable' <=> Readable)
      BY <1>1, <2>3 DEF Present, Readable
    <2>5. e.pc = "profile" => (Present => Readable')
      BY <1>0, <2>1, <2>2, <2>4 DEF StoredInv, Dataset
    <2>6. row'.status = "done" => row'.profiled /\ Readable'
      BY <2>3, <2>4 DEF StoredInv
    <2> HIDE DEF e
    <2> QED
      BY <1>0, <1>2, <2>1, <2>2, <2>3, <2>4, <2>5, <2>6 DEF e
  <1>9. CASE ConvertXlsx(h)
    <2> DEFINE e == [handler[h] EXCEPT !.pc = "profile"]
    <2>1. e \in Execution /\ handler' = [handler EXCEPT ![h] = e]
          /\ row' = row /\ object' = "csv"
      BY <1>6, <1>9 DEF ConvertXlsx
    <2>2. (Present' <=> Present) /\ Readable'
      BY <2>1 DEF Present, Readable
    <2>3. row'.status = "done" => row'.profiled
      BY <2>1 DEF StoredInv
    <2> HIDE DEF e
    <2> QED
      BY <1>0, <1>2, <2>1, <2>2, <2>3
  <1>10. CASE MarkDone(h)
    <2>1. /\ handler' = [handler EXCEPT ![h] = Idle] /\ object' = object
          /\ row' = Set([row EXCEPT !.status = "done", !.profiled = TRUE])
          /\ handler[h].pc = "profile"
      BY <1>10 DEF MarkDone, Return
    <2>2. /\ row' \in Dataset /\ row'.name = row.name /\ (Present' <=> Present)
          /\ row'.status = "done" => row'.profiled /\ (Present \/ row' = row)
      BY <1>0, <2>1 DEF Set, Dataset, Present, StoredInv
    <2>3. Readable' <=> Readable
      BY <1>1, <2>1 DEF Readable
    <2>4. row'.status = "done" => row'.profiled /\ Readable'
      BY <2>1, <2>2, <2>3 DEF StoredInv
    <2> QED
      BY <1>0, <1>2, <2>1, <2>2, <2>4
  <1>11. CASE MarkFailed(h)
    <2>1. /\ handler' = [handler EXCEPT ![h] = Idle] /\ object' = object
          /\ row' = Set([row EXCEPT !.status = "failed"])
      BY <1>11 DEF MarkFailed, Return
    <2>2. /\ row' \in Dataset /\ row'.name = row.name /\ (Present' <=> Present)
          /\ row'.status = "done" => row' = row
      BY <1>0, <2>1 DEF Set, Dataset, Present
    <2>3. row'.status = "done" => row'.profiled /\ Readable'
      BY <1>1, <2>1, <2>2 DEF StoredInv, Readable
    <2> QED
      BY <1>0, <1>2, <2>1, <2>2, <2>3
  <1>12. CASE SelectDataset(h)
    BY <1>3, <1>6, <1>12 DEF SelectDataset
  <1>13. CASE ProfilingFails(h)
    BY <1>3, <1>6, <1>13 DEF ProfilingFails
  <1>14. CASE RejectEarly(h) \/ MarkFailedFails(h)
    BY <1>0, <1>3, <1>14 DEF RejectEarly, MarkFailedFails, Throw
  <1> QED
    BY <1>4, <1>5, <1>7, <1>8, <1>9, <1>10, <1>11, <1>12, <1>13, <1>14 DEF Handle

LEMMA StoredNext == RowTypes /\ StoredInv /\ [Next]_vars => RowTypes' /\ StoredInv'
  <1> SUFFICES ASSUME RowTypes, StoredInv, [Next]_vars PROVE RowTypes' /\ StoredInv'
    OBVIOUS
  <1>0. row \in Dataset
    BY DEF RowTypes
  <1>1. CASE Crash
    <2>1. /\ \A h \in Handler : handler'[h] = Idle
          /\ handler' \in [Handler -> Execution] /\ Idle.pc = "idle"
      BY <1>1 DEF Crash, Idle, Execution
    <2>2. /\ UNCHANGED <<row, object, removed>> /\ remover' = "idle"
          /\ upload' \in {"new", "insert"} => upload = "new"
          /\ job.state = "none" => job' = job
      BY <1>1 DEF Crash
    <2>3. RowTypes' /\ HandlersIdle'
      BY <2>1, <2>2 DEF RowTypes, HandlersIdle
    <2>4. /\ \A h \in Handler : handler'[h].pc # "profile"
          /\ (Readable' <=> Readable) /\ (Present' <=> Present)
      BY <2>1, <2>2 DEF Readable, Present
    <2>5. upload' \in {"new", "insert"} => ~Present /\ job'.state = "none" /\ upload' # "insert"
      BY <1>1, <2>2 DEF StoredInv, Crash
    <2> QED
      BY <2>2, <2>3, <2>4, <2>5 DEF StoredInv
  <1>2. CASE StallDead
    BY <1>2 DEF StallDead, RowTypes, StoredInv, HandlersIdle, Readable, Present
  <1>3. CASE Reconcile
    <2>1. /\ UNCHANGED <<object, job, upload, remover, handler, removed>>
          /\ row' \in Dataset /\ row'.name = row.name /\ (Present' <=> Present)
          /\ row'.status = "done" => row' = row
      BY <1>0, <1>3 DEF Reconcile, Boot, ReconcileGetJob, ReconcileFail, Set, Dataset, Present
    <2> QED
      BY <2>1 DEF RowTypes, StoredInv, HandlersIdle, Readable
  <1>4. CASE (\E q \in Query : Ask(q) \/ Answer(q)) \/ UNCHANGED vars
    <2>1. UNCHANGED <<row, object, job, upload, remover, handler, removed>>
      BY <1>4, QueryStep DEF lifecycle, vars
    <2> QED
      BY <2>1 DEF RowTypes, StoredInv, HandlersIdle, Readable, Present
  <1> QED
    BY <1>1, <1>2, <1>3, <1>4, StoredUpload, StoredRemove, StoredHandle DEF Next

-----------------------------------------------------------------------------
(* Temporary files *)

(* How many statements a question generates plays no part here.               *)
Answering == [pc : {"idle", "select", "download", "sql", "run", "cleanup", "ended"},
              coming : SUBSET File, files : SUBSET File, statements : Nat]

QueryType == query \in [Query -> Answering]

(* A question has files only from its downloads on, no download is under way  *)
(* while its statements run, and the one it leaves behind is known.           *)
FilesOf(x) ==
  /\ x.pc \in {"idle", "select"} => x.files = {}
  /\ x.pc \notin {"download", "ended"} => x.coming = {}
  /\ x.pc = "ended" /\ x.files # {} => spilled

FilesInv == \A q \in Query : FilesOf(query[q])

LEMMA FilesInit == Init => QueryType /\ FilesInv
  BY DEF Init, QueryType, FilesInv, FilesOf, NoQuestion, Answering

(* One question takes a step, and nothing that was spilled is forgotten.       *)
LEMMA FilesStep ==
  ASSUME QueryType, FilesInv, NEW q \in Query, NEW x \in Answering,
         query' = [query EXCEPT ![q] = x], spilled => spilled',
         /\ x.pc \in {"idle", "select"} => x.files = {}
         /\ x.pc \notin {"download", "ended"} => x.coming = {}
         /\ x.pc = "ended" /\ x.files # {} => spilled'
  PROVE  QueryType' /\ FilesInv'
  <1>1. query' \in [Query -> Answering]
        /\ \A p \in Query : query'[p] = query[p] \/ query'[p] = x
    BY DEF QueryType
  <1> QED
    BY <1>1 DEF QueryType, FilesInv, FilesOf

LEMMA FilesNext == QueryType /\ FilesInv /\ [Next]_vars => QueryType' /\ FilesInv'
  <1> SUFFICES ASSUME QueryType, FilesInv, [Next]_vars PROVE QueryType' /\ FilesInv'
    OBVIOUS
  <1>1. ASSUME NEW q \in Query, Ask(q) \/ Answer(q) PROVE QueryType' /\ FilesInv'
    <2>0. query[q] \in Answering /\ FilesOf(query[q])
      BY DEF QueryType, FilesInv
    <2>1. ASSUME NEW pc \in {"select", "sql", "run", "cleanup", "ended"},
                 NEW n \in Nat,
                 query' = [query EXCEPT ![q] = [query[q] EXCEPT !.pc = pc, !.statements = n]],
                 spilled' = spilled,
                 pc = "select" => query[q].pc = "idle",
                 query[q].pc \notin {"download", "ended"},
                 pc = "ended" => query[q].files = {}
          PROVE  QueryType' /\ FilesInv'
      <3> DEFINE x == [query[q] EXCEPT !.pc = pc, !.statements = n]
      <3>1. /\ x \in Answering /\ x.pc = pc /\ x.files = query[q].files
            /\ x.coming = query[q].coming
        BY <2>0 DEF Answering
      <3> HIDE DEF x
      <3>2. query' = [query EXCEPT ![q] = x]
        BY <2>1 DEF x
      <3> QED
        BY <2>0, <2>1, <3>1, <3>2, FilesStep DEF FilesOf
    <2>2. query[q].statements \in Nat
          /\ \A pc : [query[q] EXCEPT !.pc = pc] =
                       [query[q] EXCEPT !.pc = pc, !.statements = query[q].statements]
      BY <2>0 DEF Answering
    <2>3. CASE Ask(q)
      BY <2>1, <2>2, <2>3 DEF Ask, FilesOf
    <2>4. CASE ExportTickets(q)
      <3>1. CASE End(q)
        BY <2>0, <2>1, <2>2, <2>4, <3>1 DEF ExportTickets, End, FilesOf
      <3>2. CASE query' = [query EXCEPT ![q].pc = "sql", ![q].files = {Tickets}]
        <4> DEFINE x == [query[q] EXCEPT !.pc = "sql", !.files = {Tickets}]
        <4>1. x \in Answering /\ x.pc = "sql" /\ x.coming = {}
              /\ query' = [query EXCEPT ![q] = x] /\ spilled' = spilled
          BY <2>0, <2>4, <3>2 DEF ExportTickets, Answering, File, FilesOf
        <4> HIDE DEF x
        <4> QED
          BY <4>1, FilesStep
      <3> QED
        BY <2>4, <3>1, <3>2 DEF ExportTickets
    <2>5. CASE SelectCandidates(q)
      <3>1. CASE End(q)
        BY <2>0, <2>1, <2>2, <2>5, <3>1 DEF SelectCandidates, End, FilesOf
      <3>2. CASE ~End(q)
        <4>1. PICK tables \in SUBSET Ready :
                query' = [query EXCEPT ![q].pc = "download", ![q].coming = tables]
          BY <2>5, <3>2 DEF SelectCandidates
        <4> DEFINE x == [query[q] EXCEPT !.pc = "download", !.coming = tables]
        <4>2. x \in Answering /\ x.pc = "download"
              /\ query' = [query EXCEPT ![q] = x] /\ spilled' = spilled
          BY <2>0, <2>5, <4>1 DEF SelectCandidates, Answering, Ready, File
        <4> HIDE DEF x
        <4> QED
          BY <4>2, FilesStep
      <3> QED
        BY <3>1, <3>2
    <2>6. ASSUME NEW f \in File, Arrive(q, f) PROVE QueryType' /\ FilesInv'
      <3> DEFINE pc == IF query[q].pc = "download" /\ query[q].coming = {f} THEN "sql"
                       ELSE query[q].pc
                 x == [query[q] EXCEPT !.coming = query[q].coming \ {f},
                                       !.files = query[q].files \cup {f}, !.pc = pc]
      <3>1. /\ x \in Answering /\ x.pc = pc /\ x.coming = query[q].coming \ {f}
            /\ query' = [query EXCEPT ![q] = x]
            /\ f \in query[q].coming /\ query[q].pc \in {"download", "ended"}
        BY <2>0, <2>6 DEF Arrive, Answering, FilesOf
      <3>2. /\ spilled => spilled'
            /\ query[q].pc # "download" => spilled'
        BY <2>6, Zenon DEF Arrive
      <3>3. /\ x.pc \in {"sql", "download", "ended"}
            /\ x.pc = "sql" => x.coming = {}
            /\ x.pc = "ended" => spilled'
        BY <3>1, <3>2
      <3> HIDE DEF x, pc
      <3> QED
        BY <3>1, <3>2, <3>3, FilesStep
    <2>7. ASSUME NEW f \in File, DownloadFails(q, f) PROVE QueryType' /\ FilesInv'
      <3>1. PICK partial \in SUBSET File :
              /\ query' = [query EXCEPT ![q].coming = @ \ {f}, ![q].files = @ \cup partial,
                                        ![q].pc = "ended"]
              /\ spilled' = (spilled \/ query[q].files \cup partial # {})
        BY <2>7 DEF DownloadFails
      <3> DEFINE x == [query[q] EXCEPT !.coming = query[q].coming \ {f},
                             !.files = query[q].files \cup partial, !.pc = "ended"]
      <3>2. /\ x \in Answering /\ x.pc = "ended" /\ x.files = query[q].files \cup partial
            /\ query' = [query EXCEPT ![q] = x]
        BY <2>0, <3>1 DEF Answering
      <3>3. /\ spilled => spilled'
            /\ query[q].files \cup partial # {} => spilled'
        BY <3>1, Zenon
      <3> HIDE DEF x
      <3> QED
        BY <3>2, <3>3, FilesStep
    <2>8. CASE GenerateSql(q)
      <3>1. query[q].statements + 1 \in Nat
        BY <2>0 DEF Answering
      <3> QED
        BY <2>1, <2>8, <3>1 DEF GenerateSql
    <2>9. CASE GenerateFails(q) \/ RejectSql(q) \/ RunQuery(q)
      BY <2>1, <2>9 DEF GenerateFails, RejectSql, RunQuery
    <2>10. CASE RunQueryFails(q)
      BY <2>1, <2>2, <2>10 DEF RunQueryFails
    <2>11. CASE Cleanup(q)
      <3>1. CASE query' = [query EXCEPT ![q].pc = "ended", ![q].files = {}] /\ spilled' = spilled
        <4> DEFINE x == [query[q] EXCEPT !.pc = "ended", !.files = {}]
        <4>1. x \in Answering /\ x.pc = "ended" /\ x.files = {}
              /\ query' = [query EXCEPT ![q] = x]
          BY <2>0, <3>1 DEF Answering
        <4> HIDE DEF x
        <4> QED
          BY <3>1, <4>1, FilesStep
      <3>2. CASE End(q) /\ spilled' = TRUE
        <4> DEFINE x == [query[q] EXCEPT !.pc = "ended"]
        <4>1. x \in Answering /\ x.pc = "ended" /\ query' = [query EXCEPT ![q] = x]
          BY <2>0, <3>2 DEF Answering, End
        <4> HIDE DEF x
        <4> QED
          BY <3>2, <4>1, FilesStep
      <3> QED
        BY <2>11, <3>1, <3>2 DEF Cleanup
    <2> QED
      BY <1>1, <2>3, <2>4, <2>5, <2>6, <2>7, <2>8, <2>9, <2>10, <2>11 DEF Answer
  <1>2. CASE Crash
    <2>1. /\ \A q \in Query : query'[q] = [query[q] EXCEPT !.pc = "ended", !.coming = {}, !.statements = 0]
          /\ query' \in [Query -> Answering]
      BY <1>2 DEF Crash, QueryType, Answering
    <2>2. (\A q \in Query : query[q].files # {} => spilled') /\ (spilled => spilled')
      BY <1>2, Zenon DEF Crash
    <2>3. ASSUME NEW q \in Query
          PROVE  query'[q].pc = "ended" /\ query'[q].files = query[q].files
      <3>1. query[q] \in Answering
        BY DEF QueryType
      <3> QED
        BY <2>1, <3>1 DEF Answering
    <2>4. ASSUME NEW q \in Query PROVE FilesOf(query[q])'
      BY <2>2, <2>3 DEF FilesOf
    <2> QED
      BY <2>1, <2>4 DEF QueryType, FilesInv
  <1>3. CASE UNCHANGED <<query, spilled>>
    BY <1>3 DEF QueryType, FilesInv, FilesOf
  <1>4. (\E q \in Query : Ask(q) \/ Answer(q)) \/ Crash \/ UNCHANGED <<query, spilled>>
    BY DEF Next, Upload, Save, InsertDataset, LinkJob, AddJob, AddJobFails, AddFailed,
           UploadFails, Remove, SelectToRemove, DeleteObject, DeleteRow, StallDead,
           Reconcile, Boot, ReconcileGetJob, ReconcileFail, TakeJob, LoseJob, Handle, Start,
           SelectDataset, RejectEarly, Download, ConvertXlsx, MarkDone, ProfilingFails,
           MarkFailed, MarkFailedFails, vars
  <1> QED
    BY <1>1, <1>2, <1>3, <1>4

-----------------------------------------------------------------------------
(* Theorems *)

(* A dataset that says done is profiled and readable.                         *)
THEOREM DoneQueryable == Spec => []DoneIsQueryable
  <1>1. RowTypes /\ StoredInv => DoneIsQueryable
    BY DEF StoredInv, Readable, DoneIsQueryable
  <1> QED
    BY <1>1, StoredInit, StoredNext, PTL DEF Spec

(* No answer leaves a temporary file behind without trace.                    *)
THEOREM NoTempFilesLeft == Spec => []TempFilesRemoved
  <1>1. FilesInv => TempFilesRemoved
    BY DEF FilesInv, FilesOf, TempFilesRemoved
  <1> QED
    BY <1>1, FilesInit, FilesNext, PTL DEF Spec
=============================================================================
