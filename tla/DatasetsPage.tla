----------------------------- MODULE DatasetsPage -----------------------------
(***************************************************************************)
(* The datasets page of the web client: its list, which is not paged, the  *)
(* polling while a dataset is shown in progress, uploads and deletions.    *)
(* Datasets, external here, settles what was uploaded. As on the other     *)
(* lists the last answer to arrive is shown, however old it is.            *)
(***************************************************************************)
EXTENDS Naturals

CONSTANTS Dataset,  \* datasets
          Initial,  \* those that are there at first, settled
          MaxPolls  \* bound: loads by the timer, or the mount, under way at a time

VARIABLES
  table,     \* datasets: the rows of the workspace
  shown,     \* datasets, the state of the page
  load,      \* calls of loadDatasets: of the timer and of each upload
  upload,    \* handleFileSelected, of each dataset
  uploading, \* isUploading
  deletion,  \* handleDelete, of each dataset
  behind     \* history: a change came, or a call was lost, after what is shown was read

vars == <<table, shown, load, upload, uploading, deletion, behind>>

Timer == 1 .. MaxPolls
NoLoad == [stage |-> "none", rows |-> {}, old |-> FALSE]
Asked == [NoLoad EXCEPT !.stage = "asked"]

Init ==
  /\ table = [d \in Dataset |-> IF d \in Initial THEN "settled" ELSE "unused"]
  /\ shown = {} /\ behind = TRUE /\ uploading = FALSE
  /\ load = [l \in Timer \cup Dataset |-> IF l = 1 THEN Asked ELSE NoLoad]
  /\ upload = [d \in Dataset |-> "none"] /\ deletion = [d \in Dataset |-> "none"]

-----------------------------------------------------------------------------
(* The table *)

Rows == {[id |-> d, open |-> table[d] = "open"] : d \in {d \in Dataset : table[d] \in {"open", "settled"}}}

(* Answers that were read before are old now. *)
Outdated == [l \in DOMAIN load |-> [load[l] EXCEPT !.old = load[l].stage = "served"]]

Settle(d) ==
  /\ table[d] = "open"
  /\ table' = [table EXCEPT ![d] = "settled"]
  /\ UNCHANGED <<shown, load, upload, uploading, deletion, behind>>

(* The list is read: DatasetsService.list. *)
List(l) ==
  /\ load[l].stage = "asked"
  /\ load' = [load EXCEPT ![l] = [stage |-> "served", rows |-> Rows, old |-> FALSE]]
  /\ UNCHANGED <<table, shown, upload, uploading, deletion, behind>>

-----------------------------------------------------------------------------
(* The list of the page *)

InFlight(rows) == \E r \in rows : r.open

ShowDatasets(l) ==
  /\ load[l].stage = "served"
  /\ shown' = load[l].rows /\ behind' = load[l].old
  /\ load' = [load EXCEPT ![l] = NoLoad]
  /\ UNCHANGED <<table, upload, uploading, deletion>>

LoadFails(l) ==
  /\ load[l].stage = "asked"
  /\ load' = [load EXCEPT ![l] = NoLoad]
  /\ UNCHANGED <<table, shown, upload, uploading, deletion, behind>>

(* Every change of the list starts the interval anew; no load waits for another.*)
Poll ==
  /\ InFlight(shown)
  /\ \E l \in Timer :
       /\ load[l].stage = "none" /\ \A k \in 1 .. l - 1 : load[k].stage # "none"
       /\ load' = [load EXCEPT ![l] = Asked]
  /\ UNCHANGED <<table, shown, upload, uploading, deletion, behind>>

-----------------------------------------------------------------------------
(* Uploads *)

(* The button of an empty list is not disabled during an upload. *)
SelectFile(d) ==
  /\ ~uploading \/ shown = {}
  /\ table[d] = "unused" /\ upload[d] = "none"
  /\ uploading' = TRUE
  /\ upload' = [upload EXCEPT ![d] = "sent"]
  /\ UNCHANGED <<table, shown, load, deletion, behind>>

Upload(d) ==
  /\ upload[d] = "sent"
  /\ table' = [table EXCEPT ![d] = "open"]
  /\ upload' = [upload EXCEPT ![d] = "stored"]
  /\ load' = Outdated /\ behind' = TRUE
  /\ UNCHANGED <<shown, uploading, deletion>>

Uploaded(d) ==
  /\ upload[d] = "stored"
  /\ upload' = [upload EXCEPT ![d] = "listing"]
  /\ load' = [load EXCEPT ![d] = Asked]
  /\ UNCHANGED <<table, shown, uploading, deletion, behind>>

UploadEnds(d) ==
  /\ \/ upload[d] \in {"sent", "stored"}
     \/ upload[d] = "listing" /\ load[d].stage = "none"
  /\ uploading' = FALSE
  /\ upload' = [upload EXCEPT ![d] = "none"]
  /\ UNCHANGED <<table, shown, load, deletion, behind>>

-----------------------------------------------------------------------------
(* Deletions *)

Delete(d) ==
  /\ \E r \in shown : r.id = d
  /\ deletion[d] = "none"
  /\ deletion' = [deletion EXCEPT ![d] = "sent"]
  /\ UNCHANGED <<table, shown, load, upload, uploading, behind>>

Remove(d) ==
  /\ deletion[d] = "sent" /\ table[d] \in {"open", "settled"}
  /\ table' = [table EXCEPT ![d] = "removed"]
  /\ deletion' = [deletion EXCEPT ![d] = "removed"]
  /\ load' = Outdated
  /\ UNCHANGED <<shown, upload, uploading, behind>>

DeletedShown(d) ==
  /\ deletion[d] = "removed"
  /\ deletion' = [deletion EXCEPT ![d] = "none"]
  /\ UNCHANGED <<table, shown, load, upload, uploading, behind>>

Deleted(d) ==
  /\ deletion[d] = "removed"
  /\ shown' = {r \in shown : r.id # d}
  /\ deletion' = [deletion EXCEPT ![d] = "none"]
  /\ UNCHANGED <<table, load, upload, uploading, behind>>

(* Refused, as when it is gone already, or its answer is lost. *)
DeleteFails(d) ==
  /\ deletion[d] # "none"
  /\ behind' = (behind \/ deletion[d] = "removed")
  /\ deletion' = [deletion EXCEPT ![d] = "none"]
  /\ UNCHANGED <<table, shown, load, upload, uploading>>

-----------------------------------------------------------------------------

Next ==
  \/ Poll
  \/ \E l \in Timer \cup Dataset : List(l) \/ ShowDatasets(l) \/ LoadFails(l)
  \/ \E d \in Dataset : \/ Settle(d) \/ SelectFile(d) \/ Upload(d) \/ Uploaded(d) \/ UploadEnds(d)
                        \/ Delete(d) \/ Remove(d) \/ Deleted(d) \/ DeleteFails(d)

(* As for CrawlRunsList. *)
Fairness ==
  /\ WF_vars(Poll)
  /\ WF_vars(\E d \in Dataset : Settle(d))
  /\ SF_vars(\E l \in DOMAIN load : List(l))
  /\ WF_vars(\E l \in DOMAIN load : ShowDatasets(l))

Spec == Init /\ [][Next]_vars /\ Fairness

-----------------------------------------------------------------------------

AtRest ==
  /\ ~InFlight(shown) /\ \A l \in DOMAIN load : load[l].stage = "none"
  /\ \A d \in Dataset : upload[d] = "none" /\ deletion[d] = "none"

(* What the page has come to rest with is what there is, unless an answer      *)
(* older than an upload or a deletion came last, or the call that would have   *)
(* shown it was lost (loadDatasets shows the last answer to arrive).           *)
RestShowsAll == AtRest /\ ~behind => shown = Rows
=============================================================================
