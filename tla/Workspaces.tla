------------------------------ MODULE Workspaces ------------------------------
(***************************************************************************)
(* One workspace: who is a member of it (invite, acceptInvite,             *)
(* removeMember), and one knowledge base with its documents and the        *)
(* objects stored for them (KnowledgeBasesService, DocumentsService,       *)
(* StorageService). Requests run side by side; the database keeps the      *)
(* foreign key of documents, and nothing keeps workspace_members unique.   *)
(*                                                                         *)
(* No handler writes a role: create makes the owner, acceptInvite members. *)
(***************************************************************************)
EXTENDS Naturals, FiniteSets

CONSTANTS
  User, Owner,
  Invitation,  \* bound: invitations ever sent
  Document,    \* bound: files ever uploaded
  Req          \* requests in flight

VARIABLES
  members,     \* workspace_members: its rows
  serial,      \* the number of the last INSERT into it
  invitation,  \* invitations: whom they are for, and whether they are open
  kb,          \* the knowledge_bases row: "absent", "present" or "deleted"
  documents,   \* documents rows
  objects,     \* keys in the bucket
  request,     \* what each request in flight has read
  joins,       \* history: INSERTs into workspace_members by invitation
  doubled,     \* history: users whose acceptances overlapped
  leaked,      \* history: objects a failed statement left behind
  broken       \* history: rows a failed DELETE left behind without their object

people  == <<members, serial, invitation, joins, doubled>>
library == <<kb, documents, objects, leaked, broken>>
vars    == <<people, library, request>>

(* id 0 is the row that create inserts; a later row has the number of its INSERT *)
Founding == [id |-> 0, user |-> Owner]

Idle == [pc |-> "idle", user |-> Owner, member |-> Founding, invitation |-> {},
         documents |-> {}]

TypeOK ==
  /\ serial \in Nat /\ members \subseteq [id : 0 .. serial, user : User]
  /\ \A m, n \in members : m.id = n.id => m = n
  /\ invitation \in [Invitation ->
       [state : {"absent", "unsent", "open", "accepted", "expired"}, user : User]]
  /\ kb \in {"absent", "present", "deleted"}
  /\ documents \subseteq Document /\ objects \subseteq Document
  /\ request \in [Req ->
       [pc : {"idle", "mail", "select", "insert", "update", "remove", "count", "drop",
              "save", "record", "unstore", "delete"},
        user : User, member : [id : Nat, user : User], invitation : SUBSET Invitation, documents : SUBSET Document]]
  /\ joins \in [Invitation -> Nat] /\ doubled \subseteq User
  /\ leaked \subseteq Document /\ broken \subseteq Document

Init ==
  /\ members = {Founding} /\ serial = 0
  /\ invitation = [i \in Invitation |-> [state |-> "absent", user |-> Owner]]
  /\ kb = "absent" /\ documents = {} /\ objects = {}
  /\ request = [r \in Req |-> Idle]
  /\ joins = [i \in Invitation |-> 0]
  /\ doubled = {} /\ leaked = {} /\ broken = {}

At(r, pc) == request[r].pc = pc
Goto(r, pc) == request' = [request EXCEPT ![r].pc = pc]
End(r) == request' = [request EXCEPT ![r] = Idle]

(* WorkspaceMemberGuard and RolesGuard *)
Role(u) == IF u = Owner THEN "owner" ELSE "member"
Rows(u) == {m \in members : m.user = u}
IsMember(u) == Rows(u) # {}
Allowed(u, roles) == IsMember(u) /\ Role(u) \in roles
Managers == {"owner", "admin"}

-----------------------------------------------------------------------------
(* Members and invitations *)

Invite(r, i, u) ==
  /\ At(r, "idle") /\ Allowed(Owner, Managers)
  /\ invitation[i].state = "absent"
  /\ invitation' = [invitation EXCEPT ![i] = [state |-> "unsent", user |-> u]]
  /\ request' = [request EXCEPT ![r] = [Idle EXCEPT !.pc = "mail", !.invitation = {i}]]
  /\ UNCHANGED <<members, serial, joins, doubled, library>>

(* The token reaches its user only by mail. *)
SendInvite(r) ==
  /\ At(r, "mail")
  /\ \E i \in request[r].invitation : invitation' = [invitation EXCEPT ![i].state = "open"]
  /\ End(r)
  /\ UNCHANGED <<members, serial, joins, doubled, library>>

ExpireInvitation(i) ==
  /\ invitation[i].state = "open"
  /\ invitation' = [invitation EXCEPT ![i].state = "expired"]
  /\ UNCHANGED <<members, serial, joins, doubled, library, request>>

ReadInviteAny(r, i) ==
  /\ At(r, "idle") /\ invitation[i].state \in {"open", "accepted"}
  /\ request' = [request EXCEPT ![r] =
       [Idle EXCEPT !.pc = "select", !.user = invitation[i].user, !.invitation = {i}]]
  /\ UNCHANGED <<people, library>>

ReadInvite(r, i) ==
  /\ At(r, "idle") /\ invitation[i].state = "open"
  /\ request' = [request EXCEPT ![r] =
       [Idle EXCEPT !.pc = "select", !.user = invitation[i].user, !.invitation = {i}]]
  /\ UNCHANGED <<people, library>>

(* The transaction: its SELECT of the member ... *)
SelectMember(r) ==
  LET u == request[r].user IN
  /\ At(r, "select")
  /\ Goto(r, IF IsMember(u) THEN "update" ELSE "insert")
  /\ UNCHANGED <<people, library>>

(* ... and its INSERT and UPDATE, which commit together. *)
InsertMember(r) ==
  LET u == request[r].user IN
  /\ At(r, "insert")
  /\ members' = members \cup {[id |-> serial + 1, user |-> u]} /\ serial' = serial + 1
  /\ joins' = [i \in Invitation |-> joins[i] + IF i \in request[r].invitation THEN 1 ELSE 0]
  /\ doubled' = IF \E q \in Req \ {r} :
                     request[q].pc \in {"select", "insert"} /\ request[q].user = u
                THEN doubled \cup {u} ELSE doubled
  /\ invitation' = [i \in Invitation |-> IF i \in request[r].invitation
       THEN [invitation[i] EXCEPT !.state = "accepted"] ELSE invitation[i]]
  /\ End(r)
  /\ UNCHANGED library

AlreadyMember(r) ==
  /\ At(r, "update")
  /\ invitation' = [i \in Invitation |-> IF i \in request[r].invitation
       THEN [invitation[i] EXCEPT !.state = "accepted"] ELSE invitation[i]]
  /\ End(r)
  /\ UNCHANGED <<members, serial, joins, doubled, library>>

Owners == {u \in User : IsMember(u) /\ Role(u) = "owner"}

(* removeMember: one row of the user (LIMIT 1); the last owner is refused. *)
SelectTarget(r, m) ==
  /\ At(r, "idle") /\ Allowed(Owner, {"owner"})
  /\ Role(m.user) = "owner" => Cardinality(Owners) > 1
  /\ request' = [request EXCEPT ![r] = [Idle EXCEPT !.pc = "remove", !.member = m]]
  /\ UNCHANGED <<people, library>>

(* DELETE by the id that was read. *)
DeleteMember(r) ==
  /\ At(r, "remove")
  /\ members' = members \ {request[r].member}
  /\ End(r)
  /\ UNCHANGED <<serial, invitation, joins, doubled, library>>

-----------------------------------------------------------------------------
(* The knowledge base and its documents *)

CreateKb(r) ==
  /\ At(r, "idle") /\ Allowed(Owner, Managers) /\ kb = "absent"
  /\ kb' = "present"
  /\ UNCHANGED <<people, documents, objects, leaked, broken, request>>

(* remove: the SELECT, the count, and then the DELETE. *)
CountDocuments(r) ==
  /\ At(r, "idle") /\ Allowed(Owner, Managers)
  /\ kb = "present" /\ documents = {}
  /\ request' = [request EXCEPT ![r] = [Idle EXCEPT !.pc = "drop"]]
  /\ UNCHANGED <<people, library>>

(* documents.knowledge_base_id REFERENCES knowledge_bases, with no action. *)
Unreferenced == documents = {}

DeleteKb(r) ==
  /\ At(r, "drop")
  /\ kb' = IF Unreferenced THEN "deleted" ELSE kb
  /\ End(r)
  /\ UNCHANGED <<people, documents, objects, leaked, broken>>

(* upload: assertKbInWorkspace, save, INSERT; queueing is DocumentIngest's. *)
AssertKb(r, d) ==
  /\ At(r, "idle") /\ Allowed(Owner, Managers) /\ kb = "present"
  /\ d \notin objects \cup documents \cup leaked \cup broken
  /\ \A q \in Req : d \notin request[q].documents
  /\ request' = [request EXCEPT ![r] = [Idle EXCEPT !.pc = "save", !.documents = {d}]]
  /\ UNCHANGED <<people, library>>

Save(r) ==
  /\ At(r, "save")
  /\ objects' = objects \cup request[r].documents
  /\ Goto(r, "record")
  /\ UNCHANGED <<people, kb, documents, leaked, broken>>

(* The foreign key refuses the document of a knowledge base that is gone. *)
InsertDocument(r) ==
  /\ At(r, "record")
  /\ IF kb = "present"
     THEN documents' = documents \cup request[r].documents /\ UNCHANGED leaked
     ELSE leaked' = leaked \cup request[r].documents /\ UNCHANGED documents
  /\ End(r)
  /\ UNCHANGED <<people, kb, objects, broken>>

(* remove (one id) and removeMany (several): the rows in this knowledge base. *)
SelectDocuments(r, ids) ==
  /\ At(r, "idle") /\ Allowed(Owner, Managers) /\ ids \cap documents # {}
  /\ request' = [request EXCEPT ![r] =
       [Idle EXCEPT !.pc = "unstore", !.documents = ids \cap documents]]
  /\ UNCHANGED <<people, library>>

DeleteObjectsNot(r, failing) ==
  /\ At(r, "unstore") /\ failing = {}
  /\ Goto(r, "delete")
  /\ UNCHANGED <<people, library>>

(* storage.delete of each; a failure is logged and forgotten. *)
DeleteObjects(r, failing) ==
  /\ At(r, "unstore") /\ failing \subseteq request[r].documents \cap objects
  /\ objects' = objects \ (request[r].documents \ failing)
  /\ leaked' = leaked \cup failing
  /\ Goto(r, "delete")
  /\ UNCHANGED <<people, kb, documents, broken>>

DeleteDocuments(r) ==
  /\ At(r, "delete")
  /\ documents' = documents \ request[r].documents
  /\ broken' = broken \ request[r].documents
  /\ End(r)
  /\ UNCHANGED <<people, kb, objects, leaked>>

(* The mail, S3 or Postgres fails, or the process dies. *)
RequestFails(r) ==
  /\ ~At(r, "idle")
  /\ leaked' = IF At(r, "record") THEN leaked \cup request[r].documents ELSE leaked
  /\ broken' = IF At(r, "delete")
               THEN broken \cup (request[r].documents \cap documents) ELSE broken
  /\ End(r)
  /\ UNCHANGED <<people, kb, documents, objects>>

-----------------------------------------------------------------------------

Membership(r) ==
  \/ \E i \in Invitation : ReadInvite(r, i) \/ \E u \in User : Invite(r, i, u)
  \/ SendInvite(r) \/ SelectMember(r) \/ InsertMember(r) \/ AlreadyMember(r)
  \/ \E m \in members : SelectTarget(r, m)
  \/ DeleteMember(r)

Library(r) ==
  \/ CreateKb(r) \/ CountDocuments(r) \/ DeleteKb(r)
  \/ \E d \in Document : AssertKb(r, d)
  \/ Save(r) \/ InsertDocument(r)
  \/ \E ids \in SUBSET Document : SelectDocuments(r, ids) \/ DeleteObjects(r, ids)
  \/ DeleteDocuments(r)

Next ==
  \/ \E r \in Req : Membership(r) \/ Library(r) \/ RequestFails(r)
  \/ \E i \in Invitation : ExpireInvitation(i)

Spec == Init /\ [][Next]_vars

-----------------------------------------------------------------------------
(* What the workspace promises *)

(* An invitation makes its user a member once: after a removal it does not      *)
(* bring them back. "Member removed" means that they are out: removeMember      *)
(* deletes one row, and a user has one. Only two acceptances that overlap       *)
(* insert twice (acceptInvite reads acceptedAt before its transaction).         *)
InvitationSpentOnce ==
  /\ \A i \in Invitation : joins[i] > 1 => invitation[i].user \in doubled
  /\ \A u \in User \ doubled : Cardinality(Rows(u)) <= 1

(* Rows and stored objects match, but for what a failed statement left behind   *)
(* and what a request is in the middle of: no row of a document that cannot be  *)
(* downloaded, no object nobody can delete. A knowledge base is deleted empty:  *)
(* its count and its DELETE are two statements, and the foreign key keeps an    *)
(* upload between them from being lost.                                         *)
StoredAsRecorded ==
  /\ \A d \in documents \ (objects \cup broken) :
        \E r \in Req : At(r, "delete") /\ d \in request[r].documents
  /\ \A d \in objects \ (documents \cup leaked) :
        \E r \in Req : At(r, "record") /\ d \in request[r].documents
  /\ kb = "deleted" => documents = {}

=============================================================================
