---------------------------- MODULE Tenancy_proofs ----------------------------
(***************************************************************************)
(* For any number of requests, users, invitations, documents, tokens and   *)
(* navigations: sessions that were ended stay ended, the page's refreshes  *)
(* never look stolen and its cookie is current, codes and invitations      *)
(* are spent once, and rows and stored objects match.                      *)
(***************************************************************************)
EXTENDS Tenancy, FiniteSetTheorems, TLAPS

-----------------------------------------------------------------------------
(* The inductive invariants of the workspace *)

(* An upload's document is its own until it is recorded; what it has stored  *)
(* stays; and a removal past its calls of the storage has left in the bucket *)
(* only what could not be deleted.                                           *)
Uploading(r) == request[r].pc \in {"save", "record"}

UploadsApart ==
  \A r \in Req : Uploading(r) =>
    /\ request[r].documents \cap documents = {}
    /\ \A q \in Req \ {r} : request[r].documents \cap request[q].documents = {}
    /\ request[r].pc = "record" => request[r].documents \subseteq objects

RemovalsHaveUnstored ==
  \A r \in Req : request[r].pc = "delete" => request[r].documents \cap objects \subseteq leaked

LibraryInv == UploadsApart /\ RemovalsHaveUnstored /\ Space!StoredAsRecorded

(* An acceptance under way, of an invitation that has been sent. *)
Accepting(r) == request[r].pc \in {"select", "insert", "update"}

InvitationsInOrder ==
  \A i \in Invitation :
    /\ joins[i] > 0 => invitation[i].state = "accepted"
    /\ \A r \in Req : i \in request[r].invitation =>
         /\ invitation[i].state # "absent"
         /\ request[r].pc = "mail" =>
              /\ invitation[i].state = "unsent"
              /\ \A q \in Req \ {r} : i \notin request[q].invitation
         /\ Accepting(r) => /\ invitation[i].state # "unsent"
                            /\ request[r].user = invitation[i].user

(* An acceptance that another one of its user has overtaken is known to      *)
(* overlap; until then its user has no row, and a user not doubled has one.  *)
JoinsApart ==
  /\ \A r \in Req :
       /\ request[r].pc \in {"select", "insert"} =>
            \A i \in request[r].invitation : joins[i] > 0 => request[r].user \in doubled
       /\ request[r].pc = "insert" =>
            \/ request[r].user \in doubled
            \/ \A m \in members : m.user # request[r].user
  /\ \A i \in Invitation : joins[i] > 1 => invitation[i].user \in doubled
  /\ \A m, n \in members : m.user = n.user /\ m.user \notin doubled => m = n

PeopleInv == InvitationsInOrder /\ JoinsApart

-----------------------------------------------------------------------------
(* The workspace keeps its types *)

Requests == [pc : {"idle", "mail", "select", "insert", "update", "remove", "count", "drop",
                   "save", "record", "unstore", "delete"},
             user : User, member : [id : Nat, user : User],
             invitation : SUBSET Invitation, documents : SUBSET Document]

(* What a step of the workspace is: one action of one request, or an expiry. *)
LEMMA WorkspaceSteps ==
  ASSUME Space!Next
  PROVE  \/ \E r \in Req :
              \/ \E i \in Invitation : Space!ReadInvite(r, i)
              \/ \E i \in Invitation, u \in User : Space!Invite(r, i, u)
              \/ Space!SendInvite(r) \/ Space!SelectMember(r) \/ Space!InsertMember(r)
              \/ Space!AlreadyMember(r)
              \/ \E m \in members : Space!SelectTarget(r, m)
              \/ Space!DeleteMember(r)
              \/ Space!CreateKb(r) \/ Space!CountDocuments(r) \/ Space!DeleteKb(r)
              \/ \E d \in Document : Space!AssertKb(r, d)
              \/ Space!Save(r) \/ Space!InsertDocument(r)
              \/ \E ids \in SUBSET Document : Space!SelectDocuments(r, ids)
              \/ \E ids \in SUBSET Document : Space!DeleteObjects(r, ids)
              \/ Space!DeleteDocuments(r) \/ Space!RequestFails(r)
         \/ \E i \in Invitation : Space!ExpireInvitation(i)
  BY DEF Space!Next, Space!Membership, Space!Library

(* What a request is between two calls, and the owner's row. *)
LEMMA IdleRequest == Space!Idle \in Requests /\ Space!Founding \in [id : Nat, user : User]
  BY OwnerIsUser DEF Space!Idle, Space!Founding, Requests

(* A request that moves on, or begins with what it has read. *)
LEMMA RequestMoves ==
  ASSUME request \in [Req -> Requests], NEW r \in Req,
         NEW pc \in {"idle", "mail", "select", "insert", "update", "remove", "count",
                    "drop", "save", "record", "unstore", "delete"}
  PROVE  (Space!Goto(r, pc) \/ Space!End(r)) => request' \in [Req -> Requests]
<1> Space!Idle \in Requests
  BY IdleRequest
<1>1. ASSUME NEW q \in Requests, request' = [request EXCEPT ![r] = q]
      PROVE  request' \in [Req -> Requests]
  BY <1>1
<1>2. [request[r] EXCEPT !.pc = pc] \in Requests
  BY DEF Requests
<1> QED
  BY <1>1, <1>2 DEF Space!Goto, Space!End

(* The table of members after the INSERT of a new one. *)
LEMMA NewMemberRow ==
  ASSUME serial \in Nat, members \subseteq [id : 0 .. serial, user : User],
         \A m, n \in members : m.id = n.id => m = n, NEW u \in User,
         serial' = serial + 1,
         members' = members \cup {[id |-> serial + 1, user |-> u]}
  PROVE  /\ serial' \in Nat /\ members' \subseteq [id : 0 .. serial', user : User]
         /\ (\A m, n \in members : m.id = n.id => m = n)'
<1>1. \A m \in members : m.id \in 0 .. serial /\ m \in [id : 0 .. serial', user : User]
  OBVIOUS
<1> QED
  BY <1>1

(* Every step of a workspace keeps its variables typed. *)
LEMMA WorkspaceTypes ==
  ASSUME Space!TypeOK, Space!Next
  PROVE  Space!TypeOK'
<1> USE DEF Space!people, Space!library
<1>0. /\ request \in [Req -> Requests]
      /\ Space!Idle \in Requests /\ Space!Founding \in [id : Nat, user : User]
      /\ \A m \in members : m \in [id : Nat, user : User]
      /\ serial \in Nat /\ members \subseteq [id : 0 .. serial, user : User]
      /\ \A m, n \in members : m.id = n.id => m = n
      /\ invitation \in [Invitation ->
           [state : {"absent", "unsent", "open", "accepted", "expired"}, user : User]]
      /\ kb \in {"absent", "present", "deleted"}
      /\ documents \subseteq Document /\ objects \subseteq Document
      /\ joins \in [Invitation -> Nat] /\ doubled \subseteq User
      /\ leaked \subseteq Document /\ broken \subseteq Document
  BY IdleRequest DEF Space!TypeOK, Requests
<1>1. ASSUME NEW r \in Req, NEW q \in Requests, request' = [request EXCEPT ![r] = q]
      PROVE  request' \in [Req -> Requests]
  BY <1>0, <1>1
<1>2. ASSUME NEW r \in Req
      PROVE  /\ request[r] \in Requests
             /\ request[r].user \in User /\ request[r].documents \in SUBSET Document
             /\ request[r].invitation \in SUBSET Invitation
  BY <1>0 DEF Requests
<1>3. ASSUME /\ serial' \in Nat /\ members' \subseteq [id : 0 .. serial', user : User]
             /\ (\A m, n \in members : m.id = n.id => m = n)'
             /\ invitation' \in [Invitation ->
                  [state : {"absent", "unsent", "open", "accepted", "expired"}, user : User]]
             /\ kb' \in {"absent", "present", "deleted"}
             /\ documents' \subseteq Document /\ objects' \subseteq Document
             /\ request' \in [Req -> Requests]
             /\ joins' \in [Invitation -> Nat] /\ doubled' \subseteq User
             /\ leaked' \subseteq Document /\ broken' \subseteq Document
      PROVE  Space!TypeOK'
  BY <1>3 DEF Space!TypeOK, Requests
<1>4. ASSUME NEW r \in Req, NEW i \in Invitation, Space!ReadInvite(r, i) PROVE Space!TypeOK'
  <2>1. [Space!Idle EXCEPT !.pc = "select", !.user = invitation[i].user, !.invitation = {i}]
          \in Requests
    BY <1>0, <1>4 DEF Requests
  <2> QED
    BY <1>0, <1>1, <1>3, <1>4, <2>1 DEF Space!ReadInvite
<1>5. ASSUME NEW r \in Req, NEW i \in Invitation, NEW u \in User, Space!Invite(r, i, u)
      PROVE  Space!TypeOK'
  <2>1. [Space!Idle EXCEPT !.pc = "mail", !.invitation = {i}] \in Requests
    BY <1>0, <1>5 DEF Requests
  <2> QED
    BY <1>0, <1>1, <1>3, <1>5, <2>1 DEF Space!Invite
<1>6. ASSUME NEW r \in Req, Space!SendInvite(r) PROVE Space!TypeOK'
  BY <1>1, <1>0, <1>3, <1>6, <1>2 DEF Space!SendInvite, Space!End
<1>7. ASSUME NEW r \in Req, Space!SelectMember(r) PROVE Space!TypeOK'
  <2>1. request' \in [Req -> Requests]
    BY <1>0, <1>7, RequestMoves DEF Space!SelectMember
  <2> QED
    BY <1>0, <1>3, <1>7, <2>1 DEF Space!SelectMember
<1>8. ASSUME NEW r \in Req, Space!InsertMember(r) PROVE Space!TypeOK'
  <2>1. request' \in [Req -> Requests]
    BY <1>0, <1>8, RequestMoves DEF Space!InsertMember
  <2>2. /\ serial' \in Nat /\ members' \subseteq [id : 0 .. serial', user : User]
        /\ (\A m, n \in members : m.id = n.id => m = n)'
    BY <1>0, <1>2, <1>8, NewMemberRow DEF Space!InsertMember
  <2>3. joins' \in [Invitation -> Nat] /\ doubled' \subseteq User
    BY <1>0, <1>2, <1>8 DEF Space!InsertMember
  <2>4. invitation' \in [Invitation ->
          [state : {"absent", "unsent", "open", "accepted", "expired"}, user : User]]
    BY <1>0, <1>8 DEF Space!InsertMember
  <2> QED
    BY <1>0, <1>3, <1>8, <2>1, <2>2, <2>3, <2>4 DEF Space!InsertMember
<1>9. ASSUME NEW r \in Req, Space!AlreadyMember(r) PROVE Space!TypeOK'
  <2>1. request' \in [Req -> Requests]
    BY <1>0, <1>9, RequestMoves DEF Space!AlreadyMember
  <2>2. invitation' \in [Invitation ->
          [state : {"absent", "unsent", "open", "accepted", "expired"}, user : User]]
    BY <1>0, <1>9 DEF Space!AlreadyMember
  <2> QED
    BY <1>0, <1>3, <1>9, <2>1, <2>2 DEF Space!AlreadyMember
<1>10. ASSUME NEW r \in Req, NEW m \in members, Space!SelectTarget(r, m) PROVE Space!TypeOK'
  <2>1. [Space!Idle EXCEPT !.pc = "remove", !.member = m] \in Requests
    BY <1>0 DEF Requests
  <2> QED
    BY <1>0, <1>1, <1>3, <1>10, <2>1 DEF Space!SelectTarget
<1>11. ASSUME NEW r \in Req, Space!DeleteMember(r) PROVE Space!TypeOK'
  BY <1>1, <1>0, <1>3, <1>11 DEF Space!DeleteMember, Space!End
<1>12. ASSUME NEW r \in Req, Space!CreateKb(r) PROVE Space!TypeOK'
  BY <1>0, <1>3, <1>12 DEF Space!CreateKb
<1>13. ASSUME NEW r \in Req, Space!CountDocuments(r) PROVE Space!TypeOK'
  <2>1. [Space!Idle EXCEPT !.pc = "drop"] \in Requests
    BY <1>0 DEF Requests
  <2> QED
    BY <1>0, <1>1, <1>3, <1>13, <2>1 DEF Space!CountDocuments
<1>14. ASSUME NEW r \in Req, Space!DeleteKb(r) PROVE Space!TypeOK'
  BY <1>1, <1>0, <1>3, <1>14 DEF Space!DeleteKb, Space!End
<1>15. ASSUME NEW r \in Req, NEW d \in Document, Space!AssertKb(r, d) PROVE Space!TypeOK'
  <2>1. [Space!Idle EXCEPT !.pc = "save", !.documents = {d}] \in Requests
    BY <1>0 DEF Requests
  <2> QED
    BY <1>0, <1>1, <1>3, <1>15, <2>1 DEF Space!AssertKb
<1>16. ASSUME NEW r \in Req, Space!Save(r) PROVE Space!TypeOK'
  <2>1. request' \in [Req -> Requests]
    BY <1>0, <1>16, RequestMoves DEF Space!Save
  <2> QED
    BY <1>0, <1>2, <1>3, <1>16, <2>1 DEF Space!Save
<1>17. ASSUME NEW r \in Req, Space!InsertDocument(r) PROVE Space!TypeOK'
  BY <1>1, <1>2, <1>0, <1>3, <1>17 DEF Space!InsertDocument, Space!End
<1>18. ASSUME NEW r \in Req, NEW ids \in SUBSET Document, Space!SelectDocuments(r, ids)
       PROVE  Space!TypeOK'
  <2>1. [Space!Idle EXCEPT !.pc = "unstore", !.documents = ids \cap documents] \in Requests
    BY <1>0 DEF Requests
  <2> QED
    BY <1>0, <1>1, <1>3, <1>18, <2>1 DEF Space!SelectDocuments
<1>19. ASSUME NEW r \in Req, NEW ids \in SUBSET Document, Space!DeleteObjects(r, ids)
       PROVE  Space!TypeOK'
  <2>1. request' \in [Req -> Requests]
    BY <1>0, <1>19, RequestMoves DEF Space!DeleteObjects
  <2> QED
    BY <1>0, <1>2, <1>3, <1>19, <2>1 DEF Space!DeleteObjects
<1>20. ASSUME NEW r \in Req, Space!DeleteDocuments(r) PROVE Space!TypeOK'
  BY <1>1, <1>0, <1>3, <1>20 DEF Space!DeleteDocuments, Space!End
<1>21. ASSUME NEW r \in Req, Space!RequestFails(r) PROVE Space!TypeOK'
  BY <1>1, <1>2, <1>0, <1>3, <1>21 DEF Space!RequestFails, Space!End
<1>22. ASSUME NEW i \in Invitation, Space!ExpireInvitation(i) PROVE Space!TypeOK'
  BY <1>0, <1>3, <1>22 DEF Space!ExpireInvitation
<1> QED
  BY <1>4, <1>5, <1>6, <1>7, <1>8, <1>9, <1>10, <1>11, <1>12, <1>13, <1>14, <1>15, <1>16,
     <1>17, <1>18, <1>19, <1>20, <1>21, <1>22, WorkspaceSteps

-----------------------------------------------------------------------------
(* Rows and objects *)

(* What a step of one request does to the table of requests. *)
Becomes(r, pc, ds) ==
  /\ request'[r].pc = pc /\ request'[r].documents = ds
  /\ \A q \in Req \ {r} : request'[q] = request[q]

(* An action of the workspace moves its request and no other. *)
LEMMA OneRequestMoves ==
  ASSUME Space!TypeOK, NEW r \in Req
  PROVE  /\ \A pc : Space!Goto(r, pc) => Becomes(r, pc, request[r].documents)
         /\ Space!End(r) => Becomes(r, "idle", {})
<1>1. request \in [Req -> Requests]
  BY DEF Space!TypeOK, Requests
<1>2. ASSUME NEW pc, Space!Goto(r, pc) PROVE Becomes(r, pc, request[r].documents)
  BY <1>1, <1>2 DEF Becomes, Space!Goto, Requests
<1>3. ASSUME Space!End(r) PROVE Becomes(r, "idle", {})
  BY <1>1, <1>3 DEF Becomes, Space!End, Space!Idle
<1> QED
  BY <1>2, <1>3

(* A step that writes neither rows nor objects, of a request that is at no   *)
(* statement the invariant relies on, and holds no document but old ones.    *)
LEMMA LibraryAside ==
  ASSUME LibraryInv, UNCHANGED <<kb, documents, objects, leaked, broken>>,
         NEW r \in Req, NEW pc, NEW ds, Becomes(r, pc, ds),
         request[r].pc \notin {"record", "delete"}, pc \notin {"save", "record", "delete"},
         ds \subseteq request[r].documents \cup documents
  PROVE  LibraryInv'
<1> USE DEF LibraryInv, Becomes
<1>1. UploadsApart'
  BY DEF UploadsApart, Uploading
<1>2. RemovalsHaveUnstored'
  BY DEF RemovalsHaveUnstored
<1>3. Space!StoredAsRecorded'
  BY DEF Space!StoredAsRecorded, Space!At
<1> QED
  BY <1>1, <1>2, <1>3

(* upload, past its check of the knowledge base: the document is new. *)
LEMMA UploadBegins ==
  ASSUME LibraryInv, NEW r \in Req, NEW d \in Document, Space!AssertKb(r, d),
         Becomes(r, "save", {d})
  PROVE  LibraryInv'
<1> USE DEF LibraryInv, Becomes, Space!AssertKb, Space!At, Space!library
<1>1. UploadsApart'
  BY DEF UploadsApart, Uploading
<1>2. RemovalsHaveUnstored'
  BY DEF RemovalsHaveUnstored
<1>3. Space!StoredAsRecorded'
  BY DEF Space!StoredAsRecorded
<1> QED
  BY <1>1, <1>2, <1>3

(* upload stores the object before the row that names it. *)
LEMMA UploadSaves ==
  ASSUME LibraryInv, NEW r \in Req, Space!Save(r), Becomes(r, "record", request[r].documents)
  PROVE  LibraryInv'
<1> USE DEF LibraryInv, Becomes, Space!Save, Space!At
<1>1. UploadsApart'
  BY DEF UploadsApart, Uploading
<1>2. RemovalsHaveUnstored'
  BY DEF RemovalsHaveUnstored, UploadsApart, Uploading
<1>3. Space!StoredAsRecorded'
  BY DEF Space!StoredAsRecorded
<1> QED
  BY <1>1, <1>2, <1>3

(* upload inserts the row of the object it has stored. *)
LEMMA UploadRecords ==
  ASSUME LibraryInv, NEW r \in Req, Space!InsertDocument(r), Becomes(r, "idle", {})
  PROVE  LibraryInv'
<1> USE DEF LibraryInv, Becomes, Space!InsertDocument, Space!At
<1>1. UploadsApart'
  BY DEF UploadsApart, Uploading
<1>2. RemovalsHaveUnstored'
  BY DEF RemovalsHaveUnstored
<1>3. Space!StoredAsRecorded'
  BY DEF Space!StoredAsRecorded, UploadsApart, Uploading
<1> QED
  BY <1>1, <1>2, <1>3

(* The storage is asked for the documents of a removal; they were not being  *)
(* uploaded, so no upload loses the object it has just stored.               *)
LEMMA RemovalUnstores ==
  ASSUME LibraryInv, NEW r \in Req, NEW ids \in SUBSET Document, Space!DeleteObjects(r, ids),
         Becomes(r, "delete", request[r].documents)
  PROVE  LibraryInv'
<1> USE DEF LibraryInv, Becomes, Space!DeleteObjects, Space!At
<1>1. UploadsApart'
  BY DEF UploadsApart, Uploading
<1>2. RemovalsHaveUnstored'
  BY DEF RemovalsHaveUnstored
<1>3. Space!StoredAsRecorded'
  BY DEF Space!StoredAsRecorded
<1> QED
  BY <1>1, <1>2, <1>3

(* remove deletes the rows whose objects it has deleted, or failed to. *)
LEMMA RemovalDeletes ==
  ASSUME LibraryInv, NEW r \in Req, Space!DeleteDocuments(r), Becomes(r, "idle", {})
  PROVE  LibraryInv'
<1> USE DEF LibraryInv, Becomes, Space!DeleteDocuments, Space!At
<1>1. UploadsApart'
  BY DEF UploadsApart, Uploading
<1>2. RemovalsHaveUnstored'
  BY DEF RemovalsHaveUnstored
<1>3. Space!StoredAsRecorded'
  BY DEF Space!StoredAsRecorded, RemovalsHaveUnstored
<1> QED
  BY <1>1, <1>2, <1>3

(* A statement that fails leaves what the histories say it leaves. *)
LEMMA FailureIsRecorded ==
  ASSUME LibraryInv, NEW r \in Req, Space!RequestFails(r), Becomes(r, "idle", {})
  PROVE  LibraryInv'
<1> USE DEF LibraryInv, Becomes, Space!RequestFails, Space!At
<1>1. UploadsApart'
  BY DEF UploadsApart, Uploading
<1>2. RemovalsHaveUnstored'
  BY DEF RemovalsHaveUnstored
<1>3. Space!StoredAsRecorded'
  BY DEF Space!StoredAsRecorded
<1> QED
  BY <1>1, <1>2, <1>3

(* A knowledge base goes only while no document row refers to it. *)
LEMMA KbDeletedEmpty ==
  ASSUME LibraryInv, NEW r \in Req, Space!DeleteKb(r), Becomes(r, "idle", {})
  PROVE  LibraryInv'
<1> USE DEF LibraryInv, Becomes, Space!DeleteKb, Space!Unreferenced, Space!At
<1>1. UploadsApart'
  BY DEF UploadsApart, Uploading
<1>2. RemovalsHaveUnstored'
  BY DEF RemovalsHaveUnstored
<1>3. Space!StoredAsRecorded'
  BY DEF Space!StoredAsRecorded
<1> QED
  BY <1>1, <1>2, <1>3

(* Every step keeps what the library's requests know of its objects. *)
LEMMA LibraryKept ==
  ASSUME Space!TypeOK, LibraryInv, Space!Next
  PROVE  LibraryInv'
<1> USE DEF Space!library, Space!people, Space!At
<1>0. request \in [Req -> Requests]
  BY DEF Space!TypeOK, Requests
<1>2. ASSUME NEW r \in Req, NEW pc, Space!Goto(r, pc)
      PROVE  Becomes(r, pc, request[r].documents)
  BY <1>2, OneRequestMoves
<1>3. ASSUME NEW r \in Req, Space!End(r)
      PROVE  Becomes(r, "idle", {})
  BY <1>3, OneRequestMoves
<1>4. ASSUME NEW r \in Req, NEW i \in Invitation, Space!ReadInvite(r, i) PROVE LibraryInv'
  <2>1. Becomes(r, "select", {})
    BY <1>0, <1>4 DEF Becomes, Space!ReadInvite, Space!Idle
  <2> QED
    BY <1>4, <2>1, LibraryAside DEF Space!ReadInvite
<1>5. ASSUME NEW r \in Req, NEW i \in Invitation, NEW u \in User, Space!Invite(r, i, u)
      PROVE  LibraryInv'
  <2>1. Becomes(r, "mail", {})
    BY <1>0, <1>5 DEF Becomes, Space!Invite, Space!Idle
  <2> QED
    BY <1>5, <2>1, LibraryAside DEF Space!Invite
<1>6. ASSUME NEW r \in Req, Space!SendInvite(r) PROVE LibraryInv'
  BY <1>3, <1>6, LibraryAside DEF Space!SendInvite
<1>7. ASSUME NEW r \in Req, Space!SelectMember(r) PROVE LibraryInv'
  BY <1>2, <1>7, LibraryAside DEF Space!SelectMember
<1>8. ASSUME NEW r \in Req, Space!InsertMember(r) PROVE LibraryInv'
  BY <1>3, <1>8, LibraryAside DEF Space!InsertMember
<1>9. ASSUME NEW r \in Req, Space!AlreadyMember(r) PROVE LibraryInv'
  BY <1>3, <1>9, LibraryAside DEF Space!AlreadyMember
<1>10. ASSUME NEW r \in Req, NEW m \in members, Space!SelectTarget(r, m) PROVE LibraryInv'
  <2>1. Becomes(r, "remove", {})
    BY <1>0, <1>10 DEF Becomes, Space!SelectTarget, Space!Idle
  <2> QED
    BY <1>10, <2>1, LibraryAside DEF Space!SelectTarget
<1>11. ASSUME NEW r \in Req, Space!DeleteMember(r) PROVE LibraryInv'
  BY <1>3, <1>11, LibraryAside DEF Space!DeleteMember
<1>12. ASSUME NEW r \in Req, Space!CreateKb(r) PROVE LibraryInv'
  BY <1>12 DEF Space!CreateKb, LibraryInv, UploadsApart, Uploading, RemovalsHaveUnstored,
               Space!StoredAsRecorded
<1>13. ASSUME NEW r \in Req, Space!CountDocuments(r) PROVE LibraryInv'
  <2>1. Becomes(r, "drop", {})
    BY <1>0, <1>13 DEF Becomes, Space!CountDocuments, Space!Idle
  <2> QED
    BY <1>13, <2>1, LibraryAside DEF Space!CountDocuments
<1>14. ASSUME NEW r \in Req, Space!DeleteKb(r) PROVE LibraryInv'
  BY <1>3, <1>14, KbDeletedEmpty DEF Space!DeleteKb
<1>15. ASSUME NEW r \in Req, NEW d \in Document, Space!AssertKb(r, d) PROVE LibraryInv'
  <2>1. Becomes(r, "save", {d})
    BY <1>0, <1>15 DEF Becomes, Space!AssertKb, Space!Idle
  <2> QED
    BY <1>15, <2>1, UploadBegins
<1>16. ASSUME NEW r \in Req, Space!Save(r) PROVE LibraryInv'
  BY <1>2, <1>16, UploadSaves DEF Space!Save
<1>17. ASSUME NEW r \in Req, Space!InsertDocument(r) PROVE LibraryInv'
  BY <1>3, <1>17, UploadRecords DEF Space!InsertDocument
<1>18. ASSUME NEW r \in Req, NEW ids \in SUBSET Document, Space!SelectDocuments(r, ids)
       PROVE  LibraryInv'
  <2>1. Becomes(r, "unstore", ids \cap documents)
    BY <1>0, <1>18 DEF Becomes, Space!SelectDocuments, Space!Idle
  <2> QED
    BY <1>18, <2>1, LibraryAside DEF Space!SelectDocuments
<1>19. ASSUME NEW r \in Req, NEW ids \in SUBSET Document, Space!DeleteObjects(r, ids)
       PROVE  LibraryInv'
  BY <1>2, <1>19, RemovalUnstores DEF Space!DeleteObjects
<1>20. ASSUME NEW r \in Req, Space!DeleteDocuments(r) PROVE LibraryInv'
  BY <1>3, <1>20, RemovalDeletes DEF Space!DeleteDocuments
<1>21. ASSUME NEW r \in Req, Space!RequestFails(r) PROVE LibraryInv'
  BY <1>3, <1>21, FailureIsRecorded DEF Space!RequestFails
<1>22. ASSUME NEW i \in Invitation, Space!ExpireInvitation(i) PROVE LibraryInv'
  BY <1>22 DEF Space!ExpireInvitation, LibraryInv, UploadsApart, Uploading,
               RemovalsHaveUnstored, Space!StoredAsRecorded
<1> QED
  BY <1>4, <1>5, <1>6, <1>7, <1>8, <1>9, <1>10, <1>11, <1>12, <1>13, <1>14, <1>15, <1>16,
     <1>17, <1>18, <1>19, <1>20, <1>21, <1>22, WorkspaceSteps

-----------------------------------------------------------------------------
(* Members and invitations *)

(* A step that writes nothing about people, of a request that accepts none. *)
LEMMA PeopleAside ==
  ASSUME PeopleInv, UNCHANGED <<members, serial, invitation, joins, doubled>>,
         NEW r \in Req, \A q \in Req \ {r} : request'[q] = request[q],
         request'[r].invitation \subseteq request[r].invitation,
         request'[r].pc \notin {"mail", "select", "insert", "update"}
  PROVE  PeopleInv'
<1>1. InvitationsInOrder'
  BY DEF PeopleInv, InvitationsInOrder, Accepting
<1>2. JoinsApart'
  BY DEF PeopleInv, JoinsApart
<1> QED
  BY <1>1, <1>2 DEF PeopleInv

(* A request that ends, or goes on about documents, concerns no member. *)
LEMMA AsideByMove ==
  ASSUME Space!TypeOK, PeopleInv, UNCHANGED <<members, serial, invitation, joins, doubled>>,
         NEW r \in Req,
         Space!End(r) \/ \E pc \in {"drop", "save", "record", "unstore", "delete"} : Space!Goto(r, pc)
  PROVE  PeopleInv'
<1>1. request \in [Req -> Requests]
  BY DEF Space!TypeOK, Requests
<1>2. /\ \A q \in Req \ {r} : request'[q] = request[q]
      /\ request'[r].invitation \subseteq request[r].invitation
      /\ request'[r].pc \notin {"mail", "select", "insert", "update"}
  BY <1>1 DEF Space!End, Space!Goto, Space!Idle, Requests
<1> QED
  BY <1>2, PeopleAside

(* What a request holds that has just read an open invitation. *)
LEMMA InvitationRead ==
  ASSUME Space!TypeOK, PeopleInv, NEW r \in Req, NEW i \in Invitation, Space!ReadInvite(r, i)
  PROVE  PeopleInv'
<1> USE DEF Space!ReadInvite, Space!At, Space!people
<1>1. request \in [Req -> Requests] /\ joins \in [Invitation -> Nat]
  BY DEF Space!TypeOK, Requests
<1>2. /\ \A q \in Req \ {r} : request'[q] = request[q]
      /\ request'[r].pc = "select" /\ request'[r].user = invitation[i].user
      /\ request'[r].invitation = {i}
  BY <1>1 DEF Space!Idle
<1>3. ~(joins[i] > 0)
  BY DEF PeopleInv, InvitationsInOrder
<1>4. InvitationsInOrder'
  BY <1>2 DEF PeopleInv, InvitationsInOrder, Accepting
<1>5. JoinsApart'
  BY <1>2, <1>3 DEF PeopleInv, JoinsApart
<1> QED
  BY <1>4, <1>5 DEF PeopleInv

(* A new invitation is its own request's alone. *)
LEMMA InvitationMade ==
  ASSUME Space!TypeOK, PeopleInv, NEW r \in Req, NEW i \in Invitation, NEW u \in User,
         Space!Invite(r, i, u)
  PROVE  PeopleInv'
<1> USE DEF Space!Invite, Space!At, Space!people
<1>1. /\ request \in [Req -> Requests] /\ joins \in [Invitation -> Nat]
      /\ invitation \in [Invitation ->
           [state : {"absent", "unsent", "open", "accepted", "expired"}, user : User]]
  BY DEF Space!TypeOK, Requests
<1>2. /\ \A q \in Req \ {r} : request'[q] = request[q]
      /\ request'[r].pc = "mail" /\ request'[r].invitation = {i}
  BY <1>1 DEF Space!Idle
<1>3. /\ invitation'[i].state = "unsent"
      /\ \A j \in Invitation \ {i} : invitation'[j] = invitation[j]
  BY <1>1
<1>4. ~(joins[i] > 0) /\ \A q \in Req : i \notin request[q].invitation
  BY DEF PeopleInv, InvitationsInOrder
<1>5. InvitationsInOrder'
  BY <1>2, <1>3, <1>4 DEF PeopleInv, InvitationsInOrder, Accepting
<1>6. JoinsApart'
  BY <1>1, <1>2, <1>3, <1>4 DEF PeopleInv, JoinsApart
<1> QED
  BY <1>5, <1>6 DEF PeopleInv

(* The invitation that is mailed is one no other request holds. *)
LEMMA InvitationMailed ==
  ASSUME Space!TypeOK, PeopleInv, NEW r \in Req, Space!SendInvite(r)
  PROVE  PeopleInv'
<1> USE DEF Space!SendInvite, Space!At
<1>1. /\ request \in [Req -> Requests] /\ joins \in [Invitation -> Nat]
      /\ invitation \in [Invitation ->
           [state : {"absent", "unsent", "open", "accepted", "expired"}, user : User]]
  BY DEF Space!TypeOK, Requests
<1>2. PICK i \in request[r].invitation : invitation' = [invitation EXCEPT ![i].state = "open"]
  OBVIOUS
<1>3. /\ i \in Invitation /\ invitation'[i].state = "open"
      /\ invitation'[i].user = invitation[i].user
      /\ \A j \in Invitation \ {i} : invitation'[j] = invitation[j]
  BY <1>1, <1>2 DEF Requests
<1>4. /\ \A q \in Req \ {r} : request'[q] = request[q]
      /\ request'[r].pc = "idle" /\ request'[r].invitation = {}
  BY <1>1 DEF Space!End, Space!Idle
<1>5. invitation[i].state = "unsent" /\ \A q \in Req \ {r} : i \notin request[q].invitation
  BY <1>3 DEF PeopleInv, InvitationsInOrder
<1>6. InvitationsInOrder'
  BY <1>3, <1>4, <1>5 DEF PeopleInv, InvitationsInOrder, Accepting
<1>7. JoinsApart'
  <2>1. \A j \in Invitation : invitation'[j].user = invitation[j].user
    BY <1>3
  <2> QED
    BY <1>4, <2>1 DEF PeopleInv, JoinsApart
<1> QED
  BY <1>6, <1>7 DEF PeopleInv

(* An invitation that expires keeps its user and what was joined by it. *)
LEMMA InvitationExpires ==
  ASSUME Space!TypeOK, PeopleInv, NEW i \in Invitation, Space!ExpireInvitation(i)
  PROVE  PeopleInv'
<1> USE DEF Space!ExpireInvitation
<1>1. invitation \in [Invitation ->
        [state : {"absent", "unsent", "open", "accepted", "expired"}, user : User]]
  BY DEF Space!TypeOK
<1>2. /\ invitation'[i].state = "expired"
      /\ \A j \in Invitation : invitation'[j].user = invitation[j].user
      /\ \A j \in Invitation \ {i} : invitation'[j] = invitation[j]
  BY <1>1
<1>3. InvitationsInOrder'
  BY <1>2 DEF PeopleInv, InvitationsInOrder, Accepting
<1>4. JoinsApart'
  BY <1>2 DEF PeopleInv, JoinsApart
<1> QED
  BY <1>3, <1>4 DEF PeopleInv

(* acceptInvite has read that its user is no member. *)
LEMMA MemberSelected ==
  ASSUME Space!TypeOK, PeopleInv, NEW r \in Req, Space!SelectMember(r)
  PROVE  PeopleInv'
<1> USE DEF Space!SelectMember, Space!At, Space!people
<1>1. request \in [Req -> Requests]
  BY DEF Space!TypeOK, Requests
<1>2. /\ \A q \in Req \ {r} : request'[q] = request[q]
      /\ request'[r].user = request[r].user /\ request'[r].invitation = request[r].invitation
      /\ request'[r].pc = IF Space!IsMember(request[r].user) THEN "update" ELSE "insert"
  BY <1>1 DEF Space!Goto, Requests
<1>3. ~Space!IsMember(request[r].user) => \A m \in members : m.user # request[r].user
  BY DEF Space!IsMember, Space!Rows
<1>4. InvitationsInOrder'
  BY <1>2 DEF PeopleInv, InvitationsInOrder, Accepting
<1>5. JoinsApart'
  BY <1>2, <1>3 DEF PeopleInv, JoinsApart
<1> QED
  BY <1>4, <1>5 DEF PeopleInv

(* An invitation that a request accepts was sent, and is not being sent. *)
LEMMA InvitationAccepted ==
  ASSUME Space!TypeOK, PeopleInv, NEW r \in Req, Accepting(r), Space!End(r),
         invitation' = [i \in Invitation |-> IF i \in request[r].invitation
           THEN [invitation[i] EXCEPT !.state = "accepted"] ELSE invitation[i]],
         \A i \in Invitation \ request[r].invitation : joins'[i] = joins[i]
  PROVE  /\ InvitationsInOrder'
         /\ \A i \in Invitation : invitation'[i].user = invitation[i].user
         /\ \A q \in Req \ {r} : request'[q] = request[q]
         /\ request'[r].pc = "idle" /\ request'[r].invitation = {}
<1>1. /\ request \in [Req -> Requests]
      /\ invitation \in [Invitation ->
           [state : {"absent", "unsent", "open", "accepted", "expired"}, user : User]]
  BY DEF Space!TypeOK, Requests
<1>2. /\ \A i \in request[r].invitation \cap Invitation :
           invitation'[i].state = "accepted" /\ invitation'[i].user = invitation[i].user
      /\ \A i \in Invitation \ request[r].invitation : invitation'[i] = invitation[i]
  BY <1>1
<1>3. /\ \A q \in Req \ {r} : request'[q] = request[q]
      /\ request'[r].pc = "idle" /\ request'[r].invitation = {}
  BY <1>1 DEF Space!End, Space!Idle
<1>4. InvitationsInOrder'
  BY <1>2, <1>3 DEF PeopleInv, InvitationsInOrder, Accepting
<1> QED
  BY <1>2, <1>3, <1>4

(* The INSERT of an acceptance: an acceptance of the same user that it       *)
(* overtakes makes that user doubled, and no other one can be behind it.     *)
LEMMA MemberInserted ==
  ASSUME Space!TypeOK, PeopleInv, NEW r \in Req, Space!InsertMember(r)
  PROVE  PeopleInv'
<1> DEFINE u == request[r].user
<1> USE DEF Space!At
<1>1. joins \in [Invitation -> Nat] /\ request[r].pc = "insert" /\ Accepting(r)
  BY DEF Space!TypeOK, Space!InsertMember, Accepting
<1>2. /\ InvitationsInOrder'
      /\ \A i \in Invitation : invitation'[i].user = invitation[i].user
      /\ \A q \in Req \ {r} : request'[q] = request[q]
      /\ request'[r].pc = "idle" /\ request'[r].invitation = {}
  <2>1. \A i \in Invitation \ request[r].invitation : joins'[i] = joins[i]
    BY <1>1 DEF Space!InsertMember
  <2> QED
    BY <1>1, <2>1, InvitationAccepted DEF Space!InsertMember
<1>3. /\ doubled \subseteq doubled'
      /\ \A q \in Req \ {r} :
           request[q].pc \in {"select", "insert"} /\ request[q].user = u => u \in doubled'
  BY DEF Space!InsertMember
<1>4. /\ \A m \in members' : m \in members \/ m = [id |-> serial + 1, user |-> u]
      /\ \A i \in Invitation \ request[r].invitation : joins'[i] = joins[i]
      /\ \A i \in Invitation : joins'[i] > 1 /\ i \in request[r].invitation => joins[i] > 0
  BY <1>1 DEF Space!InsertMember
<1>5. \A q \in Req : Accepting(q) =>
        \A i \in request[q].invitation \cap Invitation : invitation[i].user = request[q].user
  BY DEF PeopleInv, InvitationsInOrder
<1>6. \A q \in Req : request[q].invitation \subseteq Invitation
  BY DEF Space!TypeOK
<1> HIDE DEF u
<1>7. u \in doubled \/ \A m \in members : m.user # u
  BY <1>1 DEF PeopleInv, JoinsApart, u
<1>8. ASSUME NEW q \in Req, request'[q].pc \in {"select", "insert"}
      PROVE  \A i \in request'[q].invitation : joins'[i] > 0 => request'[q].user \in doubled'
  <2>1. q # r /\ request'[q] = request[q] /\ Accepting(q)
    BY <1>2, <1>8 DEF Accepting
  <2>2. CASE request[q].user = u
    BY <1>3, <1>8, <2>1, <2>2
  <2>3. CASE request[q].user # u
    <3>1. \A i \in request[q].invitation : i \in Invitation \ request[r].invitation
      BY <1>1, <1>5, <1>6, <2>1, <2>3 DEF u
    <3> QED
      BY <1>3, <1>4, <1>8, <2>1, <3>1 DEF PeopleInv, JoinsApart
  <2> QED
    BY <2>2, <2>3
<1>9. ASSUME NEW q \in Req, request'[q].pc = "insert"
      PROVE  request'[q].user \in doubled' \/ \A m \in members' : m.user # request'[q].user
  <2>1. q # r /\ request'[q] = request[q] /\ request[q].pc = "insert"
    BY <1>2, <1>9
  <2>2. request[q].user \in doubled \/ \A m \in members : m.user # request[q].user
    BY <2>1 DEF PeopleInv, JoinsApart
  <2>3. request[q].user = u => u \in doubled'
    BY <1>3, <2>1
  <2> QED
    BY <1>3, <1>4, <2>1, <2>2, <2>3
<1>10. ASSUME NEW i \in Invitation, joins'[i] > 1 PROVE invitation'[i].user \in doubled'
  <2>1. CASE i \in request[r].invitation
    <3>1. invitation[i].user = u /\ joins[i] > 0
      BY <1>1, <1>4, <1>5, <1>10, <2>1 DEF u
    <3>2. u \in doubled
      BY <1>1, <2>1, <3>1 DEF PeopleInv, JoinsApart, u
    <3> QED
      BY <1>2, <1>3, <3>1, <3>2
  <2>2. CASE i \notin request[r].invitation
    BY <1>2, <1>3, <1>4, <1>10, <2>2 DEF PeopleInv, JoinsApart
  <2> QED
    BY <2>1, <2>2
<1>11. ASSUME NEW m \in members', NEW n \in members', m.user = n.user, m.user \notin doubled'
       PROVE  m = n
  <2>1. CASE m \in members /\ n \in members
    BY <1>3, <1>11, <2>1 DEF PeopleInv, JoinsApart
  <2>2. CASE m \notin members \/ n \notin members
    <3>1. m.user = u /\ u \notin doubled
      BY <1>3, <1>4, <1>11, <2>2
    <3>2. m \notin members /\ n \notin members
      BY <1>7, <1>11, <3>1
    <3> QED
      BY <1>4, <3>2
  <2> QED
    BY <2>1, <2>2
<1>12. JoinsApart'
  BY <1>8, <1>9, <1>10, <1>11 DEF JoinsApart
<1> QED
  BY <1>2, <1>12 DEF PeopleInv

(* acceptInvite of a user who is a member already spends the invitation. *)
LEMMA MemberAlready ==
  ASSUME Space!TypeOK, PeopleInv, NEW r \in Req, Space!AlreadyMember(r)
  PROVE  PeopleInv'
<1>1. Accepting(r)
  BY DEF Space!AlreadyMember, Space!At, Accepting
<1>2. /\ InvitationsInOrder'
      /\ \A i \in Invitation : invitation'[i].user = invitation[i].user
      /\ \A q \in Req \ {r} : request'[q] = request[q]
      /\ request'[r].pc = "idle" /\ request'[r].invitation = {}
  BY <1>1, InvitationAccepted DEF Space!AlreadyMember
<1>3. JoinsApart'
  BY <1>2 DEF PeopleInv, JoinsApart, Space!AlreadyMember
<1> QED
  BY <1>2, <1>3 DEF PeopleInv

(* A member's row goes; no acceptance under way counted on it. *)
LEMMA MemberDeleted ==
  ASSUME Space!TypeOK, PeopleInv, NEW r \in Req, Space!DeleteMember(r)
  PROVE  PeopleInv'
<1> USE DEF Space!DeleteMember
<1>1. request \in [Req -> Requests]
  BY DEF Space!TypeOK, Requests
<1>2. /\ \A q \in Req \ {r} : request'[q] = request[q]
      /\ request'[r].pc = "idle" /\ request'[r].invitation = {}
  BY <1>1 DEF Space!End, Space!Idle
<1>3. InvitationsInOrder'
  BY <1>2 DEF PeopleInv, InvitationsInOrder, Accepting
<1>4. JoinsApart'
  BY <1>2 DEF PeopleInv, JoinsApart
<1> QED
  BY <1>3, <1>4 DEF PeopleInv

(* Every step keeps invitations in order and joins apart. *)
LEMMA PeopleKept ==
  ASSUME Space!TypeOK, PeopleInv, Space!Next
  PROVE  PeopleInv'
<1> USE DEF Space!people, Space!library
<1>0. request \in [Req -> Requests]
  BY DEF Space!TypeOK, Requests
<1>10. ASSUME NEW r \in Req, NEW m \in members, Space!SelectTarget(r, m) PROVE PeopleInv'
  <2>1. /\ \A q \in Req \ {r} : request'[q] = request[q]
        /\ request'[r].invitation = {} /\ request'[r].pc = "remove"
    BY <1>0, <1>10 DEF Space!SelectTarget, Space!Idle
  <2> QED
    BY <1>10, <2>1, PeopleAside DEF Space!SelectTarget
<1>12. ASSUME NEW r \in Req, Space!CreateKb(r) PROVE PeopleInv'
  BY <1>12 DEF Space!CreateKb, PeopleInv, InvitationsInOrder, Accepting, JoinsApart
<1>13. ASSUME NEW r \in Req, Space!CountDocuments(r) PROVE PeopleInv'
  <2>1. /\ \A q \in Req \ {r} : request'[q] = request[q]
        /\ request'[r].invitation = {} /\ request'[r].pc = "drop"
    BY <1>0, <1>13 DEF Space!CountDocuments, Space!Idle
  <2> QED
    BY <1>13, <2>1, PeopleAside DEF Space!CountDocuments
<1>14. ASSUME NEW r \in Req, Space!DeleteKb(r) PROVE PeopleInv'
  BY <1>14, AsideByMove DEF Space!DeleteKb
<1>15. ASSUME NEW r \in Req, NEW d \in Document, Space!AssertKb(r, d) PROVE PeopleInv'
  <2>1. /\ \A q \in Req \ {r} : request'[q] = request[q]
        /\ request'[r].invitation = {} /\ request'[r].pc = "save"
    BY <1>0, <1>15 DEF Space!AssertKb, Space!Idle
  <2> QED
    BY <1>15, <2>1, PeopleAside DEF Space!AssertKb
<1>16. ASSUME NEW r \in Req, Space!Save(r) PROVE PeopleInv'
  BY <1>16, AsideByMove DEF Space!Save
<1>17. ASSUME NEW r \in Req, Space!InsertDocument(r) PROVE PeopleInv'
  BY <1>17, AsideByMove DEF Space!InsertDocument
<1>18. ASSUME NEW r \in Req, NEW ids \in SUBSET Document, Space!SelectDocuments(r, ids)
       PROVE  PeopleInv'
  <2>1. /\ \A q \in Req \ {r} : request'[q] = request[q]
        /\ request'[r].invitation = {} /\ request'[r].pc = "unstore"
    BY <1>0, <1>18 DEF Space!SelectDocuments, Space!Idle
  <2> QED
    BY <1>18, <2>1, PeopleAside DEF Space!SelectDocuments
<1>19. ASSUME NEW r \in Req, NEW ids \in SUBSET Document, Space!DeleteObjects(r, ids)
       PROVE  PeopleInv'
  BY <1>19, AsideByMove DEF Space!DeleteObjects
<1>20. ASSUME NEW r \in Req, Space!DeleteDocuments(r) PROVE PeopleInv'
  BY <1>20, AsideByMove DEF Space!DeleteDocuments
<1>21. ASSUME NEW r \in Req, Space!RequestFails(r) PROVE PeopleInv'
  BY <1>21, AsideByMove DEF Space!RequestFails
<1> QED
  BY <1>10, <1>12, <1>13, <1>14, <1>15, <1>16, <1>17, <1>18, <1>19, <1>20, <1>21,
     InvitationRead, InvitationMade, InvitationMailed, InvitationExpires, MemberSelected,
     MemberInserted, MemberAlready, MemberDeleted, WorkspaceSteps

(* The instances count the elements of a set as FiniteSets does. *)
LEMMA SameCardinality ==
  \A S : Space!Cardinality(S) = Cardinality(S) /\ Auth!Cardinality(S) = Cardinality(S)
  BY DEF Space!Cardinality, Auth!Cardinality, Cardinality

(* A user whose acceptances never overlapped has one row at most. *)
LEMMA SpentOnce ==
  ASSUME PeopleInv
  PROVE  Space!InvitationSpentOnce
<1>1. ASSUME NEW u \in User \ doubled
      PROVE  Cardinality(Space!Rows(u)) <= 1
  <2>1. CASE Space!Rows(u) = {}
    BY <2>1, FS_EmptySet
  <2>2. CASE Space!Rows(u) # {}
    <3>1. PICK m : m \in Space!Rows(u)
      BY <2>2
    <3>2. Space!Rows(u) = {m}
      BY <3>1 DEF Space!Rows, PeopleInv, JoinsApart
    <3> QED
      BY <3>2, FS_Singleton
  <2> QED
    BY <2>1, <2>2
<1> QED
  BY <1>1, SameCardinality DEF Space!InvitationSpentOnce, PeopleInv, JoinsApart

SpaceInv == Space!TypeOK /\ LibraryInv /\ PeopleInv

(* The workspace as it is founded. *)
LEMMA WorkspaceBegins ==
  ASSUME Space!Init
  PROVE  SpaceInv
<1> USE DEF Space!Init
<1>1. /\ \A r \in Req : request[r] = Space!Idle /\ request[r].pc = "idle"
                           /\ request[r].invitation = {} /\ request[r].documents = {}
      /\ Space!Idle \in Requests
      /\ \A i \in Invitation : joins[i] = 0
  BY IdleRequest DEF Space!Idle
<1>2. Space!TypeOK
  BY <1>1, OwnerIsUser DEF Space!TypeOK, Requests, Space!Founding
<1>3. LibraryInv
  BY <1>1 DEF LibraryInv, UploadsApart, Uploading, RemovalsHaveUnstored,
              Space!StoredAsRecorded
<1>4. PeopleInv
  BY <1>1 DEF PeopleInv, InvitationsInOrder, JoinsApart
<1> QED
  BY <1>2, <1>3, <1>4 DEF SpaceInv

(* Every step of the workspace, and every step of the accounts. *)
LEMMA WorkspaceKept ==
  ASSUME SpaceInv, [Space!Next]_spaceVars
  PROVE  SpaceInv'
<1>1. CASE Space!Next
  BY <1>1, WorkspaceTypes, LibraryKept, PeopleKept DEF SpaceInv
<1>2. CASE UNCHANGED spaceVars
  <2> USE <1>2 DEF spaceVars
  <2>1. Space!TypeOK'
    BY DEF SpaceInv, Space!TypeOK
  <2>2. LibraryInv'
    BY DEF SpaceInv, LibraryInv, UploadsApart, Uploading, RemovalsHaveUnstored,
           Space!StoredAsRecorded, Space!At
  <2>3. PeopleInv'
    BY DEF SpaceInv, PeopleInv, InvitationsInOrder, Accepting, JoinsApart
  <2> QED
    BY <2>1, <2>2, <2>3 DEF SpaceInv
<1> QED
  BY <1>1, <1>2

-----------------------------------------------------------------------------
(* The inductive invariants of the account *)

(* The tokens of cookies, calls and sessions are rows that exist. *)
Presents(c) == call[c].pc \in {"refresh", "replay", "logout"}

(* Every token that a cookie, a call or a session names has been issued. *)
TokensIssued ==
  /\ jar.rt \in {Auth!None} \cup Auth!Issued
  /\ \A c \in Auth!Caller : /\ call[c].token \in {Auth!None} \cup Auth!Issued
                            /\ Presents(c) => call[c].token # Auth!None
  /\ \A t \in Auth!Issued : token[t].session \in Auth!Issued
  /\ ended \subseteq Auth!Issued

(* A session is a chain: its last token alone was not rotated away. *)
OneChain ==
  /\ \A t \in Auth!Issued : token[t].rotated => token[t].revoked
  /\ \A t, u \in Auth!Issued :
       token[t].session = token[u].session /\ ~token[t].rotated /\ ~token[u].rotated => t = u

(* A refresh of a session that was ended while it was under way is late. *)
LateIsKnown ==
  \A c \in Auth!Caller :
    call[c].pc = "refresh" /\ token[call[c].token].session \in ended \ outrun =>
      token[call[c].token].late \/ call[c].late

ChainInv == TokensIssued /\ OneChain /\ LateIsKnown /\ Auth!EndedStayEnded

(* The one-time code: inserted for the one registration that succeeded,      *)
(* spent by the verification that commits first. A second one was under way  *)
(* already, and that is what overlapped says.                                *)
CodeInOrder ==
  /\ user = "absent" => otp = "absent" /\ \A c \in Auth!Caller : call[c].pc # "code"
  /\ \A c \in Auth!Caller : call[c].pc = "code" =>
       otp = "absent" /\ \A d \in Auth!Caller \ {c} : call[d].pc # "code"
  /\ otp = "absent" => workspaces = 0 /\ \A c \in Auth!Caller : call[c].pc # "verify"
  /\ workspaces > 0 => otp = "used"

(* Verifications that read the same code are known to overlap. *)
VerifiedOnce ==
  /\ \A c, d \in Auth!Caller : call[c].pc = "verify" /\ call[d].pc = "verify" /\ c # d => overlapped
  /\ \A c \in Auth!Caller : call[c].pc = "verify" /\ workspaces > 0 => overlapped
  /\ Auth!OneWorkspace

CodeInv == CodeInOrder /\ VerifiedOnce

-----------------------------------------------------------------------------
(* The account keeps its types *)

(* The actions of accounts, by who takes them. *)
LEMMA AccountSteps ==
  ASSUME Auth!Next
  PROVE  \/ \E c \in Auth!Caller :
              \/ (Auth!RegisterCheck(c) \/ Auth!VerifyRead(c) \/ Auth!LoginRead(c)) /\ c \in Form
              \/ (Auth!ChangeRead(c) \/ Auth!LogoutSend(c) \/ Auth!Receive(c)) /\ c \in Form
              \/ Auth!LoggedOut(c) /\ c \in Form
              \/ Auth!RequestFails(c) \/ Auth!InsertUser(c) \/ Auth!InsertOtp(c)
              \/ Auth!SendOtp(c) \/ Auth!VerifyCommit(c) \/ Auth!LoginIssue(c)
              \/ Auth!RefreshCommit(c) \/ Auth!RevokeAll(c) \/ Auth!ChangePassword(c)
              \/ Auth!Logout(c) \/ Auth!LogoutRefused(c) \/ Auth!RefreshFails(c)
              \/ (Auth!StartRefresh(c) \/ Auth!RefreshAnswered(c)) /\ c \in Fetch
              \/ (Auth!Navigate(c) \/ Auth!NavigateAnswered(c)) /\ c \in Nav
         \/ \E f \in Fetch : Auth!FetchUnauthorized(f) \/ Auth!JoinRefresh(f) \/ Auth!Retry(f)
         \/ Auth!ExpireOtp \/ Auth!ExpireAccess \/ Auth!ExpireSession
  BY DEF Auth!Next, Auth!Submit, Auth!Serve, Auth!Caller

(* The rows of refresh_tokens are numbered from 1. *)
LEMMA TokenRows ==
  ASSUME Auth!TypeOK
  PROVE  \E n \in Nat : /\ n \in 0 .. MaxTokens /\ token \in [1 .. n -> Auth!Token]
                        /\ Auth!Issued = 1 .. n /\ Auth!Cardinality(DOMAIN token) = n
                        /\ Auth!Issued \subseteq Auth!Tokens /\ 0 \notin Auth!Issued
<1>1. PICK n \in 0 .. MaxTokens : token \in [1 .. n -> Auth!Token]
  BY DEF Auth!TypeOK
<1>2. n \in Nat /\ MaxTokens \in Nat /\ DOMAIN token = 1 .. n
  BY <1>1, AccountBounds
<1>3. Cardinality(1 .. n) = n
  BY <1>2, FS_Interval
<1> QED
  BY <1>1, <1>2, <1>3, SameCardinality DEF Auth!Issued, Auth!Tokens

(* UPDATE refresh_tokens SET revokedAt touches nothing else. *)
LEMMA TokenRevoked ==
  ASSUME NEW n \in Nat, NEW rows \in [1 .. n -> Auth!Token], NEW which
  PROVE  /\ Auth!Revoked(rows, which) \in [1 .. n -> Auth!Token]
         /\ \A t \in 1 .. n :
              /\ t \in which => Auth!Revoked(rows, which)[t] = [rows[t] EXCEPT !.revoked = TRUE]
              /\ t \notin which => Auth!Revoked(rows, which)[t] = rows[t]
<1>1. \A t \in 1 .. n : [rows[t] EXCEPT !.revoked = TRUE] \in Auth!Token
  BY DEF Auth!Token
<1> QED
  BY <1>1 DEF Auth!Revoked

(* A row whose flag is set is a row. *)
LEMMA TokenFlagged ==
  ASSUME NEW n \in Nat, token \in [1 .. n -> Auth!Token], NEW t \in 1 .. n
  PROVE  /\ [token EXCEPT ![t].expired = TRUE] \in [1 .. n -> Auth!Token]
         /\ [token EXCEPT ![t].rotated = TRUE] \in [1 .. n -> Auth!Token]
<1>1. /\ [token[t] EXCEPT !.expired = TRUE] \in Auth!Token
      /\ [token[t] EXCEPT !.rotated = TRUE] \in Auth!Token
  BY DEF Auth!Token
<1> QED
  BY <1>1

(* A call that moves on, ends, or starts from what it has just read. *)
LEMMA CallMoves ==
  ASSUME call \in [Auth!Caller -> Auth!Request], NEW c \in Auth!Caller
  PROVE  /\ \A pc \in {"register", "code", "mail", "verify", "login", "change"} :
              Auth!Goto(c, pc) =>
                /\ call' \in [Auth!Caller -> Auth!Request]
                /\ \A d \in Auth!Caller \ {c} : call'[d] = call[d]
                /\ call'[c].pc = pc /\ call'[c].token = call[c].token
         /\ Auth!Refuse(c) =>
                /\ call' \in [Auth!Caller -> Auth!Request]
                /\ \A d \in Auth!Caller \ {c} : call'[d] = call[d]
                /\ call'[c].pc = "idle" /\ call'[c].token = Auth!None
         /\ \A q \in Auth!Request : call' = [call EXCEPT ![c] = q] =>
                /\ call' \in [Auth!Caller -> Auth!Request]
                /\ \A d \in Auth!Caller \ {c} : call'[d] = call[d]
                /\ call'[c] = q
<1>1. Auth!Idle \in Auth!Request
  BY DEF Auth!Idle, Auth!Request, Auth!None
<1>2. ASSUME NEW q \in Auth!Request, call' = [call EXCEPT ![c] = q]
      PROVE  /\ call' \in [Auth!Caller -> Auth!Request]
             /\ \A d \in Auth!Caller \ {c} : call'[d] = call[d]
             /\ call'[c] = q
  BY <1>2
<1>3. ASSUME NEW pc \in {"register", "code", "mail", "verify", "login", "change"},
             Auth!Goto(c, pc)
      PROVE  /\ call' \in [Auth!Caller -> Auth!Request]
             /\ \A d \in Auth!Caller \ {c} : call'[d] = call[d]
             /\ call'[c].pc = pc /\ call'[c].token = call[c].token
  <2>1. [call[c] EXCEPT !.pc = pc] \in Auth!Request
    BY DEF Auth!Request
  <2> QED
    BY <1>2, <1>3, <2>1 DEF Auth!Goto, Auth!Request
<1>4. ASSUME Auth!Refuse(c)
      PROVE  /\ call' \in [Auth!Caller -> Auth!Request]
             /\ \A d \in Auth!Caller \ {c} : call'[d] = call[d]
             /\ call'[c].pc = "idle" /\ call'[c].token = Auth!None
  BY <1>1, <1>2, <1>4 DEF Auth!Refuse, Auth!Idle
<1> QED
  BY <1>2, <1>3, <1>4

(* issueTokens: one more row, and the rows there were as given. *)
LEMMA IssueRow ==
  ASSUME NEW n \in Nat, NEW rows \in [1 .. n -> Auth!Token], NEW new \in Auth!Token,
         token' = [u \in 1 .. n + 1 |-> IF u = n + 1 THEN new ELSE rows[u]]
  PROVE  /\ token' \in [1 .. n + 1 -> Auth!Token]
         /\ token'[n + 1] = new /\ \A t \in 1 .. n : token'[t] = rows[t]
<1>1. /\ \A u \in 1 .. n + 1 : u = n + 1 \/ u \in 1 .. n
      /\ n + 1 \in 1 .. n + 1 /\ \A t \in 1 .. n : t \in 1 .. n + 1 /\ t # n + 1
  OBVIOUS
<1> QED
  BY <1>1

(* ... and its answer to the call. *)
LEMMA IssueAnswer ==
  ASSUME call \in [Auth!Caller -> Auth!Request], NEW t \in Auth!Tokens, NEW c \in Auth!Caller,
         call' = [call EXCEPT ![c] = [Auth!Idle EXCEPT !.pc = "answered", !.token = t]]
  PROVE  /\ call' \in [Auth!Caller -> Auth!Request]
         /\ \A d \in Auth!Caller \ {c} : call'[d] = call[d]
         /\ call'[c].pc = "answered" /\ call'[c].token = t
<1>1. [Auth!Idle EXCEPT !.pc = "answered", !.token = t] \in Auth!Request
  BY DEF Auth!Idle, Auth!Request
<1>2. /\ call' \in [Auth!Caller -> Auth!Request]
      /\ \A d \in Auth!Caller \ {c} : call'[d] = call[d]
      /\ call'[c] = [Auth!Idle EXCEPT !.pc = "answered", !.token = t]
  BY <1>1, CallMoves
<1>3. call'[c].pc = "answered" /\ call'[c].token = t
  BY <1>2 DEF Auth!Idle
<1> QED
  BY <1>2, <1>3

(* The three that issue tokens. Of the new row, all but its session and late *)
(* are the same.                                                             *)
NewToken(t, session, late) ==
  [revoked |-> FALSE, rotated |-> FALSE, expired |-> FALSE, late |-> late,
   session |-> IF session = Auth!None THEN t ELSE session]

Issues(c, n, rows, new) ==
  /\ n + 1 \in Auth!Tokens
  /\ token' = [u \in 1 .. n + 1 |-> IF u = n + 1 THEN new ELSE rows[u]]
  /\ call' = [call EXCEPT ![c] = [Auth!Idle EXCEPT !.pc = "answered", !.token = n + 1]]

(* verifyOtp and login issue a token that opens a chain. *)
LEMMA VerifyIssues ==
  ASSUME NEW n \in Nat, token \in [1 .. n -> Auth!Token], Auth!Cardinality(1 .. n) = n,
         NEW c \in Auth!Caller, Auth!VerifyCommit(c)
  PROVE  Issues(c, n, token, NewToken(n + 1, Auth!None, FALSE))
<1>1. DOMAIN token = 1 .. n
  OBVIOUS
<1> QED
  BY <1>1 DEF Auth!VerifyCommit, Auth!IssueTokens, Issues, NewToken

LEMMA LoginIssues ==
  ASSUME NEW n \in Nat, token \in [1 .. n -> Auth!Token], Auth!Cardinality(1 .. n) = n,
         NEW c \in Auth!Caller, Auth!LoginIssue(c)
  PROVE  Issues(c, n, token, NewToken(n + 1, Auth!None, call[c].late))
<1>1. DOMAIN token = 1 .. n
  OBVIOUS
<1> QED
  BY <1>1 DEF Auth!LoginIssue, Auth!IssueTokens, Issues, NewToken

(* The rows that a refresh leaves: its own is rotated away and revoked. *)
Rotated(rt) == Auth!Revoked([token EXCEPT ![rt].rotated = TRUE], {rt})

(* The rows once rt is rotated: that one alone has changed. *)
LEMMA RotatedRows ==
  ASSUME NEW n \in Nat, token \in [1 .. n -> Auth!Token], NEW rt \in 1 .. n
  PROVE  /\ Rotated(rt) \in [1 .. n -> Auth!Token]
         /\ Rotated(rt)[rt].rotated /\ Rotated(rt)[rt].revoked
         /\ \A t \in 1 .. n : /\ t # rt => Rotated(rt)[t] = token[t]
                              /\ Rotated(rt)[t].session = token[t].session
                              /\ Rotated(rt)[t].late = token[t].late
                              /\ Rotated(rt)[t].expired = token[t].expired
<1> DEFINE rows == [token EXCEPT ![rt].rotated = TRUE]
<1>1. rows \in [1 .. n -> Auth!Token]
  BY TokenFlagged
<1>2. /\ rows[rt].rotated /\ \A t \in 1 .. n \ {rt} : rows[t] = token[t]
      /\ rows[rt].session = token[rt].session
      /\ rows[rt].late = token[rt].late /\ rows[rt].expired = token[rt].expired
  BY DEF Auth!Token
<1> HIDE DEF rows
<1>3. /\ DOMAIN rows = 1 .. n /\ Auth!Revoked(rows, {rt}) \in [1 .. n -> Auth!Token]
  BY <1>1, TokenRevoked
<1>4. /\ Auth!Revoked(rows, {rt})[rt] = [rows[rt] EXCEPT !.revoked = TRUE]
      /\ \A t \in 1 .. n \ {rt} : Auth!Revoked(rows, {rt})[t] = rows[t]
  BY <1>3 DEF Auth!Revoked
<1>5. /\ [rows[rt] EXCEPT !.revoked = TRUE].rotated = rows[rt].rotated
      /\ [rows[rt] EXCEPT !.revoked = TRUE].revoked
      /\ [rows[rt] EXCEPT !.revoked = TRUE].session = rows[rt].session
      /\ [rows[rt] EXCEPT !.revoked = TRUE].late = rows[rt].late
      /\ [rows[rt] EXCEPT !.revoked = TRUE].expired = rows[rt].expired
  BY <1>1 DEF Auth!Token
<1>6. Rotated(rt) = Auth!Revoked(rows, {rt})
  BY DEF Rotated, rows
<1> QED
  BY <1>2, <1>3, <1>4, <1>5, <1>6

(* refresh issues the next token of the chain, or opens another. *)
LEMMA RefreshIssues ==
  ASSUME NEW n \in Nat, token \in [1 .. n -> Auth!Token], Auth!Cardinality(1 .. n) = n,
         NEW c \in Auth!Caller, Auth!RefreshCommit(c), call[c].token \in 1 .. n
  PROVE  LET rt == call[c].token IN
         Issues(c, n, Rotated(rt), NewToken(n + 1,
           IF token[rt].rotated THEN Auth!None ELSE token[rt].session,
           token[rt].late \/ call[c].late))
<1>1. DOMAIN Rotated(call[c].token) = 1 .. n
  BY RotatedRows
<1> QED
  BY <1>1 DEF Auth!RefreshCommit, Auth!IssueTokens, Issues, NewToken, Rotated

(* What refresh reads of a token that exists. *)
LEMMA RefreshReads ==
  ASSUME Auth!TypeOK, NEW c \in Auth!Caller, NEW rt \in {Auth!None} \cup Auth!Issued,
         Auth!RefreshRead(c, rt)
  PROVE  /\ call' \in [Auth!Caller -> Auth!Request]
         /\ \A d \in Auth!Caller \ {c} : call'[d] = call[d]
         /\ \/ call'[c].pc = "answered" /\ call'[c].token = Auth!None
            \/ call'[c].pc = "replay" /\ call'[c].token = rt /\ rt # Auth!None
            \/ call'[c].pc = "refresh" /\ call'[c].token = rt /\ Auth!Live(rt)
<1>1. call \in [Auth!Caller -> Auth!Request] /\ Auth!Issued \subseteq Auth!Tokens
  BY TokenRows DEF Auth!TypeOK
<1> DEFINE q == IF rt = Auth!None THEN [Auth!Idle EXCEPT !.pc = "answered"]
       ELSE IF token[rt].revoked THEN [Auth!Idle EXCEPT !.pc = "replay", !.token = rt]
       ELSE IF token[rt].expired THEN [Auth!Idle EXCEPT !.pc = "answered"]
       ELSE [Auth!Idle EXCEPT !.pc = "refresh", !.token = rt]
<1>2. q \in Auth!Request
  BY <1>1 DEF Auth!Request, Auth!Idle
<1>3. /\ call' \in [Auth!Caller -> Auth!Request]
      /\ \A d \in Auth!Caller \ {c} : call'[d] = call[d]
      /\ call'[c] = q
  BY <1>1, <1>2, CallMoves DEF Auth!RefreshRead
<1> QED
  BY <1>3 DEF Auth!Idle, Auth!Live

(* EndSessions: what becomes of the calls under way. *)
LEMMA CallsEnded ==
  ASSUME Auth!TypeOK, NEW c \in Auth!Caller, NEW which, NEW next \in Auth!Request,
         Auth!EndSessions(c, which, next)
  PROVE  /\ call' \in [Auth!Caller -> Auth!Request] /\ call'[c] = next
         /\ \A d \in Auth!Caller \ {c} :
              /\ call'[d].pc = call[d].pc /\ call'[d].token = call[d].token
              /\ call[d].late => call'[d].late
              /\ call[d].pc = "refresh" /\ token[call[d].token].session \in which => call'[d].late
         /\ ended' = ended \cup which
<1>1. call \in [Auth!Caller -> Auth!Request]
  BY DEF Auth!TypeOK
<1>2. ASSUME NEW d \in Auth!Caller \ {c}
      PROVE  /\ call'[d] \in Auth!Request
             /\ call'[d].pc = call[d].pc /\ call'[d].token = call[d].token
             /\ call[d].late => call'[d].late
             /\ call[d].pc = "refresh" /\ token[call[d].token].session \in which => call'[d].late
  <2>1. call'[d] = call[d] \/ call'[d] = [call[d] EXCEPT !.late = TRUE]
    BY DEF Auth!EndSessions
  <2>2. call[d].pc = "refresh" /\ token[call[d].token].session \in which =>
          call'[d] = [call[d] EXCEPT !.late = TRUE]
    BY DEF Auth!EndSessions, Auth!At
  <2>3. [call[d] EXCEPT !.late = TRUE] \in Auth!Request
    BY <1>1 DEF Auth!Request
  <2> QED
    BY <1>1, <2>1, <2>2, <2>3 DEF Auth!Request
<1>3. call'[c] = next
  BY DEF Auth!EndSessions
<1>4. call' \in [Auth!Caller -> Auth!Request]
  <2>1. \A d \in Auth!Caller : call'[d] \in Auth!Request
    BY <1>2, <1>3
  <2> QED
    BY <2>1 DEF Auth!EndSessions
<1> QED
  BY <1>2, <1>3, <1>4 DEF Auth!EndSessions

(* What a step must keep of the account's types. *)
LEMMA AccountTyped ==
  ASSUME user' \in {"absent", "unverified", "verified"},
         otp' \in {"absent", "unsent", "valid", "used", "expired"}, workspaces' \in Nat,
         NEW n \in 0 .. MaxTokens, token' \in [1 .. n -> Auth!Token],
         call' \in [Auth!Caller -> Auth!Request],
         jar' \in [rt : {Auth!None} \cup Auth!Tokens, at : BOOLEAN],
         fetch' \in [Fetch -> {"idle", "unauthorized", "waiting", "retry"}],
         refreshing' \subseteq Tab, ended' \subseteq Auth!Tokens, outrun' \subseteq Auth!Tokens,
         contended' \in BOOLEAN, lost' \in BOOLEAN, replayed' \in BOOLEAN,
         overlapped' \in BOOLEAN, lapses' \in 0 .. MaxLapses, changes' \in 0 .. MaxChanges
  PROVE  Auth!TypeOK'
<1>1. {contended', lost', replayed', overlapped'} \subseteq BOOLEAN
  OBVIOUS
<1> QED
  BY <1>1 DEF Auth!TypeOK

(* Every step of accounts keeps its variables typed. *)
LEMMA AccountTypes ==
  ASSUME Auth!TypeOK, TokensIssued, Auth!Next
  PROVE  Auth!TypeOK'
<1> USE DEF Auth!db, Auth!page, Auth!hist
<1>1. PICK n \in Nat : /\ n \in 0 .. MaxTokens /\ token \in [1 .. n -> Auth!Token]
                       /\ Auth!Issued = 1 .. n /\ Auth!Cardinality(DOMAIN token) = n
                       /\ Auth!Issued \subseteq Auth!Tokens /\ 0 \notin Auth!Issued
  BY TokenRows
<1>2. /\ MaxTokens \in Nat /\ MaxLapses \in Nat /\ MaxChanges \in Nat
      /\ DOMAIN token = 1 .. n /\ Auth!Issued = DOMAIN token
      /\ Auth!Cardinality(1 .. n) = n
  BY <1>1, AccountBounds DEF Auth!Issued
<1>3. /\ user \in {"absent", "unverified", "verified"}
      /\ otp \in {"absent", "unsent", "valid", "used", "expired"} /\ workspaces \in Nat
      /\ call \in [Auth!Caller -> Auth!Request]
      /\ jar \in [rt : {Auth!None} \cup Auth!Tokens, at : BOOLEAN]
      /\ fetch \in [Fetch -> {"idle", "unauthorized", "waiting", "retry"}]
      /\ refreshing \subseteq Tab /\ ended \subseteq Auth!Tokens /\ outrun \subseteq Auth!Tokens
      /\ contended \in BOOLEAN /\ lost \in BOOLEAN /\ replayed \in BOOLEAN
      /\ overlapped \in BOOLEAN /\ lapses \in 0 .. MaxLapses /\ changes \in 0 .. MaxChanges
  BY DEF Auth!TypeOK
<1>4. /\ jar.rt \in {Auth!None} \cup Auth!Issued
      /\ \A c \in Auth!Caller : /\ call[c].token \in {Auth!None} \cup Auth!Issued
                                /\ Presents(c) => call[c].token # Auth!None
      /\ \A t \in Auth!Issued : token[t].session \in Auth!Issued /\ token[t].late \in BOOLEAN
                                /\ token[t].rotated \in BOOLEAN
  BY <1>1, <1>2 DEF TokensIssued, Auth!Token
<1>5. \A c \in Auth!Caller : call[c].late \in BOOLEAN
  BY <1>3 DEF Auth!Request
<1>6. [Auth!Idle EXCEPT !.pc = "answered"] \in Auth!Request /\ Auth!Idle \in Auth!Request
  BY DEF Auth!Idle, Auth!Request
<1>7. Auth!Sessions \subseteq Auth!Tokens
  BY <1>1, <1>4 DEF Auth!Sessions
<1> USE <1>1, <1>2, <1>3
<1>8. ASSUME NEW c \in Auth!Caller, Auth!RegisterCheck(c) PROVE Auth!TypeOK'
  <2>1. call' \in [Auth!Caller -> Auth!Request]
    BY <1>8, CallMoves DEF Auth!RegisterCheck
  <2> QED
    BY <1>8, <2>1, AccountTyped DEF Auth!RegisterCheck
<1>9. ASSUME NEW c \in Auth!Caller, Auth!VerifyRead(c) PROVE Auth!TypeOK'
  <2>1. call' \in [Auth!Caller -> Auth!Request]
    BY <1>9, CallMoves DEF Auth!VerifyRead
  <2> QED
    BY <1>9, <2>1, AccountTyped DEF Auth!VerifyRead
<1>10. ASSUME NEW c \in Auth!Caller, Auth!LoginRead(c) PROVE Auth!TypeOK'
  <2>1. call' \in [Auth!Caller -> Auth!Request]
    BY <1>10, CallMoves DEF Auth!LoginRead
  <2> QED
    BY <1>10, <2>1, AccountTyped DEF Auth!LoginRead
<1>11. ASSUME NEW c \in Auth!Caller, Auth!ChangeRead(c) PROVE Auth!TypeOK'
  <2>1. call' \in [Auth!Caller -> Auth!Request]
    BY <1>11, CallMoves DEF Auth!ChangeRead
  <2> QED
    BY <1>11, <2>1, AccountTyped DEF Auth!ChangeRead
<1>12. ASSUME NEW c \in Auth!Caller, Auth!LogoutSend(c) PROVE Auth!TypeOK'
  <2>1. [Auth!Idle EXCEPT !.pc = "logout", !.token = jar.rt] \in Auth!Request
    BY DEF Auth!Idle, Auth!Request
  <2>2. call' \in [Auth!Caller -> Auth!Request]
    BY <1>12, <2>1, CallMoves DEF Auth!LogoutSend
  <2> QED
    BY <1>12, <2>2, AccountTyped DEF Auth!LogoutSend
<1>13. ASSUME NEW c \in Auth!Caller, Auth!Receive(c) PROVE Auth!TypeOK'
  <2>1. call' \in [Auth!Caller -> Auth!Request] /\ call[c].token \in {Auth!None} \cup Auth!Tokens
    BY <1>4, <1>13, CallMoves DEF Auth!Receive
  <2>2. jar' \in [rt : {Auth!None} \cup Auth!Tokens, at : BOOLEAN]
    BY <1>13, <2>1 DEF Auth!Receive
  <2> QED
    BY <1>13, <2>1, <2>2, AccountTyped DEF Auth!Receive
<1>14. ASSUME NEW c \in Auth!Caller, Auth!RequestFails(c) PROVE Auth!TypeOK'
  <2>1. call' \in [Auth!Caller -> Auth!Request] /\ call[c].token \in {Auth!None} \cup Auth!Tokens
    BY <1>4, <1>14, CallMoves DEF Auth!RequestFails
  <2> QED
    BY <1>14, <2>1, AccountTyped DEF Auth!RequestFails
<1>15. ASSUME NEW c \in Auth!Caller, Auth!InsertOtp(c) PROVE Auth!TypeOK'
  <2>1. call' \in [Auth!Caller -> Auth!Request] /\ call[c].token \in {Auth!None} \cup Auth!Tokens
    BY <1>4, <1>15, CallMoves DEF Auth!InsertOtp
  <2> QED
    BY <1>15, <2>1, AccountTyped DEF Auth!InsertOtp
<1>16. ASSUME NEW c \in Auth!Caller, Auth!SendOtp(c) PROVE Auth!TypeOK'
  <2>1. call' \in [Auth!Caller -> Auth!Request] /\ call[c].token \in {Auth!None} \cup Auth!Tokens
    BY <1>4, <1>16, CallMoves DEF Auth!SendOtp
  <2> QED
    BY <1>16, <2>1, AccountTyped DEF Auth!SendOtp
<1>17. ASSUME NEW c \in Auth!Caller, Auth!NavigateAnswered(c) PROVE Auth!TypeOK'
  <2>1. call' \in [Auth!Caller -> Auth!Request] /\ call[c].token \in {Auth!None} \cup Auth!Tokens
    BY <1>4, <1>17, CallMoves DEF Auth!NavigateAnswered
  <2>2. jar' \in [rt : {Auth!None} \cup Auth!Tokens, at : BOOLEAN]
    BY <1>17, <2>1 DEF Auth!NavigateAnswered, Auth!Store
  <2> QED
    BY <1>17, <2>1, <2>2, AccountTyped DEF Auth!NavigateAnswered
<1>18. ASSUME NEW c \in Auth!Caller, Auth!InsertUser(c) PROVE Auth!TypeOK'
  <2>1. call' \in [Auth!Caller -> Auth!Request] /\ user' \in {"absent", "unverified", "verified"}
    BY <1>18, CallMoves DEF Auth!InsertUser
  <2> QED
    BY <1>18, <2>1, AccountTyped DEF Auth!InsertUser
<1>19. ASSUME NEW c \in Auth!Caller, NEW rows \in [1 .. n -> Auth!Token],
              NEW new \in Auth!Token, Issues(c, n, rows, new)
       PROVE  /\ n + 1 \in 0 .. MaxTokens /\ token' \in [1 .. n + 1 -> Auth!Token]
              /\ call' \in [Auth!Caller -> Auth!Request]
  <2>1. n + 1 \in 0 .. MaxTokens
    BY <1>19 DEF Issues, Auth!Tokens
  <2>2. token' \in [1 .. n + 1 -> Auth!Token]
    BY <1>19, IssueRow DEF Issues
  <2>3. call' \in [Auth!Caller -> Auth!Request]
    BY <1>19, IssueAnswer DEF Issues
  <2> QED
    BY <2>1, <2>2, <2>3
<1>20. ASSUME NEW c \in Auth!Caller, Auth!VerifyCommit(c) PROVE Auth!TypeOK'
  <2> DEFINE new == NewToken(n + 1, Auth!None, FALSE)
  <2>1. Issues(c, n, token, new)
    BY <1>20, VerifyIssues
  <2>2. new \in Auth!Token
    BY <2>1 DEF Issues, NewToken, Auth!Token
  <2> HIDE DEF new
  <2>3. /\ n + 1 \in 0 .. MaxTokens /\ token' \in [1 .. n + 1 -> Auth!Token]
        /\ call' \in [Auth!Caller -> Auth!Request]
    BY <1>19, <2>1, <2>2
  <2> QED
    BY <1>20, <2>3, AccountTyped DEF Auth!VerifyCommit
<1>21. ASSUME NEW c \in Auth!Caller, Auth!LoginIssue(c) PROVE Auth!TypeOK'
  <2> DEFINE new == NewToken(n + 1, Auth!None, call[c].late)
  <2>1. Issues(c, n, token, new)
    BY <1>21, LoginIssues
  <2>2. new \in Auth!Token
    BY <1>5, <2>1 DEF Issues, NewToken, Auth!Token
  <2> HIDE DEF new
  <2>3. /\ n + 1 \in 0 .. MaxTokens /\ token' \in [1 .. n + 1 -> Auth!Token]
        /\ call' \in [Auth!Caller -> Auth!Request]
    BY <1>19, <2>1, <2>2
  <2>4. ended' \subseteq Auth!Tokens
    BY <1>21, <2>1 DEF Auth!LoginIssue, Issues
  <2> QED
    BY <1>21, <2>3, <2>4, AccountTyped DEF Auth!LoginIssue
<1>22. ASSUME NEW c \in Auth!Caller, Auth!RefreshCommit(c) PROVE Auth!TypeOK'
  <2> DEFINE rt == call[c].token
             new == NewToken(n + 1, IF token[rt].rotated THEN Auth!None ELSE token[rt].session,
                             token[rt].late \/ call[c].late)
  <2>1. rt \in 1 .. n
    BY <1>4, <1>22 DEF Auth!RefreshCommit, Auth!At, Presents
  <2>2. Rotated(rt) \in [1 .. n -> Auth!Token] /\ Issues(c, n, Rotated(rt), new)
    BY <1>22, <2>1, RefreshIssues, RotatedRows
  <2>3. /\ n + 1 \in Auth!Tokens /\ token[rt].late \in BOOLEAN /\ call[c].late \in BOOLEAN
        /\ token[rt].session \in Auth!Tokens
    BY <1>4, <1>5, <2>1, <2>2 DEF Issues
  <2>4. new \in Auth!Token
    BY <2>3 DEF NewToken, Auth!Token
  <2> HIDE DEF rt, new
  <2>5. /\ n + 1 \in 0 .. MaxTokens /\ token' \in [1 .. n + 1 -> Auth!Token]
        /\ call' \in [Auth!Caller -> Auth!Request]
    BY <1>19, <2>2, <2>4
  <2> QED
    BY <1>22, <2>5, AccountTyped DEF Auth!RefreshCommit
<1>23. ASSUME NEW c \in Auth!Caller, Auth!RevokeAll(c) PROVE Auth!TypeOK'
  <2>1. token' \in [1 .. n -> Auth!Token]
    BY <1>23, TokenRevoked DEF Auth!RevokeAll
  <2>2. /\ call' \in [Auth!Caller -> Auth!Request]
        /\ ended' \subseteq Auth!Tokens /\ outrun' \subseteq Auth!Tokens
    BY <1>6, <1>7, <1>23, CallsEnded DEF Auth!RevokeAll
  <2>3. replayed' \in BOOLEAN
    BY <1>23 DEF Auth!RevokeAll
  <2> QED
    BY <1>23, <2>1, <2>2, <2>3, AccountTyped DEF Auth!RevokeAll
<1>24. ASSUME NEW c \in Auth!Caller, Auth!ChangePassword(c) PROVE Auth!TypeOK'
  <2>1. token' \in [1 .. n -> Auth!Token]
    BY <1>24, TokenRevoked DEF Auth!ChangePassword
  <2>2. /\ call' \in [Auth!Caller -> Auth!Request]
        /\ ended' \subseteq Auth!Tokens /\ outrun' \subseteq Auth!Tokens
    BY <1>6, <1>7, <1>24, CallsEnded DEF Auth!ChangePassword
  <2> QED
    BY <1>24, <2>1, <2>2, AccountTyped DEF Auth!ChangePassword
<1>25. ASSUME NEW c \in Auth!Caller, Auth!Logout(c) PROVE Auth!TypeOK'
  <2> DEFINE next == [Auth!Idle EXCEPT !.pc = "loggedOut"]
             session == token[call[c].token].session
  <2>1. token' \in [1 .. n -> Auth!Token]
    BY <1>25, TokenRevoked DEF Auth!Logout
  <2>2. session \in Auth!Tokens
    BY <1>4, <1>25 DEF Auth!Logout, Auth!At, Presents
  <2>3. next \in Auth!Request /\ Auth!EndSessions(c, {session}, next)
    BY <1>25 DEF Auth!Idle, Auth!Request, Auth!Logout
  <2>4. outrun' = outrun \cup {session} \/ outrun' = outrun \ {session}
    BY <1>25 DEF Auth!Logout
  <2> HIDE DEF next, session
  <2>5. call' \in [Auth!Caller -> Auth!Request] /\ ended' = ended \cup {session}
    BY <1>6, <1>7, <2>3, CallsEnded
  <2>6. ended' \subseteq Auth!Tokens /\ outrun' \subseteq Auth!Tokens
    BY <1>7, <2>2, <2>4, <2>5
  <2>7. UNCHANGED <<user, otp, workspaces, jar, Auth!page, contended, lost, replayed,
                    overlapped, lapses, changes>>
    BY <1>25 DEF Auth!Logout
  <2> QED
    BY <1>2, <1>3, <1>4, <1>5, <1>6, <1>7, <2>1, <2>5, <2>6, <2>7, AccountTyped DEF Auth!page
<1>26. ASSUME NEW c \in Auth!Caller, Auth!RefreshFails(c) PROVE Auth!TypeOK'
  <2>1. call' \in [Auth!Caller -> Auth!Request] /\ lost' \in BOOLEAN
    BY <1>26, CallMoves DEF Auth!RefreshFails
  <2>2. /\ fetch' \in [Fetch -> {"idle", "unauthorized", "waiting", "retry"}]
        /\ refreshing' \subseteq Tab
    <3>1. CASE c \in Fetch
      <4>1. Auth!Settle(c, FALSE)
        BY <1>26, <3>1 DEF Auth!RefreshFails
      <4> QED
        BY <4>1 DEF Auth!Settle
    <3>2. CASE c \notin Fetch
      <4>1. fetch' = fetch /\ refreshing' = refreshing
        BY <1>26, <3>2 DEF Auth!RefreshFails, Auth!page
      <4> QED
        BY <1>6, <4>1
    <3> QED
      BY <3>1, <3>2
  <2> QED
    BY <1>26, <2>1, <2>2, AccountTyped DEF Auth!RefreshFails
<1>27. ASSUME NEW c \in Auth!Caller, Auth!StartRefresh(c), c \in Fetch PROVE Auth!TypeOK'
  <2>1. call' \in [Auth!Caller -> Auth!Request]
    BY <1>4, <1>27, RefreshReads DEF Auth!StartRefresh
  <2>2. contended' \in BOOLEAN
    BY <1>27 DEF Auth!StartRefresh, Auth!Contend
  <2>3. fetch' = [fetch EXCEPT ![c] = "waiting"] /\ refreshing' = refreshing \cup {TabOf[c]}
    BY <1>27 DEF Auth!StartRefresh
  <2>4. fetch' \in [Fetch -> {"idle", "unauthorized", "waiting", "retry"}]
    BY <2>3
  <2>5. refreshing' \subseteq Tab
    BY <1>27, <2>3, PagesInTabs
  <2> QED
    BY <1>27, <2>1, <2>2, <2>4, <2>5, AccountTyped DEF Auth!StartRefresh
<1>28. ASSUME NEW c \in Auth!Caller, Auth!RefreshAnswered(c) PROVE Auth!TypeOK'
  <2>1. call' \in [Auth!Caller -> Auth!Request] /\ call[c].token \in {Auth!None} \cup Auth!Tokens
    BY <1>4, <1>28, CallMoves DEF Auth!RefreshAnswered
  <2>2. jar' \in [rt : {Auth!None} \cup Auth!Tokens, at : BOOLEAN]
    BY <1>28, <2>1 DEF Auth!RefreshAnswered, Auth!Store
  <2>3. /\ fetch' \in [Fetch -> {"idle", "unauthorized", "waiting", "retry"}]
        /\ refreshing' \subseteq Tab
    BY <1>28 DEF Auth!RefreshAnswered, Auth!Settle
  <2> QED
    BY <1>28, <2>1, <2>2, <2>3, AccountTyped DEF Auth!RefreshAnswered
<1>29. ASSUME NEW c \in Auth!Caller, Auth!Navigate(c) PROVE Auth!TypeOK'
  <2>1. call' \in [Auth!Caller -> Auth!Request]
    BY <1>4, <1>29, RefreshReads DEF Auth!Navigate
  <2>2. contended' \in BOOLEAN
    BY <1>29 DEF Auth!Navigate, Auth!Contend
  <2> QED
    BY <1>29, <2>1, <2>2, AccountTyped DEF Auth!Navigate
<1>30. ASSUME NEW f \in Fetch,
              Auth!FetchUnauthorized(f) \/ Auth!JoinRefresh(f) \/ Auth!Retry(f)
       PROVE  Auth!TypeOK'
  <2>1. /\ fetch' \in [Fetch -> {"idle", "unauthorized", "waiting", "retry"}]
        /\ UNCHANGED <<Auth!db, call, jar, refreshing, Auth!hist>>
    BY <1>30 DEF Auth!FetchUnauthorized, Auth!JoinRefresh, Auth!Retry
  <2> QED
    BY <2>1, AccountTyped
<1>31. ASSUME Auth!ExpireOtp PROVE Auth!TypeOK'
  <2>1. lapses' \in 0 .. MaxLapses
    BY <1>31 DEF Auth!ExpireOtp
  <2> QED
    BY <1>31, <2>1, AccountTyped DEF Auth!ExpireOtp
<1>32. ASSUME Auth!ExpireAccess PROVE Auth!TypeOK'
  <2>0. lapses' \in 0 .. MaxLapses
    BY <1>32 DEF Auth!ExpireAccess
  <2>1. jar' \in [rt : {Auth!None} \cup Auth!Tokens, at : BOOLEAN]
    BY <1>32 DEF Auth!ExpireAccess
  <2> QED
    BY <1>32, <2>0, <2>1, AccountTyped DEF Auth!ExpireAccess
<1>33. ASSUME Auth!ExpireSession PROVE Auth!TypeOK'
  <2>0. lapses' \in 0 .. MaxLapses
    BY <1>33 DEF Auth!ExpireSession
  <2>1. jar' \in [rt : {Auth!None} \cup Auth!Tokens, at : BOOLEAN]
    BY <1>33 DEF Auth!ExpireSession
  <2>2. jar.rt \in 1 .. n
    BY <1>4, <1>33 DEF Auth!ExpireSession
  <2>4. token' \in [1 .. n -> Auth!Token]
    BY <1>33, <2>2, TokenFlagged DEF Auth!ExpireSession
  <2> QED
    BY <1>33, <2>0, <2>1, <2>4, AccountTyped DEF Auth!ExpireSession
<1>34. ASSUME NEW c \in Auth!Caller, Auth!LogoutRefused(c) PROVE Auth!TypeOK'
  <2>1. [Auth!Idle EXCEPT !.pc = "loggedOut"] \in Auth!Request
    BY DEF Auth!Idle, Auth!Request
  <2>2. call' \in [Auth!Caller -> Auth!Request]
    BY <1>34, <2>1, CallMoves DEF Auth!LogoutRefused
  <2> QED
    BY <1>34, <2>2, AccountTyped DEF Auth!LogoutRefused
<1>35. ASSUME NEW c \in Auth!Caller, Auth!LoggedOut(c) PROVE Auth!TypeOK'
  <2>1. call' \in [Auth!Caller -> Auth!Request]
    BY <1>35, CallMoves DEF Auth!LoggedOut
  <2>2. jar' \in [rt : {Auth!None} \cup Auth!Tokens, at : BOOLEAN]
    BY <1>35 DEF Auth!LoggedOut
  <2> QED
    BY <1>35, <2>1, <2>2, AccountTyped DEF Auth!LoggedOut
<1> QED
  BY <1>8, <1>9, <1>10, <1>11, <1>12, <1>13, <1>14, <1>15, <1>16, <1>17, <1>18, <1>20,
     <1>21, <1>22, <1>23, <1>24, <1>25, <1>26, <1>27, <1>28, <1>29, <1>30, <1>31, <1>32,
     <1>33, <1>34, <1>35, AccountSteps

-----------------------------------------------------------------------------
(* Sessions that were ended *)

(* A step of a call that writes no token, and presents none from here on. *)
LEMMA ChainAside ==
  ASSUME ChainInv, UNCHANGED <<token, ended, outrun>>, NEW c \in Auth!Caller,
         \A d \in Auth!Caller \ {c} : call'[d] = call[d],
         call'[c].pc \notin {"refresh", "replay", "logout"},
         call'[c].token \in {Auth!None, call[c].token},
         jar'.rt \in {Auth!None, jar.rt, call[c].token}
  PROVE  ChainInv'
<1> USE DEF ChainInv, Auth!Issued
<1>1. TokensIssued'
  BY DEF TokensIssued, Presents
<1>2. OneChain'
  BY DEF OneChain
<1>3. LateIsKnown'
  BY DEF LateIsKnown
<1>4. Auth!EndedStayEnded'
  BY DEF Auth!EndedStayEnded, Auth!Live
<1> QED
  BY <1>1, <1>2, <1>3, <1>4

(* A step of the page or of the clock that touches no call and no token. *)
LEMMA ChainStill ==
  ASSUME ChainInv, UNCHANGED <<token, ended, outrun, call>>, jar'.rt \in {Auth!None, jar.rt}
  PROVE  ChainInv'
<1> USE DEF ChainInv, Auth!Issued
<1>1. TokensIssued'
  BY DEF TokensIssued, Presents
<1>2. OneChain'
  BY DEF OneChain
<1>3. LateIsKnown'
  BY DEF LateIsKnown
<1>4. Auth!EndedStayEnded'
  BY DEF Auth!EndedStayEnded, Auth!Live
<1> QED
  BY <1>1, <1>2, <1>3, <1>4

(* A refresh reads a row that is live: of an ended session only a late one. *)
LEMMA ChainRead ==
  ASSUME Auth!TypeOK, ChainInv, NEW c \in Auth!Caller, Auth!RefreshRead(c, jar.rt),
         UNCHANGED <<token, ended, outrun, jar>>
  PROVE  ChainInv'
<1> USE DEF ChainInv, Auth!Issued
<1>1. jar.rt \in {Auth!None} \cup Auth!Issued
  BY DEF TokensIssued
<1>2. /\ \A d \in Auth!Caller \ {c} : call'[d] = call[d]
      /\ \/ call'[c].pc = "answered" /\ call'[c].token = Auth!None
         \/ call'[c].pc = "replay" /\ call'[c].token = jar.rt /\ jar.rt # Auth!None
         \/ call'[c].pc = "refresh" /\ call'[c].token = jar.rt /\ Auth!Live(jar.rt)
  BY <1>1, RefreshReads
<1>3. Auth!None \notin Auth!Issued
  BY TokenRows DEF Auth!None
<1>4. TokensIssued'
  BY <1>1, <1>2, <1>3 DEF TokensIssued, Presents, Auth!Live
<1>5. OneChain'
  BY DEF OneChain
<1>6. LateIsKnown'
  BY <1>2 DEF LateIsKnown, Auth!EndedStayEnded, Auth!Live
<1>7. Auth!EndedStayEnded'
  BY DEF Auth!EndedStayEnded, Auth!Live
<1> QED
  BY <1>4, <1>5, <1>6, <1>7

(* logout presents the cookie, which names a token that exists. *)
LEMMA ChainLogoutSent ==
  ASSUME Auth!TypeOK, ChainInv, NEW c \in Auth!Caller, Auth!LogoutSend(c)
  PROVE  ChainInv'
<1> USE DEF ChainInv, Auth!Issued, Auth!LogoutSend, Auth!db, Auth!page, Auth!hist
<1>1. call \in [Auth!Caller -> Auth!Request]
  BY DEF Auth!TypeOK
<1>2. /\ \A d \in Auth!Caller \ {c} : call'[d] = call[d]
      /\ call'[c].pc = "logout" /\ call'[c].token = jar.rt
  BY <1>1 DEF Auth!Idle
<1>3. TokensIssued'
  BY <1>2 DEF TokensIssued, Presents
<1>4. OneChain'
  BY DEF OneChain
<1>5. LateIsKnown'
  BY <1>2 DEF LateIsKnown
<1>6. Auth!EndedStayEnded'
  BY DEF Auth!EndedStayEnded, Auth!Live
<1> QED
  BY <1>3, <1>4, <1>5, <1>6

(* A token is issued: for a session of its own, which nobody has ended or    *)
(* the call is late, or for the session of the one token it takes the place  *)
(* of. The rows there were are as they were, or rotated away.                *)
LEMMA ChainIssued ==
  ASSUME ChainInv, NEW n \in Nat, token \in [1 .. n -> Auth!Token],
         Auth!None = 0, Auth!Issued = 1 .. n,
         call \in [Auth!Caller -> Auth!Request],
         NEW c \in Auth!Caller, NEW rows \in [1 .. n -> Auth!Token], NEW new \in Auth!Token,
         Issues(c, n, rows, new), UNCHANGED <<jar, outrun>>,
         \A t \in 1 .. n : /\ rows[t] = token[t] \/ (rows[t].rotated /\ rows[t].revoked)
                           /\ rows[t].session = token[t].session
                           /\ rows[t].late = token[t].late,
         ~new.revoked, ~new.rotated,
         \/ new.session = n + 1
         \/ /\ new.session \in 1 .. n
            /\ new.session \in ended \ outrun => new.late
            /\ \A t \in 1 .. n : rows[t].session = new.session => rows[t].rotated,
         \/ ended' = ended
         \/ new.late /\ ended' = ended \cup {n + 1}
  PROVE  ChainInv'
<1> USE DEF ChainInv
<1>1. /\ token' \in [1 .. n + 1 -> Auth!Token]
      /\ token'[n + 1] = new /\ \A t \in 1 .. n : token'[t] = rows[t]
  BY IssueRow DEF Issues
<1>2. /\ \A d \in Auth!Caller \ {c} : call'[d] = call[d]
      /\ call'[c].pc = "answered" /\ call'[c].token = n + 1
  BY IssueAnswer DEF Issues
<1>3. /\ Auth!Issued' = 1 .. n + 1 /\ n + 1 \notin 1 .. n
      /\ \A t \in 1 .. n + 1 : t \in 1 .. n \/ t = n + 1
      /\ 1 .. n \subseteq 1 .. n + 1 /\ n + 1 \in 1 .. n + 1 /\ n + 1 # Auth!None
  BY <1>1 DEF Auth!Issued
<1>4. /\ \A t \in 1 .. n : token[t].session \in 1 .. n
      /\ ended \subseteq 1 .. n
      /\ \A d \in Auth!Caller : Presents(d) => call[d].token \in 1 .. n
  BY DEF TokensIssued
<1>5. TokensIssued'
  <2>1. jar'.rt \in {Auth!None} \cup Auth!Issued'
    BY <1>3 DEF TokensIssued
  <2>2. ASSUME NEW d \in Auth!Caller
        PROVE  /\ call'[d].token \in {Auth!None} \cup Auth!Issued'
               /\ Presents(d)' => call'[d].token # Auth!None
    <3>1. CASE d = c
      BY <1>2, <1>3, <3>1 DEF Presents
    <3>2. CASE d # c
      <4>1. /\ call'[d] = call[d] /\ call[d].token \in {Auth!None} \cup 1 .. n
            /\ Presents(d) => call[d].token # Auth!None
        BY <1>2, <3>2 DEF TokensIssued
      <4> QED
        BY <1>3, <4>1 DEF Presents
    <3> QED
      BY <3>1, <3>2 DEF Presents
  <2>3. ASSUME NEW t \in Auth!Issued' PROVE token'[t].session \in Auth!Issued'
    BY <1>1, <1>3, <1>4
  <2>4. ended' \subseteq Auth!Issued'
    BY <1>3, <1>4
  <2> QED
    BY <2>1, <2>2, <2>3, <2>4 DEF TokensIssued
<1>6. OneChain'
  <2>1. ASSUME NEW t \in Auth!Issued', token'[t].rotated PROVE token'[t].revoked
    BY <1>1, <1>3, <2>1 DEF OneChain
  <2>2. ASSUME NEW t \in 1 .. n, ~token'[t].rotated
        PROVE  token[t] = token'[t] /\ token'[t].session # new.session
    BY <1>1, <1>3, <1>4, <2>2
  <2>3. ASSUME NEW t \in Auth!Issued', NEW u \in Auth!Issued',
               token'[t].session = token'[u].session, ~token'[t].rotated, ~token'[u].rotated
        PROVE  t = u
    BY <1>1, <1>3, <2>2, <2>3 DEF OneChain
  <2> QED
    BY <2>1, <2>3 DEF OneChain
<1>7. LateIsKnown'
  <2> SUFFICES ASSUME NEW d \in Auth!Caller, call'[d].pc = "refresh",
                      token'[call'[d].token].session \in ended' \ outrun'
               PROVE  token'[call'[d].token].late \/ call'[d].late
    BY DEF LateIsKnown
  <2>1. d # c /\ call'[d] = call[d] /\ call[d].token \in 1 .. n
    BY <1>2, <1>4 DEF Presents
  <2>2. /\ token'[call[d].token].session = token[call[d].token].session
        /\ token'[call[d].token].late = token[call[d].token].late
        /\ token[call[d].token].session \in 1 .. n
    BY <1>1, <1>4, <2>1
  <2>3. token[call[d].token].session \in ended \ outrun
    BY <1>3, <2>1, <2>2
  <2> QED
    BY <2>1, <2>2, <2>3 DEF LateIsKnown
<1>8. Auth!EndedStayEnded'
  <2> SUFFICES ASSUME NEW t \in Auth!Issued', Auth!Live(t)', token'[t].session \in ended' \ outrun'
               PROVE  token'[t].late
    BY DEF Auth!EndedStayEnded
  <2>1. CASE t = n + 1
    BY <1>1, <1>3, <1>4, <2>1
  <2>2. CASE t \in 1 .. n
    <3>1. token'[t] = token[t] /\ ~token[t].revoked /\ ~token[t].expired
      BY <1>1, <2>2 DEF Auth!Live
    <3>2. token[t].session \in ended \ outrun
      BY <1>3, <1>4, <2>2, <3>1
    <3> QED
      BY <2>2, <3>1, <3>2 DEF Auth!EndedStayEnded, Auth!Live
  <2> QED
    BY <1>3, <2>1, <2>2
<1> QED
  BY <1>5, <1>6, <1>7, <1>8

(* Every session is ended, and with it every token: no live one is left. *)
LEMMA ChainAllRevoked ==
  ASSUME Auth!TypeOK, ChainInv, NEW c \in Auth!Caller, NEW next \in Auth!Request,
         token' = Auth!Revoked(token, Auth!Issued), UNCHANGED jar,
         Auth!EndSessions(c, Auth!Sessions, next), outrun' = outrun \ Auth!Sessions,
         next.token = Auth!None, next.pc \notin {"refresh", "replay", "logout"}
  PROVE  ChainInv'
<1> USE DEF ChainInv
<1>1. PICK n \in Nat : token \in [1 .. n -> Auth!Token] /\ Auth!Issued = 1 .. n
  BY TokenRows
<1>2. /\ Auth!Issued' = Auth!Issued
      /\ \A t \in Auth!Issued : /\ token'[t].revoked /\ token'[t].session = token[t].session
                                /\ token'[t].rotated = token[t].rotated
                                /\ token'[t].late = token[t].late
  <2>1. /\ token' \in [1 .. n -> Auth!Token]
        /\ \A t \in 1 .. n : token'[t] = [token[t] EXCEPT !.revoked = TRUE]
    BY <1>1, TokenRevoked
  <2>2. ASSUME NEW t \in 1 .. n
        PROVE  /\ token'[t].revoked /\ token'[t].session = token[t].session
               /\ token'[t].rotated = token[t].rotated
               /\ token'[t].late = token[t].late
    <3>1. /\ [token[t] EXCEPT !.revoked = TRUE].revoked
          /\ [token[t] EXCEPT !.revoked = TRUE].session = token[t].session
          /\ [token[t] EXCEPT !.revoked = TRUE].rotated = token[t].rotated
          /\ [token[t] EXCEPT !.revoked = TRUE].late = token[t].late
      BY <1>1 DEF Auth!Token
    <3> QED
      BY <2>1, <3>1
  <2> QED
    BY <1>1, <2>1, <2>2 DEF Auth!Issued
<1>3. /\ call'[c] = next /\ ended' = ended \cup Auth!Sessions
      /\ \A d \in Auth!Caller \ {c} :
           /\ call'[d].pc = call[d].pc /\ call'[d].token = call[d].token
           /\ call[d].late => call'[d].late
           /\ call[d].pc = "refresh" /\ token[call[d].token].session \in Auth!Sessions
                => call'[d].late
  BY CallsEnded
<1>4. Auth!Sessions \subseteq Auth!Issued
  BY DEF Auth!Sessions, TokensIssued
<1>5. TokensIssued'
  BY <1>2, <1>3, <1>4 DEF TokensIssued, Presents
<1>6. OneChain'
  BY <1>2 DEF OneChain
<1>7. LateIsKnown'
  <2> SUFFICES ASSUME NEW d \in Auth!Caller, call'[d].pc = "refresh",
                      token'[call'[d].token].session \in ended' \ outrun'
               PROVE  token'[call'[d].token].late \/ call'[d].late
    BY DEF LateIsKnown
  <2>1. /\ d # c /\ call[d].pc = "refresh" /\ call'[d].token = call[d].token
        /\ call[d].token \in Auth!Issued
    BY <1>3 DEF TokensIssued, Presents
  <2> QED
    BY <1>2, <1>3, <2>1 DEF LateIsKnown
<1>8. Auth!EndedStayEnded'
  BY <1>2 DEF Auth!EndedStayEnded, Auth!Live
<1> QED
  BY <1>5, <1>6, <1>7, <1>8

(* Logout revokes the one token of its session that is still good for        *)
(* anything, unless it was rotated away, and then the session is outrun.     *)
LEMMA ChainLoggedOut ==
  ASSUME Auth!TypeOK, ChainInv, NEW c \in Auth!Caller, Auth!Logout(c)
  PROVE  ChainInv'
<1> DEFINE rt == call[c].token
           session == token[rt].session
           next == [Auth!Idle EXCEPT !.pc = "loggedOut"]
<1> USE DEF ChainInv
<1>1. PICK n \in Nat : token \in [1 .. n -> Auth!Token] /\ Auth!Issued = 1 .. n
  BY TokenRows
<1>2. rt \in Auth!Issued
  BY DEF Auth!Logout, Auth!At, TokensIssued, Presents
<1>3. /\ token' = Auth!Revoked(token, {rt}) /\ Auth!EndSessions(c, {session}, next)
      /\ jar' = jar
  BY DEF Auth!Logout
<1>4. /\ next \in Auth!Request /\ next.pc = "loggedOut" /\ next.token = Auth!None
  BY DEF Auth!Idle, Auth!Request
<1>5. session \in Auth!Issued /\ session = token[rt].session
  BY <1>2 DEF TokensIssued
<1>6. /\ \A u : u # session => (u \in outrun' <=> u \in outrun)
      /\ session \notin outrun' => ~token[rt].rotated
  BY DEF Auth!Logout
<1> HIDE DEF rt, session, next
<1>8. /\ Auth!Issued' = Auth!Issued
      /\ \A t \in Auth!Issued : /\ token'[t].session = token[t].session
                                /\ token'[t].rotated = token[t].rotated
                                /\ token'[t].late = token[t].late
                                /\ token'[t].expired = token[t].expired
                                /\ ~token'[t].revoked => ~token[t].revoked /\ t # rt
  <2>1. /\ token' \in [1 .. n -> Auth!Token]
        /\ \A t \in 1 .. n : /\ t = rt => token'[t] = [token[t] EXCEPT !.revoked = TRUE]
                             /\ t # rt => token'[t] = token[t]
    BY <1>1, <1>3, TokenRevoked
  <2> QED
    BY <1>1, <2>1 DEF Auth!Issued, Auth!Token
<1>9. /\ call'[c] = next /\ ended' = ended \cup {session}
      /\ \A d \in Auth!Caller \ {c} :
           /\ call'[d].pc = call[d].pc /\ call'[d].token = call[d].token
           /\ call[d].late => call'[d].late
           /\ call[d].pc = "refresh" /\ token[call[d].token].session \in {session}
                => call'[d].late
  BY <1>3, <1>4, CallsEnded
<1>10. call'[c].pc = "loggedOut" /\ call'[c].token = Auth!None
  BY <1>4, <1>9
<1>11. TokensIssued'
  <2>1. \A d \in Auth!Caller : /\ call'[d].token \in {Auth!None} \cup Auth!Issued
                               /\ Presents(d)' => call'[d].token # Auth!None
    BY <1>9, <1>10 DEF TokensIssued, Presents
  <2>2. \A t \in Auth!Issued : token'[t].session \in Auth!Issued
    BY <1>8 DEF TokensIssued
  <2>3. ended' \subseteq Auth!Issued /\ jar'.rt \in {Auth!None} \cup Auth!Issued
    BY <1>3, <1>5, <1>9 DEF TokensIssued
  <2> QED
    BY <1>8, <2>1, <2>2, <2>3 DEF TokensIssued
<1>12. OneChain'
  <2>1. ASSUME NEW t \in Auth!Issued, token'[t].rotated PROVE token'[t].revoked
    BY <1>8, <2>1 DEF OneChain
  <2> QED
    BY <1>8, <2>1 DEF OneChain
<1>13. LateIsKnown'
  <2> SUFFICES ASSUME NEW d \in Auth!Caller, call'[d].pc = "refresh",
                      token'[call'[d].token].session \in ended' \ outrun'
               PROVE  token'[call'[d].token].late \/ call'[d].late
    BY DEF LateIsKnown
  <2>1. /\ d # c /\ call[d].pc = "refresh" /\ call'[d].token = call[d].token
        /\ call[d].token \in Auth!Issued
    BY <1>9, <1>10 DEF TokensIssued, Presents
  <2>2. CASE token[call[d].token].session = session
    BY <1>9, <2>1, <2>2
  <2>3. CASE token[call[d].token].session # session
    BY <1>6, <1>8, <1>9, <2>1, <2>3 DEF LateIsKnown
  <2> QED
    BY <2>2, <2>3
<1>14. Auth!EndedStayEnded'
  <2> SUFFICES ASSUME NEW t \in Auth!Issued, Auth!Live(t)',
                      token'[t].session \in ended' \ outrun'
               PROVE  token'[t].late
    BY <1>8 DEF Auth!EndedStayEnded
  <2>1. ~token[t].revoked /\ ~token[t].expired /\ t # rt /\ ~token[t].rotated
    BY <1>8 DEF Auth!Live, OneChain
  <2>2. token[t].session # session
    BY <1>2, <1>5, <1>6, <1>8, <2>1 DEF OneChain
  <2> QED
    BY <1>6, <1>8, <1>9, <2>1, <2>2 DEF Auth!EndedStayEnded, Auth!Live
<1> QED
  BY <1>11, <1>12, <1>13, <1>14

(* The row and the cookie that names it expire together. *)
LEMMA ChainExpires ==
  ASSUME Auth!TypeOK, ChainInv, Auth!ExpireSession
  PROVE  ChainInv'
<1> USE DEF ChainInv, Auth!ExpireSession
<1>1. PICK n \in Nat : token \in [1 .. n -> Auth!Token] /\ Auth!Issued = 1 .. n
  BY TokenRows
<1>2. jar.rt \in 1 .. n /\ jar'.rt = Auth!None
  BY <1>1 DEF TokensIssued
<1>3. /\ Auth!Issued' = Auth!Issued
      /\ \A t \in Auth!Issued : /\ token'[t].session = token[t].session
                                /\ token'[t].rotated = token[t].rotated
                                /\ token'[t].revoked = token[t].revoked
                                /\ token'[t].late = token[t].late
                                /\ Auth!Live(t)' => Auth!Live(t)
  <2>1. /\ token'[jar.rt] = [token[jar.rt] EXCEPT !.expired = TRUE]
        /\ \A t \in 1 .. n \ {jar.rt} : token'[t] = token[t]
        /\ DOMAIN token' = DOMAIN token
    BY <1>1, <1>2
  <2> QED
    BY <1>1, <1>2, <2>1 DEF Auth!Issued, Auth!Token, Auth!Live
<1>4. TokensIssued'
  BY <1>2, <1>3 DEF TokensIssued, Presents
<1>5. OneChain'
  BY <1>3 DEF OneChain
<1>6. LateIsKnown'
  BY <1>3 DEF LateIsKnown, TokensIssued, Presents
<1>7. Auth!EndedStayEnded'
  BY <1>3 DEF Auth!EndedStayEnded
<1> QED
  BY <1>4, <1>5, <1>6, <1>7

(* Every step keeps the chains of rotations, and ended sessions ended. *)
LEMMA ChainKept ==
  ASSUME Auth!TypeOK, ChainInv, Auth!Next
  PROVE  ChainInv'
<1> USE DEF Auth!db, Auth!page, Auth!hist
<1>1. PICK n \in Nat : /\ n \in 0 .. MaxTokens /\ token \in [1 .. n -> Auth!Token]
                       /\ Auth!Issued = 1 .. n /\ Auth!Cardinality(DOMAIN token) = n
                       /\ Auth!Issued \subseteq Auth!Tokens /\ 0 \notin Auth!Issued
  BY TokenRows
<1>2. /\ DOMAIN token = 1 .. n /\ Auth!Cardinality(1 .. n) = n
      /\ call \in [Auth!Caller -> Auth!Request] /\ Auth!None = 0
  BY <1>1 DEF Auth!TypeOK, Auth!None
<1>3. \A c \in Auth!Caller : call[c].late \in BOOLEAN
  BY <1>2 DEF Auth!Request
<1>4. ASSUME NEW c \in Auth!Caller,
             \/ Auth!RegisterCheck(c) \/ Auth!VerifyRead(c) \/ Auth!LoginRead(c)
             \/ Auth!ChangeRead(c)
      PROVE  ChainInv'
  <2>1. PICK pc \in {"register", "verify", "login", "change"} : Auth!Goto(c, pc)
    BY <1>4 DEF Auth!RegisterCheck, Auth!VerifyRead, Auth!LoginRead, Auth!ChangeRead
  <2>2. UNCHANGED <<token, ended, outrun, jar>>
    BY <1>4 DEF Auth!RegisterCheck, Auth!VerifyRead, Auth!LoginRead, Auth!ChangeRead
  <2>3. /\ \A d \in Auth!Caller \ {c} : call'[d] = call[d]
        /\ call'[c].pc = pc /\ call'[c].token = call[c].token
    BY <1>2, <2>1, CallMoves
  <2> QED
    BY <2>2, <2>3, ChainAside
<1>5. ASSUME NEW c \in Auth!Caller,
             \/ Auth!Receive(c) \/ Auth!RequestFails(c) \/ Auth!SendOtp(c)
             \/ Auth!RefreshFails(c) \/ Auth!RefreshAnswered(c) \/ Auth!NavigateAnswered(c)
             \/ Auth!LoggedOut(c)
      PROVE  ChainInv'
  <2>1. Auth!Refuse(c) /\ UNCHANGED <<token, ended, outrun>>
    BY <1>5 DEF Auth!Receive, Auth!RequestFails, Auth!SendOtp, Auth!RefreshFails,
                Auth!RefreshAnswered, Auth!NavigateAnswered, Auth!LoggedOut
  <2>2. jar'.rt \in {Auth!None, jar.rt, call[c].token}
    <3>1. CASE Auth!Receive(c)
      BY <3>1 DEF Auth!Receive
    <3>2. CASE Auth!RequestFails(c) \/ Auth!SendOtp(c) \/ Auth!RefreshFails(c)
      BY <3>2 DEF Auth!RequestFails, Auth!SendOtp, Auth!RefreshFails
    <3>3. CASE Auth!RefreshAnswered(c) \/ Auth!NavigateAnswered(c)
      <4>1. jar' = jar \/ jar' = [rt |-> call[c].token, at |-> TRUE]
        BY <3>3 DEF Auth!RefreshAnswered, Auth!NavigateAnswered, Auth!Store
      <4> QED
        BY <4>1
    <3>4. CASE Auth!LoggedOut(c)
      BY <3>4 DEF Auth!LoggedOut
    <3> QED
      BY <1>5, <3>1, <3>2, <3>3, <3>4
  <2>3. /\ \A d \in Auth!Caller \ {c} : call'[d] = call[d]
        /\ call'[c].pc = "idle" /\ call'[c].token = Auth!None
    BY <1>2, <2>1, CallMoves
  <2> QED
    BY <2>1, <2>2, <2>3, ChainAside
<1>6. ASSUME NEW c \in Auth!Caller, Auth!InsertUser(c) \/ Auth!InsertOtp(c) PROVE ChainInv'
  <2>1. /\ Auth!Refuse(c) \/ Auth!Goto(c, "code") \/ Auth!Goto(c, "mail")
        /\ UNCHANGED <<token, ended, outrun, jar>>
    BY <1>6 DEF Auth!InsertUser, Auth!InsertOtp
  <2>2. /\ \A d \in Auth!Caller \ {c} : call'[d] = call[d]
        /\ call'[c].pc \in {"idle", "code", "mail"}
        /\ call'[c].token \in {Auth!None, call[c].token}
    BY <1>2, <2>1, CallMoves
  <2> QED
    BY <2>1, <2>2, ChainAside
<1>7. ASSUME NEW c \in Auth!Caller, Auth!LogoutSend(c) PROVE ChainInv'
  BY <1>7, ChainLogoutSent
<1>8. ASSUME NEW c \in Auth!Caller, Auth!VerifyCommit(c) PROVE ChainInv'
  <2> DEFINE new == NewToken(n + 1, Auth!None, FALSE)
  <2>1. Issues(c, n, token, new) /\ UNCHANGED <<jar, ended, outrun>>
    BY <1>1, <1>2, <1>8, VerifyIssues DEF Auth!VerifyCommit
  <2>2. new \in Auth!Token /\ ~new.revoked /\ ~new.rotated /\ new.session = n + 1
    BY <2>1 DEF Issues, NewToken, Auth!Token
  <2> HIDE DEF new
  <2> QED
    BY <1>1, <1>2, <2>1, <2>2, ChainIssued
<1>9. ASSUME NEW c \in Auth!Caller, Auth!LoginIssue(c) PROVE ChainInv'
  <2> DEFINE new == NewToken(n + 1, Auth!None, call[c].late)
  <2>1. Issues(c, n, token, new) /\ UNCHANGED <<jar, outrun>>
    BY <1>1, <1>2, <1>9, LoginIssues DEF Auth!LoginIssue
  <2>2. new \in Auth!Token /\ ~new.revoked /\ ~new.rotated /\ new.session = n + 1
    BY <1>3, <2>1 DEF Issues, NewToken, Auth!Token
  <2>3. new.late = call[c].late
    BY DEF NewToken
  <2> HIDE DEF new
  <2>4. ended' = IF call[c].late THEN ended \cup {n + 1} ELSE ended
    BY <1>1, <1>2, <1>9 DEF Auth!LoginIssue, Auth!Issued
  <2>5. \/ ended' = ended
        \/ new.late /\ ended' = ended \cup {n + 1}
    BY <2>3, <2>4
  <2> QED
    BY <1>1, <1>2, <2>1, <2>2, <2>5, ChainIssued
<1>10. ASSUME NEW c \in Auth!Caller, Auth!RefreshCommit(c) PROVE ChainInv'
  <2> DEFINE rt == call[c].token
             session == IF token[rt].rotated THEN Auth!None ELSE token[rt].session
             late == token[rt].late \/ call[c].late
             new == NewToken(n + 1, session, late)
  <2>1. rt \in 1 .. n /\ call[c].pc = "refresh"
    BY <1>1, <1>10 DEF Auth!RefreshCommit, Auth!At, ChainInv, TokensIssued, Presents
  <2>2. /\ Rotated(rt) \in [1 .. n -> Auth!Token] /\ Issues(c, n, Rotated(rt), new)
        /\ Rotated(rt)[rt].rotated /\ Rotated(rt)[rt].revoked
        /\ \A t \in 1 .. n : /\ t # rt => Rotated(rt)[t] = token[t]
                             /\ Rotated(rt)[t].session = token[t].session
                             /\ Rotated(rt)[t].late = token[t].late
    BY <1>1, <1>2, <1>10, <2>1, RefreshIssues, RotatedRows
  <2>3. /\ n + 1 \in Auth!Tokens /\ token[rt].late \in BOOLEAN /\ call[c].late \in BOOLEAN
        /\ token[rt].session \in 1 .. n /\ token[rt].session \in Auth!Tokens
    BY <1>1, <1>3, <2>1, <2>2 DEF Issues, ChainInv, TokensIssued, Auth!Token
  <2>4. new \in Auth!Token /\ ~new.revoked /\ ~new.rotated
    BY <2>3 DEF NewToken, Auth!Token
  <2>5. new.session = IF session = Auth!None THEN n + 1 ELSE session
    BY DEF NewToken
  <2>6. late => new.late
    BY DEF NewToken
  <2> HIDE DEF new
  <2>7. CASE token[rt].rotated
    <3>1. new.session = n + 1
      BY <2>5, <2>7
    <3> QED
      BY <1>1, <1>2, <1>10, <2>1, <2>2, <2>4, <3>1, ChainIssued DEF Auth!RefreshCommit
  <2>8. CASE ~token[rt].rotated
    <3>1. new.session = token[rt].session
      BY <1>1, <1>2, <2>3, <2>5, <2>8
    <3>2. new.session \in ended \ outrun => new.late
      BY <2>1, <2>6, <3>1 DEF ChainInv, LateIsKnown
    <3>3. \A t \in 1 .. n : Rotated(rt)[t].session = new.session => Rotated(rt)[t].rotated
      BY <1>1, <2>1, <2>2, <2>8, <3>1 DEF ChainInv, OneChain
    <3> QED
      BY <1>1, <1>2, <1>10, <2>1, <2>2, <2>3, <2>4, <3>1, <3>2, <3>3, ChainIssued
         DEF Auth!RefreshCommit
  <2> QED
    BY <2>7, <2>8
<1>11. ASSUME NEW c \in Auth!Caller, Auth!RevokeAll(c) PROVE ChainInv'
  <2> DEFINE next == [Auth!Idle EXCEPT !.pc = "answered"]
  <2>1. next \in Auth!Request /\ next.token = Auth!None /\ next.pc = "answered"
    BY DEF Auth!Idle, Auth!Request
  <2>2. /\ token' = Auth!Revoked(token, Auth!Issued) /\ UNCHANGED jar
        /\ Auth!EndSessions(c, Auth!Sessions, next) /\ outrun' = outrun \ Auth!Sessions
    BY <1>11 DEF Auth!RevokeAll
  <2> HIDE DEF next
  <2> QED
    BY <2>1, <2>2, ChainAllRevoked
<1>12. ASSUME NEW c \in Auth!Caller, Auth!ChangePassword(c) PROVE ChainInv'
  <2>1. /\ Auth!Idle \in Auth!Request /\ Auth!Idle.token = Auth!None
        /\ Auth!Idle.pc = "idle"
    BY DEF Auth!Idle, Auth!Request
  <2> QED
    BY <1>12, <2>1, ChainAllRevoked DEF Auth!ChangePassword
<1>13. ASSUME NEW c \in Auth!Caller, Auth!Logout(c) PROVE ChainInv'
  BY <1>13, ChainLoggedOut
<1>14. ASSUME NEW c \in Auth!Caller, Auth!StartRefresh(c) \/ Auth!Navigate(c) PROVE ChainInv'
  <2>1. Auth!RefreshRead(c, jar.rt) /\ UNCHANGED <<token, ended, outrun, jar>>
    BY <1>14 DEF Auth!StartRefresh, Auth!Navigate
  <2> QED
    BY <2>1, ChainRead
<1>15. ASSUME NEW f \in Fetch, \/ Auth!FetchUnauthorized(f) \/ Auth!JoinRefresh(f) \/ Auth!Retry(f)
       PROVE  ChainInv'
  <2>1. UNCHANGED <<token, ended, outrun, call, jar>>
    BY <1>15 DEF Auth!FetchUnauthorized, Auth!JoinRefresh, Auth!Retry
  <2> QED
    BY <2>1, ChainStill
<1>16. ASSUME Auth!ExpireOtp \/ Auth!ExpireAccess PROVE ChainInv'
  <2>1. UNCHANGED <<token, ended, outrun, call>> /\ jar'.rt = jar.rt
    BY <1>16 DEF Auth!ExpireOtp, Auth!ExpireAccess, Auth!TypeOK
  <2> QED
    BY <2>1, ChainStill
<1>17. ASSUME Auth!ExpireSession PROVE ChainInv'
  BY <1>17, ChainExpires
<1>18. ASSUME NEW c \in Auth!Caller, Auth!LogoutRefused(c) PROVE ChainInv'
  <2>1. /\ \A d \in Auth!Caller \ {c} : call'[d] = call[d]
        /\ call'[c].pc = "loggedOut" /\ call'[c].token = Auth!None
    BY <1>2, <1>18 DEF Auth!LogoutRefused, Auth!Idle
  <2>2. UNCHANGED <<token, ended, outrun, jar>>
    BY <1>18 DEF Auth!LogoutRefused
  <2> QED
    BY <2>1, <2>2, ChainAside
<1> QED
  BY <1>4, <1>5, <1>6, <1>7, <1>8, <1>9, <1>10, <1>11, <1>12, <1>13, <1>14, <1>15, <1>16,
     <1>17, <1>18, AccountSteps

-----------------------------------------------------------------------------
(* The one-time code *)

(* A step that touches neither the account nor the code, and starts neither  *)
(* a registration's second half nor a verification.                          *)
LEMMA CodeAside ==
  ASSUME CodeInv, UNCHANGED <<user, otp, workspaces, overlapped>>,
         \A c \in Auth!Caller : call'[c].pc \in {"code", "verify"} => call'[c].pc = call[c].pc
  PROVE  CodeInv'
<1>1. CodeInOrder'
  BY DEF CodeInv, CodeInOrder
<1>2. VerifiedOnce'
  BY DEF CodeInv, VerifiedOnce, Auth!OneWorkspace
<1> QED
  BY <1>1, <1>2 DEF CodeInv

(* Every step keeps the code spent once. *)
LEMMA CodeKept ==
  ASSUME Auth!TypeOK, ChainInv, CodeInv, Auth!Next
  PROVE  CodeInv'
<1> USE DEF Auth!db, Auth!page, Auth!hist
<1>1. PICK n \in Nat : /\ n \in 0 .. MaxTokens /\ token \in [1 .. n -> Auth!Token]
                       /\ Auth!Issued = 1 .. n /\ Auth!Cardinality(DOMAIN token) = n
                       /\ Auth!Issued \subseteq Auth!Tokens /\ 0 \notin Auth!Issued
  BY TokenRows
<1>2. /\ DOMAIN token = 1 .. n /\ Auth!Cardinality(1 .. n) = n /\ workspaces \in Nat
      /\ call \in [Auth!Caller -> Auth!Request]
  BY <1>1 DEF Auth!TypeOK
<1>3. ASSUME NEW c \in Auth!Caller, Auth!VerifyRead(c) PROVE CodeInv'
  <2>1. /\ \A d \in Auth!Caller \ {c} : call'[d] = call[d]
        /\ call'[c].pc = "verify"
    BY <1>2, <1>3, CallMoves DEF Auth!VerifyRead
  <2>2. /\ workspaces = 0 /\ otp = "valid" /\ UNCHANGED <<user, otp, workspaces>>
        /\ overlapped' = (overlapped \/ \E d \in Auth!Caller : call[d].pc = "verify")
    BY <1>2, <1>3 DEF Auth!VerifyRead, Auth!At, CodeInv, CodeInOrder
  <2>3. CodeInOrder'
    BY <2>1, <2>2 DEF CodeInv, CodeInOrder
  <2>4. /\ overlapped => overlapped'
        /\ \A d \in Auth!Caller : call[d].pc = "verify" => overlapped'
    BY <2>2
  <2>5. \A d, e \in Auth!Caller : call'[d].pc = "verify" /\ call'[e].pc = "verify" /\ d # e
                                => overlapped'
    BY <2>1, <2>4
  <2>6. VerifiedOnce'
    BY <2>2, <2>5 DEF VerifiedOnce, Auth!OneWorkspace
  <2> QED
    BY <2>3, <2>6 DEF CodeInv
<1>4. ASSUME NEW c \in Auth!Caller, Auth!InsertUser(c) PROVE CodeInv'
  <2>1. CASE user = "absent"
    <3>1. /\ \A d \in Auth!Caller \ {c} : call'[d] = call[d]
          /\ call'[c].pc = "code"
      BY <1>2, <1>4, <2>1, CallMoves DEF Auth!InsertUser
    <3>2. user' = "unverified" /\ UNCHANGED <<otp, workspaces, overlapped>>
      BY <1>4, <2>1 DEF Auth!InsertUser
    <3>3. CodeInOrder'
      BY <2>1, <3>1, <3>2 DEF CodeInv, CodeInOrder
    <3>4. VerifiedOnce'
      BY <3>1, <3>2 DEF CodeInv, VerifiedOnce, Auth!OneWorkspace
    <3> QED
      BY <3>3, <3>4 DEF CodeInv
  <2>2. CASE user # "absent"
    <3>1. /\ \A d \in Auth!Caller \ {c} : call'[d] = call[d]
          /\ call'[c].pc = "idle"
      BY <1>2, <1>4, <2>2, CallMoves DEF Auth!InsertUser
    <3>2. UNCHANGED <<user, otp, workspaces, overlapped>>
      BY <1>4, <2>2 DEF Auth!InsertUser
    <3> QED
      BY <3>1, <3>2, CodeAside
  <2> QED
    BY <2>1, <2>2
<1>5. ASSUME NEW c \in Auth!Caller, Auth!InsertOtp(c) PROVE CodeInv'
  <2>1. /\ \A d \in Auth!Caller \ {c} : call'[d] = call[d]
        /\ call'[c].pc = "mail"
    BY <1>2, <1>5, CallMoves DEF Auth!InsertOtp
  <2>2. /\ call[c].pc = "code" /\ otp' = "unsent" /\ UNCHANGED <<user, workspaces, overlapped>>
    BY <1>5 DEF Auth!InsertOtp, Auth!At
  <2>3. CodeInOrder'
    BY <1>2, <2>1, <2>2 DEF CodeInv, CodeInOrder
  <2>4. VerifiedOnce'
    BY <2>1, <2>2 DEF CodeInv, VerifiedOnce, Auth!OneWorkspace
  <2> QED
    BY <2>3, <2>4 DEF CodeInv
<1>6. ASSUME NEW c \in Auth!Caller, Auth!SendOtp(c) PROVE CodeInv'
  <2>1. /\ \A d \in Auth!Caller \ {c} : call'[d] = call[d]
        /\ call'[c].pc = "idle"
    BY <1>2, <1>6, CallMoves DEF Auth!SendOtp
  <2>2. /\ otp' = IF otp = "unsent" THEN "valid" ELSE otp
        /\ UNCHANGED <<user, workspaces, overlapped>>
    BY <1>6 DEF Auth!SendOtp
  <2>3. CodeInOrder'
    BY <2>1, <2>2 DEF CodeInv, CodeInOrder
  <2>4. VerifiedOnce'
    BY <2>1, <2>2 DEF CodeInv, VerifiedOnce, Auth!OneWorkspace
  <2> QED
    BY <2>3, <2>4 DEF CodeInv
<1>7. ASSUME NEW c \in Auth!Caller, Auth!VerifyCommit(c) PROVE CodeInv'
  <2>1. Issues(c, n, token, NewToken(n + 1, Auth!None, FALSE))
    BY <1>1, <1>2, <1>7, VerifyIssues
  <2>2. /\ \A d \in Auth!Caller \ {c} : call'[d] = call[d]
        /\ call'[c].pc = "answered"
    BY <1>2, <2>1, IssueAnswer DEF Issues
  <2>3. /\ call[c].pc = "verify" /\ otp' = "used" /\ user' = "verified"
        /\ workspaces' = workspaces + 1 /\ UNCHANGED overlapped
    BY <1>7 DEF Auth!VerifyCommit, Auth!At
  <2>4. CodeInOrder'
    BY <1>2, <2>2, <2>3 DEF CodeInv, CodeInOrder
  <2>5. VerifiedOnce'
    BY <1>2, <2>2, <2>3 DEF CodeInv, VerifiedOnce, Auth!OneWorkspace
  <2> QED
    BY <2>4, <2>5 DEF CodeInv
<1>8. ASSUME Auth!ExpireOtp PROVE CodeInv'
  <2>1. CodeInOrder'
    BY <1>8 DEF Auth!ExpireOtp, CodeInv, CodeInOrder
  <2>2. VerifiedOnce'
    BY <1>8 DEF Auth!ExpireOtp, CodeInv, VerifiedOnce, Auth!OneWorkspace
  <2> QED
    BY <2>1, <2>2 DEF CodeInv
<1>9. ASSUME NEW c \in Auth!Caller,
             \/ Auth!Receive(c) \/ Auth!RequestFails(c) \/ Auth!RefreshFails(c)
             \/ Auth!RefreshAnswered(c) \/ Auth!NavigateAnswered(c) \/ Auth!LoggedOut(c)
      PROVE  CodeInv'
  <2>1. Auth!Refuse(c) /\ UNCHANGED <<user, otp, workspaces, overlapped>>
    BY <1>9 DEF Auth!Receive, Auth!RequestFails, Auth!RefreshFails, Auth!RefreshAnswered,
                Auth!NavigateAnswered, Auth!LoggedOut
  <2>2. /\ \A d \in Auth!Caller \ {c} : call'[d] = call[d]
        /\ call'[c].pc = "idle"
    BY <1>2, <2>1, CallMoves
  <2> QED
    BY <2>1, <2>2, CodeAside
<1>10. ASSUME NEW c \in Auth!Caller,
              Auth!RegisterCheck(c) \/ Auth!LoginRead(c) \/ Auth!ChangeRead(c)
       PROVE  CodeInv'
  <2>1. PICK pc \in {"register", "login", "change"} : Auth!Goto(c, pc)
    BY <1>10 DEF Auth!RegisterCheck, Auth!LoginRead, Auth!ChangeRead
  <2>2. UNCHANGED <<user, otp, workspaces, overlapped>>
    BY <1>10 DEF Auth!RegisterCheck, Auth!LoginRead, Auth!ChangeRead
  <2>3. /\ \A d \in Auth!Caller \ {c} : call'[d] = call[d]
        /\ call'[c].pc = pc
    BY <1>2, <2>1, CallMoves
  <2> QED
    BY <2>2, <2>3, CodeAside
<1>11. ASSUME NEW c \in Auth!Caller, Auth!LogoutSend(c) \/ Auth!LogoutRefused(c)
       PROVE  CodeInv'
  <2>1. /\ \A d \in Auth!Caller \ {c} : call'[d] = call[d]
        /\ call'[c].pc \in {"logout", "loggedOut"}
    BY <1>2, <1>11 DEF Auth!LogoutSend, Auth!LogoutRefused, Auth!Idle
  <2>2. UNCHANGED <<user, otp, workspaces, overlapped>>
    BY <1>11 DEF Auth!LogoutSend, Auth!LogoutRefused
  <2> QED
    BY <2>1, <2>2, CodeAside
<1>12. ASSUME NEW c \in Auth!Caller, Auth!LoginIssue(c) PROVE CodeInv'
  <2>1. Issues(c, n, token, NewToken(n + 1, Auth!None, call[c].late))
    BY <1>1, <1>2, <1>12, LoginIssues
  <2>2. /\ \A d \in Auth!Caller \ {c} : call'[d] = call[d]
        /\ call'[c].pc = "answered"
    BY <1>2, <2>1, IssueAnswer DEF Issues
  <2> QED
    BY <1>12, <2>2, CodeAside DEF Auth!LoginIssue
<1>13. ASSUME NEW c \in Auth!Caller, Auth!RefreshCommit(c) PROVE CodeInv'
  <2>1. call[c].token \in 1 .. n
    BY <1>1, <1>13 DEF Auth!RefreshCommit, Auth!At, ChainInv, TokensIssued, Presents
  <2>2. /\ n + 1 \in Auth!Tokens
        /\ call' = [call EXCEPT ![c] = [Auth!Idle EXCEPT !.pc = "answered", !.token = n + 1]]
    BY <1>1, <1>2, <1>13, <2>1, RefreshIssues DEF Issues
  <2>3. /\ \A d \in Auth!Caller \ {c} : call'[d] = call[d]
        /\ call'[c].pc = "answered"
    BY <1>2, <2>2, IssueAnswer
  <2> QED
    BY <1>13, <2>3, CodeAside DEF Auth!RefreshCommit
<1>14. ASSUME NEW c \in Auth!Caller, NEW which, NEW next \in Auth!Request,
              Auth!EndSessions(c, which, next), next.pc \notin {"code", "verify"},
              UNCHANGED <<user, otp, workspaces, overlapped>>
       PROVE  CodeInv'
  <2>1. \A d \in Auth!Caller : call'[d].pc = call[d].pc \/ call'[d] = next
    BY <1>14, CallsEnded
  <2> QED
    BY <1>14, <2>1, CodeAside
<1>15. ASSUME NEW c \in Auth!Caller,
              Auth!RevokeAll(c) \/ Auth!ChangePassword(c) \/ Auth!Logout(c)
       PROVE  CodeInv'
  <2>1. /\ Auth!Idle \in Auth!Request /\ Auth!Idle.pc = "idle"
        /\ [Auth!Idle EXCEPT !.pc = "answered"] \in Auth!Request
        /\ [Auth!Idle EXCEPT !.pc = "answered"].pc = "answered"
    BY DEF Auth!Idle, Auth!Request
  <2>2. UNCHANGED <<user, otp, workspaces, overlapped>>
    BY <1>15 DEF Auth!RevokeAll, Auth!ChangePassword, Auth!Logout
  <2>3. CASE Auth!RevokeAll(c)
    <3>1. Auth!EndSessions(c, Auth!Sessions, [Auth!Idle EXCEPT !.pc = "answered"])
      BY <2>3 DEF Auth!RevokeAll
    <3> QED
      BY <1>14, <2>1, <2>2, <3>1
  <2>4. CASE Auth!ChangePassword(c)
    <3>1. Auth!EndSessions(c, Auth!Sessions, Auth!Idle)
      BY <2>4 DEF Auth!ChangePassword
    <3> QED
      BY <1>14, <2>1, <2>2, <3>1
  <2>5. CASE Auth!Logout(c)
    <3> DEFINE next == [Auth!Idle EXCEPT !.pc = "loggedOut"]
    <3>1. /\ Auth!EndSessions(c, {token[call[c].token].session}, next)
          /\ next \in Auth!Request /\ next.pc = "loggedOut"
      BY <2>5 DEF Auth!Logout, Auth!Idle, Auth!Request
    <3> HIDE DEF next
    <3> QED
      BY <1>14, <2>2, <3>1
  <2> QED
    BY <1>15, <2>3, <2>4, <2>5
<1>16. ASSUME NEW c \in Auth!Caller, Auth!StartRefresh(c) \/ Auth!Navigate(c) PROVE CodeInv'
  <2>1. /\ Auth!RefreshRead(c, jar.rt) /\ UNCHANGED <<user, otp, workspaces, overlapped>>
        /\ jar.rt \in {Auth!None} \cup Auth!Issued
    BY <1>16 DEF Auth!StartRefresh, Auth!Navigate, ChainInv, TokensIssued
  <2>2. /\ \A d \in Auth!Caller \ {c} : call'[d] = call[d]
        /\ call'[c].pc \in {"answered", "replay", "refresh"}
    BY <2>1, RefreshReads
  <2> QED
    BY <2>1, <2>2, CodeAside
<1>17. ASSUME NEW f \in Fetch, \/ Auth!FetchUnauthorized(f) \/ Auth!JoinRefresh(f) \/ Auth!Retry(f)
       PROVE  CodeInv'
  <2>1. UNCHANGED <<call, user, otp, workspaces, overlapped>>
    BY <1>17 DEF Auth!FetchUnauthorized, Auth!JoinRefresh, Auth!Retry
  <2> QED
    BY <2>1, CodeAside
<1>18. ASSUME Auth!ExpireAccess \/ Auth!ExpireSession PROVE CodeInv'
  <2>1. UNCHANGED <<call, user, otp, workspaces, overlapped>>
    BY <1>18 DEF Auth!ExpireAccess, Auth!ExpireSession
  <2> QED
    BY <2>1, CodeAside
<1> QED
  BY <1>3, <1>4, <1>5, <1>6, <1>7, <1>8, <1>9, <1>10, <1>11, <1>12, <1>13, <1>15, <1>16,
     <1>17, <1>18, AccountSteps

-----------------------------------------------------------------------------
(* The cookie jar and the refreshes of the tabs *)

Refreshers == Nav \cup Fetch

(* An answer on its way to the browser brings a new token. *)
BringsToken(c) == call[c].pc = "answered" /\ call[c].token # Auth!None

(* A tab refreshes once at a time, and a navigation or a tab that refreshes  *)
(* beside another is known to contend.                                       *)
OneRefresh ==
  /\ \A c \in Refreshers : call[c].pc \in {"idle", "refresh", "replay", "answered"}
  /\ \A c \in Form : call[c].pc \notin {"refresh", "replay"}
  /\ \A f, g \in Fetch : TabOf[f] = TabOf[g] /\ call[f].pc # "idle" /\ call[g].pc # "idle" => f = g
  /\ \A f \in Fetch : TabOf[f] \notin refreshing => call[f].pc = "idle"
  /\ ~contended => \A c, d \in Refreshers : call[c].pc # "idle" /\ call[d].pc # "idle" => c = d

(* A token that is on its way to the browser is nobody else's yet: it has    *)
(* neither been presented nor can the clock have expired its cookie.         *)
AnswersApart ==
  \A c \in Auth!Caller : BringsToken(c) =>
    /\ ~token[call[c].token].rotated /\ ~token[call[c].token].expired
    /\ call[c].token # jar.rt
    /\ \A d \in Auth!Caller \ {c} : call[d].token # call[c].token

(* Tokens are revoked by their rotation or with their session, and the       *)
(* cookie goes when its row expires.                                         *)
RevokedKnown ==
  /\ \A t \in Auth!Issued : token[t].revoked => token[t].rotated \/ token[t].session \in ended
  /\ jar.rt # Auth!None => ~token[jar.rt].expired

(* While the cookie is a token that was rotated away, the answer that brings *)
(* the next one is under way, so nobody presents the old one again.          *)
RotationKnown ==
  ~contended /\ ~lost =>
    /\ jar.rt # Auth!None /\ token[jar.rt].rotated => \E c \in Refreshers : BringsToken(c)
    /\ \A c \in Refreshers : call[c].pc = "replay" => ~token[call[c].token].rotated

JarInv == OneRefresh /\ AnswersApart /\ RevokedKnown /\ RotationKnown /\ Auth!NoFalseTheft

(* Forms, navigations and the page's fetches are different callers. *)
LEMMA WhoCalls ==
  /\ Auth!Caller = Form \cup Refreshers /\ Form \cap Refreshers = {}
  /\ Nav \cap Fetch = {} /\ Refreshers = Nav \cup Fetch
BY CallersDiffer DEF Auth!Caller, Refreshers

(* What a step that only adds to the histories keeps of them. *)
HistoryGrows ==
  /\ contended => contended'
  /\ lost => lost'
  /\ ended \subseteq ended'

(* A form's step that brings no token, or none at all. *)
LEMMA JarAside ==
  ASSUME JarInv, HistoryGrows, UNCHANGED <<token, refreshing, replayed>>, NEW c \in Form,
         jar'.rt \in {Auth!None, jar.rt},
         \A d \in Auth!Caller \ {c} : call'[d] = call[d],
         \/ call'[c] = call[c]
         \/ /\ call'[c].pc \notin {"refresh", "replay", "answered"}
            /\ call'[c].token \in {Auth!None, call[c].token, jar.rt}
  PROVE  JarInv'
<1> USE WhoCalls DEF JarInv, HistoryGrows
<1>1. OneRefresh'
  BY DEF OneRefresh
<1>2. \A d \in Auth!Caller : BringsToken(d)' => BringsToken(d) /\ call'[d] = call[d]
  BY DEF BringsToken
<1>3. \A d \in Refreshers : call'[d] = call[d] /\ (BringsToken(d) => BringsToken(d)')
  BY DEF BringsToken
<1>4. AnswersApart'
  <2> SUFFICES ASSUME NEW d \in Auth!Caller, BringsToken(d)'
               PROVE  /\ ~token[call[d].token].rotated /\ ~token[call[d].token].expired
                      /\ call[d].token # jar'.rt
                      /\ \A e \in Auth!Caller \ {d} : call'[e].token # call[d].token
    BY <1>2 DEF AnswersApart
  <2> QED
    BY <1>2 DEF AnswersApart, BringsToken
<1>5. RevokedKnown'
  BY DEF RevokedKnown, Auth!Issued
<1>6. RotationKnown'
  BY <1>3 DEF RotationKnown
<1>7. Auth!NoFalseTheft'
  BY DEF Auth!NoFalseTheft
<1> QED
  BY <1>1, <1>4, <1>5, <1>6, <1>7

(* A step of the page or of the clock that touches no call and no token. *)
LEMMA JarStill ==
  ASSUME JarInv, HistoryGrows, UNCHANGED <<token, call, refreshing, replayed>>,
         jar'.rt \in {Auth!None, jar.rt}
  PROVE  JarInv'
<1> USE WhoCalls DEF JarInv, HistoryGrows
<1>1. OneRefresh'
  BY DEF OneRefresh
<1>2. \A d \in Auth!Caller : BringsToken(d)' <=> BringsToken(d)
  BY DEF BringsToken
<1>3. AnswersApart'
  BY <1>2 DEF AnswersApart, BringsToken
<1>4. RevokedKnown'
  BY DEF RevokedKnown, Auth!Issued
<1>5. RotationKnown'
  BY <1>2 DEF RotationKnown
<1>6. Auth!NoFalseTheft'
  BY DEF Auth!NoFalseTheft
<1> QED
  BY <1>1, <1>3, <1>4, <1>5, <1>6

(* The row and the cookie that names it expire together. *)
LEMMA JarExpires ==
  ASSUME Auth!TypeOK, ChainInv, JarInv, Auth!ExpireSession
  PROVE  JarInv'
<1> USE WhoCalls DEF JarInv
<1>1. PICK n \in Nat : token \in [1 .. n -> Auth!Token] /\ Auth!Issued = 1 .. n
  BY TokenRows
<1>2. /\ jar.rt \in 1 .. n /\ jar'.rt = Auth!None
      /\ UNCHANGED <<call, refreshing, contended, lost, ended, replayed>>
      /\ token' = [token EXCEPT ![jar.rt].expired = TRUE]
  BY <1>1 DEF ChainInv, TokensIssued, Auth!ExpireSession, Auth!page
<1>3. /\ token'[jar.rt] = [token[jar.rt] EXCEPT !.expired = TRUE]
      /\ \A t \in 1 .. n \ {jar.rt} : token'[t] = token[t]
      /\ DOMAIN token' = 1 .. n
  BY <1>1, <1>2
<1>4. \A t \in 1 .. n : /\ token'[t].session = token[t].session
                        /\ token'[t].rotated = token[t].rotated
                        /\ token'[t].revoked = token[t].revoked
                        /\ t # jar.rt => token'[t].expired = token[t].expired
  <2>1. /\ token'[jar.rt].session = token[jar.rt].session
        /\ token'[jar.rt].rotated = token[jar.rt].rotated
        /\ token'[jar.rt].revoked = token[jar.rt].revoked
    BY <1>1, <1>2, <1>3 DEF Auth!Token
  <2> QED
    BY <1>3, <2>1
<1>5. \A c \in Auth!Caller : /\ call[c].token # Auth!None => call[c].token \in 1 .. n
                             /\ Presents(c) => call[c].token # Auth!None
  BY <1>1 DEF ChainInv, TokensIssued
<1>6. \A d \in Auth!Caller : BringsToken(d)' <=> BringsToken(d)
  BY <1>2 DEF BringsToken
<1>7. OneRefresh'
  BY <1>2 DEF OneRefresh
<1>8. AnswersApart'
  <2> SUFFICES ASSUME NEW d \in Auth!Caller, BringsToken(d)
               PROVE  /\ ~token'[call[d].token].rotated /\ ~token'[call[d].token].expired
                      /\ call[d].token # Auth!None
                      /\ \A e \in Auth!Caller \ {d} : call[e].token # call[d].token
    BY <1>2, <1>6 DEF AnswersApart
  <2> QED
    BY <1>4, <1>5 DEF AnswersApart, BringsToken
<1>9. RevokedKnown'
  BY <1>1, <1>2, <1>3, <1>4 DEF RevokedKnown, Auth!Issued
<1>10. RotationKnown'
  BY <1>2, <1>4, <1>5 DEF RotationKnown, Presents
<1>11. Auth!NoFalseTheft'
  BY <1>2 DEF Auth!NoFalseTheft
<1> QED
  BY <1>7, <1>8, <1>9, <1>10, <1>11

(* A call that ends frees its tab for the next refresh, if it was one.        *)
LEMMA RefreshEnds ==
  ASSUME OneRefresh, UNCHANGED contended, NEW c \in Auth!Caller,
         \A d \in Auth!Caller \ {c} : call'[d] = call[d],
         call'[c].pc = "idle", call[c].pc # "idle",
         refreshing' = refreshing \/ (c \in Fetch /\ refreshing' = refreshing \ {TabOf[c]})
  PROVE  OneRefresh'
<1> USE WhoCalls
<1>1. \A d \in Auth!Caller : call'[d].pc = call[d].pc \/ (d = c /\ call'[d].pc = "idle")
  OBVIOUS
<1>2. ASSUME NEW f \in Fetch, TabOf[f] \notin refreshing' PROVE call'[f].pc = "idle"
  <2>1. CASE TabOf[f] \notin refreshing
    BY <1>1, <2>1 DEF OneRefresh
  <2>2. CASE c \in Fetch /\ TabOf[f] = TabOf[c]
    <3>1. f # c => call[f].pc = "idle"
      BY <2>2 DEF OneRefresh
    <3> QED
      BY <1>1, <3>1
  <2> QED
    BY <1>2, <2>1, <2>2
<1>3. /\ \A d \in Refreshers : call'[d].pc \in {"idle", "refresh", "replay", "answered"}
      /\ \A d \in Form : call'[d].pc \notin {"refresh", "replay"}
  BY <1>1 DEF OneRefresh
<1>4. \A f, g \in Fetch :
        TabOf[f] = TabOf[g] /\ call'[f].pc # "idle" /\ call'[g].pc # "idle" => f = g
  BY <1>1 DEF OneRefresh
<1>5. ~contended' => \A d, e \in Refreshers : call'[d].pc # "idle" /\ call'[e].pc # "idle" => d = e
  BY <1>1 DEF OneRefresh
<1> QED
  BY <1>2, <1>3, <1>4, <1>5 DEF OneRefresh

(* The cookies of an answer replace those of the jar. *)
LEMMA JarStores ==
  ASSUME JarInv, UNCHANGED <<token, ended, contended, lost, replayed>>,
         NEW c \in Auth!Caller, call[c].pc = "answered",
         \A d \in Auth!Caller \ {c} : call'[d] = call[d],
         call'[c].pc = "idle", call'[c].token = Auth!None,
         \/ jar'.rt = call[c].token
         \/ jar'.rt = jar.rt /\ call[c].token = Auth!None,
         refreshing' = refreshing \/ (c \in Fetch /\ refreshing' = refreshing \ {TabOf[c]})
  PROVE  JarInv'
<1> USE WhoCalls DEF JarInv
<1>1. OneRefresh'
  BY RefreshEnds
<1>2. \A d \in Auth!Caller : BringsToken(d)' <=> BringsToken(d) /\ d # c
  BY DEF BringsToken
<1>3. AnswersApart'
  <2> SUFFICES ASSUME NEW d \in Auth!Caller, BringsToken(d), d # c
               PROVE  /\ ~token[call[d].token].rotated /\ ~token[call[d].token].expired
                      /\ call[d].token # jar'.rt
                      /\ \A e \in Auth!Caller \ {d} : call'[e].token # call[d].token
    BY <1>2 DEF AnswersApart
  <2> QED
    BY DEF AnswersApart, BringsToken
<1>4. RevokedKnown'
  BY DEF RevokedKnown, Auth!Issued, AnswersApart, BringsToken
<1>5. RotationKnown'
  <2> SUFFICES ASSUME ~contended, ~lost
               PROVE  /\ jar'.rt # Auth!None /\ token[jar'.rt].rotated
                           => \E d \in Refreshers : BringsToken(d)'
                      /\ \A d \in Refreshers : call'[d].pc = "replay" => ~token[call'[d].token].rotated
    BY DEF RotationKnown
  <2>1. ASSUME jar'.rt # Auth!None, token[jar'.rt].rotated
        PROVE  \E d \in Refreshers : BringsToken(d)'
    <3>1. call[c].token = Auth!None /\ jar'.rt = jar.rt
      BY <2>1 DEF AnswersApart, BringsToken
    <3>2. PICK d \in Refreshers : BringsToken(d)
      BY <2>1, <3>1 DEF RotationKnown
    <3> QED
      BY <1>2, <3>1, <3>2 DEF BringsToken
  <2> QED
    BY <2>1 DEF RotationKnown
<1>6. Auth!NoFalseTheft'
  BY DEF Auth!NoFalseTheft
<1> QED
  BY <1>1, <1>3, <1>4, <1>5, <1>6

(* A refresh that fails: a new token it was to bring is known to be lost. *)
LEMMA JarRefreshFails ==
  ASSUME JarInv, UNCHANGED <<token, ended, contended, jar, replayed>>,
         NEW c \in Refreshers, call[c].pc # "idle", BringsToken(c) => lost', lost => lost',
         \A d \in Auth!Caller \ {c} : call'[d] = call[d],
         call'[c].pc = "idle", call'[c].token = Auth!None,
         refreshing' = refreshing \/ (c \in Fetch /\ refreshing' = refreshing \ {TabOf[c]})
  PROVE  JarInv'
<1> USE WhoCalls DEF JarInv
<1>1. OneRefresh'
  BY RefreshEnds
<1>2. \A d \in Auth!Caller : BringsToken(d)' <=> BringsToken(d) /\ d # c
  BY DEF BringsToken
<1>3. AnswersApart'
  <2> SUFFICES ASSUME NEW d \in Auth!Caller, BringsToken(d), d # c
               PROVE  /\ ~token[call[d].token].rotated /\ ~token[call[d].token].expired
                      /\ call[d].token # jar.rt
                      /\ \A e \in Auth!Caller \ {d} : call'[e].token # call[d].token
    BY <1>2 DEF AnswersApart
  <2> QED
    BY DEF AnswersApart, BringsToken
<1>4. RevokedKnown'
  BY DEF RevokedKnown, Auth!Issued
<1>5. RotationKnown'
  BY <1>2 DEF RotationKnown
<1>6. Auth!NoFalseTheft'
  BY DEF Auth!NoFalseTheft
<1> QED
  BY <1>1, <1>3, <1>4, <1>5, <1>6

(* A refresh begins. Unless it contends, no other one is under way, so the   *)
(* cookie it presents has not been rotated away.                             *)
LEMMA JarRead ==
  ASSUME Auth!TypeOK, ChainInv, JarInv, UNCHANGED <<token, ended, jar, lost, replayed>>,
         NEW c \in Refreshers, call[c].pc = "idle", Auth!RefreshRead(c, jar.rt),
         contended => contended',
         \/ c \in Fetch /\ TabOf[c] \notin refreshing /\ refreshing' = refreshing \cup {TabOf[c]}
         \/ c \in Nav /\ refreshing' = refreshing,
         ~contended' => \A d \in Refreshers : call[d].pc = "idle"
  PROVE  JarInv'
<1> USE WhoCalls DEF JarInv
<1>1. jar.rt \in {Auth!None} \cup Auth!Issued
  BY DEF ChainInv, TokensIssued
<1>2. /\ \A d \in Auth!Caller \ {c} : call'[d] = call[d]
      /\ \/ call'[c].pc = "answered" /\ call'[c].token = Auth!None
         \/ call'[c].pc \in {"replay", "refresh"} /\ call'[c].token = jar.rt
  BY <1>1, RefreshReads
<1>3. OneRefresh'
  <2>1. /\ \A d \in Refreshers : call'[d].pc \in {"idle", "refresh", "replay", "answered"}
        /\ \A d \in Form : call'[d].pc \notin {"refresh", "replay"}
    BY <1>2 DEF OneRefresh
  <2>2. \A f, g \in Fetch :
          TabOf[f] = TabOf[g] /\ call'[f].pc # "idle" /\ call'[g].pc # "idle" => f = g
    BY <1>2 DEF OneRefresh
  <2>3. \A f \in Fetch : TabOf[f] \notin refreshing' => call'[f].pc = "idle"
    BY <1>2 DEF OneRefresh
  <2>4. ~contended' =>
          \A d, e \in Refreshers : call'[d].pc # "idle" /\ call'[e].pc # "idle" => d = e
    BY <1>2
  <2> QED
    BY <2>1, <2>2, <2>3, <2>4 DEF OneRefresh
<1>4. \A d \in Auth!Caller : BringsToken(d)' => BringsToken(d) /\ d # c /\ call'[d] = call[d]
  BY <1>2 DEF BringsToken
<1>5. AnswersApart'
  <2> SUFFICES ASSUME NEW d \in Auth!Caller, BringsToken(d), d # c, call'[d] = call[d]
               PROVE  /\ ~token[call[d].token].rotated /\ ~token[call[d].token].expired
                      /\ call[d].token # jar.rt
                      /\ \A e \in Auth!Caller \ {d} : call'[e].token # call[d].token
    BY <1>4 DEF AnswersApart
  <2> QED
    BY <1>2 DEF AnswersApart, BringsToken
<1>6. RevokedKnown'
  BY DEF RevokedKnown, Auth!Issued
<1>7. RotationKnown'
  <2> SUFFICES ASSUME ~contended', ~lost
               PROVE  /\ jar.rt # Auth!None => ~token[jar.rt].rotated
                      /\ \A d \in Refreshers : call'[d].pc = "replay" => ~token[call'[d].token].rotated
    BY DEF RotationKnown
  <2>1. /\ ~contended /\ \A d \in Refreshers : call[d].pc = "idle"
    OBVIOUS
  <2>2. jar.rt # Auth!None => ~token[jar.rt].rotated
    BY <2>1 DEF RotationKnown, BringsToken
  <2>3. ASSUME NEW d \in Refreshers, call'[d].pc = "replay"
        PROVE  ~token[call'[d].token].rotated
    <3>1. d = c /\ call'[c].token = jar.rt
      BY <1>2, <2>1, <2>3
    <3>2. jar.rt # Auth!None
      BY <1>1, <1>2, <2>3, <3>1, RefreshReads
    <3> QED
      BY <2>2, <3>1, <3>2
  <2> QED
    BY <2>2, <2>3
<1>8. Auth!NoFalseTheft'
  BY DEF Auth!NoFalseTheft
<1> QED
  BY <1>3, <1>5, <1>6, <1>7, <1>8

(* A token is issued: by a form for a session of its own, or by the one      *)
(* refresh under way, whose answer then brings the next of the chain.        *)
LEMMA JarIssued ==
  ASSUME Auth!TypeOK, ChainInv, JarInv, UNCHANGED <<jar, refreshing, contended, lost, replayed>>,
         ended \subseteq ended', NEW c \in Auth!Caller, NEW n \in Nat, Auth!Issued = 1 .. n,
         Auth!None = 0, Auth!Issued' = 1 .. n + 1,
         \A d \in Auth!Caller \ {c} : call'[d] = call[d],
         call'[c].pc = "answered", call'[c].token = n + 1, call[c].pc # "idle",
         ~token'[n + 1].revoked, ~token'[n + 1].rotated, ~token'[n + 1].expired,
         \A t \in 1 .. n :
           /\ token'[t].expired = token[t].expired /\ token'[t].session = token[t].session
           /\ token'[t].revoked => token[t].revoked \/ token'[t].rotated
           /\ token[t].rotated => token'[t].rotated
           /\ token'[t].rotated => \/ token[t].rotated
                                   \/ t = call[c].token /\ call[c].pc = "refresh"
  PROVE  JarInv'
<1> USE WhoCalls DEF JarInv
<1>1. /\ jar.rt \in {0} \cup 1 .. n
      /\ \A d \in Auth!Caller : call[d].token \in {0} \cup 1 .. n
      /\ \A d \in Auth!Caller : call[d].pc \in {"refresh", "replay"} => call[d].token # 0
      /\ n + 1 \notin {0} \cup 1 .. n
  BY DEF ChainInv, TokensIssued, Presents
<1>2. OneRefresh'
  BY DEF OneRefresh
<1>3. \A d \in Auth!Caller : BringsToken(d)' <=> BringsToken(d) \/ d = c
  BY DEF BringsToken
<1>4. AnswersApart'
  <2> SUFFICES ASSUME NEW d \in Auth!Caller, BringsToken(d)'
               PROVE  /\ ~token'[call'[d].token].rotated /\ ~token'[call'[d].token].expired
                      /\ call'[d].token # jar.rt
                      /\ \A e \in Auth!Caller \ {d} : call'[e].token # call'[d].token
    BY DEF AnswersApart
  <2>1. CASE d = c
    BY <1>1, <2>1
  <2>2. CASE d # c
    <3>1. BringsToken(d) /\ call'[d] = call[d] /\ call[d].token \in 1 .. n
      BY <1>1, <1>3, <2>2 DEF BringsToken
    <3>2. /\ ~token[call[d].token].rotated /\ ~token[call[d].token].expired
          /\ call[d].token # jar.rt
          /\ \A e \in Auth!Caller \ {d} : call[e].token # call[d].token
      BY <3>1 DEF AnswersApart
    <3> QED
      BY <1>1, <2>2, <3>1, <3>2
  <2> QED
    BY <2>1, <2>2
<1>5. RevokedKnown'
  <2>1. ASSUME NEW t \in 1 .. n + 1, token'[t].revoked
        PROVE  token'[t].rotated \/ token'[t].session \in ended'
    <3>1. t \in 1 .. n
      BY <2>1
    <3> QED
      BY <2>1, <3>1 DEF RevokedKnown
  <2>2. jar.rt # 0 => ~token'[jar.rt].expired
    BY <1>1 DEF RevokedKnown
  <2> QED
    BY <2>1, <2>2 DEF RevokedKnown
<1>6. RotationKnown'
  <2> SUFFICES ASSUME ~contended, ~lost
               PROVE  /\ jar.rt # Auth!None /\ token'[jar.rt].rotated
                           => \E d \in Refreshers : BringsToken(d)'
                      /\ \A d \in Refreshers : call'[d].pc = "replay"
                                                 => ~token'[call'[d].token].rotated
    BY DEF RotationKnown
  <2>1. ASSUME jar.rt # Auth!None, token'[jar.rt].rotated
        PROVE  \E d \in Refreshers : BringsToken(d)'
    <3>1. CASE c \in Refreshers
      BY <1>3, <3>1
    <3>2. CASE c \notin Refreshers
      <4>1. call[c].pc # "refresh"
        BY <3>2 DEF OneRefresh
      <4>2. token[jar.rt].rotated
        BY <1>1, <2>1, <4>1
      <4> QED
        BY <1>3, <2>1, <4>2 DEF RotationKnown
    <3> QED
      BY <3>1, <3>2
  <2>2. ASSUME NEW d \in Refreshers, call'[d].pc = "replay"
        PROVE  ~token'[call'[d].token].rotated
    <3>1. d # c /\ call'[d] = call[d] /\ call[d].token \in 1 .. n
      BY <1>1, <2>2
    <3>2. ~token[call[d].token].rotated
      BY <2>2, <3>1 DEF RotationKnown
    <3>3. call[c].pc # "refresh"
      BY <2>2, <3>1 DEF OneRefresh
    <3> QED
      BY <3>1, <3>2, <3>3
  <2> QED
    BY <2>1, <2>2
<1>7. Auth!NoFalseTheft'
  BY DEF Auth!NoFalseTheft
<1> QED
  BY <1>2, <1>4, <1>5, <1>6, <1>7

(* Tokens are revoked, and the sessions of those that were not are ended.    *)
LEMMA JarRevoked ==
  ASSUME Auth!TypeOK, ChainInv, JarInv, UNCHANGED <<refreshing, contended, lost>>,
         NEW c \in Auth!Caller, Auth!Issued' = Auth!Issued, ended \subseteq ended',
         \A d \in Auth!Caller \ {c} : call'[d].pc = call[d].pc /\ call'[d].token = call[d].token,
         \/ call'[c].pc \in {"idle", "loggedOut"} /\ c \in Form
         \/ call'[c].pc = "answered" /\ call[c].pc = "replay",
         call'[c].token = Auth!None, jar'.rt \in {Auth!None, jar.rt},
         \A t \in Auth!Issued :
           /\ token'[t].expired = token[t].expired /\ token'[t].session = token[t].session
           /\ token'[t].rotated = token[t].rotated
           /\ token'[t].revoked => token[t].revoked \/ token[t].session \in ended',
         replayed' => replayed \/ (call[c].pc = "replay" /\ token[call[c].token].rotated)
  PROVE  JarInv'
<1> USE WhoCalls DEF JarInv
<1>1. /\ jar.rt # Auth!None => jar.rt \in Auth!Issued
      /\ \A d \in Auth!Caller : call[d].token # Auth!None => call[d].token \in Auth!Issued
      /\ \A d \in Auth!Caller : call[d].pc = "replay" => call[d].token # Auth!None
  BY DEF ChainInv, TokensIssued, Presents
<1>2. OneRefresh'
  BY DEF OneRefresh
<1>3. \A d \in Auth!Caller : BringsToken(d)' <=> BringsToken(d) /\ d # c
  BY DEF BringsToken, OneRefresh
<1>4. AnswersApart'
  <2> SUFFICES ASSUME NEW d \in Auth!Caller, BringsToken(d), d # c
               PROVE  /\ ~token'[call'[d].token].rotated /\ ~token'[call'[d].token].expired
                      /\ call'[d].token # jar'.rt
                      /\ \A e \in Auth!Caller \ {d} : call'[e].token # call'[d].token
    BY <1>3 DEF AnswersApart
  <2> QED
    BY <1>1 DEF AnswersApart, BringsToken
<1>5. RevokedKnown'
  BY <1>1 DEF RevokedKnown
<1>6. RotationKnown'
  <2>1. \A d \in Refreshers : BringsToken(d) => BringsToken(d)'
    BY <1>3 DEF BringsToken
  <2>2. jar'.rt # Auth!None => jar'.rt = jar.rt /\ token'[jar.rt].rotated = token[jar.rt].rotated
    BY <1>1
  <2>3. \A d \in Refreshers : call'[d].pc = "replay" =>
          /\ call[d].pc = "replay" /\ call'[d].token = call[d].token
          /\ token'[call[d].token].rotated = token[call[d].token].rotated
    BY <1>1
  <2> QED
    BY <2>1, <2>2, <2>3 DEF RotationKnown
<1>7. Auth!NoFalseTheft'
  BY DEF Auth!NoFalseTheft, RotationKnown, OneRefresh
<1> QED
  BY <1>2, <1>4, <1>5, <1>6, <1>7

(* Every step keeps the page's refreshes apart, and rotations known. *)
LEMMA JarKept ==
  ASSUME Auth!TypeOK, ChainInv, JarInv, Auth!Next
  PROVE  JarInv'
<1> USE DEF Auth!db, Auth!page, Auth!hist
<1>1. PICK n \in Nat : /\ n \in 0 .. MaxTokens /\ token \in [1 .. n -> Auth!Token]
                       /\ Auth!Issued = 1 .. n /\ Auth!Cardinality(DOMAIN token) = n
                       /\ Auth!Issued \subseteq Auth!Tokens /\ 0 \notin Auth!Issued
  BY TokenRows
<1>2. /\ DOMAIN token = 1 .. n /\ Auth!Cardinality(1 .. n) = n
      /\ call \in [Auth!Caller -> Auth!Request] /\ Auth!None = 0
  BY <1>1 DEF Auth!TypeOK, Auth!None
(* only a form registers, logs in or out, or changes the password *)
<1>3. \A c \in Auth!Caller :
        call[c].pc \notin {"idle", "refresh", "replay", "answered"} => c \in Form
  BY WhoCalls DEF JarInv, OneRefresh
<1>4. ASSUME NEW c \in Form,
             \/ Auth!RegisterCheck(c) \/ Auth!VerifyRead(c) \/ Auth!LoginRead(c)
             \/ Auth!ChangeRead(c)
      PROVE  JarInv'
  <2>1. PICK pc \in {"register", "verify", "login", "change"} : Auth!Goto(c, pc)
    BY <1>4 DEF Auth!RegisterCheck, Auth!VerifyRead, Auth!LoginRead, Auth!ChangeRead
  <2>2. UNCHANGED <<token, ended, contended, lost, replayed, jar, refreshing>>
    BY <1>4 DEF Auth!RegisterCheck, Auth!VerifyRead, Auth!LoginRead, Auth!ChangeRead
  <2>3. /\ \A d \in Auth!Caller \ {c} : call'[d] = call[d]
        /\ call'[c].pc = pc /\ call'[c].token = call[c].token
    BY <1>2, <2>1, CallMoves, WhoCalls
  <2> QED
    BY <2>2, <2>3, JarAside DEF HistoryGrows
<1>5. ASSUME NEW c \in Auth!Caller,
             \/ Auth!InsertUser(c) \/ Auth!InsertOtp(c) \/ Auth!SendOtp(c)
             \/ Auth!RequestFails(c) \/ Auth!LoggedOut(c)
      PROVE  JarInv'
  <2>1. c \in Form
    BY <1>3, <1>5 DEF Auth!InsertUser, Auth!InsertOtp, Auth!SendOtp, Auth!RequestFails,
                            Auth!LoggedOut, Auth!At
  <2>2. /\ Auth!Refuse(c) \/ Auth!Goto(c, "code") \/ Auth!Goto(c, "mail")
        /\ UNCHANGED <<token, ended, contended, lost, replayed, refreshing>>
        /\ jar'.rt \in {Auth!None, jar.rt}
    BY <1>5 DEF Auth!InsertUser, Auth!InsertOtp, Auth!SendOtp, Auth!RequestFails, Auth!LoggedOut
  <2>3. /\ \A d \in Auth!Caller \ {c} : call'[d] = call[d]
        /\ call'[c].pc \in {"idle", "code", "mail"}
        /\ call'[c].token \in {Auth!None, call[c].token}
    BY <1>2, <2>2, CallMoves
  <2> QED
    BY <2>1, <2>2, <2>3, JarAside DEF HistoryGrows
<1>6. ASSUME NEW c \in Form, Auth!LogoutSend(c) \/ Auth!LogoutRefused(c) PROVE JarInv'
  <2>1. /\ \A d \in Auth!Caller \ {c} : call'[d] = call[d]
        /\ call'[c].pc \in {"logout", "loggedOut"}
        /\ call'[c].token \in {Auth!None, jar.rt}
    BY <1>2, <1>6, WhoCalls DEF Auth!LogoutSend, Auth!LogoutRefused, Auth!Idle
  <2>2. UNCHANGED <<token, ended, contended, lost, replayed, jar, refreshing>>
    BY <1>6 DEF Auth!LogoutSend, Auth!LogoutRefused
  <2> QED
    BY <2>1, <2>2, JarAside DEF HistoryGrows
<1>7. ASSUME NEW c \in Auth!Caller,
             \/ Auth!Receive(c) \/ (Auth!RefreshAnswered(c) /\ c \in Fetch)
             \/ Auth!NavigateAnswered(c)
      PROVE  JarInv'
  <2>1. /\ Auth!Refuse(c) /\ call[c].pc = "answered"
        /\ UNCHANGED <<token, ended, contended, lost, replayed>>
    BY <1>7 DEF Auth!Receive, Auth!RefreshAnswered, Auth!NavigateAnswered, Auth!At
  <2>2. \/ jar'.rt = call[c].token
        \/ jar'.rt = jar.rt /\ call[c].token = Auth!None
    <3>1. CASE Auth!Receive(c)
      BY <3>1 DEF Auth!Receive
    <3>2. CASE Auth!RefreshAnswered(c) \/ Auth!NavigateAnswered(c)
      BY <3>2 DEF Auth!RefreshAnswered, Auth!NavigateAnswered, Auth!Store
    <3> QED
      BY <1>7, <3>1, <3>2
  <2>3. refreshing' = refreshing \/ (c \in Fetch /\ refreshing' = refreshing \ {TabOf[c]})
    BY <1>7 DEF Auth!Receive, Auth!RefreshAnswered, Auth!NavigateAnswered, Auth!Settle
  <2>4. /\ \A d \in Auth!Caller \ {c} : call'[d] = call[d]
        /\ call'[c].pc = "idle" /\ call'[c].token = Auth!None
    BY <1>2, <2>1, CallMoves
  <2> QED
    BY <2>1, <2>2, <2>3, <2>4, JarStores
<1>8. ASSUME NEW c \in Auth!Caller, Auth!RefreshFails(c) PROVE JarInv'
  <2>1. /\ Auth!Refuse(c) /\ call[c].pc # "idle" /\ c \in Refreshers
        /\ UNCHANGED <<token, ended, contended, replayed, jar>>
    BY <1>8 DEF Auth!RefreshFails, Refreshers
  <2>2. refreshing' = refreshing \/ (c \in Fetch /\ refreshing' = refreshing \ {TabOf[c]})
    BY <1>8 DEF Auth!RefreshFails, Auth!Settle
  <2>3. (lost => lost') /\ (BringsToken(c) => lost')
    BY <1>8, Zenon DEF Auth!RefreshFails, BringsToken, Auth!At
  <2>4. /\ \A d \in Auth!Caller \ {c} : call'[d] = call[d]
        /\ call'[c].pc = "idle" /\ call'[c].token = Auth!None
    BY <1>2, <2>1, CallMoves
  <2> QED
    BY <2>1, <2>2, <2>3, <2>4, JarRefreshFails
<1>9. ASSUME NEW c \in Fetch, Auth!StartRefresh(c) PROVE JarInv'
  <2>1. /\ call[c].pc = "idle" /\ Auth!RefreshRead(c, jar.rt) /\ c \in Refreshers
        /\ UNCHANGED <<token, ended, jar, lost, replayed>> /\ TabOf[c] \notin refreshing
        /\ refreshing' = refreshing \cup {TabOf[c]}
    BY <1>9 DEF Auth!StartRefresh, Auth!RefreshRead, Auth!At, Refreshers
  <2>2. (contended => contended') /\ (~contended' => \A d \in Auth!Elsewhere(c) : call[d].pc = "idle")
    BY <1>9, Zenon DEF Auth!StartRefresh, Auth!Contend
  <2>3. \A d \in Refreshers : d \in Auth!Elsewhere(c) \/ call[d].pc = "idle"
    BY <2>1 DEF JarInv, OneRefresh, Auth!Elsewhere, Refreshers
  <2> QED
    BY <1>9, <2>1, <2>2, <2>3, JarRead DEF Refreshers
<1>10. ASSUME NEW c \in Nav, Auth!Navigate(c) PROVE JarInv'
  <2>1. /\ call[c].pc = "idle" /\ Auth!RefreshRead(c, jar.rt) /\ c \in Refreshers
        /\ UNCHANGED <<token, ended, jar, lost, replayed, refreshing>>
    BY <1>10 DEF Auth!Navigate, Auth!RefreshRead, Auth!At, Refreshers
  <2>2. /\ contended => contended'
        /\ ~contended' => \A d \in (Nav \cup Fetch) \ {c} : call[d].pc = "idle"
    BY <1>10, Zenon DEF Auth!Navigate, Auth!Contend
  <2>3. ~contended' => \A d \in Refreshers : call[d].pc = "idle"
    BY <2>1, <2>2, WhoCalls
  <2> QED
    BY <1>10, <2>1, <2>2, <2>3, JarRead
<1>11. ASSUME NEW c \in Auth!Caller, Auth!VerifyCommit(c) \/ Auth!LoginIssue(c) PROVE JarInv'
  <2>1. PICK late \in {FALSE, call[c].late} : Issues(c, n, token, NewToken(n + 1, Auth!None, late))
    BY <1>1, <1>2, <1>11, VerifyIssues, LoginIssues
  <2> DEFINE new == NewToken(n + 1, Auth!None, late)
  <2>2. /\ UNCHANGED <<jar, refreshing, contended, lost, replayed>> /\ ended \subseteq ended'
        /\ call[c].pc \in {"verify", "login"}
    BY <1>11 DEF Auth!VerifyCommit, Auth!LoginIssue, Auth!At
  <2>3. /\ new \in Auth!Token /\ ~new.revoked /\ ~new.rotated /\ ~new.expired
        /\ n + 1 \in Auth!Tokens
    <3>1. late \in BOOLEAN
      BY <1>2, <2>1 DEF Auth!Request
    <3> QED
      BY <2>1, <3>1 DEF Issues, NewToken, Auth!Token
  <2> HIDE DEF new
  <2>4. /\ token' \in [1 .. n + 1 -> Auth!Token]
        /\ token'[n + 1] = new /\ \A t \in 1 .. n : token'[t] = token[t]
    BY <1>1, <2>1, <2>3, IssueRow DEF Issues, new
  <2>5. /\ \A d \in Auth!Caller \ {c} : call'[d] = call[d]
        /\ call'[c].pc = "answered" /\ call'[c].token = n + 1
    BY <1>2, <2>1, <2>3, IssueAnswer DEF Issues
  <2>6. Auth!Issued' = 1 .. n + 1
    BY <2>4 DEF Auth!Issued
  <2> QED
    BY <1>1, <1>2, <2>2, <2>3, <2>4, <2>5, <2>6, JarIssued
<1>12. ASSUME NEW c \in Auth!Caller, Auth!RefreshCommit(c) PROVE JarInv'
  <2> DEFINE rt == call[c].token
             new == NewToken(n + 1,
                      IF token[rt].rotated THEN Auth!None ELSE token[rt].session,
                      token[rt].late \/ call[c].late)
  <2>1. rt \in 1 .. n /\ call[c].pc = "refresh"
    BY <1>1, <1>12 DEF Auth!RefreshCommit, Auth!At, ChainInv, TokensIssued, Presents
  <2>2. /\ Rotated(rt) \in [1 .. n -> Auth!Token] /\ Issues(c, n, Rotated(rt), new)
        /\ Rotated(rt)[rt].rotated /\ Rotated(rt)[rt].expired = token[rt].expired
        /\ \A t \in 1 .. n : /\ t # rt => Rotated(rt)[t] = token[t]
                             /\ Rotated(rt)[t].session = token[t].session
    BY <1>1, <1>2, <1>12, <2>1, RefreshIssues, RotatedRows
  <2>3. UNCHANGED <<jar, refreshing, contended, lost, replayed, ended>>
    BY <1>12 DEF Auth!RefreshCommit
  <2>4. /\ new \in Auth!Token /\ ~new.revoked /\ ~new.rotated /\ ~new.expired
        /\ n + 1 \in Auth!Tokens
    <3>1. /\ n + 1 \in Auth!Tokens /\ token[rt].late \in BOOLEAN /\ call[c].late \in BOOLEAN
          /\ token[rt].session \in Auth!Tokens
      BY <1>1, <1>2, <2>1, <2>2 DEF Issues, Auth!Token, Auth!Request
    <3> QED
      BY <3>1 DEF NewToken, Auth!Token
  <2> HIDE DEF new
  <2>5. /\ token' \in [1 .. n + 1 -> Auth!Token]
        /\ token'[n + 1] = new /\ \A t \in 1 .. n : token'[t] = Rotated(rt)[t]
    BY <2>2, <2>4, IssueRow DEF Issues
  <2>6. /\ \A d \in Auth!Caller \ {c} : call'[d] = call[d]
        /\ call'[c].pc = "answered" /\ call'[c].token = n + 1
    BY <1>2, <2>2, <2>4, IssueAnswer DEF Issues
  <2>7. Auth!Issued' = 1 .. n + 1
    BY <2>5 DEF Auth!Issued
  <2>8. \A t \in 1 .. n :
          /\ token'[t].expired = token[t].expired /\ token'[t].session = token[t].session
          /\ token'[t].revoked => token[t].revoked \/ token'[t].rotated
          /\ token[t].rotated => token'[t].rotated
          /\ token'[t].rotated => token[t].rotated \/ (t = rt /\ call[c].pc = "refresh")
    BY <2>1, <2>2, <2>5
  <2> QED
    BY <1>1, <1>2, <2>1, <2>3, <2>4, <2>5, <2>6, <2>7, <2>8, JarIssued
<1>13. ASSUME NEW which, token' = Auth!Revoked(token, which)
       PROVE  /\ Auth!Issued' = Auth!Issued
              /\ \A t \in Auth!Issued :
                   /\ token'[t].expired = token[t].expired
                   /\ token'[t].session = token[t].session
                   /\ token'[t].rotated = token[t].rotated
                   /\ token'[t].revoked => token[t].revoked \/ t \in which
  <2>1. /\ token' \in [1 .. n -> Auth!Token]
        /\ \A t \in 1 .. n : /\ t \in which => token'[t] = [token[t] EXCEPT !.revoked = TRUE]
                             /\ t \notin which => token'[t] = token[t]
    BY <1>1, <1>13, TokenRevoked
  <2>2. \A t \in 1 .. n : /\ [token[t] EXCEPT !.revoked = TRUE].expired = token[t].expired
                          /\ [token[t] EXCEPT !.revoked = TRUE].session = token[t].session
                          /\ [token[t] EXCEPT !.revoked = TRUE].rotated = token[t].rotated
    BY <1>1 DEF Auth!Token
  <2> QED
    BY <1>1, <2>1, <2>2 DEF Auth!Issued
<1>14. \A t \in Auth!Issued : ~token[t].revoked => token[t].session \in Auth!Sessions
  BY DEF Auth!Sessions
<1>15. /\ Auth!Idle \in Auth!Request /\ Auth!Idle.pc = "idle" /\ Auth!Idle.token = Auth!None
       /\ [Auth!Idle EXCEPT !.pc = "answered"] \in Auth!Request
       /\ [Auth!Idle EXCEPT !.pc = "answered"].pc = "answered"
       /\ [Auth!Idle EXCEPT !.pc = "answered"].token = Auth!None
  BY DEF Auth!Idle, Auth!Request
<1>16. ASSUME NEW c \in Auth!Caller, Auth!RevokeAll(c) PROVE JarInv'
  <2> DEFINE next == [Auth!Idle EXCEPT !.pc = "answered"]
  <2>1. /\ token' = Auth!Revoked(token, Auth!Issued) /\ Auth!EndSessions(c, Auth!Sessions, next)
        /\ UNCHANGED <<jar, refreshing, contended, lost>> /\ call[c].pc = "replay"
    BY <1>16 DEF Auth!RevokeAll, Auth!At
  <2>2. replayed' => replayed \/ token[call[c].token].rotated
    BY <1>16, Zenon DEF Auth!RevokeAll
  <2> HIDE DEF next
  <2>3. /\ call'[c] = next /\ ended' = ended \cup Auth!Sessions
        /\ \A d \in Auth!Caller \ {c} : call'[d].pc = call[d].pc /\ call'[d].token = call[d].token
    BY <1>15, <2>1, CallsEnded DEF next
  <2>4. call'[c].pc = "answered" /\ call'[c].token = Auth!None
    BY <1>15, <2>3 DEF next
  <2> QED
    BY <1>13, <1>14, <2>1, <2>2, <2>3, <2>4, JarRevoked
<1>17. ASSUME NEW c \in Auth!Caller, Auth!ChangePassword(c) PROVE JarInv'
  <2>1. /\ token' = Auth!Revoked(token, Auth!Issued)
        /\ Auth!EndSessions(c, Auth!Sessions, Auth!Idle)
        /\ UNCHANGED <<jar, refreshing, contended, lost, replayed>> /\ c \in Form
    BY <1>3, <1>17 DEF Auth!ChangePassword, Auth!At
  <2>2. /\ call'[c] = Auth!Idle /\ ended' = ended \cup Auth!Sessions
        /\ \A d \in Auth!Caller \ {c} : call'[d].pc = call[d].pc /\ call'[d].token = call[d].token
    BY <1>15, <2>1, CallsEnded
  <2> QED
    BY <1>13, <1>14, <1>15, <2>1, <2>2, JarRevoked
<1>18. ASSUME NEW c \in Auth!Caller, Auth!Logout(c) PROVE JarInv'
  <2> DEFINE rt == call[c].token
             session == token[rt].session
             next == [Auth!Idle EXCEPT !.pc = "loggedOut"]
  <2>1. /\ token' = Auth!Revoked(token, {rt}) /\ Auth!EndSessions(c, {session}, next)
        /\ UNCHANGED <<jar, refreshing, contended, lost, replayed>> /\ c \in Form
    BY <1>3, <1>18 DEF Auth!Logout, Auth!At
  <2>2. /\ next \in Auth!Request /\ next.pc = "loggedOut" /\ next.token = Auth!None
        /\ token[rt].session \in {session}
    BY DEF Auth!Idle, Auth!Request
  <2> HIDE DEF rt, session, next
  <2>3. /\ call'[c] = next /\ ended' = ended \cup {session}
        /\ \A d \in Auth!Caller \ {c} : call'[d].pc = call[d].pc /\ call'[d].token = call[d].token
    BY <2>1, <2>2, CallsEnded
  <2>4. /\ Auth!Issued' = Auth!Issued
        /\ \A t \in Auth!Issued :
             /\ token'[t].expired = token[t].expired /\ token'[t].session = token[t].session
             /\ token'[t].rotated = token[t].rotated
             /\ token'[t].revoked => token[t].revoked \/ token[t].session \in ended'
    <3> DEFINE which == {rt}
    <3>1. \A t \in which : token[t].session \in ended'
      BY <2>2, <2>3
    <3>2. token' = Auth!Revoked(token, which)
      BY <2>1
    <3> HIDE DEF which
    <3> QED
      BY <1>13, <3>1, <3>2
  <2>5. /\ UNCHANGED <<refreshing, contended, lost>> /\ ended \subseteq ended'
        /\ jar'.rt = jar.rt /\ replayed' = replayed /\ c \in Form
    BY <2>1, <2>3
  <2>6. call'[c].pc = "loggedOut" /\ call'[c].token = Auth!None
    BY <2>2, <2>3
  <2> QED
    BY <2>3, <2>4, <2>5, <2>6, JarRevoked
<1>19. ASSUME NEW f \in Fetch, \/ Auth!FetchUnauthorized(f) \/ Auth!JoinRefresh(f) \/ Auth!Retry(f)
       PROVE  JarInv'
  <2>1. UNCHANGED <<token, ended, call, jar, refreshing, contended, lost, replayed>>
    BY <1>19 DEF Auth!FetchUnauthorized, Auth!JoinRefresh, Auth!Retry
  <2> QED
    BY <2>1, JarStill DEF HistoryGrows
<1>20. ASSUME Auth!ExpireOtp \/ Auth!ExpireAccess PROVE JarInv'
  <2>1. /\ UNCHANGED <<token, ended, call, refreshing, contended, lost, replayed>>
        /\ jar'.rt = jar.rt
    BY <1>20 DEF Auth!ExpireOtp, Auth!ExpireAccess, Auth!TypeOK
  <2> QED
    BY <2>1, JarStill DEF HistoryGrows
<1>21. ASSUME Auth!ExpireSession PROVE JarInv'
  BY <1>21, JarExpires
<1>22. \A c \in Auth!Caller : Auth!LogoutRefused(c) => c \in Form
  BY <1>3 DEF Auth!LogoutRefused, Auth!At
<1> QED
  BY <1>4, <1>5, <1>6, <1>7, <1>8, <1>9, <1>10, <1>11, <1>12, <1>16, <1>17, <1>18, <1>19,
     <1>20, <1>21, <1>22, AccountSteps

(* The cookie is live but for what the invariant knows of.                   *)
LEMMA CookieIsCurrent ==
  ASSUME Auth!TypeOK, ChainInv, JarInv
  PROVE  Auth!JarIsCurrent
<1> SUFFICES ASSUME jar.rt # Auth!None, ~contended, ~lost
             PROVE  \/ Auth!Live(jar.rt) \/ token[jar.rt].session \in ended
                    \/ \E c \in Nav \cup Fetch : Auth!At(c, "answered")
  BY DEF Auth!JarIsCurrent
<1>1. jar.rt \in Auth!Issued /\ ~token[jar.rt].expired
  BY DEF ChainInv, TokensIssued, JarInv, RevokedKnown
<1>2. CASE token[jar.rt].rotated
  BY <1>2 DEF JarInv, RotationKnown, BringsToken, Refreshers, Auth!At
<1>3. CASE ~token[jar.rt].rotated
  BY <1>1, <1>3 DEF JarInv, RevokedKnown, Auth!Live
<1> QED
  BY <1>2, <1>3

-----------------------------------------------------------------------------
(* Accounts and workspaces together *)

AuthInv == Auth!TypeOK /\ ChainInv /\ CodeInv /\ JarInv

(* No account, no token, no request. *)
LEMMA AccountBegins ==
  ASSUME Auth!Init
  PROVE  AuthInv
<1> USE DEF Auth!Init
<1>1. /\ Auth!Issued = {} /\ ended = {} /\ jar.rt = Auth!None
      /\ \A c \in Auth!Caller : call[c].pc = "idle" /\ call[c].token = Auth!None
  BY DEF Auth!Issued, Auth!Idle
<1>2. Auth!TypeOK
  <2>1. MaxTokens \in Nat /\ MaxLapses \in Nat /\ MaxChanges \in Nat
    BY AccountBounds
  <2>2. token \in [1 .. 0 -> Auth!Token] /\ 0 \in 0 .. MaxTokens
    BY <2>1
  <2>3. call \in [Auth!Caller -> Auth!Request]
    BY DEF Auth!Idle, Auth!Request
  <2>4. jar \in [rt : {Auth!None} \cup Auth!Tokens, at : BOOLEAN]
    OBVIOUS
  <2>5. {contended, lost, replayed, overlapped} \subseteq BOOLEAN
    OBVIOUS
  <2>6. \E n \in 0 .. MaxTokens : token \in [1 .. n -> Auth!Token]
    BY <2>2
  <2>7. /\ user \in {"absent", "unverified", "verified"}
        /\ otp \in {"absent", "unsent", "valid", "used", "expired"}
    OBVIOUS
  <2>8. workspaces \in Nat /\ lapses \in 0 .. MaxLapses /\ changes \in 0 .. MaxChanges
    BY <2>1
  <2>9. fetch \in [Fetch -> {"idle", "unauthorized", "waiting", "retry"}]
    OBVIOUS
  <2>10. refreshing \subseteq Tab
    OBVIOUS
  <2>11. ended \subseteq Auth!Tokens /\ outrun \subseteq Auth!Tokens
    OBVIOUS
  <2> HIDE DEF Auth!Init
  <2> QED
    BY <2>3, <2>4, <2>5, <2>6, <2>7, <2>8, <2>9, <2>10, <2>11 DEF Auth!TypeOK
<1>3. ChainInv
  BY <1>1 DEF ChainInv, TokensIssued, Presents, OneChain, LateIsKnown, Auth!EndedStayEnded
<1>4. CodeInv
  BY <1>1 DEF CodeInv, CodeInOrder, VerifiedOnce, Auth!OneWorkspace
<1>5. JarInv
  BY <1>1, WhoCalls DEF JarInv, OneRefresh, AnswersApart, BringsToken, RevokedKnown,
                        RotationKnown, Auth!NoFalseTheft
<1> QED
  BY <1>2, <1>3, <1>4, <1>5 DEF AuthInv

(* Every step of accounts, and every step of the workspace. *)
LEMMA AccountKept ==
  ASSUME AuthInv, [Auth!Next]_authVars
  PROVE  AuthInv'
<1>1. CASE Auth!Next
  <2>1. TokensIssued
    BY DEF AuthInv, ChainInv
  <2> QED
    BY <1>1, <2>1, AccountTypes, ChainKept, CodeKept, JarKept DEF AuthInv
<1>2. CASE UNCHANGED authVars
  <2> USE <1>2 DEF authVars
  <2>1. Auth!TypeOK'
    BY DEF AuthInv, Auth!TypeOK
  <2>2. ChainInv'
    BY ChainStill DEF AuthInv
  <2>3. CodeInv'
    BY CodeAside DEF AuthInv
  <2>4. JarInv'
    BY JarStill DEF AuthInv, HistoryGrows
  <2> QED
    BY <2>1, <2>2, <2>3, <2>4 DEF AuthInv
<1> QED
  BY <1>1, <1>2

-----------------------------------------------------------------------------
(* The theorems *)

(* Both inductive invariants hold in every reachable state. *)
LEMMA TenancyInvariant == Spec => [](AuthInv /\ SpaceInv)
<1>1. Init => AuthInv /\ SpaceInv
  BY AccountBegins, WorkspaceBegins DEF Init
<1>2. AuthInv /\ SpaceInv /\ [Next]_vars => (AuthInv /\ SpaceInv)'
  <2> SUFFICES ASSUME AuthInv, SpaceInv, [Next]_vars
               PROVE  AuthInv' /\ SpaceInv'
    OBVIOUS
  <2>1. [Auth!Next]_authVars /\ [Space!Next]_spaceVars
    BY DEF Next, vars
  <2> QED
    BY <2>1, AccountKept, WorkspaceKept
<1> QED
  BY <1>1, <1>2, PTL DEF Spec

(* Every variable of accounts and workspaces has its type: no call, cookie   *)
(* or session of the auth service names a token that does not exist, and no  *)
(* request of a workspace holds anything but its rows.                       *)
THEOREM TenancyTypes == Spec => [](Auth!TypeOK /\ Space!TypeOK)
<1>1. AuthInv /\ SpaceInv => Auth!TypeOK /\ Space!TypeOK
  BY DEF AuthInv, SpaceInv
<1> QED
  BY <1>1, TenancyInvariant, PTL

(* However many refreshes, logins, logouts and navigations overlap, a session *)
(* that logout, a password change or the reuse of a token ended has no usable *)
(* refresh token, unless a call read its row before the end, or the end was a *)
(* logout whose token had been rotated since it was sent (AuthService).       *)
THEOREM EndedSessionsStayEnded == Spec => []EndedStayEnded
<1>1. AuthInv => EndedStayEnded
  BY DEF AuthInv, ChainInv, EndedStayEnded
<1> QED
  BY <1>1, TenancyInvariant, PTL

(* However many requests of however many tabs meet an expired access token,   *)
(* the service never takes them for a thief's unless the refreshes of two     *)
(* tabs, or of a tab and a navigation, overlapped or an answer was lost: the  *)
(* requests of one tab share a refresh (AuthService.refresh, refreshSession   *)
(* of client.ts, middleware.ts).                                              *)
THEOREM RefreshesNeverLookStolen == Spec => []NoFalseTheft
<1>1. AuthInv => NoFalseTheft
  BY DEF AuthInv, JarInv, NoFalseTheft
<1> QED
  BY <1>1, TenancyInvariant, PTL

(* Whatever the order in which forms, fetches and navigations are answered,   *)
(* the browser holds a live refresh token, or one whose successor is on its   *)
(* way, or whose session was ended, unless refreshes of two tabs or of a      *)
(* navigation overlapped or an answer was lost (client.ts, middleware.ts).    *)
THEOREM CookieStaysCurrent == Spec => []JarIsCurrent
<1>1. AuthInv => JarIsCurrent
  BY CookieIsCurrent DEF AuthInv, JarIsCurrent
<1> QED
  BY <1>1, TenancyInvariant, PTL

(* Whatever fails and whoever overlaps, one code opens one workspace and one  *)
(* invitation makes its user a member once, but for verifications, and        *)
(* acceptances, that overlap (verifyOtp, acceptInvite).                       *)
THEOREM SpentOnceAlways == Spec => []MailedSpentOnce
<1>1. AuthInv /\ SpaceInv => MailedSpentOnce
  BY SpentOnce DEF AuthInv, SpaceInv, CodeInv, VerifiedOnce, MailedSpentOnce
<1> QED
  BY <1>1, TenancyInvariant, PTL

(* For any number of overlapping uploads and removals: a row without its      *)
(* object, or an object without its row, is one that a failed statement left, *)
(* or whose request is about to write the other half (DocumentsService).      *)
THEOREM RowsMatchObjects == Spec => []StoredAsRecorded
<1>1. SpaceInv => StoredAsRecorded
  BY DEF SpaceInv, LibraryInv, StoredAsRecorded
<1> QED
  BY <1>1, TenancyInvariant, PTL

=============================================================================
