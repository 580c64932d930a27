------------------------------- MODULE Tenancy -------------------------------
(***************************************************************************)
(* The two services everything else of the API stands on: the accounts of  *)
(* AuthModule and the workspaces of WorkspacesModule. Their handlers share *)
(* no row that either of them changes after it has inserted it (a member   *)
(* is a users row that exists), so a run is of one or of the other.        *)
(***************************************************************************)
EXTENDS Naturals

CONSTANTS
  Form, Nav, Fetch, Tab, TabOf, MaxInFlight, MaxTokens, MaxLapses, MaxChanges, \* Accounts
  User, Owner, Invitation, Document, Req                                       \* Workspaces

ASSUME AccountBounds == {MaxTokens, MaxLapses, MaxChanges} \subseteq Nat
ASSUME CallersDiffer == Form \cap Nav = {} /\ Fetch \cap (Form \cup Nav) = {}
ASSUME PagesInTabs == TabOf \in [Fetch -> Tab]
ASSUME OwnerIsUser == Owner \in User

VARIABLES
  service, \* the one whose requests are served
  user, otp, workspaces, token, call, jar, fetch, refreshing,
  ended, outrun, contended, lost, replayed, overlapped, lapses, changes,
  members, serial, invitation, kb, documents, objects, request,
  joins, doubled, leaked, broken

Auth == INSTANCE Accounts
Space == INSTANCE Workspaces

authVars == <<user, otp, workspaces, token, call, jar, fetch, refreshing,
              ended, outrun, contended, lost, replayed, overlapped, lapses, changes>>
spaceVars == <<members, serial, invitation, kb, documents, objects, request,
               joins, doubled, leaked, broken>>
vars == <<service, authVars, spaceVars>>

Init == service \in {"auth", "workspaces"} /\ Auth!Init /\ Space!Init

Next ==
  \/ service = "auth" /\ Auth!Next /\ UNCHANGED <<service, spaceVars>>
  \/ service = "workspaces" /\ Space!Next /\ UNCHANGED <<service, authVars>>

Spec == Init /\ [][Next]_vars

-----------------------------------------------------------------------------

(* A session that was ended has no usable refresh token, but for a call that *)
(* was under way and a logout that a rotation has outrun (auth.service.ts).  *)
EndedStayEnded == Auth!EndedStayEnded

(* Refreshes of tabs that do not overlap never look like theft               *)
(* (auth.service.ts: refresh, client.ts: refreshSession).                    *)
NoFalseTheft == Auth!NoFalseTheft

(* The cookie jar holds a live refresh token (client.ts, middleware.ts).     *)
JarIsCurrent == Auth!JarIsCurrent

(* A code or an invitation that was mailed is spent once: it opens one       *)
(* workspace (verifyOtp), or makes its user a member once (acceptInvite).    *)
MailedSpentOnce == Auth!OneWorkspace /\ Space!InvitationSpentOnce

(* Rows and stored objects match (DocumentsService.upload, remove).          *)
StoredAsRecorded == Space!StoredAsRecorded
=============================================================================
