------------------------------- MODULE Accounts -------------------------------
(***************************************************************************)
(* One e-mail address, its account and its sessions: registration and the  *)
(* one-time code (AuthService.register, verifyOtp), login, refresh-token   *)
(* rotation with reuse detection, password change and logout, and the      *)
(* browser that uses them: the cookie jar, the apiFetch of its open tabs   *)
(* with the refresh each tab shares, and middleware.ts, which refreshes on *)
(* navigation.                                                             *)
(*                                                                         *)
(* Every statement selects by the address or by ids below it, so one       *)
(* account is modelled. A call of the service is its reads, up to the      *)
(* first write, and then one action per statement or transaction.          *)
(***************************************************************************)
EXTENDS Naturals, FiniteSets

CONSTANTS
  Form,        \* submissions of the auth and settings pages in flight
  Nav,         \* navigations that pass through middleware.ts
  Fetch,       \* apiFetch calls of the open pages
  Tab, TabOf,  \* the browser's tabs, and the one whose page makes each of them
  MaxInFlight, \* bound: requests to /auth in flight at a time
  MaxTokens,   \* bound: refresh tokens ever issued
  MaxLapses,   \* bound: times an access or refresh token expires
  MaxChanges   \* bound: password changes

Caller == Form \cup Nav \cup Fetch
None == 0
Tokens == 1 .. MaxTokens

VARIABLES
  user,       \* the users row: "absent", "unverified" or "verified"
  otp,        \* the otps row: "absent", "unsent", "valid", "used", "expired"
  workspaces, \* workspaces inserted by verifyOtp
  token,      \* refresh_tokens, in the order of their INSERTs
  call,       \* requests to /auth in flight
  jar,        \* the browser's cookies: mnemra_rt, and whether mnemra_at is held
  fetch, refreshing,  \* apiFetch calls; the tabs whose refreshInFlight is set
  ended,      \* history: sessions ended by logout, password change or reuse
  outrun,     \* history: of those, the ones whose logout named a token that a
              \* refresh had rotated away meanwhile
  contended,  \* history: refreshes of middleware or of two tabs overlapped
  lost,       \* history: new tokens did not reach the browser
  replayed,   \* history: reuse detection fired on a token that was rotated away
  overlapped, \* history: two verifications were between their read and their write
  lapses, changes   \* history: what is bounded

db   == <<user, otp, workspaces, token>>
page == <<fetch, refreshing>>
hist == <<ended, outrun, contended, lost, replayed, overlapped, lapses, changes>>
vars == <<db, call, jar, page, hist>>

(* session: the first token of the chain of rotations. late: issued by a call  *)
(* whose session was ended between its read and its write.                     *)
Token == [revoked : BOOLEAN, rotated : BOOLEAN, expired : BOOLEAN,
          session : Tokens, late : BOOLEAN]

Request == [pc : {"idle", "register", "code", "mail", "verify", "login", "refresh",
                  "replay", "change", "logout", "loggedOut", "answered"},
            token : {None} \cup Tokens, late : BOOLEAN]

Idle == [pc |-> "idle", token |-> None, late |-> FALSE]

TypeOK ==
  /\ user \in {"absent", "unverified", "verified"}
  /\ otp \in {"absent", "unsent", "valid", "used", "expired"}
  /\ workspaces \in Nat
  /\ \E n \in 0 .. MaxTokens : token \in [1 .. n -> Token]
  /\ call \in [Caller -> Request]
  /\ jar \in [rt : {None} \cup Tokens, at : BOOLEAN]
  /\ fetch \in [Fetch -> {"idle", "unauthorized", "waiting", "retry"}]
  /\ refreshing \subseteq Tab
  /\ ended \subseteq Tokens /\ outrun \subseteq Tokens
  /\ {contended, lost, replayed, overlapped} \subseteq BOOLEAN
  /\ lapses \in 0 .. MaxLapses /\ changes \in 0 .. MaxChanges

Issued == DOMAIN token
Live(t) == t \in Issued /\ ~token[t].revoked /\ ~token[t].expired
At(c, pc) == call[c].pc = pc
Goto(c, pc) == call' = [call EXCEPT ![c].pc = pc]
Refuse(c) == call' = [call EXCEPT ![c] = Idle]   \* an exception filter answers

(* The bounds: a call begins while few are in flight, and one that is to open a *)
(* session while a token can still be issued.                                   *)
Room == Cardinality({c \in Caller : ~At(c, "idle")}) < MaxInFlight
Issuable == Cardinality(Issued) < MaxTokens

Init ==
  /\ user = "absent" /\ otp = "absent" /\ workspaces = 0
  /\ token = [t \in {} |-> {}]
  /\ call = [c \in Caller |-> Idle]
  /\ jar = [rt |-> None, at |-> FALSE]
  /\ fetch = [f \in Fetch |-> "idle"] /\ refreshing = {}
  /\ ended = {} /\ outrun = {} /\ lapses = 0 /\ changes = 0
  /\ contended = FALSE /\ lost = FALSE /\ replayed = FALSE
  /\ overlapped = FALSE

-----------------------------------------------------------------------------
(* Registration and the one-time code *)

RegisterCheck(c) ==
  /\ At(c, "idle") /\ user = "absent"
  /\ Goto(c, "register")
  /\ UNCHANGED <<db, jar, page, hist>>

(* The unique index on email decides between two registrations. *)
InsertUser(c) ==
  /\ At(c, "register")
  /\ IF user = "absent" THEN user' = "unverified" /\ Goto(c, "code")
                        ELSE Refuse(c) /\ UNCHANGED user
  /\ UNCHANGED <<otp, workspaces, token, jar, page, hist>>

InsertOtp(c) ==
  /\ At(c, "code")
  /\ otp' = "unsent"
  /\ Goto(c, "mail")
  /\ UNCHANGED <<user, workspaces, token, jar, page, hist>>

SendOtp(c) ==
  /\ At(c, "mail")
  /\ otp' = IF otp = "unsent" THEN "valid" ELSE otp
  /\ Refuse(c)
  /\ UNCHANGED <<user, workspaces, token, jar, page, hist>>

ExpireOtp ==
  /\ otp \in {"unsent", "valid"} /\ lapses < MaxLapses
  /\ otp' = "expired" /\ lapses' = lapses + 1
  /\ UNCHANGED <<user, workspaces, token, call, jar, page, ended, outrun, contended,
                 lost, replayed, overlapped, changes>>

VerifyRead(c) ==
  /\ At(c, "idle") /\ otp = "valid" /\ Issuable
  /\ Goto(c, "verify")
  /\ overlapped' = (overlapped \/ \E d \in Caller : At(d, "verify"))
  /\ UNCHANGED <<db, jar, page, ended, outrun, contended, lost, replayed, lapses,
                 changes>>

(* issueTokens: the INSERT; session None starts a new chain. *)
IssueTokens(c, rows, session, late) ==
  LET t == Cardinality(DOMAIN rows) + 1
      new == [revoked |-> FALSE, rotated |-> FALSE, expired |-> FALSE, late |-> late,
              session |-> IF session = None THEN t ELSE session]
  IN /\ t \in Tokens
     /\ token' = [u \in 1 .. t |-> IF u = t THEN new ELSE rows[u]]
     /\ call' = [call EXCEPT ![c] = [Idle EXCEPT !.pc = "answered", !.token = t]]

(* The transaction of verifyOtp; UPDATE otps selects by id alone. *)
VerifyCommit(c) ==
  /\ At(c, "verify")
  /\ otp' = "used" /\ user' = "verified" /\ workspaces' = workspaces + 1
  /\ IssueTokens(c, token, None, FALSE)
  /\ UNCHANGED <<jar, page, hist>>

-----------------------------------------------------------------------------
(* Sessions *)

(* The password is the right one: it is compared with the row as read. *)
LoginRead(c) ==
  /\ At(c, "idle") /\ user = "verified" /\ Issuable
  /\ Goto(c, "login")
  /\ UNCHANGED <<db, jar, page, hist>>

(* A login that read its user before the password was changed begins a session *)
(* that the change meant to end.                                               *)
LoginIssue(c) ==
  /\ At(c, "login")
  /\ IssueTokens(c, token, None, call[c].late)
  /\ ended' = IF call[c].late THEN ended \cup {Cardinality(Issued) + 1} ELSE ended
  /\ UNCHANGED <<user, otp, workspaces, jar, page, outrun, contended, lost, replayed,
                 overlapped, lapses, changes>>

(* UPDATE refresh_tokens SET revokedAt *)
Revoked(rows, which) ==
  [t \in DOMAIN rows |-> IF t \in which THEN [rows[t] EXCEPT !.revoked = TRUE] ELSE rows[t]]

Sessions == {token[t].session : t \in {u \in Issued : ~token[u].revoked}}

(* Calls that have read what is now ended, and have not written yet, are late. *)
EndSessions(c, which, next) ==
  /\ ended' = ended \cup which
  /\ call' = [d \in Caller |->
       IF d = c THEN next
       ELSE IF \/ At(d, "refresh") /\ token[call[d].token].session \in which
               \/ At(d, "login") /\ At(c, "change")
       THEN [call[d] EXCEPT !.late = TRUE] ELSE call[d]]

(* POST /auth/refresh with the cookie rt, up to its first write. *)
RefreshRead(c, rt) ==
  /\ At(c, "idle")
  /\ call' = [call EXCEPT ![c] =
       IF rt = None THEN [Idle EXCEPT !.pc = "answered"]
       ELSE IF token[rt].revoked THEN [Idle EXCEPT !.pc = "replay", !.token = rt]
       ELSE IF token[rt].expired THEN [Idle EXCEPT !.pc = "answered"]
       ELSE [Idle EXCEPT !.pc = "refresh", !.token = rt]]

(* The transaction: UPDATE by id alone, whatever happened since the row was     *)
(* read. Of two refreshes of one token the second opens a chain of its own.     *)
RefreshCommit(c) ==
  LET rt == call[c].token IN
  /\ At(c, "refresh")
  /\ IssueTokens(c, Revoked([token EXCEPT ![rt].rotated = TRUE], {rt}),
                 IF token[rt].rotated THEN None ELSE token[rt].session,
                 token[rt].late \/ call[c].late)
  /\ UNCHANGED <<user, otp, workspaces, jar, page, hist>>

(* A revoked token was presented: every session of the user is revoked. *)
RevokeAll(c) ==
  /\ At(c, "replay")
  /\ token' = Revoked(token, Issued)
  /\ EndSessions(c, Sessions, [Idle EXCEPT !.pc = "answered"])
  /\ outrun' = outrun \ Sessions
  /\ replayed' = (replayed \/ token[call[c].token].rotated)
  /\ UNCHANGED <<user, otp, workspaces, jar, page, contended, lost, overlapped,
                 lapses, changes>>

(* JwtAuthGuard, the SELECT and the comparison of changePassword. *)
ChangeRead(c) ==
  /\ At(c, "idle") /\ jar.at /\ changes < MaxChanges
  /\ Goto(c, "change")
  /\ UNCHANGED <<db, jar, page, hist>>

ChangePasswordOnly(c) ==
  /\ At(c, "change") /\ changes < MaxChanges
  /\ EndSessions(c, Sessions, Idle)
  /\ outrun' = outrun \ Sessions
  /\ changes' = changes + 1
  /\ UNCHANGED <<db, jar, page, contended, lost, replayed, overlapped, lapses>>

ChangePassword(c) ==
  /\ At(c, "change") /\ changes < MaxChanges
  /\ token' = Revoked(token, Issued)
  /\ EndSessions(c, Sessions, Idle)
  /\ outrun' = outrun \ Sessions
  /\ changes' = changes + 1
  /\ UNCHANGED <<user, otp, workspaces, jar, page, contended, lost, replayed,
                 overlapped, lapses>>

(* The logout route sends on the cookie it was called with. *)
LogoutSend(c) ==
  /\ At(c, "idle") /\ jar.rt # None
  /\ call' = [call EXCEPT ![c] = [Idle EXCEPT !.pc = "logout", !.token = jar.rt]]
  /\ UNCHANGED <<db, jar, page, hist>>

(* The UPDATE selects by the token alone: where a refresh has rotated it since, *)
(* it was revoked already, and the successor stays.                             *)
Logout(c) ==
  LET rt == call[c].token
      session == token[rt].session
  IN /\ At(c, "logout")
     /\ token' = Revoked(token, {rt})
     /\ EndSessions(c, {session}, [Idle EXCEPT !.pc = "loggedOut"])
     /\ outrun' = IF token[rt].rotated THEN outrun \cup {session} ELSE outrun \ {session}
     /\ UNCHANGED <<user, otp, workspaces, jar, page, contended, lost, replayed,
                    overlapped, lapses, changes>>

(* The UPDATE fails: the route does not look at what the service answered. *)
LogoutRefused(c) ==
  /\ At(c, "logout")
  /\ call' = [call EXCEPT ![c] = [Idle EXCEPT !.pc = "loggedOut"]]
  /\ UNCHANGED <<db, jar, page, hist>>

(* The route's answer deletes both cookies, whatever they hold by then. *)
LoggedOut(c) ==
  /\ At(c, "loggedOut")
  /\ jar' = [rt |-> None, at |-> FALSE]
  /\ Refuse(c)
  /\ UNCHANGED <<db, page, hist>>

(* A statement or the mail fails, the process dies, or the answer is lost. *)
RequestFails(c) ==
  /\ c \in Form /\ call[c].pc \notin {"idle", "answered"}
  /\ Refuse(c)
  /\ UNCHANGED <<db, jar, page, hist>>

(* Set-Cookie of the answer to a form. *)
Receive(c) ==
  /\ At(c, "answered") /\ c \in Form
  /\ jar' = [rt |-> call[c].token, at |-> TRUE]
  /\ Refuse(c)
  /\ UNCHANGED <<db, page, hist>>

-----------------------------------------------------------------------------
(* The browser *)

(* Fifteen minutes: longer than a refresh and the retry after it take. *)
ExpireAccess ==
  /\ jar.at /\ lapses < MaxLapses /\ \A f \in Fetch : fetch[f] \notin {"waiting", "retry"}
  /\ jar' = [jar EXCEPT !.at = FALSE] /\ lapses' = lapses + 1
  /\ UNCHANGED <<db, call, page, ended, outrun, contended, lost, replayed, overlapped,
                 changes>>

(* Seven days: the row and the cookie that names it expire together. *)
ExpireSession ==
  /\ jar.rt # None /\ lapses < MaxLapses
  /\ token' = [token EXCEPT ![jar.rt].expired = TRUE]
  /\ jar' = [rt |-> None, at |-> FALSE] /\ lapses' = lapses + 1
  /\ UNCHANGED <<user, otp, workspaces, call, page, ended, outrun, contended, lost,
                 replayed, overlapped, changes>>

(* apiFetch of a page whose access token is gone: proxyJson answers 401. *)
FetchUnauthorized(f) ==
  /\ fetch[f] = "idle" /\ jar.rt # None /\ ~jar.at
  /\ fetch' = [fetch EXCEPT ![f] = "unauthorized"]
  /\ UNCHANGED <<db, call, jar, refreshing, hist>>

Contend(others) == contended' = (contended \/ \E c \in others : call[c].pc # "idle")

(* The cookie jar is the browser's; refreshInFlight is a variable of the page. *)
Elsewhere(f) == Nav \cup {g \in Fetch : TabOf[g] # TabOf[f]}

(* refreshSession: join the refresh this tab has in flight, or start one. *)
JoinRefresh(f) ==
  /\ fetch[f] = "unauthorized" /\ TabOf[f] \in refreshing
  /\ fetch' = [fetch EXCEPT ![f] = "waiting"]
  /\ UNCHANGED <<db, call, jar, refreshing, hist>>

StartRefreshUnshared(f) ==
  /\ fetch[f] = "unauthorized" /\ Room
  /\ fetch' = [fetch EXCEPT ![f] = "waiting"]
  /\ refreshing' = refreshing \cup {TabOf[f]}
  /\ RefreshRead(f, jar.rt)
  /\ Contend(Elsewhere(f))
  /\ UNCHANGED <<db, jar, ended, outrun, lost, replayed, overlapped, lapses, changes>>

StartRefresh(f) ==
  /\ fetch[f] = "unauthorized" /\ TabOf[f] \notin refreshing /\ Room
  /\ fetch' = [fetch EXCEPT ![f] = "waiting"]
  /\ refreshing' = refreshing \cup {TabOf[f]}
  /\ RefreshRead(f, jar.rt)
  /\ Contend(Elsewhere(f))
  /\ UNCHANGED <<db, jar, ended, outrun, lost, replayed, overlapped, lapses, changes>>

(* The promise of f's tab resolves and is cleared; those who wait for it retry, *)
(* or the page goes to /login (isUnauthorized).                                 *)
Settle(f, ok) ==
  /\ refreshing' = refreshing \ {TabOf[f]}
  /\ fetch' = [g \in Fetch |-> IF fetch[g] # "waiting" \/ TabOf[g] # TabOf[f] THEN fetch[g]
                               ELSE IF ok THEN "retry" ELSE "idle"]

StoreAccessOnly(c) ==
  jar' = IF call[c].token = None THEN jar ELSE [jar EXCEPT !.at = TRUE]

(* The cookies of an answer, when it brings any. *)
Store(c) ==
  LET new == call[c].token IN
  jar' = IF new = None THEN jar ELSE [rt |-> new, at |-> TRUE]

RefreshAnswered(f) ==
  /\ At(f, "answered") /\ f \in Fetch
  /\ Store(f) /\ Refuse(f)
  /\ Settle(f, call[f].token # None)
  /\ UNCHANGED <<db, hist>>

(* A statement fails, or the connection breaks and the new tokens are lost. *)
RefreshFails(c) ==
  /\ c \in Nav \cup Fetch /\ call[c].pc # "idle"
  /\ lost' = (lost \/ (At(c, "answered") /\ call[c].token # None))
  /\ Refuse(c)
  /\ IF c \in Fetch THEN Settle(c, FALSE) ELSE UNCHANGED page
  /\ UNCHANGED <<db, jar, ended, outrun, contended, replayed, overlapped, lapses, changes>>

(* Once, whatever it is answered. *)
Retry(f) ==
  /\ fetch[f] = "retry"
  /\ fetch' = [fetch EXCEPT ![f] = "idle"]
  /\ UNCHANGED <<db, call, jar, refreshing, hist>>

(* middleware.ts: a request with mnemra_rt but without mnemra_at refreshes. *)
Navigate(n) ==
  /\ jar.rt # None /\ ~jar.at /\ Room
  /\ RefreshRead(n, jar.rt)
  /\ Contend((Nav \cup Fetch) \ {n})
  /\ UNCHANGED <<db, jar, page, ended, outrun, lost, replayed, overlapped, lapses, changes>>

NavigateAnswered(n) ==
  /\ At(n, "answered") /\ n \in Nav
  /\ Store(n) /\ Refuse(n)
  /\ UNCHANGED <<db, page, hist>>

Submit(c) ==
  Room /\ (RegisterCheck(c) \/ VerifyRead(c) \/ LoginRead(c) \/ ChangeRead(c) \/ LogoutSend(c))

Serve(c) ==
  \/ InsertUser(c) \/ InsertOtp(c) \/ SendOtp(c) \/ VerifyCommit(c) \/ LoginIssue(c)
  \/ RefreshCommit(c) \/ RevokeAll(c) \/ ChangePassword(c) \/ Logout(c)
  \/ LogoutRefused(c)

Next ==
  \/ \E c \in Form : Submit(c) \/ Receive(c) \/ LoggedOut(c) \/ RequestFails(c)
  \/ \E c \in Caller : Serve(c) \/ RefreshFails(c)
  \/ \E f \in Fetch : FetchUnauthorized(f) \/ JoinRefresh(f) \/ StartRefresh(f)
                        \/ RefreshAnswered(f) \/ Retry(f)
  \/ \E n \in Nav : Navigate(n) \/ NavigateAnswered(n)
  \/ ExpireOtp \/ ExpireAccess \/ ExpireSession

Spec == Init /\ [][Next]_vars

-----------------------------------------------------------------------------
(* What accounts promise *)

(* A session ended by logout, by a password change or as stolen has no usable   *)
(* refresh token any more, with two exceptions. A call that had read its row    *)
(* before the end and writes after it revives it (late: refresh and login       *)
(* decide on a row they read earlier). And a logout whose token a refresh has   *)
(* rotated since it was sent ends nothing (outrun), until the session is ended  *)
(* once more. A logout that failed has ended no session.                        *)
EndedStayEnded ==
  \A t \in Issued : Live(t) /\ token[t].session \in ended \ outrun => token[t].late

(* The requests of a page never look like theft: as long as its refresh does    *)
(* not overlap one of middleware or of another tab, and no answer is lost, no   *)
(* rotated token is ever presented again, however many requests of however many *)
(* tabs meet an expired access token.                                           *)
NoFalseTheft == replayed => contended \/ lost

(* A one-time code opens one workspace: only verifications that overlap open   *)
(* two (the UPDATE of otps selects by id alone).                               *)
OneWorkspace == workspaces > 1 => overlapped

(* The browser's refresh token is the live one of its session, or one that a   *)
(* refresh in flight is about to replace, unless the session was ended.        *)
JarIsCurrent ==
  jar.rt # None /\ ~contended /\ ~lost =>
    \/ Live(jar.rt) \/ token[jar.rt].session \in ended
    \/ \E c \in Nav \cup Fetch : At(c, "answered")

=============================================================================
