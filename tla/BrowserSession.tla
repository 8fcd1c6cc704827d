--------------------------- MODULE BrowserSession ---------------------------
(***************************************************************************)
(* The sign-in session of one browser: the tabs of the front end           *)
(* (App.jsx, lib/api.js, lib/sessionValidation.js, main.jsx), the refresh  *)
(* cookie they share, and the refresh-token rows of the server             *)
(* (core/refresh_sessions.py, routes/routes_auth.py).                      *)
(*                                                                         *)
(* A tab keeps its access token in memory; the cookie holds a refresh      *)
(* token that every use rotates and whose replay revokes its family.       *)
(* Requests travel in phases (sent, worked on, answered), so that answers  *)
(* may be lost, overtake one another, or arrive in a tab that has signed   *)
(* out or in again meanwhile.                                              *)
(***************************************************************************)
EXTENDS SessionConstants

Row == 1..MaxRows
Cookie == 0..MaxRows    \* 0 : no cookie; in an answer, a refusal (401)

VARIABLES
    sessionScene, \* the scene of this behaviour, which never changes
    issued,     \* rows issued so far
    family,     \* family[r]: first row of the login r descends from, 0 if unused
    owner,      \* owner[r]: the account of the row
    live,       \* rows neither revoked nor expired
    cookie,     \* the row whose token the browser's cookie holds
    hint,       \* bachkhoa_auth_session_hint in localStorage
    tab,        \* tab[t]: token, screen, remembered profile and calls of a tab
    refresh,    \* refresh[t]: the tab's single refresh in flight
    signIn,     \* signIn[t]: the tab's login request
    signOut,    \* signOut[t]: the tab's logout request
    missed,     \* history: families whose revocation overlapped a rotation
    closed,     \* history: families a logout was carried out for
    crossed,    \* history: tabs an answer of another sign-in may have reached
    disturbed   \* history: an answer was lost, or requests on the cookie overlapped

serverSide == <<sessionScene, issued, family, owner, live, missed, closed>>
wires == <<refresh, signIn, signOut>>
sessionVars ==
    <<sessionScene, issued, family, owner, live, cookie, hint, tab, refresh, signIn,
      signOut, missed, closed, crossed, disturbed>>

-----------------------------------------------------------------------------
Anyone == Users \cup {NoUser}
NoAccess == [user |-> NoUser, fresh |-> FALSE]
LoggedOut == [loggedIn |-> FALSE, loading |-> FALSE, failed |-> FALSE,
              timer |-> FALSE, profile |-> NoUser]
NoRefresh == [phase |-> "idle", cookie |-> 0, row |-> 0]
NoSignIn == [phase |-> "idle", user |-> NoUser, row |-> 0, kind |-> "password"]
NoSignOut == [phase |-> "idle", cookie |-> 0]
NoCall == [phase |-> "idle", me |-> FALSE, check |-> FALSE, again |-> FALSE,
           tries |-> 0, bearer |-> NoAccess]
NewTab == [access |-> NoAccess, app |-> LoggedOut, known |-> NoUser,
           calls |-> [i \in Calls |-> NoCall]]

Access == [user : Anyone, fresh : BOOLEAN]
AppState == [loggedIn : BOOLEAN, loading : BOOLEAN, failed : BOOLEAN,
             timer : BOOLEAN, profile : Anyone]
CallState == [phase : {"idle", "ensure", "sent", "renew", "sleep"},
              me : BOOLEAN, check : BOOLEAN, again : BOOLEAN,
              tries : 0..Attempts, bearer : Access]
TabState == [access : Access, app : AppState, known : Anyone,
             calls : [Calls -> CallState]]
RefreshState == [phase : {"idle", "sent", "locked", "answered"},
                 cookie : Cookie, row : Cookie]
SignInKinds == {"password", "reset", "invite"}
SignInState == [phase : {"idle", "sent", "answered"}, user : Anyone,
                row : Cookie, kind : SignInKinds]
SignOutState == [phase : {"idle", "sent", "answered"}, cookie : Cookie]

SessionInit ==
    /\ sessionScene \in SessionScenes
    /\ issued = 0 /\ live = {} /\ missed = {} /\ closed = {}
    /\ family = [r \in Row |-> 0]
    /\ owner = [r \in Row |-> NoUser]
    /\ cookie = 0 /\ hint = FALSE /\ crossed = {} /\ disturbed = FALSE
    /\ tab = [t \in Tabs |-> NewTab]
    /\ refresh = [t \in Tabs |-> NoRefresh]
    /\ signIn = [t \in Tabs |-> NoSignIn]
    /\ signOut = [t \in Tabs |-> NoSignOut]

-----------------------------------------------------------------------------
(* What a tab does to itself.                                              *)

\* Broken: the token goes, the cached profile stays.
ClearedToken(tb) == [tb EXCEPT !.access = NoAccess]

\* clearAccessToken: the token goes, and with it everything the cache holds.
Cleared(tb) == [tb EXCEPT !.access = NoAccess, !.known = NoUser]

\* handleLogout, without its request: a check under way loses its screen.
LeftDesk(tb) ==
    [Cleared(tb) EXCEPT !.app = LoggedOut,
                        !.calls = [i \in Calls |-> [@[i] EXCEPT !.check = FALSE]]]

\* setProfile and the flags the validation effect resets on success.
Shown(tb, u) ==
    [tb EXCEPT !.app = [@ EXCEPT !.profile = u, !.failed = FALSE,
                                 !.loading = FALSE, !.timer = FALSE]]

Dropped(tb, i) == [tb EXCEPT !.calls[i] = NoCall]

\* requestOnce reads the token at the moment it sends.
Sent(tb, i) == [tb EXCEPT !.calls[i].phase = "sent", !.calls[i].bearer = tb.access]

\* One try of validateSession: make sure of a token, then ask /api/auth/me,
\* which apiFetch answers from the read cache when it can.
Tried(tb, i) ==
    CASE tb.access.user = NoUser -> [tb EXCEPT !.calls[i].phase = "ensure"]
      [] tb.access.user # NoUser /\ tb.known = NoUser -> Sent(tb, i)
      [] OTHER -> IF tb.calls[i].check THEN Dropped(Shown(tb, tb.known), i)
                                       ELSE Dropped(tb, i)

\* The validation effect: loading, the safety timer and a first try.
Checking(tb, i) ==
    Tried([tb EXCEPT !.app.timer = TRUE,
                     !.calls[i] = [NoCall EXCEPT !.me = TRUE, !.check = TRUE]], i)

\* A try failed for another reason than 401: wait and try again, or give up.
Waiting(c) == [c EXCEPT !.phase = "sleep", !.tries = @ + 1, !.again = FALSE,
                        !.bearer = NoAccess]
TriesAgain(c) == c.me /\ c.tries + 1 < Attempts
AfterFailure(c) == IF TriesAgain(c) THEN Waiting(c) ELSE NoCall
GivesUp(c) == c.me /\ c.check /\ ~TriesAgain(c)
CannotReach(app) == [app EXCEPT !.failed = TRUE, !.loading = FALSE, !.timer = FALSE]

\* The calls I of the tab fail with the network.
TriesFailed(tb, I) ==
    [tb EXCEPT !.calls = [i \in Calls |-> IF i \in I THEN AfterFailure(@[i]) ELSE @[i]],
               !.app = IF \E i \in I : GivesUp(tb.calls[i]) THEN CannotReach(@) ELSE @]

Waits(tb, i) == tb.calls[i].phase \in {"ensure", "renew"}
Free(tb, i) == tb.calls[i].phase = "idle"

\* Every waiter of a renewed token goes on: a check asks, a call is repeated.
Resumed(tb) ==
    [tb EXCEPT !.calls = [i \in Calls |->
        IF ~Waits(tb, i) THEN @[i]
        ELSE [@[i] EXCEPT !.phase = "sent", !.bearer = tb.access,
                          !.again = (tb.calls[i].phase = "renew")]]]

\* The waiters of a refresh that failed with the network.
Disappointed(tb) == TriesFailed(tb, {i \in Calls : Waits(tb, i)})

\* Tokens of u issued so far stop being accepted (user_token_cutoff).
Outdated(token, u) == [token EXCEPT !.fresh = (@ /\ token.user # u)]
CutOff(tb, u) ==
    [tb EXCEPT !.access = Outdated(@, u),
               !.calls = [i \in Calls |->
                    [tb.calls[i] EXCEPT !.bearer = Outdated(tb.calls[i].bearer, u)]]]

(* Requests that carry the cookie.                                         *)

Refreshing == \E s \in Tabs : refresh[s].phase # "idle"
CookieBusy == \/ Refreshing
              \/ \E s \in Tabs : signIn[s].phase # "idle" \/ signOut[s].phase # "idle"

\* POST /api/auth/refresh takes the cookie of the moment.
Asking == [phase |-> "sent", cookie |-> cookie, row |-> 0]

\* The tab becomes tb; a waiter with no refresh under way sends one.
Becomes(t, tb) ==
    LET asks == /\ \E i \in Calls : Waits(tb, i)
                /\ refresh[t].phase = "idle"
    IN  /\ tab' = [tab EXCEPT ![t] = tb]
        /\ refresh' = IF asks
                      THEN [refresh EXCEPT ![t] = Asking]
                      ELSE refresh
        /\ disturbed' = (disturbed \/ (asks /\ CookieBusy))

\* handleLogout: leave the desk at once, tell the server without waiting.
Leaves(t, tb) ==
    /\ tab' = [tab EXCEPT ![t] = LeftDesk(tb)]
    /\ hint' = FALSE
    /\ disturbed' = (disturbed \/ CookieBusy)
    /\ signOut' = IF signOut[t].phase = "idle"
                  THEN [signOut EXCEPT ![t] = [phase |-> "sent", cookie |-> cookie]]
                  ELSE signOut

\* The accounts a tab knows of: its profile, its token, the cached profile and
\* what its calls carry.  A tab that knows of another than u is a stranger to the
\* cookie once that stands for u.
Known(tb) == ({tb.app.profile, tb.access.user, tb.known}
                 \cup {tb.calls[i].bearer.user : i \in Calls}) \ {NoUser}
Strangers(u) == {s \in Tabs : tab[s].app.loggedIn /\ ~(Known(tab[s]) \subseteq {u})}

-----------------------------------------------------------------------------
(* The server.                                                             *)

Answered(request, r) == [request EXCEPT !.phase = "answered", !.row = r]

Locked == {refresh[t].cookie : t \in {s \in Tabs : refresh[s].phase = "locked"}}

\* UPDATE ... SET revoked_at WHERE revoked_at IS NULL, run beside a rotation:
\* it waits for the locked row, which then no longer qualifies, and never
\* sees the row the rotation inserted.
Revoke(R) ==
    /\ live' = live \ (R \ Locked)
    /\ missed' = missed \cup {family[r] : r \in R \cap Locked}

\* Broken: WHERE id = family_id.
OfFamilyFirst(f) == {r \in live : r = f}

OfFamily(f) == {r \in live : family[r] = f}
OfUser(u) == {r \in live : owner[r] = u}

\* issue_refresh_session: the first row of a family.
Issue(u) ==
    /\ issued < MaxRows
    /\ issued' = issued + 1
    /\ family' = [family EXCEPT ![issued + 1] = issued + 1]
    /\ owner' = [owner EXCEPT ![issued + 1] = u]

\* POST /api/auth/login, or the completion of an invitation, which revokes nothing
\* either.
ServerLogin(t) ==
    /\ signIn[t].phase = "sent" /\ signIn[t].kind # "reset"
    /\ Issue(signIn[t].user)
    /\ live' = live \cup {issued + 1}
    /\ signIn' = [signIn EXCEPT ![t] = Answered(@, issued + 1)]
    /\ UNCHANGED <<sessionScene, cookie, hint, tab, refresh, signOut, missed,
                   closed, crossed, disturbed>>

\* reset_password_with_otp: every session and every access token of the account
\* ends first; the token of the answer falls under the same cut-off second.
ServerReset(t) ==
    /\ signIn[t].phase = "sent" /\ signIn[t].kind = "reset"
    /\ Issue(signIn[t].user)
    /\ live' = (live \ (OfUser(signIn[t].user) \ Locked)) \cup {issued + 1}
    /\ missed' = missed \cup {family[r] : r \in OfUser(signIn[t].user) \cap Locked}
    /\ tab' = [s \in Tabs |-> CutOff(tab[s], signIn[t].user)]
    /\ signIn' = [signIn EXCEPT ![t] = Answered(@, issued + 1)]
    /\ disturbed' = TRUE
    /\ UNCHANGED <<sessionScene, cookie, hint, refresh, signOut, closed,
                   crossed>>

\* rotate_refresh_session up to its lock: SELECT ... FOR UPDATE finds the row.
\* A row already used revokes the family, an expired one is refused as well.
ServerRefuse(t) ==
    LET c == refresh[t].cookie IN
    /\ refresh[t].phase = "sent"
    /\ c \notin live /\ c \notin Locked
    /\ refresh' = [refresh EXCEPT ![t] = Answered(@, 0)]
    /\ IF c = 0 THEN UNCHANGED <<live, missed>> ELSE Revoke(OfFamily(family[c]))
    /\ UNCHANGED <<sessionScene, issued, family, owner, cookie, hint, tab,
                   signIn, signOut, closed, crossed, disturbed>>

ServerLock(t) ==
    /\ refresh[t].phase = "sent"
    /\ refresh[t].cookie \in live \ Locked
    /\ issued < MaxRows
    /\ refresh' = [refresh EXCEPT ![t].phase = "locked"]
    /\ UNCHANGED <<serverSide, cookie, hint, tab, signIn, signOut, crossed,
                   disturbed>>

\* Broken: the row that was used stays good.
ReplacedNot(c) == live \cup {issued + 1}

\* revoked_at and replaced_by of the row that was used.
Replaced(c) == (live \ {c}) \cup {issued + 1}

\* ... and from the flush to the commit: the replacement, then the old row.
ServerRotate(t) ==
    LET c == refresh[t].cookie IN
    /\ refresh[t].phase = "locked"
    /\ issued < MaxRows
    /\ issued' = issued + 1
    /\ family' = [family EXCEPT ![issued + 1] = family[c]]
    /\ owner' = [owner EXCEPT ![issued + 1] = owner[c]]
    /\ live' = Replaced(c)
    /\ refresh' = [refresh EXCEPT ![t] = Answered(@, issued + 1)]
    /\ UNCHANGED <<sessionScene, cookie, hint, tab, signIn, signOut, missed,
                   closed, crossed, disturbed>>

\* POST /api/auth/logout: revoke_refresh_session reads without a lock.
ServerLogout(t) ==
    LET c == signOut[t].cookie IN
    /\ signOut[t].phase = "sent"
    /\ signOut' = [signOut EXCEPT ![t].phase = "answered"]
    /\ IF c = 0
       THEN UNCHANGED <<live, missed, closed>>
       ELSE Revoke(OfFamily(family[c])) /\ closed' = closed \cup {family[c]}
    /\ UNCHANGED <<sessionScene, issued, family, owner, cookie, hint, tab,
                   refresh, signIn, crossed, disturbed>>

\* POST /api/auth/change-password, from any device.
PasswordChanged(u) ==
    /\ "password" \in sessionScene.faults
    /\ OfUser(u) # {}
    /\ Revoke(OfUser(u))
    /\ tab' = [s \in Tabs |-> CutOff(tab[s], u)]
    /\ disturbed' = TRUE
    /\ UNCHANGED <<sessionScene, issued, family, owner, cookie, hint, refresh,
                   signIn, signOut, closed, crossed>>

\* expires_at or idle_expires_at of a row passes.
Lapse(r) ==
    /\ "age" \in sessionScene.faults
    /\ r \in live \ Locked
    /\ live' = live \ {r}
    /\ disturbed' = TRUE
    /\ UNCHANGED <<sessionScene, issued, family, owner, cookie, hint, tab,
                   refresh, signIn, signOut, missed, closed, crossed>>

\* ACCESS_TOKEN_EXPIRE_MINUTES pass.
Expire(t) ==
    /\ "age" \in sessionScene.faults
    /\ tab[t].access.fresh
    /\ tab' = [tab EXCEPT ![t].access.fresh = FALSE]
    /\ UNCHANGED <<serverSide, cookie, hint, wires, crossed, disturbed>>

-----------------------------------------------------------------------------
(* The tabs.                                                               *)

\* The page is loaded: the token is gone with the memory, the hint decides
\* whether the cookie is tried.  Answers under way reach nobody.
Open(t) ==
    LET fresh == [NewTab EXCEPT !.app.loggedIn = hint, !.app.loading = hint] IN
    /\ "reload" \in sessionScene.faults
    /\ refresh[t].phase # "locked"
    /\ signIn[t].phase = "idle" /\ signOut[t].phase = "idle"
    /\ \E i \in Calls :
        tab' = [tab EXCEPT ![t] = IF hint THEN Checking(fresh, i) ELSE fresh]
    /\ refresh' = [refresh EXCEPT ![t] =
                                IF hint THEN Asking ELSE NoRefresh]
    /\ disturbed' = (disturbed \/ refresh[t].phase = "answered"
                               \/ (hint /\ CookieBusy))
    /\ crossed' = crossed \ {t}
    /\ UNCHANGED <<serverSide, cookie, hint, signIn, signOut>>

\* handleLoginSubmit; the reset by a one-time code; or SetPassword, the page that the
\* link of an invitation opens anew.
SendLogin(t, u, kind) ==
    /\ ~tab[t].app.loggedIn
    /\ kind = "reset" => "password" \in sessionScene.faults
    /\ kind = "invite" => /\ "reload" \in sessionScene.faults
                          /\ tab[t] = NewTab /\ refresh[t] = NoRefresh
    /\ signIn[t].phase = "idle"
    /\ signIn' = [signIn EXCEPT ![t] = [phase |-> "sent", user |-> u, row |-> 0,
                                        kind |-> kind]]
    /\ disturbed' = (disturbed \/ CookieBusy)
    /\ UNCHANGED <<serverSide, cookie, hint, tab, refresh, signOut, crossed>>

\* handleLogin: token and profile of the answer, then the validation effect.
\* SetPassword hands over a token only, and the screen waits for the check; the
\* token of a reset falls under its own cut-off.
DeliverLogin(t, i) ==
    LET a == signIn[t]
        tb == [tab[t] EXCEPT
                 !.access = [user |-> a.user, fresh |-> a.kind # "reset"],
                 !.app = [LoggedOut EXCEPT
                            !.loggedIn = TRUE, !.loading = a.kind = "invite",
                            !.profile = IF a.kind = "invite" THEN @ ELSE a.user]]
    IN  /\ a.phase = "answered"
        /\ Free(tab[t], i)
        /\ cookie' = a.row /\ hint' = TRUE
        /\ tab' = [tab EXCEPT ![t] = Checking(tb, i)]
        /\ signIn' = [signIn EXCEPT ![t] = NoSignIn]
        /\ crossed' = crossed \cup (Strangers(a.user) \ {t})
             \cup (IF /\ refresh[t].phase = "idle" /\ signOut[t].phase = "idle"
                      /\ \A j \in Calls : Free(tab[t], j)
                   THEN {} ELSE {t})
        /\ UNCHANGED <<serverSide, refresh, signOut, disturbed>>

\* The request fails before or after the server has worked on it.
FailLogin(t) ==
    /\ "network" \in sessionScene.faults
    /\ signIn[t].phase # "idle"
    /\ signIn' = [signIn EXCEPT ![t] = NoSignIn]
    /\ UNCHANGED <<serverSide, cookie, hint, tab, refresh, signOut, crossed,
                   disturbed>>

\* refreshAccessToken: Set-Cookie, the token, then everybody who waited for it.
DeliverRefresh(t) ==
    LET a == refresh[t]
        u == owner[a.row]
    IN  /\ a.phase = "answered" /\ a.row # 0
        /\ cookie' = a.row
        /\ tab' = [tab EXCEPT ![t] =
                     Resumed([@ EXCEPT !.access = [user |-> u, fresh |-> TRUE]])]
        /\ refresh' = [refresh EXCEPT ![t] = NoRefresh]
        /\ crossed' = crossed \cup Strangers(u) \cup (IF tab[t].app.loggedIn THEN {} ELSE {t})
        /\ UNCHANGED <<serverSide, hint, signIn, signOut, disturbed>>

\* A refusal leaves the cookie alone.  A repeated call, and the check of a
\* screen that is still shown, sign the tab out; another waiter just fails.
DeliverRefusal(t) ==
    LET tb == [tab[t] EXCEPT !.calls =
                 [i \in Calls |-> IF Waits(tab[t], i) THEN NoCall ELSE @[i]]]
        leaves == \E i \in Calls : \/ tab[t].calls[i].phase = "renew"
                                   \/ Waits(tab[t], i) /\ tab[t].calls[i].check
    IN  /\ refresh[t].phase = "answered" /\ refresh[t].row = 0
        /\ refresh' = [refresh EXCEPT ![t] = NoRefresh]
        /\ IF leaves THEN Leaves(t, tb)
           ELSE /\ tab' = [tab EXCEPT ![t] = tb]
                /\ UNCHANGED <<hint, signOut, disturbed>>
        /\ UNCHANGED <<serverSide, cookie, signIn, crossed>>

\* The refresh fails with the network, its work possibly done.
FailRefresh(t) ==
    /\ "network" \in sessionScene.faults
    /\ refresh[t].phase \in {"sent", "answered"}
    /\ tab' = [tab EXCEPT ![t] = Disappointed(@)]
    /\ refresh' = [refresh EXCEPT ![t] = NoRefresh]
    /\ disturbed' = (disturbed \/ refresh[t].phase = "answered")
    /\ UNCHANGED <<serverSide, cookie, hint, signIn, signOut, crossed>>

ClickLogout(t) ==
    /\ tab[t].app.loggedIn
    /\ Leaves(t, tab[t])
    /\ UNCHANGED <<serverSide, cookie, refresh, signIn, crossed>>

\* Broken: the answer leaves the cookie in the browser.
DeliverLogoutKeepsCookie(t) ==
    /\ signOut[t].phase = "answered"
    /\ hint' = FALSE
    /\ tab' = [tab EXCEPT ![t] = Cleared(@)]
    /\ signOut' = [signOut EXCEPT ![t] = NoSignOut]
    /\ UNCHANGED <<serverSide, cookie, refresh, signIn, crossed, disturbed>>

\* logoutSession: whatever the answer, clearAccessToken, in whichever session.
DeliverLogout(t) ==
    /\ signOut[t].phase = "answered"
    /\ cookie' = 0 /\ hint' = FALSE
    /\ tab' = [tab EXCEPT ![t] = Cleared(@)]
    /\ signOut' = [signOut EXCEPT ![t] = NoSignOut]
    /\ UNCHANGED <<serverSide, refresh, signIn, crossed, disturbed>>

FailLogout(t) ==
    /\ "network" \in sessionScene.faults
    /\ signOut[t].phase # "idle"
    /\ hint' = FALSE
    /\ tab' = [tab EXCEPT ![t] = Cleared(@)]
    /\ signOut' = [signOut EXCEPT ![t] = NoSignOut]
    /\ disturbed' = (disturbed \/ signOut[t].phase = "answered")
    /\ UNCHANGED <<serverSide, cookie, refresh, signIn, crossed>>

\* Any screen calls the server through apiFetch or the wrapped fetch.
UserCall(t, i) ==
    /\ tab[t].app.loggedIn /\ ~tab[t].app.loading
    /\ Free(tab[t], i)
    /\ tab' = [tab EXCEPT ![t] = Sent(@, i)]
    /\ UNCHANGED <<serverSide, cookie, hint, wires, crossed, disturbed>>

\* An accepted call; /api/auth/me is remembered, and shown if its check lives.
DeliverCall(t, i) ==
    LET c == tab[t].calls[i]
        u == c.bearer.user
        tb == IF c.me THEN [tab[t] EXCEPT !.known = u] ELSE tab[t]
    IN  /\ c.phase = "sent" /\ c.bearer.fresh
        /\ tab' = [tab EXCEPT ![t] = Dropped(IF c.check THEN Shown(tb, u) ELSE tb, i)]
        /\ crossed' = IF c.me /\ ~tab[t].app.loggedIn THEN crossed \cup {t} ELSE crossed
        /\ UNCHANGED <<serverSide, cookie, hint, wires, disturbed>>

\* 401: renew the token and repeat once; the second 401 signs out.
DeliverUnauthorized(t, i) ==
    LET c == tab[t].calls[i] IN
    /\ c.phase = "sent" /\ ~c.bearer.fresh
    /\ \/ /\ ~c.again
          /\ Becomes(t, [tab[t] EXCEPT !.calls[i].phase = "renew",
                                       !.calls[i].bearer = NoAccess])
          /\ UNCHANGED <<hint, signOut>>
       \/ /\ c.again
          /\ Leaves(t, Dropped(tab[t], i))
          /\ UNCHANGED refresh
    /\ UNCHANGED <<serverSide, cookie, signIn, crossed>>

\* A timeout or a network error.
FailCall(t, i) ==
    /\ "network" \in sessionScene.faults
    /\ tab[t].calls[i].phase = "sent"
    /\ tab' = [tab EXCEPT ![t] = TriesFailed(@, {i})]
    /\ UNCHANGED <<serverSide, cookie, hint, wires, crossed, disturbed>>

\* The retry delay of validateSession ends.
Wake(t, i) ==
    /\ tab[t].calls[i].phase = "sleep"
    /\ Becomes(t, Tried(tab[t], i))
    /\ UNCHANGED <<serverSide, cookie, hint, signIn, signOut, crossed>>

\* Broken: the timer reports, the screen keeps loading.
SafetyTimerReports(t) ==
    /\ tab[t].app.timer
    /\ tab' = [tab EXCEPT ![t].app = [@ EXCEPT !.failed = TRUE, !.timer = FALSE]]
    /\ UNCHANGED <<serverSide, cookie, hint, wires, crossed, disturbed>>

\* 35 seconds of checking: give the screen back, keep the session.
SafetyTimer(t) ==
    /\ tab[t].app.timer
    /\ tab' = [tab EXCEPT ![t].app = [@ EXCEPT !.loading = FALSE, !.failed = TRUE,
                                               !.timer = FALSE]]
    /\ UNCHANGED <<serverSide, cookie, hint, wires, crossed, disturbed>>

\* The retry button of the screen "cannot reach the server": the effect runs
\* again, and the check it replaces is no longer mounted.
Retry(t, i) ==
    LET app == tab[t].app IN
    /\ app.loggedIn /\ ~app.loading /\ app.failed /\ app.profile = NoUser
    /\ Free(tab[t], i)
    /\ Becomes(t, Checking([tab[t] EXCEPT
            !.app = [@ EXCEPT !.failed = FALSE, !.loading = TRUE],
            !.calls = [j \in Calls |-> [@[j] EXCEPT !.check = FALSE]]], i))
    /\ UNCHANGED <<serverSide, cookie, hint, signIn, signOut, crossed>>

\* The read of /api/auth/me grows too old.
ForgetMe(t) ==
    /\ "age" \in sessionScene.faults
    /\ tab[t].known # NoUser
    /\ tab' = [tab EXCEPT ![t].known = NoUser]
    /\ UNCHANGED <<serverSide, cookie, hint, wires, crossed, disturbed>>

-----------------------------------------------------------------------------
SessionNext ==
    \/ \E t \in sessionScene.tabs :
        \/ ServerLogin(t) \/ ServerReset(t) \/ ServerLogout(t)
        \/ ServerRefuse(t) \/ ServerLock(t) \/ ServerRotate(t)
        \/ Open(t) \/ FailLogin(t) \/ DeliverRefresh(t) \/ DeliverRefusal(t)
        \/ FailRefresh(t) \/ ClickLogout(t) \/ DeliverLogout(t) \/ FailLogout(t)
        \/ SafetyTimer(t) \/ ForgetMe(t) \/ Expire(t)
        \/ \E u \in sessionScene.users, k \in SignInKinds : SendLogin(t, u, k)
        \/ \E i \in Calls :
            \/ DeliverLogin(t, i) \/ UserCall(t, i) \/ DeliverCall(t, i)
            \/ DeliverUnauthorized(t, i) \/ FailCall(t, i) \/ Wake(t, i)
            \/ Retry(t, i)
    \/ \E u \in sessionScene.users : PasswordChanged(u)
    \/ \E r \in Row : Lapse(r)

\* The browser runs its timers; nothing else is promised.
SessionSpec ==
    /\ SessionInit /\ [][SessionNext]_sessionVars
    /\ \A t \in Tabs : WF_sessionVars(SafetyTimer(t))

-----------------------------------------------------------------------------
SessionTypeOK ==
    /\ sessionScene \in SessionScenes
    /\ issued \in 0..MaxRows
    /\ family \in [Row -> Cookie]
    /\ owner \in [Row -> Anyone]
    /\ live \subseteq 1..issued
    /\ cookie \in Cookie /\ hint \in BOOLEAN
    /\ tab \in [Tabs -> TabState]
    /\ refresh \in [Tabs -> RefreshState]
    /\ signIn \in [Tabs -> SignInState]
    /\ signOut \in [Tabs -> SignOutState]
    /\ missed \subseteq Cookie /\ closed \subseteq Cookie
    /\ crossed \subseteq Tabs /\ disturbed \in BOOLEAN

\* A login has at most one refresh token that still works, however the tabs
\* of the browser race on the cookie (rotate_refresh_session's FOR UPDATE).
OneLiveToken ==
    \A r, s \in live : family[r] = family[s] => r = s

\* Once the server has carried out a logout, no refresh token descended from
\* that login works any more: a stolen or an overtaken one included.  The
\* exception is real: revoke_refresh_session takes no lock, and a rotation in
\* the middle of its transaction commits a successor the revocation misses.
LogoutEndsFamily ==
    \A r \in live : family[r] \in closed => family[r] \in missed

\* While the requests on the cookie did not overlap and no answer was lost,
\* the cookie the browser will send next is one the server accepts: the
\* session "is kept", as the loading and error screens of App.jsx promise.
CookieIsLive ==
    (/\ ~disturbed /\ cookie # 0
     /\ \A t \in Tabs : /\ refresh[t].phase \in {"idle", "sent"}
                        /\ signOut[t].phase = "idle")
        => cookie \in live

\* A tab shows the account its requests are made for: the profile (menus and
\* permissions) and the token agree over logouts, logins of somebody else,
\* late checks and the cached /api/auth/me, unless an answer of another
\* sign-in reached the tab or the shared cookie changed hands under it.
ProfileIsTokenUser ==
    \A t \in Tabs \ crossed :
        LET tb == tab[t] IN
        (/\ tb.app.loggedIn /\ tb.app.profile # NoUser
         /\ tb.access.user # NoUser) => tb.app.profile = tb.access.user

\* The loading screen of the session check goes away, whatever the network
\* and the server do (the safety timer of App.jsx).
StartupSettles ==
    \A t \in Tabs : tab[t].app.loading ~> ~tab[t].app.loading

=============================================================================
