------------------------ MODULE BrowserSession_proofs ------------------------
(***************************************************************************)
(* What the sign-in promises, for every number of tabs, accounts, rows and *)
(* calls.  Of the refresh-token rows: a login has at most one refresh      *)
(* token that works, and a logout ends the whole family but for the        *)
(* successor a rotation under way commits behind its back.  Of the         *)
(* browser: the cookie it sends next is one the server accepts, and a tab  *)
(* shows the profile of the account its token stands for.                  *)
(***************************************************************************)
EXTENDS BrowserSession, TLAPS

\* Types of the server's rows and of the requests on the cookie.
WireTypes ==
    /\ sessionScene \in SessionScenes
    /\ issued \in 0..MaxRows
    /\ family \in [Row -> 0..MaxRows]
    /\ live \subseteq 1..issued
    /\ cookie \in Cookie
    /\ refresh \in [Tabs -> RefreshState]
    /\ signIn \in [Tabs -> SignInState]
    /\ signOut \in [Tabs -> SignOutState]

\* A family is named after its first row, which is issued already.
Founded ==
    /\ \A r \in Row : family[r] <= issued
    /\ \A f \in closed : f <= issued

\* A rotation under way holds a live row, which nobody else holds.
Held == \A t \in Tabs : refresh[t].phase = "locked" => refresh[t].cookie \in live
HeldOnce ==
    \A s, t \in Tabs :
        (/\ refresh[s].phase = "locked" /\ refresh[t].phase = "locked"
         /\ refresh[s].cookie = refresh[t].cookie) => s = t

IInv == WireTypes /\ Founded /\ closed \subseteq Nat /\ Held /\ HeldOnce
           /\ OneLiveToken /\ LogoutEndsFamily

\* What the steps of the tabs do to all this: nothing to the rows, and no
\* rotation is begun or carried on.
TabStep ==
    /\ UNCHANGED serverSide
    /\ cookie' \in Cookie
    /\ refresh' \in [Tabs -> RefreshState]
    /\ signIn' \in [Tabs -> SignInState]
    /\ signOut' \in [Tabs -> SignOutState]
    /\ \A t \in Tabs : refresh'[t].phase = "locked" => refresh'[t] = refresh[t]

LEMMA SceneTypes ==
    ASSUME sessionScene \in SessionScenes
    PROVE  sessionScene.tabs \subseteq Tabs /\ sessionScene.users \subseteq Users
<1>1. sessionScene \in [tabs : SUBSET Tabs, users : SUBSET Users,
                 faults : SUBSET {"network", "age", "password", "reload"}]
    BY SessionAssumption
<1> QED BY <1>1

LEMMA InitInv == SessionInit => IInv
<1> SUFFICES ASSUME SessionInit PROVE IInv
    OBVIOUS
<1>1. MaxRows \in Nat /\ NoUser \notin Users
    BY SessionAssumption
<1>2. NoRefresh \in RefreshState /\ NoSignIn \in SignInState /\ NoSignOut \in SignOutState
    BY <1>1 DEF NoRefresh, RefreshState, NoSignIn, SignInState, SignInKinds, NoSignOut,
                SignOutState, Cookie, Anyone
<1>3. WireTypes
    BY <1>1, <1>2 DEF SessionInit, WireTypes, Row, Cookie
<1>4. Founded /\ closed \subseteq Nat /\ OneLiveToken /\ LogoutEndsFamily
    BY DEF SessionInit, Founded, OneLiveToken, LogoutEndsFamily
<1>5. Held /\ HeldOnce
    BY DEF SessionInit, Held, HeldOnce, NoRefresh
<1> QED BY <1>3, <1>4, <1>5 DEF IInv

LEMMA TabStepInv == IInv /\ TabStep => IInv'
<1> SUFFICES ASSUME IInv, TabStep PROVE IInv'
    OBVIOUS
<1> USE DEF IInv, TabStep, serverSide
<1>1. WireTypes'
    BY DEF WireTypes, Row, Cookie
<1>2. Founded' /\ (closed \subseteq Nat)'
    BY DEF Founded
<1>3. Held'
    BY DEF Held
<1>4. HeldOnce'
    BY DEF HeldOnce
<1>5. OneLiveToken' /\ LogoutEndsFamily'
    BY DEF OneLiveToken, LogoutEndsFamily
<1> QED BY <1>1, <1>2, <1>3, <1>4, <1>5

\* The request of a refresh, and what the server answers.
LEMMA AskingType ==
    ASSUME cookie \in Cookie
    PROVE  Asking \in RefreshState /\ Asking.phase = "sent"
BY SessionAssumption DEF Asking, RefreshState, Cookie

LEMMA AnsweredType ==
    ASSUME NEW r \in Cookie
    PROVE  /\ \A a \in RefreshState : /\ Answered(a, r) \in RefreshState
                                      /\ Answered(a, r).phase = "answered"
           /\ \A a \in SignInState : Answered(a, r) \in SignInState
<1>1. ASSUME NEW a \in RefreshState
      PROVE  Answered(a, r) \in RefreshState /\ Answered(a, r).phase = "answered"
  <2>1. [a EXCEPT !.phase = "answered"] \in RefreshState
      BY DEF RefreshState
  <2> QED BY <2>1 DEF Answered, RefreshState
<1>2. ASSUME NEW a \in SignInState PROVE Answered(a, r) \in SignInState
  <2>1. [a EXCEPT !.phase = "answered"] \in SignInState
      BY DEF SignInState
  <2> QED BY <2>1 DEF Answered, SignInState
<1> QED BY <1>1, <1>2

\* A refresh is begun by whichever tab has a waiter.
LEMMA BecomesRefresh ==
    ASSUME IInv, NEW t \in Tabs, NEW tb, Becomes(t, tb)
    PROVE  /\ refresh' \in [Tabs -> RefreshState]
           /\ \A s \in Tabs : refresh'[s].phase = "locked" => refresh'[s] = refresh[s]
<1>1. cookie \in Cookie
    BY DEF IInv, WireTypes
<1>2. \/ refresh' = refresh
      \/ refresh' = [refresh EXCEPT ![t] = Asking]
    BY DEF Becomes
<1> QED BY <1>1, <1>2, AskingType DEF IInv, WireTypes

LEMMA LeavesSignOut ==
    ASSUME IInv, NEW t \in Tabs, NEW tb, Leaves(t, tb)
    PROVE  signOut' \in [Tabs -> SignOutState]
<1>1. [phase |-> "sent", cookie |-> cookie] \in SignOutState
    BY DEF IInv, WireTypes, SignOutState
<1> QED BY <1>1 DEF IInv, WireTypes, Leaves

LEMMA TabActions ==
    ASSUME IInv, NEW t \in Tabs,
           \/ Open(t) \/ FailLogin(t) \/ DeliverRefresh(t) \/ DeliverRefusal(t)
           \/ FailRefresh(t) \/ ClickLogout(t) \/ DeliverLogout(t) \/ FailLogout(t)
           \/ SafetyTimer(t) \/ ForgetMe(t) \/ Expire(t)
           \/ \E u \in Users, k \in SignInKinds : SendLogin(t, u, k)
           \/ \E i \in Calls :
                \/ DeliverLogin(t, i) \/ UserCall(t, i) \/ DeliverCall(t, i)
                \/ DeliverUnauthorized(t, i) \/ FailCall(t, i) \/ Wake(t, i)
                \/ Retry(t, i)
    PROVE  TabStep
<1> USE DEF IInv, WireTypes
<1>1. NoRefresh \in RefreshState /\ NoSignIn \in SignInState /\ NoSignOut \in SignOutState
    BY SessionAssumption DEF NoRefresh, RefreshState, NoSignIn, SignInState, SignInKinds,
                             NoSignOut, SignOutState, Cookie, Anyone
<1>2. NoRefresh.phase = "idle"
    BY DEF NoRefresh
<1>3. 0 \in Cookie
    BY SessionAssumption DEF Cookie
<1>4. CASE Open(t)
    BY <1>1, <1>2, <1>4, AskingType DEF Open, TabStep
<1>5. CASE FailLogin(t)
    BY <1>1, <1>5 DEF FailLogin, TabStep, serverSide, RefreshState
<1>6. CASE DeliverRefresh(t)
    BY <1>1, <1>2, <1>6 DEF DeliverRefresh, TabStep, RefreshState
<1>7. CASE DeliverRefusal(t)
  <2>1. /\ refresh' = [refresh EXCEPT ![t] = NoRefresh]
        /\ UNCHANGED <<serverSide, cookie, signIn>>
        /\ (\E tb : Leaves(t, tb)) \/ UNCHANGED signOut
      BY <1>7 DEF DeliverRefusal
  <2>2. signOut' \in [Tabs -> SignOutState]
      BY <2>1, LeavesSignOut
  <2> QED BY <1>1, <1>2, <2>1, <2>2 DEF TabStep
<1>8. CASE FailRefresh(t)
    BY <1>1, <1>2, <1>8 DEF FailRefresh, TabStep
<1>9. CASE ClickLogout(t)
    BY <1>9, LeavesSignOut DEF ClickLogout, TabStep
<1>10. CASE DeliverLogout(t)
    BY <1>1, <1>3, <1>10 DEF DeliverLogout, TabStep
<1>11. CASE FailLogout(t)
    BY <1>1, <1>11 DEF FailLogout, TabStep
<1>12. CASE \/ SafetyTimer(t) \/ ForgetMe(t) \/ Expire(t)
            \/ \E i \in Calls : UserCall(t, i) \/ DeliverCall(t, i) \/ FailCall(t, i)
    BY <1>12 DEF SafetyTimer, ForgetMe, Expire, UserCall, DeliverCall, FailCall,
                 TabStep, wires
<1>13. ASSUME NEW u \in Users, NEW k \in SignInKinds, SendLogin(t, u, k) PROVE TabStep
  <2>1. [phase |-> "sent", user |-> u, row |-> 0, kind |-> k] \in SignInState
      BY <1>3 DEF SignInState, Anyone
  <2> QED BY <1>13, <2>1 DEF SendLogin, TabStep
<1>14. CASE \E i \in Calls : DeliverLogin(t, i)
    BY <1>1, <1>14 DEF DeliverLogin, TabStep, SignInState
<1>15. CASE \E i \in Calls : DeliverUnauthorized(t, i)
  <2>1. /\ UNCHANGED <<serverSide, cookie, signIn>>
        /\ \/ (\E tb : Becomes(t, tb)) /\ UNCHANGED signOut
           \/ (\E tb : Leaves(t, tb)) /\ UNCHANGED refresh
      BY <1>15 DEF DeliverUnauthorized
  <2> QED BY <2>1, BecomesRefresh, LeavesSignOut DEF TabStep
<1>16. CASE \E i \in Calls : Wake(t, i) \/ Retry(t, i)
  <2>1. UNCHANGED <<serverSide, cookie, signIn, signOut>> /\ \E tb : Becomes(t, tb)
      BY <1>16 DEF Wake, Retry
  <2> QED BY <2>1, BecomesRefresh DEF TabStep
<1> QED BY <1>4, <1>5, <1>6, <1>7, <1>8, <1>9, <1>10, <1>11, <1>12, <1>13, <1>14,
           <1>15, <1>16

\* Revoking leaves the rows under a lock alone and remembers their families.
LEMMA RevokeInv ==
    ASSUME IInv, NEW R \in SUBSET live, Revoke(R)
    PROVE  /\ live' \subseteq live
           /\ \A r \in R : r \in live' => family[r] \in missed'
           /\ missed \subseteq missed'
           /\ \A t \in Tabs : refresh[t].phase = "locked" => refresh[t].cookie \in live'
BY DEF IInv, Held, Revoke, Locked

\* A step that revokes and answers; C is the family a logout closes.
LEMMA ShrinkInv ==
    ASSUME IInv, NEW R \in SUBSET live, NEW C, C \subseteq Nat,
           \A f \in C : f <= issued,
           \A r \in live : family[r] \in C => r \in R,
           Revoke(R), closed' = closed \cup C,
           UNCHANGED <<sessionScene, issued, family, cookie>>,
           refresh' \in [Tabs -> RefreshState], signIn' \in [Tabs -> SignInState],
           signOut' \in [Tabs -> SignOutState],
           \A t \in Tabs : refresh'[t].phase = "locked" => refresh'[t] = refresh[t]
    PROVE  IInv'
<1> USE DEF IInv
<1>1. /\ live' \subseteq live /\ missed \subseteq missed'
      /\ \A r \in R : r \in live' => family[r] \in missed'
      /\ \A t \in Tabs : refresh[t].phase = "locked" => refresh[t].cookie \in live'
    BY RevokeInv
<1>2. WireTypes'
    BY <1>1 DEF WireTypes, Row, Cookie
<1>3. Founded' /\ (closed \subseteq Nat)'
    BY DEF Founded
<1>4. Held'
    BY <1>1 DEF Held
<1>5. HeldOnce'
    BY DEF HeldOnce
<1>6. OneLiveToken'
    BY <1>1 DEF OneLiveToken
<1>7. LogoutEndsFamily'
    BY <1>1 DEF LogoutEndsFamily
<1> QED BY <1>2, <1>3, <1>4, <1>5, <1>6, <1>7

LEMMA RevokeOnlyInv ==
    ASSUME IInv, NEW R \in SUBSET live, Revoke(R),
           UNCHANGED <<sessionScene, issued, family, cookie, closed>>,
           refresh' \in [Tabs -> RefreshState], signIn' \in [Tabs -> SignInState],
           signOut' \in [Tabs -> SignOutState],
           \A t \in Tabs : refresh'[t].phase = "locked" => refresh'[t] = refresh[t]
    PROVE  IInv'
<1> DEFINE C == {}
<1>1. C \subseteq Nat /\ closed' = closed \cup C
    OBVIOUS
<1>2. (\A f \in C : f <= issued) /\ (\A r \in live : family[r] \in C => r \in R)
    OBVIOUS
<1> HIDE DEF C
<1> QED BY <1>1, <1>2, ShrinkInv

-----------------------------------------------------------------------------
(* The steps of the server.                                                *)

LEMMA LoginInv ==
    ASSUME IInv, NEW t \in Tabs, ServerLogin(t) \/ ServerReset(t)
    PROVE  IInv'
<1> DEFINE n == issued + 1
<1> USE SessionAssumption DEF IInv
<1>1. /\ issued < MaxRows /\ issued' = n
      /\ family' = [family EXCEPT ![n] = n]
      /\ \E R \in SUBSET live : live' = (live \ (R \ Locked)) \cup {n}
      /\ signIn' = [signIn EXCEPT ![t] = Answered(@, n)]
      /\ UNCHANGED <<sessionScene, cookie, refresh, signOut, closed>>
      /\ missed \subseteq missed'
  <2>1. CASE ServerLogin(t)
    <3>1. live = live \ ({} \ Locked) /\ {} \in SUBSET live
        OBVIOUS
    <3> QED BY <2>1, <3>1 DEF ServerLogin, Issue
  <2>2. CASE ServerReset(t)
    <3>1. OfUser(signIn[t].user) \in SUBSET live
        BY DEF OfUser
    <3> QED BY <2>2, <3>1 DEF ServerReset, Issue
  <2> QED BY <2>1, <2>2
<1>2. n \in Row /\ issued \in Nat /\ n \in Cookie /\ n \notin live
    BY <1>1 DEF WireTypes, Row, Cookie
<1>3. live' \subseteq live \cup {n}
    BY <1>1
<1>4. \A r \in live : family'[r] = family[r] /\ family[r] # n
    BY <1>1, <1>2 DEF WireTypes, Founded, Row
<1>5. family'[n] = n
    BY <1>1, <1>2 DEF WireTypes
<1>6. WireTypes'
  <2>1. issued' \in 0..MaxRows /\ live' \subseteq 1..issued'
    <3>1. live \subseteq 1..issued
        BY DEF WireTypes
    <3>2. n \in 0..MaxRows /\ n \in 1..n /\ 1..issued \subseteq 1..n
        BY <1>1, <1>2 DEF Cookie
    <3> QED BY <1>1, <1>3, <3>1, <3>2
  <2>2. family' \in [Row -> 0..MaxRows]
      BY <1>1, <1>2 DEF WireTypes, Cookie
  <2>3. signIn' \in [Tabs -> SignInState]
      BY <1>1, <1>2, AnsweredType DEF WireTypes
  <2> QED BY <1>1, <2>1, <2>2, <2>3 DEF WireTypes
<1>7. Founded' /\ (closed \subseteq Nat)'
    BY <1>1, <1>2 DEF Founded, WireTypes, Row
<1>8. Held' /\ HeldOnce'
    BY <1>1 DEF Held, HeldOnce, Locked
<1>9. OneLiveToken'
    BY <1>3, <1>4, <1>5 DEF OneLiveToken
<1>10. LogoutEndsFamily'
  <2>1. n \notin closed
      BY <1>2 DEF Founded
  <2> QED BY <1>1, <1>3, <1>4, <1>5, <2>1 DEF LogoutEndsFamily
<1> QED BY <1>6, <1>7, <1>8, <1>9, <1>10

LEMMA RefuseInv ==
    ASSUME IInv, NEW t \in Tabs, ServerRefuse(t)
    PROVE  IInv'
<1> DEFINE c == refresh[t].cookie
<1>1. /\ refresh' = [refresh EXCEPT ![t] = Answered(@, 0)]
      /\ UNCHANGED <<sessionScene, issued, family, owner, cookie, signIn, signOut, closed>>
    BY DEF ServerRefuse
<1>0. 0 \in Cookie
    BY SessionAssumption DEF Cookie
<1>2. refresh' \in [Tabs -> RefreshState]
    BY <1>1, <1>0, AnsweredType DEF IInv, WireTypes
<1>3. refresh'[t].phase # "locked"
      /\ \A s \in Tabs : s # t => refresh'[s] = refresh[s]
    BY <1>1, <1>0, AnsweredType DEF IInv, WireTypes
<1>4. CASE c = 0
  <2>1. TabStep
      BY <1>1, <1>2, <1>3, <1>4 DEF ServerRefuse, TabStep, serverSide, IInv, WireTypes
  <2> QED BY <2>1, TabStepInv
<1>5. CASE c # 0
  <2>1. Revoke(OfFamily(family[c]))
      BY <1>5 DEF ServerRefuse
  <2>2. OfFamily(family[c]) \in SUBSET live
      BY <1>1 DEF OfFamily
  <2>3. signIn' \in [Tabs -> SignInState] /\ signOut' \in [Tabs -> SignOutState]
      BY <1>1 DEF IInv, WireTypes
  <2>4. \A s \in Tabs : refresh'[s].phase = "locked" => refresh'[s] = refresh[s]
      BY <1>3
  <2> QED BY <1>1, <1>2, <2>1, <2>2, <2>3, <2>4, RevokeOnlyInv
<1> QED BY <1>4, <1>5

LEMMA LockInv ==
    ASSUME IInv, NEW t \in Tabs, ServerLock(t)
    PROVE  IInv'
<1> USE DEF IInv
<1>1. /\ refresh' = [refresh EXCEPT ![t].phase = "locked"]
      /\ refresh[t].cookie \in live \ Locked
      /\ UNCHANGED <<sessionScene, issued, family, live, closed, missed, cookie, signIn, signOut>>
    BY DEF ServerLock, serverSide
<1>2. /\ \A s \in Tabs : refresh'[s].cookie = refresh[s].cookie
      /\ \A s \in Tabs : s # t => refresh'[s] = refresh[s]
    BY <1>1 DEF WireTypes, RefreshState
<1>3. WireTypes'
    BY <1>1 DEF WireTypes, RefreshState, Row, Cookie
<1>4. Held'
    BY <1>1, <1>2 DEF Held
<1>5. HeldOnce'
    BY <1>1, <1>2 DEF HeldOnce, Locked
<1>6. Founded' /\ (closed \subseteq Nat)' /\ OneLiveToken' /\ LogoutEndsFamily'
    BY <1>1 DEF Founded, OneLiveToken, LogoutEndsFamily
<1> QED BY <1>3, <1>4, <1>5, <1>6

LEMMA RotateInv ==
    ASSUME IInv, NEW t \in Tabs, ServerRotate(t)
    PROVE  IInv'
<1> DEFINE n == issued + 1
           c == refresh[t].cookie
<1> USE SessionAssumption DEF IInv
<1>1. /\ issued < MaxRows /\ issued' = n
      /\ family' = [family EXCEPT ![n] = family[c]]
      /\ live' = (live \ {c}) \cup {n}
      /\ refresh' = [refresh EXCEPT ![t] = Answered(@, n)]
      /\ refresh[t].phase = "locked"
      /\ UNCHANGED <<sessionScene, cookie, signIn, signOut, closed, missed>>
    BY DEF ServerRotate, Replaced
<1>2. n \in Row /\ issued \in Nat /\ n \in Cookie /\ n \notin live
    BY <1>1 DEF WireTypes, Row, Cookie
<1>3. c \in live /\ c \in Row /\ c # n
  <2>1. c \in live
      BY <1>1 DEF Held
  <2>2. live \subseteq 1..issued
      BY DEF WireTypes
  <2> QED BY <1>1, <1>2, <2>1, <2>2 DEF Row
<1>4. /\ \A r \in live : family'[r] = family[r]
      /\ family'[n] = family[c]
    BY <1>1, <1>2 DEF WireTypes
<1>5. /\ refresh'[t].phase = "answered"
      /\ \A s \in Tabs : s # t => refresh'[s] = refresh[s]
    BY <1>1, <1>2, AnsweredType DEF WireTypes
<1>6. WireTypes'
  <2>1. issued' \in 0..MaxRows /\ live' \subseteq 1..issued'
    <3>1. live \subseteq 1..issued
        BY DEF WireTypes
    <3> QED BY <1>1, <1>2, <3>1
  <2>2. family' \in [Row -> 0..MaxRows]
      BY <1>1, <1>2, <1>3 DEF WireTypes
  <2>3. refresh' \in [Tabs -> RefreshState]
      BY <1>1, <1>2, AnsweredType DEF WireTypes
  <2> QED BY <1>1, <2>1, <2>2, <2>3 DEF WireTypes
<1>7. Founded' /\ (closed \subseteq Nat)'
    BY <1>1, <1>2, <1>3 DEF Founded, WireTypes, Row
<1>8. Held'
    BY <1>1, <1>5 DEF Held, HeldOnce
<1>9. HeldOnce'
    BY <1>5 DEF HeldOnce
<1>10. OneLiveToken'
    BY <1>1, <1>2, <1>3, <1>4 DEF OneLiveToken
<1>11. LogoutEndsFamily'
    BY <1>1, <1>2, <1>3, <1>4 DEF LogoutEndsFamily
<1> QED BY <1>6, <1>7, <1>8, <1>9, <1>10, <1>11

LEMMA LogoutInv ==
    ASSUME IInv, NEW t \in Tabs, ServerLogout(t)
    PROVE  IInv'
<1> DEFINE c == signOut[t].cookie
<1>1. /\ signOut' = [signOut EXCEPT ![t].phase = "answered"]
      /\ UNCHANGED <<sessionScene, issued, family, owner, cookie, refresh, signIn>>
    BY DEF ServerLogout
<1>2. signOut' \in [Tabs -> SignOutState]
    BY <1>1 DEF IInv, WireTypes, SignOutState
<1>3. CASE c = 0
  <2>1. TabStep
      BY <1>1, <1>2, <1>3 DEF ServerLogout, TabStep, serverSide, IInv, WireTypes
  <2> QED BY <2>1, TabStepInv
<1>4. CASE c # 0
  <2>1. Revoke(OfFamily(family[c])) /\ closed' = closed \cup {family[c]}
      BY <1>4 DEF ServerLogout
  <2>2. c \in Row /\ family[c] \in Nat /\ family[c] <= issued
      BY <1>4, SessionAssumption DEF IInv, WireTypes, SignOutState, Cookie, Row, Founded
  <2>3. /\ OfFamily(family[c]) \in SUBSET live
        /\ \A r \in live : family[r] \in {family[c]} => r \in OfFamily(family[c])
      BY DEF OfFamily
  <2>4. /\ signIn' \in [Tabs -> SignInState] /\ refresh' \in [Tabs -> RefreshState]
        /\ refresh' = refresh
      BY <1>1 DEF IInv, WireTypes
  <2>5. {family[c]} \subseteq Nat /\ \A f \in {family[c]} : f <= issued
      BY <2>2
  <2> QED BY <1>1, <1>2, <2>1, <2>3, <2>4, <2>5, ShrinkInv
<1> QED BY <1>3, <1>4

LEMMA OtherServerInv ==
    ASSUME IInv, (\E u \in Users : PasswordChanged(u)) \/ (\E r \in Row : Lapse(r))
    PROVE  IInv'
<1>1. ASSUME NEW u \in Users, PasswordChanged(u) PROVE IInv'
  <2>1. /\ Revoke(OfUser(u)) 
        /\ UNCHANGED <<sessionScene, issued, family, cookie, closed, refresh, signIn, signOut>>
      BY <1>1 DEF PasswordChanged
  <2>2. OfUser(u) \in SUBSET live
      BY DEF OfUser
  <2>3. /\ signIn' \in [Tabs -> SignInState] /\ signOut' \in [Tabs -> SignOutState]
        /\ refresh' \in [Tabs -> RefreshState]
      BY <2>1 DEF IInv, WireTypes
  <2> QED BY <2>1, <2>2, <2>3, RevokeOnlyInv
<1>2. ASSUME NEW r \in Row, Lapse(r) PROVE IInv'
  <2>1. /\ r \notin Locked /\ live' = live \ {r}
        /\ UNCHANGED <<sessionScene, issued, family, cookie, refresh, signIn, signOut,
                       missed, closed>>
      BY <1>2 DEF Lapse
  <2>2. WireTypes' /\ Founded' /\ (closed \subseteq Nat)' /\ HeldOnce'
      BY <2>1 DEF IInv, WireTypes, Founded, HeldOnce, Row, Cookie
  <2>3. Held'
      BY <2>1 DEF IInv, Held, Locked
  <2>4. OneLiveToken' /\ LogoutEndsFamily'
      BY <2>1 DEF IInv, OneLiveToken, LogoutEndsFamily
  <2> QED BY <2>2, <2>3, <2>4 DEF IInv
<1> QED BY <1>1, <1>2

LEMMA NextInv == IInv /\ [SessionNext]_sessionVars => IInv'
<1> SUFFICES ASSUME IInv, [SessionNext]_sessionVars PROVE IInv'
    OBVIOUS
<1>1. sessionScene.tabs \subseteq Tabs /\ sessionScene.users \subseteq Users
    BY SceneTypes DEF IInv, WireTypes
<1>2. CASE UNCHANGED sessionVars
  <2>1. TabStep
      BY <1>2 DEF sessionVars, TabStep, serverSide, IInv, WireTypes
  <2> QED BY <2>1, TabStepInv
<1>3. ASSUME NEW t \in Tabs, ServerLogin(t) \/ ServerReset(t) PROVE IInv'
    BY <1>3, LoginInv
<1>4. ASSUME NEW t \in Tabs, \/ ServerLogout(t) \/ ServerRefuse(t)
                             \/ ServerLock(t) \/ ServerRotate(t)
      PROVE IInv'
    BY <1>4, LogoutInv, RefuseInv, LockInv, RotateInv
<1>5. CASE (\E u \in sessionScene.users : PasswordChanged(u)) \/ (\E r \in Row : Lapse(r))
    BY <1>1, <1>5, OtherServerInv
<1>6. ASSUME NEW t \in Tabs,
             \/ Open(t) \/ FailLogin(t) \/ DeliverRefresh(t) \/ DeliverRefusal(t)
             \/ FailRefresh(t) \/ ClickLogout(t) \/ DeliverLogout(t) \/ FailLogout(t)
             \/ SafetyTimer(t) \/ ForgetMe(t) \/ Expire(t)
             \/ \E u \in Users, k \in SignInKinds : SendLogin(t, u, k)
             \/ \E i \in Calls :
                  \/ DeliverLogin(t, i) \/ UserCall(t, i) \/ DeliverCall(t, i)
                  \/ DeliverUnauthorized(t, i) \/ FailCall(t, i) \/ Wake(t, i)
                  \/ Retry(t, i)
      PROVE  IInv'
  <2>1. TabStep
      BY <1>6, TabActions
  <2> QED BY <2>1, TabStepInv
<1> QED BY <1>1, <1>2, <1>3, <1>4, <1>5, <1>6 DEF SessionNext

THEOREM SessionInvariant == SessionSpec => []IInv
BY InitInv, NextInv, PTL DEF SessionSpec

\* A login has at most one refresh token that works, whatever the tabs, the
\* logouts, the password changes and the retries do at the same time.
THEOREM OneLiveTokenHolds == SessionSpec => []OneLiveToken
<1>1. IInv => OneLiveToken
    BY DEF IInv
<1> QED BY <1>1, SessionInvariant, PTL

\* After a logout was carried out, a token of that login works only if it was
\* born in a rotation that was under way while the family was revoked.
THEOREM LogoutEndsFamilyHolds == SessionSpec => []LogoutEndsFamily
<1>1. IInv => LogoutEndsFamily
    BY DEF IInv
<1> QED BY <1>1, SessionInvariant, PTL

-----------------------------------------------------------------------------
(* The cookie.                                                               *)

\* No two requests on the cookie are under way.
Alone ==
    \A s, t \in Tabs :
        /\ (refresh[s].phase # "idle" /\ refresh[t].phase # "idle") => s = t
        /\ (signIn[s].phase # "idle" /\ signIn[t].phase # "idle") => s = t
        /\ (signOut[s].phase # "idle" /\ signOut[t].phase # "idle") => s = t
        /\ refresh[s].phase # "idle" => (signIn[t].phase = "idle" /\ signOut[t].phase = "idle")
        /\ signIn[s].phase # "idle" => signOut[t].phase = "idle"

\* A refresh asks with the cookie the browser still holds, and what it brings
\* back is a row that works, or a refusal of no cookie at all.
RefreshSound ==
    \A t \in Tabs :
        /\ refresh[t].phase \in {"sent", "locked"} => refresh[t].cookie = cookie
        /\ (refresh[t].phase = "answered" /\ refresh[t].row = 0) => cookie = 0
        /\ (refresh[t].phase = "answered" /\ refresh[t].row # 0) => refresh[t].row \in live

LoginSound == \A t \in Tabs : signIn[t].phase = "answered" => signIn[t].row \in live

\* The cookie is dead only between the server's work and its answer.
CookieSound ==
    (/\ cookie # 0
     /\ \A t \in Tabs : refresh[t].phase # "answered" /\ signOut[t].phase # "answered")
        => cookie \in live

\* As long as nothing was disturbed.
CookieInv == ~disturbed => (Alone /\ RefreshSound /\ LoginSound /\ CookieSound)

LEMMA CookieInit == SessionInit => CookieInv
BY DEF SessionInit, CookieInv, Alone, RefreshSound, LoginSound, CookieSound,
       NoRefresh, NoSignIn, NoSignOut

\* A step that leaves the cookie, its requests and the rows alone.
LEMMA CookieStutters ==
    ASSUME CookieInv, disturbed => disturbed', UNCHANGED <<cookie, live, wires>>
    PROVE  CookieInv'
BY DEF CookieInv, Alone, RefreshSound, LoginSound, CookieSound, wires

\* The requests on the cookie are idle when nobody is busy.
LEMMA NobodyBusy ==
    ASSUME ~CookieBusy
    PROVE  \A s \in Tabs : /\ refresh[s].phase = "idle" /\ signIn[s].phase = "idle"
                           /\ signOut[s].phase = "idle"
BY DEF CookieBusy, Refreshing

\* A tab asks for a refresh, or goes on without.
LEMMA CookieBecomes ==
    ASSUME IInv, CookieInv, NEW t \in Tabs, NEW tb, Becomes(t, tb),
           UNCHANGED <<serverSide, cookie, signIn, signOut>>
    PROVE  CookieInv'
<1> USE DEF IInv, WireTypes, serverSide
<1>1. CASE refresh' = refresh
    BY <1>1, CookieStutters DEF Becomes, wires
<1>2. CASE refresh' # refresh
  <2>1. /\ refresh' = [refresh EXCEPT ![t] = Asking]
        /\ disturbed' = (disturbed \/ CookieBusy)
      BY <1>2 DEF Becomes
  <2> SUFFICES ASSUME ~disturbed' PROVE Alone' /\ RefreshSound' /\ LoginSound' /\ CookieSound'
      BY DEF CookieInv
  <2>2. ~disturbed /\ ~CookieBusy
      BY <2>1
  <2>3. Asking.phase = "sent" /\ Asking.cookie = cookie
      BY DEF Asking
  <2> QED BY <2>1, <2>2, <2>3, NobodyBusy DEF CookieInv, Alone, RefreshSound, LoginSound,
                                               CookieSound
<1> QED BY <1>1, <1>2

\* A tab logs out.
LEMMA CookieLeaves ==
    ASSUME IInv, CookieInv, NEW t \in Tabs, NEW tb, Leaves(t, tb),
           UNCHANGED <<serverSide, cookie, signIn>>,
           \A s \in Tabs : refresh[s].phase = "idle" => refresh'[s] = refresh[s]
    PROVE  CookieInv'
<1> USE DEF IInv, WireTypes, serverSide
<1> SUFFICES ASSUME ~disturbed' PROVE Alone' /\ RefreshSound' /\ LoginSound' /\ CookieSound'
    BY DEF CookieInv
<1>1. ~disturbed /\ ~CookieBusy
    BY DEF Leaves
<1>2. \A s \in Tabs : /\ refresh'[s].phase = "idle" /\ signIn'[s].phase = "idle"
                      /\ signOut[s].phase = "idle" /\ refresh[s].phase = "idle"
    BY <1>1, NobodyBusy
<1>3. signOut' = [signOut EXCEPT ![t] = [phase |-> "sent", cookie |-> cookie]]
    BY <1>2 DEF Leaves
<1>4. \A s \in Tabs : signOut'[s].phase # "answered" /\ (signOut'[s].phase # "idle" => s = t)
    BY <1>2, <1>3
<1>5. Alone' /\ RefreshSound' /\ LoginSound'
    BY <1>2, <1>4 DEF Alone, RefreshSound, LoginSound
<1>6. CookieSound'
    BY <1>1, <1>2, <1>4 DEF CookieInv, CookieSound
<1> QED BY <1>5, <1>6

\* What the server does to the rows of undisturbed requests.
LEMMA CookieServer ==
    ASSUME IInv, CookieInv, NEW t \in Tabs,
           \/ ServerLogin(t) \/ ServerReset(t) \/ ServerLogout(t)
           \/ ServerRefuse(t) \/ ServerLock(t) \/ ServerRotate(t)
    PROVE  CookieInv'
<1> USE DEF IInv, WireTypes
<1> SUFFICES ASSUME ~disturbed' PROVE Alone' /\ RefreshSound' /\ LoginSound' /\ CookieSound'
    BY DEF CookieInv
<1>0. ~disturbed /\ 0 \in Cookie /\ issued + 1 # 0
    BY SessionAssumption DEF ServerLogin, ServerReset, ServerLogout, ServerRefuse, ServerLock,
                             ServerRotate, serverSide, Cookie
<1> USE <1>0
<1>1. Alone /\ RefreshSound /\ LoginSound /\ CookieSound
    BY DEF CookieInv
<1>2. CASE ServerLogin(t)
  <2> DEFINE n == issued + 1
  <2>1. /\ signIn[t].phase = "sent" /\ issued < MaxRows
        /\ live' = live \cup {n} /\ signIn' = [signIn EXCEPT ![t] = Answered(@, n)]
        /\ UNCHANGED <<cookie, refresh, signOut>>
      BY <1>2 DEF ServerLogin, Issue
  <2>2. /\ signIn'[t].phase = "answered" /\ signIn'[t].row = n
        /\ \A s \in Tabs : s # t => signIn'[s] = signIn[s]
    <3>1. [signIn[t] EXCEPT !.phase = "answered"] \in SignInState
        BY DEF SignInState
    <3> QED BY <2>1, <3>1 DEF Answered, SignInState
  <2>3. Alone'
      BY <1>1, <2>1, <2>2 DEF Alone
  <2> QED BY <1>1, <2>1, <2>2, <2>3 DEF RefreshSound, LoginSound, CookieSound
<1>3. CASE ServerReset(t)
    BY <1>3 DEF ServerReset
<1>4. CASE ServerLogout(t)
  <2> DEFINE c == signOut[t].cookie
  <2>1. /\ signOut[t].phase = "sent" /\ signOut' = [signOut EXCEPT ![t].phase = "answered"]
        /\ UNCHANGED <<cookie, refresh, signIn>>
      BY <1>4 DEF ServerLogout
  <2>2. /\ signOut'[t].phase = "answered"
        /\ \A s \in Tabs : s # t => signOut'[s] = signOut[s]
      BY <2>1 DEF SignOutState
  <2>3. \A s \in Tabs : refresh[s].phase = "idle" /\ signIn[s].phase = "idle"
      BY <1>1, <2>1 DEF Alone
  <2>4. Alone'
      BY <1>1, <2>1, <2>2 DEF Alone
  <2> QED BY <2>1, <2>2, <2>3, <2>4 DEF RefreshSound, LoginSound, CookieSound
<1>5. CASE ServerRefuse(t)
  <2> DEFINE c == refresh[t].cookie
  <2>1. /\ refresh[t].phase = "sent" /\ c \notin live
        /\ refresh' = [refresh EXCEPT ![t] = Answered(@, 0)]
        /\ UNCHANGED <<cookie, signIn, signOut>>
        /\ c = 0 => live' = live
      BY <1>5 DEF ServerRefuse
  <2>2. \A s \in Tabs : /\ refresh[s].phase # "idle" => s = t
                        /\ signIn[s].phase = "idle" /\ signOut[s].phase = "idle"
      BY <1>1, <2>1 DEF Alone
  <2>3. c = cookie /\ c = 0
      BY <1>1, <2>1, <2>2 DEF RefreshSound, CookieSound
  <2>4. /\ refresh'[t].phase = "answered" /\ refresh'[t].row = 0
        /\ \A s \in Tabs : s # t => refresh'[s] = refresh[s]
    <3>1. [refresh[t] EXCEPT !.phase = "answered"] \in RefreshState
        BY DEF RefreshState
    <3> QED BY <2>1, <3>1 DEF Answered, RefreshState
  <2>5. Alone'
      BY <1>1, <2>1, <2>2, <2>4 DEF Alone
  <2> QED BY <2>1, <2>2, <2>3, <2>4, <2>5 DEF RefreshSound, LoginSound, CookieSound
<1>6. CASE ServerLock(t)
  <2>1. /\ refresh[t].phase = "sent" /\ refresh' = [refresh EXCEPT ![t].phase = "locked"]
        /\ UNCHANGED <<live, cookie, signIn, signOut>>
      BY <1>6 DEF ServerLock, serverSide
  <2>2. /\ refresh'[t].phase = "locked" /\ refresh'[t].cookie = refresh[t].cookie
        /\ \A s \in Tabs : s # t => refresh'[s] = refresh[s]
      BY <2>1 DEF RefreshState
  <2>3. Alone'
      BY <1>1, <2>1, <2>2 DEF Alone
  <2> QED BY <1>1, <2>1, <2>2, <2>3 DEF RefreshSound, LoginSound, CookieSound
<1>7. CASE ServerRotate(t)
  <2> DEFINE n == issued + 1
             c == refresh[t].cookie
  <2>1. /\ refresh[t].phase = "locked" /\ issued < MaxRows
        /\ live' = (live \ {c}) \cup {n}
        /\ refresh' = [refresh EXCEPT ![t] = Answered(@, n)]
        /\ UNCHANGED <<cookie, signIn, signOut>>
      BY <1>7 DEF ServerRotate, Replaced
  <2>2. \A s \in Tabs : /\ refresh[s].phase # "idle" => s = t
                        /\ signIn[s].phase = "idle" /\ signOut[s].phase = "idle"
      BY <1>1, <2>1 DEF Alone
  <2>3. /\ refresh'[t].phase = "answered" /\ refresh'[t].row = n
        /\ \A s \in Tabs : s # t => refresh'[s] = refresh[s]
    <3>1. [refresh[t] EXCEPT !.phase = "answered"] \in RefreshState
        BY DEF RefreshState
    <3> QED BY <2>1, <3>1 DEF Answered, RefreshState
  <2>4. Alone'
      BY <1>1, <2>1, <2>2, <2>3 DEF Alone
  <2> QED BY <2>1, <2>2, <2>3, <2>4 DEF RefreshSound, LoginSound, CookieSound
<1> QED BY <1>2, <1>3, <1>4, <1>5, <1>6, <1>7

\* Answers, and requests that are given up.
LEMMA CookieDelivered ==
    ASSUME IInv, CookieInv, NEW t \in Tabs,
           \/ DeliverRefresh(t) \/ FailRefresh(t) \/ FailLogin(t)
           \/ DeliverLogout(t) \/ FailLogout(t) \/ \E i \in Calls : DeliverLogin(t, i)
    PROVE  CookieInv'
<1> USE DEF IInv, WireTypes, serverSide
<1>1. /\ NoRefresh.phase = "idle" /\ NoSignIn.phase = "idle" /\ NoSignOut.phase = "idle"
    BY DEF NoRefresh, NoSignIn, NoSignOut
<1> USE <1>1
<1> SUFFICES ASSUME ~disturbed' PROVE Alone' /\ RefreshSound' /\ LoginSound' /\ CookieSound'
    BY DEF CookieInv
<1>2. ~disturbed /\ live' = live
  <2>1. CASE \/ DeliverRefresh(t) \/ FailLogin(t) \/ DeliverLogout(t)
             \/ \E i \in Calls : DeliverLogin(t, i)
      BY <2>1 DEF DeliverRefresh, FailLogin, DeliverLogout, DeliverLogin
  <2>2. CASE FailRefresh(t) \/ FailLogout(t)
    <3>1. /\ live' = live
          /\ \/ disturbed' = (disturbed \/ refresh[t].phase = "answered")
             \/ disturbed' = (disturbed \/ signOut[t].phase = "answered")
        BY <2>2 DEF FailRefresh, FailLogout
    <3> QED BY <3>1, Zenon
  <2> QED BY <2>1, <2>2
<1>3. Alone /\ RefreshSound /\ LoginSound /\ CookieSound
    BY <1>2 DEF CookieInv
<1>4. CASE DeliverRefresh(t)
  <2>1. /\ refresh[t].phase = "answered" /\ refresh[t].row # 0
        /\ cookie' = refresh[t].row /\ refresh' = [refresh EXCEPT ![t] = NoRefresh]
        /\ UNCHANGED <<signIn, signOut>>
      BY <1>4 DEF DeliverRefresh
  <2>2. \A s \in Tabs : refresh'[s].phase = "idle"
      BY <1>3, <2>1 DEF Alone
  <2> QED BY <1>2, <1>3, <2>1, <2>2 DEF Alone, RefreshSound, LoginSound, CookieSound
<1>5. CASE FailRefresh(t)
  <2>1. /\ refresh[t].phase = "sent" /\ refresh' = [refresh EXCEPT ![t] = NoRefresh]
        /\ UNCHANGED <<cookie, signIn, signOut>>
      BY <1>5 DEF FailRefresh
  <2>2. \A s \in Tabs : refresh'[s].phase = "idle" /\ refresh[s].phase # "answered"
      BY <1>3, <2>1 DEF Alone
  <2> QED BY <1>2, <1>3, <2>1, <2>2 DEF Alone, RefreshSound, LoginSound, CookieSound
<1>6. CASE FailLogin(t)
  <2>1. signIn' = [signIn EXCEPT ![t] = NoSignIn] /\ UNCHANGED <<cookie, refresh, signOut>>
      BY <1>6 DEF FailLogin
  <2>2. \A s \in Tabs : signIn'[s] \in {signIn[s], NoSignIn}
      BY <2>1
  <2>3. Alone' /\ LoginSound'
      BY <1>2, <1>3, <2>1, <2>2 DEF Alone, LoginSound
  <2> QED BY <1>2, <1>3, <2>1, <2>3 DEF RefreshSound, CookieSound
<1>7. CASE DeliverLogout(t)
  <2>1. /\ signOut[t].phase = "answered" /\ cookie' = 0
        /\ signOut' = [signOut EXCEPT ![t] = NoSignOut] /\ UNCHANGED <<refresh, signIn>>
      BY <1>7 DEF DeliverLogout
  <2>2. \A s \in Tabs : refresh[s].phase = "idle" /\ signIn[s].phase = "idle"
      BY <1>3, <2>1 DEF Alone
  <2> QED BY <1>2, <1>3, <2>1, <2>2 DEF Alone, RefreshSound, LoginSound, CookieSound
<1>8. CASE FailLogout(t)
  <2>1. /\ signOut[t].phase # "answered" /\ UNCHANGED <<cookie, refresh, signIn>>
        /\ signOut' = [signOut EXCEPT ![t] = NoSignOut]
      BY <1>8 DEF FailLogout
  <2>2. \A s \in Tabs : signOut'[s] \in {signOut[s], NoSignOut}
      BY <2>1
  <2>3. \A s \in Tabs : signOut'[s].phase # "answered" => signOut[s].phase # "answered"
      BY <2>1
  <2>4. Alone'
      BY <1>3, <2>1, <2>2 DEF Alone
  <2> QED BY <1>2, <1>3, <2>1, <2>3, <2>4 DEF RefreshSound, LoginSound, CookieSound
<1>9. ASSUME NEW i \in Calls, DeliverLogin(t, i)
      PROVE  Alone' /\ RefreshSound' /\ LoginSound' /\ CookieSound'
  <2>1. /\ signIn[t].phase = "answered" /\ cookie' = signIn[t].row
        /\ signIn' = [signIn EXCEPT ![t] = NoSignIn] /\ UNCHANGED <<refresh, signOut>>
      BY <1>9 DEF DeliverLogin
  <2>2. \A s \in Tabs : /\ signIn'[s].phase = "idle" /\ refresh[s].phase = "idle"
                        /\ signOut[s].phase = "idle"
      BY <1>3, <2>1 DEF Alone
  <2> QED BY <1>2, <1>3, <2>1, <2>2 DEF Alone, RefreshSound, LoginSound, CookieSound
<1> QED BY <1>4, <1>5, <1>6, <1>7, <1>8, <1>9

\* Steps of a tab that are neither.
LEMMA CookieTab ==
    ASSUME IInv, CookieInv, NEW t \in Tabs,
           \/ Open(t) \/ DeliverRefusal(t) \/ ClickLogout(t)
           \/ SafetyTimer(t) \/ ForgetMe(t) \/ Expire(t)
           \/ \E u \in Users, k \in SignInKinds : SendLogin(t, u, k)
           \/ \E i \in Calls :
                \/ UserCall(t, i) \/ DeliverCall(t, i) \/ DeliverUnauthorized(t, i)
                \/ FailCall(t, i) \/ Wake(t, i) \/ Retry(t, i)
    PROVE  CookieInv'
<1> USE DEF IInv, WireTypes
<1>1. CASE \/ SafetyTimer(t) \/ ForgetMe(t) \/ Expire(t)
           \/ \E i \in Calls : UserCall(t, i) \/ DeliverCall(t, i) \/ FailCall(t, i)
  <2>1. UNCHANGED <<serverSide, cookie, wires, disturbed>>
      BY <1>1 DEF SafetyTimer, ForgetMe, Expire, UserCall, DeliverCall, FailCall
  <2> QED BY <2>1, CookieStutters DEF serverSide
<1>2. CASE \E i \in Calls : Wake(t, i) \/ Retry(t, i)
    BY <1>2, CookieBecomes DEF Wake, Retry
<1>3. CASE ClickLogout(t)
    BY <1>3, CookieLeaves DEF ClickLogout
<1>4. ASSUME NEW i \in Calls, DeliverUnauthorized(t, i) PROVE CookieInv'
  <2>1. /\ UNCHANGED <<serverSide, cookie, signIn>>
        /\ \/ (\E tb : Becomes(t, tb)) /\ UNCHANGED signOut
           \/ (\E tb : Leaves(t, tb)) /\ UNCHANGED refresh
      BY <1>4 DEF DeliverUnauthorized
  <2> QED BY <2>1, CookieBecomes, CookieLeaves
<1>5. CASE DeliverRefusal(t)
  <2>1. /\ refresh' = [refresh EXCEPT ![t] = NoRefresh] /\ refresh[t].phase = "answered"
        /\ refresh[t].row = 0
        /\ UNCHANGED <<serverSide, cookie, signIn>>
        /\ (\E tb : Leaves(t, tb)) \/ UNCHANGED <<signOut, disturbed>>
      BY <1>5 DEF DeliverRefusal
  <2>2. CASE \E tb : Leaves(t, tb)
    <3>1. \A s \in Tabs : refresh[s].phase = "idle" => refresh'[s] = refresh[s]
        BY <2>1
    <3> QED BY <2>1, <2>2, <3>1, CookieLeaves
  <2>3. CASE UNCHANGED <<signOut, disturbed>>
    <3> SUFFICES ASSUME ~disturbed
                 PROVE  Alone' /\ RefreshSound' /\ LoginSound' /\ CookieSound'
        BY <2>3 DEF CookieInv
    <3>1. Alone /\ cookie = 0 /\ LoginSound
        BY <2>1 DEF CookieInv, RefreshSound
    <3>2. NoRefresh.phase = "idle"
        BY DEF NoRefresh
    <3>3. \A s \in Tabs : refresh'[s].phase = "idle"
        BY <2>1, <3>1, <3>2 DEF Alone
    <3> QED BY <2>1, <2>3, <3>1, <3>3 DEF Alone, RefreshSound, LoginSound, CookieSound, serverSide
  <2> QED BY <2>1, <2>2, <2>3
<1>6. ASSUME NEW u \in Users, NEW k \in SignInKinds, SendLogin(t, u, k) PROVE CookieInv'
  <2>1. /\ signIn' = [signIn EXCEPT ![t] = [phase |-> "sent", user |-> u, row |-> 0,
                                            kind |-> k]]
        /\ disturbed' = (disturbed \/ CookieBusy)
        /\ UNCHANGED <<live, cookie, refresh, signOut>>
      BY <1>6 DEF SendLogin, serverSide
  <2> SUFFICES ASSUME ~disturbed' PROVE Alone' /\ RefreshSound' /\ LoginSound' /\ CookieSound'
      BY DEF CookieInv
  <2>2. ~disturbed /\ ~CookieBusy
      BY <2>1, Zenon
  <2>3. \A s \in Tabs : signIn'[s].phase # "answered" /\ (signIn'[s].phase # "idle" => s = t)
      BY <2>1, <2>2, NobodyBusy
  <2> QED BY <2>1, <2>2, <2>3, NobodyBusy DEF CookieInv, Alone, RefreshSound, LoginSound,
                                              CookieSound
<1>7. CASE Open(t)
  <2>1. /\ UNCHANGED <<live, cookie, signIn, signOut>>
        /\ refresh' = [refresh EXCEPT ![t] = IF hint THEN Asking ELSE NoRefresh]
        /\ disturbed' = (disturbed \/ refresh[t].phase = "answered" \/ (hint /\ CookieBusy))
      BY <1>7 DEF Open, serverSide
  <2> SUFFICES ASSUME ~disturbed' PROVE Alone' /\ RefreshSound' /\ LoginSound' /\ CookieSound'
      BY DEF CookieInv
  <2>2. ~disturbed /\ refresh[t].phase # "answered" /\ ~(hint /\ CookieBusy)
      BY <2>1, Zenon
  <2>3. Alone /\ RefreshSound /\ LoginSound /\ CookieSound
      BY <2>2 DEF CookieInv
  <2>4. Asking.phase = "sent" /\ Asking.cookie = cookie /\ NoRefresh.phase = "idle"
      BY DEF Asking, NoRefresh
  <2>5. CASE hint
    <3>1. \A s \in Tabs : /\ refresh[s].phase = "idle" /\ signIn[s].phase = "idle"
                          /\ signOut[s].phase = "idle"
        BY <2>2, <2>5, NobodyBusy
    <3>2. /\ refresh'[t].phase = "sent" /\ refresh'[t].cookie = cookie
          /\ \A s \in Tabs : s # t => refresh'[s] = refresh[s]
        BY <2>1, <2>4, <2>5
    <3> QED BY <2>1, <2>3, <3>1, <3>2 DEF Alone, RefreshSound, LoginSound, CookieSound
  <2>6. CASE ~hint
    <3>1. /\ refresh'[t].phase = "idle"
          /\ \A s \in Tabs : s # t => refresh'[s] = refresh[s]
        BY <2>1, <2>4, <2>6
    <3>2. Alone'
        BY <2>1, <2>3, <3>1 DEF Alone
    <3>3. \A s \in Tabs : refresh'[s].phase # "answered" => refresh[s].phase # "answered"
        BY <2>2, <3>1
    <3> QED BY <2>1, <2>3, <3>1, <3>2, <3>3 DEF RefreshSound, LoginSound, CookieSound
  <2> QED BY <2>5, <2>6
<1> QED BY <1>1, <1>2, <1>3, <1>4, <1>5, <1>6, <1>7

LEMMA CookieNext == IInv /\ CookieInv /\ [SessionNext]_sessionVars => CookieInv'
<1> SUFFICES ASSUME IInv, CookieInv, [SessionNext]_sessionVars PROVE CookieInv'
    OBVIOUS
<1>1. sessionScene.tabs \subseteq Tabs /\ sessionScene.users \subseteq Users
    BY SceneTypes DEF IInv, WireTypes
<1>2. CASE UNCHANGED sessionVars
    BY <1>2, CookieStutters DEF sessionVars, wires
<1>3. ASSUME NEW t \in Tabs,
             \/ ServerLogin(t) \/ ServerReset(t) \/ ServerLogout(t)
             \/ ServerRefuse(t) \/ ServerLock(t) \/ ServerRotate(t)
      PROVE  CookieInv'
    BY <1>3, CookieServer
<1>4. ASSUME NEW t \in Tabs,
             \/ DeliverRefresh(t) \/ FailRefresh(t) \/ FailLogin(t)
             \/ DeliverLogout(t) \/ FailLogout(t) \/ \E i \in Calls : DeliverLogin(t, i)
      PROVE  CookieInv'
    BY <1>4, CookieDelivered
<1>5. ASSUME NEW t \in Tabs,
             \/ Open(t) \/ DeliverRefusal(t) \/ ClickLogout(t)
             \/ SafetyTimer(t) \/ ForgetMe(t) \/ Expire(t)
             \/ \E u \in Users, k \in SignInKinds : SendLogin(t, u, k)
             \/ \E i \in Calls :
                  \/ UserCall(t, i) \/ DeliverCall(t, i) \/ DeliverUnauthorized(t, i)
                  \/ FailCall(t, i) \/ Wake(t, i) \/ Retry(t, i)
      PROVE  CookieInv'
    BY <1>5, CookieTab
<1>6. CASE (\E u \in sessionScene.users : PasswordChanged(u)) \/ (\E r \in Row : Lapse(r))
    BY <1>6 DEF PasswordChanged, Lapse, CookieInv
<1> QED BY <1>1, <1>2, <1>3, <1>4, <1>5, <1>6 DEF SessionNext

\* As long as no answer was lost, no two requests on the cookie overlapped and
\* no password changed, the cookie stands for a session the server keeps,
\* whenever no answer to a request on it is on its way.
THEOREM CookieIsLiveHolds == SessionSpec => []CookieIsLive
<1>1. CookieInv => CookieIsLive
    BY DEF CookieInv, CookieSound, CookieIsLive
<1>2. SessionSpec => []CookieInv
    BY CookieInit, CookieNext, SessionInvariant, PTL DEF SessionSpec
<1> QED BY <1>1, <1>2, PTL

-----------------------------------------------------------------------------
(* The accounts a tab knows of.                                              *)

\* A call carries a token only while it is sent.
Typed(tb) ==
    /\ tb \in TabState
    /\ \A i \in Calls : tb.calls[i].phase # "sent" => tb.calls[i].bearer.user = NoUser

\* Whatever the tab knows is of w.
OfOne(tb, w) ==
    /\ tb.app.profile \in {w, NoUser} /\ tb.access.user \in {w, NoUser}
    /\ tb.known \in {w, NoUser}
    /\ \A i \in Calls : tb.calls[i].bearer.user \in {w, NoUser}

\* A tab that is signed in knows of one account, one that is not holds nothing.
Fits(tb, w) ==
    /\ tb.app.loggedIn => OfOne(tb, w)
    /\ ~tb.app.loggedIn => tb.access.user = NoUser /\ tb.known = NoUser

\* n comes from tb without learning of anybody, and without signing in.
Meek(tb, n) ==
    /\ Typed(n)
    /\ n.app.loggedIn => tb.app.loggedIn
    /\ \A w \in Anyone : Fits(tb, w) => Fits(n, w)

LEMMA KnownOne ==
    ASSUME NEW tb, NEW w
    PROVE  Known(tb) \subseteq {w} <=> OfOne(tb, w)
BY DEF Known, OfOne

LEMMA Nothing ==
    /\ NoAccess \in Access /\ NoAccess.user = NoUser /\ ~NoAccess.fresh
    /\ NoCall \in CallState /\ NoCall.phase = "idle" /\ NoCall.bearer = NoAccess
    /\ LoggedOut \in AppState /\ ~LoggedOut.loggedIn /\ LoggedOut.profile = NoUser
    /\ NewTab \in TabState /\ Typed(NewTab) /\ NewTab.app = LoggedOut
    /\ NewTab.access = NoAccess /\ NewTab.known = NoUser
    /\ \A i \in Calls : NewTab.calls[i] = NoCall
<1>1. NoUser \in Anyone /\ 0 \in 0..Attempts
    BY SessionAssumption DEF Anyone
<1>2. NoAccess \in Access /\ NoAccess.user = NoUser /\ ~NoAccess.fresh
    BY <1>1 DEF NoAccess, Access
<1>3. NoCall \in CallState /\ NoCall.phase = "idle" /\ NoCall.bearer = NoAccess
    BY <1>1, <1>2 DEF NoCall, CallState
<1>4. LoggedOut \in AppState /\ ~LoggedOut.loggedIn /\ LoggedOut.profile = NoUser
    BY <1>1 DEF LoggedOut, AppState
<1>5. /\ NewTab \in TabState /\ NewTab.app = LoggedOut
      /\ NewTab.access = NoAccess /\ NewTab.known = NoUser
      /\ \A i \in Calls : NewTab.calls[i] = NoCall
    BY <1>1, <1>2, <1>3, <1>4 DEF NewTab, TabState
<1> QED BY <1>2, <1>3, <1>4, <1>5 DEF Typed

LEMMA ClearedMeek ==
    ASSUME NEW tb, Typed(tb)
    PROVE  Meek(tb, Cleared(tb))
<1>0. NoUser \in Anyone
    BY DEF Anyone
<1>1. /\ Cleared(tb) \in TabState /\ Cleared(tb).access = NoAccess
      /\ Cleared(tb).app = tb.app /\ Cleared(tb).known = NoUser
      /\ Cleared(tb).calls = tb.calls
    BY <1>0, Nothing DEF Cleared, Typed, TabState
<1>2. Typed(Cleared(tb))
    BY <1>1 DEF Typed
<1> QED BY <1>1, <1>2, Nothing DEF Meek, Fits, OfOne

\* Signing out leaves nothing but the calls on their way.
LEMMA LeftMeek ==
    ASSUME NEW tb, Typed(tb)
    PROVE  /\ Typed(LeftDesk(tb)) /\ ~LeftDesk(tb).app.loggedIn
           /\ \A w \in Anyone : Fits(LeftDesk(tb), w)
<1> DEFINE cs == [i \in Calls |-> [tb.calls[i] EXCEPT !.check = FALSE]]
<1>2. \A i \in Calls : /\ cs[i] \in CallState /\ cs[i].phase = tb.calls[i].phase
                       /\ cs[i].bearer = tb.calls[i].bearer
    BY DEF Typed, TabState, CallState
<1>3. cs \in [Calls -> CallState]
    BY <1>2
<1>4. /\ Cleared(tb) \in TabState /\ Cleared(tb).access = NoAccess
      /\ Cleared(tb).known = NoUser /\ Cleared(tb).calls = tb.calls
  <2>1. NoUser \in Anyone
      BY DEF Anyone
  <2> QED BY <2>1, Nothing DEF Cleared, Typed, TabState
<1>5. LeftDesk(tb) = [Cleared(tb) EXCEPT !.app = LoggedOut, !.calls = cs]
    BY <1>4 DEF LeftDesk
<1> HIDE DEF cs
<1>6. /\ LeftDesk(tb) \in TabState /\ LeftDesk(tb).access = NoAccess
      /\ LeftDesk(tb).app = LoggedOut /\ LeftDesk(tb).known = NoUser
      /\ LeftDesk(tb).calls = cs
    BY <1>3, <1>4, <1>5, Nothing DEF TabState
<1>7. Typed(LeftDesk(tb))
    BY <1>2, <1>6 DEF Typed
<1> QED BY <1>6, <1>7, Nothing DEF Fits

\* Only the calls change, and carry nothing but the token of the tab.
LEMMA CallsMeek ==
    ASSUME NEW tb, Typed(tb), NEW cs \in [Calls -> CallState],
           \A i \in Calls : /\ cs[i].phase # "sent" => cs[i].bearer.user = NoUser
                            /\ cs[i].bearer.user \in
                                  {tb.access.user, tb.calls[i].bearer.user, NoUser}
    PROVE  Meek(tb, [tb EXCEPT !.calls = cs])
<1> DEFINE n == [tb EXCEPT !.calls = cs]
<1>1. /\ n \in TabState /\ n.app = tb.app /\ n.access = tb.access /\ n.known = tb.known
      /\ n.calls = cs
    BY DEF Typed, TabState
<1>2. Typed(n)
    BY <1>1 DEF Typed
<1>3. n.app.loggedIn => tb.app.loggedIn
    BY <1>1
<1>4. ASSUME NEW w \in Anyone, Fits(tb, w) PROVE Fits(n, w)
  <2> HIDE DEF n
  <2>1. CASE tb.app.loggedIn
      BY <1>1, <1>4, <2>1 DEF Fits, OfOne
  <2>2. CASE ~tb.app.loggedIn
      BY <1>1, <1>4, <2>2 DEF Fits
  <2> QED BY <2>1, <2>2
<1> QED BY <1>2, <1>3, <1>4 DEF Meek

LEMMA CallMeek ==
    ASSUME NEW tb, Typed(tb), NEW i \in Calls, NEW c \in CallState,
           c.phase # "sent" => c.bearer.user = NoUser,
           c.bearer.user \in {tb.access.user, tb.calls[i].bearer.user, NoUser}
    PROVE  Meek(tb, [tb EXCEPT !.calls[i] = c])
<1> DEFINE cs == [tb.calls EXCEPT ![i] = c]
<1>1. cs \in [Calls -> CallState] /\ [tb EXCEPT !.calls[i] = c] = [tb EXCEPT !.calls = cs]
    BY DEF Typed, TabState
<1>2. \A j \in Calls : /\ cs[j].phase # "sent" => cs[j].bearer.user = NoUser
                       /\ cs[j].bearer.user \in
                             {tb.access.user, tb.calls[j].bearer.user, NoUser}
    BY DEF Typed, TabState
<1> HIDE DEF cs
<1> QED BY <1>1, <1>2, CallsMeek

\* The screen changes, and shows nobody but whom the tab knew.
LEMMA AppMeek ==
    ASSUME NEW tb, Typed(tb), NEW a \in AppState, a.loggedIn = tb.app.loggedIn,
           tb.app.loggedIn => a.profile \in {tb.app.profile, tb.known, NoUser}
                                   \cup {tb.calls[i].bearer.user : i \in Calls}
    PROVE  Meek(tb, [tb EXCEPT !.app = a])
<1> DEFINE n == [tb EXCEPT !.app = a]
<1>1. /\ n \in TabState /\ n.app = a /\ n.access = tb.access /\ n.known = tb.known
      /\ n.calls = tb.calls
    BY DEF Typed, TabState
<1>2. Typed(n)
    BY <1>1 DEF Typed
<1>3. n.app.loggedIn => tb.app.loggedIn
    BY <1>1
<1>4. ASSUME NEW w \in Anyone, Fits(tb, w) PROVE Fits(n, w)
  <2> HIDE DEF n
  <2>1. CASE tb.app.loggedIn
      BY <1>1, <1>4, <2>1 DEF Fits, OfOne
  <2>2. CASE ~tb.app.loggedIn
      BY <1>1, <1>4, <2>2 DEF Fits
  <2> QED BY <2>1, <2>2
<1> QED BY <1>2, <1>3, <1>4 DEF Meek

LEMMA MeekTwice ==
    ASSUME NEW a, NEW b, NEW c, Meek(a, b), Meek(b, c)
    PROVE  Meek(a, c)
BY DEF Meek

LEMMA DroppedMeek ==
    ASSUME NEW tb, Typed(tb), NEW i \in Calls
    PROVE  Meek(tb, Dropped(tb, i))
BY CallMeek, Nothing DEF Dropped

LEMMA SentMeek ==
    ASSUME NEW tb, Typed(tb), NEW i \in Calls
    PROVE  Meek(tb, Sent(tb, i))
<1> DEFINE c == [tb.calls[i] EXCEPT !.phase = "sent", !.bearer = tb.access]
<1>1. c \in CallState /\ c.phase = "sent" /\ c.bearer = tb.access
    BY DEF Typed, TabState, CallState
<1>2. Sent(tb, i) = [tb EXCEPT !.calls[i] = c]
    BY DEF Sent, Typed, TabState, CallState
<1> HIDE DEF c
<1> QED BY <1>1, <1>2, CallMeek

LEMMA ShownMeek ==
    ASSUME NEW tb, Typed(tb), NEW u \in Anyone,
           tb.app.loggedIn => u \in {tb.known} \cup {tb.calls[i].bearer.user : i \in Calls}
    PROVE  Meek(tb, Shown(tb, u))
<1> DEFINE a == [tb.app EXCEPT !.profile = u, !.failed = FALSE, !.loading = FALSE,
                               !.timer = FALSE]
<1>1. a \in AppState /\ a.loggedIn = tb.app.loggedIn /\ a.profile = u
    BY DEF Typed, TabState, AppState
<1>2. Shown(tb, u) = [tb EXCEPT !.app = a]
    BY DEF Shown
<1> HIDE DEF a
<1> QED BY <1>1, <1>2, AppMeek

LEMMA TriedMeek ==
    ASSUME NEW tb, Typed(tb), NEW i \in Calls, tb.calls[i].phase # "sent"
    PROVE  Meek(tb, Tried(tb, i))
<1>1. CASE tb.access.user = NoUser
  <2> DEFINE c == [tb.calls[i] EXCEPT !.phase = "ensure"]
  <2>1. c \in CallState /\ c.phase = "ensure" /\ c.bearer = tb.calls[i].bearer
      BY DEF Typed, TabState, CallState
  <2>2. Tried(tb, i) = [tb EXCEPT !.calls[i] = c]
      BY <1>1 DEF Tried, Typed, TabState, CallState
  <2>3. c.bearer.user = NoUser
      BY <2>1 DEF Typed
  <2> HIDE DEF c
  <2> QED BY <2>1, <2>2, <2>3, CallMeek
<1>2. CASE tb.access.user # NoUser /\ tb.known = NoUser
    BY <1>2, SentMeek DEF Tried
<1>3. CASE tb.access.user # NoUser /\ tb.known # NoUser
  <2>1. Meek(tb, Shown(tb, tb.known))
      BY ShownMeek DEF Typed, TabState
  <2>2. Meek(tb, Dropped(Shown(tb, tb.known), i))
      BY <2>1, DroppedMeek, MeekTwice DEF Meek
  <2>3. Tried(tb, i) = IF tb.calls[i].check THEN Dropped(Shown(tb, tb.known), i)
                                            ELSE Dropped(tb, i)
      BY <1>3 DEF Tried
  <2> QED BY <2>2, <2>3, DroppedMeek
<1> QED BY <1>1, <1>2, <1>3

LEMMA CheckingMeek ==
    ASSUME NEW tb, Typed(tb), NEW i \in Calls
    PROVE  Meek(tb, Checking(tb, i))
<1> DEFINE a == [tb.app EXCEPT !.timer = TRUE]
           c == [NoCall EXCEPT !.me = TRUE, !.check = TRUE]
           n == [tb EXCEPT !.app = a]
           m == [n EXCEPT !.calls[i] = c]
<1>1. a \in AppState /\ a.loggedIn = tb.app.loggedIn /\ a.profile = tb.app.profile
    BY DEF Typed, TabState, AppState
<1>2. c \in CallState /\ c.phase = "idle" /\ c.bearer = NoAccess
    BY Nothing DEF CallState
<1>3. Checking(tb, i) = Tried(m, i)
    BY DEF Checking, Typed, TabState
<1>4. m.calls[i] = c
    BY DEF Typed, TabState
<1> HIDE DEF a, c
<1>5. Meek(tb, n)
    BY <1>1, AppMeek
<1> HIDE DEF n
<1>6. Meek(n, m)
    BY <1>2, <1>5, Nothing, CallMeek DEF Meek
<1> HIDE DEF m
<1>7. Meek(m, Tried(m, i))
    BY <1>2, <1>4, <1>6, TriedMeek DEF Meek
<1> QED BY <1>3, <1>5, <1>6, <1>7, MeekTwice

LEMMA ResumedMeek ==
    ASSUME NEW tb, Typed(tb)
    PROVE  Meek(tb, Resumed(tb))
<1> DEFINE c(i) == [tb.calls[i] EXCEPT !.phase = "sent", !.bearer = tb.access,
                                       !.again = (tb.calls[i].phase = "renew")]
           cs == [i \in Calls |-> IF ~Waits(tb, i) THEN tb.calls[i] ELSE c(i)]
<1>1. \A i \in Calls : c(i) \in CallState /\ c(i).phase = "sent" /\ c(i).bearer = tb.access
    BY DEF Typed, TabState, CallState
<1>2. Resumed(tb) = [tb EXCEPT !.calls = cs]
    BY DEF Resumed
<1> HIDE DEF c
<1>3. cs \in [Calls -> CallState]
    BY <1>1 DEF Typed, TabState
<1>4. \A i \in Calls : /\ cs[i].phase # "sent" => cs[i].bearer.user = NoUser
                       /\ cs[i].bearer.user \in
                             {tb.access.user, tb.calls[i].bearer.user, NoUser}
    BY <1>1 DEF Typed
<1> HIDE DEF cs
<1> QED BY <1>2, <1>3, <1>4, CallsMeek

LEMMA FailureTypes ==
    ASSUME NEW c \in CallState, NEW a \in AppState
    PROVE  /\ AfterFailure(c) \in CallState
           /\ AfterFailure(c).phase # "sent" /\ AfterFailure(c).bearer = NoAccess
           /\ CannotReach(a) \in AppState
           /\ CannotReach(a).loggedIn = a.loggedIn /\ CannotReach(a).profile = a.profile
<1>1. CASE TriesAgain(c)
  <2>1. c.tries + 1 \in 0..Attempts
      BY <1>1, SessionAssumption DEF TriesAgain, CallState
  <2>2. Waiting(c) \in CallState /\ Waiting(c).phase = "sleep" /\ Waiting(c).bearer = NoAccess
      BY <2>1, Nothing DEF Waiting, CallState
  <2> QED BY <1>1, <2>2 DEF AfterFailure, CannotReach, AppState
<1>2. CASE ~TriesAgain(c)
    BY <1>2, Nothing DEF AfterFailure, CannotReach, AppState
<1> QED BY <1>1, <1>2

LEMMA FailedMeek ==
    ASSUME NEW tb, Typed(tb), NEW I
    PROVE  Meek(tb, TriesFailed(tb, I))
<1> DEFINE cs == [i \in Calls |-> IF i \in I THEN AfterFailure(tb.calls[i]) ELSE tb.calls[i]]
           a == IF \E i \in I : GivesUp(tb.calls[i]) THEN CannotReach(tb.app) ELSE tb.app
           n == [tb EXCEPT !.calls = cs]
<1>1. TriesFailed(tb, I) = [n EXCEPT !.app = a] /\ n.app = tb.app
    BY DEF TriesFailed, Typed, TabState
<1>2. a \in AppState /\ a.loggedIn = tb.app.loggedIn /\ a.profile = tb.app.profile
  <2>1. tb.app \in AppState
      BY DEF Typed, TabState
  <2> QED BY <2>1, FailureTypes, Nothing
<1>3. cs \in [Calls -> CallState]
    BY FailureTypes DEF Typed, TabState
<1>4. \A i \in Calls : /\ cs[i].phase # "sent" => cs[i].bearer.user = NoUser
                       /\ cs[i].bearer.user \in
                             {tb.access.user, tb.calls[i].bearer.user, NoUser}
  <2>1. tb.app \in AppState /\ \A i \in Calls : tb.calls[i] \in CallState
      BY DEF Typed, TabState
  <2> QED BY <2>1, FailureTypes, Nothing DEF Typed
<1> HIDE DEF cs, a
<1>5. Meek(tb, n)
    BY <1>3, <1>4, CallsMeek
<1> HIDE DEF n
<1>6. Meek(n, [n EXCEPT !.app = a])
    BY <1>1, <1>2, <1>5, AppMeek DEF Meek
<1> QED BY <1>1, <1>5, <1>6, MeekTwice

LEMMA CutOffMeek ==
    ASSUME NEW tb, Typed(tb), NEW u
    PROVE  Meek(tb, CutOff(tb, u)) /\ CutOff(tb, u).app = tb.app
<1> DEFINE cs == [i \in Calls |-> [tb.calls[i] EXCEPT
                        !.bearer = Outdated(tb.calls[i].bearer, u)]]
           x == Outdated(tb.access, u)
           n == CutOff(tb, u)
<1>0. ASSUME NEW b \in Access
      PROVE  Outdated(b, u) \in Access /\ Outdated(b, u).user = b.user
    BY DEF Access, Outdated
<1>1. x \in Access /\ x.user = tb.access.user
    BY <1>0 DEF Typed, TabState
<1>2. \A i \in Calls : /\ cs[i] \in CallState /\ cs[i].phase = tb.calls[i].phase
                       /\ cs[i].bearer.user = tb.calls[i].bearer.user
    BY <1>0 DEF Typed, TabState, CallState
<1>3. n = [tb EXCEPT !.access = x, !.calls = cs]
    BY DEF CutOff
<1>4. cs \in [Calls -> CallState]
    BY <1>2
<1> HIDE DEF cs, x
<1>5. /\ n \in TabState /\ n.access = x /\ n.calls = cs /\ n.app = tb.app /\ n.known = tb.known
    BY <1>1, <1>3, <1>4 DEF Typed, TabState
<1> HIDE DEF n
<1>6. Typed(n)
    BY <1>2, <1>5 DEF Typed
<1>7. ASSUME NEW w \in Anyone, Fits(tb, w) PROVE Fits(n, w)
    BY <1>1, <1>2, <1>5, <1>7 DEF Fits, OfOne
<1>8. Meek(tb, n) /\ n.app = tb.app
    BY <1>5, <1>6, <1>7 DEF Meek
<1> QED BY <1>8 DEF n

\* A login is asked for by a tab that is not signed in, and no tab knows of two
\* accounts unless it is marked.
TabInv ==
    /\ tab \in [Tabs -> TabState] /\ \A t \in Tabs : Typed(tab[t])
    /\ owner \in [Row -> Anyone]
    /\ \A t \in Tabs : signIn[t].phase # "idle" => ~tab[t].app.loggedIn
    /\ \A t \in Tabs \ crossed : \E w \in Anyone : Fits(tab[t], w)

LEMMA TabInit == SessionInit => TabInv
<1> SUFFICES ASSUME SessionInit PROVE TabInv
    OBVIOUS
<1>1. NoUser \in Anyone
    BY DEF Anyone
<1>2. Fits(NewTab, NoUser)
    BY Nothing DEF Fits
<1> QED BY <1>1, <1>2, Nothing DEF SessionInit, TabInv, NoSignIn

LEMMA MeekInv ==
    ASSUME TabInv, tab' \in [Tabs -> TabState], \A s \in Tabs : Meek(tab[s], tab'[s]),
           crossed \subseteq crossed', owner' \in [Row -> Anyone],
           \A s \in Tabs : signIn'[s].phase # "idle" =>
                              (signIn[s].phase # "idle" \/ ~tab[s].app.loggedIn)
    PROVE  TabInv'
BY DEF TabInv, Meek

LEMMA ItselfMeek ==
    ASSUME NEW tb, Typed(tb)
    PROVE  Meek(tb, tb)
BY DEF Meek

LEMMA OneTabInv ==
    ASSUME TabInv, NEW t \in Tabs, NEW n, Meek(tab[t], n),
           tab' = [tab EXCEPT ![t] = n], crossed \subseteq crossed',
           owner' = owner,
           \A s \in Tabs : signIn'[s].phase # "idle" => signIn[s].phase # "idle"
    PROVE  TabInv'
<1>1. n \in TabState
    BY DEF Meek, Typed
<1>2. tab' \in [Tabs -> TabState] /\ \A s \in Tabs : Meek(tab[s], tab'[s])
    BY <1>1, ItselfMeek DEF TabInv
<1>3. owner' \in [Row -> Anyone]
    BY DEF TabInv
<1> QED BY <1>2, <1>3, MeekInv

LEMMA SameTabs ==
    ASSUME TabInv, UNCHANGED <<tab, crossed>>, owner' \in [Row -> Anyone],
           \A s \in Tabs : signIn'[s].phase # "idle" =>
                              (signIn[s].phase # "idle" \/ ~tab[s].app.loggedIn)
    PROVE  TabInv'
BY ItselfMeek, MeekInv DEF TabInv

LEMMA LeavesInv ==
    ASSUME TabInv, NEW t \in Tabs, NEW tb, Typed(tb), Leaves(t, tb),
           UNCHANGED <<serverSide, signIn, crossed>>
    PROVE  TabInv'
<1>1. Meek(tab[t], LeftDesk(tb))
    BY LeftMeek DEF Meek
<1> QED BY <1>1, OneTabInv DEF Leaves, serverSide

LEMMA BecomesInv ==
    ASSUME TabInv, NEW t \in Tabs, NEW tb, Meek(tab[t], tb), Becomes(t, tb),
           UNCHANGED <<serverSide, signIn, crossed>>
    PROVE  TabInv'
BY OneTabInv DEF Becomes, serverSide

-----------------------------------------------------------------------------
(* The steps, for the tabs.                                                  *)

LEMMA TabServer ==
    ASSUME IInv, TabInv, NEW t \in Tabs,
           \/ ServerLogin(t) \/ ServerReset(t) \/ ServerLogout(t)
           \/ ServerRefuse(t) \/ ServerLock(t) \/ ServerRotate(t)
    PROVE  TabInv'
<1> USE SessionAssumption DEF IInv, WireTypes
<1>1. CASE ServerLogout(t) \/ ServerRefuse(t) \/ ServerLock(t)
    BY <1>1, SameTabs DEF ServerLogout, ServerRefuse, ServerLock, serverSide, TabInv
<1>2. CASE ServerRotate(t)
  <2>1. refresh[t].cookie \in Row
      BY <1>2 DEF ServerRotate, Held, Row
  <2>2. owner' \in [Row -> Anyone]
      BY <1>2, <2>1 DEF ServerRotate, TabInv
  <2> QED BY <1>2, <2>2, SameTabs DEF ServerRotate
<1>3. CASE ServerLogin(t) \/ ServerReset(t)
  <2>1. /\ owner' = [owner EXCEPT ![issued + 1] = signIn[t].user]
        /\ signIn' = [signIn EXCEPT ![t] = Answered(@, issued + 1)]
        /\ signIn[t].phase = "sent" /\ crossed' = crossed
      BY <1>3 DEF ServerLogin, ServerReset, Issue
  <2>2. owner' \in [Row -> Anyone]
      BY <2>1 DEF TabInv, SignInState
  <2>3. \A s \in Tabs : signIn'[s].phase # "idle" => signIn[s].phase # "idle"
      BY <2>1
  <2>4. CASE ServerLogin(t)
      BY <2>1, <2>2, <2>3, <2>4, SameTabs DEF ServerLogin
  <2>5. CASE ServerReset(t)
    <3>1. tab' = [s \in Tabs |-> CutOff(tab[s], signIn[t].user)]
        BY <2>5 DEF ServerReset
    <3>2. \A s \in Tabs : Meek(tab[s], tab'[s])
        BY <3>1, CutOffMeek DEF TabInv
    <3>3. tab' \in [Tabs -> TabState]
        BY <3>1, <3>2 DEF Meek, Typed
    <3> QED BY <2>1, <2>2, <2>3, <3>2, <3>3, MeekInv
  <2> QED BY <1>3, <2>4, <2>5
<1> QED BY <1>1, <1>2, <1>3

LEMMA TabPassword ==
    ASSUME IInv, TabInv, NEW u, PasswordChanged(u)
    PROVE  TabInv'
<1>1. tab' = [s \in Tabs |-> CutOff(tab[s], u)] /\ UNCHANGED <<owner, signIn, crossed>>
    BY DEF PasswordChanged
<1>2. \A s \in Tabs : Meek(tab[s], tab'[s])
    BY <1>1, CutOffMeek DEF TabInv
<1>3. tab' \in [Tabs -> TabState]
    BY <1>1, <1>2 DEF Meek, Typed
<1> QED BY <1>1, <1>2, <1>3, MeekInv DEF TabInv

\* Steps in which the tab learns of nobody.
LEMMA TabMeek ==
    ASSUME IInv, TabInv, NEW t \in Tabs,
           \/ FailLogin(t) \/ DeliverRefusal(t) \/ FailRefresh(t) \/ ClickLogout(t)
           \/ DeliverLogout(t) \/ FailLogout(t)
           \/ SafetyTimer(t) \/ ForgetMe(t) \/ Expire(t)
           \/ \E u \in Users, k \in SignInKinds : SendLogin(t, u, k)
           \/ \E i \in Calls :
                \/ UserCall(t, i) \/ DeliverUnauthorized(t, i)
                \/ FailCall(t, i) \/ Wake(t, i) \/ Retry(t, i)
    PROVE  TabInv'
<1> DEFINE tb == tab[t]
<1>0. Typed(tb) /\ tb \in TabState /\ tb.app \in AppState /\ tb.access \in Access
    BY DEF TabInv, TabState
<1>1. CASE FailLogin(t) \/ \E u \in Users, k \in SignInKinds : SendLogin(t, u, k)
  <2>1. /\ UNCHANGED <<owner, tab, crossed>>
        /\ \A s \in Tabs : s # t => signIn'[s] = signIn[s]
        /\ signIn[t].phase # "idle" \/ ~tab[t].app.loggedIn
      BY <1>1 DEF FailLogin, SendLogin, serverSide, IInv, WireTypes
  <2> QED BY <2>1, SameTabs DEF TabInv
<1>2. CASE DeliverRefusal(t)
  <2> DEFINE cs == [i \in Calls |-> IF Waits(tb, i) THEN NoCall ELSE tb.calls[i]]
             n == [tb EXCEPT !.calls = cs]
  <2>1. /\ \/ Leaves(t, n)
           \/ tab' = [tab EXCEPT ![t] = n]
        /\ UNCHANGED <<serverSide, signIn, crossed>>
      BY <1>2 DEF DeliverRefusal
  <2>2. cs \in [Calls -> CallState]
      BY <1>0, Nothing DEF TabState
  <2>3. \A i \in Calls : /\ cs[i].phase # "sent" => cs[i].bearer.user = NoUser
                         /\ cs[i].bearer.user \in
                               {tb.access.user, tb.calls[i].bearer.user, NoUser}
      BY <1>0, Nothing DEF Typed
  <2> HIDE DEF cs
  <2>4. Meek(tb, n)
      BY <1>0, <2>2, <2>3, CallsMeek
  <2> HIDE DEF n
  <2>5. Typed(n)
      BY <2>4 DEF Meek
  <2>6. CASE Leaves(t, n)
      BY <2>1, <2>5, <2>6, LeavesInv
  <2>7. CASE tab' = [tab EXCEPT ![t] = n]
      BY <2>1, <2>4, <2>7, OneTabInv DEF serverSide
  <2> QED BY <2>1, <2>6, <2>7
<1>3. CASE FailRefresh(t)
  <2>1. /\ tab' = [tab EXCEPT ![t] = Disappointed(tb)] /\ UNCHANGED <<owner, signIn, crossed>>
      BY <1>3 DEF FailRefresh, serverSide
  <2> QED BY <1>0, <2>1, FailedMeek, OneTabInv DEF Disappointed
<1>4. CASE ClickLogout(t)
    BY <1>0, <1>4, LeavesInv DEF ClickLogout
<1>5. CASE DeliverLogout(t) \/ FailLogout(t)
  <2>1. /\ tab' = [tab EXCEPT ![t] = Cleared(tb)] /\ UNCHANGED <<owner, signIn, crossed>>
      BY <1>5 DEF DeliverLogout, FailLogout, serverSide
  <2> QED BY <1>0, <2>1, ClearedMeek, OneTabInv
<1>6. CASE SafetyTimer(t)
  <2> DEFINE a == [tb.app EXCEPT !.loading = FALSE, !.failed = TRUE, !.timer = FALSE]
  <2>1. a \in AppState /\ a.loggedIn = tb.app.loggedIn /\ a.profile = tb.app.profile
      BY <1>0 DEF AppState
  <2>2. tab' = [tab EXCEPT ![t] = [tb EXCEPT !.app = a]] /\ UNCHANGED <<owner, signIn, crossed>>
      BY <1>6 DEF SafetyTimer, serverSide, wires, TabInv
  <2> HIDE DEF a
  <2>3. Meek(tb, [tb EXCEPT !.app = a])
      BY <1>0, <2>1, AppMeek
  <2> QED BY <2>2, <2>3, OneTabInv
<1>7. CASE ForgetMe(t)
  <2> DEFINE n == [tb EXCEPT !.known = NoUser]
  <2>1. tab' = [tab EXCEPT ![t] = n] /\ UNCHANGED <<owner, signIn, crossed>>
      BY <1>7 DEF ForgetMe, serverSide, wires, TabInv
  <2>2. /\ n \in TabState /\ n.app = tb.app /\ n.access = tb.access /\ n.known = NoUser
        /\ n.calls = tb.calls
    <3>1. NoUser \in Anyone
        BY DEF Anyone
    <3> QED BY <1>0, <3>1 DEF TabState
  <2>3. Meek(tb, n)
      BY <1>0, <2>2 DEF Meek, Typed, Fits, OfOne
  <2> QED BY <2>1, <2>3, OneTabInv
<1>8. CASE Expire(t)
  <2> DEFINE x == [tb.access EXCEPT !.fresh = FALSE]
             n == [tb EXCEPT !.access = x]
  <2>1. tab' = [tab EXCEPT ![t] = n] /\ UNCHANGED <<owner, signIn, crossed>>
      BY <1>8 DEF Expire, serverSide, wires, TabInv
  <2>2. x \in Access /\ x.user = tb.access.user
      BY <1>0 DEF Access
  <2>3. /\ n \in TabState /\ n.app = tb.app /\ n.access = x /\ n.known = tb.known
        /\ n.calls = tb.calls
      BY <1>0, <2>2 DEF TabState
  <2>4. Meek(tb, n)
      BY <1>0, <2>2, <2>3 DEF Meek, Typed, Fits, OfOne
  <2> QED BY <2>1, <2>4, OneTabInv
<1>9. ASSUME NEW i \in Calls, UserCall(t, i) PROVE TabInv'
  <2>1. tab' = [tab EXCEPT ![t] = Sent(tb, i)] /\ UNCHANGED <<owner, signIn, crossed>>
      BY <1>9 DEF UserCall, serverSide, wires
  <2> QED BY <1>0, <2>1, SentMeek, OneTabInv
<1>10. ASSUME NEW i \in Calls, FailCall(t, i) PROVE TabInv'
  <2>1. tab' = [tab EXCEPT ![t] = TriesFailed(tb, {i})] /\ UNCHANGED <<owner, signIn, crossed>>
      BY <1>10 DEF FailCall, serverSide, wires
  <2> QED BY <1>0, <2>1, FailedMeek, OneTabInv
<1>11. ASSUME NEW i \in Calls, Wake(t, i) PROVE TabInv'
  <2>1. /\ tb.calls[i].phase # "sent" /\ Becomes(t, Tried(tb, i))
        /\ UNCHANGED <<serverSide, signIn, crossed>>
      BY <1>11 DEF Wake
  <2> QED BY <1>0, <2>1, TriedMeek, BecomesInv
<1>12. ASSUME NEW i \in Calls, Retry(t, i) PROVE TabInv'
  <2> DEFINE a == [tb.app EXCEPT !.failed = FALSE, !.loading = TRUE]
             cs == [j \in Calls |-> [tb.calls[j] EXCEPT !.check = FALSE]]
             n == [tb EXCEPT !.app = a]
             m == [n EXCEPT !.calls = cs]
  <2>1. /\ Becomes(t, Checking(m, i)) /\ UNCHANGED <<serverSide, signIn, crossed>>
    <3>1. m = [tb EXCEPT !.app = a, !.calls = cs]
        BY <1>0 DEF TabState
    <3> QED BY <1>12, <3>1 DEF Retry
  <2>2. a \in AppState /\ a.loggedIn = tb.app.loggedIn /\ a.profile = tb.app.profile
      BY <1>0 DEF AppState
  <2>3. \A j \in Calls : /\ cs[j] \in CallState /\ cs[j].phase = tb.calls[j].phase
                         /\ cs[j].bearer = tb.calls[j].bearer
      BY <1>0 DEF TabState, CallState
  <2>4. cs \in [Calls -> CallState]
      BY <2>3
  <2>5. n.calls = tb.calls
      BY <1>0 DEF TabState
  <2> HIDE DEF a, cs
  <2>6. Meek(tb, n)
      BY <1>0, <2>2, AppMeek
  <2>7. \A j \in Calls : /\ cs[j].phase # "sent" => cs[j].bearer.user = NoUser
                         /\ cs[j].bearer.user \in
                               {n.access.user, n.calls[j].bearer.user, NoUser}
      BY <1>0, <2>3, <2>5 DEF Typed
  <2> HIDE DEF n
  <2>8. Meek(n, m)
      BY <2>4, <2>6, <2>7, CallsMeek DEF Meek
  <2> HIDE DEF m
  <2>9. Meek(m, Checking(m, i))
      BY <2>8, CheckingMeek DEF Meek
  <2>10. Meek(tb, Checking(m, i))
      BY <2>6, <2>8, <2>9, MeekTwice
  <2> QED BY <2>1, <2>10, BecomesInv
<1>13. ASSUME NEW i \in Calls, DeliverUnauthorized(t, i) PROVE TabInv'
  <2> DEFINE c == [tb.calls[i] EXCEPT !.phase = "renew", !.bearer = NoAccess]
             n == [tb EXCEPT !.calls[i] = c]
  <2>1. /\ \/ Becomes(t, n)
           \/ Leaves(t, Dropped(tb, i))
        /\ UNCHANGED <<serverSide, signIn, crossed>>
    <3>1. n = [tb EXCEPT !.calls[i].phase = "renew", !.calls[i].bearer = NoAccess]
        BY <1>0 DEF TabState, CallState
    <3> QED BY <1>13, <3>1 DEF DeliverUnauthorized
  <2>2. c \in CallState /\ c.phase = "renew" /\ c.bearer = NoAccess
      BY <1>0, Nothing DEF TabState, CallState
  <2> HIDE DEF c
  <2>3. Meek(tb, n)
      BY <1>0, <2>2, Nothing, CallMeek
  <2>4. Typed(Dropped(tb, i))
      BY <1>0, DroppedMeek DEF Meek
  <2> HIDE DEF n
  <2> QED BY <2>1, <2>3, <2>4, BecomesInv, LeavesInv
<1> QED BY <1>1, <1>2, <1>3, <1>4, <1>5, <1>6, <1>7, <1>8, <1>9, <1>10, <1>11, <1>12, <1>13

\* Steps in which a tab learns of an account.
LEMMA LearnInv ==
    ASSUME TabInv, NEW t \in Tabs, NEW n, Typed(n), tab' = [tab EXCEPT ![t] = n],
           owner' = owner,
           \A s \in Tabs : s # t => (signIn'[s].phase # "idle" => signIn[s].phase # "idle"),
           signIn'[t].phase # "idle" => ~n.app.loggedIn,
           crossed \subseteq crossed' \cup {t},
           t \notin crossed' => \E w \in Anyone : Fits(n, w)
    PROVE  TabInv'
<1>1. tab' \in [Tabs -> TabState] /\ \A s \in Tabs : Typed(tab'[s])
    BY DEF TabInv, Typed
<1>2. tab'[t] = n /\ \A s \in Tabs : s # t => tab'[s] = tab[s]
    BY DEF TabInv
<1>3. \A s \in Tabs : signIn'[s].phase # "idle" => ~tab'[s].app.loggedIn
    BY <1>2 DEF TabInv
<1>4. \A s \in Tabs \ crossed' : \E w \in Anyone : Fits(tab'[s], w)
    BY <1>2 DEF TabInv
<1> QED BY <1>1, <1>3, <1>4 DEF TabInv

LEMMA OpenInv ==
    ASSUME IInv, TabInv, hint \in BOOLEAN, NEW t \in Tabs, Open(t)
    PROVE  TabInv'
<1> DEFINE a == [LoggedOut EXCEPT !.loggedIn = hint, !.loading = hint]
           fresh == [NewTab EXCEPT !.app = a]
<1>1. PICK i \in Calls : tab' = [tab EXCEPT ![t] = IF hint THEN Checking(fresh, i) ELSE fresh]
  <2>1. fresh = [NewTab EXCEPT !.app.loggedIn = hint, !.app.loading = hint]
      BY Nothing DEF TabState, AppState
  <2> QED BY <2>1 DEF Open
<1>2. /\ crossed' = crossed \ {t} /\ owner' = owner /\ signIn' = signIn
      /\ signIn[t].phase = "idle"
    BY DEF Open, serverSide
<1>3. a \in AppState /\ a.profile = NoUser
    BY Nothing DEF AppState
<1> HIDE DEF a
<1>4. /\ fresh \in TabState /\ fresh.access = NoAccess /\ fresh.known = NoUser
      /\ fresh.calls = NewTab.calls /\ fresh.app = a
    BY <1>3, Nothing DEF TabState
<1>5. Typed(fresh) /\ Fits(fresh, NoUser)
    BY <1>3, <1>4, Nothing DEF Typed, Fits, OfOne
<1> HIDE DEF fresh
<1>6. NoUser \in Anyone
    BY DEF Anyone
<1>7. Typed(Checking(fresh, i)) /\ Fits(Checking(fresh, i), NoUser)
    BY <1>5, <1>6, CheckingMeek DEF Meek
<1> DEFINE n == IF hint THEN Checking(fresh, i) ELSE fresh
<1>8. Typed(n) /\ Fits(n, NoUser)
    BY <1>5, <1>7
<1> HIDE DEF n
<1>9. tab' = [tab EXCEPT ![t] = n]
    BY <1>1 DEF n
<1> QED BY <1>2, <1>6, <1>8, <1>9, LearnInv

LEMMA LoginLearns ==
    ASSUME IInv, TabInv, NEW t \in Tabs, NEW i \in Calls, DeliverLogin(t, i)
    PROVE  TabInv'
<1> DEFINE r == signIn[t]
           a == [LoggedOut EXCEPT !.loggedIn = TRUE, !.loading = r.kind = "invite",
                                  !.profile = IF r.kind = "invite" THEN @ ELSE r.user]
           x == [user |-> r.user, fresh |-> r.kind # "reset"]
           tb == [tab[t] EXCEPT !.access = x, !.app = a]
<1>1. /\ r.phase = "answered" /\ tab' = [tab EXCEPT ![t] = Checking(tb, i)]
      /\ signIn' = [signIn EXCEPT ![t] = NoSignIn] /\ owner' = owner
      /\ crossed \subseteq crossed'
      /\ t \notin crossed' => \A j \in Calls : Free(tab[t], j)
    BY DEF DeliverLogin, serverSide
<1>2. r.user \in Anyone /\ r.kind \in SignInKinds
    BY DEF IInv, WireTypes, SignInState
<1>3. x \in Access /\ x.user = r.user
    BY <1>2 DEF Access
<1>4. a \in AppState /\ a.loggedIn /\ a.profile \in {r.user, NoUser}
    BY <1>2, Nothing DEF AppState
<1> HIDE DEF x, a
<1>5. /\ tb \in TabState /\ tb.access = x /\ tb.app = a /\ tb.known = tab[t].known
      /\ tb.calls = tab[t].calls
    BY <1>3, <1>4 DEF TabInv, TabState
<1>6. Typed(tb)
    BY <1>5 DEF Typed, TabInv
<1>7. ASSUME t \notin crossed' PROVE Fits(tb, r.user)
  <2>1. tab[t].known = NoUser
      BY <1>1, <1>7 DEF TabInv, Fits
  <2>2. \A j \in Calls : tab[t].calls[j].bearer.user = NoUser
      BY <1>1, <1>7 DEF Free, TabInv, Typed
  <2> QED BY <1>3, <1>4, <1>5, <2>1, <2>2 DEF Fits, OfOne
<1> HIDE DEF tb
<1>8. Meek(tb, Checking(tb, i))
    BY <1>6, CheckingMeek
<1>9. Typed(Checking(tb, i)) /\ (t \notin crossed' => Fits(Checking(tb, i), r.user))
    BY <1>2, <1>7, <1>8 DEF Meek
<1>10. /\ signIn'[t].phase = "idle"
       /\ \A s \in Tabs : s # t => signIn'[s] = signIn[s]
    BY <1>1 DEF IInv, WireTypes, NoSignIn
<1> QED BY <1>1, <1>2, <1>9, <1>10, LearnInv

LEMMA RefreshLearns ==
    ASSUME IInv, TabInv, NEW t \in Tabs, DeliverRefresh(t)
    PROVE  TabInv'
<1> DEFINE u == owner[refresh[t].row]
           x == [user |-> u, fresh |-> TRUE]
           tb == [tab[t] EXCEPT !.access = x]
<1>1. /\ refresh[t].row # 0
      /\ tab' = [tab EXCEPT ![t] = Resumed(tb)]
      /\ owner' = owner /\ signIn' = signIn
      /\ crossed' = crossed \cup Strangers(u) \cup (IF tab[t].app.loggedIn THEN {} ELSE {t})
    BY DEF DeliverRefresh, serverSide, TabInv
<1>2. u \in Anyone
  <2>1. refresh[t].row \in Row
      BY <1>1, SessionAssumption DEF IInv, WireTypes, RefreshState, Cookie, Row
  <2> QED BY <2>1 DEF TabInv
<1>3. x \in Access /\ x.user = u
    BY <1>2 DEF Access
<1> HIDE DEF x
<1>4. /\ tb \in TabState /\ tb.access = x /\ tb.app = tab[t].app /\ tb.known = tab[t].known
      /\ tb.calls = tab[t].calls
    BY <1>3 DEF TabInv, TabState
<1>5. Typed(tb)
    BY <1>4 DEF Typed, TabInv
<1>6. ASSUME t \notin crossed' PROVE Fits(tb, u)
  <2>1. tab[t].app.loggedIn /\ OfOne(tab[t], u)
      BY <1>1, <1>6, KnownOne DEF Strangers
  <2> QED BY <1>3, <1>4, <2>1 DEF Fits, OfOne
<1>7. tb.app = tab[t].app
    BY <1>4
<1> HIDE DEF u, tb
<1>8. Meek(tb, Resumed(tb))
    BY <1>5, ResumedMeek
<1>9. Typed(Resumed(tb)) /\ (t \notin crossed' => Fits(Resumed(tb), u))
    BY <1>2, <1>6, <1>8 DEF Meek
<1>10. signIn'[t].phase # "idle" => ~Resumed(tb).app.loggedIn
    BY <1>1, <1>7, <1>8 DEF Meek, TabInv
<1> QED BY <1>1, <1>2, <1>9, <1>10, LearnInv

LEMMA CallLearns ==
    ASSUME IInv, TabInv, NEW t \in Tabs, NEW i \in Calls, DeliverCall(t, i)
    PROVE  TabInv'
<1> DEFINE c == tab[t].calls[i]
           u == c.bearer.user
           tb == IF c.me THEN [tab[t] EXCEPT !.known = u] ELSE tab[t]
           m == IF c.check THEN Shown(tb, u) ELSE tb
           n == Dropped(m, i)
<1>1. /\ tab' = [tab EXCEPT ![t] = n] /\ owner' = owner /\ signIn' = signIn
      /\ crossed' = IF c.me /\ ~tab[t].app.loggedIn THEN crossed \cup {t} ELSE crossed
    BY DEF DeliverCall, serverSide, wires
<1>2. u \in Anyone /\ tab[t] \in TabState /\ Typed(tab[t])
    BY DEF TabInv, TabState, CallState, Access
<1>3. /\ tb \in TabState /\ tb.access = tab[t].access /\ tb.app = tab[t].app
      /\ tb.calls = tab[t].calls /\ (c.me => tb.known = u) /\ (~c.me => tb = tab[t])
    BY <1>2 DEF TabState
<1>4. u = tb.calls[i].bearer.user
    BY <1>3
<1>5. Typed(tb)
    BY <1>2, <1>3 DEF Typed
<1>6. ASSUME NEW w \in Anyone, Fits(tab[t], w), t \notin crossed' PROVE Fits(tb, w)
  <2>1. CASE c.me
    <3>1. tab[t].app.loggedIn
        BY <1>1, <1>6, <2>1
    <3> QED BY <1>3, <1>6, <2>1, <3>1 DEF Fits, OfOne
  <2>2. CASE ~c.me
      BY <1>3, <1>6, <2>2
  <2> QED BY <2>1, <2>2
<1> HIDE DEF tb
<1>7. Meek(tb, m)
    BY <1>2, <1>4, <1>5, ShownMeek, ItselfMeek
<1> HIDE DEF m
<1>8. Meek(tb, n)
    BY <1>7, DroppedMeek, MeekTwice DEF Meek
<1> HIDE DEF n
<1>9. Typed(n) /\ (n.app.loggedIn => tab[t].app.loggedIn)
    BY <1>3, <1>8 DEF Meek
<1>10. t \notin crossed' => \E w \in Anyone : Fits(n, w)
    BY <1>1, <1>6, <1>8 DEF Meek, TabInv
<1>11. signIn'[t].phase # "idle" => ~n.app.loggedIn
    BY <1>1, <1>9 DEF TabInv
<1> QED BY <1>1, <1>9, <1>10, <1>11, LearnInv

-----------------------------------------------------------------------------
\* What is left of the types.
Flags == hint \in BOOLEAN /\ disturbed \in BOOLEAN
Histories == missed \subseteq Cookie /\ closed \subseteq Cookie /\ crossed \subseteq Tabs

LEMMA FlagsNext == Flags /\ [SessionNext]_sessionVars => Flags'
<1> SUFFICES ASSUME Flags, [SessionNext]_sessionVars PROVE Flags'
    OBVIOUS
<1> USE DEF Flags
<1>1. ASSUME NEW t, NEW tb, Leaves(t, tb) PROVE Flags'
    BY <1>1 DEF Leaves
<1>2. ASSUME NEW t,
             \/ ServerLogin(t) \/ ServerReset(t) \/ ServerLogout(t)
             \/ ServerRefuse(t) \/ ServerLock(t) \/ ServerRotate(t)
      PROVE  Flags'
    BY <1>2 DEF ServerLogin, ServerReset, ServerLogout, ServerRefuse, ServerLock, ServerRotate
<1>3. ASSUME NEW t,
             \/ Open(t) \/ FailLogin(t) \/ DeliverRefresh(t)
             \/ FailRefresh(t) \/ DeliverLogout(t) \/ FailLogout(t)
             \/ SafetyTimer(t) \/ ForgetMe(t) \/ Expire(t)
             \/ \E u, k : SendLogin(t, u, k)
      PROVE  Flags'
  <2>1. CASE Open(t) \/ FailLogin(t) \/ DeliverRefresh(t) \/ FailRefresh(t)
      BY <2>1 DEF Open, FailLogin, DeliverRefresh, FailRefresh
  <2>2. CASE DeliverLogout(t) \/ FailLogout(t) \/ SafetyTimer(t) \/ ForgetMe(t) \/ Expire(t)
      BY <2>2 DEF DeliverLogout, FailLogout, SafetyTimer, ForgetMe, Expire
  <2>3. CASE \E u, k : SendLogin(t, u, k)
      BY <2>3 DEF SendLogin
  <2> QED BY <1>3, <2>1, <2>2, <2>3
<1>4. ASSUME NEW t, DeliverRefusal(t) \/ ClickLogout(t) PROVE Flags'
    BY <1>1, <1>4 DEF DeliverRefusal, ClickLogout
<1>5. ASSUME NEW t, NEW i,
             \/ DeliverLogin(t, i) \/ UserCall(t, i) \/ DeliverCall(t, i)
             \/ DeliverUnauthorized(t, i) \/ FailCall(t, i) \/ Wake(t, i) \/ Retry(t, i)
      PROVE  Flags'
  <2>1. CASE DeliverUnauthorized(t, i)
      BY <1>1, <2>1 DEF DeliverUnauthorized, Becomes
  <2>2. CASE DeliverLogin(t, i) \/ UserCall(t, i) \/ DeliverCall(t, i)
      BY <2>2 DEF DeliverLogin, UserCall, DeliverCall
  <2>3. CASE FailCall(t, i) \/ Wake(t, i) \/ Retry(t, i)
      BY <2>3 DEF FailCall, Wake, Retry, Becomes
  <2> QED BY <1>5, <2>1, <2>2, <2>3
<1>6. CASE (\E u : PasswordChanged(u)) \/ (\E r : Lapse(r)) \/ UNCHANGED sessionVars
    BY <1>6 DEF PasswordChanged, Lapse, sessionVars
<1> QED BY <1>2, <1>3, <1>4, <1>5, <1>6 DEF SessionNext

LEMMA HistoriesNext == IInv /\ Histories /\ [SessionNext]_sessionVars => Histories'
<1> SUFFICES ASSUME IInv, Histories, [SessionNext]_sessionVars PROVE Histories'
    OBVIOUS
<1> USE DEF Histories
<1>0. \A r \in live : family[r] \in Cookie
    BY SessionAssumption DEF IInv, WireTypes, Row, Cookie
<1>1. \A R \in SUBSET live : {family[r] : r \in R \cap Locked} \subseteq Cookie
    BY <1>0
<1>2. \A f, u : OfFamily(f) \in SUBSET live /\ OfUser(u) \in SUBSET live
    BY DEF OfFamily, OfUser
<1>3. ASSUME NEW R \in SUBSET live, Revoke(R) PROVE missed' \subseteq Cookie
    BY <1>1, <1>3 DEF Revoke
<1>4. ASSUME NEW t \in Tabs,
             \/ ServerLogin(t) \/ ServerReset(t) \/ ServerLogout(t)
             \/ ServerRefuse(t) \/ ServerLock(t) \/ ServerRotate(t)
      PROVE  Histories'
  <2>1. CASE ServerLogin(t) \/ ServerLock(t) \/ ServerRotate(t)
      BY <2>1 DEF ServerLogin, ServerLock, ServerRotate, serverSide
  <2>2. CASE ServerReset(t)
      BY <1>1, <1>2, <2>2 DEF ServerReset
  <2>3. CASE ServerRefuse(t)
      BY <1>2, <1>3, <2>3 DEF ServerRefuse
  <2>4. CASE ServerLogout(t)
    <3>1. signOut[t].cookie # 0 => family[signOut[t].cookie] \in Cookie
        BY SessionAssumption DEF IInv, WireTypes, SignOutState, Row, Cookie
    <3> QED BY <1>2, <1>3, <2>4, <3>1 DEF ServerLogout
  <2> QED BY <1>4, <2>1, <2>2, <2>3, <2>4
<1>5. CASE (\E u \in sessionScene.users : PasswordChanged(u)) \/ (\E r \in Row : Lapse(r))
    BY <1>2, <1>3, <1>5 DEF PasswordChanged, Lapse
<1>6. \A u : Strangers(u) \subseteq Tabs
    BY DEF Strangers
<1>7. ASSUME NEW t \in Tabs,
             \/ Open(t) \/ FailLogin(t) \/ DeliverRefresh(t) \/ DeliverRefusal(t)
             \/ FailRefresh(t) \/ ClickLogout(t) \/ DeliverLogout(t) \/ FailLogout(t)
             \/ SafetyTimer(t) \/ ForgetMe(t) \/ Expire(t)
             \/ \E u, k : SendLogin(t, u, k)
      PROVE  Histories'
  <2>1. CASE Open(t) \/ FailLogin(t) \/ DeliverRefresh(t) \/ FailRefresh(t)
      BY <1>6, <2>1 DEF Open, FailLogin, DeliverRefresh, FailRefresh, serverSide
  <2>2. CASE \/ DeliverLogout(t) \/ FailLogout(t) \/ SafetyTimer(t) \/ ForgetMe(t)
             \/ Expire(t) \/ DeliverRefusal(t) \/ ClickLogout(t)
      BY <2>2 DEF DeliverLogout, FailLogout, SafetyTimer, ForgetMe, Expire, DeliverRefusal,
                  ClickLogout, serverSide
  <2>3. CASE \E u, k : SendLogin(t, u, k)
      BY <2>3 DEF SendLogin, serverSide
  <2> QED BY <1>7, <2>1, <2>2, <2>3
<1>8. ASSUME NEW t \in Tabs, NEW i,
             \/ DeliverLogin(t, i) \/ UserCall(t, i) \/ DeliverCall(t, i)
             \/ DeliverUnauthorized(t, i) \/ FailCall(t, i) \/ Wake(t, i) \/ Retry(t, i)
      PROVE  Histories'
  <2>1. CASE DeliverLogin(t, i) \/ DeliverCall(t, i) \/ UserCall(t, i)
      BY <1>6, <2>1 DEF DeliverLogin, UserCall, DeliverCall, serverSide
  <2>2. CASE DeliverUnauthorized(t, i) \/ FailCall(t, i) \/ Wake(t, i) \/ Retry(t, i)
      BY <2>2 DEF DeliverUnauthorized, FailCall, Wake, Retry, serverSide
  <2> QED BY <1>8, <2>1, <2>2
<1>9. sessionScene.tabs \subseteq Tabs
    BY SceneTypes DEF IInv, WireTypes
<1>10. CASE UNCHANGED sessionVars
    BY <1>10 DEF sessionVars
<1> QED BY <1>4, <1>5, <1>7, <1>8, <1>9, <1>10 DEF SessionNext

LEMMA TabNext ==
    IInv /\ Flags /\ TabInv /\ [SessionNext]_sessionVars => TabInv'
<1> SUFFICES ASSUME IInv, Flags, TabInv, [SessionNext]_sessionVars PROVE TabInv'
    OBVIOUS
<1>1. sessionScene.tabs \subseteq Tabs /\ sessionScene.users \subseteq Users
    BY SceneTypes DEF IInv, WireTypes
<1>2. CASE UNCHANGED sessionVars
    BY <1>2, SameTabs DEF sessionVars, TabInv
<1>3. ASSUME NEW t \in Tabs,
             \/ ServerLogin(t) \/ ServerReset(t) \/ ServerLogout(t)
             \/ ServerRefuse(t) \/ ServerLock(t) \/ ServerRotate(t)
      PROVE  TabInv'
    BY <1>3, TabServer
<1>4. ASSUME NEW t \in Tabs,
             \/ FailLogin(t) \/ DeliverRefusal(t) \/ FailRefresh(t) \/ ClickLogout(t)
             \/ DeliverLogout(t) \/ FailLogout(t)
             \/ SafetyTimer(t) \/ ForgetMe(t) \/ Expire(t)
             \/ \E u \in Users, k \in SignInKinds : SendLogin(t, u, k)
             \/ \E i \in Calls :
                  \/ UserCall(t, i) \/ DeliverUnauthorized(t, i)
                  \/ FailCall(t, i) \/ Wake(t, i) \/ Retry(t, i)
      PROVE  TabInv'
    BY <1>4, TabMeek
<1>5. ASSUME NEW t \in Tabs,
             \/ Open(t) \/ DeliverRefresh(t)
             \/ \E i \in Calls : DeliverLogin(t, i) \/ DeliverCall(t, i)
      PROVE  TabInv'
    BY <1>5, OpenInv, RefreshLearns, LoginLearns, CallLearns DEF Flags
<1>6. CASE \E u \in sessionScene.users : PasswordChanged(u)
    BY <1>6, TabPassword
<1>7. CASE \E r \in Row : Lapse(r)
    BY <1>7, SameTabs DEF Lapse, TabInv
<1> QED BY <1>1, <1>2, <1>3, <1>4, <1>5, <1>6, <1>7 DEF SessionNext

LEMMA FlagsInvariant == SessionSpec => []Flags
<1>1. SessionInit => Flags
    BY DEF SessionInit, Flags
<1> QED BY <1>1, FlagsNext, PTL DEF SessionSpec

LEMMA TabInvariant == SessionSpec => []TabInv
BY FlagsInvariant, TabInit, TabNext, SessionInvariant, PTL DEF SessionSpec

\* A tab whose session no answer of another sign-in reached, and under which
\* the shared cookie did not change hands, shows the profile of the account its
\* token stands for: over logouts, logins, late checks and the cached profile.
THEOREM ProfileIsTokenUserHolds == SessionSpec => []ProfileIsTokenUser
<1>1. TabInv => ProfileIsTokenUser
  <2> SUFFICES ASSUME TabInv, NEW t \in Tabs \ crossed, tab[t].app.loggedIn,
                      tab[t].app.profile # NoUser, tab[t].access.user # NoUser
               PROVE  tab[t].app.profile = tab[t].access.user
      BY DEF ProfileIsTokenUser
  <2> QED BY DEF TabInv, Fits, OfOne
<1> QED BY <1>1, TabInvariant, PTL

\* The variables of the session keep their types; a retry counter stays below
\* the limit, and only rows that were issued are live.
THEOREM SessionTypes == SessionSpec => []SessionTypeOK
<1>1. SessionInit => Histories
    BY DEF SessionInit, Histories
<1>2. SessionSpec => []Histories
    BY <1>1, HistoriesNext, SessionInvariant, PTL DEF SessionSpec
<1>3. IInv /\ TabInv /\ Flags /\ Histories => SessionTypeOK
    BY DEF IInv, WireTypes, TabInv, Flags, Histories, SessionTypeOK, Cookie
<1> QED BY <1>2, <1>3, SessionInvariant, TabInvariant, FlagsInvariant, PTL

=============================================================================
