---------------------- MODULE ShellAndDesigner_proofs ----------------------
(***************************************************************************)
(* What a user at his desk relies on, for any profiles, lines, requests    *)
(* under way and drawings: a navigation he asked for is delivered to the   *)
(* screen it is for, a drawing that is not called unsaved is one the       *)
(* server has, and one that is unsaved does not go without his doing.      *)
(***************************************************************************)
EXTENDS AppShell, WorkflowDesigner, TLAPS

-----------------------------------------------------------------------------
(* The strengthenings, of the shell.                                       *)

\* Nobody is known before somebody signed in, nor while the shell waits for /me.
ProfileKnown ==
    /\ signedIn => login >= 1
    /\ ~signedIn => profile = Nobody
    /\ checking => signedIn
    /\ sessionLoading => profile = Nobody

\* A navigation waits only behind one that is under way.
WaitsBehind == nav = NoNav => queue = <<>>

\* Unless the tab moved under it, a navigation under way is for the tab chosen,
\* which the user may see, and what waits behind it is for tabs he may see.
NavigationAllowed ==
    ~upset =>
        /\ nav # NoNav => /\ signedIn /\ nav.login = login
                          /\ nav.tab = activeTab
                          /\ nav.tab \in AllowedTabs(profile, workspace)
        /\ \A i \in DOMAIN queue : /\ queue[i].login = login
                                   /\ queue[i].tab \in AllowedTabs(profile, workspace)

ShellInv == ShellTypeOK /\ ProfileKnown /\ WaitsBehind /\ NavigationAllowed

-----------------------------------------------------------------------------
(* What may be seen, and what a wish becomes.                              *)

LEMMA TabsListed ==
    /\ \A w : Range(TabsOf(w)) =
          IF w = "employee" THEN {"employee-dashboard", "tasks"}
          ELSE {"dashboard", "tasks", "contracts", "timeline", "approvals", "cashflow"}
    /\ AllTabs = {"employee-dashboard", "tasks", "dashboard", "contracts", "timeline",
                  "approvals", "cashflow"}
<1>1. Range(TabsOf("employee")) = {"employee-dashboard", "tasks"}
  BY DEF Range, TabsOf
<1>2. ASSUME NEW w, w # "employee"
      PROVE  Range(TabsOf(w)) = {"dashboard", "tasks", "contracts", "timeline", "approvals",
                                 "cashflow"}
  <2> DEFINE row == <<"dashboard", "tasks", "contracts", "timeline", "approvals", "cashflow">>
  <2>1. TabsOf(w) = row
    BY <1>2 DEF TabsOf
  <2>2. DOMAIN row = {1, 2, 3, 4, 5, 6}
    OBVIOUS
  <2>3. row[1] = "dashboard" /\ row[2] = "tasks" /\ row[3] = "contracts"
        /\ row[4] = "timeline" /\ row[5] = "approvals" /\ row[6] = "cashflow"
    OBVIOUS
  <2> QED BY <2>1, <2>2, <2>3 DEF Range
<1> QED BY <1>1, <1>2 DEF AllTabs

LEMMA TargetsAreTabs == Targets \subseteq AllTabs
BY TabsListed DEF Targets

LEMMA HomeIsTab ==
  ASSUME NEW p \in Profiles
  PROVE  Home(p) \in AllTabs /\ Space(p) \in Workspaces
BY TabsListed, ShellAssumption DEF Home, Space, Workspaces

\* The tab of a notification is one the user may see, in the workspace it takes him to.
LEMMA TargetAllowed ==
  ASSUME NEW w \in Wishes, w.kind = "notification", w.profile \in Profiles,
         CanAccess(w.profile, w.workspace, Target(w))
  PROVE  Target(w) \in
           AllowedTabs(w.profile, IF w.to # "step" /\ w.workspace = "employee"
                                  THEN "management" ELSE w.workspace)
<1> DEFINE ws == IF w.to # "step" /\ w.workspace = "employee"
                 THEN "management" ELSE w.workspace
<1>1. w.to \in {"voucher", "rollback", "step"} /\ w.workspace \in {"management", "employee"}
  BY DEF Wishes, Workspaces
<1>2. ASSUME NEW t, t \in Range(TabsOf(ws)), Allowed(w.profile, t)
      PROVE  t \in AllowedTabs(w.profile, ws)
  BY <1>2 DEF AllowedTabs
<1>g. SUFFICES Target(w) \in AllowedTabs(w.profile, ws)
  OBVIOUS
<1>3. CASE w.to = "voucher"
  <2>1. Target(w) = "cashflow" /\ ws = "management"
    BY <1>1, <1>3 DEF Target
  <2>2. Allowed(w.profile, "cashflow")
    BY <2>1, <1>1 DEF CanAccess, Allowed
  <2>3. Target(w) \in Range(TabsOf(ws))
    BY <2>1, TabsListed
  <2> HIDE DEF ws
  <2> QED BY <2>1, <2>2, <2>3, <1>2
<1>4. CASE w.to = "rollback"
  <2>1. Target(w) = "approvals" /\ ws = "management"
    BY <1>1, <1>4 DEF Target
  <2>2. Allowed(w.profile, "approvals")
    BY <2>1 DEF CanAccess, Allowed
  <2>3. Target(w) \in Range(TabsOf(ws))
    BY <2>1, TabsListed
  <2> HIDE DEF ws
  <2> QED BY <2>1, <2>2, <2>3, <1>2
<1>5. CASE w.to = "step"
  <2>1. ws = w.workspace
    BY <1>5
  <2>2. CASE w.workspace = "employee"
    <3>1. Target(w) = "employee-dashboard" /\ Allowed(w.profile, "employee-dashboard")
      BY <1>5, <2>2 DEF Target, Allowed
    <3>2. Target(w) \in Range(TabsOf(ws))
      BY <3>1, <2>1, <2>2, TabsListed
    <3> HIDE DEF ws
    <3> QED BY <3>1, <3>2, <1>2
  <2>3. CASE w.workspace = "management"
    <3>1. Target(w) = "contracts"
      BY <1>5, <2>3 DEF Target
    <3>2. Allowed(w.profile, "contracts")
      BY <3>1, <2>3 DEF CanAccess, Allowed
    <3>3. Target(w) \in Range(TabsOf(ws))
      BY <3>1, <2>1, <2>3, TabsListed
    <3> HIDE DEF ws
    <3> QED BY <3>1, <3>2, <3>3, <1>2
  <2> QED BY <1>1, <2>2, <2>3
<1> QED BY <1>1, <1>3, <1>4, <1>5

LEMMA TargetIsOne ==
  ASSUME NEW w \in Wishes, w.kind = "notification"
  PROVE  Target(w) \in Targets
BY DEF Wishes, Target, Targets, Workspaces

LEMMA NoNavApart == NoNav \notin Navigations
BY ShellAssumption DEF NoNav, Navigations

LEMMA NothingWaits == <<>> \in Seq(Navigations)
OBVIOUS

LEMMA WishFields ==
  ASSUME NEW w \in Wishes
  PROVE  /\ w.kind \in {"tab", "notification"}
         /\ w.kind = "tab" => w.to \in AllTabs
         /\ w.kind = "notification" => w.to \in {"voucher", "rollback", "step"}
         /\ w.profile \in Profiles /\ w.workspace \in Workspaces /\ w.login \in 1..Logins
BY DEF Wishes

-----------------------------------------------------------------------------
(* A wish that is fulfilled, now or once a save is done.                   *)

LEMMA QueueTabTypes ==
  ASSUME ShellTypeOK, NEW w, w.login \in 1..Logins, NEW t \in Targets, QueueTab(t, w)
  PROVE  /\ sequence' \in 0..Asked /\ activeTab' \in AllTabs
         /\ nav' \in Navigations \cup {NoNav} /\ queue' \in Seq(Navigations)
<1>1. CASE ~(signedIn /\ CanAccess(w.profile, w.workspace, t) /\ sequence < Asked)
  BY <1>1 DEF QueueTab, ShellTypeOK
<1>2. CASE signedIn /\ CanAccess(w.profile, w.workspace, t) /\ sequence < Asked
  <2>1. sequence' = sequence + 1 /\ sequence + 1 \in 1..Asked
    BY <1>2, ShellAssumption DEF QueueTab, ShellTypeOK
  <2>2. Navigation(t, w) \in Navigations
    BY <2>1 DEF Navigation, Navigations
  <2>3. \/ queue' = Append(queue, Navigation(t, w)) /\ nav' = nav /\ activeTab' = activeTab
        \/ nav' = Navigation(t, w) /\ activeTab' = t /\ queue' = queue
    BY <1>2 DEF QueueTab
  <2> QED BY <2>1, <2>2, <2>3, TargetsAreTabs DEF ShellTypeOK
<1> QED BY <1>1, <1>2

LEMMA FulfilTypes ==
  ASSUME ShellTypeOK, ProfileKnown, NEW w \in Wishes, Fulfil(w)
  PROVE  /\ login' \in 0..Logins /\ signedIn' \in BOOLEAN
         /\ profile' \in Profiles \cup {Nobody} /\ workspace' \in Workspaces
         /\ sessionLoading' \in BOOLEAN /\ checking' \in BOOLEAN
         /\ activeTab' \in AllTabs
         /\ nav' \in Navigations \cup {NoNav} /\ queue' \in Seq(Navigations)
         /\ sequence' \in 0..Asked /\ upset' \in BOOLEAN
         /\ ProfileKnown'
<1>1. UNCHANGED <<login, signedIn, profile, sessionLoading, checking>>
  BY DEF Fulfil
<1>2. upset' \in BOOLEAN
  BY Zenon DEF Fulfil, ShellTypeOK
<1>3. ProfileKnown'
  BY <1>1 DEF ProfileKnown
<1>4. CASE w.kind = "tab"
  BY <1>1, <1>2, <1>3, <1>4, WishFields DEF Fulfil, QueueCleared, ShellTypeOK
<1>5. CASE w.kind = "notification"
  <2>1. QueueTab(Target(w), w)
    BY <1>5 DEF Fulfil
  <2>2. workspace' \in Workspaces
    BY <1>5 DEF Fulfil, ShellTypeOK, Workspaces
  <2>3. Target(w) \in Targets /\ w.login \in 1..Logins
    BY <1>5, TargetIsOne, WishFields
  <2> QED BY <1>1, <1>2, <1>3, <2>1, <2>2, <2>3, QueueTabTypes DEF ShellTypeOK
<1> QED BY <1>4, <1>5, WishFields

\* What is asked for joins what waits, and is for a tab that may be seen like the rest.
LEMMA QueueTabKeeps ==
  ASSUME ShellInv, NEW w, w.login = login, NEW t \in Targets, QueueTab(t, w),
         NEW ws, CanAccess(w.profile, w.workspace, t) => t \in AllowedTabs(profile, ws),
         ~upset,
         nav = NoNav \/ ws = workspace
  PROVE  /\ nav' = NoNav => queue' = <<>>
         /\ nav' # NoNav => /\ signedIn /\ nav'.login = login
                            /\ nav'.tab = activeTab'
                            /\ nav'.tab \in AllowedTabs(profile, ws)
         /\ \A i \in DOMAIN queue' : /\ queue'[i].login = login
                                     /\ queue'[i].tab \in AllowedTabs(profile, ws)
<1> USE DEF ShellInv
<1>1. nav = NoNav => queue = <<>>
  BY DEF WaitsBehind
<1>2. CASE ~(signedIn /\ CanAccess(w.profile, w.workspace, t) /\ sequence < Asked)
  <2>1. nav' = nav /\ queue' = queue /\ activeTab' = activeTab
    BY <1>2 DEF QueueTab
  <2>2. CASE nav = NoNav
    BY <2>1, <2>2, <1>1
  <2>3. CASE nav # NoNav
    BY <2>1, <2>3 DEF NavigationAllowed
  <2> QED BY <2>2, <2>3
<1>3. CASE signedIn /\ CanAccess(w.profile, w.workspace, t) /\ sequence < Asked
  <2> DEFINE n == Navigation(t, w)
  <2>1. n.login = login /\ n.tab = t /\ n # NoNav
    <3>1. n.id = sequence + 1 /\ NoNav.id = 0
      BY DEF Navigation, NoNav
    <3> QED BY <3>1 DEF Navigation, ShellTypeOK
  <2>2. t \in AllowedTabs(profile, ws)
    BY <1>3
  <2>3. CASE nav = NoNav
    <3>1. nav' = n /\ activeTab' = t /\ queue' = <<>>
      BY <2>3, <1>1, <1>3 DEF QueueTab
    <3> HIDE DEF n
    <3> QED BY <3>1, <2>1, <2>2, <1>3
  <2>4. CASE nav # NoNav
    <3>1. nav' = nav /\ activeTab' = activeTab /\ queue' = Append(queue, n)
      BY <2>4, <1>3 DEF QueueTab
    <3>2. ws = workspace /\ queue \in Seq(Navigations)
      BY <2>4 DEF ShellTypeOK
    <3> HIDE DEF n
    <3>3. ASSUME NEW i \in DOMAIN queue'
          PROVE  queue'[i] = n \/ (i \in DOMAIN queue /\ queue'[i] = queue[i])
      BY <3>1, <3>2, <3>3
    <3> QED BY <3>1, <3>2, <3>3, <2>1, <2>2, <2>4, <1>3 DEF NavigationAllowed
  <2> QED BY <2>3, <2>4
<1> QED BY <1>2, <1>3

LEMMA FulfilKeeps ==
  ASSUME ShellInv, NEW w \in Wishes, Fulfil(w)
  PROVE  WaitsBehind' /\ NavigationAllowed'
<1>1. CASE w.kind = "tab"
  BY <1>1 DEF Fulfil, QueueCleared, WaitsBehind, NavigationAllowed
<1>2. CASE w.kind = "notification"
  <2>1. QueueTab(Target(w), w) /\ UNCHANGED <<login, signedIn, profile>>
    BY <1>2 DEF Fulfil
  <2>2. Target(w) \in Targets
    BY <1>2, TargetIsOne
  <2>3. WaitsBehind'
    BY <2>1, NoNavApart DEF QueueTab, WaitsBehind, ShellInv, ShellTypeOK, Navigation, NoNav
  <2>4. ASSUME ~upset'
        PROVE  NavigationAllowed'
    <3>1. ~upset /\ ~Old(w) /\ (nav = NoNav \/ workspace' = workspace)
      BY <2>4 DEF Fulfil
    <3>2. w.login = login /\ w.profile = profile /\ w.workspace = workspace
      BY <3>1 DEF Old
    <3>3. workspace' = IF w.to # "step" /\ w.workspace = "employee"
                       THEN "management" ELSE w.workspace
      BY <1>2, <3>2 DEF Fulfil
    <3>4. CanAccess(w.profile, w.workspace, Target(w))
            => Target(w) \in AllowedTabs(profile, workspace')
      BY <1>2, <3>2, <3>3, TargetAllowed, WishFields
    <3> QED BY <2>1, <2>2, <3>1, <3>2, <3>4, QueueTabKeeps DEF NavigationAllowed
  <2>5. NavigationAllowed'
    BY <2>4 DEF NavigationAllowed
  <2> QED BY <2>3, <2>5
<1> QED BY <1>1, <1>2, WishFields

-----------------------------------------------------------------------------
(* The steps of the shell.                                                 *)

LEMMA SavesLeftTyped ==
  ASSUME ShellTypeOK
  PROVE  SavesLeft \subseteq [wish : Wishes, here : BOOLEAN, waits : BOOLEAN]
BY DEF ShellTypeOK, SavesLeft

LEMMA LeavesTyped ==
  ASSUME ShellTypeOK, NEW p, NEW w, NEW t, LeavesContracts(p, w, t)
  PROVE  /\ unsaved' \in BOOLEAN /\ prompt' \in Wishes \cup {NoPrompt}
         /\ saving' \subseteq [wish : Wishes, here : BOOLEAN, waits : BOOLEAN]
BY SavesLeftTyped DEF LeavesContracts, ShellTypeOK

LEMMA WishTyped ==
  ASSUME ShellTypeOK, ProfileKnown, Shell, NEW kind, NEW to,
         \/ kind = "tab" /\ to \in AllTabs
         \/ kind = "notification" /\ to \in {"voucher", "rollback", "step"}
  PROVE  Wish(kind, to) \in Wishes
<1>1. login \in 1..Logins /\ profile \in Profiles /\ workspace \in Workspaces
  BY ShellAssumption DEF ShellTypeOK, ProfileKnown, Shell
<1> QED BY <1>1 DEF Wish, Wishes

LEMMA ShellStarts == ShellInit => ShellInv
<1> SUFFICES ASSUME ShellInit PROVE ShellInv
  OBVIOUS
<1>1. ShellTypeOK
  <2>1. activeTab \in AllTabs
    BY TabsListed DEF ShellInit
  <2>2. login \in 0..Logins
    BY ShellAssumption DEF ShellInit
  <2>3. saving \subseteq [wish : Wishes, here : BOOLEAN, waits : BOOLEAN]
    BY DEF ShellInit
  <2>4. signedIn \in BOOLEAN /\ sessionLoading \in BOOLEAN /\ checking \in BOOLEAN
    BY Zenon DEF ShellInit
  <2>5. nav \in Navigations \cup {NoNav} /\ queue \in Seq(Navigations)
    BY NothingWaits DEF ShellInit
  <2>6. profile \in Profiles \cup {Nobody} /\ workspace \in Workspaces
        /\ sequence \in 0..Asked
    BY ShellAssumption DEF ShellInit, Workspaces
  <2>7. unsaved \in BOOLEAN /\ upset \in BOOLEAN /\ prompt \in Wishes \cup {NoPrompt}
    BY DEF ShellInit
  <2> QED BY <2>1, <2>2, <2>3, <2>4, <2>5, <2>6, <2>7 DEF ShellTypeOK
<1>2. ProfileKnown
  BY DEF ShellInit, ProfileKnown
<1>3. WaitsBehind /\ NavigationAllowed
  BY DEF ShellInit, WaitsBehind, NavigationAllowed
<1> QED BY <1>1, <1>2, <1>3 DEF ShellInv

LEMMA AsksKeeps ==
  ASSUME ShellInv, NEW w \in Wishes, Asks(w)
  PROVE  ShellInv'
<1>1. CASE unsaved /\ ShownTab = "contracts"
  <2>1. prompt' = w
        /\ UNCHANGED <<login, signedIn, profile, workspace, sessionLoading, checking>>
        /\ UNCHANGED <<activeTab, nav, queue, sequence, unsaved, saving, upset>>
    BY <1>1 DEF Asks, session
  <2>2. ShellTypeOK'
    BY <2>1 DEF ShellInv, ShellTypeOK
  <2>3. ProfileKnown' /\ WaitsBehind' /\ NavigationAllowed'
    BY <2>1 DEF ShellInv, ProfileKnown, WaitsBehind, NavigationAllowed, AllowedTabs
  <2> QED BY <2>2, <2>3 DEF ShellInv
<1>2. CASE ~(unsaved /\ ShownTab = "contracts")
  <2>1. Fulfil(w) /\ UNCHANGED <<unsaved, prompt, saving>>
    BY <1>2 DEF Asks
  <2>2. ShellTypeOK' /\ ProfileKnown'
    BY <2>1, FulfilTypes DEF ShellInv, ShellTypeOK
  <2>3. WaitsBehind' /\ NavigationAllowed'
    BY <2>1, FulfilKeeps
  <2> QED BY <2>2, <2>3 DEF ShellInv
<1> QED BY <1>1, <1>2

\* A step that leaves the navigations, the tab and who is at work alone.
LEMMA DeskKept ==
  ASSUME ShellInv,
         UNCHANGED <<login, signedIn, profile, workspace, activeTab, nav, queue, upset>>
  PROVE  WaitsBehind' /\ NavigationAllowed'
BY DEF ShellInv, WaitsBehind, NavigationAllowed, AllowedTabs

LEMMA ShellSteps == ShellInv /\ [ShellNext]_shellVars => ShellInv'
<1> SUFFICES ASSUME ShellInv, [ShellNext]_shellVars PROVE ShellInv'
  OBVIOUS
<1> USE DEF ShellInv
<1>1. ASSUME NEW p \in Profiles, LogIn(p) PROVE ShellInv'
  <2>1. nav' = NoNav /\ queue' = <<>>
    BY <1>1 DEF LogIn, QueueCleared
  <2>2. ~signedIn /\ profile = Nobody /\ login' = login + 1 /\ login' \in 1..Logins
        /\ signedIn' = TRUE /\ checking' = TRUE
    BY <1>1, ShellAssumption DEF LogIn, ProfileKnown, ShellTypeOK
  <2>3. /\ profile' \in Profiles \cup {Nobody} /\ workspace' \in Workspaces
        /\ activeTab' \in AllTabs /\ sessionLoading' \in BOOLEAN
        /\ sessionLoading' => profile' = Nobody
    BY <1>1, <2>2, HomeIsTab DEF LogIn, ShellTypeOK
  <2>4. ShellTypeOK'
    <3>1. nav' \in Navigations \cup {NoNav} /\ queue' \in Seq(Navigations)
      BY <2>1, NothingWaits
    <3>2. upset' = FALSE /\ UNCHANGED <<sequence, unsaved, prompt, saving>>
      BY <1>1 DEF LogIn
    <3>3. login' \in 0..Logins
      BY <2>2
    <3> QED BY <2>2, <2>3, <3>1, <3>2, <3>3 DEF ShellTypeOK
  <2>5. ProfileKnown'
    BY <2>2, <2>3 DEF ProfileKnown
  <2>6. WaitsBehind' /\ NavigationAllowed'
    BY <2>1 DEF WaitsBehind, NavigationAllowed
  <2> QED BY <2>4, <2>5, <2>6
<1>2. ASSUME NEW p \in Profiles, Validated(p) PROVE ShellInv'
  <2>1. /\ checking' = FALSE /\ sessionLoading' = FALSE /\ profile' = p
        /\ workspace' = Space(p) /\ activeTab' = Home(p)
        /\ UNCHANGED <<login, signedIn, nav, queue, sequence>>
        /\ signedIn
    BY <1>2 DEF Validated, ProfileKnown
  <2>2. unsaved' \in BOOLEAN /\ prompt' \in Wishes \cup {NoPrompt}
        /\ saving' \subseteq [wish : Wishes, here : BOOLEAN, waits : BOOLEAN]
    BY <1>2, LeavesTyped DEF Validated
  <2>3. upset' \in BOOLEAN /\ (~upset' => nav = NoNav)
    BY <1>2, Zenon DEF Validated, ShellTypeOK
  <2>4. ShellTypeOK'
    BY <2>1, <2>2, <2>3, HomeIsTab DEF ShellTypeOK
  <2>5. ProfileKnown'
    BY <2>1 DEF ProfileKnown
  <2>6. WaitsBehind' /\ NavigationAllowed'
    BY <2>1, <2>3 DEF WaitsBehind, NavigationAllowed
  <2> QED BY <2>4, <2>5, <2>6
<1>3. CASE TimerFires
  <2>1. ShellTypeOK' /\ ProfileKnown'
    BY <1>3 DEF TimerFires, desk, ShellTypeOK, ProfileKnown
  <2> QED BY <1>3, <2>1, DeskKept DEF TimerFires, desk
<1>4. CASE ValidationFails
  <2>1. ShellTypeOK' /\ ProfileKnown'
    BY <1>4 DEF ValidationFails, desk, ShellTypeOK, ProfileKnown
  <2> QED BY <1>4, <2>1, DeskKept DEF ValidationFails, desk
<1>5. CASE RetrySession
  <2>1. ShellTypeOK' /\ ProfileKnown'
    BY <1>5 DEF RetrySession, desk, ShellTypeOK, ProfileKnown
  <2> QED BY <1>5, <2>1, DeskKept DEF RetrySession, desk
<1>6. CASE LogOut
  <2>1. ShellTypeOK'
    BY <1>6, SavesLeftTyped, NothingWaits
       DEF LogOut, QueueCleared, ShellTypeOK, Workspaces
  <2>2. ProfileKnown'
    BY <1>6 DEF LogOut, ProfileKnown
  <2>3. WaitsBehind' /\ NavigationAllowed'
    BY <1>6 DEF LogOut, QueueCleared, WaitsBehind, NavigationAllowed
  <2> QED BY <2>1, <2>2, <2>3
<1>7. ASSUME NEW t \in AllTabs, ChangeTab(t) PROVE ShellInv'
  <2>1. CASE t = ShownTab
    <3>1. activeTab' = t
          /\ UNCHANGED <<login, signedIn, profile, workspace, sessionLoading, checking>>
          /\ UNCHANGED <<nav, queue, sequence, unsaved, prompt, saving, upset>>
      BY <1>7, <2>1 DEF ChangeTab, session
    <3>2. ShellTypeOK' /\ ProfileKnown'
      BY <3>1 DEF ShellTypeOK, ProfileKnown
    <3>3. WaitsBehind'
      BY <3>1 DEF WaitsBehind
    <3>4. ASSUME ~upset', nav' # NoNav PROVE activeTab' = activeTab
      <4>1. activeTab \in AllowedTabs(profile, workspace)
        BY <3>1, <3>4 DEF NavigationAllowed
      <4> QED BY <4>1, <2>1, <3>1 DEF ShownTab, Effective
    <3>5. AllowedTabs(profile', workspace') = AllowedTabs(profile, workspace)
      BY <3>1 DEF AllowedTabs
    <3>6. NavigationAllowed'
      BY <3>1, <3>4, <3>5 DEF NavigationAllowed
    <3> QED BY <3>2, <3>3, <3>6
  <2>2. CASE t # ShownTab
    <3>1. Wish("tab", t) \in Wishes
      BY <1>7, WishTyped DEF ChangeTab
    <3> QED BY <1>7, <2>2, <3>1, AsksKeeps DEF ChangeTab
  <2> QED BY <2>1, <2>2
<1>8. ASSUME NEW n \in {"voucher", "rollback", "step"}, Notified(n) PROVE ShellInv'
  <2>1. Wish("notification", n) \in Wishes
    BY <1>8, WishTyped DEF Notified
  <2> QED BY <1>8, <2>1, AsksKeeps DEF Notified
<1>9. CASE OpenTimelineNode
  <2> DEFINE w == Wish("notification", "step")
  <2>1. /\ Shell /\ QueueTab("contracts", w)
        /\ UNCHANGED <<login, signedIn, profile, workspace, sessionLoading, checking>>
        /\ UNCHANGED <<unsaved, prompt, saving, upset>>
    BY <1>9 DEF OpenTimelineNode, session
  <2>2. w \in Wishes /\ "contracts" \in Targets
    BY <2>1, WishTyped DEF Targets
  <2>3. w.profile = profile /\ w.workspace = workspace /\ w.login = login
        /\ w.login \in 1..Logins
    BY <2>2, WishFields DEF Wish
  <2>4. ShellTypeOK' /\ ProfileKnown'
    <3> HIDE DEF w
    <3> QED BY <2>1, <2>2, <2>3, QueueTabTypes DEF ShellTypeOK, ProfileKnown
  <2>5. CanAccess(w.profile, w.workspace, "contracts")
          => "contracts" \in AllowedTabs(profile, workspace)
    BY <2>3, TabsListed DEF CanAccess, AllowedTabs, Allowed
  <2>6. WaitsBehind'
    BY <2>1, NoNavApart DEF QueueTab, WaitsBehind, ShellTypeOK, Navigation, NoNav
  <2>7. NavigationAllowed'
    <3>1. AllowedTabs(profile', workspace') = AllowedTabs(profile, workspace)
      BY <2>1 DEF AllowedTabs
    <3>2. ASSUME ~upset
          PROVE  /\ nav' # NoNav => /\ signedIn /\ nav'.login = login
                                    /\ nav'.tab = activeTab'
                                    /\ nav'.tab \in AllowedTabs(profile, workspace)
                 /\ \A i \in DOMAIN queue' :
                      /\ queue'[i].login = login
                      /\ queue'[i].tab \in AllowedTabs(profile, workspace)
      <4> HIDE DEF w
      <4> QED BY <2>1, <2>2, <2>3, <2>5, <3>2, QueueTabKeeps
    <3> QED BY <2>1, <3>1, <3>2 DEF NavigationAllowed
  <2> QED BY <2>4, <2>6, <2>7
<1>10. CASE EditContract
  <2>1. ShellTypeOK' /\ ProfileKnown'
    BY <1>10 DEF EditContract, session, ShellTypeOK, ProfileKnown
  <2> QED BY <1>10, <2>1, DeskKept DEF EditContract, session
<1>11. CASE StayHere
  <2>1. saving' \subseteq [wish : Wishes, here : BOOLEAN, waits : BOOLEAN]
    BY <1>11 DEF StayHere, ShellTypeOK
  <2>2. ShellTypeOK' /\ ProfileKnown'
    BY <1>11, <2>1 DEF StayHere, session, ShellTypeOK, ProfileKnown
  <2> QED BY <1>11, <2>2, DeskKept DEF StayHere, session
<1>12. CASE DiscardAndGo
  <2>1. prompt \in Wishes
    BY <1>12 DEF DiscardAndGo, PromptOpen, ShellTypeOK
  <2>2. Fulfil(prompt) /\ prompt' = NoPrompt /\ unsaved' = FALSE /\ saving' = saving
    BY <1>12 DEF DiscardAndGo
  <2>3. ShellTypeOK' /\ ProfileKnown'
    BY <2>1, <2>2, FulfilTypes DEF ShellTypeOK
  <2> QED BY <2>1, <2>2, <2>3, FulfilKeeps
<1>13. CASE SaveAndGo
  <2>1. prompt \in Wishes
    BY <1>13 DEF SaveAndGo, PromptOpen, ShellTypeOK
  <2>2. [wish |-> prompt, here |-> TRUE, waits |-> TRUE]
          \in [wish : Wishes, here : BOOLEAN, waits : BOOLEAN]
    BY <2>1
  <2>3. ShellTypeOK' /\ ProfileKnown'
    BY <1>13, <2>2 DEF SaveAndGo, session, ShellTypeOK, ProfileKnown
  <2> QED BY <1>13, <2>3, DeskKept DEF SaveAndGo, session
<1>14. CASE DeliverNavigation
  <2>1. /\ nav # NoNav
        /\ nav' = IF queue = <<>> THEN NoNav ELSE Head(queue)
        /\ queue' = IF queue = <<>> THEN <<>> ELSE Tail(queue)
        /\ activeTab' = IF nav' # NoNav THEN nav'.tab ELSE activeTab
        /\ UNCHANGED <<login, signedIn, profile, workspace, sessionLoading, checking>>
        /\ UNCHANGED <<sequence, upset>>
    BY <1>14 DEF DeliverNavigation, Show, session
  <2>2. unsaved' \in BOOLEAN /\ prompt' \in Wishes \cup {NoPrompt}
        /\ saving' \subseteq [wish : Wishes, here : BOOLEAN, waits : BOOLEAN]
    BY <1>14, LeavesTyped DEF DeliverNavigation
  <2>3. AllowedTabs(profile', workspace') = AllowedTabs(profile, workspace)
    BY <2>1 DEF AllowedTabs
  <2>4. CASE queue = <<>>
    <3>1. nav' = NoNav /\ queue' = <<>> /\ activeTab' = activeTab
      BY <2>1, <2>4
    <3>2. ShellTypeOK' /\ ProfileKnown'
      BY <2>1, <2>2, <3>1 DEF ShellTypeOK, ProfileKnown
    <3> QED BY <3>1, <3>2 DEF WaitsBehind, NavigationAllowed
  <2>5. CASE queue # <<>>
    <3>1. queue \in Seq(Navigations) /\ 1 \in DOMAIN queue /\ Len(queue) >= 1
      BY <2>5 DEF ShellTypeOK
    <3>2. nav' = queue[1] /\ queue' = Tail(queue) /\ nav' \in Navigations
      BY <2>1, <2>5, <3>1
    <3>3. nav' # NoNav /\ activeTab' = nav'.tab /\ nav'.tab \in AllTabs
      BY <2>1, <3>2, NoNavApart, TargetsAreTabs DEF Navigations
    <3>4. queue' \in Seq(Navigations)
          /\ \A i \in DOMAIN queue' : i + 1 \in DOMAIN queue /\ queue'[i] = queue[i + 1]
      BY <2>5, <3>1, <3>2
    <3>5. ShellTypeOK' /\ ProfileKnown'
      BY <2>1, <2>2, <3>2, <3>3, <3>4 DEF ShellTypeOK, ProfileKnown
    <3>6. WaitsBehind'
      BY <3>3 DEF WaitsBehind
    <3>7. NavigationAllowed'
      BY <2>1, <2>3, <3>1, <3>2, <3>3, <3>4 DEF NavigationAllowed
    <3> QED BY <3>5, <3>6, <3>7
  <2> QED BY <2>4, <2>5
<1>15. ASSUME NEW a \in saving, SaveDone(a) PROVE ShellInv'
  <2>1. a.wish \in Wishes /\ saving' \subseteq saving
    BY <1>15 DEF SaveDone, ShellTypeOK
  <2>2. prompt' \in Wishes \cup {NoPrompt}
    BY <1>15 DEF SaveDone, ShellTypeOK
  <2>3. unsaved' \in BOOLEAN
    BY <1>15, Zenon DEF SaveDone, ShellTypeOK
  <2>4. saving' \subseteq [wish : Wishes, here : BOOLEAN, waits : BOOLEAN]
    BY <2>1 DEF ShellTypeOK
  <2>5. CASE a.waits
    <3>1. Fulfil(a.wish)
      BY <1>15, <2>5 DEF SaveDone
    <3>2. ShellTypeOK' /\ ProfileKnown'
      BY <2>1, <2>2, <2>3, <2>4, <3>1, FulfilTypes DEF ShellTypeOK
    <3> QED BY <2>1, <3>1, <3>2, FulfilKeeps
  <2>6. CASE ~a.waits
    <3>1. UNCHANGED <<login, signedIn, profile, workspace, sessionLoading, checking>>
          /\ UNCHANGED <<activeTab, nav, queue, sequence, upset>>
      BY <1>15, <2>6 DEF SaveDone, session
    <3>2. ShellTypeOK' /\ ProfileKnown'
      BY <2>2, <2>3, <2>4, <3>1 DEF ShellTypeOK, ProfileKnown
    <3> QED BY <3>1, <3>2, DeskKept
  <2> QED BY <2>5, <2>6
<1>16. ASSUME NEW a \in saving, SaveFails(a) PROVE ShellInv'
  <2>1. ShellTypeOK' /\ ProfileKnown'
    BY <1>16 DEF SaveFails, session, ShellTypeOK, ProfileKnown
  <2> QED BY <1>16, <2>1, DeskKept DEF SaveFails, session
<1>17. CASE UNCHANGED shellVars
  <2>1. ShellTypeOK' /\ ProfileKnown'
    BY <1>17 DEF shellVars, session, desk, ShellTypeOK, ProfileKnown
  <2> QED BY <1>17, <2>1, DeskKept DEF shellVars, session, desk
<1>18. CASE NavigateFromFeature
  <2>1. /\ activeTab' = "cashflow"
        /\ UNCHANGED <<login, signedIn, profile, workspace, sessionLoading, checking>>
        /\ UNCHANGED <<nav, queue, sequence>>
    BY <1>18 DEF NavigateFromFeature, session
  <2>2. unsaved' \in BOOLEAN /\ prompt' \in Wishes \cup {NoPrompt}
        /\ saving' \subseteq [wish : Wishes, here : BOOLEAN, waits : BOOLEAN]
    BY <1>18, LeavesTyped DEF NavigateFromFeature
  <2>3. upset' \in BOOLEAN /\ (~upset' => nav = NoNav)
    BY <1>18, Zenon DEF NavigateFromFeature, ShellTypeOK
  <2>4. "cashflow" \in AllTabs
    BY TargetsAreTabs DEF Targets
  <2>5. ShellTypeOK' /\ ProfileKnown'
    BY <2>1, <2>2, <2>3, <2>4 DEF ShellTypeOK, ProfileKnown
  <2>6. WaitsBehind' /\ NavigationAllowed'
    BY <2>1, <2>3 DEF WaitsBehind, NavigationAllowed
  <2> QED BY <2>5, <2>6
<1> QED BY <1>1, <1>2, <1>3, <1>4, <1>5, <1>6, <1>7, <1>8, <1>9, <1>10, <1>11, <1>12,
           <1>13, <1>14, <1>15, <1>16, <1>17, <1>18 DEF ShellNext

\* The shell's variables stay in their types, whoever signs in and whatever is asked for.
THEOREM ShellTypes == ShellSpec => []ShellTypeOK
<1>1. ShellInv => ShellTypeOK
  BY DEF ShellInv
<1> QED BY <1>1, ShellStarts, ShellSteps, PTL DEF ShellSpec

\* A navigation under way is of this sign-in and for the tab that is shown, so that it
\* is delivered (queueTabNavigation, effectiveTab).
THEOREM NavigationShownHolds == ShellSpec => []NavigationShown
<1>1. ShellInv => NavigationShown
  BY DEF ShellInv, NavigationAllowed, NavigationShown, ShownTab, Effective
<1> QED BY <1>1, ShellStarts, ShellSteps, PTL DEF ShellSpec

-----------------------------------------------------------------------------
(* The strengthening, of the designer.                                     *)

\* Every revision of w is one of the drawings that the server accepted.
AcceptedIn(w, ds) ==
    \A l \in Lines : w[l].draft \in ds \cup {Nil} /\ w[l].active \in ds \cup {Nil}

\* What the server holds, the screen loaded last and an answer brings was accepted,
\* and so was what the screen takes for saved.
AcceptedEverywhere ==
    /\ \A l \in Lines : BlankGraph(l) \in kept
    /\ AcceptedIn(server, kept) /\ AcceptedIn(known, kept)
    /\ fetch.phase = "answered" => AcceptedIn(fetch.body, kept)
    /\ screen.saved \in kept

\* A request that was carried out put its drawing among the accepted; a draft is begun
\* from one of them; and only a save is followed by leaving.
RequestAccepted(c, ds) ==
    c.phase # "idle" =>
        /\ c.kind # "cancel" => c.graph # Nil
        /\ c.phase = "done" /\ c.kind # "cancel" => c.graph \in ds
        /\ c.kind = "begin" => c.base \in ds
        /\ c.leave => c.kind = "save"
RequestsAccepted == \A i \in DesignerSlots : RequestAccepted(calls[i], kept)

DesignerInv == DesignerTypeOK /\ AcceptedEverywhere /\ RequestsAccepted

-----------------------------------------------------------------------------
(* What the screen makes of a workspace.                                   *)

LEMMA BlankTyped == \A l \in Lines : BlankGraph(l) \in Drawing
BY DesignerAssumption DEF BlankGraph, Drawing

LEMMA ParsedTyped ==
  ASSUME NEW w \in Revisions, NEW l \in Lines
  PROVE  Parsed(w, l) \in Drawing
<1>1. w[l].draft \in Drawing \cup {Nil} /\ w[l].active \in Drawing \cup {Nil}
  BY DEF Revisions
<1> QED BY <1>1, BlankTyped DEF Parsed

LEMMA ParsedAccepted ==
  ASSUME AcceptedIn(server, kept), \A l \in Lines : BlankGraph(l) \in kept,
         NEW w, AcceptedIn(w, kept), NEW l \in Lines
  PROVE  Parsed(w, l) \in kept
BY DEF AcceptedIn, Parsed

LEMMA DraftingTyped ==
  ASSUME NEW w \in Revisions, NEW l \in Lines
  PROVE  Drafting(w, l) \in BOOLEAN
BY DEF Drafting, Revisions

LEMMA MountedTyped ==
  ASSUME NEW w \in Revisions
  PROVE  Mounted(w) \in Screen /\ Mounted(w).saved = Parsed(w, FirstLine)
BY ParsedTyped, DraftingTyped, DesignerAssumption DEF Mounted, Screen

LEMMA NoScreenTyped == NoScreen \in Screen /\ NoScreen.saved = BlankGraph(FirstLine)
BY BlankTyped, DesignerAssumption DEF NoScreen, Screen

LEMMA SyncedFields ==
  ASSUME screen \in Screen, NEW w \in Revisions, NEW l \in Lines, NEW c \in Drawing,
         NEW em \in BOOLEAN
  PROVE  /\ Synced(w, l, c, em) \in Screen
         /\ Synced(w, l, c, em).saved \in {screen.saved, Parsed(w, l)}
         /\ l = screen.line /\ em => /\ Synced(w, l, c, em).canvas = c
                                     /\ Synced(w, l, c, em).line = screen.line
                                     /\ Synced(w, l, c, em).open = screen.open
<1> DEFINE p == Parsed(w, l)  d == Drafting(w, l)
<1>1. p \in Drawing /\ d \in BOOLEAN
  BY ParsedTyped, DraftingTyped
<1>2. CASE l = screen.line
  <2>1. Synced(w, l, c, em) =
          [screen EXCEPT !.canvas = IF em THEN c ELSE p, !.edit = em,
                         !.saved = IF em THEN screen.saved ELSE p]
    BY <1>2 DEF Synced
  <2> HIDE DEF p, d
  <2>2. /\ Synced(w, l, c, em) \in Screen
        /\ Synced(w, l, c, em).saved \in {screen.saved, p}
        /\ em => /\ Synced(w, l, c, em).canvas = c
                 /\ Synced(w, l, c, em).line = screen.line
                 /\ Synced(w, l, c, em).open = screen.open
    BY <2>1, <1>1 DEF Screen
  <2> QED BY <2>2, <1>2 DEF p
<1>3. CASE l # screen.line
  <2>1. Synced(w, l, c, em) =
          [screen EXCEPT !.line = l, !.edit = d, !.saved = p,
                         !.canvas = IF em /\ d THEN c ELSE p]
    BY <1>3 DEF Synced
  <2> HIDE DEF p, d
  <2>2. Synced(w, l, c, em) \in Screen /\ Synced(w, l, c, em).saved = p
    BY <2>1, <1>1 DEF Screen
  <2> QED BY <2>2, <1>3 DEF p
<1> QED BY <1>2, <1>3

\* Asking something leaves the rest of the screen alone.
LEMMA ScreenPrompted ==
  ASSUME NEW s \in Screen, NEW t \in Lines \cup {Away, Nil}
  PROVE  /\ [s EXCEPT !.prompt = t].canvas = s.canvas
         /\ [s EXCEPT !.prompt = t].line = s.line
         /\ [s EXCEPT !.prompt = t].open = s.open
BY DEF Screen

LEMMA ScreenTurned ==
  ASSUME NEW s \in Screen, NEW t \in Lines \cup {Away, Nil}, NEW u \in Lines \cup {Nil}
  PROVE  /\ [s EXCEPT !.prompt = t, !.target = u] \in Screen
         /\ [s EXCEPT !.prompt = t, !.target = u].saved = s.saved
BY DEF Screen

-----------------------------------------------------------------------------
(* The steps of the designer.                                              *)

Fetches == {NoRequest} \cup [phase : {"answered"}, body : Revisions]

\* A step that accepts nothing new.
LEMMA NothingAccepted ==
  ASSUME DesignerInv, UNCHANGED <<designerScene, server, kept>>,
         known' \in Revisions, AcceptedIn(known', kept),
         fetch' \in Fetches, fetch'.phase = "answered" => AcceptedIn(fetch'.body, kept),
         screen' \in Screen, screen'.saved \in kept,
         calls' \in [DesignerSlots -> DesignerRequest],
         \A i \in DesignerSlots : RequestAccepted(calls'[i], kept),
         past' \subseteq Drawing, next' \in 1..(MaxDrawing + 1)
  PROVE  DesignerInv'
<1>1. DesignerTypeOK'
  BY DEF DesignerInv, DesignerTypeOK, Fetches
<1>2. AcceptedEverywhere'
  BY DEF DesignerInv, AcceptedEverywhere, AcceptedIn
<1>3. RequestsAccepted'
  BY DEF RequestsAccepted, RequestAccepted
<1> QED BY <1>1, <1>2, <1>3 DEF DesignerInv

\* What DesignerInv says of the parts that such a step leaves alone.
LEMMA DesignerParts ==
  ASSUME DesignerInv
  PROVE  /\ designerScene \in DesignerScenes /\ server \in Revisions
         /\ known \in Revisions /\ AcceptedIn(known, kept)
         /\ AcceptedIn(server, kept) /\ \A l \in Lines : BlankGraph(l) \in kept
         /\ fetch \in Fetches
         /\ fetch.phase = "answered" => AcceptedIn(fetch.body, kept)
         /\ screen \in Screen /\ screen.saved \in kept
         /\ calls \in [DesignerSlots -> DesignerRequest]
         /\ \A i \in DesignerSlots : RequestAccepted(calls[i], kept)
         /\ past \subseteq Drawing /\ kept \subseteq Drawing /\ next \in 1..(MaxDrawing + 1)
BY DEF DesignerInv, DesignerTypeOK, AcceptedEverywhere, RequestsAccepted, Fetches

LEMMA ScreenParts ==
  ASSUME NEW s \in Screen
  PROVE  /\ s.open \in BOOLEAN /\ s.line \in Lines /\ s.canvas \in Drawing
         /\ s.saved \in Drawing /\ s.edit \in BOOLEAN
         /\ s.prompt \in Lines \cup {Away, Nil} /\ s.target \in Lines \cup {Nil}
BY DEF Screen

LEMMA SceneParts ==
  ASSUME DesignerInv
  PROVE  /\ designerScene.lines \subseteq Lines /\ designerScene.slots \subseteq DesignerSlots
         /\ designerScene.drawings \in 0..MaxDrawing
         /\ designerScene.others \subseteq {"save", "activate", "end"}
BY DesignerParts, DesignerAssumption

LEMMA AskKeeps ==
  ASSUME DesignerInv, AskWorkspace
  PROVE  fetch' \in Fetches /\ (fetch'.phase = "answered" => AcceptedIn(fetch'.body, kept))
<1>1. CASE fetch.phase # "idle"
  BY <1>1, DesignerParts DEF AskWorkspace
<1>2. CASE fetch.phase = "idle"
  <2>1. PICK w \in {server, known} : fetch' = [phase |-> "answered", body |-> w]
    BY <1>2 DEF AskWorkspace
  <2> QED BY <2>1, DesignerParts DEF Fetches
<1> QED BY <1>1, <1>2

\* The screen is left, and what is under way is lost to it.
LEMMA LeaveKeeps ==
  ASSUME DesignerInv, NEW cs \in [DesignerSlots -> DesignerRequest],
         \A i \in DesignerSlots : RequestAccepted(cs[i], kept),
         screen' = NoScreen, calls' = Lost(cs)
  PROVE  /\ screen' \in Screen /\ screen'.saved \in kept
         /\ calls' \in [DesignerSlots -> DesignerRequest]
         /\ \A i \in DesignerSlots : RequestAccepted(calls'[i], kept)
<1>1. screen' \in Screen /\ screen'.saved \in kept
  BY NoScreenTyped, DesignerParts, DesignerAssumption
<1>2. calls' = [i \in DesignerSlots |-> IF cs[i].phase = "idle" THEN NoRequest
                                        ELSE [cs[i] EXCEPT !.lost = TRUE]]
  BY DEF Lost
<1>3. ASSUME NEW i \in DesignerSlots
      PROVE  calls'[i] \in DesignerRequest /\ RequestAccepted(calls'[i], kept)
  <2>1. cs[i] \in DesignerRequest /\ RequestAccepted(cs[i], kept)
    OBVIOUS
  <2>2. CASE cs[i].phase = "idle"
    <3>1. calls'[i] = NoRequest
      BY <1>2, <2>2
    <3> QED BY <3>1 DEF DesignerRequest, RequestAccepted, NoRequest
  <2>3. CASE cs[i].phase # "idle"
    <3>1. calls'[i] = [cs[i] EXCEPT !.lost = TRUE]
      BY <1>2, <2>3
    <3>2. cs[i] # NoRequest
      BY <2>3 DEF NoRequest
    <3> QED BY <2>1, <2>3, <3>1, <3>2 DEF DesignerRequest, RequestAccepted
  <2> QED BY <2>2, <2>3
<1> QED BY <1>1, <1>2, <1>3

\* A granted request for another place.
LEMMA ArriveKeeps ==
  ASSUME DesignerInv, NEW to \in Lines \cup {Away}, NEW s \in Screen, s.saved \in kept,
         Arrive(to, s)
  PROVE  /\ screen' \in Screen /\ screen'.saved \in kept
         /\ fetch' \in Fetches /\ (fetch'.phase = "answered" => AcceptedIn(fetch'.body, kept))
         /\ calls' \in [DesignerSlots -> DesignerRequest]
         /\ \A i \in DesignerSlots : RequestAccepted(calls'[i], kept)
<1>1. CASE to = Away
  <2>1. screen' = NoScreen /\ calls' = Lost(calls) /\ fetch' = fetch
    BY <1>1 DEF Arrive, Leave
  <2> QED BY <2>1, LeaveKeeps, DesignerParts
<1>2. CASE to # Away
  <2> DEFINE shown == Synced(known, to, s.canvas, s.edit)
             there == IF to = s.line THEN [shown EXCEPT !.saved = s.saved] ELSE shown
  <2>1. /\ screen' \in {[s EXCEPT !.prompt = Nil, !.target = to],
                        [there EXCEPT !.prompt = Nil, !.target = Nil]}
        /\ AskWorkspace /\ calls' = calls
    BY <1>2 DEF Arrive
  <2>2. to \in Lines /\ s.canvas \in Drawing /\ s.edit \in BOOLEAN /\ s.saved \in Drawing
    BY <1>2, ScreenParts
  <2>3. shown \in Screen /\ shown.saved \in kept
    BY <2>2, SyncedFields, ParsedAccepted, DesignerParts
  <2> HIDE DEF shown
  <2>4. there \in Screen /\ there.saved \in kept
    BY <2>2, <2>3 DEF Screen
  <2> HIDE DEF there
  <2>5. screen' \in Screen /\ screen'.saved \in kept
    <3>1. CASE screen' = [s EXCEPT !.prompt = Nil, !.target = to]
      BY <3>1, <2>2, ScreenTurned
    <3>2. CASE screen' = [there EXCEPT !.prompt = Nil, !.target = Nil]
      BY <3>2, <2>4, ScreenTurned
    <3> QED BY <2>1, <3>1, <3>2
  <2> QED BY <2>1, <2>5, AskKeeps, DesignerParts
<1> QED BY <1>1, <1>2

-----------------------------------------------------------------------------
(* What the server accepts.                                                *)

Row == [draft : Drawing \cup {Nil}, active : Drawing \cup {Nil}, ended : BOOLEAN]

LEMMA RowsAreRevisions == Revisions = [Lines -> Row]
BY DEF Revisions, Row

LEMMA WriteFits ==
  ASSUME NEW row \in Row, NEW c, c.graph \in Drawing \cup {Nil},
         c.kind \in {"save", "begin", "activate", "cancel"}
  PROVE  /\ AfterWrite(row, c) \in Row
         /\ c.kind = "cancel" => /\ AfterWrite(row, c).draft = row.draft
                                 /\ AfterWrite(row, c).active = row.active
         /\ c.kind # "cancel" => /\ AfterWrite(row, c).draft \in {row.draft, c.graph, Nil}
                                 /\ AfterWrite(row, c).active \in {row.active, c.graph}
<1>1. CASE c.kind \in {"save", "begin"}
  <2>1. AfterWrite(row, c) = [row EXCEPT !.draft = c.graph]
    BY <1>1 DEF AfterWrite
  <2> QED BY <1>1, <2>1 DEF Row
<1>2. CASE c.kind = "activate"
  <2>1. AfterWrite(row, c) = [row EXCEPT !.active = c.graph, !.draft = Nil]
    BY <1>2 DEF AfterWrite
  <2> QED BY <1>2, <2>1 DEF Row
<1>3. CASE c.kind = "cancel"
  <2>1. AfterWrite(row, c) = [row EXCEPT !.ended = TRUE]
    BY <1>3 DEF AfterWrite
  <2> QED BY <1>3, <2>1 DEF Row
<1> QED BY <1>1, <1>2, <1>3

\* The drawings accepted only grow in number.
LEMMA AcceptedGrows ==
  ASSUME DesignerInv, UNCHANGED <<designerScene, known, fetch, screen, past>>,
         kept \subseteq kept', kept' \subseteq Drawing,
         server' \in Revisions, AcceptedIn(server', kept'),
         calls' \in [DesignerSlots -> DesignerRequest],
         \A i \in DesignerSlots : RequestAccepted(calls'[i], kept'),
         next' \in 1..(MaxDrawing + 1)
  PROVE  DesignerInv'
<1>1. DesignerTypeOK'
  BY DEF DesignerInv, DesignerTypeOK
<1>2. AcceptedEverywhere'
  BY DEF DesignerInv, AcceptedEverywhere, AcceptedIn
<1>3. RequestsAccepted'
  BY DEF RequestsAccepted
<1> QED BY <1>1, <1>2, <1>3 DEF DesignerInv

LEMMA ServerHandlesKeeps ==
  ASSUME DesignerInv, NEW i \in DesignerSlots, ServerHandles(i)
  PROVE  DesignerInv'
<1> DEFINE c == calls[i]
<1>1. /\ c.phase = "sent" /\ ~server[c.line].ended
      /\ server' = [server EXCEPT ![c.line] = AfterWrite(server[c.line], c)]
      /\ calls' = [calls EXCEPT ![i].phase = "done"]
      /\ kept' = kept \cup ({c.graph} \ {Nil})
      /\ UNCHANGED <<designerScene, known, fetch, screen, past, next>>
  BY DEF ServerHandles
<1>2. c \in DesignerRequest \ {NoRequest} /\ RequestAccepted(c, kept)
  BY <1>1, DesignerParts DEF NoRequest
<1>3. /\ c.line \in Lines /\ c.graph \in Drawing \cup {Nil}
      /\ c.kind \in {"save", "begin", "activate", "cancel"}
      /\ c.kind # "cancel" => c.graph # Nil
  BY <1>1, <1>2 DEF DesignerRequest, RequestAccepted
<1>4. kept \subseteq kept' /\ kept' \subseteq Drawing /\ (c.kind # "cancel" => c.graph \in kept')
  BY <1>1, <1>3, DesignerParts
<1>5. server' \in Revisions /\ AcceptedIn(server', kept')
  <2>1. server[c.line] \in Row
    BY <1>3, DesignerParts, RowsAreRevisions
  <2> DEFINE row == AfterWrite(server[c.line], c)
  <2>2. row \in Row /\ row.draft \in kept' \cup {Nil} /\ row.active \in kept' \cup {Nil}
    <3>1. server[c.line].draft \in kept \cup {Nil} /\ server[c.line].active \in kept \cup {Nil}
      BY <1>3, DesignerParts DEF AcceptedIn
    <3> QED BY <2>1, <3>1, <1>3, <1>4, WriteFits
  <2> HIDE DEF row
  <2>3. server' = [server EXCEPT ![c.line] = row]
    BY <1>1 DEF row
  <2> HIDE DEF c
  <2>4. server' \in Revisions
    BY <2>2, <2>3, RowsAreRevisions, DesignerParts
  <2>5. ASSUME NEW l \in Lines
        PROVE  server'[l].draft \in kept' \cup {Nil} /\ server'[l].active \in kept' \cup {Nil}
    <3>1. server'[l] = row \/ server'[l] = server[l]
      BY <2>3, DesignerParts, RowsAreRevisions
    <3> QED BY <2>2, <3>1, <1>4, DesignerParts DEF AcceptedIn
  <2> QED BY <2>4, <2>5 DEF AcceptedIn
<1>6. [c EXCEPT !.phase = "done"] \in DesignerRequest
  BY <1>2 DEF DesignerRequest
<1>7. RequestAccepted([c EXCEPT !.phase = "done"], kept')
  <2> DEFINE d == [c EXCEPT !.phase = "done"]
  <2>1. d.kind = c.kind /\ d.graph = c.graph /\ d.base = c.base /\ d.leave = c.leave
    BY <1>2 DEF DesignerRequest
  <2>2. c.phase # "idle"
    BY <1>1
  <2>3. /\ d.kind # "cancel" => d.graph # Nil /\ d.graph \in kept'
        /\ d.kind = "begin" => d.base \in kept'
        /\ d.leave => d.kind = "save"
    BY <1>2, <1>3, <1>4, <2>1, <2>2 DEF RequestAccepted
  <2> QED BY <2>3 DEF RequestAccepted
<1>8. calls' \in [DesignerSlots -> DesignerRequest]
  BY <1>1, <1>6, DesignerParts
<1>9. ASSUME NEW j \in DesignerSlots PROVE RequestAccepted(calls'[j], kept')
  <2>1. CASE j = i
    BY <1>1, <1>7, <2>1, DesignerParts
  <2>2. CASE j # i
    <3>1. calls'[j] = calls[j] /\ RequestAccepted(calls[j], kept)
      BY <1>1, <2>2, DesignerParts
    <3> QED BY <3>1, <1>4 DEF RequestAccepted
  <2> QED BY <2>1, <2>2
<1>10. next' \in 1..(MaxDrawing + 1)
  BY <1>1, DesignerParts
<1> QED BY <1>1, <1>4, <1>5, <1>8, <1>9, <1>10, AcceptedGrows

LEMMA OtherWritesKeeps ==
  ASSUME DesignerInv, NEW l \in designerScene.lines, NEW kind \in designerScene.others,
         OtherWrites(l, kind)
  PROVE  DesignerInv'
<1> DEFINE g == [line |-> l, no |-> next]
<1>1. l \in Lines /\ kind \in {"save", "activate", "end"} /\ server[l] \in Row
  BY SceneParts, DesignerParts, RowsAreRevisions
<1>2. server[l].draft \in kept \cup {Nil} /\ server[l].active \in kept \cup {Nil}
  BY <1>1, DesignerParts DEF AcceptedIn
<1>3. UNCHANGED <<designerScene, known, fetch, screen, calls, past>>
  BY DEF OtherWrites
<1>4. PICK row \in Row :
        /\ server' = [server EXCEPT ![l] = row]
        /\ kept \subseteq kept' /\ kept' \subseteq Drawing
        /\ row.draft \in kept' \cup {Nil} /\ row.active \in kept' \cup {Nil}
        /\ next' \in 1..(MaxDrawing + 1)
  <2>1. CASE kind = "end"
    <3> DEFINE r == [server[l] EXCEPT !.ended = TRUE]
    <3>1. server' = [server EXCEPT ![l] = r] /\ kept' = kept /\ next' = next
      BY <2>1 DEF OtherWrites
    <3>2. r \in Row /\ r.draft = server[l].draft /\ r.active = server[l].active
      BY <1>1 DEF Row
    <3> HIDE DEF r
    <3> QED BY <3>1, <3>2, <1>2, DesignerParts
  <2>2. CASE kind # "end"
    <3> DEFINE c == [kind |-> kind, graph |-> g]  r == AfterWrite(server[l], c)
    <3>1. server' = [server EXCEPT ![l] = r] /\ kept' = kept \cup {g} /\ next' = next + 1
          /\ next <= designerScene.drawings
      BY <2>2 DEF OtherWrites
    <3>2. g \in Drawing /\ next' \in 1..(MaxDrawing + 1)
      BY <3>1, <1>1, SceneParts, DesignerParts, DesignerAssumption DEF Drawing
    <3> HIDE DEF g
    <3>3. c.graph = g /\ c.kind = kind /\ c.kind \in {"save", "activate"}
      BY <1>1, <2>2
    <3> HIDE DEF c
    <3>4. r \in Row /\ r.draft \in {server[l].draft, g, Nil}
          /\ r.active \in {server[l].active, g}
      BY <3>2, <3>3, <1>1, WriteFits
    <3> HIDE DEF r
    <3>5. kept \subseteq kept' /\ kept' \subseteq Drawing /\ g \in kept'
      BY <3>1, <3>2, DesignerParts
    <3>6. r.draft \in kept' \cup {Nil} /\ r.active \in kept' \cup {Nil}
      BY <3>4, <3>5, <1>2
    <3> QED BY <3>1, <3>2, <3>4, <3>5, <3>6
  <2> QED BY <2>1, <2>2
<1>5. server' \in Revisions
  BY <1>1, <1>4, RowsAreRevisions, DesignerParts
<1>6. ASSUME NEW m \in Lines
      PROVE  server'[m].draft \in kept' \cup {Nil} /\ server'[m].active \in kept' \cup {Nil}
  <2>1. server'[m] = row \/ server'[m] = server[m]
    BY <1>4, DesignerParts, RowsAreRevisions
  <2> QED BY <2>1, <1>4, DesignerParts DEF AcceptedIn
<1>7. AcceptedIn(server', kept')
  BY <1>6 DEF AcceptedIn
<1>8. ASSUME NEW j \in DesignerSlots PROVE RequestAccepted(calls'[j], kept')
  <2>1. calls'[j] = calls[j] /\ RequestAccepted(calls[j], kept)
    BY <1>3, DesignerParts
  <2> QED BY <2>1, <1>4 DEF RequestAccepted
<1> QED BY <1>3, <1>4, <1>5, <1>7, <1>8, DesignerParts, AcceptedGrows

-----------------------------------------------------------------------------
(* Requests sent, refused and answered.                                    *)

LEMMA SendKeeps ==
  ASSUME DesignerInv, NEW i \in DesignerSlots, NEW g, NEW leave \in BOOLEAN,
         NEW kind \in {"save", "begin", "activate", "cancel"},
         g \in Drawing \cup {Nil},
         kind # "cancel" => g # Nil,
         leave => kind = "save",
         SendRequest(i, kind, g, leave)
  PROVE  DesignerInv'
<1> DEFINE base == IF kind = "begin" THEN Parsed(known, screen.line) ELSE g
           c == [phase |-> "sent", kind |-> kind, line |-> screen.line, graph |-> g,
                 base |-> base, leave |-> leave, lost |-> FALSE]
<1>1. calls' = [calls EXCEPT ![i] = c]
      /\ UNCHANGED <<designerScene, server, known, fetch, screen, past, next, kept>>
  BY DEF SendRequest
<1>2. screen.line \in Lines
  BY DesignerParts, ScreenParts
<1>3. base \in Drawing \cup {Nil} /\ (kind = "begin" => base \in kept)
  BY <1>2, ParsedTyped, ParsedAccepted, DesignerParts
<1> HIDE DEF base
<1>4. c \in DesignerRequest
  BY <1>2, <1>3 DEF DesignerRequest
<1>5. RequestAccepted(c, kept)
  BY <1>3 DEF RequestAccepted
<1> HIDE DEF c
<1>6. calls' \in [DesignerSlots -> DesignerRequest]
      /\ \A j \in DesignerSlots : RequestAccepted(calls'[j], kept)
  BY <1>1, <1>4, <1>5, DesignerParts
<1> QED BY <1>1, <1>6, DesignerParts, NothingAccepted

\* A slot that is free again.
LEMMA FreedFits ==
  ASSUME DesignerInv, NEW i \in DesignerSlots
  PROVE  /\ [calls EXCEPT ![i] = NoRequest] \in [DesignerSlots -> DesignerRequest]
         /\ \A j \in DesignerSlots :
              RequestAccepted([calls EXCEPT ![i] = NoRequest][j], kept)
<1>1. NoRequest \in DesignerRequest
  BY DEF DesignerRequest
<1>2. RequestAccepted(NoRequest, kept)
  BY DEF NoRequest, RequestAccepted
<1> QED BY <1>1, <1>2, DesignerParts

LEMMA AfterAnswerFits ==
  ASSUME DesignerInv, NEW c \in DesignerRequest \ {NoRequest}, c.phase = "done",
         RequestAccepted(c, kept)
  PROVE  /\ AfterAnswer(c, screen) \in Screen /\ AfterAnswer(c, screen).saved \in kept
         /\ c.kind = "cancel" => AfterAnswer(c, screen) = screen
<1>1. c.kind \in {"save", "begin", "activate", "cancel"}
  BY DEF DesignerRequest
<1>2. screen \in Screen /\ screen.saved \in kept /\ screen.line \in Lines
      /\ known \in Revisions /\ kept \subseteq Drawing /\ screen.canvas \in Drawing
  BY DesignerParts, ScreenParts
<1>3. CASE c.kind = "save"
  <2>1. AfterAnswer(c, screen) = [screen EXCEPT !.saved = c.graph] /\ c.graph \in kept
    BY <1>3 DEF AfterAnswer, RequestAccepted
  <2>2. c.graph \in Drawing
    BY <1>2, <2>1
  <2> QED BY <1>2, <1>3, <2>1, <2>2 DEF Screen
<1>4. CASE c.kind = "begin"
  <2>1. AfterAnswer(c, screen) = [screen EXCEPT !.edit = TRUE, !.saved = c.base]
        /\ c.base \in kept
    BY <1>4 DEF AfterAnswer, RequestAccepted
  <2>2. c.base \in Drawing
    BY <1>2, <2>1
  <2> QED BY <1>2, <1>4, <2>1, <2>2 DEF Screen
<1>5. CASE c.kind = "activate"
  <2> DEFINE p == Parsed(known, screen.line)
  <2>1. AfterAnswer(c, screen) = [screen EXCEPT !.edit = FALSE, !.canvas = p, !.saved = p]
    BY <1>5 DEF AfterAnswer
  <2>2. p \in Drawing /\ p \in kept
    BY <1>2, ParsedTyped, ParsedAccepted, DesignerParts
  <2> HIDE DEF p
  <2> QED BY <1>2, <1>5, <2>1, <2>2 DEF Screen
<1>6. CASE c.kind = "cancel"
  BY <1>2, <1>6 DEF AfterAnswer
<1> QED BY <1>1, <1>3, <1>4, <1>5, <1>6

LEMMA DeliverAnswerKeeps ==
  ASSUME DesignerInv, NEW i \in DesignerSlots, DeliverAnswer(i)
  PROVE  DesignerInv'
<1> DEFINE c == calls[i]
           s == AfterAnswer(c, screen)
           rest == [calls EXCEPT ![i] = NoRequest]
<1>1. c.phase = "done" /\ UNCHANGED <<designerScene, server, known, past, next, kept>>
  BY DEF DeliverAnswer
<1>2. c \in DesignerRequest \ {NoRequest} /\ RequestAccepted(c, kept)
  BY <1>1, DesignerParts DEF NoRequest
<1>3. s \in Screen /\ s.saved \in kept
  BY <1>1, <1>2, AfterAnswerFits
<1>4. rest \in [DesignerSlots -> DesignerRequest]
      /\ \A j \in DesignerSlots : RequestAccepted(rest[j], kept)
  BY FreedFits
<1>5. \/ calls' = rest /\ UNCHANGED <<fetch, screen>>
      \/ Leave(rest)
      \/ /\ s.prompt # Away /\ screen' = [s EXCEPT !.prompt = Nil, !.target = s.prompt]
         /\ AskWorkspace /\ calls' = rest
      \/ screen' = s /\ AskWorkspace /\ calls' = rest
  BY DEF DeliverAnswer
<1> HIDE DEF c, s, rest
<1>6. CASE calls' = rest /\ UNCHANGED <<fetch, screen>>
  BY <1>1, <1>4, <1>6, DesignerParts, NothingAccepted
<1>7. CASE Leave(rest)
  BY <1>1, <1>4, <1>7, LeaveKeeps, DesignerParts, NothingAccepted DEF Leave
<1>8. CASE /\ s.prompt # Away /\ screen' = [s EXCEPT !.prompt = Nil, !.target = s.prompt]
           /\ AskWorkspace /\ calls' = rest
  <2>1. s.prompt \in Lines \cup {Nil}
    BY <1>3, <1>8, ScreenParts
  <2>2. screen' \in Screen /\ screen'.saved \in kept
    BY <1>3, <1>8, <2>1, ScreenTurned
  <2> QED BY <1>1, <1>4, <1>8, <2>2, AskKeeps, DesignerParts, NothingAccepted
<1>9. CASE screen' = s /\ AskWorkspace /\ calls' = rest
  BY <1>1, <1>3, <1>4, <1>9, AskKeeps, DesignerParts, NothingAccepted
<1> QED BY <1>5, <1>6, <1>7, <1>8, <1>9

-----------------------------------------------------------------------------
(* The designer's invariant, and what survives.                            *)

LEMMA DesignerStarts == DesignerInit => DesignerInv
<1> SUFFICES ASSUME DesignerInit PROVE DesignerInv
  OBVIOUS
<1>1. designerScene \in DesignerScenes /\ known = server /\ fetch = NoRequest
      /\ past = {} /\ next = 1 /\ kept = {BlankGraph(l) : l \in Lines}
      /\ screen = Mounted(server) /\ calls = [i \in DesignerSlots |-> NoRequest]
  BY DEF DesignerInit
<1>2. server \in Revisions /\ AcceptedIn(server, kept)
  <2>1. server = [l \in Lines |->
            [draft |-> Nil, ended |-> FALSE,
             active |-> IF l \in designerScene.running THEN BlankGraph(l) ELSE Nil]]
    BY DEF DesignerInit
  <2>2. ASSUME NEW l \in Lines
        PROVE  server[l] \in Row /\ server[l].draft \in kept \cup {Nil}
               /\ server[l].active \in kept \cup {Nil}
    <3>1. server[l] = [draft |-> Nil, ended |-> FALSE,
             active |-> IF l \in designerScene.running THEN BlankGraph(l) ELSE Nil]
      BY <2>1
    <3>2. BlankGraph(l) \in kept /\ BlankGraph(l) \in Drawing
      BY <1>1, BlankTyped
    <3> QED BY <3>1, <3>2 DEF Row
  <2>3. server \in [Lines -> Row]
    BY <2>1, <2>2
  <2> QED BY <2>2, <2>3, RowsAreRevisions DEF AcceptedIn
<1>3. screen \in Screen /\ screen.saved \in kept
  <2>1. \A l \in Lines : BlankGraph(l) \in kept
    BY <1>1
  <2> QED BY <1>1, <1>2, <2>1, MountedTyped, ParsedAccepted, DesignerAssumption
<1>4. DesignerTypeOK
  <2>1. fetch \in {NoRequest} \cup [phase : {"answered"}, body : Revisions]
        /\ calls \in [DesignerSlots -> DesignerRequest]
    BY <1>1 DEF DesignerRequest
  <2>2. past \cup kept \subseteq Drawing /\ next \in 1..(MaxDrawing + 1)
    BY <1>1, BlankTyped, DesignerAssumption
  <2> QED BY <1>1, <1>2, <1>3, <2>1, <2>2 DEF DesignerTypeOK
<1>5. AcceptedEverywhere
  BY <1>1, <1>2, <1>3 DEF AcceptedEverywhere, NoRequest
<1>6. RequestsAccepted
  BY <1>1 DEF RequestsAccepted, RequestAccepted, NoRequest
<1> QED BY <1>4, <1>5, <1>6 DEF DesignerInv

LEMMA DrawKeeps ==
  ASSUME DesignerInv, NEW g, next <= designerScene.drawings => g \in Drawing, Draw(g)
  PROVE  DesignerInv'
<1>1. /\ screen' = [screen EXCEPT !.canvas = g] /\ g \in Drawing
      /\ past' = past \cup {screen.canvas, g} /\ next' = next + 1
      /\ next <= designerScene.drawings
      /\ UNCHANGED <<designerScene, server, known, fetch, calls, kept>>
  BY DEF Draw
<1>2. screen \in Screen /\ screen.canvas \in Drawing /\ screen.saved \in kept
  BY DesignerParts, ScreenParts
<1>3. screen' \in Screen /\ screen'.saved \in kept
  BY <1>1, <1>2 DEF Screen
<1>4. past' \subseteq Drawing /\ next' \in 1..(MaxDrawing + 1)
  BY <1>1, <1>2, DesignerParts, SceneParts, DesignerAssumption
<1> QED BY <1>1, <1>3, <1>4, DesignerParts, NothingAccepted

LEMMA NumberFits ==
  ASSUME DesignerInv, next <= designerScene.drawings
  PROVE  next \in 0..MaxDrawing
BY DesignerParts, SceneParts, DesignerAssumption

LEMMA DesignerSteps == DesignerInv /\ [DesignerNext]_designerVars => DesignerInv'
<1> SUFFICES ASSUME DesignerInv, [DesignerNext]_designerVars PROVE DesignerInv'
  OBVIOUS
<1>0. screen \in Screen /\ screen.saved \in kept /\ screen.line \in Lines
      /\ screen.canvas \in Drawing /\ screen.edit \in BOOLEAN
      /\ screen.prompt \in Lines \cup {Away, Nil} /\ screen.target \in Lines \cup {Nil}
  BY DesignerParts, ScreenParts
<1>1. CASE RefreshWorkspace
  BY <1>1, AskKeeps, DesignerParts, NothingAccepted DEF RefreshWorkspace
<1>2. CASE DeliverWorkspace
  <2>1. /\ fetch.phase = "answered" /\ fetch' = NoRequest
        /\ UNCHANGED <<designerScene, server, calls, past, next, kept>>
    BY <1>2 DEF DeliverWorkspace
  <2>2. fetch' \in Fetches /\ fetch'.phase # "answered"
    BY <2>1 DEF Fetches, NoRequest
  <2>3. fetch.body \in Revisions /\ AcceptedIn(fetch.body, kept)
    <3>1. fetch # NoRequest
      BY <2>1 DEF NoRequest
    <3> QED BY <2>1, <3>1, DesignerParts DEF Fetches
  <2>4. CASE ~screen.open
    <3>1. UNCHANGED <<known, screen>>
      BY <1>2, <2>4 DEF DeliverWorkspace
    <3> QED BY <2>1, <2>2, <3>1, DesignerParts, NothingAccepted
  <2>5. CASE screen.open
    <3> DEFINE l == IF screen.target # Nil THEN screen.target ELSE screen.line
               s == Synced(fetch.body, l, screen.canvas, screen.edit)
    <3>1. known' = fetch.body /\ screen' = [s EXCEPT !.target = Nil]
      BY <1>2, <2>5 DEF DeliverWorkspace
    <3>2. l \in Lines
      BY <1>0
    <3> HIDE DEF l
    <3>3. s \in Screen /\ s.saved \in kept
      <4>1. Parsed(fetch.body, l) \in kept
        BY <2>3, <3>2, ParsedAccepted, DesignerParts
      <4>2. s \in Screen /\ s.saved \in {screen.saved, Parsed(fetch.body, l)}
        BY <1>0, <2>3, <3>2, SyncedFields
      <4> QED BY <1>0, <4>1, <4>2
    <3> HIDE DEF s
    <3>4. screen' \in Screen /\ screen'.saved \in kept
      BY <3>1, <3>3 DEF Screen
    <3> QED BY <2>1, <2>2, <2>3, <3>1, <3>4, DesignerParts, NothingAccepted
  <2> QED BY <2>4, <2>5
<1>3. CASE FailWorkspace
  <2>1. fetch' = NoRequest
        /\ UNCHANGED <<designerScene, server, known, screen, calls, past, next, kept>>
    BY <1>3 DEF FailWorkspace
  <2>2. fetch' \in Fetches /\ fetch'.phase # "answered"
    BY <2>1 DEF Fetches, NoRequest
  <2> QED BY <2>1, <2>2, DesignerParts, NothingAccepted
<1>4. CASE EditGraph
  <2> DEFINE g == [screen.canvas EXCEPT !.no = next]
  <2>1. next <= designerScene.drawings => g \in Drawing
    BY <1>0, NumberFits DEF Drawing
  <2>2. Draw(g)
    BY <1>4 DEF EditGraph
  <2> HIDE DEF g
  <2> QED BY <2>1, <2>2, DrawKeeps
<1>5. CASE ApplyTemplate
  <2> DEFINE g == [line |-> screen.line, no |-> next]
  <2>1. next <= designerScene.drawings => g \in Drawing
    BY <1>0, NumberFits DEF Drawing
  <2>2. Draw(g)
    BY <1>5 DEF ApplyTemplate
  <2> HIDE DEF g
  <2> QED BY <2>1, <2>2, DrawKeeps
<1>6. ASSUME NEW g \in past, Undo(g) PROVE DesignerInv'
  <2>1. screen' = [screen EXCEPT !.canvas = g] /\ g \in Drawing
        /\ UNCHANGED <<designerScene, server, known, fetch, calls, past, next, kept>>
    BY <1>6, DesignerParts DEF Undo
  <2>2. screen' \in Screen /\ screen'.saved \in kept
    BY <1>0, <2>1 DEF Screen
  <2> QED BY <2>1, <2>2, DesignerParts, NothingAccepted
<1>7. CASE Stay
  <2>1. screen' = [screen EXCEPT !.prompt = Nil]
        /\ UNCHANGED <<designerScene, server, known, fetch, calls, past, next, kept>>
    BY <1>7 DEF Stay
  <2>2. screen' \in Screen /\ screen'.saved \in kept
    BY <1>0, <2>1 DEF Screen
  <2> QED BY <2>1, <2>2, DesignerParts, NothingAccepted
<1>8. CASE Discard
  <2> DEFINE p == Parsed(known, screen.line)
             s == [screen EXCEPT !.canvas = p, !.saved = p]
  <2>1. screen.prompt \in Lines \cup {Away} /\ Arrive(screen.prompt, s)
        /\ UNCHANGED <<designerScene, server, known, past, next, kept>>
    BY <1>0, <1>8 DEF Discard
  <2>2. p \in Drawing /\ p \in kept
    BY <1>0, ParsedTyped, ParsedAccepted, DesignerParts
  <2> HIDE DEF p
  <2>3. s \in Screen /\ s.saved \in kept
    BY <1>0, <2>2 DEF Screen
  <2> HIDE DEF s
  <2> QED BY <2>1, <2>3, ArriveKeeps, DesignerParts, NothingAccepted
<1>9. CASE OpenScreen
  <2>1. PICK w \in {known, server} : known' = w /\ screen' = Mounted(w)
    BY <1>9 DEF OpenScreen
  <2>2. past' = {} /\ UNCHANGED <<designerScene, server, fetch, calls, next, kept>>
    BY <1>9 DEF OpenScreen
  <2>3. w \in Revisions /\ AcceptedIn(w, kept)
    BY <2>1, DesignerParts
  <2>4. screen' \in Screen /\ screen'.saved \in kept
    BY <2>1, <2>3, MountedTyped, ParsedAccepted, DesignerParts, DesignerAssumption
  <2> QED BY <2>1, <2>2, <2>3, <2>4, DesignerParts, NothingAccepted
<1>10. ASSUME NEW to \in (designerScene.lines \cup {Away}) \cap designerScene.places,
              Navigate(to)
       PROVE  DesignerInv'
  <2>1. to \in Lines \cup {Away}
    BY SceneParts
  <2>2. UNCHANGED <<designerScene, server, known, past, next, kept>>
    BY <1>10 DEF Navigate
  <2>3. CASE HasUnsavedChanges
    <3>1. screen' = [screen EXCEPT !.prompt = to] /\ UNCHANGED <<fetch, calls>>
      BY <1>10, <2>3 DEF Navigate
    <3>2. screen' \in Screen /\ screen'.saved \in kept
      BY <1>0, <2>1, <3>1 DEF Screen
    <3> QED BY <2>2, <3>1, <3>2, DesignerParts, NothingAccepted
  <2>4. CASE ~HasUnsavedChanges
    <3>1. Arrive(to, screen)
      BY <1>10, <2>4 DEF Navigate
    <3> QED BY <1>0, <2>1, <2>2, <3>1, ArriveKeeps, DesignerParts, NothingAccepted
  <2> QED BY <2>3, <2>4
<1>11. ASSUME NEW i \in designerScene.slots, NEW leave \in BOOLEAN, SaveDraft(i, leave)
       PROVE  DesignerInv'
  <2>1. SendRequest(i, "save", screen.canvas, leave) /\ i \in DesignerSlots
    BY <1>11, SceneParts DEF SaveDraft
  <2>2. screen.canvas # Nil
    BY <1>0, DesignerAssumption
  <2> QED BY <1>0, <2>1, <2>2, SendKeeps
<1>12. ASSUME NEW i \in designerScene.slots, BeginWorkflowEdit(i) PROVE DesignerInv'
  <2>1. SendRequest(i, "begin", known[screen.line].active, FALSE) /\ i \in DesignerSlots
        /\ known[screen.line].active # Nil
    BY <1>12, SceneParts DEF BeginWorkflowEdit, HasActiveRuntime
  <2>2. known[screen.line].active \in Drawing \cup {Nil}
    BY <1>0, DesignerParts DEF Revisions
  <2> QED BY <2>1, <2>2, SendKeeps
<1>13. ASSUME NEW i \in designerScene.slots, Activate(i) PROVE DesignerInv'
  <2>1. SendRequest(i, "activate", screen.canvas, FALSE) /\ i \in DesignerSlots
    BY <1>13, SceneParts DEF Activate
  <2>2. screen.canvas # Nil
    BY <1>0, DesignerAssumption
  <2> QED BY <1>0, <2>1, <2>2, SendKeeps
<1>14. ASSUME NEW i \in designerScene.slots, CancelWorkflow(i) PROVE DesignerInv'
  <2>1. SendRequest(i, "cancel", Nil, FALSE) /\ i \in DesignerSlots
    BY <1>14, SceneParts DEF CancelWorkflow
  <2> QED BY <2>1, SendKeeps
<1>15. ASSUME NEW i \in designerScene.slots, ServerHandles(i) PROVE DesignerInv'
  BY <1>15, SceneParts, ServerHandlesKeeps
<1>16. ASSUME NEW i \in designerScene.slots, Fail(i) PROVE DesignerInv'
  <2>1. i \in DesignerSlots /\ calls' = [calls EXCEPT ![i] = NoRequest]
        /\ UNCHANGED <<designerScene, server, known, fetch, screen, past, next, kept>>
    BY <1>16, SceneParts DEF Fail
  <2> QED BY <2>1, FreedFits, DesignerParts, NothingAccepted
<1>17. ASSUME NEW i \in designerScene.slots, DeliverAnswer(i) PROVE DesignerInv'
  BY <1>17, SceneParts, DeliverAnswerKeeps
<1>18. ASSUME NEW l \in designerScene.lines, NEW kind \in designerScene.others,
              OtherWrites(l, kind)
       PROVE  DesignerInv'
  BY <1>18, OtherWritesKeeps
<1>19. CASE UNCHANGED designerVars
  BY <1>19, DesignerParts, NothingAccepted DEF designerVars
<1>20. CASE TakenAway
  <2>1. /\ screen' = NoScreen /\ calls' = Lost(calls) /\ fetch' \in {fetch, NoRequest}
        /\ UNCHANGED <<designerScene, server, known, past, next, kept>>
    BY <1>20 DEF TakenAway
  <2>2. fetch' \in Fetches /\ (fetch'.phase = "answered" => AcceptedIn(fetch'.body, kept))
    BY <2>1, DesignerParts DEF Fetches, NoRequest
  <2> QED BY <2>1, <2>2, LeaveKeeps, DesignerParts, NothingAccepted
<1> QED BY <1>1, <1>2, <1>3, <1>4, <1>5, <1>6, <1>7, <1>8, <1>9, <1>10, <1>11, <1>12,
           <1>13, <1>14, <1>15, <1>16, <1>17, <1>18, <1>19, <1>20 DEF DesignerNext

\* The designer's variables stay in their types, whatever is drawn and answered.
THEOREM DesignerTypes == DesignerSpec => []DesignerTypeOK
<1>1. DesignerInv => DesignerTypeOK
  BY DEF DesignerInv
<1> QED BY <1>1, DesignerStarts, DesignerSteps, PTL DEF DesignerSpec

\* A screen that may be edited and calls nothing unsaved shows a drawing a line started
\* with or the server accepted (savedFingerprint, hasUnsavedChanges).
THEOREM CleanIsAcceptedHolds == DesignerSpec => []CleanIsAccepted
<1>1. DesignerInv => CleanIsAccepted
  BY DesignerParts DEF CleanIsAccepted, HasUnsavedChanges
<1> QED BY <1>1, DesignerStarts, DesignerSteps, PTL DEF DesignerSpec

\* The step that UnsavedSurvives is about.
LEMMA DrawingSurvives ==
  ASSUME DesignerInv, [DesignerNext]_designerVars,
         screen.open, screen.edit, HasUnsavedChanges, screen.canvas \notin kept,
         \/ screen'.canvas # screen.canvas
         \/ screen'.line # screen.line
         \/ ~screen'.open
  PROVE  \/ EditGraph \/ ApplyTemplate \/ Discard \/ \E g \in past : Undo(g)
         \/ \E i \in DesignerSlots : Overtaken(calls[i]) /\ DeliverAnswer(i)
         \/ screen.target # Nil /\ DeliverWorkspace
         \/ TakenAway
<1>0. screen \in Screen /\ screen' # screen /\ screen.line \in Lines
      /\ screen.canvas \in Drawing /\ screen.edit = TRUE
  BY DesignerParts, ScreenParts
<1>1. CASE RefreshWorkspace \/ FailWorkspace
  BY <1>0, <1>1 DEF RefreshWorkspace, FailWorkspace
<1>2. CASE DeliverWorkspace
  <2> SUFFICES ASSUME screen.target = Nil PROVE FALSE
    BY <1>2
  <2> DEFINE s == Synced(fetch.body, screen.line, screen.canvas, screen.edit)
  <2>1. screen' = [s EXCEPT !.target = Nil] /\ fetch.phase = "answered"
    BY <1>2 DEF DeliverWorkspace
  <2>2. fetch.body \in Revisions
    <3>1. fetch # NoRequest
      BY <2>1 DEF NoRequest
    <3> QED BY <3>1, DesignerParts DEF Fetches
  <2>3. s \in Screen /\ s.canvas = screen.canvas /\ s.line = screen.line /\ s.open = screen.open
    BY <1>0, <2>2, SyncedFields
  <2> HIDE DEF s
  <2>4. screen'.canvas = s.canvas /\ screen'.line = s.line /\ screen'.open = s.open
    BY <2>1, <2>3 DEF Screen
  <2> QED BY <2>3, <2>4
<1>3. CASE EditGraph \/ ApplyTemplate \/ Discard \/ TakenAway \/ \E g \in past : Undo(g)
  BY <1>3
<1>4. CASE Stay
  <2>1. screen' = [screen EXCEPT !.prompt = Nil]
    BY <1>4 DEF Stay
  <2> QED BY <1>0, <2>1, ScreenPrompted
<1>5. CASE OpenScreen
  BY <1>5 DEF OpenScreen
<1>6. ASSUME NEW to \in (designerScene.lines \cup {Away}) \cap designerScene.places,
             Navigate(to)
      PROVE  FALSE
  <2>1. to \in Lines \cup {Away} /\ screen' = [screen EXCEPT !.prompt = to]
    BY <1>6, SceneParts DEF Navigate
  <2> QED BY <1>0, <2>1, ScreenPrompted
<1>7. ASSUME NEW i \in designerScene.slots,
             \/ \E leave \in BOOLEAN : SaveDraft(i, leave)
             \/ BeginWorkflowEdit(i) \/ Activate(i) \/ CancelWorkflow(i)
             \/ ServerHandles(i) \/ Fail(i)
      PROVE  FALSE
  <2>1. screen' = screen
    BY <1>7 DEF SaveDraft, BeginWorkflowEdit, Activate, CancelWorkflow, SendRequest,
                ServerHandles, Fail
  <2> QED BY <1>0, <2>1
<1>8. ASSUME NEW i \in designerScene.slots, DeliverAnswer(i)
      PROVE  Overtaken(calls[i]) /\ i \in DesignerSlots
  <2> DEFINE c == calls[i]
  <2>1. i \in DesignerSlots /\ c.phase = "done"
    BY <1>8, SceneParts DEF DeliverAnswer
  <2>2. c \in DesignerRequest \ {NoRequest} /\ RequestAccepted(c, kept)
    BY <2>1, DesignerParts DEF NoRequest
  <2>3. CASE c.kind # "cancel"
    <3>1. c.graph \in kept
      BY <2>1, <2>2, <2>3 DEF RequestAccepted
    <3> QED BY <2>1, <3>1 DEF Overtaken
  <2>4. CASE c.kind = "cancel"
    <3>1. AfterAnswer(c, screen) = screen
      BY <2>4 DEF AfterAnswer
    <3>2. ~c.leave
      BY <2>1, <2>2, <2>4 DEF RequestAccepted, DesignerRequest
    <3>3. screen' = screen
      BY <1>8, <3>1, <3>2 DEF DeliverAnswer
    <3> QED BY <1>0, <3>3
  <2> QED BY <2>3, <2>4
<1>9. ASSUME NEW l \in designerScene.lines, NEW kind \in designerScene.others,
             OtherWrites(l, kind)
      PROVE  FALSE
  BY <1>0, <1>9 DEF OtherWrites
<1>10. CASE UNCHANGED designerVars
  BY <1>0, <1>10 DEF designerVars
<1> QED BY <1>1, <1>2, <1>3, <1>4, <1>5, <1>6, <1>7, <1>8, <1>9, <1>10 DEF DesignerNext

\* A drawing in edit mode that no server accepted yet leaves the screen only by the
\* director's own doing, by the answer of a request he drew under, by a notification he
\* followed before he drew, or because the shell takes the screen away
\* (registerUnsavedChangesGuard, the sync effect, handleLogout).
THEOREM UnsavedSurvivesHolds == DesignerSpec => UnsavedSurvives
<1> DEFINE Moves == /\ screen.open /\ screen.edit /\ HasUnsavedChanges
                    /\ screen.canvas \notin kept
                    /\ \/ screen'.canvas # screen.canvas
                       \/ screen'.line # screen.line
                       \/ ~screen'.open
           Allows == \/ EditGraph \/ ApplyTemplate \/ Discard \/ \E g \in past : Undo(g)
                     \/ \E i \in DesignerSlots : Overtaken(calls[i]) /\ DeliverAnswer(i)
                     \/ screen.target # Nil /\ DeliverWorkspace
                     \/ TakenAway
<1>1. DesignerInv /\ [DesignerNext]_designerVars => [Moves => Allows]_designerVars
  BY DrawingSurvives
<1>2. DesignerSpec => [][Moves => Allows]_designerVars
  BY <1>1, DesignerStarts, DesignerSteps, PTL DEF DesignerSpec
<1> QED BY <1>2 DEF UnsavedSurvives

=============================================================================
