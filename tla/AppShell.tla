------------------------------ MODULE AppShell ------------------------------
(***************************************************************************)
(* The shell around the screens (App.jsx): who is signed in, which tab is  *)
(* shown, and the navigations that a notification or the timeline asks for *)
(* in another tab.  A navigation changes the tab at once, and is delivered *)
(* as an event once the screen of its tab is mounted, however long its     *)
(* code takes to load; what is asked for meanwhile waits in a queue.       *)
(***************************************************************************)
EXTENDS ShellConstants, Sequences, Functions, FiniteSets

VARIABLES
    login,      \* sign-ins so far
    signedIn,   \* loggedIn, sessionActiveRef
    profile, workspace,
    sessionLoading, \* the shell waits for /me
    checking,   \* validateSession is under way
    activeTab,  \* the tab chosen
    nav,        \* the navigation under way: activeNavigation and its ref
    queue,      \* queuedNavigationsRef
    sequence,   \* navigationSequence
    unsaved,    \* the drawing of the contract screen has changes
    prompt,     \* the question about them: what the user was about to do
    saving,     \* the saves that the question began, each with what waits for it
    upset       \* history: the tab moved under a navigation

session == <<login, signedIn, profile, workspace, sessionLoading, checking>>
desk == <<activeTab, nav, queue, sequence, unsaved, prompt, saving, upset>>
shellVars == <<session, desk>>

-----------------------------------------------------------------------------
NoNav == [id |-> 0]
NoPrompt == [kind |-> "none"]
Workspaces == {"management", "employee"}
Targets == {"cashflow", "approvals", "contracts", "employee-dashboard"}

\* The tabs in their order, of those alike one: TABS and EMPLOYEE_TABS.
TabsOf(w) == IF w = "employee" THEN <<"employee-dashboard", "tasks">>
           ELSE <<"dashboard", "tasks", "contracts", "timeline", "approvals", "cashflow">>
AllTabs == Range(TabsOf("employee")) \cup Range(TabsOf("management"))

\* tabFilter
Allowed(p, t) ==
    CASE t = "dashboard" -> p.director /\ "finance" \in p.may
      [] t = "tasks" -> "survey_record" \in p.may
      [] t = "contracts" -> "contract" \in p.may
      [] t = "cashflow" -> "finance" \in p.may
      [] t \in {"timeline", "approvals"} -> p.director
      [] t = "employee-dashboard" -> TRUE

AllowedTabs(p, w) == {t \in Range(TabsOf(w)) : Allowed(p, t)}
FirstTab(p, w) ==
    LET tabs == TabsOf(w)
        first == CHOOSE i \in DOMAIN tabs :
                    /\ Allowed(p, tabs[i])
                    /\ \A j \in 1..(i - 1) : ~Allowed(p, tabs[j])
    IN tabs[first]

\* effectiveTab: the tab that is shown, which need not be the one chosen.
Effective(p, w, t) ==
    IF t \in AllowedTabs(p, w) THEN t
    ELSE IF AllowedTabs(p, w) # {} THEN FirstTab(p, w)
    ELSE IF w = "employee" THEN "employee-dashboard" ELSE "dashboard"

Shell == signedIn /\ ~sessionLoading /\ profile # Nobody
ShownTab == Effective(profile, workspace, activeTab)

\* canAccessNavigationTarget, as a render with that profile and workspace has it.
CanAccess(p, w, t) ==
    /\ p # Nobody
    /\ IF t = "approvals" THEN p.director
       ELSE IF w = "employee" THEN t = "employee-dashboard"
       ELSE \/ t = "cashflow" /\ "finance" \in p.may
            \/ t = "contracts" /\ "contract" \in p.may

\* Where a user starts.
Home(p) ==
    CASE p.employee -> "employee-dashboard"
      [] ~p.employee /\ p.director -> "dashboard"
      [] ~p.employee /\ ~p.director /\ "finance" \in p.may -> "cashflow"
      [] ~p.employee /\ ~p.director /\ "finance" \notin p.may /\ "contract" \in p.may
            -> "contracts"
      [] OTHER -> "tasks"
Space(p) == IF p.employee THEN "employee" ELSE "management"

\* The contract screen keeps its drawing, and its question, while it is shown; the
\* saves it began go on without it.
SavesLeft == {[a EXCEPT !.here = FALSE] : a \in saving}
LeavesContracts(p, w, t) ==
    IF Effective(p, w, t) = "contracts" THEN UNCHANGED <<unsaved, prompt, saving>>
    ELSE unsaved' = FALSE /\ prompt' = NoPrompt /\ saving' = SavesLeft

-----------------------------------------------------------------------------
\* A page that was signed in before, by its hint, begins with asking /me.
ShellInit ==
    /\ signedIn \in BOOLEAN
    /\ login = IF signedIn THEN 1 ELSE 0
    /\ profile = Nobody /\ workspace = "management"
    /\ sessionLoading = signedIn /\ checking = signedIn
    /\ activeTab = "dashboard"
    /\ nav = NoNav /\ queue = <<>> /\ sequence = 0
    /\ unsaved = FALSE /\ prompt = NoPrompt /\ saving = {}
    /\ upset = FALSE

\* Broken: the navigation under way survives the one who asked for it.
QueueClearedOnly == queue' = <<>> /\ UNCHANGED nav

\* clearNavigationQueue
QueueCleared == nav' = NoNav /\ queue' = <<>>

\* handleLogin: with the profile in the answer, or with a token only.
LogIn(p) ==
    /\ ~signedIn /\ login < Logins
    /\ login' = login + 1 /\ signedIn' = TRUE /\ checking' = TRUE
    /\ QueueCleared
    /\ \/ /\ profile' = p /\ workspace' = Space(p) /\ activeTab' = Home(p)
          /\ sessionLoading' = FALSE
       \/ /\ sessionLoading' = TRUE /\ UNCHANGED <<profile, workspace, activeTab>>
    /\ upset' = FALSE
    /\ UNCHANGED <<sequence, unsaved, prompt, saving>>

\* /me answers while the user may be at work already: back to where he starts.
Validated(p) ==
    /\ checking /\ (profile # Nobody => p.user = profile.user)
    /\ checking' = FALSE /\ sessionLoading' = FALSE
    /\ profile' = p /\ workspace' = Space(p) /\ activeTab' = Home(p)
    /\ upset' = (upset \/ nav # NoNav)
    /\ LeavesContracts(p, Space(p), Home(p))
    /\ UNCHANGED <<login, signedIn, nav, queue, sequence>>

\* The safety timer of 35 s takes the loader away; /me may answer still.
TimerFires ==
    /\ checking /\ sessionLoading
    /\ sessionLoading' = FALSE
    /\ UNCHANGED <<login, signedIn, profile, workspace, checking, desk>>

ValidationFails ==
    /\ checking
    /\ checking' = FALSE /\ sessionLoading' = FALSE
    /\ UNCHANGED <<login, signedIn, profile, workspace, desk>>

RetrySession ==
    /\ signedIn /\ ~sessionLoading /\ profile = Nobody
    /\ checking' = TRUE /\ sessionLoading' = TRUE
    /\ UNCHANGED <<login, signedIn, profile, workspace, desk>>

\* handleLogout; a save the question waits for goes on.
LogOut ==
    /\ signedIn
    /\ signedIn' = FALSE /\ checking' = FALSE /\ sessionLoading' = FALSE
    /\ profile' = Nobody /\ workspace' = "management"
    /\ QueueCleared
    /\ unsaved' = FALSE /\ prompt' = NoPrompt /\ saving' = SavesLeft
    /\ UNCHANGED <<login, activeTab, sequence, upset>>

-----------------------------------------------------------------------------
\* What the user was about to do, with what the handler closed over.
Wish(kind, to) ==
    [kind |-> kind, to |-> to, profile |-> profile, workspace |-> workspace, login |-> login]

Navigation(t, w) == [id |-> sequence + 1, tab |-> t, login |-> w.login]

\* queueTabNavigation
QueueTab(t, w) ==
    IF signedIn /\ CanAccess(w.profile, w.workspace, t) /\ sequence < Asked
    THEN /\ sequence' = sequence + 1
         /\ IF nav # NoNav
            THEN queue' = Append(queue, Navigation(t, w)) /\ UNCHANGED <<nav, activeTab>>
            ELSE nav' = Navigation(t, w) /\ activeTab' = t /\ UNCHANGED queue
    ELSE UNCHANGED <<sequence, queue, nav, activeTab>>

\* The target of a notification.
Target(w) ==
    CASE w.to = "voucher" -> "cashflow"
      [] w.to = "rollback" -> "approvals"
      [] w.to = "step" -> IF w.workspace = "employee" THEN "employee-dashboard" ELSE "contracts"

\* The handler closed over what was so when the user clicked.
Old(w) == w.login # login \/ w.profile # profile \/ w.workspace # workspace

\* handleTabChange and handleNotificationNavigate once the guard has let them pass.
\* A wish of an earlier sign-in, or a change of the workspace, may move the tab
\* from under a navigation.
Fulfil(w) ==
    /\ IF w.kind = "tab"
       THEN /\ QueueCleared /\ activeTab' = w.to
            /\ UNCHANGED <<workspace, sequence>>
       ELSE /\ workspace' = IF w.to # "step" /\ w.workspace = "employee"
                            THEN "management" ELSE workspace
            /\ QueueTab(Target(w), w)
    /\ upset' = (upset \/ Old(w) \/ (nav # NoNav /\ workspace' # workspace))
    /\ UNCHANGED <<login, signedIn, profile, sessionLoading, checking>>

Asks(w) ==
    IF unsaved /\ ShownTab = "contracts"
    THEN /\ prompt' = w
         /\ UNCHANGED <<session, activeTab, nav, queue, sequence, unsaved, saving, upset>>
    ELSE /\ Fulfil(w)
         /\ UNCHANGED <<unsaved, prompt, saving>>

ChangeTab(t) ==
    /\ Shell /\ t \in AllowedTabs(profile, workspace) /\ prompt = NoPrompt
    /\ IF t = ShownTab
       THEN /\ activeTab' = t
            /\ UNCHANGED <<session, nav, queue, sequence, unsaved, prompt, saving, upset>>
       ELSE Asks(Wish("tab", t))

Notified(n) ==
    /\ Shell /\ prompt = NoPrompt
    /\ Asks(Wish("notification", n))

\* The timeline opens a step in the contracts, without asking.
OpenTimelineNode ==
    /\ Shell /\ ShownTab = "timeline"
    /\ QueueTab("contracts", Wish("notification", "step"))
    /\ UNCHANGED <<session, unsaved, prompt, saving, upset>>

\* The event of a feature chooses its tab at once: no question is asked, and what
\* waits in the queue stays.  Only the cash book is made to be opened so; no screen sends the event yet,
\* so the action is what its listener does.
NavigateFromFeature ==
    /\ Shell /\ activeTab' = "cashflow"
    /\ upset' = (upset \/ nav # NoNav)
    /\ LeavesContracts(profile, workspace, "cashflow")
    /\ UNCHANGED <<session, nav, queue, sequence>>

-----------------------------------------------------------------------------
EditContract ==
    /\ Shell /\ ShownTab = "contracts" /\ prompt = NoPrompt
    /\ nav # NoNav => nav.tab # "contracts"      \* mounted: what was pending is delivered
    /\ unsaved' = TRUE
    /\ UNCHANGED <<session, activeTab, nav, queue, sequence, prompt, saving, upset>>

SaveBusy == \E a \in saving : a.here
PromptOpen == prompt # NoPrompt

\* The question: stay, which Escape answers in the middle of a save too; discard;
\* or save and then go.
StayHere ==
    /\ PromptOpen
    /\ prompt' = NoPrompt
    /\ saving' = {[a EXCEPT !.waits = @ /\ ~a.here] : a \in saving}
    /\ UNCHANGED <<session, activeTab, nav, queue, sequence, unsaved, upset>>

DiscardAndGo ==
    /\ PromptOpen /\ ~SaveBusy
    /\ prompt' = NoPrompt /\ unsaved' = FALSE
    /\ Fulfil(prompt)
    /\ UNCHANGED saving

SaveAndGo ==
    /\ PromptOpen /\ ~SaveBusy /\ Cardinality(saving) < Savings
    /\ saving' = saving \cup {[wish |-> prompt, here |-> TRUE, waits |-> TRUE]}
    /\ UNCHANGED <<session, activeTab, nav, queue, sequence, unsaved, prompt, upset>>

\* The save is done, and what waited for it happens, even if the screen is gone by
\* then.  One whose question was answered meanwhile takes the next question away.
SaveDone(a) ==
    /\ a \in saving /\ saving' = saving \ {a}
    /\ prompt' = IF a.here THEN NoPrompt ELSE prompt
    /\ IF a.waits THEN Fulfil(a.wish)
       ELSE UNCHANGED <<session, activeTab, nav, queue, sequence, upset>>
    /\ \/ a.here /\ unsaved' = FALSE
       \/ a.here /\ ~a.waits /\ UNCHANGED unsaved       \* edited since
       \/ /\ ~a.here
          /\ unsaved' = (unsaved /\ Effective(profile, workspace', activeTab') = "contracts")

SaveFails(a) ==
    /\ a \in saving /\ saving' = saving \ {a}
    /\ UNCHANGED <<session, activeTab, nav, queue, sequence, unsaved, prompt, upset>>

-----------------------------------------------------------------------------
\* Broken: the tab stays where it is for the next navigation.
ShowOld(n) == UNCHANGED activeTab

\* The tab of the next navigation.
Show(n) == IF n # NoNav THEN activeTab' = n.tab ELSE UNCHANGED activeTab

\* The screen is mounted: its event goes out, and the next navigation begins.
DeliverNavigation ==
    /\ Shell /\ nav # NoNav /\ nav.tab = ShownTab
    /\ LET next == IF queue = <<>> THEN NoNav ELSE Head(queue) IN
       /\ nav' = next
       /\ queue' = IF queue = <<>> THEN <<>> ELSE Tail(queue)
       /\ Show(next)
       /\ LeavesContracts(profile, workspace,
                          IF next = NoNav THEN activeTab ELSE next.tab)
    /\ UNCHANGED <<session, sequence, upset>>

ShellNext ==
    \/ \E p \in Profiles : LogIn(p) \/ Validated(p)
    \/ TimerFires \/ ValidationFails \/ RetrySession \/ LogOut
    \/ \E t \in AllTabs : ChangeTab(t)
    \/ \E n \in {"voucher", "rollback", "step"} : Notified(n)
    \/ OpenTimelineNode \/ NavigateFromFeature \/ EditContract \/ StayHere \/ DiscardAndGo \/ SaveAndGo
    \/ DeliverNavigation
    \/ \E a \in saving : SaveDone(a) \/ SaveFails(a)

ShellSpec == ShellInit /\ [][ShellNext]_shellVars

-----------------------------------------------------------------------------
Navigations == [id : 1..Asked, tab : Targets, login : 1..Logins]
Wishes ==
    [kind : {"tab"}, to : AllTabs, profile : Profiles, workspace : Workspaces,
     login : 1..Logins] \cup
    [kind : {"notification"}, to : {"voucher", "rollback", "step"},
     profile : Profiles, workspace : Workspaces, login : 1..Logins]

ShellTypeOK ==
    /\ login \in 0..Logins /\ signedIn \in BOOLEAN
    /\ profile \in Profiles \cup {Nobody} /\ workspace \in Workspaces
    /\ sessionLoading \in BOOLEAN /\ checking \in BOOLEAN
    /\ activeTab \in AllTabs
    /\ nav \in Navigations \cup {NoNav} /\ queue \in Seq(Navigations)
    /\ sequence \in 0..Asked
    /\ unsaved \in BOOLEAN /\ upset \in BOOLEAN
    /\ prompt \in Wishes \cup {NoPrompt}
    /\ saving \subseteq [wish : Wishes, here : BOOLEAN, waits : BOOLEAN]

\* A navigation under way was asked for in this sign-in and is for the tab that is
\* shown, so that it is delivered, and what waits behind it is of this sign-in too;
\* unless /me answered after it began, a feature moved the tab, the workspace changed,
\* or the handler that asked for it closed over a profile that is no longer so.
NavigationShown ==
    ~upset =>
        /\ nav # NoNav => signedIn /\ nav.login = login /\ (Shell => nav.tab = ShownTab)
        /\ \A i \in DOMAIN queue : queue[i].login = login

=============================================================================
