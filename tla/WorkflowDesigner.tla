-------------------------- MODULE WorkflowDesigner --------------------------
(***************************************************************************)
(* The workflow screen of a contract (ContractWorkspace.jsx), with the     *)
(* designer it holds (ContractWorkflowDesigner.jsx), the guard of unsaved  *)
(* changes (lib/unsavedChangesGuard.js) and the draft and active revisions *)
(* behind them.  One screen, one contract of several lines; another        *)
(* director saves and applies too.  A drawing is the line it was begun for *)
(* and a number.                                                           *)
(***************************************************************************)
EXTENDS Naturals, FiniteSets

CONSTANTS
    Lines,      \* the contract's lines
    FirstLine,  \* the one the screen opens with
    Nil,        \* no drawing, no line, nothing remembered
    Away,       \* a place outside this screen
    DesignerSlots, \* requests under way at once (a bound)
    MaxDrawing, \* drawings of a behaviour (a bound)
    DesignerScenes \* [lines, running, places, ops, others, slots, drawings]: the
                \* lines in play, those running, where one goes, what the director
                \* and another one do, and the bounds of the scene

Drawing == [line : Lines, no : 0..MaxDrawing]

ASSUME DesignerAssumption ==
    /\ FirstLine \in Lines /\ Nil \notin Lines \cup Drawing
    /\ Away \notin Lines \cup {Nil} /\ MaxDrawing \in Nat
    /\ \A s \in DesignerScenes :
        /\ FirstLine \in s.lines /\ s.lines \subseteq Lines
        /\ s.slots \subseteq DesignerSlots /\ s.drawings \in 0..MaxDrawing
        /\ s.others \subseteq {"save", "activate", "end"}

VARIABLES
    designerScene, \* the instance, chosen at the start
    server,     \* server[l]: the draft and the active revision, ended
    known,      \* workspace: what the screen last loaded, like server
    fetch,      \* the answer on its way: whoever asks meanwhile joins it
    screen,     \* the mounted screen
    calls,      \* calls[i]: the requests under way
    past,       \* historyRef: the drawings undo brings back, over every line
    next,       \* number of the next drawing
    kept        \* history: the drawings lines start with or the server accepted

designerVars ==
    <<designerScene, server, known, fetch, screen, calls, past, next, kept>>

-----------------------------------------------------------------------------
BlankGraph(l) == [line |-> l, no |-> 0]  \* the template's, or makeFallbackGraph
NoRequest == [phase |-> "idle"]

\* graphToFlow of the revision the read model prefers: the draft, else the
\* active one, else the template.
Parsed(w, l) ==
    IF w[l].draft # Nil THEN w[l].draft
    ELSE IF w[l].active # Nil THEN w[l].active ELSE BlankGraph(l)
HasActiveRuntime(w, l) == w[l].active # Nil
Drafting(w, l) == ~w[l].ended /\ (HasActiveRuntime(w, l) => w[l].draft # Nil)
StructureEditable ==
    /\ ~known[screen.line].ended
    /\ HasActiveRuntime(known, screen.line) => screen.edit
HasUnsavedChanges == StructureEditable /\ screen.canvas # screen.saved

\* Broken: a load replaces the drawing in edit mode too.
SyncedAlways(w, l, c, em) ==
    LET p == Parsed(w, l) IN
    [screen EXCEPT !.line = l, !.canvas = p, !.saved = p,
                   !.edit = IF l = screen.line THEN em ELSE Drafting(w, l)]

\* What the screen's effects make of workspace w, line l, drawing c and edit
\* mode em: outside edit mode everything is replaced; a change of line resets
\* the mode, and the drawing only if the mode was or becomes off.
Synced(w, l, c, em) ==
    LET p == Parsed(w, l) IN
    IF l = screen.line
    THEN [screen EXCEPT !.canvas = IF em THEN c ELSE p, !.edit = em,
                        !.saved = IF em THEN @ ELSE p]
    ELSE [screen EXCEPT !.line = l, !.edit = Drafting(w, l), !.saved = p,
                        !.canvas = IF em /\ Drafting(w, l) THEN c ELSE p]

\* A screen mounted on workspace w.
Mounted(w) ==
    [open |-> TRUE, line |-> FirstLine, canvas |-> Parsed(w, FirstLine),
     saved |-> Parsed(w, FirstLine), edit |-> Drafting(w, FirstLine),
     prompt |-> Nil, target |-> Nil]

NoScreen ==
    [open |-> FALSE, line |-> FirstLine, canvas |-> BlankGraph(FirstLine),
     saved |-> BlankGraph(FirstLine), edit |-> FALSE, prompt |-> Nil,
     target |-> Nil]

DesignerInit ==
    /\ designerScene \in DesignerScenes
    /\ server = [l \in Lines |->
            [draft |-> Nil, ended |-> FALSE,
             active |-> IF l \in designerScene.running THEN BlankGraph(l) ELSE Nil]]
    /\ known = server
    /\ fetch = NoRequest
    /\ screen = Mounted(server)
    /\ calls = [i \in DesignerSlots |-> NoRequest]
    /\ past = {} /\ next = 1
    /\ kept = {BlankGraph(l) : l \in Lines}

-----------------------------------------------------------------------------
(* Loading the workspace.                                                  *)

\* apiFetch: joins the read under way, else answers from the read cache, which
\* holds the body last loaded, else asks the server.
AskWorkspace ==
    IF fetch.phase # "idle" THEN UNCHANGED fetch
    ELSE \E w \in {server, known} : fetch' = [phase |-> "answered", body |-> w]

\* loadWorkspace on the SSE event, on focus, or when the tab becomes visible.
RefreshWorkspace ==
    /\ screen.open /\ fetch.phase = "idle"
    /\ AskWorkspace
    /\ UNCHANGED <<designerScene, server, known, screen, calls, past, next, kept>>

\* The answer becomes the workspace, and moves to the target of a notification
\* that was not consumed yet.
DeliverWorkspace ==
    /\ fetch.phase = "answered"
    /\ fetch' = NoRequest
    /\ IF screen.open
       THEN LET l == IF screen.target # Nil THEN screen.target
                     ELSE screen.line IN
            /\ known' = fetch.body
            /\ screen' = [Synced(fetch.body, l, screen.canvas, screen.edit)
                            EXCEPT !.target = Nil]
       ELSE UNCHANGED <<known, screen>>
    /\ UNCHANGED <<designerScene, server, calls, past, next, kept>>

FailWorkspace ==
    /\ fetch.phase # "idle"
    /\ fetch' = NoRequest
    /\ UNCHANGED <<designerScene, server, known, screen, calls, past, next, kept>>

-----------------------------------------------------------------------------
(* Drawing.                                                                *)

\* A change of the canvas; the history effect notes it 500 ms later.
Draw(g) ==
    /\ screen.open /\ screen.prompt = Nil /\ StructureEditable
    /\ next <= designerScene.drawings
    /\ screen' = [screen EXCEPT !.canvas = g]
    /\ past' = past \cup {screen.canvas, g}
    /\ next' = next + 1
    /\ UNCHANGED <<designerScene, server, known, fetch, calls, kept>>

\* onConnect, addCatalogNode, updateSelectedNode, deleteNode, ...: the next
\* drawing of the line the canvas was begun for.
EditGraph == Draw([screen.canvas EXCEPT !.no = next])
\* applyTemplate.
ApplyTemplate == Draw([line |-> screen.line, no |-> next])

\* applyHistorySnapshot; the keys work over an open dialog too.
Undo(g) ==
    /\ screen.open /\ StructureEditable
    /\ g \in past /\ g # screen.canvas
    /\ screen' = [screen EXCEPT !.canvas = g]
    /\ UNCHANGED <<designerScene, server, known, fetch, calls, past, next, kept>>

-----------------------------------------------------------------------------
(* Going elsewhere.                                                        *)

\* The button of another line is not here: its handler calls xinPhepRoiDi, which
\* the module never imports, and throws before it asks or selects anything.

\* What a granted request does to screen s: a notification's line is selected at
\* once while the memory cache answers, else by the next load; or the screen is
\* left, and what is under way no longer reaches it.
Lost(cs) ==
    [i \in DesignerSlots |-> IF cs[i].phase = "idle" THEN NoRequest
                             ELSE [cs[i] EXCEPT !.lost = TRUE]]
Leave(cs) == screen' = NoScreen /\ calls' = Lost(cs) /\ UNCHANGED fetch
Arrive(to, s) ==
    IF to = Away THEN Leave(calls)
    ELSE LET shown == Synced(known, to, s.canvas, s.edit)
             there == IF to = s.line THEN [shown EXCEPT !.saved = s.saved]
                      ELSE shown
         IN /\ screen' \in {[s EXCEPT !.prompt = Nil, !.target = to],
                            [there EXCEPT !.prompt = Nil, !.target = Nil]}
            /\ AskWorkspace
            /\ UNCHANGED calls

\* requestNavigationPermission, for a notification, another tab or "back".
Navigate(to) ==
    /\ screen.open /\ screen.prompt = Nil
    /\ IF HasUnsavedChanges
       THEN /\ screen' = [screen EXCEPT !.prompt = to]
            /\ UNCHANGED <<fetch, calls>>
       ELSE Arrive(to, screen)
    /\ UNCHANGED <<designerScene, server, known, past, next, kept>>

Awaited(kind) ==
    \E i \in DesignerSlots :
        calls[i].phase # "idle" /\ calls[i].kind = kind /\ ~calls[i].lost

\* handleNavigationPromptChoice, without saving.
Stay ==
    /\ screen.prompt # Nil /\ ~Awaited("save")
    /\ screen' = [screen EXCEPT !.prompt = Nil]
    /\ UNCHANGED <<designerScene, server, known, fetch, calls, past, next, kept>>
Discard ==
    LET p == Parsed(known, screen.line) IN
    /\ screen.prompt # Nil /\ ~Awaited("save")
    /\ Arrive(screen.prompt, [screen EXCEPT !.canvas = p, !.saved = p])
    /\ UNCHANGED <<designerScene, server, known, past, next, kept>>

OpenScreen ==
    /\ ~screen.open
    /\ \E w \in {known, server} : known' = w /\ screen' = Mounted(w)
    /\ past' = {}
    /\ UNCHANGED <<designerScene, server, fetch, calls, next, kept>>

\* The shell takes the screen away and asks nobody: the sign-out, by the button or
\* because some request was answered 401; /me, answered late, which begins at Home;
\* the event of a feature that moves the tab.  A sign-out drops the read under way.
TakenAway ==
    /\ screen.open /\ Away \in designerScene.places
    /\ screen' = NoScreen /\ calls' = Lost(calls)
    /\ fetch' \in {fetch, NoRequest}
    /\ UNCHANGED <<designerScene, server, known, past, next, kept>>

-----------------------------------------------------------------------------
(* Requests.                                                               *)

SendRequest(i, kind, g, leave) ==
    /\ calls[i].phase = "idle" /\ kind \in designerScene.ops
    /\ calls' = [calls EXCEPT ![i] =
            [phase |-> "sent", kind |-> kind, line |-> screen.line, graph |-> g,
             base |-> IF kind = "begin" THEN Parsed(known, screen.line) ELSE g,
             leave |-> leave, lost |-> FALSE]]
    /\ UNCHANGED <<designerScene, server, known, fetch, screen, past, next, kept>>

\* saveDraft, by its button or by Ctrl+S, which does not wait for a save under
\* way; with leave, the dialog's "save, then leave".
SaveDraft(i, leave) ==
    /\ screen.open /\ StructureEditable
    /\ leave => screen.prompt # Nil /\ ~Awaited("save")
    /\ SendRequest(i, "save", screen.canvas, leave)

\* beginWorkflowEdit: a draft of the active revision.
BeginWorkflowEdit(i) ==
    /\ screen.open /\ screen.prompt = Nil /\ ~Awaited("begin")
    /\ HasActiveRuntime(known, screen.line) /\ ~known[screen.line].ended
    /\ ~screen.edit
    /\ SendRequest(i, "begin", known[screen.line].active, FALSE)

\* executeActivation.
Activate(i) ==
    /\ screen.open /\ screen.prompt = Nil /\ StructureEditable
    /\ ~Awaited("activate")
    /\ SendRequest(i, "activate", screen.canvas, FALSE)

\* cancelCurrentWorkflow.
CancelWorkflow(i) ==
    /\ screen.open /\ screen.prompt = Nil /\ ~Awaited("cancel")
    /\ HasActiveRuntime(known, screen.line) /\ ~known[screen.line].ended
    /\ SendRequest(i, "cancel", Nil, FALSE)

\* The server's side: one draft per line, no version asked for.
AfterWrite(row, c) ==
    CASE c.kind \in {"save", "begin"} -> [row EXCEPT !.draft = c.graph]
      [] c.kind = "activate" -> [row EXCEPT !.active = c.graph, !.draft = Nil]
      [] c.kind = "cancel" -> [row EXCEPT !.ended = TRUE]

ServerHandles(i) ==
    LET c == calls[i] IN
    /\ c.phase = "sent"
    /\ ~server[c.line].ended
    /\ c.kind = "cancel" => HasActiveRuntime(server, c.line)
    /\ server' = [server EXCEPT ![c.line] = AfterWrite(@, c)]
    /\ calls' = [calls EXCEPT ![i].phase = "done"]
    /\ kept' = kept \cup ({c.graph} \ {Nil})
    /\ UNCHANGED <<designerScene, known, fetch, screen, past, next>>

\* Refused, or lost on its way or back.
Fail(i) ==
    /\ calls[i].phase \in {"sent", "done"}
    /\ calls' = [calls EXCEPT ![i] = NoRequest]
    /\ UNCHANGED <<designerScene, server, known, fetch, screen, past, next, kept>>

\* Broken: a save calls everything saved that is drawn when its answer comes.
AfterAnswerAll(c, s) ==
    CASE c.kind = "save" -> [s EXCEPT !.saved = s.canvas]
      [] c.kind = "begin" -> [s EXCEPT !.edit = TRUE, !.saved = c.base]
      [] c.kind = "activate" -> [s EXCEPT !.edit = FALSE]
      [] c.kind = "cancel" -> s

\* The answer: fingerprint and mode, whatever line is on the screen by now, and
\* onPersisted, which loads again without clearing the read cache.
AfterAnswer(c, s) ==
    CASE c.kind = "save" -> [s EXCEPT !.saved = c.graph]
      [] c.kind = "begin" -> [s EXCEPT !.edit = TRUE, !.saved = c.base]
      [] c.kind = "activate" ->
            [s EXCEPT !.edit = FALSE, !.canvas = Parsed(known, s.line),
                      !.saved = Parsed(known, s.line)]
      [] c.kind = "cancel" -> s
DeliverAnswer(i) ==
    LET c == calls[i]
        s == AfterAnswer(c, screen)
        rest == [calls EXCEPT ![i] = NoRequest]
        onPersisted == AskWorkspace /\ calls' = rest
    IN
    /\ c.phase = "done"
    /\ \/ c.lost /\ calls' = rest /\ UNCHANGED <<fetch, screen>>
       \/ /\ ~c.lost /\ c.leave /\ s.prompt = Away
          /\ Leave(rest)
       \/ /\ ~c.lost /\ c.leave /\ s.prompt # Away
          /\ screen' = [s EXCEPT !.prompt = Nil, !.target = s.prompt]
          /\ onPersisted
       \/ /\ ~c.lost /\ ~c.leave
          /\ screen' = s
          /\ onPersisted
    /\ UNCHANGED <<designerScene, server, known, past, next, kept>>

-----------------------------------------------------------------------------
(* Another director, and the employees whose last step completes a line.   *)

OtherWrites(l, kind) ==
    /\ ~server[l].ended
    /\ kind = "end" => HasActiveRuntime(server, l)
    /\ kind # "end" => next <= designerScene.drawings
    /\ LET g == [line |-> l, no |-> next] IN
       /\ server' = [server EXCEPT ![l] =
                        IF kind = "end" THEN [@ EXCEPT !.ended = TRUE]
                        ELSE AfterWrite(@, [kind |-> kind, graph |-> g])]
       /\ kept' = IF kind = "end" THEN kept ELSE kept \cup {g}
       /\ next' = IF kind = "end" THEN next ELSE next + 1
    /\ UNCHANGED <<designerScene, known, fetch, screen, calls, past>>

DesignerNext ==
    \/ RefreshWorkspace \/ DeliverWorkspace \/ FailWorkspace
    \/ EditGraph \/ ApplyTemplate \/ \E g \in past : Undo(g)
    \/ Stay \/ Discard \/ OpenScreen \/ TakenAway
    \/ \E to \in (designerScene.lines \cup {Away}) \cap designerScene.places :
        Navigate(to)
    \/ \E i \in designerScene.slots :
        \/ \E leave \in BOOLEAN : SaveDraft(i, leave)
        \/ BeginWorkflowEdit(i) \/ Activate(i) \/ CancelWorkflow(i)
        \/ ServerHandles(i) \/ Fail(i) \/ DeliverAnswer(i)
    \/ \E l \in designerScene.lines, kind \in designerScene.others :
        OtherWrites(l, kind)

DesignerSpec == DesignerInit /\ [][DesignerNext]_designerVars

-----------------------------------------------------------------------------
Revisions ==
    [Lines -> [draft : Drawing \cup {Nil}, active : Drawing \cup {Nil}, ended : BOOLEAN]]
Screen ==
    [open : BOOLEAN, line : Lines, canvas : Drawing, saved : Drawing, edit : BOOLEAN,
     prompt : Lines \cup {Away, Nil}, target : Lines \cup {Nil}]
DesignerRequest == {NoRequest} \cup
    [phase : {"sent", "done"}, kind : {"save", "begin", "activate", "cancel"},
     line : Lines, graph : Drawing \cup {Nil}, base : Drawing \cup {Nil},
     leave : BOOLEAN, lost : BOOLEAN]

DesignerTypeOK ==
    /\ designerScene \in DesignerScenes
    /\ server \in Revisions /\ known \in Revisions
    /\ fetch \in {NoRequest} \cup [phase : {"answered"}, body : Revisions]
    /\ screen \in Screen
    /\ calls \in [DesignerSlots -> DesignerRequest]
    /\ past \cup kept \subseteq Drawing /\ next \in 1..(MaxDrawing + 1)

\* A drawing in edit mode that no server accepted yet goes from the screen, or
\* the screen from under it, only by the director's own edit, undo or discard;
\* by the answer of a request he drew under; or by the load of a notification
\* he followed before he drew; or because the shell takes the screen away, which
\* asks nobody (registerUnsavedChangesGuard, the sync effect,
\* handleNavigationPromptChoice; handleLogout, the tab set without asking).
Overtaken(c) == c.phase = "done" /\ c.graph # screen.canvas
UnsavedSurvives ==
    [][(/\ screen.open /\ screen.edit /\ HasUnsavedChanges
        /\ screen.canvas \notin kept
        /\ \/ screen'.canvas # screen.canvas
           \/ screen'.line # screen.line
           \/ ~screen'.open)
            => \/ EditGraph \/ ApplyTemplate \/ Discard \/ \E g \in past : Undo(g)
               \/ \E i \in DesignerSlots : Overtaken(calls[i]) /\ DeliverAnswer(i)
               \/ screen.target # Nil /\ DeliverWorkspace
               \/ TakenAway]_designerVars

\* A screen where the structure may be edited and nothing is called unsaved
\* shows a drawing a line started with or the server accepted: over edits made
\* while a save is under way, late answers, changes of line and of edit mode
\* (savedFingerprint, hasUnsavedChanges).
CleanIsAccepted ==
    screen.open /\ StructureEditable /\ ~HasUnsavedChanges
        => screen.canvas \in kept

=============================================================================
