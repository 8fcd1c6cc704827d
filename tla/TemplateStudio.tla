--------------------------- MODULE TemplateStudio ---------------------------
(***************************************************************************)
(* The studio of the workflow templates (MasterWorkflowStudio.jsx) and the *)
(* template rows behind it (routes_contracts.py).  The director picks a    *)
(* combo of package and task type, whose templates are loaded through the  *)
(* read cache of api.js, edits one on the canvas, and saves, clones or     *)
(* deletes it.  Nothing on the screen waits for a load, a load that is     *)
(* late still fills the canvas, and the three kinds of write overlap.      *)
(***************************************************************************)
EXTENDS StudioConstants, FiniteSets

VARIABLES
    studioScene, \* the instance, chosen at the start
    stored,     \* stored[t]: the row, None before it exists, Erased after
    sel,        \* the combo selected
    list,       \* templates: the rows of the last load, by id
    listOf,     \* the combo that load asked for
    chosen,     \* selectedTemplateId
    canvas,     \* nodes, edges and startNode
    listings,   \* the loads under way
    copies,     \* copies[c]: the list of a combo readCache or localStorage holds
    posts,      \* the writes under way: a save, a clone, a deletion
    edits,
    rivals,     \* the drawings other directors may still store
    shown,      \* history: the combo the canvas was filled for
    dirty,      \* history: the canvas was edited since
    lost        \* history: the list does not show a write of its combo

shownVars == <<list, listOf, chosen, canvas, shown, dirty>>
sharedVars == <<stored, rivals>>
studioVars ==
    <<studioScene, sel, edits, lost, listings, copies, posts, shownVars, sharedVars>>

-----------------------------------------------------------------------------
Loads == studioScene.loads
New == "NEW"
Empty == [nodes |-> {}, edges |-> {}, start |-> NoStep]
Present(row) == row \notin {None, Erased}
Listed(rows, c) ==
    [t \in {t \in Templates : Present(rows[t]) /\ rows[t].combo = c} |-> rows[t].graph]

\* A load is in inFlight ("net"), was taken out of it ("gone"), joined another,
\* was answered by the cache ("copy"), or is read behind somebody's back and
\* ends in the cache only ("silent").
NoListing == [phase |-> "idle"]
Listing(c, want, saver, via) ==
    [phase |-> "sent", combo |-> c, want |-> want, saver |-> saver, via |-> via]
Hit(c, want, saver, old) ==
    [phase |-> "answered", combo |-> c, want |-> want, saver |-> saver, via |-> "copy",
     list |-> old.list, late |-> old.late]
NoPost == [phase |-> "idle"]

\* What an earlier visit left in localStorage: the rows, or a list older than they.
Restored(c) ==
    {None} \cup [list : {Listed(stored, c)}, late : {FALSE}, held : {FALSE}]
           \cup [list : {<< >>}, late : {TRUE}, held : {FALSE}]

StudioInit ==
    /\ studioScene \in StudioScenes
    /\ stored \in [Templates -> {None} \cup [combo : studioScene.combos, graph : {Starter}]]
    /\ \A t \in Templates \ studioScene.rows : stored[t] = None
    /\ \E c \in studioScene.combos :
        /\ sel = c /\ listOf = c /\ shown = c
        /\ \E old \in Restored(c) : copies = [d \in Combos |-> IF d = c THEN old ELSE None]
    /\ listings = [l \in Loads |-> NoListing] /\ posts = [w \in PostKinds |-> NoPost]
    /\ list = << >> /\ chosen = None /\ canvas = Empty
    /\ edits = 0 /\ rivals = studioScene.rivals /\ dirty = FALSE /\ lost = FALSE

-----------------------------------------------------------------------------
(* Loads.                                                                  *)

FreeListing(l) == listings[l].phase = "idle"
InFlight(c) ==
    {l \in Loads : ~FreeListing(l) /\ listings[l].via = "net" /\ listings[l].combo = c}

\* loadTemplates, up to its request, with the read of apiFetch: the cached list,
\* read again in the background once it has aged; the read in flight; a new one.
AskList(l, c, want, saver) ==
    /\ FreeListing(l)
    /\ IF copies[c] # None
       THEN LET served == [listings EXCEPT ![l] = Hit(c, want, saver, copies[c])] IN
            \/ listings' = served
            \/ \E k \in Loads \ {l} :
                /\ FreeListing(k) /\ InFlight(c) = {}
                /\ listings' = [served EXCEPT ![k] = Listing(c, None, None, "silent")]
       ELSE \/ \E k \in InFlight(c) :
                listings' = [listings EXCEPT ![l] = [listings[k] EXCEPT
                                 !.want = want, !.saver = saver, !.via = "join"]]
            \/ /\ InFlight(c) = {}
               /\ listings' = [listings EXCEPT ![l] = Listing(c, want, saver, "net")]

\* handleSelectPackage, the task type's select: the old canvas stays until the
\* answer of the load the effect starts.
SelectCombo(c, l) ==
    /\ c # sel
    /\ sel' = c
    /\ AskList(l, c, None, None)
    /\ UNCHANGED <<studioScene, edits, lost, copies, posts, shownVars, sharedVars>>

\* The effect when the studio opens, and again when reloadCatalogTree made a new
\* package tree and with it a new loadTemplates, whatever is being edited.
CatalogChanged(l) ==
    /\ AskList(l, sel, None, None)
    /\ UNCHANGED <<studioScene, sel, edits, lost, copies, posts, shownVars, sharedVars>>

\* Another tab reads the list, which localStorage shares.
TabReads(l, c) ==
    /\ studioScene.tabs /\ FreeListing(l)
    /\ listings' = [listings EXCEPT ![l] = Listing(c, None, None, "silent")]
    /\ UNCHANGED <<studioScene, sel, edits, lost, copies, posts, shownVars, sharedVars>>

\* The copy has lived its time, or another tab wrote.
CopyEnds(c) ==
    /\ copies[c] # None
    /\ copies' = [copies EXCEPT ![c] = None]
    /\ UNCHANGED <<studioScene, sel, edits, lost, listings, posts, shownVars, sharedVars>>

ServerLists(l) ==
    /\ listings[l].phase = "sent"
    /\ listings' = [listings EXCEPT ![l] = [phase |-> "answered", combo |-> @.combo,
            want |-> @.want, saver |-> @.saver, via |-> @.via,
            list |-> Listed(stored, @.combo), late |-> FALSE]]
    /\ UNCHANGED <<studioScene, sel, edits, lost, copies, posts, shownVars, sharedVars>>

\* A read that is over leaves inFlight, with whatever stands there under its path.
Over(l) ==
    [k \in Loads |->
        IF k = l THEN NoListing
        ELSE IF listings[l].via \in {"net", "gone"} /\ k \in InFlight(listings[l].combo)
             THEN [listings[k] EXCEPT !.via = "gone"] ELSE listings[k]]
Freed(l) == [w \in PostKinds |-> IF listings[l].saver = w THEN NoPost ELSE posts[w]]

\* The body is kept, also where a write has been sent since it was read.
Cached(l) ==
    LET a == listings[l] IN
    IF a.via \notin {"net", "gone", "silent"} THEN copies
    ELSE [copies EXCEPT ![a.combo] = [list |-> a.list, late |-> a.late,
              held |-> \E w \in PostKinds : posts[w].phase = "sent"]]

\* The answer fills list and canvas for whatever combo is selected by now:
\* the wanted row, else the default one, else the starter flow.
DeliverList(l) ==
    LET a == listings[l] IN
    /\ a.phase = "answered" /\ a.via # "silent"
    /\ list' = a.list /\ listOf' = a.combo
    /\ IF DOMAIN a.list = {}
       THEN chosen' = New /\ canvas' = Starter
       ELSE \E t \in IF a.want \in DOMAIN a.list THEN {a.want} ELSE DOMAIN a.list :
                chosen' = t /\ canvas' = a.list[t]
    /\ shown' = a.combo /\ dirty' = FALSE
    /\ listings' = Over(l) /\ copies' = Cached(l) /\ posts' = Freed(l)
    /\ lost' = a.late
    /\ UNCHANGED <<studioScene, sel, edits, sharedVars>>

DeliverSilently(l) ==
    /\ listings[l].phase = "answered" /\ listings[l].via = "silent"
    /\ listings' = Over(l) /\ copies' = Cached(l)
    /\ UNCHANGED <<studioScene, sel, edits, lost, posts, shownVars, sharedVars>>

\* Only a toast: list and canvas stay as they are.
ListFails(l) ==
    /\ ~FreeListing(l) /\ listings[l].via # "copy"
    /\ listings' = Over(l) /\ posts' = Freed(l)
    /\ lost' = (lost \/ listings[l].saver # None)
    /\ UNCHANGED <<studioScene, sel, edits, copies, shownVars, sharedVars>>

-----------------------------------------------------------------------------
(* The canvas.                                                             *)

Fill(t, g, c) ==
    /\ chosen' = t /\ canvas' = g /\ shown' = c /\ dirty' = FALSE
    /\ UNCHANGED <<studioScene, sel, edits, lost, list, listOf, listings, copies, posts,
                   sharedVars>>

\* Broken: the new template keeps the id of the one shown before.
CreateNewKeepsId == chosen # None /\ Fill(chosen, Starter, sel)

\* handleSelectTemplate, handleCreateNew: no question about unsaved edits.
SelectTemplate(t) == t \in DOMAIN list /\ Fill(t, list[t], listOf)
CreateNew == chosen # None /\ Fill(New, Starter, sel)

\* handleDuplicate: the canvas stays, its next save creates a row.
Duplicate ==
    /\ chosen \in Templates
    /\ chosen' = New
    /\ UNCHANGED <<studioScene, sel, edits, lost, list, listOf, canvas, shown, dirty,
                   listings, copies, posts, sharedVars>>

Edit(g) ==
    /\ chosen # None /\ edits < studioScene.edits
    /\ canvas' = g
    /\ dirty' = TRUE /\ edits' = edits + 1
    /\ UNCHANGED <<studioScene, sel, lost, list, listOf, chosen, shown, listings, copies,
                   posts, sharedVars>>

\* handleConnect.
Connect(a, b) ==
    /\ {a, b} \subseteq canvas.nodes
    /\ MayConnect(a, b, canvas.edges)
    /\ Edit([canvas EXCEPT !.edges = @ \cup {<<a, b>>}])

Disconnect(e) == e \in canvas.edges /\ Edit([canvas EXCEPT !.edges = @ \ {e}])

\* handleAddNewCustomNode.
AddStep(n) == n \notin canvas.nodes /\ Edit([canvas EXCEPT !.nodes = @ \cup {n}])

\* handleDeleteNode: the start node may be the one that goes.
DeleteStep(n) ==
    /\ n \in canvas.nodes
    /\ Edit([canvas EXCEPT !.nodes = @ \ {n}, !.edges = WithoutStep(@, n)])

SetStart(n) == n \in canvas.nodes /\ Edit([canvas EXCEPT !.start = n])

-----------------------------------------------------------------------------
(* Writes.                                                                 *)

\* flowToGraphJson: a start that was never set becomes the first node.
Drawn ==
    IF canvas.start # NoStep THEN {canvas}
    ELSE {[canvas EXCEPT !.start = n] : n \in canvas.nodes}

\* Broken: what was read before the write stays in the cache.
AskToWriteKeepsCopies(w, request) ==
    /\ w \in studioScene.posts /\ posts[w].phase = "idle"
    /\ posts' = [posts EXCEPT ![w] = request]
    /\ UNCHANGED <<studioScene, sel, edits, lost, listings, copies, shownVars, sharedVars>>

\* apiFetch makes every list void, in the cache and in flight, before it sends.
\* `saving' and `cloning' stop a second write of their kind only; a deletion has
\* no such flag, and one at a time is the bound here.
AskToWrite(w, request) ==
    /\ w \in studioScene.posts /\ posts[w].phase = "idle"
    /\ posts' = [posts EXCEPT ![w] = request]
    /\ copies' = [c \in Combos |-> None]
    /\ listings' = [l \in Loads |-> IF ~FreeListing(l) /\ listings[l].via = "net"
                                    THEN [listings[l] EXCEPT !.via = "gone"]
                                    ELSE listings[l]]
    /\ UNCHANGED <<studioScene, sel, edits, lost, shownVars, sharedVars>>

\* handleSave: a new row, or the chosen row under the combo selected now.
SendSave ==
    /\ chosen # None
    /\ \E g \in Drawn : AskToWrite("save", [phase |-> "sent", id |-> chosen, combo |-> sel,
                                          graph |-> g, stray |-> shown # sel \/ lost])

\* handleDelete, handleExecuteClone.
SendDelete ==
    /\ chosen \in Templates
    /\ AskToWrite("delete", [phase |-> "sent", id |-> chosen, combo |-> sel])
SendClone(c) ==
    /\ chosen \in Templates
    /\ AskToWrite("clone", [phase |-> "sent", id |-> chosen, combo |-> c])

\* The screen gives up after 10 s; the server may still carry the write out.
GiveUp(w) ==
    /\ posts[w].phase = "sent"
    /\ posts' = [posts EXCEPT ![w].phase = "adrift"]
    /\ UNCHANGED <<studioScene, sel, edits, lost, listings, copies, shownVars, sharedVars>>

\* Refused, or lost on the way or on the way back: only a toast.
FailSave(w) ==
    /\ posts[w].phase \in {"sent", "adrift", "done"}
    /\ posts' = [posts EXCEPT ![w] = NoPost]
    /\ lost' = (lost \/ posts[w].phase = "done")
    /\ UNCHANGED <<studioScene, sel, edits, listings, copies, shownVars, sharedVars>>

\* The answer: load again, with the saved row wanted.  A clone changes the
\* selected combo, whose effect takes part in the same read and then picks the
\* default.
DeliverSave(w, l) ==
    LET p == posts[w]
        moved == w = "clone" /\ p.combo # sel
    IN
    /\ p.phase = "done"
    /\ sel' = IF w = "clone" THEN p.combo ELSE sel
    /\ AskList(l, p.combo, IF moved THEN None ELSE p.id, w)
    /\ posts' = [posts EXCEPT ![w].phase = "reload"]
    /\ UNCHANGED <<studioScene, edits, lost, copies, shownVars, sharedVars>>

-----------------------------------------------------------------------------
(* The server.                                                             *)

\* validate_workflow_graph(require_connected=True).
Accepts(g) == Sound(g) /\ Connected(g)

Arriving(w) == posts[w].phase \in {"sent", "adrift"}
Unseen(w) == posts[w].phase = "adrift"
TemplateRow(w, g) == [combo |-> posts[w].combo, graph |-> g]

\* The rows become `rows'.  History: which answers, and which copies, no longer
\* show the rows of their combo: of the copies those that arrived while a write
\* was under way, and all where nobody here knows of the write.
RowsBecome(rows, unseen) ==
    LET Other(c) == Listed(rows, c) # Listed(stored, c) IN
    /\ stored' = rows
    /\ listings' = [l \in Loads |->
            IF listings[l].phase = "answered" /\ Other(listings[l].combo)
            THEN [listings[l] EXCEPT !.late = TRUE] ELSE listings[l]]
    /\ copies' = [c \in Combos |->
            IF copies[c] # None /\ Other(c) /\ (unseen \/ copies[c].held)
            THEN [copies[c] EXCEPT !.late = TRUE] ELSE copies[c]]
    /\ lost' = (lost \/ (unseen /\ Other(listOf)))

Store(w, rows, t) ==
    /\ RowsBecome(rows, Unseen(w))
    /\ posts' = [posts EXCEPT ![w] =
                   IF Unseen(w) THEN NoPost ELSE [@ EXCEPT !.phase = "done", !.id = t]]
    /\ UNCHANGED <<studioScene, sel, edits, rivals, shownVars>>

ServerCreates(t) ==
    /\ Arriving("save") /\ posts["save"].id = New
    /\ t \in studioScene.rows /\ stored[t] = None /\ Accepts(posts["save"].graph)
    /\ Store("save", [stored EXCEPT ![t] = TemplateRow("save", posts["save"].graph)], t)
ServerUpdates(t) ==
    /\ Arriving("save") /\ posts["save"].id = t
    /\ Present(stored[t]) /\ Accepts(posts["save"].graph)
    /\ Store("save", [stored EXCEPT ![t] = TemplateRow("save", posts["save"].graph)], t)
ServerDeletes(t) ==
    /\ Arriving("delete") /\ posts["delete"].id = t /\ Present(stored[t])
    /\ Store("delete", [stored EXCEPT ![t] = Erased], None)
ServerClones(s, t) ==
    /\ Arriving("clone") /\ posts["clone"].id = s /\ Present(stored[s])
    /\ t \in studioScene.rows /\ stored[t] = None /\ Accepts(stored[s].graph)
    /\ Store("clone", [stored EXCEPT ![t] = TemplateRow("clone", stored[s].graph)], t)

\* Another director, or another tab, creates, changes, moves or deletes a row.
RivalWrites(g, t) ==
    /\ g \in rivals /\ rivals' = rivals \ {g}
    /\ t \in studioScene.rows /\ stored[t] # Erased
    /\ \E row \in (IF stored[t] = None THEN {} ELSE {Erased})
                    \cup [combo : studioScene.combos, graph : {g}] :
           RowsBecome([stored EXCEPT ![t] = row], TRUE)
    /\ posts' = IF Arriving("save") THEN [posts EXCEPT !["save"].stray = TRUE] ELSE posts
    /\ UNCHANGED <<studioScene, sel, edits, shownVars>>

-----------------------------------------------------------------------------
StudioNext ==
    \/ \E l \in Loads :
        \/ ServerLists(l) \/ DeliverList(l) \/ DeliverSilently(l) \/ ListFails(l)
        \/ CatalogChanged(l)
        \/ \E w \in PostKinds : DeliverSave(w, l)
        \/ \E c \in studioScene.combos : SelectCombo(c, l) \/ TabReads(l, c)
    \/ \E c \in studioScene.combos : CopyEnds(c) \/ SendClone(c)
    \/ \E w \in PostKinds : GiveUp(w) \/ FailSave(w)
    \/ CreateNew \/ Duplicate \/ SendSave \/ SendDelete
    \/ \E t \in Templates :
        \/ SelectTemplate(t) \/ ServerCreates(t) \/ ServerUpdates(t) \/ ServerDeletes(t)
        \/ \E s \in Templates : ServerClones(s, t)
        \/ \E g \in studioScene.rivals : RivalWrites(g, t)
    \/ \E a, b \in Steps : Connect(a, b)
    \/ \E e \in Edge : Disconnect(e)
    \/ \E n \in Steps : AddStep(n) \/ DeleteStep(n) \/ SetStart(n)

StudioSpec == StudioInit /\ [][StudioNext]_studioVars

-----------------------------------------------------------------------------
StudioTypeOK ==
    /\ stored \in [Templates -> {None, Erased} \cup [combo : Combos, graph : Graph]]
    /\ sel \in Combos /\ listOf \in Combos /\ shown \in Combos
    /\ DOMAIN list \subseteq Templates /\ chosen \in Templates \cup {None, New}
    /\ canvas \in Graph /\ edits \in 0..studioScene.edits
    /\ \A c \in Combos : copies[c] # None => DOMAIN copies[c].list \subseteq Templates

\* Every stored template is one path from its start through all its steps: the
\* canvas lets no step have two ways in or out and no circle, the server wants
\* everything reached from a start that exists; neither would do alone.
StoredIsChain == \A t \in Templates : Present(stored[t]) => Chain(stored[t].graph)

\* A canvas nobody edited is the stored template it says it is, over overlapping
\* saves, clones and deletions, loads that overtake one another and lists from
\* the read cache.  Not while a write that was carried out has not been answered
\* and its reload not come, and not where the list is known to miss a write: one
\* of another director or one the screen gave up on; one whose answer or reload
\* failed; or one the load overlapped, be it that the body came before the write
\* was carried out and was delivered after, or that it reached the cache between
\* the sending of the write and its answer and was served from there, or that a
\* list in localStorage was old when the studio opened.  A list that was in the
\* cache before a write of this screen was sent is no such excuse.
CleanCanvasIsStored ==
    (/\ ~dirty /\ ~lost /\ chosen \in Templates
     /\ \A w \in PostKinds : posts[w].phase \in {"idle", "sent", "adrift"})
        => /\ Present(stored[chosen])
           /\ canvas = stored[chosen].graph

\* A template changes its combo only by another director's write, or by a save
\* astray: one sent while the canvas still showed another combo or a list that
\* misses a write (for the reasons CleanCanvasIsStored names), or one another
\* director's write overtook.
MovesOnlyAstray ==
    [][\A t \in Templates :
        (Present(stored[t]) /\ Present(stored'[t]) /\ stored[t].combo # stored'[t].combo)
            => rivals' # rivals \/ posts["save"].stray]_studioVars

=============================================================================
