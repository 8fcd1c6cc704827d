------------------------ MODULE TemplateStudio_proofs ------------------------
(***************************************************************************)
(* Whatever is drawn, loaded late, cloned or saved astray, every template  *)
(* row is one path from its start through all of its steps.  The rows      *)
(* travel through the lists, the canvas and the request under way, so the  *)
(* inductive invariant follows them there: a list only holds such paths, a *)
(* canvas may be cut but never forks, joins or runs in a circle.  And a    *)
(* canvas nobody edited is the row it says it is: for that the invariant   *)
(* follows which answers and which copies of the list miss a write.        *)
(***************************************************************************)
EXTENDS TemplateStudio, TLAPS

\* Two steps the canvas allows to be connected: still no fork, join or circle
\* (checkSequentialConnection with hasCyclePath).
LEMMA ConnectKeepsSequential ==
    ASSUME NEW E \in SUBSET Edge, Sequential(E),
           NEW a \in Steps, NEW b \in Steps, MayConnect(a, b, E)
    PROVE  Sequential(E \cup {<<a, b>>})
<1> DEFINE F == E \cup {<<a, b>>}
<1>1. OneWay(F)
  <2>1. \A e \in E : e[1] # a /\ e[2] # b  BY DEF MayConnect
  <2>2. \A e, f \in E : (e[1] = f[1] \/ e[2] = f[2]) => e = f
    BY DEF Sequential, OneWay
  <2>3. \A e \in F : e \in E \/ (e = <<a, b>> /\ e[1] = a /\ e[2] = b)  OBVIOUS
  <2> QED  BY <2>1, <2>2, <2>3 DEF OneWay
<1>2. Acyclic(F)
  <2> SUFFICES ASSUME NEW S \in SUBSET Steps, S # {}
               PROVE  \E n \in S : \A m \in S : <<n, m>> \notin F
    BY DEF Acyclic
  <2>1. PICK n \in S : \A m \in S : <<n, m>> \notin E
    BY DEF Sequential, Acyclic
  <2>2. CASE n # a \/ b \notin S
    BY <2>1, <2>2
  <2>3. CASE n = a /\ b \in S
    <3>1. PICK C \in SUBSET Steps : b \in C /\ Closed(C, E) /\ a \notin C
      BY DEF MayConnect, Reaches
    <3>2. S \cap C \in SUBSET Steps /\ S \cap C # {}  BY <2>3, <3>1
    <3>3. PICK k \in S \cap C : \A m \in S \cap C : <<k, m>> \notin E
      BY <3>2 DEF Sequential, Acyclic
    <3>4. ASSUME NEW m \in S, <<k, m>> \in E PROVE FALSE
      <4>1. m \in C  BY <3>1, <3>3, <3>4 DEF Closed
      <4> QED  BY <4>1, <3>3, <3>4
    <3>5. k # a  BY <3>1, <3>3
    <3> QED  BY <3>3, <3>4, <3>5
  <2> QED  BY <2>2, <2>3
<1> QED  BY <1>1, <1>2 DEF Sequential

\* Taking edges away keeps that (handleDeleteNode, the edge's delete button).
LEMMA CutKeepsSequential ==
    ASSUME NEW E, NEW F \in SUBSET E, Sequential(E)
    PROVE  Sequential(F)
BY DEF Sequential, OneWay, Acyclic

-----------------------------------------------------------------------------
Paths == {g \in Graph : Chain(g)}
Drawings == {g \in Graph : Sequential(g.edges)}
Lists == UNION {[D -> Paths] : D \in SUBSET Templates}
Id == Templates \cup {None, New}
RowState == {None, Erased} \cup [combo : Combos, graph : Paths]

Savers == PostKinds \cup {None}
AskedState ==
    [phase : {"sent"}, combo : Combos, want : Id, saver : Savers,
     via : {"net", "gone", "join", "silent"}]
AnswerState ==
    [phase : {"answered"}, combo : Combos, want : Id, saver : Savers,
     via : {"net", "gone", "join", "silent", "copy"}, late : BOOLEAN, list : Lists]
LoadState == {NoListing} \cup AskedState \cup AnswerState
CopyState == {None} \cup [list : Lists, late : BOOLEAN, held : BOOLEAN]
Phases == {"sent", "adrift", "done", "reload"}
SaveState ==
    [phase : Phases, id : Id, combo : Combos, graph : Drawings, stray : BOOLEAN]
MoveState == [phase : Phases, id : Id, combo : Combos]
PostState(w) == {NoPost} \cup (IF w = "save" THEN SaveState ELSE MoveState)

PostsTyped ==
    /\ posts \in [PostKinds -> {NoPost} \cup SaveState \cup MoveState]
    /\ \A w \in PostKinds : posts[w] \in PostState(w)

IInv ==
    /\ studioScene \in StudioScenes
    /\ stored \in [Templates -> RowState]
    /\ sel \in Combos /\ listOf \in Combos /\ shown \in Combos
    /\ list \in Lists /\ chosen \in Id
    /\ canvas \in Drawings
    /\ listings \in [Loads -> LoadState]
    /\ copies \in [Combos -> CopyState]
    /\ PostsTyped
    /\ edits \in 0..studioScene.edits /\ rivals \subseteq studioScene.rivals
    /\ dirty \in BOOLEAN /\ lost \in BOOLEAN

LEMMA PathsAreDrawings == Paths \subseteq Drawings /\ Starter \in Paths
BY StudioAssumption DEF Paths, Drawings, Chain

LEMMA EmptyIsDrawing == Empty \in Drawings
BY DEF Empty, Drawings, Graph, Sequential, OneWay, Acyclic

LEMMA EmptyIsList == << >> \in Lists
<1>1. << >> \in [{} -> Paths]  OBVIOUS
<1> QED  BY <1>1 DEF Lists

\* The rows of a combo, as the server lists them, are paths.
LEMMA RowsAreLists ==
    ASSUME NEW rows \in [Templates -> RowState], NEW c \in Combos
    PROVE  Listed(rows, c) \in Lists
<1> DEFINE D == {t \in Templates : Present(rows[t]) /\ rows[t].combo = c}
<1>1. D \in SUBSET Templates  OBVIOUS
<1>2. \A t \in D : rows[t].graph \in Paths  BY DEF Present, RowState
<1>3. [t \in D |-> rows[t].graph] \in [D -> Paths]  BY <1>2
<1> QED  BY <1>1, <1>3 DEF Lists, Listed

LEMMA InitIInv == StudioInit => IInv
<1> SUFFICES ASSUME StudioInit PROVE IInv  OBVIOUS
<1> USE DEF StudioInit
<1>1. studioScene \in StudioScenes /\ studioScene.combos \subseteq Combos /\ studioScene.edits \in Nat
  BY StudioAssumption
<1>2. stored \in [Templates -> RowState]
  BY <1>1, PathsAreDrawings DEF RowState
<1>3. listings \in [Loads -> LoadState]  BY DEF LoadState
<1>4. edits \in 0..studioScene.edits /\ rivals \subseteq studioScene.rivals  BY <1>1
<1>5. sel \in Combos /\ listOf \in Combos /\ shown \in Combos  BY <1>1
<1>6. PostsTyped  BY DEF PostsTyped, PostState
<1>7. list \in Lists /\ canvas \in Drawings /\ chosen \in Id
  BY EmptyIsList, EmptyIsDrawing DEF Id
<1>8. copies \in [Combos -> CopyState]
  <2>1. PICK c \in studioScene.combos :
            \E old \in Restored(c) : copies = [d \in Combos |-> IF d = c THEN old ELSE None]
    OBVIOUS
  <2>2. PICK old \in Restored(c) : copies = [d \in Combos |-> IF d = c THEN old ELSE None]
    BY <2>1
  <2>3. Listed(stored, c) \in Lists  BY <1>1, <1>2, RowsAreLists
  <2>4. old \in CopyState  BY <2>3, EmptyIsList DEF Restored, CopyState
  <2> QED  BY <2>2, <2>4 DEF CopyState
<1>9. dirty \in BOOLEAN /\ lost \in BOOLEAN  OBVIOUS
<1> QED
  BY <1>1, <1>2, <1>3, <1>4, <1>5, <1>6, <1>7, <1>8, <1>9 DEF IInv

\* An edit leaves a drawing a drawing.
LEMMA EditsKeepDrawing ==
    ASSUME IInv, NEW g \in Drawings, Edit(g)
    PROVE  IInv'
<1>1. edits + 1 \in 0..studioScene.edits
  BY StudioAssumption DEF IInv, Edit
<1> QED  BY <1>1 DEF IInv, Edit, Loads, sharedVars, PostsTyped

\* A load under way, whoever asked for it and whatever answers it.
LEMMA AskTyped ==
    ASSUME IInv, NEW l \in Loads, NEW c \in Combos, NEW want \in Id,
           NEW saver \in Savers, AskList(l, c, want, saver)
    PROVE  listings' \in [Loads -> LoadState]
<1> USE DEF IInv
<1>1. CASE copies[c] # None
  <2>1. copies[c] \in [list : Lists, late : BOOLEAN, held : BOOLEAN]  BY <1>1 DEF CopyState
  <2>2. Hit(c, want, saver, copies[c]) \in LoadState  BY <2>1 DEF Hit, LoadState, AnswerState
  <2>3. Listing(c, None, None, "silent") \in LoadState
    BY DEF Listing, LoadState, AskedState, Id, Savers
  <2> DEFINE served == [listings EXCEPT ![l] = Hit(c, want, saver, copies[c])]
  <2>4. served \in [Loads -> LoadState]  BY <2>2
  <2>5. \/ listings' = served
        \/ \E k \in Loads \ {l} : listings' = [served EXCEPT ![k] = Listing(c, None, None, "silent")]
    BY <1>1 DEF AskList
  <2> HIDE DEF served
  <2> QED  BY <2>3, <2>4, <2>5
<1>2. CASE copies[c] = None
  <2>1. Listing(c, want, saver, "net") \in LoadState  BY DEF Listing, LoadState, AskedState
  <2>2. ASSUME NEW k \in InFlight(c)
        PROVE  [listings[k] EXCEPT !.want = want, !.saver = saver, !.via = "join"] \in LoadState
    <3>1. k \in Loads /\ listings[k] \in AskedState \cup AnswerState
      BY DEF InFlight, FreeListing, LoadState, NoListing
    <3>2. CASE listings[k] \in AskedState  BY <3>2 DEF AskedState, LoadState
    <3>3. CASE listings[k] \in AnswerState  BY <3>3 DEF AnswerState, LoadState
    <3> QED  BY <3>1, <3>2, <3>3
  <2> QED  BY <1>2, <2>1, <2>2 DEF AskList
<1> QED  BY <1>1, <1>2

\* A load that is over.
LEMMA OverTyped ==
    ASSUME IInv, NEW l \in Loads
    PROVE  Over(l) \in [Loads -> LoadState]
<1>1. ASSUME NEW k \in InFlight(listings[l].combo)
      PROVE  [listings[k] EXCEPT !.via = "gone"] \in LoadState
  <2>1. k \in Loads /\ listings[k] \in AskedState \cup AnswerState
    BY DEF InFlight, FreeListing, LoadState, NoListing, IInv
  <2>2. CASE listings[k] \in AskedState  BY <2>2 DEF AskedState, LoadState
  <2>3. CASE listings[k] \in AnswerState  BY <2>3 DEF AnswerState, LoadState
  <2> QED  BY <2>1, <2>2, <2>3
<1> QED  BY <1>1 DEF Over, IInv, LoadState

LEMMA AnswerTyped ==
    ASSUME IInv, NEW l \in Loads, listings[l].phase = "answered"
    PROVE  listings[l] \in AnswerState
BY DEF IInv, LoadState, NoListing, AskedState

LEMMA CachedTyped ==
    ASSUME IInv, NEW l \in Loads, listings[l].phase = "answered"
    PROVE  Cached(l) \in [Combos -> CopyState]
<1>1. listings[l].list \in Lists /\ listings[l].late \in BOOLEAN
  BY AnswerTyped DEF AnswerState
<1> QED  BY <1>1 DEF Cached, CopyState, IInv

LEMMA FreedTyped ==
    ASSUME IInv, NEW l \in Loads, posts' = Freed(l)
    PROVE  PostsTyped'
BY DEF Freed, PostsTyped, PostState, IInv

\* The rows are written: what travels keeps its type.
LEMMA RowsBecomeTyped ==
    ASSUME IInv, NEW rows, NEW unseen \in BOOLEAN, RowsBecome(rows, unseen)
    PROVE  /\ listings' \in [Loads -> LoadState]
           /\ copies' \in [Combos -> CopyState]
           /\ lost' \in BOOLEAN
<1>1. ASSUME NEW l \in Loads, listings[l].phase = "answered"
      PROVE  [listings[l] EXCEPT !.late = TRUE] \in LoadState
  BY <1>1, AnswerTyped DEF AnswerState, LoadState
<1>2. listings' \in [Loads -> LoadState]  BY <1>1 DEF RowsBecome, IInv
<1>3. ASSUME NEW c \in Combos, copies[c] # None
      PROVE  [copies[c] EXCEPT !.late = TRUE] \in CopyState
  BY <1>3 DEF IInv, CopyState
<1>4. copies' \in [Combos -> CopyState]  BY <1>3 DEF RowsBecome, IInv
<1> QED  BY <1>2, <1>4 DEF RowsBecome, IInv

\* A write is sent: what it makes void keeps its type.
LEMMA SendTyped ==
    ASSUME IInv, NEW w \in PostKinds, NEW r \in PostState(w), AskToWrite(w, r)
    PROVE  IInv'
<1>1. copies' \in [Combos -> CopyState]  BY DEF AskToWrite, CopyState
<1>2. ASSUME NEW l \in Loads, listings[l].via = "net", ~FreeListing(l)
      PROVE  [listings[l] EXCEPT !.via = "gone"] \in LoadState
  <2>1. listings[l] \in AskedState \cup AnswerState
    BY <1>2 DEF FreeListing, LoadState, NoListing, IInv
  <2>2. CASE listings[l] \in AskedState  BY <2>2 DEF AskedState, LoadState
  <2>3. CASE listings[l] \in AnswerState  BY <2>3 DEF AnswerState, LoadState
  <2> QED  BY <2>1, <2>2, <2>3
<1>3. listings' \in [Loads -> LoadState]  BY <1>2 DEF AskToWrite, IInv
<1>4. PostsTyped'  BY DEF AskToWrite, PostsTyped, PostState, IInv
<1>5. UNCHANGED <<studioScene, sel, edits, lost, shownVars, sharedVars>>  BY DEF AskToWrite
<1> QED  BY <1>1, <1>3, <1>4, <1>5 DEF IInv, Loads, shownVars, sharedVars

\* A write moves on, and stays of its kind.
LEMMA PhaseTyped ==
    ASSUME IInv, NEW w \in PostKinds, NEW p \in Phases, posts[w].phase \in Phases,
           posts' = [posts EXCEPT ![w].phase = p]
    PROVE  PostsTyped'
<1>1. posts[w] \in IF w = "save" THEN SaveState ELSE MoveState
  BY DEF IInv, PostsTyped, PostState, NoPost, Phases
<1>2. [posts[w] EXCEPT !.phase = p] \in IF w = "save" THEN SaveState ELSE MoveState
  <2>1. CASE w = "save"  BY <1>1, <2>1 DEF SaveState
  <2>2. CASE w # "save"  BY <1>1, <2>2 DEF MoveState
  <2> QED  BY <2>1, <2>2
<1>3. posts' = [posts EXCEPT ![w] = [posts[w] EXCEPT !.phase = p]]  OBVIOUS
<1> QED  BY <1>2, <1>3 DEF IInv, PostsTyped, PostState

LEMMA StoreTyped ==
    ASSUME IInv, NEW rows \in [Templates -> RowState], NEW t \in Id, NEW w \in PostKinds,
           Store(w, rows, t), posts[w].phase \in Phases
    PROVE  IInv'
<1>1. Unseen(w) \in BOOLEAN  BY DEF Unseen
<1>2. /\ RowsBecome(rows, Unseen(w))
      /\ posts' = [posts EXCEPT ![w] =
                     IF Unseen(w) THEN NoPost ELSE [@ EXCEPT !.phase = "done", !.id = t]]
      /\ UNCHANGED <<studioScene, sel, edits, rivals, shownVars>>
  BY DEF Store
<1>3. PostsTyped'
  <2>1. posts[w] \in IF w = "save" THEN SaveState ELSE MoveState
    BY DEF IInv, PostsTyped, PostState, NoPost, Phases
  <2>2. [posts[w] EXCEPT !.phase = "done", !.id = t] \in IF w = "save" THEN SaveState ELSE MoveState
    <3>1. CASE w = "save"  BY <2>1, <3>1 DEF SaveState, Phases
    <3>2. CASE w # "save"  BY <2>1, <3>2 DEF MoveState, Phases
    <3> QED  BY <3>1, <3>2
  <2> QED  BY <1>2, <2>2 DEF IInv, PostsTyped, PostState
<1>4. /\ listings' \in [Loads -> LoadState] /\ copies' \in [Combos -> CopyState]
      /\ lost' \in BOOLEAN
  BY <1>1, <1>2, RowsBecomeTyped
<1>5. stored' = rows  BY <1>2 DEF RowsBecome
<1> QED  BY <1>2, <1>3, <1>4, <1>5 DEF IInv, Loads, shownVars

\* A row the server accepts under a save is a path.
LEMMA RowTyped ==
    ASSUME IInv, Arriving("save"), Accepts(posts["save"].graph)
    PROVE  /\ TemplateRow("save", posts["save"].graph) \in [combo : Combos, graph : Paths]
           /\ posts["save"] \in SaveState
<1>1. posts["save"] \in SaveState
  BY DEF IInv, PostsTyped, PostState, PostKinds, Arriving, NoPost
<1>2. posts["save"].graph \in Paths
  BY <1>1 DEF SaveState, Drawings, Paths, Chain, Accepts
<1> QED  BY <1>1, <1>2 DEF TemplateRow, SaveState

-----------------------------------------------------------------------------
LEMMA NextIInv == IInv /\ [StudioNext]_studioVars => IInv'
<1> SUFFICES ASSUME IInv, [StudioNext]_studioVars PROVE IInv'  OBVIOUS
<1> USE DEF IInv, Loads, shownVars, sharedVars
<1>0. None \in Id /\ New \in Id /\ None \in Savers /\ PostKinds \subseteq Savers
  BY DEF Id, Savers
<1>1. ASSUME NEW l \in Loads, ServerLists(l) PROVE IInv'
  <2>1. listings[l] \in AskedState
    BY <1>1 DEF ServerLists, LoadState, NoListing, AnswerState
  <2>2. Listed(stored, listings[l].combo) \in Lists
    BY <2>1, RowsAreLists DEF AskedState
  <2>3. [phase |-> "answered", combo |-> listings[l].combo, want |-> listings[l].want,
         saver |-> listings[l].saver, via |-> listings[l].via,
         list |-> Listed(stored, listings[l].combo), late |-> FALSE] \in AnswerState
    BY <2>1, <2>2 DEF AskedState, AnswerState
  <2>4. listings' \in [Loads -> LoadState]
    BY <1>1, <2>3 DEF ServerLists, LoadState
  <2> QED  BY <1>1, <2>4 DEF ServerLists, PostsTyped
<1>2. ASSUME NEW l \in Loads, DeliverList(l) PROVE IInv'
  <2> DEFINE a == listings[l]
  <2>1. a \in AnswerState  BY <1>2, AnswerTyped DEF DeliverList
  <2>2. a.list \in Lists /\ a.combo \in Combos /\ a.late \in BOOLEAN
    BY <2>1 DEF AnswerState
  <2>3. \A t \in DOMAIN a.list : t \in Id /\ a.list[t] \in Drawings
    BY <2>2, PathsAreDrawings DEF Lists, Id
  <2>4. chosen' \in Id /\ canvas' \in Drawings
    <3>1. CASE DOMAIN a.list = {}
      BY <1>2, <3>1, PathsAreDrawings DEF DeliverList, Id
    <3>2. CASE DOMAIN a.list # {}
      BY <1>2, <2>3, <3>2 DEF DeliverList
    <3> QED  BY <3>1, <3>2
  <2>5. listings' \in [Loads -> LoadState]  BY <1>2, OverTyped DEF DeliverList
  <2>6. copies' \in [Combos -> CopyState]  BY <1>2, CachedTyped DEF DeliverList
  <2>7. PostsTyped'  BY <1>2, FreedTyped DEF DeliverList
  <2>8. list' = a.list /\ listOf' = a.combo /\ shown' = a.combo
        /\ lost' = a.late /\ dirty' = FALSE
        /\ UNCHANGED <<studioScene, stored, sel, edits, rivals>>
    BY <1>2 DEF DeliverList
  <2> QED  BY <2>2, <2>4, <2>5, <2>6, <2>7, <2>8
<1>3. ASSUME NEW l \in Loads, ListFails(l) PROVE IInv'
  <2>1. listings' \in [Loads -> LoadState]  BY <1>3, OverTyped DEF ListFails
  <2>2. PostsTyped'  BY <1>3, FreedTyped DEF ListFails
  <2>3. lost' \in BOOLEAN  BY <1>3 DEF ListFails
  <2> QED  BY <1>3, <2>1, <2>2, <2>3 DEF ListFails
<1>4. ASSUME NEW l \in Loads, NEW w \in PostKinds, DeliverSave(w, l) PROVE IInv'
  <2>1. posts[w].combo \in Combos /\ posts[w].id \in Id
    BY <1>4 DEF DeliverSave, PostsTyped, PostState, NoPost, SaveState, MoveState
  <2>2. (IF w = "clone" /\ posts[w].combo # sel THEN None ELSE posts[w].id) \in Id
    BY <1>0, <2>1
  <2>3. listings' \in [Loads -> LoadState]
    BY <1>0, <1>4, <2>1, <2>2, AskTyped DEF DeliverSave
  <2>4. PostsTyped'
    BY <1>4, PhaseTyped DEF DeliverSave, Phases
  <2>5. sel' \in Combos /\ UNCHANGED <<studioScene, edits, lost, copies, shownVars, sharedVars>>
    BY <1>4, <2>1 DEF DeliverSave
  <2> QED  BY <2>3, <2>4, <2>5
<1>5. ASSUME NEW l \in Loads, CatalogChanged(l) PROVE IInv'
  <2>1. listings' \in [Loads -> LoadState]
    BY <1>0, <1>5, AskTyped DEF CatalogChanged
  <2> QED  BY <1>5, <2>1 DEF CatalogChanged, PostsTyped
<1>6. ASSUME NEW l \in Loads, NEW c \in studioScene.combos, SelectCombo(c, l) PROVE IInv'
  <2>1. c \in Combos  BY StudioAssumption
  <2>2. listings' \in [Loads -> LoadState]
    BY <1>0, <1>6, <2>1, AskTyped DEF SelectCombo
  <2> QED  BY <1>6, <2>1, <2>2 DEF SelectCombo, PostsTyped
<1>7. ASSUME NEW l \in Loads, NEW c \in studioScene.combos, TabReads(l, c) PROVE IInv'
  <2>1. Listing(c, None, None, "silent") \in LoadState
    BY <1>0, StudioAssumption DEF Listing, LoadState, AskedState
  <2>2. listings' \in [Loads -> LoadState]  BY <1>7, <2>1 DEF TabReads
  <2> QED  BY <1>7, <2>2 DEF TabReads, PostsTyped
<1>8. ASSUME NEW c \in studioScene.combos, CopyEnds(c) PROVE IInv'
  <2>1. copies' \in [Combos -> CopyState]  BY <1>8 DEF CopyEnds, CopyState
  <2> QED  BY <1>8, <2>1 DEF CopyEnds, PostsTyped
<1>9. ASSUME NEW l \in Loads, DeliverSilently(l) PROVE IInv'
  <2>1. listings' \in [Loads -> LoadState]  BY <1>9, OverTyped DEF DeliverSilently
  <2>2. copies' \in [Combos -> CopyState]  BY <1>9, CachedTyped DEF DeliverSilently
  <2> QED  BY <1>9, <2>1, <2>2 DEF DeliverSilently, PostsTyped
<1>10. ASSUME NEW t \in Templates, SelectTemplate(t) PROVE IInv'
  <2>1. list[t] \in Drawings  BY <1>10, PathsAreDrawings DEF SelectTemplate, Lists
  <2> QED  BY <1>10, <2>1 DEF SelectTemplate, Fill, Id, PostsTyped
<1>11. ASSUME CreateNew PROVE IInv'
  BY <1>11, PathsAreDrawings DEF CreateNew, Fill, Id, PostsTyped
<1>12. ASSUME Duplicate PROVE IInv'
  BY <1>12 DEF Duplicate, Id, PostsTyped
<1>13. ASSUME SendSave PROVE IInv'
  <2>1. PICK g \in Drawn : AskToWrite("save", [phase |-> "sent", id |-> chosen,
            combo |-> sel, graph |-> g, stray |-> shown # sel \/ lost])
    BY <1>13 DEF SendSave
  <2>2. g \in Drawings
    BY <2>1 DEF Drawn, Drawings, Graph
  <2>3. [phase |-> "sent", id |-> chosen, combo |-> sel, graph |-> g,
         stray |-> shown # sel \/ lost] \in PostState("save") /\ "save" \in PostKinds
    BY <2>2 DEF PostState, SaveState, Phases, PostKinds
  <2> QED  BY <2>1, <2>3, SendTyped
<1>14. ASSUME SendDelete PROVE IInv'
  <2>1. [phase |-> "sent", id |-> chosen, combo |-> sel] \in PostState("delete")
        /\ "delete" \in PostKinds
    BY DEF PostState, MoveState, Phases, PostKinds
  <2> QED  BY <1>14, <2>1, SendTyped DEF SendDelete
<1>15. ASSUME NEW c \in studioScene.combos, SendClone(c) PROVE IInv'
  <2>1. [phase |-> "sent", id |-> chosen, combo |-> c] \in PostState("clone")
        /\ "clone" \in PostKinds
    BY StudioAssumption DEF PostState, MoveState, Phases, PostKinds
  <2> QED  BY <1>15, <2>1, SendTyped DEF SendClone
<1>16. ASSUME NEW w \in PostKinds, GiveUp(w) PROVE IInv'
  <2>1. PostsTyped'  BY <1>16, PhaseTyped DEF GiveUp, Phases
  <2> QED  BY <1>16, <2>1 DEF GiveUp
<1>17. ASSUME NEW w \in PostKinds, FailSave(w) PROVE IInv'
  <2>1. PostsTyped'  BY <1>17 DEF FailSave, PostsTyped, PostState
  <2> QED  BY <1>17, <2>1 DEF FailSave
<1>18. ASSUME NEW t \in Templates, ServerCreates(t) \/ ServerUpdates(t) PROVE IInv'
  <2>1. [stored EXCEPT ![t] = TemplateRow("save", posts["save"].graph)]
            \in [Templates -> RowState] /\ t \in Id
    BY <1>18, RowTyped DEF ServerCreates, ServerUpdates, Id, RowState
  <2>2. "save" \in PostKinds /\ posts["save"].phase \in Phases
    BY <1>18 DEF ServerCreates, ServerUpdates, Arriving, Phases, PostKinds
  <2> QED  BY <1>18, <2>1, <2>2, StoreTyped DEF ServerCreates, ServerUpdates
<1>19. ASSUME NEW t \in Templates, ServerDeletes(t) PROVE IInv'
  <2>1. [stored EXCEPT ![t] = Erased] \in [Templates -> RowState]
    BY DEF RowState
  <2>2. "delete" \in PostKinds /\ posts["delete"].phase \in Phases
    BY <1>19 DEF ServerDeletes, Arriving, Phases, PostKinds
  <2> QED  BY <1>0, <1>19, <2>1, <2>2, StoreTyped DEF ServerDeletes
<1>20. ASSUME NEW s \in Templates, NEW t \in Templates, ServerClones(s, t) PROVE IInv'
  <2>1. "clone" \in PostKinds /\ posts["clone"].phase \in Phases
    BY <1>20 DEF ServerClones, Arriving, Phases, PostKinds
  <2>2. posts["clone"].combo \in Combos
    BY <2>1 DEF PostsTyped, PostState, MoveState, NoPost, Phases
  <2>3. stored[s].graph \in Paths
    BY <1>20 DEF ServerClones, RowState, Present
  <2>4. [stored EXCEPT ![t] = TemplateRow("clone", stored[s].graph)] \in [Templates -> RowState]
        /\ t \in Id
    BY <2>2, <2>3 DEF TemplateRow, RowState, Id
  <2> QED  BY <1>20, <2>1, <2>4, StoreTyped DEF ServerClones
<1>21. ASSUME NEW g \in studioScene.rivals, NEW t \in Templates, RivalWrites(g, t) PROVE IInv'
  <2>1. g \in Paths /\ studioScene.combos \subseteq Combos
    BY StudioAssumption DEF Paths
  <2>2. PICK row \in (IF stored[t] = None THEN {} ELSE {Erased})
                        \cup [combo : studioScene.combos, graph : {g}] :
            RowsBecome([stored EXCEPT ![t] = row], TRUE)
    BY <1>21 DEF RivalWrites
  <2>3. row \in RowState
    BY <2>1, <2>2 DEF RowState
  <2>4. stored' \in [Templates -> RowState]  BY <2>2, <2>3 DEF RowsBecome
  <2>5. /\ listings' \in [Loads -> LoadState] /\ copies' \in [Combos -> CopyState]
        /\ lost' \in BOOLEAN
    BY <2>2, RowsBecomeTyped
  <2>6. PostsTyped'
    <3>1. CASE Arriving("save")
      <4>1. posts["save"] \in SaveState
        BY <3>1 DEF Arriving, PostsTyped, PostState, PostKinds, NoPost
      <4>2. [posts["save"] EXCEPT !.stray = TRUE] \in SaveState  BY <4>1 DEF SaveState
      <4>3. posts' = [posts EXCEPT !["save"] = [posts["save"] EXCEPT !.stray = TRUE]]
        BY <1>21, <3>1 DEF RivalWrites
      <4> QED  BY <4>2, <4>3 DEF PostsTyped, PostState, PostKinds
    <3>2. CASE ~Arriving("save")
      BY <1>21, <3>2 DEF RivalWrites, PostsTyped
    <3> QED  BY <3>1, <3>2
  <2>7. rivals' \subseteq studioScene.rivals /\ UNCHANGED <<studioScene, sel, edits, shownVars>>
    BY <1>21 DEF RivalWrites
  <2> QED  BY <2>4, <2>5, <2>6, <2>7
<1>22. ASSUME NEW a \in Steps, NEW b \in Steps, Connect(a, b) PROVE IInv'
  <2>1. [canvas EXCEPT !.edges = @ \cup {<<a, b>>}] \in Drawings
    <3>1. canvas.edges \in SUBSET Edge /\ Sequential(canvas.edges) /\ canvas \in Graph
      BY DEF Drawings, Graph
    <3>2. Sequential(canvas.edges \cup {<<a, b>>})
      BY <1>22, <3>1, ConnectKeepsSequential DEF Connect
    <3>3. canvas.edges \cup {<<a, b>>} \in SUBSET Edge  BY <3>1 DEF Edge
    <3> QED  BY <3>1, <3>2, <3>3 DEF Drawings, Graph
  <2> QED  BY <1>22, <2>1, EditsKeepDrawing DEF Connect
<1>23. ASSUME NEW F \in SUBSET canvas.edges,
              NEW g, g = [canvas EXCEPT !.edges = F]
       PROVE  g \in Drawings
  <2>1. canvas.edges \in SUBSET Edge /\ Sequential(canvas.edges) /\ canvas \in Graph
    BY DEF Drawings, Graph
  <2>2. Sequential(F)  BY <2>1, CutKeepsSequential
  <2> QED  BY <1>23, <2>1, <2>2 DEF Drawings, Graph
<1>24. ASSUME NEW e \in Edge, Disconnect(e) PROVE IInv'
  <2>1. [canvas EXCEPT !.edges = @ \ {e}] \in Drawings  BY <1>23
  <2> QED  BY <1>24, <2>1, EditsKeepDrawing DEF Disconnect
<1>25. ASSUME NEW n \in Steps, AddStep(n) PROVE IInv'
  <2>1. [canvas EXCEPT !.nodes = @ \cup {n}] \in Drawings  BY DEF Drawings, Graph
  <2> QED  BY <1>25, <2>1, EditsKeepDrawing DEF AddStep
<1>26. ASSUME NEW n \in Steps, DeleteStep(n) PROVE IInv'
  <2>1. WithoutStep(canvas.edges, n) \in SUBSET canvas.edges  BY DEF WithoutStep
  <2>2. [canvas EXCEPT !.edges = WithoutStep(@, n)] \in Drawings  BY <1>23, <2>1
  <2>3. [canvas EXCEPT !.nodes = @ \ {n}, !.edges = WithoutStep(@, n)] \in Drawings
    BY <2>2 DEF Drawings, Graph
  <2> QED  BY <1>26, <2>3, EditsKeepDrawing DEF DeleteStep
<1>27. ASSUME NEW n \in Steps, SetStart(n) PROVE IInv'
  <2>1. [canvas EXCEPT !.start = n] \in Drawings  BY DEF Drawings, Graph
  <2> QED  BY <1>27, <2>1, EditsKeepDrawing DEF SetStart
<1>28. CASE UNCHANGED studioVars
  BY <1>28 DEF studioVars, PostsTyped
<1> QED
  BY <1>1, <1>2, <1>3, <1>4, <1>5, <1>6, <1>7, <1>8, <1>9, <1>10, <1>11, <1>12,
     <1>13, <1>14, <1>15, <1>16, <1>17, <1>18, <1>19, <1>20, <1>21, <1>22, <1>24,
     <1>25, <1>26, <1>27, <1>28
     DEF StudioNext

\* The types of the canvas, the lists, the requests and the rows, with the paths
\* and drawings they carry.
THEOREM StudioInvariant == StudioSpec => []IInv
BY InitIInv, NextIInv, PTL DEF StudioSpec

\* Every stored template is one path from its start through all of its steps,
\* for any set of steps, combos and rows and any number of loads under way.
THEOREM StoredIsChainHolds == StudioSpec => []StoredIsChain
<1>1. IInv => StoredIsChain
  BY DEF IInv, StoredIsChain, RowState, Paths, Present
<1> QED  BY <1>1, StudioInvariant, PTL

-----------------------------------------------------------------------------
(* The list and the canvas, against the rows.                                *)

\* Every row of a list is one the server lists for the combo, as it is.
Current(rows, c) ==
    \A t \in DOMAIN rows : t \in DOMAIN Listed(stored, c) /\ rows[t] = Listed(stored, c)[t]

\* An answer on its way shows the rows of its combo until a write marks it late.
AnswersCurrent ==
    \A l \in Loads :
        (listings[l].phase = "answered" /\ ~listings[l].late)
            => Current(listings[l].list, listings[l].combo)

\* So does a copy in the cache.
CopiesCurrent ==
    \A c \in Combos :
        (copies[c] # None /\ ~copies[c].late) => Current(copies[c].list, c)

\* What is in the cache while a write is on its way came after it was sent.
CopiesHeld ==
    (\E w \in PostKinds : posts[w].phase = "sent")
        => \A c \in Combos : copies[c] # None => copies[c].held

\* The list on the screen is current until the server carries out a write, and
\* again after the reload that follows.
ListCurrent ==
    (~lost /\ \A w \in PostKinds : posts[w].phase \in {"idle", "sent", "adrift"})
        => Current(list, listOf)

\* Its rows are of its combo until a save is carried out.
ListHome ==
    (~lost /\ posts["save"].phase \in {"idle", "sent", "adrift"})
        => \A t \in DOMAIN list : Present(stored[t]) => stored[t].combo = listOf

\* The chosen row is one of the list, for whose combo the canvas was filled.
Picked ==
    chosen \in Templates =>
        /\ chosen \in DOMAIN list /\ shown = listOf
        /\ ~dirty => canvas = list[chosen]

\* A save that is no stray is for the combo its row has.
SaveAtHome ==
    (/\ Arriving("save") /\ posts["save"].id \in Templates
     /\ ~posts["save"].stray /\ Present(stored[posts["save"].id]))
        => posts["save"].combo = stored[posts["save"].id].combo

\* Ids are never used twice, so what a list or a save calls by an id is that row.
Used == {t \in Templates : stored[t] # None}
ListKnown == DOMAIN list \subseteq Used
AnswersKnown ==
    \A l \in Loads : listings[l].phase = "answered" => DOMAIN listings[l].list \subseteq Used
CopiesKnown == \A c \in Combos : copies[c] # None => DOMAIN copies[c].list \subseteq Used
SaveKnown ==
    (Arriving("save") /\ posts["save"].id \in Templates) => posts["save"].id \in Used

AnswersInv == AnswersCurrent /\ AnswersKnown
CopiesInv == CopiesCurrent /\ CopiesHeld /\ CopiesKnown
ListInv == ListCurrent /\ ListHome /\ Picked /\ ListKnown
SaveInv == SaveAtHome /\ SaveKnown
CanvasInv == AnswersInv /\ CopiesInv /\ ListInv /\ SaveInv

LEMMA ListedUsed ==
    ASSUME NEW rows, NEW c
    PROVE  /\ DOMAIN Listed(rows, c) = {t \in Templates : Present(rows[t]) /\ rows[t].combo = c}
           /\ \A t \in DOMAIN Listed(rows, c) : /\ Present(rows[t]) /\ rows[t].combo = c
                                               /\ Listed(rows, c)[t] = rows[t].graph
           /\ DOMAIN Listed(stored, c) \subseteq Used
BY DEF Listed, Used, Present

\* Where a write leaves the list of a combo as it was, what is current stays so.
LEMMA CurrentStays ==
    ASSUME NEW ls, NEW c, Current(ls, c), Listed(stored', c) = Listed(stored, c)
    PROVE  Current(ls, c)'
<1>1. Listed(stored, c)' = Listed(stored', c)  BY DEF Listed, Present
<1> QED  BY <1>1 DEF Current

LEMMA InitCanvas == StudioInit => CanvasInv
<1> SUFFICES ASSUME StudioInit PROVE CanvasInv  OBVIOUS
<1>1. \A l \in Loads : listings[l].phase # "answered"
  BY DEF StudioInit, NoListing
<1>2. /\ DOMAIN list = {} /\ chosen \notin Templates
      /\ \A w \in PostKinds : posts[w].phase = "idle"
  BY StudioAssumption DEF StudioInit, NoPost
<1>3. \A c \in Combos : copies[c] # None =>
          \/ ~copies[c].late /\ copies[c].list = Listed(stored, c)
          \/ copies[c].late /\ DOMAIN copies[c].list = {}
  <2>1. PICK c \in studioScene.combos :
            \E old \in Restored(c) : copies = [d \in Combos |-> IF d = c THEN old ELSE None]
    BY DEF StudioInit
  <2>2. PICK old \in Restored(c) : copies = [d \in Combos |-> IF d = c THEN old ELSE None]
    BY <2>1
  <2>3. \/ old = None
        \/ ~old.late /\ old.list = Listed(stored, c)
        \/ old.late /\ DOMAIN old.list = {}
    <3>1. \/ old = None
          \/ old \in [list : {Listed(stored, c)}, late : {FALSE}, held : {FALSE}]
          \/ old \in [list : {<< >>}, late : {TRUE}, held : {FALSE}]
      BY <2>2 DEF Restored
    <3>2. CASE old \in [list : {<< >>}, late : {TRUE}, held : {FALSE}]
      <4>1. old.list = << >> /\ old.late = TRUE  BY <3>2
      <4> QED  BY <4>1
    <3> QED  BY <3>1, <3>2
  <2> QED  BY <2>2, <2>3
<1>4. CopiesInv
  BY <1>2, <1>3, ListedUsed DEF CopiesInv, CopiesCurrent, CopiesHeld, CopiesKnown, Current
<1>5. AnswersInv  BY <1>1 DEF AnswersInv, AnswersCurrent, AnswersKnown
<1>6. ListInv  BY <1>2 DEF ListInv, ListCurrent, ListHome, Picked, ListKnown, Current
<1>7. SaveInv  BY <1>2 DEF SaveInv, SaveAtHome, SaveKnown, Arriving, PostKinds
<1> QED  BY <1>4, <1>5, <1>6, <1>7 DEF CanvasInv

-----------------------------------------------------------------------------
(* Where answers come from.                                                  *)

\* An answer under way after the step was one before, or a copy in the cache.
Derived ==
    \A k \in Loads :
        listings'[k].phase = "answered" =>
            \/ \E j \in Loads : /\ listings[j].phase = "answered"
                               /\ listings'[k].combo = listings[j].combo
                               /\ listings'[k].list = listings[j].list
                               /\ listings'[k].late = listings[j].late
            \/ \E c \in Combos : /\ copies[c] # None /\ listings'[k].combo = c
                                /\ listings'[k].list = copies[c].list
                                /\ listings'[k].late = copies[c].late

LEMMA SameDerived == UNCHANGED listings => Derived
BY DEF Derived

LEMMA AskDerived ==
    ASSUME IInv, NEW l \in Loads, NEW c \in Combos, NEW want, NEW saver,
           AskList(l, c, want, saver)
    PROVE  Derived
<1> SUFFICES ASSUME NEW k \in Loads, listings'[k].phase = "answered"
             PROVE  \/ \E j \in Loads : /\ listings[j].phase = "answered"
                                       /\ listings'[k].combo = listings[j].combo
                                       /\ listings'[k].list = listings[j].list
                                       /\ listings'[k].late = listings[j].late
                    \/ \E d \in Combos : /\ copies[d] # None /\ listings'[k].combo = d
                                        /\ listings'[k].list = copies[d].list
                                        /\ listings'[k].late = copies[d].late
  BY DEF Derived
<1>0. listings \in [Loads -> LoadState]  BY DEF IInv
<1>1. CASE listings'[k] = listings[k]
  BY <1>1
<1>2. CASE copies[c] # None
  <2>1. \/ listings'[k] = listings[k]
        \/ listings'[k] = Hit(c, want, saver, copies[c])
        \/ listings'[k] = Listing(c, None, None, "silent")
    BY <1>0, <1>2 DEF AskList
  <2>2. CASE listings'[k] = Hit(c, want, saver, copies[c])
    BY <1>2, <2>2 DEF Hit
  <2> QED  BY <1>1, <2>1, <2>2 DEF Listing
<1>3. CASE copies[c] = None
  <2>1. CASE listings' = [listings EXCEPT ![l] = Listing(c, want, saver, "net")]
    BY <1>0, <1>1, <2>1 DEF Listing
  <2>2. ASSUME NEW j \in InFlight(c), k = l,
               listings' = [listings EXCEPT ![l] = [listings[j] EXCEPT
                                !.want = want, !.saver = saver, !.via = "join"]]
        PROVE  /\ j \in Loads /\ listings[j].phase = "answered"
               /\ listings'[k].combo = listings[j].combo
               /\ listings'[k].list = listings[j].list
               /\ listings'[k].late = listings[j].late
    <3>1. j \in Loads /\ listings[j] \in AskedState \cup AnswerState
      BY <1>0 DEF InFlight, FreeListing, LoadState, NoListing
    <3>2. listings'[k] = [listings[j] EXCEPT !.want = want, !.saver = saver, !.via = "join"]
      BY <1>0, <2>2
    <3>3. CASE listings[j] \in AskedState  BY <3>2, <3>3 DEF AskedState
    <3>4. CASE listings[j] \in AnswerState  BY <3>1, <3>2, <3>4 DEF AnswerState
    <3> QED  BY <3>1, <3>3, <3>4
  <2>3. k # l => \/ listings'[k] = listings[k]
                 \/ listings' = [listings EXCEPT ![l] = Listing(c, want, saver, "net")]
    BY <1>0, <1>3 DEF AskList
  <2> QED  BY <1>1, <1>3, <2>1, <2>2, <2>3 DEF AskList
<1> QED  BY <1>2, <1>3

LEMMA OverDerived ==
    ASSUME IInv, NEW l \in Loads, listings' = Over(l)
    PROVE  Derived
<1>1. ASSUME NEW k \in Loads, listings'[k].phase = "answered"
      PROVE  /\ listings[k].phase = "answered"
             /\ listings'[k].combo = listings[k].combo
             /\ listings'[k].list = listings[k].list
             /\ listings'[k].late = listings[k].late
  <2>1. \/ listings'[k] = NoListing
        \/ listings'[k] = listings[k]
        \/ k \in InFlight(listings[l].combo) /\ listings'[k] = [listings[k] EXCEPT !.via = "gone"]
    BY DEF Over
  <2>2. CASE k \in InFlight(listings[l].combo) /\ listings'[k] = [listings[k] EXCEPT !.via = "gone"]
    <3>1. listings[k] \in AskedState \cup AnswerState
      BY <2>2 DEF InFlight, FreeListing, LoadState, NoListing, IInv
    <3>2. CASE listings[k] \in AskedState  BY <1>1, <2>2, <3>2 DEF AskedState
    <3>3. CASE listings[k] \in AnswerState  BY <1>1, <2>2, <3>3 DEF AnswerState
    <3> QED  BY <3>1, <3>2, <3>3
  <2> QED  BY <1>1, <2>1, <2>2 DEF NoListing
<1> QED  BY <1>1 DEF Derived

LEMMA SendDerived ==
    ASSUME IInv, NEW w, NEW r, AskToWrite(w, r)
    PROVE  Derived
<1>1. ASSUME NEW k \in Loads, listings'[k].phase = "answered"
      PROVE  /\ listings[k].phase = "answered"
             /\ listings'[k].combo = listings[k].combo
             /\ listings'[k].list = listings[k].list
             /\ listings'[k].late = listings[k].late
  <2>1. \/ listings'[k] = listings[k]
        \/ ~FreeListing(k) /\ listings'[k] = [listings[k] EXCEPT !.via = "gone"]
    BY DEF AskToWrite
  <2>2. CASE ~FreeListing(k) /\ listings'[k] = [listings[k] EXCEPT !.via = "gone"]
    <3>1. listings[k] \in AskedState \cup AnswerState
      BY <2>2 DEF FreeListing, LoadState, NoListing, IInv
    <3>2. CASE listings[k] \in AskedState  BY <1>1, <2>2, <3>2 DEF AskedState
    <3>3. CASE listings[k] \in AnswerState  BY <1>1, <2>2, <3>3 DEF AnswerState
    <3> QED  BY <3>1, <3>2, <3>3
  <2> QED  BY <1>1, <2>1, <2>2
<1> QED  BY <1>1 DEF Derived

\* The rows stay: answers that come from answers and copies are as good as they.
LEMMA AnswersKeep ==
    ASSUME CanvasInv, Derived, UNCHANGED <<studioScene, stored>>
    PROVE  AnswersInv'
<1>1. \A c, ls : Current(ls, c) => Current(ls, c)'
  BY DEF Current, Listed, Present
<1>2. Used' = Used  BY DEF Used
<1>3. AnswersCurrent'
  BY <1>1 DEF AnswersCurrent, CopiesCurrent, AnswersInv, CopiesInv, CanvasInv, Derived, Loads
<1>4. AnswersKnown'
  BY <1>2 DEF AnswersKnown, CopiesKnown, AnswersInv, CopiesInv, CanvasInv, Derived, Loads
<1> QED  BY <1>3, <1>4 DEF AnswersInv

-----------------------------------------------------------------------------
(* The steps.                                                                *)

\* A write gives no id a second row.
Follows(rows) ==
    \A t \in Templates :
        stored[t] # None => rows[t] # None /\ (Present(rows[t]) => Present(stored[t]))

\* Rows are written: what is not marked late shows them, on its way and in the
\* cache, for there a copy is marked or came before no write was sent.
LEMMA RowsKeep ==
    ASSUME IInv, CanvasInv, NEW rows, NEW unseen \in BOOLEAN, RowsBecome(rows, unseen),
           UNCHANGED studioScene,
           Follows(rows),
           unseen \/ \E w \in PostKinds : posts[w].phase = "sent"
    PROVE  /\ AnswersInv' /\ CopiesCurrent' /\ CopiesKnown'
           /\ \A c \in Combos : copies'[c] # None => copies[c] # None /\ copies'[c].held = copies[c].held
           /\ Used \subseteq Used'
           /\ \A c, ls : Listed(rows, c) = Listed(stored, c) /\ Current(ls, c) => Current(ls, c)'
<1> USE DEF CanvasInv, AnswersInv, CopiesInv, Loads
<1>0. listings \in [Loads -> LoadState] /\ copies \in [Combos -> CopyState]
  BY DEF IInv
<1>1. stored' = rows  BY DEF RowsBecome
<1>2. Used \subseteq Used'  BY <1>1 DEF Used, Follows
<1>3. ASSUME NEW c, NEW ls, Listed(rows, c) = Listed(stored, c), Current(ls, c)
      PROVE  Current(ls, c)'
  BY <1>1, <1>3, CurrentStays
<1>4. ASSUME NEW l \in Loads, listings'[l].phase = "answered"
      PROVE  /\ listings[l].phase = "answered" /\ listings'[l].list = listings[l].list
             /\ listings'[l].combo = listings[l].combo
             /\ ~listings'[l].late => /\ ~listings[l].late
                                     /\ Listed(rows, listings[l].combo)
                                            = Listed(stored, listings[l].combo)
  <2> DEFINE other == Listed(rows, listings[l].combo) # Listed(stored, listings[l].combo)
  <2>1. listings'[l] = IF listings[l].phase = "answered" /\ other
                       THEN [listings[l] EXCEPT !.late = TRUE] ELSE listings[l]
    BY DEF RowsBecome
  <2>2. CASE listings[l].phase = "answered" /\ other
    <3>1. listings[l] \in AnswerState  BY <2>2, AnswerTyped
    <3> QED  BY <2>1, <2>2, <3>1 DEF AnswerState
  <2>3. CASE ~(listings[l].phase = "answered" /\ other)
    BY <1>4, <2>1, <2>3
  <2> QED  BY <2>2, <2>3
<1>5. AnswersCurrent'
  BY <1>3, <1>4 DEF AnswersCurrent
<1>6. AnswersKnown'
  BY <1>2, <1>4 DEF AnswersKnown
<1>7. ASSUME NEW c \in Combos, copies'[c] # None
      PROVE  /\ copies[c] # None /\ copies'[c].list = copies[c].list
             /\ copies'[c].held = copies[c].held
             /\ ~copies'[c].late => ~copies[c].late /\ Listed(rows, c) = Listed(stored, c)
  <2> DEFINE other == Listed(rows, c) # Listed(stored, c)
  <2>1. copies'[c] = IF copies[c] # None /\ other /\ (unseen \/ copies[c].held)
                     THEN [copies[c] EXCEPT !.late = TRUE] ELSE copies[c]
    BY DEF RowsBecome
  <2>2. copies[c] # None  BY <1>7, <2>1
  <2>3. unseen \/ copies[c].held  BY <2>2 DEF CopiesHeld
  <2>4. copies[c] \in [list : Lists, late : BOOLEAN, held : BOOLEAN]
    BY <1>0, <2>2 DEF CopyState
  <2>5. CASE other
    BY <2>1, <2>2, <2>3, <2>4, <2>5
  <2>6. CASE ~other
    BY <2>1, <2>2, <2>6
  <2> QED  BY <2>2, <2>5, <2>6
<1>8. CopiesCurrent'
  BY <1>3, <1>7 DEF CopiesCurrent
<1>9. CopiesKnown'
  BY <1>2, <1>7 DEF CopiesKnown
<1> QED  BY <1>2, <1>3, <1>5, <1>6, <1>7, <1>8, <1>9

\* The list and what was chosen from it stay while the writes this screen sent
\* are carried out: each is then unanswered, or was given up and marks the list.
LEMMA ListStays ==
    ASSUME IInv, CanvasInv, NEW rows, NEW unseen \in BOOLEAN, RowsBecome(rows, unseen),
           UNCHANGED shownVars, Used \subseteq Used', Follows(rows),
           ~unseen => \E w \in PostKinds : posts'[w].phase = "done",
           unseen => \A w \in PostKinds : posts'[w].phase \in {"idle", posts[w].phase}
                                         /\ (posts[w].phase \notin {"idle", "adrift"}
                                                => posts'[w].phase # "idle"),
           (~unseen /\ posts'["save"].phase # "done")
               => /\ posts'["save"].phase = posts["save"].phase
                  /\ \A t \in Used : Present(rows[t]) => rows[t].combo = stored[t].combo
    PROVE  ListInv'
<1> USE DEF CanvasInv, ListInv, shownVars
<1>0. /\ stored' = rows /\ lost \in BOOLEAN
      /\ lost' = (lost \/ (unseen /\ Listed(rows, listOf) # Listed(stored, listOf)))
  BY DEF RowsBecome, IInv
<1>1. Picked' /\ ListKnown'
  BY DEF Picked, ListKnown
<1>2. CASE ~unseen
  <2>1. ListCurrent'  BY <1>2 DEF ListCurrent
  <2>2. ListHome'
    <3> SUFFICES ASSUME ~lost', posts'["save"].phase \in {"idle", "sent", "adrift"},
                        NEW t \in DOMAIN list, Present(rows[t])
                 PROVE  rows[t].combo = listOf
      BY <1>0 DEF ListHome
    <3>1. t \in Used /\ t \in Templates  BY DEF ListKnown, Used
    <3>2. Present(stored[t])  BY <3>1 DEF Follows, Used
    <3>3. rows[t].combo = stored[t].combo /\ posts["save"].phase \in {"idle", "sent", "adrift"}
      BY <1>2, <3>1
    <3> QED  BY <1>0, <1>2, <3>2, <3>3 DEF ListHome
  <2> QED  BY <1>1, <2>1, <2>2
<1>3. CASE unseen
  <2>1. ListCurrent'
    <3> SUFFICES ASSUME ~lost', \A w \in PostKinds : posts'[w].phase \in {"idle", "sent", "adrift"}
                 PROVE  Current(list, listOf)'
      BY DEF ListCurrent
    <3>1. \A w \in PostKinds : posts[w].phase \in {"idle", "sent", "adrift"}
      BY <1>3
    <3>2. Current(list, listOf) /\ Listed(rows, listOf) = Listed(stored, listOf)
      BY <1>0, <1>3, <3>1 DEF ListCurrent
    <3> QED  BY <1>0, <3>2, CurrentStays
  <2>2. ListHome'
    <3> SUFFICES ASSUME ~lost', posts'["save"].phase \in {"idle", "sent", "adrift"},
                        NEW t \in DOMAIN list, Present(rows[t])
                 PROVE  rows[t].combo = listOf
      BY <1>0 DEF ListHome
    <3>1. posts["save"].phase \in {"idle", "sent", "adrift"} /\ ~lost
      BY <1>0, <1>3 DEF PostKinds
    <3>2. Listed(rows, listOf) = Listed(stored, listOf)  BY <1>0, <1>3
    <3>3. t \in Used /\ t \in Templates  BY DEF ListKnown, Used
    <3>4. Present(stored[t])  BY <3>3 DEF Follows, Used
    <3>5. stored[t].combo = listOf  BY <3>1, <3>4 DEF ListHome
    <3>6. t \in DOMAIN Listed(stored, listOf)  BY <3>3, <3>4, <3>5 DEF Listed
    <3>7. t \in DOMAIN Listed(rows, listOf)  BY <3>2, <3>6
    <3> QED  BY <3>7 DEF Listed
  <2> QED  BY <1>1, <2>1, <2>2
<1> QED  BY <1>2, <1>3

\* The server carries out a write of this screen.
LEMMA StoreKeeps ==
    ASSUME IInv, CanvasInv, NEW rows, NEW t \in Id, NEW w \in PostKinds, Store(w, rows, t),
           Arriving(w), Follows(rows),
           w # "save" => \A s \in Used : Present(rows[s]) => rows[s].combo = stored[s].combo
    PROVE  CanvasInv'
<1> DEFINE unseen == Unseen(w)
<1>1. /\ RowsBecome(rows, unseen) /\ unseen \in BOOLEAN /\ stored' = rows
      /\ UNCHANGED <<studioScene, sel, edits, rivals, shownVars>>
      /\ unseen \/ posts[w].phase = "sent"
  BY DEF Store, RowsBecome, Unseen, Arriving
<1>2. /\ posts'[w].phase = (IF unseen THEN "idle" ELSE "done")
      /\ \A v \in PostKinds : v # w => posts'[v] = posts[v]
  <2>1. posts[w] \in SaveState \cup MoveState /\ posts \in [PostKinds -> {NoPost} \cup SaveState \cup MoveState]
    BY DEF IInv, PostsTyped, Arriving, NoPost
  <2>2. posts' = [posts EXCEPT ![w] =
                   IF unseen THEN NoPost ELSE [posts[w] EXCEPT !.phase = "done", !.id = t]]
    BY DEF Store
  <2>3. posts'[w] = IF unseen THEN NoPost ELSE [posts[w] EXCEPT !.phase = "done", !.id = t]
    BY <2>1, <2>2
  <2>4. [posts[w] EXCEPT !.phase = "done", !.id = t].phase = "done"
    <3>1. CASE posts[w] \in SaveState  BY <3>1 DEF SaveState
    <3>2. CASE posts[w] \in MoveState  BY <3>2 DEF MoveState
    <3> QED  BY <2>1, <3>1, <3>2
  <2> QED  BY <2>1, <2>2, <2>3, <2>4 DEF NoPost
<1> HIDE DEF unseen
<1>3. /\ AnswersInv' /\ CopiesCurrent' /\ CopiesKnown' /\ Used \subseteq Used'
      /\ \A c \in Combos : copies'[c] # None => copies[c] # None /\ copies'[c].held = copies[c].held
  BY <1>1, RowsKeep
<1>4. CopiesHeld'
  BY <1>2, <1>3 DEF CopiesHeld, CanvasInv, CopiesInv
<1>5. ListInv'
  <2>1. ~unseen => \E v \in PostKinds : posts'[v].phase = "done"  BY <1>2
  <2>2. unseen => posts[w].phase = "adrift"  BY DEF unseen, Unseen
  <2>3. unseen => \A v \in PostKinds : posts'[v].phase \in {"idle", posts[v].phase}
                                       /\ (posts[v].phase \notin {"idle", "adrift"}
                                              => posts'[v].phase # "idle")
    BY <1>2, <2>2
  <2>4. (~unseen /\ posts'["save"].phase # "done")
            => /\ posts'["save"].phase = posts["save"].phase
               /\ \A s \in Used : Present(rows[s]) => rows[s].combo = stored[s].combo
    BY <1>2 DEF PostKinds
  <2> QED  BY <1>1, <1>3, <2>1, <2>3, <2>4, ListStays
<1>6. SaveInv'
  <2>1. CASE w = "save"
    BY <1>2, <2>1 DEF SaveInv, SaveAtHome, SaveKnown, Arriving
  <2>2. CASE w # "save"
    <3>1. posts'["save"] = posts["save"]  BY <1>2, <2>2 DEF PostKinds
    <3>2. SaveKnown'
      BY <1>3, <3>1 DEF SaveKnown, Arriving, CanvasInv, SaveInv
    <3>3. SaveAtHome'
      <4> SUFFICES ASSUME Arriving("save"), posts["save"].id \in Templates,
                          ~posts["save"].stray, Present(rows[posts["save"].id])
                   PROVE  posts["save"].combo = rows[posts["save"].id].combo
        BY <1>1, <3>1 DEF SaveAtHome, Arriving
      <4>1. posts["save"].id \in Used  BY DEF SaveKnown, CanvasInv, SaveInv
      <4>2. Present(stored[posts["save"].id])  BY <4>1 DEF Follows, Used
      <4> QED  BY <2>2, <4>1, <4>2 DEF SaveAtHome, CanvasInv, SaveInv
    <3> QED  BY <3>2, <3>3 DEF SaveInv
  <2> QED  BY <2>1, <2>2
<1> QED  BY <1>3, <1>4, <1>5, <1>6 DEF CanvasInv, CopiesInv

\* Another director's write: whatever shows the row is marked, and so is the
\* save that may meet it.
LEMMA RivalKeeps ==
    ASSUME IInv, CanvasInv, NEW g \in studioScene.rivals, NEW t \in Templates, RivalWrites(g, t)
    PROVE  CanvasInv'
<1>1. PICK row \in (IF stored[t] = None THEN {} ELSE {Erased})
                      \cup [combo : studioScene.combos, graph : {g}] :
          RowsBecome([stored EXCEPT ![t] = row], TRUE)
  BY DEF RivalWrites
<1> DEFINE rows == [stored EXCEPT ![t] = row]
<1>2. Follows(rows)
  <2>1. row = Erased \/ row \in [combo : Combos, graph : Graph]
    <3>1. g \in Graph /\ studioScene.combos \subseteq Combos
      BY StudioAssumption DEF IInv
    <3>2. row = Erased \/ row \in [combo : studioScene.combos, graph : {g}]  BY <1>1
    <3> QED  BY <3>1, <3>2
  <2>2. row # None  BY <2>1, StudioAssumption
  <2>3. stored[t] # Erased  BY DEF RivalWrites
  <2>4. stored[t] # None => Present(stored[t])  BY <2>3 DEF Present
  <2> QED  BY <2>2, <2>4 DEF Follows, IInv
<1> HIDE DEF rows
<1>3. /\ RowsBecome(rows, TRUE) /\ stored' = rows
      /\ UNCHANGED <<studioScene, sel, edits, shownVars>>
      /\ posts' = IF Arriving("save") THEN [posts EXCEPT !["save"].stray = TRUE] ELSE posts
  BY <1>1 DEF RivalWrites, RowsBecome, rows
<1>4. /\ \A v \in PostKinds : posts'[v].phase = posts[v].phase
      /\ posts'["save"].id = posts["save"].id
      /\ Arriving("save") => posts'["save"].stray
  <2>1. CASE Arriving("save")
    <3>1. posts["save"] \in SaveState /\ posts \in [PostKinds -> {NoPost} \cup SaveState \cup MoveState]
      BY <2>1 DEF Arriving, PostsTyped, PostState, PostKinds, NoPost, IInv
    <3>2. posts' = [posts EXCEPT !["save"] = [posts["save"] EXCEPT !.stray = TRUE]]
      BY <1>3, <2>1
    <3> QED  BY <3>1, <3>2 DEF SaveState, PostKinds
  <2>2. CASE ~Arriving("save")
    BY <1>3, <2>2
  <2> QED  BY <2>1, <2>2
<1>5. /\ AnswersInv' /\ CopiesCurrent' /\ CopiesKnown' /\ Used \subseteq Used'
      /\ \A c \in Combos : copies'[c] # None => copies[c] # None /\ copies'[c].held = copies[c].held
  BY <1>2, <1>3, RowsKeep
<1>6. CopiesHeld'
  BY <1>4, <1>5 DEF CopiesHeld, CanvasInv, CopiesInv
<1>7. ListInv'
  BY <1>2, <1>3, <1>4, <1>5, ListStays
<1>8. SaveInv'
  BY <1>4, <1>5 DEF SaveInv, SaveAtHome, SaveKnown, Arriving, CanvasInv, PostKinds
<1> QED  BY <1>5, <1>6, <1>7, <1>8 DEF CanvasInv, CopiesInv

\* A load is asked for; the rows, the copies, the list and the canvas stay.
LEMMA AskKeeps ==
    ASSUME IInv, CanvasInv, NEW l \in Loads, NEW c \in Combos, NEW want, NEW saver,
           AskList(l, c, want, saver),
           UNCHANGED <<studioScene, edits, lost, copies, shownVars, sharedVars>>,
           \A w \in PostKinds :
               posts'[w] = posts[w] \/ posts'[w].phase = "reload"
    PROVE  CanvasInv'
<1> USE DEF CanvasInv, shownVars, sharedVars
<1>1. AnswersInv'  BY AskDerived, AnswersKeep
<1>2. \A ls, d : Current(ls, d)' = Current(ls, d)  BY DEF Current, Listed, Present
<1>3. CopiesInv'
  BY <1>2 DEF CopiesInv, CopiesCurrent, CopiesHeld, CopiesKnown, Used
<1>4. ListInv'
  BY <1>2 DEF ListInv, ListCurrent, ListHome, Picked, ListKnown, Used, PostKinds
<1>5. SaveInv'
  BY DEF SaveInv, SaveAtHome, SaveKnown, Arriving, Used, PostKinds
<1> QED  BY <1>1, <1>3, <1>4, <1>5

\* A write is sent: the copies go, and a save that is no stray is for the combo
\* its row has.
LEMMA SendKeeps ==
    ASSUME IInv, CanvasInv, NEW w \in PostKinds, NEW r, AskToWrite(w, r), r.phase = "sent",
           w = "save" => (r.id = chosen /\ r.combo = sel /\ r.stray = (shown # sel \/ lost))
    PROVE  CanvasInv'
<1> USE DEF CanvasInv, shownVars, sharedVars
<1>0. /\ posts[w].phase = "idle" /\ posts'[w] = r
      /\ \A v \in PostKinds : v # w => posts'[v] = posts[v]
      /\ UNCHANGED <<studioScene, sel, edits, lost, shownVars, sharedVars>>
      /\ \A c \in Combos : copies'[c] = None
  BY DEF AskToWrite, IInv, PostsTyped
<1>1. AnswersInv'  BY <1>0, SendDerived, AnswersKeep
<1>2. \A ls, d : Current(ls, d)' = Current(ls, d)  BY <1>0 DEF Current, Listed, Present
<1>3. CopiesInv'
  BY <1>0 DEF CopiesInv, CopiesCurrent, CopiesHeld, CopiesKnown
<1>4. \A v \in PostKinds : posts'[v].phase \in {"idle", "sent", "adrift"}
                              <=> posts[v].phase \in {"idle", "sent", "adrift"}
  BY <1>0
<1>5. ListInv'
  BY <1>0, <1>2, <1>4 DEF ListInv, ListCurrent, ListHome, Picked, ListKnown, Used, PostKinds
<1>6. SaveInv'
  <2>1. CASE w # "save"
    BY <1>0, <2>1 DEF SaveInv, SaveAtHome, SaveKnown, Arriving, Used, PostKinds
  <2>2. CASE w = "save"
    <3>1. SaveKnown'
      BY <1>0, <2>2 DEF SaveKnown, Arriving, ListInv, Picked, ListKnown, Used
    <3>2. SaveAtHome'
      <4> SUFFICES ASSUME chosen \in Templates, shown = sel, ~lost, Present(stored[chosen])
                   PROVE  sel = stored[chosen].combo
        BY <1>0, <2>2 DEF SaveAtHome, Arriving
      <4>1. chosen \in DOMAIN list /\ sel = listOf  BY DEF ListInv, Picked
      <4> QED  BY <1>0, <2>2, <4>1 DEF ListInv, ListHome
    <3> QED  BY <3>1, <3>2 DEF SaveInv
  <2> QED  BY <2>1, <2>2
<1> QED  BY <1>1, <1>3, <1>5, <1>6

\* A write ends, is given up, or stays as it is.
PostsMove ==
    \A w \in PostKinds : \/ posts'[w] = posts[w] \/ posts'[w].phase = "idle"
                        \/ /\ posts'[w] = [posts[w] EXCEPT !.phase = "adrift"]
                           /\ posts[w].phase = "sent"
                           /\ posts[w] \in SaveState \cup MoveState

\* A write that was carried out ends in silence only where the list is lost.
LossKnown ==
    ~lost' => /\ ~lost
              /\ \A w \in PostKinds : posts'[w].phase = "idle" =>
                     posts[w].phase \in {"idle", "sent", "adrift"}

\* Nothing but the loads, the cache and the phases of the writes moves.
LEMMA OthersKeep ==
    ASSUME IInv, CanvasInv, Derived, CopiesInv', PostsMove, LossKnown,
           UNCHANGED <<studioScene, shownVars, sharedVars>>
    PROVE  CanvasInv'
<1> USE DEF shownVars, sharedVars
<1>1. AnswersInv'  BY AnswersKeep
<1>2. \A ls, d : Current(ls, d)' = Current(ls, d)  BY DEF Current, Listed, Present
<1>3. \A w \in PostKinds :
          /\ posts'[w] = [posts[w] EXCEPT !.phase = "adrift"] /\ posts[w] \in SaveState \cup MoveState
                 => posts'[w].phase = "adrift" /\ posts'[w].id = posts[w].id
                    /\ posts'[w].combo = posts[w].combo
          /\ posts'[w] = [posts[w] EXCEPT !.phase = "adrift"] /\ posts[w] \in SaveState
                 => posts'[w].stray = posts[w].stray
  BY DEF SaveState, MoveState
<1>4. ListInv'
  <2>1. ASSUME ~lost', NEW w \in PostKinds, posts'[w].phase \in {"idle", "sent", "adrift"}
        PROVE  posts[w].phase \in {"idle", "sent", "adrift"}
    BY <2>1 DEF PostsMove, LossKnown
  <2>2. ~lost' => ~lost  BY DEF LossKnown
  <2>3. ListCurrent'
    BY <1>2, <2>1, <2>2 DEF ListCurrent, CanvasInv, ListInv
  <2>4. ListHome'
    BY <2>1, <2>2 DEF ListHome, CanvasInv, ListInv, PostKinds
  <2>5. Picked' /\ ListKnown'  BY DEF Picked, ListKnown, CanvasInv, ListInv, Used
  <2> QED  BY <2>3, <2>4, <2>5 DEF ListInv
<1>5. SaveInv'
  <2>0. posts["save"] \in {NoPost} \cup SaveState  BY DEF IInv, PostsTyped, PostState, PostKinds
  <2>1. CASE posts'["save"] = posts["save"] \/ posts'["save"].phase = "idle"
    BY <2>1 DEF SaveInv, SaveAtHome, SaveKnown, Arriving, CanvasInv, Used
  <2>2. CASE posts'["save"] = [posts["save"] EXCEPT !.phase = "adrift"] /\ posts["save"].phase = "sent"
    <3>1. posts["save"] \in SaveState  BY <2>0, <2>2 DEF NoPost
    <3>2. /\ posts'["save"].id = posts["save"].id /\ posts'["save"].combo = posts["save"].combo
          /\ posts'["save"].stray = posts["save"].stray
      BY <1>3, <2>2, <3>1 DEF PostKinds
    <3> QED  BY <2>2, <3>2 DEF SaveInv, SaveAtHome, SaveKnown, Arriving, CanvasInv, Used
  <2> QED  BY <2>1, <2>2 DEF PostKinds, PostsMove
<1> QED  BY <1>1, <1>4, <1>5 DEF CanvasInv

LEMMA NextCanvas == IInv /\ CanvasInv /\ [StudioNext]_studioVars => CanvasInv'
<1> SUFFICES ASSUME IInv, CanvasInv, [StudioNext]_studioVars PROVE CanvasInv'  OBVIOUS
<1> USE DEF shownVars, sharedVars
<1>0. /\ listings \in [Loads -> LoadState] /\ copies \in [Combos -> CopyState]
      /\ posts \in [PostKinds -> {NoPost} \cup SaveState \cup MoveState]
      /\ lost \in BOOLEAN /\ stored \in [Templates -> RowState]
      /\ "NEW" \notin Templates /\ None \notin Templates
  BY StudioAssumption DEF IInv, PostsTyped
<1>1. ASSUME UNCHANGED <<studioScene, stored>> PROVE \A ls, c : Current(ls, c)' = Current(ls, c)
  BY <1>1 DEF Current, Listed, Present
<1>2. ASSUME NEW l \in Loads, ServerLists(l) PROVE CanvasInv'
  <2>1. /\ listings'[l].combo = listings[l].combo
        /\ listings'[l].list = Listed(stored, listings[l].combo)
        /\ \A k \in Loads : k # l => listings'[k] = listings[k]
        /\ UNCHANGED <<studioScene, sel, edits, lost, copies, posts, shownVars, sharedVars>>
    BY <1>0, <1>2 DEF ServerLists
  <2>2. Current(listings'[l].list, listings'[l].combo)
    BY <2>1 DEF Current
  <2>3. DOMAIN listings'[l].list \subseteq Used  BY <2>1 DEF Listed, Used, Present
  <2>4. AnswersInv'
    BY <1>1, <2>1, <2>2, <2>3
       DEF AnswersInv, AnswersCurrent, AnswersKnown, CanvasInv, Used, Loads
  <2>5. CopiesInv'
    BY <1>1, <2>1 DEF CopiesInv, CopiesCurrent, CopiesHeld, CopiesKnown, CanvasInv, Used
  <2>6. ListInv'
    BY <1>1, <2>1 DEF ListInv, ListCurrent, ListHome, Picked, ListKnown, CanvasInv, Used
  <2>7. SaveInv'
    BY <2>1 DEF SaveInv, SaveAtHome, SaveKnown, Arriving, CanvasInv, Used
  <2> QED  BY <2>4, <2>5, <2>6, <2>7 DEF CanvasInv
<1>3. ASSUME UNCHANGED <<studioScene, lost, posts, shownVars, sharedVars>>, Derived, CopiesInv'
      PROVE  CanvasInv'
  <2>1. PostsMove  BY <1>3 DEF PostsMove
  <2>2. \A w \in PostKinds : posts'[w].phase = "idle" => posts[w].phase = "idle"
    BY <1>3
  <2>3. LossKnown  BY <1>3, <2>2 DEF LossKnown
  <2>4. UNCHANGED <<studioScene, shownVars, sharedVars>>  BY <1>3
  <2> QED  BY <1>3, <2>1, <2>3, <2>4, OthersKeep
<1>4. ASSUME NEW l \in Loads, listings[l].phase = "answered", copies' = Cached(l),
             UNCHANGED <<studioScene, stored>>,
             \A w \in PostKinds : posts'[w].phase = "sent" => posts[w].phase = "sent"
      PROVE  CopiesInv'
  <2>1. listings[l] \in AnswerState  BY <1>4, AnswerTyped
  <2>2. \A c \in Combos :
            \/ copies'[c] = copies[c]
            \/ /\ c = listings[l].combo
               /\ copies'[c] = [list |-> listings[l].list, late |-> listings[l].late,
                               held |-> \E w \in PostKinds : posts[w].phase = "sent"]
    BY <1>0, <1>4 DEF Cached
  <2>3. ASSUME NEW c \in Combos, copies'[c] # copies[c]
        PROVE  /\ c = listings[l].combo
               /\ copies'[c].list = listings[l].list /\ copies'[c].late = listings[l].late
               /\ (\E w \in PostKinds : posts[w].phase = "sent") => copies'[c].held
    <3>1. /\ c = listings[l].combo
          /\ copies'[c] = [list |-> listings[l].list, late |-> listings[l].late,
                          held |-> \E w \in PostKinds : posts[w].phase = "sent"]
      BY <2>2, <2>3
    <3>2. copies'[c].held = \E w \in PostKinds : posts[w].phase = "sent"
      BY ONLY <3>1
    <3> QED  BY <3>1, <3>2
  <2>4. /\ ~listings[l].late => Current(listings[l].list, listings[l].combo)
        /\ DOMAIN listings[l].list \subseteq Used
    BY <1>4 DEF AnswersCurrent, AnswersKnown, CanvasInv, AnswersInv
  <2>5. /\ \A ls, c : Current(ls, c)' = Current(ls, c)
        /\ Used' = Used
    BY <1>1, <1>4 DEF Used
  <2>6. CopiesCurrent'
    <3> SUFFICES ASSUME NEW c \in Combos, copies'[c] # None, ~copies'[c].late
                 PROVE  Current(copies'[c].list, c)
      BY <2>5 DEF CopiesCurrent
    <3>1. CASE copies'[c] = copies[c]
      BY <3>1 DEF CopiesCurrent, CanvasInv, CopiesInv
    <3>2. CASE copies'[c] # copies[c]
      BY <2>3, <2>4, <3>2
    <3> QED  BY <3>1, <3>2
  <2>7. CopiesHeld'
    <3> SUFFICES ASSUME NEW w \in PostKinds, posts'[w].phase = "sent",
                        NEW c \in Combos, copies'[c] # None
                 PROVE  copies'[c].held
      BY DEF CopiesHeld
    <3>0. posts[w].phase = "sent"  BY <1>4
    <3>1. CASE copies'[c] = copies[c]
      BY <3>0, <3>1 DEF CopiesHeld, CanvasInv, CopiesInv
    <3>2. CASE copies'[c] # copies[c]
      BY <2>3, <3>0, <3>2
    <3> QED  BY <3>1, <3>2
  <2>8. CopiesKnown'
    <3> SUFFICES ASSUME NEW c \in Combos, copies'[c] # None
                 PROVE  DOMAIN copies'[c].list \subseteq Used
      BY <2>5 DEF CopiesKnown
    <3>1. CASE copies'[c] = copies[c]
      BY <3>1 DEF CopiesKnown, CanvasInv, CopiesInv
    <3>2. CASE copies'[c] # copies[c]
      BY <2>3, <2>4, <3>2
    <3> QED  BY <3>1, <3>2
  <2> QED  BY <2>6, <2>7, <2>8 DEF CopiesInv
<1>5. ASSUME UNCHANGED <<studioScene, stored, copies>>,
             \A w \in PostKinds : posts'[w].phase = "sent" => posts[w].phase = "sent"
      PROVE  CopiesInv'
  BY <1>1, <1>5 DEF CopiesInv, CopiesCurrent, CopiesHeld, CopiesKnown, CanvasInv, Used
<1>6. ASSUME NEW l \in Loads, DeliverList(l) PROVE CanvasInv'
  <2> DEFINE a == listings[l]
  <2>1. /\ a.phase = "answered" /\ list' = a.list /\ listOf' = a.combo /\ shown' = a.combo
        /\ dirty' = FALSE /\ lost' = a.late /\ posts' = Freed(l)
        /\ listings' = Over(l) /\ copies' = Cached(l)
        /\ UNCHANGED <<studioScene, sel, edits, sharedVars>>
    BY <1>6 DEF DeliverList
  <2>2. \/ chosen' = "NEW"
        \/ chosen' \in DOMAIN a.list /\ canvas' = a.list[chosen']
    <3>1. CASE DOMAIN a.list = {}
      BY <1>6, <3>1 DEF DeliverList, New
    <3>2. CASE DOMAIN a.list # {}
      BY <1>6, <3>2 DEF DeliverList
    <3> QED  BY <3>1, <3>2
  <2>3. \A w \in PostKinds : posts'[w] = posts[w] \/ posts'[w] = NoPost
    BY <2>1 DEF Freed
  <2>4. AnswersInv'  BY <2>1, OverDerived, AnswersKeep
  <2>5. CopiesInv'  BY <1>4, <2>1, <2>3 DEF NoPost
  <2>6. ~a.late => Current(a.list, a.combo)
    BY <2>1 DEF CanvasInv, AnswersInv, AnswersCurrent
  <2>7. DOMAIN a.list \subseteq Used
    BY <2>1 DEF CanvasInv, AnswersInv, AnswersKnown
  <2>8. Picked' /\ ListKnown'
    BY <1>0, <2>1, <2>2, <2>7 DEF Picked, ListKnown, Used
  <2>9. ListCurrent'
    BY <1>1, <2>1, <2>6 DEF ListCurrent
  <2>10. ListHome'
    BY <2>1, <2>6 DEF ListHome, Current, Listed
  <2>11. SaveInv'
    BY <2>1, <2>3 DEF SaveInv, SaveAtHome, SaveKnown, Arriving, CanvasInv, Used, PostKinds, NoPost
  <2> QED  BY <2>4, <2>5, <2>8, <2>9, <2>10, <2>11 DEF CanvasInv, ListInv
<1>7. ASSUME NEW l \in Loads, DeliverSilently(l) PROVE CanvasInv'
  <2>1. /\ listings[l].phase = "answered" /\ listings' = Over(l) /\ copies' = Cached(l)
        /\ UNCHANGED <<studioScene, sel, edits, lost, posts, shownVars, sharedVars>>
    BY <1>7 DEF DeliverSilently
  <2>2. CopiesInv'  BY <1>4, <2>1
  <2>3. Derived  BY <2>1, OverDerived
  <2> QED  BY <1>3, <2>1, <2>2, <2>3
<1>8. ASSUME NEW l \in Loads, ListFails(l) PROVE CanvasInv'
  <2>1. /\ listings' = Over(l) /\ posts' = Freed(l)
        /\ lost' = (lost \/ listings[l].saver # None)
        /\ UNCHANGED <<studioScene, sel, edits, copies, shownVars, sharedVars>>
    BY <1>8 DEF ListFails
  <2>2. ASSUME NEW w \in PostKinds
        PROVE  posts'[w] = posts[w] \/ (posts'[w].phase = "idle" /\ listings[l].saver = w)
    <3>1. posts'[w] = IF listings[l].saver = w THEN NoPost ELSE posts[w]  BY <2>1 DEF Freed
    <3> QED  BY <3>1 DEF NoPost
  <2>3. \A w \in PostKinds : posts'[w].phase = "sent" => posts[w].phase = "sent"
    BY <2>2
  <2>4. CopiesInv'  BY <1>5, <2>1, <2>3
  <2>5. Derived  BY <2>1, OverDerived
  <2>6. PostsMove  BY <2>2 DEF PostsMove
  <2>7. LossKnown
    <3>1. ~lost' => ~lost /\ listings[l].saver = None  BY <2>1
    <3>2. None \notin PostKinds  BY StudioAssumption
    <3> QED  BY <2>2, <3>1, <3>2 DEF LossKnown
  <2>8. UNCHANGED <<studioScene, shownVars, sharedVars>>  BY <2>1
  <2> QED  BY <2>4, <2>5, <2>6, <2>7, <2>8, OthersKeep
<1>9. ASSUME NEW l \in Loads, NEW w \in PostKinds, DeliverSave(w, l) PROVE CanvasInv'
  <2>1. /\ posts[w].phase = "done" /\ posts' = [posts EXCEPT ![w].phase = "reload"]
        /\ UNCHANGED <<studioScene, edits, lost, copies, shownVars, sharedVars>>
        /\ AskList(l, posts[w].combo,
                   IF w = "clone" /\ posts[w].combo # sel THEN None ELSE posts[w].id, w)
    BY <1>9 DEF DeliverSave
  <2>2. posts[w] \in SaveState \cup MoveState  BY <1>0, <2>1 DEF NoPost
  <2>3. posts[w].combo \in Combos /\ [posts[w] EXCEPT !.phase = "reload"].phase = "reload"
    <3>1. CASE posts[w] \in SaveState  BY <3>1 DEF SaveState
    <3>2. CASE posts[w] \in MoveState  BY <3>2 DEF MoveState
    <3> QED  BY <2>2, <3>1, <3>2
  <2>4. \A v \in PostKinds : posts'[v] = posts[v] \/ posts'[v].phase = "reload"
    BY <1>0, <2>1, <2>3
  <2> QED  BY <2>1, <2>3, <2>4, AskKeeps
<1>10. ASSUME NEW l \in Loads, CatalogChanged(l) PROVE CanvasInv'
  BY <1>10, AskKeeps DEF CatalogChanged, IInv
<1>11. ASSUME NEW l \in Loads, NEW c \in studioScene.combos, SelectCombo(c, l) PROVE CanvasInv'
  <2>1. c \in Combos  BY StudioAssumption DEF IInv
  <2> QED  BY <1>11, <2>1, AskKeeps DEF SelectCombo
<1>12. ASSUME NEW l \in Loads, NEW c \in studioScene.combos, TabReads(l, c) PROVE CanvasInv'
  <2>1. Derived  BY <1>0, <1>12 DEF TabReads, Derived, Listing
  <2>2. UNCHANGED <<studioScene, sel, edits, lost, copies, posts, shownVars, sharedVars>>
    BY <1>12 DEF TabReads
  <2>3. CopiesInv'  BY <1>5, <2>2
  <2> QED  BY <1>3, <2>1, <2>2, <2>3
<1>13. ASSUME NEW c \in studioScene.combos, CopyEnds(c) PROVE CanvasInv'
  <2>1. /\ \A d \in Combos : copies'[d] = copies[d] \/ copies'[d] = None
        /\ UNCHANGED <<studioScene, sel, edits, lost, listings, posts, shownVars, sharedVars>>
    BY <1>0, <1>13 DEF CopyEnds
  <2>2. CopiesInv'
    BY <1>1, <2>1 DEF CopiesInv, CopiesCurrent, CopiesHeld, CopiesKnown, CanvasInv, Used
  <2>3. Derived  BY <2>1, SameDerived
  <2> QED  BY <1>3, <2>1, <2>2, <2>3
<1>14. ASSUME NEW w \in PostKinds, GiveUp(w) PROVE CanvasInv'
  <2>1. /\ posts[w].phase = "sent" /\ posts' = [posts EXCEPT ![w].phase = "adrift"]
        /\ UNCHANGED <<studioScene, sel, edits, lost, listings, copies, shownVars, sharedVars>>
    BY <1>14 DEF GiveUp
  <2>2. posts[w] \in SaveState \cup MoveState  BY <1>0, <2>1 DEF NoPost
  <2>3. posts'[w] = [posts[w] EXCEPT !.phase = "adrift"] /\ posts'[w].phase = "adrift"
    <3>1. CASE posts[w] \in SaveState  BY <1>0, <2>1, <3>1 DEF SaveState
    <3>2. CASE posts[w] \in MoveState  BY <1>0, <2>1, <3>2 DEF MoveState
    <3> QED  BY <2>2, <3>1, <3>2
  <2>4. \A v \in PostKinds : v # w => posts'[v] = posts[v]  BY <2>1
  <2>5. CopiesInv'  BY <1>5, <2>1, <2>3, <2>4
  <2>6. Derived /\ UNCHANGED <<studioScene, shownVars, sharedVars>>
    BY <2>1, SameDerived
  <2>7. PostsMove
    <3> SUFFICES ASSUME NEW v \in PostKinds
                 PROVE  \/ posts'[v] = posts[v] \/ posts'[v].phase = "idle"
                        \/ /\ posts'[v] = [posts[v] EXCEPT !.phase = "adrift"]
                           /\ posts[v].phase = "sent"
                           /\ posts[v] \in SaveState \cup MoveState
      BY DEF PostsMove
    <3>1. CASE v = w  BY <2>1, <2>2, <2>3, <3>1
    <3>2. CASE v # w  BY <2>4, <3>2
    <3> QED  BY <3>1, <3>2
  <2>8. \A v \in PostKinds : posts'[v].phase = "idle" => posts[v].phase = "idle"
    BY <2>3, <2>4
  <2>9. LossKnown  BY <2>1, <2>8 DEF LossKnown
  <2> QED  BY <2>5, <2>6, <2>7, <2>9, OthersKeep
<1>15. ASSUME NEW w \in PostKinds, FailSave(w) PROVE CanvasInv'
  <2>1. /\ posts[w].phase \in {"sent", "adrift", "done"}
        /\ lost' = (lost \/ posts[w].phase = "done")
        /\ posts'[w] = NoPost /\ \A v \in PostKinds : v # w => posts'[v] = posts[v]
        /\ UNCHANGED <<studioScene, sel, edits, listings, copies, shownVars, sharedVars>>
    BY <1>0, <1>15 DEF FailSave
  <2>2. CopiesInv'  BY <1>5, <2>1 DEF NoPost
  <2>3. Derived /\ UNCHANGED <<studioScene, shownVars, sharedVars>>
    BY <2>1, SameDerived
  <2>4. \A v \in PostKinds : posts'[v] = posts[v] \/ posts'[v].phase = "idle"
    BY <2>1 DEF NoPost
  <2>5. PostsMove  BY <2>4 DEF PostsMove
  <2>6. ~lost' => ~lost /\ posts[w].phase \in {"sent", "adrift"}  BY <2>1
  <2>7. LossKnown  BY <2>1, <2>6 DEF LossKnown
  <2> QED  BY <2>2, <2>3, <2>5, <2>7, OthersKeep
<1>16. ASSUME NEW t, NEW g, NEW c, Fill(t, g, c),
              t = "NEW" \/ (t \in DOMAIN list /\ g = list[t] /\ c = listOf)
       PROVE  CanvasInv'
  <2>1. /\ chosen' = t /\ canvas' = g /\ shown' = c /\ dirty' = FALSE
        /\ UNCHANGED <<studioScene, sel, edits, lost, list, listOf, listings, copies, posts,
                       sharedVars>>
    BY <1>16 DEF Fill
  <2>2. AnswersInv' /\ CopiesInv'  BY <1>5, <2>1, SameDerived, AnswersKeep
  <2>3. ListInv'
    BY <1>0, <1>1, <1>16, <2>1
       DEF ListInv, ListCurrent, ListHome, Picked, ListKnown, CanvasInv, Used
  <2>4. SaveInv'
    BY <2>1 DEF SaveInv, SaveAtHome, SaveKnown, Arriving, CanvasInv, Used
  <2> QED  BY <2>2, <2>3, <2>4 DEF CanvasInv
<1>17. CASE CreateNew \/ \E t \in Templates : SelectTemplate(t)
  BY <1>16, <1>17 DEF CreateNew, SelectTemplate, New
<1>18. ASSUME UNCHANGED <<studioScene, sel, lost, list, listOf, shown, listings, copies,
                          posts, sharedVars>>,
              \/ chosen' = "NEW" /\ UNCHANGED <<canvas, dirty>>
              \/ dirty' /\ UNCHANGED chosen
              \/ UNCHANGED <<chosen, canvas, dirty>>
       PROVE  CanvasInv'
  <2>1. AnswersInv' /\ CopiesInv'  BY <1>5, <1>18, SameDerived, AnswersKeep
  <2>2. ListInv'
    BY <1>0, <1>1, <1>18
       DEF ListInv, ListCurrent, ListHome, Picked, ListKnown, CanvasInv, Used
  <2>3. SaveInv'
    BY <1>18 DEF SaveInv, SaveAtHome, SaveKnown, Arriving, CanvasInv, Used
  <2> QED  BY <2>1, <2>2, <2>3 DEF CanvasInv
<1>19. CASE Duplicate
  BY <1>18, <1>19 DEF Duplicate, New
<1>20. ASSUME NEW g, Edit(g) PROVE CanvasInv'
  BY <1>18, <1>20 DEF Edit
<1>21. CASE \/ \E a, b \in Steps : Connect(a, b)
            \/ \E e \in Edge : Disconnect(e)
            \/ \E n \in Steps : AddStep(n) \/ DeleteStep(n) \/ SetStart(n)
  BY <1>20, <1>21 DEF Connect, Disconnect, AddStep, DeleteStep, SetStart
<1>22. CASE SendSave \/ SendDelete \/ \E c \in studioScene.combos : SendClone(c)
  <2>1. CASE SendSave
    <3>1. PICK g \in Drawn : AskToWrite("save", [phase |-> "sent", id |-> chosen,
              combo |-> sel, graph |-> g, stray |-> shown # sel \/ lost])
      BY <2>1 DEF SendSave
    <3>2. "save" \in PostKinds  BY DEF PostKinds
    <3> QED  BY <3>1, <3>2, SendKeeps
  <2>2. CASE SendDelete
    <3>1. "delete" \in PostKinds /\ "delete" # "save"  BY DEF PostKinds
    <3> QED  BY <2>2, <3>1, SendKeeps DEF SendDelete
  <2>3. ASSUME NEW c \in studioScene.combos, SendClone(c) PROVE CanvasInv'
    <3>1. "clone" \in PostKinds /\ "clone" # "save"  BY DEF PostKinds
    <3> QED  BY <2>3, <3>1, SendKeeps DEF SendClone
  <2> QED  BY <1>22, <2>1, <2>2, <2>3
<1>23. ASSUME NEW t \in Templates, ServerCreates(t) \/ ServerUpdates(t) PROVE CanvasInv'
  <2> DEFINE rows == [stored EXCEPT ![t] = TemplateRow("save", posts["save"].graph)]
  <2>1. /\ Store("save", rows, t) /\ Arriving("save") /\ Accepts(posts["save"].graph)
        /\ stored[t] = None \/ Present(stored[t])
    BY <1>23 DEF ServerCreates, ServerUpdates
  <2>2. TemplateRow("save", posts["save"].graph) # None
    BY <2>1, RowTyped, StudioAssumption DEF Paths
  <2>3. Follows(rows)  BY <1>0, <2>1, <2>2 DEF Follows
  <2>4. "save" \in PostKinds /\ t \in Id  BY DEF PostKinds, Id
  <2> QED  BY <2>1, <2>3, <2>4, StoreKeeps
<1>24. ASSUME NEW t \in Templates, ServerDeletes(t) PROVE CanvasInv'
  <2> DEFINE rows == [stored EXCEPT ![t] = Erased]
  <2>1. Store("delete", rows, None) /\ Arriving("delete")
    BY <1>24 DEF ServerDeletes
  <2>2. Follows(rows) /\ \A s \in Used : Present(rows[s]) => rows[s].combo = stored[s].combo
    BY <1>0, StudioAssumption DEF Follows, Present, Used
  <2>3. "delete" \in PostKinds /\ None \in Id  BY DEF PostKinds, Id
  <2> QED  BY <2>1, <2>2, <2>3, StoreKeeps
<1>25. ASSUME NEW s \in Templates, NEW t \in Templates, ServerClones(s, t) PROVE CanvasInv'
  <2> DEFINE rows == [stored EXCEPT ![t] = TemplateRow("clone", stored[s].graph)]
  <2>1. Store("clone", rows, t) /\ Arriving("clone") /\ stored[t] = None
    BY <1>25 DEF ServerClones
  <2>2. Follows(rows) /\ \A k \in Used : Present(rows[k]) => rows[k].combo = stored[k].combo
    BY <1>0, <2>1 DEF Follows, Used
  <2>3. "clone" \in PostKinds /\ t \in Id  BY DEF PostKinds, Id
  <2> QED  BY <2>1, <2>2, <2>3, StoreKeeps
<1>26. CASE UNCHANGED studioVars
  BY <1>18, <1>26 DEF studioVars
<1> QED
  BY <1>2, <1>6, <1>7, <1>8, <1>9, <1>10, <1>11, <1>12, <1>13, <1>14, <1>15, <1>17,
     <1>19, <1>21, <1>22, <1>23, <1>24, <1>25, <1>26, RivalKeeps
     DEF StudioNext

LEMMA CanvasInvariant == StudioSpec => []CanvasInv
BY InitCanvas, NextCanvas, StudioInvariant, PTL DEF StudioSpec

\* A canvas nobody edited is the template row it says it is, over overlapping
\* writes, loads in any order and the read cache, until the next write of this
\* screen is carried out; unless the list is known to miss a write, for which it
\* must have been read, or kept in the cache, while that write was under way, or
\* the write was another director's, given up, unanswered or not loaded again.
THEOREM CleanCanvasIsStoredHolds == StudioSpec => []CleanCanvasIsStored
<1>1. CanvasInv => CleanCanvasIsStored
  BY DEF CanvasInv, ListInv, ListCurrent, Picked, Current, Listed, CleanCanvasIsStored
<1> QED  BY <1>1, CanvasInvariant, PTL

\* A template never changes its combo but by another director, or by a save that
\* was sent while the canvas showed another combo or a list known to miss a
\* write, or that another director's write overtook.
THEOREM MovesOnlyAstrayHolds == StudioSpec => MovesOnlyAstray
<1>1. ASSUME IInv, CanvasInv, [StudioNext]_studioVars, NEW t \in Templates,
             Present(stored[t]), Present(stored'[t]), stored[t].combo # stored'[t].combo,
             rivals' = rivals
      PROVE  posts["save"].stray
  <2>0. stored \in [Templates -> RowState]
    BY <1>1 DEF IInv
  <2>1. \/ UNCHANGED stored
        \/ \E g \in studioScene.rivals, k \in Templates : RivalWrites(g, k)
        \/ \E k \in Templates : \/ ServerCreates(k) \/ ServerUpdates(k) \/ ServerDeletes(k)
                               \/ \E s \in Templates : ServerClones(s, k)
    BY <1>1 DEF StudioNext, studioVars, sharedVars, ServerLists, DeliverList, DeliverSilently,
        ListFails, DeliverSave, CatalogChanged, SelectCombo, TabReads, CopyEnds, SelectTemplate,
        CreateNew, Fill, Duplicate, SendSave, SendDelete, SendClone, AskToWrite, GiveUp, FailSave,
        Connect, Disconnect, AddStep, DeleteStep, SetStart, Edit
  <2>2. ASSUME NEW k \in Templates, ServerUpdates(k) PROVE posts["save"].stray
    <3>1. /\ Arriving("save") /\ posts["save"].id = k
          /\ stored' = [stored EXCEPT ![k] = TemplateRow("save", posts["save"].graph)]
      BY <2>2 DEF ServerUpdates, Store, RowsBecome
    <3>2. t = k /\ stored'[t].combo = posts["save"].combo
      BY <1>1, <2>0, <3>1 DEF TemplateRow
    <3> QED  BY <1>1, <3>1, <3>2 DEF CanvasInv, SaveInv, SaveAtHome
  <2>3. ASSUME NEW k \in Templates, ServerDeletes(k) PROVE FALSE
    BY <1>1, <2>0, <2>3 DEF ServerDeletes, Store, RowsBecome, Present
  <2>4. ASSUME NEW s, NEW k \in Templates, ServerCreates(k) \/ ServerClones(s, k) PROVE FALSE
    BY <1>1, <2>0, <2>4 DEF ServerCreates, ServerClones, Store, RowsBecome, Present
  <2>5. ASSUME NEW g, NEW k, RivalWrites(g, k) PROVE FALSE
    BY <1>1, <2>5 DEF RivalWrites
  <2> QED  BY <1>1, <2>1, <2>2, <2>3, <2>4, <2>5
<1>2. IInv /\ CanvasInv /\ [StudioNext]_studioVars =>
        [\A t \in Templates :
            (Present(stored[t]) /\ Present(stored'[t]) /\ stored[t].combo # stored'[t].combo)
                => rivals' # rivals \/ posts["save"].stray]_studioVars
  BY <1>1
<1> QED  BY <1>2, CanvasInvariant, StudioInvariant, PTL DEF StudioSpec, MovesOnlyAstray

=============================================================================
