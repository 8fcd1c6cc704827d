-------------------------------- MODULE Forms --------------------------------
(***************************************************************************)
(* A form of the front end: it opens for a record, the user types a draft, *)
(* sends it, and may close the form, open it for another record and type   *)
(* again before the answer is there.  Every behaviour is one of the forms  *)
(* of FormTable; `form' is its discipline.                                 *)
(***************************************************************************)
EXTENDS FormConstants

VARIABLES
    form,       \* the discipline of this behaviour, which never changes
    about,      \* the record the form is open for, NoRecord when it is closed
    draft,      \* what the fields hold: the record it was typed for, which draft
    typed,      \* the drafts so far
    saves,      \* saves[h]: a save under way
    flag,       \* the record whose button is disabled, where it is kept by row
    asked,      \* the records the server was asked for, to fill the form
    taken,      \* taken[r]: the draft the server took last for r
    doubted     \* history: a save was applied and its answer lost

formVars == <<form, about, draft, typed, saves, flag, asked, taken, doubted>>

-----------------------------------------------------------------------------
Drafts == 0..MaxTyped                   \* 0 is what was there without typing
Blank == [of |-> NoRecord, no |-> 0]
Unsent == [phase |-> "free"]
Saving == {h \in Savers : saves[h].phase # "free"}
IsOpen == about # NoRecord

\* The save that draft d asks for, from this opening.
Sending(d) == [phase |-> "sent", to |-> about, draft |-> d, here |-> TRUE]

\* The saves once the form has closed: none was sent from what opens next.
Left(ss) == [h \in Savers |-> IF ss[h].phase = "free" THEN Unsent
                              ELSE [ss[h] EXCEPT !.here = FALSE]]

\* Is the button disabled?
Busy ==
    \/ form.busy = "page" /\ Saving # {}
    \/ form.busy = "dialog" /\ \E h \in Saving : saves[h].here
    \/ form.busy = "row" /\ flag = about

Subjects == IF form.of = "row" THEN Records ELSE {Only}
Reads == form.seed \in {"read", "reread"}
Restores == form.refused = "restores"

FormInit ==
    /\ form \in Edited
    /\ about = NoRecord
    /\ draft = Blank /\ typed = 0
    /\ saves = [h \in Savers |-> Unsent] /\ flag = NoRecord
    /\ asked = {}
    /\ taken = [r \in Records |-> 0]
    /\ doubted = FALSE

-----------------------------------------------------------------------------
\* Broken: what a former opening left is still there.
SeedNot == draft

\* The draft when the form opens.
Seed == IF form.seed \in {"shut", "kept"} THEN draft ELSE Blank

OpenFor(r) ==
    /\ ~IsOpen /\ r \in Subjects
    /\ Restores => Saving = {}          \* the fields are hidden meanwhile
    /\ about' = r /\ draft' = Seed
    /\ asked' = IF Reads THEN asked \cup {r} ELSE asked
    /\ UNCHANGED <<form, typed, saves, flag, taken, doubted>>

Type ==
    /\ IsOpen /\ typed < MaxTyped
    /\ typed' = typed + 1
    /\ draft' = [of |-> about, no |-> typed + 1]
    /\ UNCHANGED <<form, about, saves, flag, asked, taken, doubted>>

\* Broken: the form closes while it saves.
MayCloseAlways == TRUE

MayClose == form.shut = "held" => ~Busy

Close ==
    /\ IsOpen /\ MayClose
    /\ about' = NoRecord
    /\ draft' = IF form.seed = "shut" THEN Blank ELSE draft
    /\ saves' = Left(saves)
    /\ UNCHANGED <<form, typed, flag, asked, taken, doubted>>

\* Broken: the button stays enabled while the form saves.
MaySendAlways == IsOpen /\ draft # Blank

MaySend == IsOpen /\ draft # Blank /\ ~Busy

Submit(h) ==
    /\ MaySend /\ h \notin Saving
    /\ flag' = about
    /\ LET ss == [saves EXCEPT ![h] = Sending(draft)] IN
       IF form.done = "sends"
       THEN about' = NoRecord /\ draft' = Blank /\ saves' = Left(ss)
       ELSE UNCHANGED <<about, draft>> /\ saves' = ss
    /\ UNCHANGED <<form, typed, asked, taken, doubted>>

-----------------------------------------------------------------------------
\* The server takes a save.
TakeSave(h) ==
    /\ saves[h].phase = "sent"
    /\ saves' = [saves EXCEPT ![h].phase = "applied"]
    /\ taken' = [taken EXCEPT ![saves[h].to] = saves[h].draft.no]
    /\ UNCHANGED <<form, about, draft, typed, flag, asked, doubted>>

WithoutSave(h) == [saves EXCEPT ![h] = Unsent]
Acts(h) == form.late = "acts" \/ saves[h].here

\* What the answer to save h does to the form.
Stays(h) == UNCHANGED <<about, draft>> /\ saves' = WithoutSave(h)
Empties(h) == draft' = Blank /\ UNCHANGED about /\ saves' = WithoutSave(h)
Hides(h) == about' = NoRecord /\ UNCHANGED draft /\ saves' = Left(WithoutSave(h))
Closes(h) == about' = NoRecord /\ draft' = Blank /\ saves' = Left(WithoutSave(h))

\* The fields come back with what was sent.
GivesBack(h) ==
    /\ about' = saves[h].to /\ draft' = saves[h].draft
    /\ saves' = WithoutSave(h)

ConfirmSave(h) ==
    /\ saves[h].phase = "applied"
    /\ flag' = NoRecord                 \* whichever record it was
    /\ \/ Acts(h) /\ form.done = "closes" /\ Closes(h)
       \/ Acts(h) /\ form.done = "empties" /\ Empties(h)
       \/ Acts(h) /\ form.done = "hides" /\ Hides(h)
       \/ (~Acts(h) \/ form.done \in {"stays", "sends"}) /\ Stays(h)
    /\ UNCHANGED <<form, typed, asked, taken, doubted>>

\* The server refuses, or the answer is lost.
RefuseSave(h) ==
    /\ h \in Saving
    /\ flag' = NoRecord
    /\ doubted' = (doubted \/ saves[h].phase = "applied")
    /\ \/ Acts(h) /\ form.refused = "empties" /\ Empties(h)
       \/ Acts(h) /\ form.refused = "closes" /\ Closes(h)
       \/ Restores /\ GivesBack(h)
       \/ (~Restores /\ (~Acts(h) \/ form.refused = "stays")) /\ Stays(h)
    /\ UNCHANGED <<form, typed, asked, taken>>

-----------------------------------------------------------------------------
\* The answer to the question for r fills the form, whatever it is open for.
ReadAnswer(r) ==
    /\ r \in asked
    /\ asked' = asked \ {r}
    /\ draft' = IF IsOpen THEN [of |-> r, no |-> 0] ELSE draft
    /\ UNCHANGED <<form, about, typed, saves, flag, taken, doubted>>

FailRead(r) ==
    /\ r \in asked
    /\ asked' = asked \ {r}
    /\ UNCHANGED <<form, about, draft, typed, saves, flag, taken, doubted>>

\* Something else on the page asks again.
Reread ==
    /\ form.seed = "reread" /\ IsOpen
    /\ asked' = asked \cup {about}
    /\ UNCHANGED <<form, about, draft, typed, saves, flag, taken, doubted>>

FormNext ==
    \/ \E r \in Records : OpenFor(r) \/ ReadAnswer(r) \/ FailRead(r)
    \/ Type \/ Close \/ Reread
    \/ \E h \in Savers : Submit(h) \/ TakeSave(h) \/ ConfirmSave(h) \/ RefuseSave(h)

FormSpec == FormInit /\ [][FormNext]_formVars

-----------------------------------------------------------------------------
Draft == [of : Records \cup {NoRecord}, no : Drafts]
Save == {Unsent} \cup [phase : {"sent", "applied"}, to : Records, draft : Draft,
                     here : BOOLEAN]

FormTypeOK ==
    /\ form \in FormKind
    /\ about \in Records \cup {NoRecord}
    /\ draft \in Draft /\ typed \in Drafts
    /\ saves \in [Savers -> Save]
    /\ flag \in Records \cup {NoRecord} /\ asked \subseteq Records
    /\ taken \in [Records -> Drafts]
    /\ doubted \in BOOLEAN

\* What is saved for a record was typed for that record, however the form was
\* closed and opened for another one before the answer; of the forms that empty
\* their draft when they open or close, and are not filled by a late answer.
Emptied == form.seed \in {"fresh", "shut"} /\ form.done # "hides"

SavedToOwnRow == Emptied => \A h \in Saving : saves[h].draft.of = saves[h].to

\* An answer takes what the user typed only if it answers a save of the same
\* opening: nobody types into a dialog that the answer to the last one wipes.  Of
\* the forms that are held open while they save, or drop a late answer.
Guarded ==
    \/ form.shut = "held" /\ form.busy \in {"page", "dialog"}
    \/ form.late = "dropped" /\ ~Restores

TypedSurvives ==
    [][\A h \in Savers :
          (saves[h] # Unsent /\ saves'[h] = Unsent /\ draft.no > 0 /\ Guarded)
            => (draft' = draft \/ saves[h].here)]_formVars

\* The server takes the drafts of a record in the order they were typed, each of
\* them once, unless an answer was lost; of the forms whose button is disabled
\* until the last save is answered.  One that keeps its draft may send it again.
Serial ==
    /\ form.busy = "page" \/ (form.busy = "dialog" /\ form.shut = "held")
    /\ form.late = "acts"
Repeats == form.done \in {"stays", "hides"}

SavesInOrder ==
    [][\A h \in Savers :
          (saves[h] # Unsent /\ saves[h].phase = "sent" /\ saves'[h] # Unsent
              /\ saves'[h].phase = "applied" /\ saves[h].draft.no > 0
              /\ Serial /\ ~doubted)
            => LET last == taken[saves[h].to] IN
               \/ last < saves[h].draft.no
               \/ Repeats /\ last = saves[h].draft.no]_formVars

=============================================================================
