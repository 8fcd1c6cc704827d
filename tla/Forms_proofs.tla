---------------------------- MODULE Forms_proofs ----------------------------
(***************************************************************************)
(* The properties of Forms for every set of forms, records, saves and      *)
(* drafts.                                                                 *)
(*                                                                         *)
(* Each property is about a fact of the past: for which record the draft   *)
(* was typed, from which opening a save was sent, which draft the server   *)
(* took last.  The parts of Inv say what of it the state still shows.      *)
(***************************************************************************)
EXTENDS Forms, TLAPS

Sent == {h \in Saving : saves[h].phase = "sent"}
Applied == {h \in Saving : saves[h].phase = "applied"}

\* No draft is newer than the last one typed.
Numbered ==
    /\ draft.no <= typed
    /\ \A h \in Saving : saves[h].draft.no <= typed
    /\ \A r \in Records : taken[r] <= typed

\* A form that reads nothing is not waiting for an answer to a read.
AsksToRead == ~Reads => asked = {}

\* A form that empties its draft holds one of the record it is about.
OwnDraft ==
    Emptied =>
        /\ draft.of = NoRecord => draft = Blank
        /\ IsOpen => draft.of \in {NoRecord, about}
        /\ form.seed = "shut" /\ ~IsOpen => draft = Blank
        /\ SavedToOwnRow

\* While a form is held open, what is saving was sent from this opening.
HeldOpen == form.shut = "held" /\ form.busy \in {"page", "dialog"}
SentFromHere == HeldOpen => \A h \in Saving : saves[h].here

OneAtATime ==
    form.busy = "page" \/ HeldOpen => \A g, h \in Saving : g = h

\* Draft n is one the server may take next.
Newer(n) == \A r \in Records : taken[r] < n \/ (Repeats /\ taken[r] = n)

InOrder ==
    (Serial /\ ~doubted) =>
        /\ \A h \in Sent : saves[h].draft.no > 0 => Newer(saves[h].draft.no)
        /\ draft.no > 0 =>
              /\ \A r \in Records : taken[r] <= draft.no
              /\ Applied = {} \/ form.done = "sends" => Newer(draft.no)
              /\ \A h \in Saving : /\ saves[h].draft.no <= draft.no
                                   /\ form.done = "sends" => saves[h].draft.no < draft.no

Inv ==
    /\ FormTypeOK /\ form \in Edited
    /\ Numbered /\ AsksToRead /\ OwnDraft
    /\ SentFromHere /\ OneAtATime /\ InOrder

-----------------------------------------------------------------------------
\* A save, with its record and its draft, is a save whatever else holds.
LEMMA SaveShape ==
    ASSUME FormTypeOK, NEW h \in Savers
    PROVE  /\ h \in Saving => /\ saves[h].phase \in {"sent", "applied"}
                              /\ saves[h].to \in Records
                              /\ saves[h].draft \in Draft
                              /\ saves[h].here \in BOOLEAN
                              /\ saves[h] = [phase |-> saves[h].phase, to |-> saves[h].to,
                                             draft |-> saves[h].draft, here |-> saves[h].here]
           /\ h \notin Saving => saves[h] = Unsent
BY DEF FormTypeOK, Save, Saving, Unsent

\* Closing changes nothing of a save but where it was sent from.
LEMMA LeftShape ==
    \A ss \in [Savers -> Save] :
        /\ Left(ss) \in [Savers -> Save]
        /\ \A h \in Savers :
              /\ ss[h].phase = "free" => Left(ss)[h] = Unsent
              /\ ss[h].phase # "free" =>
                    /\ Left(ss)[h].phase = ss[h].phase /\ Left(ss)[h].to = ss[h].to
                    /\ Left(ss)[h].draft = ss[h].draft /\ Left(ss)[h].here = FALSE
<1> SUFFICES ASSUME NEW ss \in [Savers -> Save]
    PROVE  /\ Left(ss) \in [Savers -> Save]
           /\ \A h \in Savers :
                 /\ ss[h].phase = "free" => Left(ss)[h] = Unsent
                 /\ ss[h].phase # "free" =>
                       /\ Left(ss)[h].phase = ss[h].phase /\ Left(ss)[h].to = ss[h].to
                       /\ Left(ss)[h].draft = ss[h].draft /\ Left(ss)[h].here = FALSE
  OBVIOUS
<1> DEFINE Gone(s) == IF s.phase = "free" THEN Unsent ELSE [s EXCEPT !.here = FALSE]
<1>1. ASSUME NEW s \in Save
      PROVE  /\ Gone(s) \in Save
             /\ s.phase = "free" => Gone(s) = Unsent
             /\ s.phase # "free" => /\ Gone(s).phase = s.phase /\ Gone(s).to = s.to
                                    /\ Gone(s).draft = s.draft /\ Gone(s).here = FALSE
  <2>1. CASE s = Unsent
    BY <2>1 DEF Save, Unsent
  <2>2. CASE s \in [phase : {"sent", "applied"}, to : Records, draft : Draft, here : BOOLEAN]
    BY <2>2 DEF Save, Unsent
  <2> QED  BY <2>1, <2>2 DEF Save
<1>2. \A h \in Savers : ss[h] \in Save /\ Left(ss)[h] = Gone(ss[h])
  BY DEF Left
<1> HIDE DEF Gone
<1>3. Left(ss) \in [Savers -> Save]
  <2>1. Left(ss) = [h \in Savers |-> Gone(ss[h])]
    BY DEF Left, Gone
  <2> QED  BY <2>1, <1>1, <1>2
<1> QED  BY <1>1, <1>2, <1>3

\* The four things an answer may do; what it leaves alone of the other saves.
LEMMA AnswerShape ==
    ASSUME FormTypeOK, NEW h \in Saving, ConfirmSave(h) \/ RefuseSave(h)
    PROVE  /\ form' = form /\ typed' = typed /\ asked' = asked /\ taken' = taken
           /\ saves' \in [Savers -> Save] /\ saves'[h] = Unsent
           /\ \A g \in Savers \ {h} :
                 /\ g \in Saving' <=> g \in Saving
                 /\ g \in Saving => /\ saves'[g].phase = saves[g].phase
                                    /\ saves'[g].to = saves[g].to
                                    /\ saves'[g].draft = saves[g].draft
           /\ \/ about' = about /\ draft' = draft /\ saves' = WithoutSave(h)
              \/ /\ about' = about /\ draft' = Blank /\ saves' = WithoutSave(h)
                 /\ Acts(h)
              \/ /\ about' = NoRecord /\ draft' = draft /\ Acts(h)
                 /\ form.done = "hides"
              \/ about' = NoRecord /\ draft' = Blank /\ Acts(h)
              \/ /\ about' = saves[h].to /\ draft' = saves[h].draft
                 /\ saves' = WithoutSave(h) /\ Restores
<1> h \in Savers
  BY DEF Saving
<1>1. WithoutSave(h) \in [Savers -> Save] /\ saves \in [Savers -> Save]
  <2>1. saves \in [Savers -> Save] /\ Unsent \in Save
    BY DEF FormTypeOK, Save
  <2> HIDE DEF Save
  <2> QED  BY <2>1 DEF WithoutSave
<1>2. /\ WithoutSave(h)[h] = Unsent
      /\ \A g \in Savers \ {h} : WithoutSave(h)[g] = saves[g]
  BY <1>1 DEF WithoutSave, Saving
<1>3. Left(WithoutSave(h)) \in [Savers -> Save] /\ Left(WithoutSave(h))[h] = Unsent
  BY <1>1, <1>2, LeftShape DEF Unsent
<1>4. \A g \in Savers \ {h} :
         /\ saves[g].phase = "free" => Left(WithoutSave(h))[g] = Unsent
         /\ saves[g].phase # "free" =>
               /\ Left(WithoutSave(h))[g].phase = saves[g].phase
               /\ Left(WithoutSave(h))[g].to = saves[g].to
               /\ Left(WithoutSave(h))[g].draft = saves[g].draft
  BY <1>1, <1>2, LeftShape
<1>5. saves' \in {WithoutSave(h), Left(WithoutSave(h))}
  BY DEF ConfirmSave, RefuseSave, Stays, Empties, Hides, Closes, GivesBack
<1>6. /\ saves' \in [Savers -> Save] /\ saves'[h] = Unsent
      /\ \A g \in Savers \ {h} :
            /\ g \in Saving' <=> g \in Saving
            /\ g \in Saving => /\ saves'[g].phase = saves[g].phase
                               /\ saves'[g].to = saves[g].to
                               /\ saves'[g].draft = saves[g].draft
  <2>1. CASE saves' = WithoutSave(h)
    BY <2>1, <1>1, <1>2 DEF Saving
  <2>2. CASE saves' = Left(WithoutSave(h))
    <3>1. saves' \in [Savers -> Save] /\ saves'[h] = Unsent
      BY <2>2, <1>3
    <3>2. \A g \in Savers \ {h} :
             /\ saves[g].phase = "free" => saves'[g].phase = "free"
             /\ saves[g].phase # "free" => /\ saves'[g].phase = saves[g].phase
                                           /\ saves'[g].to = saves[g].to
                                           /\ saves'[g].draft = saves[g].draft
      BY <2>2, <1>4 DEF Unsent
    <3> QED  BY <3>1, <3>2 DEF Saving
  <2> QED  BY <2>1, <2>2, <1>5
<1>7. /\ form' = form /\ typed' = typed /\ asked' = asked /\ taken' = taken
      /\ \/ about' = about /\ draft' = draft /\ saves' = WithoutSave(h)
         \/ /\ about' = about /\ draft' = Blank /\ saves' = WithoutSave(h)
            /\ Acts(h)
         \/ /\ about' = NoRecord /\ draft' = draft /\ Acts(h)
            /\ form.done = "hides"
         \/ about' = NoRecord /\ draft' = Blank /\ Acts(h)
         \/ /\ about' = saves[h].to /\ draft' = saves[h].draft
            /\ saves' = WithoutSave(h) /\ Restores
  BY DEF ConfirmSave, RefuseSave, Stays, Empties, Hides, Closes, GivesBack
<1> QED  BY <1>6, <1>7

\* The same of a form that closes or sends.
LEMMA SubmitShape ==
    ASSUME FormTypeOK, NEW h \in Savers, Submit(h)
    PROVE  /\ form' = form /\ typed' = typed /\ asked' = asked /\ taken' = taken
           /\ doubted' = doubted /\ IsOpen /\ draft # Blank /\ ~Busy /\ h \notin Saving
           /\ saves' \in [Savers -> Save]
           /\ Saving' = Saving \cup {h}
           /\ saves'[h].phase = "sent" /\ saves'[h].to = about /\ saves'[h].draft = draft
           /\ \A g \in Saving : /\ saves'[g].phase = saves[g].phase
                                 /\ saves'[g].to = saves[g].to
                                 /\ saves'[g].draft = saves[g].draft
           /\ form.done = "sends" => about' = NoRecord /\ draft' = Blank
           /\ form.done # "sends" =>
                 /\ about' = about /\ draft' = draft
                 /\ saves' = [saves EXCEPT ![h] = Sending(draft)]
<1> DEFINE ss == [saves EXCEPT ![h] = Sending(draft)]
<1>1. about \in Records /\ Sending(draft) \in Save /\ Sending(draft).phase = "sent"
  <2>1. about \in Records /\ draft \in Draft
    BY DEF FormTypeOK, Submit, MaySend, IsOpen
  <2> QED  BY <2>1 DEF Sending, Save
<1>2. ss \in [Savers -> Save] /\ ss[h] = Sending(draft) /\ saves \in [Savers -> Save]
  BY <1>1 DEF FormTypeOK
<1>3. \A g \in Savers \ {h} : ss[g] = saves[g]
  BY <1>2
<1>4. /\ form' = form /\ typed' = typed /\ asked' = asked /\ taken' = taken
      /\ doubted' = doubted /\ IsOpen /\ draft # Blank /\ ~Busy /\ h \notin Saving
      /\ form.done = "sends" => about' = NoRecord /\ draft' = Blank /\ saves' = Left(ss)
      /\ form.done # "sends" => about' = about /\ draft' = draft /\ saves' = ss
  BY DEF Submit, MaySend
<1> HIDE DEF ss
<1>5. /\ saves' \in [Savers -> Save]
      /\ \A g \in Savers :
            /\ saves'[g].phase = ss[g].phase
            /\ ss[g].phase # "free" => /\ saves'[g].to = ss[g].to
                                       /\ saves'[g].draft = ss[g].draft
  BY <1>2, <1>4, LeftShape DEF Unsent
<1>6. Saving' = Saving \cup {h}
  <2>1. h \in Saving'
    BY <1>1, <1>2, <1>5 DEF Saving
  <2>2. \A g \in Savers \ {h} : g \in Saving' <=> g \in Saving
    BY <1>3, <1>5 DEF Saving
  <2> QED  BY <2>1, <2>2 DEF Saving
<1>7. /\ saves'[h].phase = "sent" /\ saves'[h].to = about /\ saves'[h].draft = draft
  BY <1>1, <1>2, <1>5 DEF Sending
<1>8. \A g \in Saving : /\ saves'[g].phase = saves[g].phase
                        /\ saves'[g].to = saves[g].to
                        /\ saves'[g].draft = saves[g].draft
  BY <1>3, <1>4, <1>5 DEF Saving
<1>9. form.done # "sends" => saves' = [saves EXCEPT ![h] = Sending(draft)]
  BY <1>4 DEF ss
<1> QED  BY <1>4, <1>5, <1>6, <1>7, <1>8, <1>9

LEMMA CloseShape ==
    ASSUME FormTypeOK, Close
    PROVE  /\ form' = form /\ typed' = typed /\ asked' = asked /\ taken' = taken
           /\ doubted' = doubted /\ IsOpen /\ about' = NoRecord
           /\ draft' = IF form.seed = "shut" THEN Blank ELSE draft
           /\ form.shut = "held" => ~Busy
           /\ saves' \in [Savers -> Save] /\ Saving' = Saving
           /\ \A g \in Saving : /\ saves'[g].phase = saves[g].phase
                                 /\ saves'[g].to = saves[g].to
                                 /\ saves'[g].draft = saves[g].draft
<1>1. saves \in [Savers -> Save] /\ saves' = Left(saves)
  BY DEF FormTypeOK, Close
<1>2. /\ saves' \in [Savers -> Save]
      /\ \A g \in Savers :
            /\ saves[g].phase = "free" => saves'[g] = Unsent
            /\ saves[g].phase # "free" =>
                  /\ saves'[g].phase = saves[g].phase /\ saves'[g].to = saves[g].to
                  /\ saves'[g].draft = saves[g].draft
  BY <1>1, LeftShape
<1>3. Saving' = Saving /\ \A g \in Saving : /\ saves'[g].phase = saves[g].phase
                                             /\ saves'[g].to = saves[g].to
                                             /\ saves'[g].draft = saves[g].draft
  BY <1>2 DEF Saving, Unsent
<1> QED  BY <1>2, <1>3 DEF Close, MayClose

\* The server takes a save: only its phase changes, and what is stored.
LEMMA ApplyShape ==
    ASSUME FormTypeOK, NEW h \in Savers, TakeSave(h)
    PROVE  /\ form' = form /\ typed' = typed /\ asked' = asked /\ about' = about
           /\ doubted' = doubted /\ draft' = draft
           /\ h \in Sent /\ saves[h] \in Save /\ saves[h].to \in Records
           /\ saves[h].draft \in Draft
           /\ taken' = [taken EXCEPT ![saves[h].to] = saves[h].draft.no]
           /\ saves' \in [Savers -> Save] /\ Saving' = Saving
           /\ saves'[h].phase = "applied"
           /\ \A g \in Savers \ {h} : saves'[g] = saves[g]
           /\ saves'[h].to = saves[h].to /\ saves'[h].draft = saves[h].draft
           /\ saves'[h].here = saves[h].here
           /\ \A g \in Saving : saves'[g].to = saves[g].to
           /\ \A g \in Saving : saves'[g].draft = saves[g].draft
           /\ \A g \in Saving : saves'[g].here = saves[g].here
<1>1. saves \in [Savers -> Save] /\ h \in Sent /\ h \in Saving
  BY DEF FormTypeOK, TakeSave, Saving, Sent
<1>2. saves[h] \in [phase : {"sent", "applied"}, to : Records, draft : Draft,
                    here : BOOLEAN]
  BY <1>1 DEF Save, Saving, Unsent
<1>3. saves' = [saves EXCEPT ![h] = [saves[h] EXCEPT !.phase = "applied"]]
  BY DEF TakeSave
<1>4. [saves[h] EXCEPT !.phase = "applied"] \in Save
  BY <1>2 DEF Save
<1>5. saves' \in [Savers -> Save] /\ \A g \in Savers \ {h} : saves'[g] = saves[g]
  BY <1>1, <1>3, <1>4
<1>6. /\ saves'[h].phase = "applied" /\ saves'[h].to = saves[h].to
      /\ saves'[h].draft = saves[h].draft /\ saves'[h].here = saves[h].here
  BY <1>1, <1>2, <1>3
<1>7. Saving' = Saving
  BY <1>1, <1>5, <1>6 DEF Saving
<1>8. saves[h] \in Save /\ saves[h].to \in Records /\ saves[h].draft \in Draft
  BY <1>1, <1>2
<1>9. \A g \in Saving : /\ saves'[g].to = saves[g].to
                        /\ saves'[g].draft = saves[g].draft
                        /\ saves'[g].here = saves[g].here
  BY <1>5, <1>6 DEF Saving
<1> QED  BY <1>1, <1>5, <1>6, <1>7, <1>8, <1>9 DEF TakeSave

\* The other steps leave the saves and the server alone.
Aside ==
    \/ \E r \in Records : OpenFor(r) \/ ReadAnswer(r) \/ FailRead(r)
    \/ Type \/ Reread \/ UNCHANGED formVars

LEMMA AsideShape ==
    ASSUME Aside
    PROVE  /\ form' = form /\ saves' = saves /\ Saving' = Saving
           /\ taken' = taken /\ doubted' = doubted
BY DEF Aside, OpenFor, ReadAnswer, FailRead, Type, Reread, formVars, Saving

LEMMA Steps ==
    ASSUME [FormNext]_formVars
    PROVE  \/ Aside \/ Close
           \/ \E h \in Savers : Submit(h) \/ TakeSave(h)
           \/ \E h \in Saving : ConfirmSave(h) \/ RefuseSave(h)
<1>1. \A h \in Savers : ConfirmSave(h) \/ RefuseSave(h) => h \in Saving
  BY DEF ConfirmSave, RefuseSave, Saving
<1> QED  BY <1>1 DEF FormNext, Aside

-----------------------------------------------------------------------------
LEMMA TypeStep ==
    ASSUME FormTypeOK, [FormNext]_formVars
    PROVE  FormTypeOK'
<1> USE FormAssumption
<1>0. Blank \in Draft
  BY DEF Blank, Draft, Drafts
<1>1. CASE Aside
  <2>1. CASE \E r \in Records : OpenFor(r)
    BY <2>1, <1>0 DEF FormTypeOK, OpenFor, Seed
  <2>2. CASE \E r \in Records : ReadAnswer(r)
    BY <2>2 DEF FormTypeOK, ReadAnswer, Draft, Drafts
  <2>3. CASE \E r \in Records : FailRead(r)
    BY <2>3 DEF FormTypeOK, FailRead
  <2>4. CASE Type
    BY <2>4 DEF FormTypeOK, Type, IsOpen, Draft, Drafts
  <2>5. CASE Reread
    BY <2>5 DEF FormTypeOK, Reread, IsOpen
  <2>6. CASE UNCHANGED formVars
    BY <2>6 DEF FormTypeOK, formVars
  <2> QED  BY <1>1, <2>1, <2>2, <2>3, <2>4, <2>5, <2>6 DEF Aside
<1>2. CASE Close
  BY <1>2, <1>0, CloseShape DEF FormTypeOK, Close
<1>3. ASSUME NEW h \in Savers, Submit(h)
      PROVE  FormTypeOK'
  <2>1. about' \in Records \cup {NoRecord} /\ draft' \in Draft
    BY <1>3, <1>0, SubmitShape DEF FormTypeOK
  <2>2. flag' \in Records \cup {NoRecord}
    BY <1>3 DEF FormTypeOK, Submit
  <2> QED  BY <1>3, <2>1, <2>2, SubmitShape DEF FormTypeOK
<1>4. ASSUME NEW h \in Savers, TakeSave(h)
      PROVE  FormTypeOK'
  <2>1. taken' \in [Records -> Drafts]
    BY <1>4, ApplyShape DEF FormTypeOK, Draft
  <2>2. flag' = flag
    BY <1>4 DEF TakeSave
  <2> QED  BY <1>4, <2>1, <2>2, ApplyShape DEF FormTypeOK
<1>5. ASSUME NEW h \in Saving, ConfirmSave(h) \/ RefuseSave(h)
      PROVE  FormTypeOK'
  <2>1. h \in Savers /\ saves[h].to \in Records /\ saves[h].draft \in Draft
    BY SaveShape DEF Saving
  <2>2. about' \in Records \cup {NoRecord} /\ draft' \in Draft
    BY <1>5, <2>1, <1>0, AnswerShape DEF FormTypeOK
  <2>3. flag' \in Records \cup {NoRecord} /\ doubted' \in BOOLEAN
    BY <1>5 DEF FormTypeOK, ConfirmSave, RefuseSave
  <2> QED  BY <1>5, <2>2, <2>3, AnswerShape DEF FormTypeOK
<1> QED  BY <1>1, <1>2, <1>3, <1>4, <1>5, Steps

LEMMA AsksStep ==
    ASSUME FormTypeOK, AsksToRead, [FormNext]_formVars
    PROVE  AsksToRead'
<1>1. CASE Aside
  BY <1>1 DEF AsksToRead, Reads, Aside, OpenFor, ReadAnswer, FailRead, Type, Reread, formVars
<1>2. CASE Close
  BY <1>2, CloseShape DEF AsksToRead, Reads
<1>3. ASSUME NEW h \in Savers, Submit(h) \/ TakeSave(h)
      PROVE  AsksToRead'
  BY <1>3 DEF AsksToRead, Reads, Submit, TakeSave
<1>4. ASSUME NEW h \in Saving, ConfirmSave(h) \/ RefuseSave(h)
      PROVE  AsksToRead'
  BY <1>4, AnswerShape DEF AsksToRead, Reads
<1> QED  BY <1>1, <1>2, <1>3, <1>4, Steps

LEMMA NumberedStep ==
    ASSUME FormTypeOK, Numbered, [FormNext]_formVars
    PROVE  Numbered'
<1>0. /\ typed \in Nat /\ draft.no \in Nat /\ taken \in [Records -> Nat]
      /\ \A h \in Saving : saves[h].draft.no \in Nat /\ saves[h].to \in Records
  <2>1. \A h \in Saving : saves[h].draft \in Draft /\ saves[h].to \in Records
    BY SaveShape DEF Saving
  <2> QED  BY <2>1, FormAssumption DEF FormTypeOK, Draft, Drafts
<1>1. CASE Aside
  <2>1. typed' \in {typed, typed + 1} /\ draft'.no \in {draft.no, 0, typed'}
    BY <1>1 DEF Aside, OpenFor, Seed, Blank, ReadAnswer, FailRead, Type, Reread, formVars
  <2>2. typed <= typed' /\ draft'.no <= typed'
    BY <1>0, <2>1 DEF Numbered
  <2>3. \A h \in Saving' : saves'[h].draft.no <= typed'
    BY <1>0, <1>1, <2>1, AsideShape DEF Numbered
  <2>4. \A r \in Records : taken'[r] <= typed'
    BY <1>0, <1>1, <2>1, AsideShape DEF Numbered
  <2> QED  BY <2>2, <2>3, <2>4 DEF Numbered
<1>2. CASE Close
  BY <1>0, <1>2, CloseShape DEF Numbered, Blank
<1>3. ASSUME NEW h \in Savers, Submit(h)
      PROVE  Numbered'
  <2>1. draft'.no <= typed
    BY <1>0, <1>3, SubmitShape DEF Numbered, Blank
  <2>2. \A g \in Saving' : saves'[g].draft.no <= typed
    BY <1>3, SubmitShape DEF Numbered
  <2> QED  BY <1>3, <2>1, <2>2, SubmitShape DEF Numbered
<1>4. ASSUME NEW h \in Savers, TakeSave(h)
      PROVE  Numbered'
  <2>1. saves[h].draft.no <= typed
    BY <1>4, ApplyShape DEF Numbered, Sent
  <2>2. \A r \in Records : taken'[r] <= typed
    BY <1>0, <1>4, <2>1, ApplyShape DEF Numbered
  <2>3. \A g \in Saving' : saves'[g].draft.no <= typed
    <3>1. Saving' = Saving /\ \A g \in Saving : saves'[g].draft = saves[g].draft
      BY <1>4, ApplyShape
    <3> QED  BY <3>1 DEF Numbered
  <2>4. typed' = typed /\ draft' = draft
    BY <1>4, ApplyShape
  <2> QED  BY <2>2, <2>3, <2>4 DEF Numbered
<1>5. ASSUME NEW h \in Saving, ConfirmSave(h) \/ RefuseSave(h)
      PROVE  Numbered'
  <2>1. draft' \in {draft, Blank, saves[h].draft}
    BY <1>5, AnswerShape
  <2>2. draft'.no <= typed
    <3>1. saves[h].draft.no <= typed /\ draft.no <= typed /\ 0 <= typed
      BY <1>0 DEF Numbered
    <3> QED  BY <2>1, <3>1 DEF Blank
  <2>3. \A g \in Saving' : g # h /\ g \in Savers
    BY <1>5, AnswerShape DEF Saving, Unsent
  <2> QED  BY <1>5, <2>2, <2>3, AnswerShape DEF Numbered
<1> QED  BY <1>1, <1>2, <1>3, <1>4, <1>5, Steps

LEMMA OwnDraftStep ==
    ASSUME FormTypeOK, AsksToRead, OwnDraft, [FormNext]_formVars
    PROVE  OwnDraft'
<1> SUFFICES ASSUME Emptied
             PROVE  /\ (draft.of = NoRecord => draft = Blank)'
                    /\ (IsOpen => draft.of \in {NoRecord, about})'
                    /\ (form.seed = "shut" /\ ~IsOpen => draft = Blank)'
                    /\ SavedToOwnRow'
  <2>1. form' = form
    BY Steps, AsideShape, CloseShape, SubmitShape, ApplyShape, AnswerShape
  <2> QED  BY <2>1 DEF OwnDraft, Emptied
<1>0. /\ draft.of = NoRecord => draft = Blank
      /\ IsOpen => draft.of \in {NoRecord, about}
      /\ form.seed = "shut" /\ ~IsOpen => draft = Blank
      /\ \A h \in Saving : saves[h].draft.of = saves[h].to
  BY DEF OwnDraft, SavedToOwnRow
<1>a. NoRecord \notin Records /\ Blank.of = NoRecord /\ asked = {}
  BY FormAssumption DEF Blank, AsksToRead, Emptied, Reads
<1>1. CASE Aside
  <2>1. SavedToOwnRow'
    BY <1>0, <1>1, AsideShape DEF SavedToOwnRow
  <2>2. CASE \E r \in Records : OpenFor(r)
    BY <2>1, <2>2, <1>0, <1>a DEF OpenFor, Seed, Emptied, IsOpen
  <2>3. CASE Type
    BY <2>1, <2>3, <1>0, <1>a DEF Type, IsOpen, FormTypeOK
  <2>4. CASE Reread \/ UNCHANGED formVars \/ \E r \in Records : ReadAnswer(r) \/ FailRead(r)
    BY <2>1, <2>4, <1>0, <1>a DEF Reread, formVars, ReadAnswer, FailRead, IsOpen
  <2> QED  BY <1>1, <2>2, <2>3, <2>4 DEF Aside
<1>2. CASE Close
  <2>1. SavedToOwnRow'
    BY <1>0, <1>2, CloseShape DEF SavedToOwnRow
  <2> QED  BY <1>0, <1>a, <1>2, <2>1, CloseShape DEF IsOpen
<1>3. ASSUME NEW h \in Savers, Submit(h)
      PROVE  /\ (draft.of = NoRecord => draft = Blank)'
             /\ (IsOpen => draft.of \in {NoRecord, about})'
             /\ (form.seed = "shut" /\ ~IsOpen => draft = Blank)'
             /\ SavedToOwnRow'
  <2>1. draft.of = about
    BY <1>0, <1>3, SubmitShape
  <2>2. SavedToOwnRow'
    BY <1>0, <1>3, <2>1, SubmitShape DEF SavedToOwnRow
  <2> QED  BY <1>0, <1>a, <1>3, <2>2, SubmitShape DEF IsOpen
<1>4. ASSUME NEW h \in Savers, TakeSave(h)
      PROVE  /\ (draft.of = NoRecord => draft = Blank)'
             /\ (IsOpen => draft.of \in {NoRecord, about})'
             /\ (form.seed = "shut" /\ ~IsOpen => draft = Blank)'
             /\ SavedToOwnRow'
  <2>1. SavedToOwnRow'
    <3>1. Saving' = Saving
          /\ \A g \in Saving : saves'[g].to = saves[g].to /\ saves'[g].draft = saves[g].draft
      BY <1>4, ApplyShape
    <3> QED  BY <1>0, <3>1 DEF SavedToOwnRow
  <2>2. about' = about /\ draft' = draft /\ form' = form
    BY <1>4, ApplyShape
  <2> QED  BY <1>0, <2>1, <2>2 DEF IsOpen
<1>5. ASSUME NEW h \in Saving, ConfirmSave(h) \/ RefuseSave(h)
      PROVE  /\ (draft.of = NoRecord => draft = Blank)'
             /\ (IsOpen => draft.of \in {NoRecord, about})'
             /\ (form.seed = "shut" /\ ~IsOpen => draft = Blank)'
             /\ SavedToOwnRow'
  <2>1. saves[h].to \in Records /\ saves[h].draft.of = saves[h].to
    BY <1>0, SaveShape DEF Saving
  <2>2. SavedToOwnRow'
    <3>1. \A g \in Saving' : g # h /\ g \in Savers
      BY <1>5, AnswerShape DEF Saving, Unsent
    <3> QED  BY <1>0, <1>5, <3>1, AnswerShape DEF SavedToOwnRow
  <2>3. form.done # "hides" /\ form' = form
    BY <1>5, AnswerShape DEF Emptied
  <2>4. \/ about' = about /\ draft' = draft
        \/ draft' = Blank
        \/ about' = saves[h].to /\ draft' = saves[h].draft
    BY <1>5, <2>3, AnswerShape
  <2> QED  BY <1>0, <1>a, <2>1, <2>2, <2>3, <2>4 DEF IsOpen
<1> QED  BY <1>1, <1>2, <1>3, <1>4, <1>5, Steps

-----------------------------------------------------------------------------
\* Where the button is disabled while it saves, nothing saves once it is not.
LEMMA NothingSaving ==
    ASSUME SentFromHere, form.busy = "page" \/ HeldOpen, ~Busy
    PROVE  Saving = {}
BY DEF SentFromHere, HeldOpen, Busy

LEMMA OneAtATimeStep ==
    ASSUME FormTypeOK, SentFromHere, OneAtATime, [FormNext]_formVars
    PROVE  OneAtATime'
<1>1. form' = form
  BY Steps, AsideShape, CloseShape, SubmitShape, ApplyShape, AnswerShape
<1> SUFFICES ASSUME form.busy = "page" \/ HeldOpen
             PROVE  \A g, h \in Saving' : g = h
  BY <1>1 DEF OneAtATime, HeldOpen
<1>2. CASE Saving' \subseteq Saving
  BY <1>2 DEF OneAtATime
<1>3. ASSUME NEW h \in Savers, Submit(h)
      PROVE  Saving' = {h}
  BY <1>3, SubmitShape, NothingSaving
<1>4. ASSUME NEW h \in Saving, ConfirmSave(h) \/ RefuseSave(h)
      PROVE  Saving' \subseteq Saving
  <2>1. \A g \in Saving' : g \in Savers \ {h}
    BY <1>4, AnswerShape DEF Saving, Unsent
  <2> QED  BY <1>4, <2>1, AnswerShape
<1>5. Aside \/ Close \/ (\E h \in Savers : TakeSave(h)) => Saving' \subseteq Saving
  BY AsideShape, CloseShape, ApplyShape
<1> QED  BY <1>2, <1>3, <1>4, <1>5, Steps

LEMMA SentFromHereStep ==
    ASSUME FormTypeOK, form \in Edited, SentFromHere, OneAtATime, [FormNext]_formVars
    PROVE  SentFromHere'
<1>1. form' = form
  BY Steps, AsideShape, CloseShape, SubmitShape, ApplyShape, AnswerShape
<1> SUFFICES ASSUME HeldOpen
             PROVE  \A g \in Saving' : saves'[g].here
  BY <1>1 DEF SentFromHere, HeldOpen
<1>2. CASE Aside
  BY <1>2, AsideShape DEF SentFromHere
<1>3. CASE Close
  BY <1>3, CloseShape, NothingSaving DEF HeldOpen
<1>4. ASSUME NEW h \in Savers, Submit(h)
      PROVE  \A g \in Saving' : saves'[g].here
  <2>1. form.done # "sends"
    BY FormAssumption DEF HeldOpen
  <2>2. saves' = [saves EXCEPT ![h] = Sending(draft)] /\ Saving' = {h}
    BY <1>4, <2>1, SubmitShape, NothingSaving
  <2> QED  BY <2>2 DEF Sending, FormTypeOK
<1>5. ASSUME NEW h \in Savers, TakeSave(h)
      PROVE  \A g \in Saving' : saves'[g].here
  <2>1. Saving' = Saving /\ \A g \in Saving : saves'[g].here = saves[g].here
    BY <1>5, ApplyShape
  <2> QED  BY <2>1 DEF SentFromHere
<1>6. ASSUME NEW h \in Saving, ConfirmSave(h) \/ RefuseSave(h)
      PROVE  Saving' = {}
  <2>1. \A g \in Saving' : g \in Savers \ {h}
    BY <1>6, AnswerShape DEF Saving, Unsent
  <2>2. \A g \in Savers \ {h} : g \notin Saving
    BY DEF OneAtATime
  <2> QED  BY <1>6, <2>1, <2>2, AnswerShape
<1> QED  BY <1>2, <1>3, <1>4, <1>5, <1>6, Steps

-----------------------------------------------------------------------------
LEMMA NumbersAreNat ==
    ASSUME FormTypeOK
    PROVE  /\ typed \in Nat /\ draft.no \in Nat /\ taken \in [Records -> Nat]
           /\ \A h \in Saving : saves[h].draft.no \in Nat /\ saves[h].to \in Records
<1>1. \A h \in Saving : saves[h].draft \in Draft /\ saves[h].to \in Records
  BY SaveShape DEF Saving
<1> QED  BY <1>1, FormAssumption DEF FormTypeOK, Draft, Drafts

LEMMA InOrderStep ==
    ASSUME Inv, [FormNext]_formVars
    PROVE  InOrder'
<1> FormTypeOK
  BY DEF Inv
<1>0. form' = form /\ (doubted => doubted')
  <2>1. \A h \in Saving : ConfirmSave(h) \/ RefuseSave(h) => (doubted => doubted')
    BY DEF ConfirmSave, RefuseSave
  <2> QED  BY <2>1, Steps, AsideShape, CloseShape, SubmitShape, ApplyShape, AnswerShape
<1> SUFFICES ASSUME Serial, ~doubted, ~doubted'
             PROVE  InOrder'
  BY <1>0 DEF InOrder, Serial
<1>a. /\ \A h \in Sent : saves[h].draft.no > 0 => Newer(saves[h].draft.no)
      /\ draft.no > 0 =>
            /\ \A r \in Records : taken[r] <= draft.no
            /\ Applied = {} \/ form.done = "sends" => Newer(draft.no)
            /\ \A h \in Saving : /\ saves[h].draft.no <= draft.no
                                 /\ form.done = "sends" => saves[h].draft.no < draft.no
  BY DEF Inv, InOrder
<1>b. /\ form.busy = "page" \/ HeldOpen
      /\ form.late = "acts" /\ SentFromHere /\ OneAtATime /\ Numbered
  BY DEF Serial, HeldOpen, Inv
<1>c. \A h \in Saving : saves[h].phase \in {"sent", "applied"}
  BY SaveShape DEF Saving
<1> USE NumbersAreNat
<1>1. CASE Aside
  <2>1. taken' = taken /\ saves' = saves /\ Saving' = Saving /\ Sent' = Sent /\ Applied' = Applied
    BY <1>1, AsideShape DEF Sent, Applied, Saving
  <2>2. \/ draft' = draft \/ draft'.no = 0
        \/ draft'.no = typed + 1
    BY <1>1 DEF Aside, OpenFor, Seed, Blank, ReadAnswer, FailRead, Type, Reread, formVars
  <2>3. CASE draft'.no = typed + 1
    <3>1. /\ \A r \in Records : taken[r] < draft'.no
          /\ \A h \in Saving : saves[h].draft.no < draft'.no
      BY <1>b, <2>3 DEF Numbered
    <3>2. /\ \A r \in Records : taken[r] <= draft'.no
          /\ \A h \in Saving : saves[h].draft.no <= draft'.no
      BY <3>1, <2>3
    <3>3. \A h \in Sent : saves[h].draft.no > 0 =>
             \A r \in Records : \/ taken[r] < saves[h].draft.no
                                \/ Repeats /\ taken[r] = saves[h].draft.no
      BY <1>a DEF Newer
    <3>4. \A h \in Sent' : saves'[h].draft.no > 0 =>
             \A r \in Records : \/ taken'[r] < saves'[h].draft.no
                                \/ Repeats' /\ taken'[r] = saves'[h].draft.no
      BY <3>3, <2>1, <1>0 DEF Repeats
    <3>5. \A r \in Records : taken'[r] < draft'.no /\ taken'[r] <= draft'.no
      BY <3>1, <3>2, <2>1
    <3>6. \A h \in Saving' : saves'[h].draft.no < draft'.no /\ saves'[h].draft.no <= draft'.no
      BY <3>1, <3>2, <2>1
    <3> HIDE NumbersAreNat
    <3> QED  BY <3>4, <3>5, <3>6 DEF InOrder, Newer
  <2>4. CASE draft'.no = 0
    BY <2>4, <2>1, <1>0, <1>a DEF InOrder, Newer, Repeats
  <2>5. CASE draft' = draft
    BY <2>5, <2>1, <1>0, <1>a DEF InOrder, Newer, Repeats
  <2> QED  BY <2>2, <2>3, <2>4, <2>5
<1>2. CASE Close
  <2>1. taken' = taken /\ Saving' = Saving /\ draft' \in {draft, Blank}
    BY <1>2, CloseShape
  <2>2. \A g \in Saving : saves'[g].phase = saves[g].phase /\ saves'[g].draft = saves[g].draft
    BY <1>2, CloseShape
  <2>3. Sent' = Sent /\ Applied' = Applied
    BY <2>1, <2>2 DEF Sent, Applied
  <2>4. \A g \in Sent : g \in Saving
    BY DEF Sent
  <2>5. Blank.no = 0
    BY DEF Blank
  <2>6. CASE draft' = draft
    BY <2>1, <2>2, <2>3, <2>4, <2>6, <1>0, <1>a DEF InOrder, Newer, Repeats
  <2>7. CASE draft' = Blank
    BY <2>1, <2>2, <2>3, <2>4, <2>5, <2>7, <1>0, <1>a DEF InOrder, Newer, Repeats
  <2> QED  BY <2>1, <2>6, <2>7
<1>3. ASSUME NEW h \in Savers, Submit(h)
      PROVE  InOrder'
  <2>1. Saving = {} /\ Applied = {} /\ Saving' = {h}
    BY <1>3, <1>b, SubmitShape, NothingSaving DEF Applied
  <2>2. /\ taken' = taken /\ saves'[h].phase = "sent" /\ saves'[h].draft = draft
        /\ form.done = "sends" => draft' = Blank
        /\ form.done # "sends" => draft' = draft
    BY <1>3, SubmitShape
  <2>3. Sent' = {h} /\ Applied' = {} /\ Blank.no = 0
    BY <2>1, <2>2 DEF Sent, Applied, Blank
  <2>4. draft.no > 0 => Newer(draft.no) /\ \A r \in Records : taken[r] <= draft.no
    BY <1>a, <2>1
  <2>5. CASE form.done = "sends"
    BY <2>1, <2>2, <2>3, <2>4, <2>5, <1>0 DEF InOrder, Newer, Repeats
  <2>6. CASE form.done # "sends"
    BY <2>1, <2>2, <2>3, <2>4, <2>6, <1>0 DEF InOrder, Newer, Repeats
  <2> QED  BY <2>5, <2>6
<1>4. ASSUME NEW h \in Savers, TakeSave(h)
      PROVE  InOrder'
  <2>1. /\ draft' = draft /\ h \in Sent /\ Saving' = Saving
        /\ taken' = [taken EXCEPT ![saves[h].to] = saves[h].draft.no]
        /\ saves'[h].phase = "applied"
        /\ \A g \in Saving : saves'[g].draft = saves[g].draft
    BY <1>4, ApplyShape
  <2>2. h \in Saving /\ \A g \in Saving : g = h
    BY <2>1, <1>b DEF Sent, OneAtATime
  <2>3. Sent' = {} /\ Applied' # {}
    BY <2>1, <2>2 DEF Sent, Applied
  <2>4. saves[h].draft.no \in Nat /\ saves[h].to \in Records
    BY <2>2
  <2>5. \A r \in Records : taken'[r] = IF r = saves[h].to THEN saves[h].draft.no ELSE taken[r]
    BY <2>1, <2>4
  <2>6. draft.no > 0 => \A r \in Records : taken'[r] <= draft.no
    BY <2>5, <2>2, <1>a
  <2>7. draft.no > 0 /\ form.done = "sends" => \A r \in Records : taken'[r] < draft.no
    <3>1. ASSUME draft.no > 0, form.done = "sends"
          PROVE  Newer(draft.no) /\ saves[h].draft.no < draft.no /\ ~Repeats
      BY <3>1, <1>a, <2>2 DEF Repeats
    <3> QED  BY <3>1, <2>4, <2>5 DEF Newer
  <2> QED  BY <2>1, <2>2, <2>3, <2>6, <2>7, <1>0, <1>a DEF InOrder, Newer, Repeats
<1>5. ASSUME NEW h \in Saving, ConfirmSave(h) \/ RefuseSave(h)
      PROVE  InOrder'
  <2>1. \A g \in Savers : g \in Saving => g = h
    BY <1>b DEF OneAtATime
  <2>2. Saving' = {} /\ Sent' = {} /\ Applied' = {} /\ taken' = taken
    <3>1. \A g \in Saving' : g \in Savers \ {h}
      BY <1>5, AnswerShape DEF Saving, Unsent
    <3>2. Saving' = {}
      BY <1>5, <2>1, <3>1, AnswerShape
    <3> QED  BY <1>5, <3>2, AnswerShape DEF Sent, Applied
  <2> SUFFICES draft'.no > 0 => Newer(draft'.no) /\ \A r \in Records : taken[r] <= draft'.no
    BY <2>2, <1>0 DEF InOrder, Newer, Repeats
  <2>3. Acts(h) /\ Blank.no = 0
    BY <1>b DEF Acts, Blank
  <2>4. CASE ConfirmSave(h)
    <3>1. \/ draft' = Blank
          \/ draft' = draft /\ form.done \in {"stays", "hides", "sends"}
      BY <2>3, <2>4 DEF ConfirmSave, Closes, Empties, Hides, Stays
    <3>2. CASE draft' = draft /\ form.done = "sends"
      BY <3>2, <1>a
    <3>3. CASE draft' = draft /\ Repeats
      BY <3>3, <1>a DEF Newer
    <3> QED  BY <3>1, <3>2, <3>3, <2>3 DEF Repeats
  <2>5. CASE RefuseSave(h)
    <3>1. saves[h].phase = "sent"
      BY <2>5, <1>c DEF RefuseSave
    <3>2. h \in Sent /\ Applied = {}
      BY <3>1, <2>1 DEF Sent, Applied, Saving
    <3>3. draft' \in {draft, Blank, saves[h].draft}
      BY <1>5, AnswerShape
    <3>4. CASE draft' = draft
      BY <3>2, <3>4, <1>a
    <3>5. CASE draft' = saves[h].draft
      <4>1. saves[h].draft.no > 0 => Newer(saves[h].draft.no)
        BY <3>2, <1>a
      <4> QED  BY <3>5, <4>1 DEF Newer
    <3> QED  BY <3>3, <3>4, <3>5, <2>3
  <2> QED  BY <1>5, <2>4, <2>5
<1> QED  BY <1>1, <1>2, <1>3, <1>4, <1>5, Steps

-----------------------------------------------------------------------------
LEMMA FormsInit ==
    ASSUME FormInit
    PROVE  Inv
<1>1. Saving = {} /\ Blank \in Draft /\ Blank.no = 0
  BY FormAssumption DEF FormInit, Saving, Unsent, Blank, Draft, Drafts
<1>2. FormTypeOK
  <2>1. saves \in [Savers -> Save] /\ taken \in [Records -> Drafts] /\ typed \in Drafts
    BY FormAssumption DEF FormInit, Save, Drafts
  <2>2. /\ form \in FormKind /\ about \in Records \cup {NoRecord} /\ draft \in Draft
        /\ flag \in Records \cup {NoRecord} /\ asked \subseteq Records
        /\ doubted \in BOOLEAN
    BY <1>1, FormAssumption DEF FormInit
  <2> QED  BY <2>1, <2>2 DEF FormTypeOK
<1>3. Numbered /\ AsksToRead
  BY <1>1 DEF FormInit, Numbered, AsksToRead
<1>4. OwnDraft /\ SentFromHere /\ OneAtATime
  BY <1>1 DEF FormInit, OwnDraft, SavedToOwnRow, SentFromHere, OneAtATime, IsOpen
<1>5. InOrder
  BY <1>1 DEF FormInit, InOrder, Sent
<1> QED  BY <1>2, <1>3, <1>4, <1>5 DEF FormInit, Inv

\* The invariant that the properties of the forms rest on.
THEOREM FormsInvariant == FormSpec => []Inv
<1>1. Inv /\ [FormNext]_formVars => Inv'
  <2> SUFFICES ASSUME Inv, [FormNext]_formVars
               PROVE  Inv'
    OBVIOUS
  <2>1. form' = form /\ FormTypeOK
    BY Steps, AsideShape, CloseShape, SubmitShape, ApplyShape, AnswerShape DEF Inv
  <2> QED  BY <2>1, TypeStep, AsksStep, NumberedStep, OwnDraftStep, OneAtATimeStep,
              SentFromHereStep, InOrderStep DEF Inv
<1> QED  BY <1>1, FormsInit, PTL DEF FormSpec

\* What a form that empties its draft saves for a record was typed for that record,
\* whatever was closed, opened and answered in between.
THEOREM SavedToOwnRowHolds == FormSpec => []SavedToOwnRow
<1>1. Inv => SavedToOwnRow
  BY DEF Inv, OwnDraft, SavedToOwnRow
<1> QED  BY <1>1, FormsInvariant, PTL

\* Nobody types into a dialog that the answer to an earlier one wipes, where the form
\* is held open while it saves or drops a late answer.
THEOREM TypedSurvivesHolds == FormSpec => TypedSurvives
<1> DEFINE Kept == \A h \in Savers :
              (saves[h] # Unsent /\ saves'[h] = Unsent /\ draft.no > 0 /\ Guarded)
                => (draft' = draft \/ saves[h].here)
<1>1. Inv /\ [FormNext]_formVars => [Kept]_formVars
  <2> SUFFICES ASSUME Inv, [FormNext]_formVars, NEW h \in Savers,
                      saves[h] # Unsent, saves'[h] = Unsent, Guarded
               PROVE  draft' = draft \/ saves[h].here
    OBVIOUS
  <2>1. FormTypeOK /\ SentFromHere /\ h \in Saving /\ h \notin Saving'
    <3>1. FormTypeOK /\ SentFromHere
      BY DEF Inv
    <3>2. h \in Saving
      BY <3>1, SaveShape
    <3> QED  BY <3>1, <3>2 DEF Saving, Unsent
  <2>2. ConfirmSave(h) \/ RefuseSave(h)
    <3>1. \A g \in Saving : ConfirmSave(g) \/ RefuseSave(g) => g = h
      BY <2>1, AnswerShape DEF Saving
    <3> QED  BY <2>1, <3>1, Steps, AsideShape, CloseShape, SubmitShape, ApplyShape
  <2>3. CASE HeldOpen
    BY <2>1, <2>3 DEF SentFromHere
  <2>4. CASE form.late = "dropped" /\ ~Restores
    <3>1. draft' = draft \/ Acts(h)
      BY <2>1, <2>2, <2>4, AnswerShape
    <3> QED  BY <2>4, <3>1 DEF Acts
  <2> QED  BY <2>3, <2>4 DEF Guarded, HeldOpen
<1> QED  BY <1>1, FormsInvariant, PTL DEF FormSpec, TypedSurvives

\* The server takes the drafts in the order they were typed, each of them once, from
\* every form whose button is disabled until the last save is answered.
THEOREM SavesInOrderHolds == FormSpec => SavesInOrder
<1> DEFINE Ordered == \A h \in Savers :
          (saves[h] # Unsent /\ saves[h].phase = "sent" /\ saves'[h] # Unsent
              /\ saves'[h].phase = "applied" /\ saves[h].draft.no > 0
              /\ Serial /\ ~doubted)
            => LET last == taken[saves[h].to] IN
               \/ last < saves[h].draft.no
               \/ Repeats /\ last = saves[h].draft.no
<1>1. Inv /\ [FormNext]_formVars => [Ordered]_formVars
  <2> SUFFICES ASSUME Inv, NEW h \in Savers, saves[h].phase = "sent",
                      saves[h].draft.no > 0, Serial, ~doubted
               PROVE  \/ taken[saves[h].to] < saves[h].draft.no
                      \/ Repeats /\ taken[saves[h].to] = saves[h].draft.no
    OBVIOUS
  <2>1. h \in Saving /\ h \in Sent /\ saves[h].to \in Records
    BY SaveShape DEF Inv, Saving, Sent
  <2> QED  BY <2>1 DEF Inv, InOrder, Newer
<1> QED  BY <1>1, FormsInvariant, PTL DEF FormSpec, SavesInOrder

=============================================================================
