----------------------------- MODULE StepOrder -----------------------------
(***************************************************************************)
(* What a workflow instance promises about the order of its steps, with no *)
(* word on staff, evidence or money: a step is done once everything before *)
(* it is done, and only going back undoes steps, leaving nothing done      *)
(* behind a step that no longer is.                                        *)
(***************************************************************************)
CONSTANTS Steps, Before   \* Before[n]: the steps n may not be done without

VARIABLE done

Init == done = {}

Finish(n) ==
    /\ n \notin done
    /\ Before[n] \subseteq done
    /\ done' = done \cup {n}

GoBack(back) ==
    /\ back # {}
    /\ \A n \in done : Before[n] \cap back # {} => n \in back
    /\ done' = done \ back

Next ==
    \/ \E n \in Steps : Finish(n)
    \/ \E back \in SUBSET done : GoBack(back)

Spec == Init /\ [][Next]_done

\* Whatever is done has everything before it done.
InOrder == \A n \in done : Before[n] \subseteq done

=============================================================================
