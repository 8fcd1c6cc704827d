-------------------------- MODULE StudioConstants --------------------------
(***************************************************************************)
(* The parameters of TemplateStudio.                                       *)
(***************************************************************************)
EXTENDS StepChain, Naturals

CONSTANTS
    Combos,     \* (package, task type)
    Templates,  \* ids of the rows, never used twice
    None,       \* no row, no template chosen
    Erased,     \* a row that was deleted
    Starter,    \* makeStarterFlow
    StudioScenes    \* the instances: [combos, rows, loads, edits, posts, rivals, tabs],
                    \* the combos and rows in play, the loads under way at once, the
                    \* edits, the kinds of write, the drawings other directors store
                    \* (bounds), and whether there is another tab

PostKinds == {"save", "clone", "delete"}

ASSUME StudioAssumption ==
    /\ None \notin Templates /\ Erased \notin Templates /\ "NEW" \notin Templates
    /\ None # Erased /\ None \notin PostKinds
    /\ None \notin [combo : Combos, graph : Graph]
    /\ Starter \in Graph /\ Chain(Starter)
    /\ \A s \in StudioScenes :
        /\ s.combos \subseteq Combos /\ s.rows \subseteq Templates /\ s.edits \in Nat
        /\ s.posts \subseteq PostKinds
        /\ \A g \in s.rivals : g \in Graph /\ Chain(g)

=============================================================================
