---------------------------- MODULE FormConstants ----------------------------
EXTENDS FormKinds, Naturals

CONSTANTS
    Edited,     \* the forms of the behaviours
    Records,    \* what a form may be about
    Only,       \* the record of a form that is about one thing
    NoRecord,   \* the form is closed
    Savers,     \* saves that may be under way at once
    MaxTyped    \* bound on the drafts of a behaviour

ASSUME FormAssumption ==
    /\ Edited \subseteq FormKind
    /\ \A f \in Edited : f.done = "sends" => f.shut = "free"
    /\ Only \in Records /\ NoRecord \notin Records
    /\ MaxTyped \in Nat

==============================================================================
