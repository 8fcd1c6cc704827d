-------------------------- MODULE ScreenConstants --------------------------
(***************************************************************************)
(* The parameters of Screens.                                              *)
(***************************************************************************)
EXTENDS ScreenKinds

CONSTANTS
    Opened,       \* pairs <<load, write>> of the tables
    Keys,         \* what a keyed load may be about
    First,        \* the key the screen opens with
    Slots,        \* Slots[g]: loads under way at once, for guard g (a bound)
    Hands,        \* writes under way at once (a bound)
    MaxVersion    \* changes of the data on the server (a bound)

Parts == {Discipline(o[1], o[2]) : o \in Opened}

ASSUME ScreensAssumption ==
    /\ Parts \subseteq Disciplines
    /\ First \in Keys
    /\ DOMAIN Slots = {"latest", "any"}
    /\ \A g \in DOMAIN Slots : 0 \notin Slots[g]
    /\ MaxVersion \in Nat

=============================================================================
