-------------------------- MODULE SessionConstants --------------------------
(***************************************************************************)
(* The parameters of BrowserSession.                                       *)
(***************************************************************************)
EXTENDS Naturals

CONSTANTS
    Tabs,       \* tabs of the browser
    Users,      \* accounts
    NoUser,     \* nobody
    MaxRows,    \* refresh-token rows the server may issue (a bound)
    Calls,      \* calls a tab may have outstanding (a bound)
    Attempts,   \* tries of validateSession before it gives up
    SessionScenes   \* which tabs are used, by whom, and what may happen (a bound)

ASSUME SessionAssumption ==
    /\ NoUser \notin Users
    /\ MaxRows \in Nat
    /\ Attempts \in Nat \ {0}
    /\ SessionScenes \subseteq
            [tabs : SUBSET Tabs, users : SUBSET Users,
             faults : SUBSET {"network", "age", "password", "reload"}]

=============================================================================
