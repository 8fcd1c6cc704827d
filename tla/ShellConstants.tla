--------------------------- MODULE ShellConstants ---------------------------
EXTENDS Naturals

CONSTANTS
    Profiles,   \* what /me may answer: [user, director, employee, may]
    Nobody,     \* no profile
    Logins,     \* bound on the sign-ins of a behaviour
    Asked,      \* bound on the navigations of a behaviour
    Savings     \* bound on the saves under way

\* The permissions the tabs below ask for.
Resources == {"finance", "contract", "survey_record"}

ASSUME ShellAssumption ==
    /\ \A p \in Profiles :
          p.director \in BOOLEAN /\ p.employee \in BOOLEAN /\ p.may \subseteq Resources
    /\ Nobody \notin Profiles
    /\ Logins \in Nat \ {0} /\ Asked \in Nat /\ Savings \in Nat

==============================================================================
