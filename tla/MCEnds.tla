------------------------------- MODULE MCEnds -------------------------------
(***************************************************************************)
(* What must happen eventually: the requests about a contract's money end, *)
(* and the front end's loading screen goes away over a bad network.  The   *)
(* two share nothing; a behaviour runs one of them.                        *)
(***************************************************************************)
EXTENDS MCPayments, BrowserSession

CONSTANTS t1, u1

VARIABLE running

allVars == <<running, vars, sessionVars>>

MCScenes == {[tabs |-> {t1}, users |-> {u1}, faults |-> {"network", "reload"}]}

EndsInit == Init /\ SessionInit /\ running \in {"payments", "session"}

EndsNext ==
    \/ running = "payments" /\ Next /\ UNCHANGED <<running, sessionVars>>
    \/ running = "session" /\ SessionNext /\ UNCHANGED <<running, vars>>

EndsSpec ==
    /\ EndsInit /\ [][EndsNext]_allVars
    /\ \A p \in Payments : WF_vars(running = "payments" /\ Advance(p))
    /\ \A d \in Decisions : WF_vars(running = "payments" /\ Decide(d))
    /\ WF_vars(running = "payments" /\ DeadlockDetected)
    /\ \A t \in Tabs : WF_sessionVars(running = "session" /\ SafetyTimer(t))

=============================================================================
