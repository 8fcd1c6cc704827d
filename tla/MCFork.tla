------------------------------- MODULE MCFork -------------------------------
(***************************************************************************)
(* The shapes the chain leaves out: the handover is not the last step, the *)
(* Director chooses what follows it, the survey of the contract hangs on   *)
(* one of the two ways out and may be reopened by a legal dossier.         *)
(***************************************************************************)
EXTENDS WorkflowRuntime, TLC

CONSTANTS k06, k07, k08, none, office

MCNodes == {k06, k07, k08}
MCSucc == (k06 :> {k07, k08}) @@ (k07 :> {}) @@ (k08 :> {})
MCDefaultNext == (k06 :> none) @@ (k07 :> none) @@ (k08 :> none)
MCCode == (k06 :> 6) @@ (k07 :> 7) @@ (k08 :> 8)
MCDept == (k06 :> {}) @@ (k07 :> {office}) @@ (k08 :> {office})
MCNodeRoles == (k06 :> {"main"}) @@ (k07 :> {"main"}) @@ (k08 :> {"main", "assistant"})

ASSUME CodesFollowFlow /\ NoJoins
=============================================================================
