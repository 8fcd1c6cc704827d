------------------------------- MODULE MCChain -------------------------------
(***************************************************************************)
(* A chain of three steps whose codes follow the flow: a survey in the     *)
(* field, a step with an output document that may be paused, and the       *)
(* handover behind the debt gate.                                          *)
(***************************************************************************)
EXTENDS WorkflowRuntime, TLC

CONSTANTS k02, k03, k06, none, survey

MCNodes == {k02, k03, k06}
MCSucc == (k02 :> {k03}) @@ (k03 :> {k06}) @@ (k06 :> {})
MCDefaultNext == (k02 :> k03) @@ (k03 :> k06) @@ (k06 :> none)
MCCode == (k02 :> 2) @@ (k03 :> 3) @@ (k06 :> 6)
MCDept == (k02 :> {survey}) @@ (k03 :> {survey}) @@ (k06 :> {})
MCNodeRoles == (k02 :> {"main"}) @@ (k03 :> {"main"}) @@ (k06 :> {"main"})

ASSUME CodesFollowFlow /\ Linear /\ HandoverIsLast /\ NoReopening
=============================================================================
