------------------------------ MODULE MCDetour ------------------------------
(***************************************************************************)
(* A chain whose codes do not follow the flow: K02 -> N04 -> K07, the order *)
(* _rollback_affected_nodes names as the one the walk along the            *)
(* transitions is there for.                                               *)
(***************************************************************************)
EXTENDS WorkflowRuntime, TLC

CONSTANTS k02, n04, k07, none, office

MCNodes == {k02, n04, k07}
MCSucc == (k02 :> {n04}) @@ (n04 :> {k07}) @@ (k07 :> {})
MCDefaultNext == (k02 :> n04) @@ (n04 :> k07) @@ (k07 :> none)
MCCode == (k02 :> 2) @@ (n04 :> 14) @@ (k07 :> 7)
MCDept == (k02 :> {office}) @@ (n04 :> {office}) @@ (k07 :> {office})
MCNodeRoles == (k02 :> {"main"}) @@ (n04 :> {"main"}) @@ (k07 :> {"main"})
=============================================================================
