----------------------------- MODULE StepChain -----------------------------
(***************************************************************************)
(* The rule both workflow editors draw by: every step has at most one way  *)
(* in and one way out, and nothing runs in circles                         *)
(* (components/contracts/workflowEdgeRouting.js), beside the connectivity  *)
(* the server asks of a graph (validate_workflow_graph).  Reachability is  *)
(* stated by closed sets, so that it can be reasoned about.                *)
(***************************************************************************)
CONSTANTS Steps, NoStep

ASSUME StepAssumption == NoStep \notin Steps

Edge == Steps \X Steps
Graph == [nodes : SUBSET Steps, edges : SUBSET Edge, start : Steps \cup {NoStep}]

Closed(S, E) == \A e \in E : e[1] \in S => e[2] \in S

\* hasCyclePath: a path from a to b, possibly empty.
Reaches(a, b, E) == \A S \in SUBSET Steps : (a \in S /\ Closed(S, E)) => b \in S

OneWay(E) == \A e, f \in E : (e[1] = f[1] \/ e[2] = f[2]) => e = f
Acyclic(E) ==
    \A S \in SUBSET Steps :
        S # {} => \E n \in S : \A m \in S : <<n, m>> \notin E
Sequential(E) == OneWay(E) /\ Acyclic(E)

\* Broken: a step may get a second way out.
MayConnectTwice(a, b, E) ==
    /\ a # b
    /\ \A e \in E : e[2] # b
    /\ ~Reaches(b, a, E)

\* checkSequentialConnection.
MayConnect(a, b, E) ==
    /\ a # b
    /\ \A e \in E : e[1] # a /\ e[2] # b
    /\ ~Reaches(b, a, E)

WithoutStep(E, n) == {e \in E : e[1] # n /\ e[2] # n}

\* The server's rules: the start exists, the edges stay inside, every step is
\* reached from the start.
Sound(g) == g.start \in g.nodes /\ g.edges \subseteq g.nodes \X g.nodes
Connected(g) == \A n \in g.nodes : Reaches(g.start, n, g.edges)

\* One path from the start through every step.
Chain(g) == Sequential(g.edges) /\ Sound(g) /\ Connected(g)

=============================================================================
