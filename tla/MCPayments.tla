----------------------------- MODULE MCPayments -----------------------------
(***************************************************************************)
(* Payments and decisions on a contract worth two units, reported in units *)
(* and pairs, under the key of the contract and the key of one step.       *)
(***************************************************************************)
EXTENDS ContractPayments, TLC

CONSTANTS p1, p2, d1, d2, contract, step

\* Bound: a behaviour ends where a second kind of mishap marks it.
OneMishap == Cardinality(marks) <= 1

Alike == Permutations(Payments) \cup Permutations(Decisions)
=============================================================================
