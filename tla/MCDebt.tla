------------------------------- MODULE MCDebt -------------------------------
(***************************************************************************)
(* The list of debts beside the write-off of one: the list is read through *)
(* the cache, and the write makes another area void.                       *)
(***************************************************************************)
EXTENDS Screens, FinanceScreens

MCOpened == {<<DebtList, WriteOffDebt>>}
MCSlots == [latest |-> {1, 2}, any |-> {1}]

=============================================================================
