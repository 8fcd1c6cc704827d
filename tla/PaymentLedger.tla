--------------------------- MODULE PaymentLedger ---------------------------
(***************************************************************************)
(* What the money of a contract promises, with no word on transactions,    *)
(* locks or stale reads: receipts are reported and decided one at a time,  *)
(* each on the books as they are at that moment, and the books follow at   *)
(* once.  A ledger that has gone wrong promises nothing more.              *)
(***************************************************************************)
EXTENDS Integers

CONSTANTS
    Receipts,   \* the receipts there may ever be
    Amounts,    \* what a receipt may be worth
    Total,      \* the value of the contract
    SumIn(_, _) \* what the worth of a set of receipts adds up to

VARIABLES
    status,     \* of each receipt, "none" before it is reported
    worth,      \* of each receipt, 0 before it is reported
    booked,     \* the receivable
    closing,    \* the contract has been told that it is paid
    wrong       \* a request has acted on something that was no longer so

ledger == <<status, worth, booked, closing, wrong>>

With(s) == {r \in Receipts : status[r] = s}
Paid == SumIn(worth, With("completed"))
Waiting == SumIn(worth, With("pending"))

Init ==
    /\ status = [r \in Receipts |-> "none"]
    /\ worth = [r \in Receipts |-> 0]
    /\ booked = 0
    /\ closing = FALSE
    /\ wrong = FALSE

Become(r, s) == status' = [status EXCEPT ![r] = s]

(* A receipt is reported within what is still owed; the Director's own is
   approved with it. *)
Report(r) ==
    /\ status[r] = "none"
    /\ \E s \in {"pending", "completed"} : Become(r, s)
    /\ \E a \in Amounts :
           /\ worth' = [worth EXCEPT ![r] = a]
           /\ Paid + Waiting + a <= Total

Approve(r) == status[r] = "pending" /\ Become(r, "completed") /\ UNCHANGED worth

Reject(r) == status[r] = "pending" /\ Become(r, "rejected") /\ UNCHANGED worth

Void(r) ==
    /\ status[r] \in {"pending", "completed", "rejected"}
    /\ Become(r, "cancelled")
    /\ UNCHANGED worth

(* What is approved stays as it is, and nothing is raised. *)
Amend(r) ==
    /\ status[r] \in {"pending", "rejected", "cancelled"}
    /\ \E a \in Amounts : a <= worth[r] /\ worth' = [worth EXCEPT ![r] = a]
    /\ UNCHANGED status

(* The receivable is what has been approved, and the contract knows whether
   that covers it. *)
BooksFollow == booked' = Paid' /\ closing' = (Paid' >= Total)

Keep ==
    /\ ~wrong /\ ~wrong'
    /\ \E r \in Receipts : Report(r) \/ Approve(r) \/ Reject(r) \/ Void(r) \/ Amend(r)
    /\ BooksFollow

GoWrong == wrong'

Next == GoWrong \/ Keep

Spec == Init /\ [][Next]_ledger

\* The books of a ledger that has not gone wrong.
Balanced ==
    ~wrong => /\ Paid + Waiting <= Total
              /\ booked = Paid
              /\ closing <=> Paid >= Total
=============================================================================
