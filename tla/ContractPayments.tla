-------------------------- MODULE ContractPayments --------------------------
(***************************************************************************)
(* The money of one contract: requests that report a payment, each under a *)
(* Redis lock with a lease and a local fallback, and requests of the       *)
(* Director that approve, reject, void or amend a receipt, under no lock.  *)
(*                                                                         *)
(* A request is a transaction at READ COMMITTED: what it reads is what is  *)
(* committed at that moment, what it writes is seen by the others when it  *)
(* commits.  The rows it has written or locked stay so until then.  Two    *)
(* kinds of them matter: `row', the receivable of the contract, and the    *)
(* rows of its handover steps, which a payment by step shares from the     *)
(* event it inserts and which the holder of the receivable then locks.     *)
(***************************************************************************)
EXTENDS Integers, FiniteSets

CONSTANTS
    Payments,       \* requests to record a payment; also the receipts they create
    Decisions,      \* requests of the Director about a receipt
    Keys,           \* the lock keys of the contract and of its steps
    ContractKey,    \* "payment:contract:<id>", the others are "payment:node:<id>"
    Nobody,         \* no holder
    Amounts,        \* amounts that may be reported
    Total           \* contracts.total_value

ASSUME RequestAssumption == /\ Payments \cap Decisions = {}
                            /\ Nobody \notin Payments \cup Decisions
                            /\ IsFiniteSet(Payments)
ASSUME KeyAssumption == ContractKey \in Keys
ASSUME AmountAssumption == Amounts \subseteq Nat \ {0} /\ Total \in Nat \ {0}

VARIABLES
    phase,          \* where a payment request is in its handler
    answer,         \* the answer it has, or will get when it leaves the lock
    byDirector,     \* requests inside whose caller is the Director
    blind,          \* requests that read the debt before a receipt the lock
                    \* does not keep out was committed (history)
    key, via,       \* the lock it is inside, and the table that granted it
    redisHolder,    \* token stored in Redis under a key
    localHolder,    \* entry of _fallback_locks under a key
    lapsed,         \* requests inside whose lease in Redis has run out
    stray,          \* keys whose local entry once expired under its holder
    connected,      \* redis_utils._client is set
    voucher,        \* cashflow_transactions.status of the receipt, or "none"
    amount,         \* cashflow_transactions.amount
    fresh,          \* requests whose voucher number nobody has used since
    receivable,     \* receivables.paid_amount
    row,            \* transaction that holds the lock on the receivable row
    steps,          \* handover steps in progress as it reads them: it locks their
                    \* rows before its SUM and holds them to its end
    snap,           \* receivables.paid_amount as a transaction read it
    closes,         \* transactions whose SUM of approved receipts covers the debt
    noticed,        \* the last closing of the contract was tried with the debt paid
    decision,       \* the requests of the Director
    marks           \* what went wrong so far (history): see the properties

requestVars == <<phase, answer, byDirector, blind>>
lockVars == <<key, via, redisHolder, localHolder, lapsed, stray, connected>>
ledgerVars == <<voucher, amount, receivable, noticed>>
txVars == <<fresh, row, steps, snap, closes>>
vars == <<requestVars, lockVars, ledgerVars, txVars, decision, marks>>

Transactions == Payments \cup Decisions
Steps == Keys \ {ContractKey}
Holders == Payments \cup {Nobody}
Statuses == {"pending", "completed", "rejected", "cancelled"}
Operations == {"approve", "reject", "void", "amend"}

(* The handler's phases once the lock is passed.  From "debt" on the remaining
   debt has been read; from "posted" on the receipt is inserted, uncommitted. *)
Inserted == {"posted", "snapped", "holding", "summed"}
Working == {"inside", "debt", "numbered"} \cup Inserted
Phases == {"idle", "leaving", "done"} \cup Working

(* Success, or a refusal: 400 over the debt, 429 busy, 503 anything else. *)
Answers == {"none", "ok", "refused"}

Inside(p) == phase[p] \in Working \cup {"leaving"}

TypeOK ==
    /\ phase \in [Payments -> Phases]
    /\ answer \in [Payments -> Answers]
    /\ byDirector \subseteq Payments
    /\ blind \subseteq Payments
    /\ key \in [Payments -> Keys \cup {Nobody}]
    /\ via \in [Payments -> {"none", "redis", "local"}]
    /\ redisHolder \in [Keys -> Holders]
    /\ localHolder \in [Keys -> Holders]
    /\ lapsed \subseteq Payments
    /\ stray \subseteq Keys
    /\ connected \in BOOLEAN
    /\ voucher \in [Payments -> Statuses \cup {"none"}]
    /\ amount \in [Payments -> Amounts \cup {0}]
    /\ fresh \subseteq Payments
    /\ receivable \in Nat
    /\ row \in Transactions \cup {Nobody}
    /\ steps \subseteq Steps
    /\ snap \in [Transactions -> Nat]
    /\ closes \subseteq Transactions
    /\ noticed \in BOOLEAN
    /\ decision \in [Decisions ->
           [phase : {"idle", "started", "snapped", "holding", "summed", "done"},
            op : Operations \cup {"none"}, target : Holders,
            status : Statuses \cup {"none"}, amount : Amounts \cup {0}]]
    /\ marks \subseteq {"raced", "lost", "raised", "blind"}

(* The record of a decision that holds nothing. *)
Blank(ph) == [phase |-> ph, op |-> "none", target |-> Nobody,
              status |-> "none", amount |-> 0]

Init ==
    /\ phase = [p \in Payments |-> "idle"]
    /\ answer = [p \in Payments |-> "none"]
    /\ byDirector = {}
    /\ blind = {}
    /\ key = [p \in Payments |-> Nobody]
    /\ via = [p \in Payments |-> "none"]
    /\ redisHolder = [k \in Keys |-> Nobody]
    /\ localHolder = [k \in Keys |-> Nobody]
    /\ lapsed = {}
    /\ stray = {}
    /\ connected \in BOOLEAN
    /\ voucher = [p \in Payments |-> "none"]
    /\ amount = [p \in Payments |-> 0]
    /\ fresh = {}
    /\ receivable = 0
    /\ row = Nobody
    /\ steps = {}
    /\ snap = [x \in Transactions |-> 0]
    /\ closes = {}
    /\ noticed = FALSE
    /\ decision = [d \in Decisions |-> Blank("idle")]
    /\ marks = {}

-----------------------------------------------------------------------------
(* redis_distributed_lock *)

(* Only the Director reports a payment for the contract itself. *)
Callers(p, k) == IF k = ContractKey THEN {byDirector \cup {p}}
                 ELSE {byDirector, byDirector \cup {p}}

(* What the request asks for is fixed when it passes the lock. *)
Enter(p, k, table) ==
    /\ phase' = [phase EXCEPT ![p] = "inside"]
    /\ key' = [key EXCEPT ![p] = k]
    /\ via' = [via EXCEPT ![p] = table]
    /\ \E a \in Amounts : amount' = [amount EXCEPT ![p] = a]
    /\ byDirector' \in Callers(p, k)
    /\ UNCHANGED answer

(* The request is refused at the door. *)
TurnAway(p) ==
    /\ phase' = [phase EXCEPT ![p] = "done"]
    /\ answer' = [answer EXCEPT ![p] = "refused"]
    /\ UNCHANGED <<key, via, amount, byDirector>>

Outside == <<blind, lapsed, stray, voucher, receivable, noticed, txVars,
             decision, marks>>

Acquire(p, k) ==
    /\ phase[p] = "idle"
    /\ redisHolder[k] = Nobody
    /\ redisHolder' = [redisHolder EXCEPT ![k] = p]
    /\ connected' = TRUE
    /\ Enter(p, k, "redis")
    /\ UNCHANGED <<localHolder, Outside>>

(* Held for the half second the request waits: 429. *)
AcquireBusy(p, k) ==
    /\ phase[p] = "idle"
    /\ redisHolder[k] # Nobody
    /\ connected' = TRUE
    /\ TurnAway(p)
    /\ UNCHANGED <<redisHolder, localHolder, Outside>>

(* RedisError at the acquisition.  The SET may have reached Redis all the same;
   the request goes on under the entry of the process if that is free. *)
AcquireFails(p, k) ==
    /\ phase[p] = "idle"
    /\ \/ UNCHANGED redisHolder
       \/ /\ redisHolder[k] = Nobody
          /\ redisHolder' = [redisHolder EXCEPT ![k] = p]
    /\ connected' = TRUE
    /\ \/ /\ localHolder[k] = Nobody
          /\ localHolder' = [localHolder EXCEPT ![k] = p]
          /\ Enter(p, k, "local")
       \/ /\ localHolder[k] # Nobody
          /\ TurnAway(p)
          /\ UNCHANGED localHolder
    /\ UNCHANGED Outside

(* No client was ever connected: 503, after taking the entry of the process,
   which then stays until it expires. *)
NoClient(p, k) ==
    /\ phase[p] = "idle"
    /\ ~connected
    /\ localHolder' = [localHolder EXCEPT ![k] = IF @ = Nobody THEN p ELSE @]
    /\ TurnAway(p)
    /\ UNCHANGED <<redisHolder, connected, Outside>>

(* timeout_seconds have passed since the key, or the entry, was written. *)
LeaseExpires(k) ==
    /\ redisHolder[k] # Nobody
    /\ redisHolder' = [redisHolder EXCEPT ![k] = Nobody]
    /\ lapsed' = lapsed \cup {p \in Payments : /\ redisHolder[k] = p
                                              /\ Inside(p) /\ via[p] = "redis"}
    /\ UNCHANGED <<requestVars, key, via, localHolder, stray, connected,
                   ledgerVars, txVars, decision, marks>>

LocalExpires(k) ==
    /\ localHolder[k] # Nobody
    /\ localHolder' = [localHolder EXCEPT ![k] = Nobody]
    /\ stray' = IF \E p \in Payments : localHolder[k] = p /\ Inside(p) /\ via[p] = "local"
                THEN stray \cup {k} ELSE stray
    /\ UNCHANGED <<requestVars, key, via, redisHolder, lapsed, connected,
                   ledgerVars, txVars, decision, marks>>

(* Broken: the key is deleted whoever's token it carries. *)
ReleaseRedisBlindly(p) ==
    redisHolder' \in {redisHolder, [redisHolder EXCEPT ![key[p]] = Nobody]}

(* lock.release() deletes the key only if it still carries the token of the
   caller; an error of Redis on the way is swallowed. *)
ReleaseRedis(p) ==
    \/ UNCHANGED redisHolder
    \/ /\ redisHolder[key[p]] = p
       /\ redisHolder' = [redisHolder EXCEPT ![key[p]] = Nobody]

(* _fallback_locks.pop: the entry goes, whoever wrote it. *)
ReleaseLocal(p) == localHolder' = [localHolder EXCEPT ![key[p]] = Nobody]

(* The body is over, by success or by an exception.  Under the local entry
   a body that succeeded, and committed, is answered 503. *)
Leave(p) ==
    /\ phase[p] = "leaving"
    /\ phase' = [phase EXCEPT ![p] = "done"]
    /\ \/ /\ via[p] = "redis"
          /\ ReleaseRedis(p)
          /\ UNCHANGED <<answer, localHolder>>
       \/ /\ via[p] = "local"
          /\ ReleaseLocal(p)
          /\ answer' = [answer EXCEPT ![p] = "refused"]
          /\ UNCHANGED redisHolder
    /\ key' = [key EXCEPT ![p] = Nobody]
    /\ via' = [via EXCEPT ![p] = "none"]
    /\ lapsed' = lapsed \ {p}
    /\ UNCHANGED <<byDirector, blind, stray, connected, ledgerVars, txVars,
                   decision, marks>>

-----------------------------------------------------------------------------
(* _record_payment_transaction *)

(* The amounts f of the receipts s added up, counted unit by unit. *)
SumIn(f, s) == Cardinality(UNION {{p} \X (1..f[p]) : p \in s})
PaidIf(v) == SumIn(amount, {p \in Payments : v[p] = "completed"})
Paid == PaidIf(voucher)
Pending == SumIn(amount, {p \in Payments : voucher[p] = "pending"})
Floor(n) == IF n > 0 THEN n ELSE 0

(* Broken: receipts that wait for the Director are forgotten. *)
RoomNow == Floor(Total - Paid)

(* debt["remaining"] - debt["pending_amount"] *)
Room == Floor(Total - Paid) - Pending

(* Broken: an ended transaction keeps its row lock. *)
KeepRow(x) == row' = row /\ steps' = IF row = x THEN {} ELSE steps

(* The transaction ends: nothing of it is left but what it committed. *)
FreeRow(x) ==
    /\ row' = IF row = x THEN Nobody ELSE row
    /\ steps' = IF row = x THEN {} ELSE steps

Forget(x) ==
    /\ snap' = [snap EXCEPT ![x] = 0]
    /\ closes' = closes \ {x}
    /\ FreeRow(x)

(* The handler raises: its transaction is rolled back. *)
Refuse(p) ==
    /\ phase' = [phase EXCEPT ![p] = "leaving"]
    /\ answer' = [answer EXCEPT ![p] = "refused"]
    /\ amount' = [amount EXCEPT ![p] = 0]
    /\ byDirector' = byDirector \ {p}
    /\ blind' = blind \ {p}
    /\ fresh' = fresh \ {p}
    /\ Forget(p)
    /\ UNCHANGED <<lockVars, voucher, receivable, noticed, decision, marks>>

(* A step that only moves the handler on. *)
Step(p, from, to) ==
    /\ phase[p] = from
    /\ phase' = [phase EXCEPT ![p] = to]
    /\ UNCHANGED <<answer, byDirector, blind, lockVars, ledgerVars, decision, marks>>

ReadDebt(p) ==
    \/ /\ Step(p, "inside", "debt")
       /\ amount[p] <= Room
       /\ UNCHANGED txVars
    \/ /\ phase[p] = "inside"
       /\ amount[p] > Room
       /\ Refuse(p)

(* One more than the largest committed number of the month: whoever has read it
   since the last commit holds the same number. *)
ReadNumber(p) ==
    /\ Step(p, "debt", "numbered")
    /\ fresh' = fresh \cup {p}
    /\ UNCHANGED <<row, steps, snap, closes>>

InsertOpen == \E q \in Payments : phase[q] \in Inserted

(* The insert waits while another transaction has inserted the same number.  If
   the number was used meanwhile the primary key refuses, 503. *)
Insert(p) ==
    \/ /\ p \in fresh
       /\ ~InsertOpen
       /\ Step(p, "numbered", "posted")
       /\ UNCHANGED txVars
    \/ /\ phase[p] = "numbered"
       /\ p \notin fresh
       /\ Refuse(p)

(* A receipt of another contract takes the number. *)
OtherContract ==
    /\ fresh # {}
    /\ ~InsertOpen
    /\ fresh' = {}
    /\ UNCHANGED <<requestVars, lockVars, ledgerVars, row, steps, snap, closes,
                   decision, marks>>

HasSummed(x) == \/ x \in Payments /\ phase[x] = "summed"
                \/ x \in Decisions /\ decision[x].phase = "summed"

(* The event of a payment by step refers to the step: its insert waits while the
   step's row is locked, and shares it from then on. *)
StepOpen(p) == ~(key[p] \in steps /\ HasSummed(row))

SharesStep(q, x) == q # x /\ phase[q] = "snapped" /\ key[q] \in steps

(* "for update of n" in auto_finalize_node_if_ready, for each of the steps. *)
StepsFree(x) == ~\E q \in Payments : SharesStep(q, x)

(* The event is inserted, and the receivable read. *)
ReadReceivable(p) ==
    /\ p \in byDirector
    /\ StepOpen(p)
    /\ Step(p, "posted", "snapped")
    /\ snap' = [snap EXCEPT ![p] = receivable]
    /\ UNCHANGED <<fresh, row, steps, closes>>

(* db.flush(): the UPDATE of the receivable waits for its row lock.  Then the
   steps of the contract are read whose handover is under way. *)
Flush(p) ==
    /\ row = Nobody
    /\ Step(p, "snapped", "holding")
    /\ row' = p
    /\ steps' \in SUBSET Steps
    /\ UNCHANGED <<fresh, snap, closes>>

(* Broken: the SUM does not see the receipt just approved. *)
CoveredUnflushed(p) == Paid >= Total

(* The SUM of _finalize_contract_after_full_payment: committed receipts and the
   transaction's own.  The rows of the steps it has read are locked by then. *)
Covered(p) == PaidIf([voucher EXCEPT ![p] = "completed"]) >= Total

SumReceipts(p) ==
    /\ Step(p, "holding", "summed")
    /\ StepsFree(p)
    /\ closes' = closes \cup {x \in {p} : Covered(p)}
    /\ UNCHANGED <<fresh, row, steps, snap>>

(* What the contract knows of its own closing when x commits. *)
Notice(x) == noticed' = (x \in closes \/ (noticed /\ Paid' >= Total))

Mark(name, happened) == IF happened THEN {name} ELSE {}

(* The lock is to keep p and q apart. *)
Separated(p, q) ==
    /\ key[p] = key[q] /\ via[p] = via[q]
    /\ {p, q} \cap lapsed = {}
    /\ via[p] = "local" => key[p] \notin stray

(* The commit.  Every number read so far is used. *)
Commit(p) ==
    /\ \/ /\ phase[p] = "posted" /\ p \notin byDirector /\ StepOpen(p)
          /\ voucher' = [voucher EXCEPT ![p] = "pending"]
          /\ UNCHANGED receivable
       \/ /\ phase[p] = "summed"
          /\ voucher' = [voucher EXCEPT ![p] = "completed"]
          /\ receivable' = snap[p] + amount[p]
    /\ marks' = marks \cup Mark("blind", p \in blind)
                      \cup Mark("lost", p \in byDirector /\ snap[p] # receivable)
    /\ phase' = [phase EXCEPT ![p] = "leaving"]
    /\ answer' = [answer EXCEPT ![p] = "ok"]
    /\ byDirector' = byDirector \ {p}
    /\ blind' = {q \in Payments \ {p} :
                    \/ q \in blind
                    \/ phase[q] \in Working \ {"inside"} /\ ~Separated(q, p)}
    /\ fresh' = {}
    /\ Forget(p)
    /\ UNCHANGED <<amount, lockVars, decision>>
    /\ Notice(p)

(* Broken: what follows the commit may raise as well, and is answered 503. *)
FailLate(p) == phase[p] \in Working \cup {"leaving"} /\ Refuse(p)

(* A failure at any point before the commit: upload, signature, database.  After
   it the handler only publishes and clears caches, and these swallow errors. *)
Fail(p) == phase[p] \in Working /\ Refuse(p)

-----------------------------------------------------------------------------
(* approve_cashflow, reject_cashflow, void_cashflow, update_cashflow: the
   receipt is read, without a lock, and judged as read. *)

Target(d) == decision[d].target
At(d, ph) == decision[d].phase = ph
Move(d, to) == decision' = [decision EXCEPT ![d].phase = to]
End(d) == decision' = [decision EXCEPT ![d] = Blank("done")] /\ Forget(d)

(* Broken: a receipt taken back can be rejected, and then amended anew. *)
AllowedAgain(op) == CASE op = "approve" -> {"pending"}
                      [] op = "reject" -> {"pending", "cancelled"}
                      [] op = "void" -> {"pending", "completed", "rejected"}
                      [] op = "amend" -> {"pending", "rejected", "cancelled"}

(* The statuses from which each operation goes on. *)
Allowed(op) == CASE op = "approve" -> {"pending"}
                 [] op = "reject" -> {"pending"}
                 [] op = "void" -> {"pending", "completed", "rejected"}
                 [] op = "amend" -> {"pending", "rejected", "cancelled"}

Start(d, op, p) ==
    /\ At(d, "idle")
    /\ voucher[p] \in Allowed(op)
    /\ decision' = [decision EXCEPT ![d] = [phase |-> "started", op |-> op,
                       target |-> p, status |-> voucher[p], amount |-> amount[p]]]
    /\ UNCHANGED <<requestVars, lockVars, ledgerVars, txVars, marks>>

(* Broken: the void of a receipt that still waits takes it back too. *)
TakesBackAny(d) == decision[d].op = "void"

(* counts_toward_receivable: an approval books the receipt, a void takes back
   one that had been booked. *)
Books(d) == decision[d].op = "approve"
TakesBack(d) == decision[d].op = "void" /\ decision[d].status = "completed"

ReadReceivableFor(d) ==
    /\ At(d, "started")
    /\ Books(d) \/ TakesBack(d)
    /\ Move(d, "snapped")
    /\ snap' = [snap EXCEPT ![d] = receivable]
    /\ UNCHANGED <<requestVars, lockVars, ledgerVars, fresh, row, steps, closes, marks>>

(* Broken: nothing is written before the SUM, so no lock is waited for. *)
FlushApprovalLate(d) ==
    /\ At(d, "snapped")
    /\ Books(d)
    /\ Move(d, "holding")
    /\ row' = d
    /\ steps' \in SUBSET Steps
    /\ UNCHANGED <<requestVars, lockVars, ledgerVars, fresh, snap, closes, marks>>

FlushApproval(d) ==
    /\ At(d, "snapped")
    /\ Books(d)
    /\ row = Nobody
    /\ Move(d, "holding")
    /\ row' = d
    /\ steps' \in SUBSET Steps
    /\ UNCHANGED <<requestVars, lockVars, ledgerVars, fresh, snap, closes, marks>>

SumForApproval(d) ==
    /\ At(d, "holding")
    /\ StepsFree(d)
    /\ Move(d, "summed")
    /\ closes' = closes \cup {x \in {d} : Covered(Target(d))}
    /\ UNCHANGED <<requestVars, lockVars, ledgerVars, fresh, row, steps, snap, marks>>

(* Another approval has flushed this receipt and not ended. *)
ReceiptLocked(d) == \E e \in Decisions \ {d} :
    decision[e].phase \in {"holding", "summed"} /\ Target(e) = Target(d)

(* The receipt is no longer what the decision was taken on. *)
Raced(d) == \/ voucher[Target(d)] # decision[d].status
            \/ amount[Target(d)] # decision[d].amount

SetStatus(d, s) == voucher' = [voucher EXCEPT ![Target(d)] = s]

CommitApproval(d) ==
    /\ At(d, "summed")
    /\ SetStatus(d, "completed")
    /\ receivable' = Floor(snap[d] + decision[d].amount)
    /\ marks' = marks \cup Mark("raced", Raced(d))
                      \cup Mark("lost", snap[d] # receivable)
    /\ End(d)
    /\ UNCHANGED <<requestVars, lockVars, amount, fresh>>
    /\ Notice(d)

(* Broken: the receivable is not kept above zero. *)
TakeBackBelowZero(d) == receivable' = snap[d] - decision[d].amount

TakeBack(d) == receivable' = Floor(snap[d] - decision[d].amount)

(* A receivable read as zero stays as it is, and is not written. *)
CommitVoid(d) ==
    /\ decision[d].op = "void"
    /\ ~ReceiptLocked(d)
    /\ \/ /\ At(d, "started") /\ ~TakesBack(d)
          /\ UNCHANGED receivable
       \/ /\ At(d, "snapped") /\ snap[d] = 0
          /\ UNCHANGED receivable
       \/ /\ At(d, "snapped") /\ snap[d] # 0 /\ row = Nobody
          /\ TakeBack(d)
    /\ SetStatus(d, "cancelled")
    /\ marks' = marks \cup Mark("raced", Raced(d))
                      \cup Mark("lost", TakesBack(d) /\ snap[d] # receivable)
    /\ End(d)
    /\ UNCHANGED <<requestVars, lockVars, amount, fresh>>
    /\ Notice(d)

CommitReject(d) ==
    /\ At(d, "started")
    /\ decision[d].op = "reject"
    /\ ~ReceiptLocked(d)
    /\ SetStatus(d, "rejected")
    /\ marks' = marks \cup Mark("raced", Raced(d))
    /\ End(d)
    /\ UNCHANGED <<requestVars, lockVars, amount, receivable, fresh>>
    /\ Notice(d)

(* update_cashflow of a receipt not yet approved: the new amount is compared
   with nothing. *)
CommitAmend(d) ==
    /\ At(d, "started")
    /\ decision[d].op = "amend"
    /\ ~ReceiptLocked(d)
    /\ \E a \in Amounts :
           /\ amount' = [amount EXCEPT ![Target(d)] = a]
           /\ marks' = marks \cup Mark("raced", Raced(d))
                             \cup Mark("raised", a > amount[Target(d)])
    /\ End(d)
    /\ UNCHANGED <<requestVars, lockVars, voucher, receivable, fresh>>
    /\ Notice(d)

(* Any error on the way: the transaction is rolled back. *)
Abort(d) ==
    /\ decision[d].phase \notin {"idle", "done"}
    /\ End(d)
    /\ UNCHANGED <<requestVars, lockVars, ledgerVars, fresh, marks>>

(* PostgreSQL finds a circle of waits: the holder of the receivable wants a step
   that another shares who waits for the receivable.  It makes one of them fail. *)
InCircle(q) == row # Nobody /\ ~HasSummed(row) /\ SharesStep(q, row)

DeadlockDetected == \E q \in Payments :
    /\ InCircle(q)
    /\ \/ Fail(q)
       \/ row \in Payments /\ Fail(row)
       \/ row \in Decisions /\ Abort(row)

-----------------------------------------------------------------------------
Advance(p) == \/ ReadDebt(p) \/ ReadNumber(p) \/ Insert(p) \/ ReadReceivable(p)
              \/ Flush(p) \/ SumReceipts(p) \/ Commit(p)
              \/ Leave(p)

Decide(d) == \/ ReadReceivableFor(d) \/ FlushApproval(d) \/ SumForApproval(d)
             \/ CommitApproval(d) \/ CommitVoid(d) \/ CommitReject(d) \/ CommitAmend(d)

Next ==
    \/ \E p \in Payments, k \in Keys :
           Acquire(p, k) \/ AcquireBusy(p, k) \/ AcquireFails(p, k) \/ NoClient(p, k)
    \/ \E k \in Keys : LeaseExpires(k) \/ LocalExpires(k)
    \/ \E p \in Payments : Advance(p) \/ Fail(p)
    \/ OtherContract
    \/ \E d \in Decisions, op \in Operations, p \in Payments : Start(d, op, p)
    \/ \E d \in Decisions : Decide(d) \/ Abort(d)

(* The thread that serves a request runs it to its end, and PostgreSQL grants a
   row lock that is released and breaks a circle of waits. *)
Spec == /\ Init /\ [][Next]_vars
        /\ \A p \in Payments : WF_vars(Advance(p))
        /\ \A d \in Decisions : WF_vars(Decide(d))
        /\ WF_vars(DeadlockDetected)

-----------------------------------------------------------------------------
(* Properties *)

(* A request inside whose lease has not run out is the one its key names: what
   others do at their own end, late or early, does not open the lock under it.
   In Redis because the release compares the token; in the process only until an
   entry has expired under its holder, for the entry is removed blindly
   (redis_distributed_lock). *)
LockHeld ==
    \A p \in Payments : Inside(p) =>
        /\ via[p] = "redis" /\ p \notin lapsed => redisHolder[key[p]] = p
        /\ via[p] = "local" /\ key[p] \notin stray => localHolder[key[p]] = p

(* Up to its exit from the lock a request answers what it did: success if and
   only if its receipt is there (_store_payment_receipts), and whoever is
   answered success finds it (compare RefusedDidNothing). *)
AnswerTrue ==
    \A p \in Payments :
        /\ Inside(p) => (answer[p] = "ok" <=> voucher[p] # "none")
        /\ answer[p] = "ok" => voucher[p] # "none"

(* The receipts that are approved or wait never exceed the value of the contract
   (the test of _record_payment_transaction), unless one was raised afterwards,
   a decision was overwritten by another taken on the same receipt, or a receipt
   was posted on a debt read before another one by a request the lock does not
   keep apart from it: another key, the other table, a lease that ran out. *)
NotOverpaid ==
    Paid + Pending <= Total \/ marks \cap {"raced", "raised", "blind"} # {}

(* The receivable is the sum of the approved receipts (_sync_receivables, called
   by the payment, the approval and the void), as long as no transaction wrote it
   from a stale value and no decision overwrote another. *)
ReceivableAgrees == receivable = Paid \/ marks \cap {"raced", "lost"} # {}

(* When the approved receipts cover the contract, the transaction that brought
   the last of them has seen so and tried to close the contract: none closes on a
   sum that misses the other's receipt, although both read the receivable before
   either wrote it (db.flush before _finalize_contract_after_full_payment). *)
FullPaymentNoticed == Paid >= Total => noticed \/ "raced" \in marks

(* While a transaction holds the row of the receivable nobody else changes it and
   no other receipt becomes approved: the SUM it has taken still stands when it
   commits (db.flush in approve_cashflow and _record_payment_transaction). *)
RowProtects ==
    [][row # Nobody /\ row' = row =>
          /\ receivable' = receivable
          /\ \A p \in Payments : voucher'[p] = "completed" => voucher[p] = "completed"]_vars

(* Every request that passed the lock is answered, and every decision taken ends.
   Every way out releases what it holds, and the waits for a voucher number, a
   receipt, the receivable and a step form one kind of circle only, which the
   database breaks by failing one of those in it: the payment of the Director by
   step shares the step before it waits for the receivable (the event of
   _record_payment_transaction, then db.flush), the holder of the receivable locks
   the step after it (auto_finalize_node_if_ready). *)
EveryRequestEnds ==
    /\ \A p \in Payments : Inside(p) ~> phase[p] = "done"
    /\ \A d \in Decisions : decision[d].phase # "idle" ~> decision[d].phase = "done"

(* The requests on a contract, however their transactions interleave, have the
   effect of as many steps of the ledger, taken one at a time when they commit: no
   one acts on a debt, a receipt or a receivable that was no longer so, save where
   a mark is set.  A receipt counts from its commit on. *)
Ledger == INSTANCE PaymentLedger
             WITH Receipts <- Payments, status <- voucher, booked <- receivable,
                  worth <- [p \in Payments |-> IF voucher[p] = "none" THEN 0 ELSE amount[p]],
                  closing <- noticed, wrong <- marks # {}

ImplementsLedger == Ledger!Spec

(* "Nếu Redis sập: Từ chối thao tác" (redis_distributed_lock): a request that
   was not answered with success recorded nothing. *)
RefusedDidNothing ==
    \A p \in Payments : phase[p] = "done" /\ answer[p] # "ok" => voucher[p] = "none"

(* The receivable follows the approved receipts, whatever the order of requests. *)
ReceivableMatchesReceipts == receivable = Paid
=============================================================================
