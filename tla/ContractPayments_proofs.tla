----------------------- MODULE ContractPayments_proofs -----------------------
(***************************************************************************)
(* What holds of the payment lock, the debt, the receivable and the        *)
(* closing of a contract for every number of requests, decisions, keys and *)
(* amounts.                                                                *)
(***************************************************************************)
EXTENDS ContractPayments, FiniteSetTheorems, TLAPS

-----------------------------------------------------------------------------
(* Type correctness *)

LEMMA AmountNat == ASSUME NEW a \in Amounts \cup {0} PROVE a \in Nat
  BY AmountAssumption

LEMMA FloorNat == ASSUME NEW n \in Int PROVE Floor(n) \in Nat
  BY DEF Floor

(* A handler that raises leaves the state well typed. *)
LEMMA RefuseType == ASSUME TypeOK, NEW p \in Payments, Refuse(p) PROVE TypeOK'
  BY RequestAssumption DEF TypeOK, Refuse, Forget, FreeRow, lockVars, Phases, Answers,
     Transactions

(* So does a step that only moves a payment on; what it keeps is listed. *)
LEMMA StepType ==
    ASSUME TypeOK, NEW p \in Payments, NEW from, NEW to \in Phases, Step(p, from, to),
           fresh' \subseteq Payments, row' \in Transactions \cup {Nobody},
           steps' \subseteq Steps, snap' \in [Transactions -> Nat], closes' \subseteq Transactions
    PROVE  TypeOK'
  BY DEF TypeOK, Step, lockVars, ledgerVars

(* The steps of a payment request. *)
LEMMA AdvanceType ==
    ASSUME TypeOK, NEW p \in Payments, Advance(p) \/ Fail(p) PROVE TypeOK'
<1> USE DEF Working, Inserted, Phases
<1>1. CASE ReadDebt(p)
  <2>1. CASE Step(p, "inside", "debt") /\ UNCHANGED txVars
    BY <2>1, StepType DEF TypeOK, txVars
  <2> QED BY <1>1, <2>1, RefuseType DEF ReadDebt
<1>2. CASE ReadNumber(p)
  BY <1>2, StepType DEF TypeOK, ReadNumber
<1>3. CASE Insert(p)
  <2>1. CASE Step(p, "numbered", "posted") /\ UNCHANGED txVars
    BY <2>1, StepType DEF TypeOK, txVars
  <2> QED BY <1>3, <2>1, RefuseType DEF Insert
<1>4. CASE ReadReceivable(p)
  BY <1>4, StepType DEF TypeOK, ReadReceivable, Transactions
<1>5. CASE Flush(p)
  BY <1>5, StepType DEF TypeOK, Flush, Transactions
<1>6. CASE SumReceipts(p)
  BY <1>6, StepType DEF TypeOK, SumReceipts, Transactions
<1>7. CASE Commit(p)
  <2>1. voucher' \in [Payments -> Statuses \cup {"none"}]
    BY <1>7 DEF Commit, TypeOK, Statuses
  <2>2. receivable' \in Nat
    <3>1. snap[p] \in Nat /\ amount[p] \in Nat /\ receivable \in Nat
      BY AmountNat DEF TypeOK, Transactions
    <3>2. snap[p] + amount[p] \in Nat
      BY <3>1
    <3>3. receivable' \in {receivable, snap[p] + amount[p]}
      BY <1>7 DEF Commit
    <3> QED BY <3>1, <3>2, <3>3
  <2>3. marks' \subseteq {"raced", "lost", "raised", "blind"}
    BY <1>7 DEF Commit, TypeOK, Mark
  <2>4. noticed' \in BOOLEAN
    BY <1>7 DEF Commit, Notice
  <2>5. /\ row' \in Transactions \cup {Nobody} /\ steps' \subseteq Steps /\ snap' \in [Transactions -> Nat]
        /\ closes' \subseteq Transactions /\ fresh' \subseteq Payments
        /\ blind' \subseteq Payments /\ byDirector' \subseteq Payments
        /\ phase' \in [Payments -> Phases] /\ answer' \in [Payments -> Answers]
    BY <1>7 DEF Commit, Forget, FreeRow, TypeOK, Answers, Transactions
  <2> QED BY <1>7, <2>1, <2>2, <2>3, <2>4, <2>5 DEF Commit, TypeOK, lockVars
<1>8. CASE Leave(p)
  <2>1. redisHolder' \in [Keys -> Holders] /\ localHolder' \in [Keys -> Holders]
    BY <1>8 DEF Leave, ReleaseRedis, ReleaseLocal, TypeOK, Holders
  <2>2. /\ answer' \in [Payments -> Answers] /\ phase' \in [Payments -> Phases]
        /\ key' \in [Payments -> Keys \cup {Nobody}]
        /\ via' \in [Payments -> {"none", "redis", "local"}]
        /\ lapsed' \subseteq Payments
    BY <1>8 DEF Leave, TypeOK, Answers
  <2> QED BY <1>8, <2>1, <2>2 DEF Leave, TypeOK, ledgerVars, txVars
<1>9. CASE Fail(p)
  BY <1>9, RefuseType DEF Fail
<1> QED BY <1>1, <1>2, <1>3, <1>4, <1>5, <1>6, <1>7, <1>8, <1>9 DEF Advance

(* The passage through the lock, and the leases. *)
LEMMA LockType ==
    ASSUME TypeOK, NEW p \in Payments, NEW k \in Keys,
           \/ Acquire(p, k) \/ AcquireBusy(p, k) \/ AcquireFails(p, k)
           \/ NoClient(p, k) \/ LeaseExpires(k) \/ LocalExpires(k)
    PROVE  TypeOK'
<1> USE DEF Holders, Phases, Working, Answers
<1>1. CASE Acquire(p, k)
  BY <1>1 DEF Acquire, Enter, Callers, Outside, TypeOK, txVars
<1>2. CASE AcquireBusy(p, k)
  BY <1>2 DEF AcquireBusy, TurnAway, Outside, TypeOK, txVars
<1>3. CASE AcquireFails(p, k)
  <2>1. redisHolder' \in [Keys -> Holders] /\ localHolder' \in [Keys -> Holders]
    BY <1>3 DEF AcquireFails, TypeOK
  <2>2. /\ phase' \in [Payments -> Phases] /\ answer' \in [Payments -> Answers]
        /\ key' \in [Payments -> Keys \cup {Nobody}]
        /\ via' \in [Payments -> {"none", "redis", "local"}]
        /\ amount' \in [Payments -> Amounts \cup {0}]
        /\ byDirector' \subseteq Payments
    BY <1>3 DEF AcquireFails, Enter, Callers, TurnAway, TypeOK
  <2> QED BY <1>3, <2>1, <2>2 DEF AcquireFails, Outside, TypeOK, txVars
<1>4. CASE NoClient(p, k)
  BY <1>4 DEF NoClient, TurnAway, Outside, TypeOK, txVars
<1>5. CASE LeaseExpires(k)
  BY <1>5 DEF LeaseExpires, TypeOK, requestVars, ledgerVars, txVars
<1>6. CASE LocalExpires(k)
  BY <1>6 DEF LocalExpires, TypeOK, requestVars, ledgerVars, txVars
<1> QED BY <1>1, <1>2, <1>3, <1>4, <1>5, <1>6

(* The reads, locks and commits of a decision. *)
LEMMA DecideType ==
    ASSUME TypeOK, NEW d \in Decisions,
           \/ Decide(d) \/ Abort(d)
           \/ \E op \in Operations, p \in Payments : Start(d, op, p)
    PROVE  TypeOK'
<1> DEFINE Records == [phase : {"idle", "started", "snapped", "holding", "summed", "done"},
                       op : Operations \cup {"none"}, target : Holders,
                       status : Statuses \cup {"none"}, amount : Amounts \cup {0}]
<1>1. d \in Transactions /\ decision[d] \in Records
  BY DEF Transactions, TypeOK
<1>2. ASSUME NEW ph \in {"started", "snapped", "holding", "summed"}, Move(d, ph)
      PROVE  decision' \in [Decisions -> Records]
  BY <1>1, <1>2 DEF Move, TypeOK
<1>3. ASSUME End(d)
      PROVE  /\ decision' \in [Decisions -> Records]
             /\ snap' \in [Transactions -> Nat] /\ closes' \subseteq Transactions
             /\ row' \in Transactions \cup {Nobody} /\ steps' \subseteq Steps
  <2>1. Blank("done") \in Records
    BY DEF Blank, Holders
  <2> QED BY <1>3, <2>1 DEF End, Forget, FreeRow, TypeOK
<1>4. decision[d].amount \in Int /\ snap[d] \in Nat /\ receivable \in Nat
  <2>1. decision[d].amount \in Amounts \cup {0}
    BY <1>1
  <2> QED BY <1>1, <2>1, AmountNat DEF TypeOK
<1>5. ASSUME NEW op \in Operations, NEW p \in Payments, Start(d, op, p) PROVE TypeOK'
  <2>1. [phase |-> "started", op |-> op, target |-> p, status |-> voucher[p],
         amount |-> amount[p]] \in Records
    BY DEF TypeOK, Holders
  <2>2. decision' \in [Decisions -> Records]
    BY <1>5, <2>1 DEF Start, TypeOK
  <2> QED BY <1>5, <2>2 DEF Start, TypeOK, requestVars, lockVars, ledgerVars, txVars
<1>6. CASE ReadReceivableFor(d)
  BY <1>1, <1>2, <1>6 DEF ReadReceivableFor, TypeOK, requestVars, lockVars, ledgerVars
<1>7. CASE FlushApproval(d)
  BY <1>1, <1>2, <1>7 DEF FlushApproval, TypeOK, requestVars, lockVars, ledgerVars
<1>8. CASE SumForApproval(d)
  BY <1>1, <1>2, <1>8 DEF SumForApproval, TypeOK, requestVars, lockVars, ledgerVars
<1>9. ASSUME NEW s \in Statuses, SetStatus(d, s)
      PROVE  voucher' \in [Payments -> Statuses \cup {"none"}]
  BY <1>9 DEF SetStatus, TypeOK
<1>10. CASE CommitApproval(d)
  <2>1. receivable' \in Nat
    BY <1>4, <1>10, FloorNat DEF CommitApproval
  <2>2. noticed' \in BOOLEAN /\ marks' \subseteq {"raced", "lost", "raised", "blind"}
    BY <1>10 DEF CommitApproval, Notice, Mark, TypeOK
  <2> QED BY <1>3, <1>9, <1>10, <2>1, <2>2
          DEF CommitApproval, TypeOK, requestVars, lockVars, Statuses
<1>11. CASE CommitVoid(d)
  <2>1. receivable' \in Nat
    BY <1>4, <1>11, FloorNat DEF CommitVoid, TakeBack
  <2>2. noticed' \in BOOLEAN /\ marks' \subseteq {"raced", "lost", "raised", "blind"}
    BY <1>11 DEF CommitVoid, Notice, Mark, TypeOK
  <2> QED BY <1>3, <1>9, <1>11, <2>1, <2>2
          DEF CommitVoid, TypeOK, requestVars, lockVars, Statuses
<1>12. CASE CommitReject(d)
  <2>1. noticed' \in BOOLEAN /\ marks' \subseteq {"raced", "lost", "raised", "blind"}
    BY <1>12 DEF CommitReject, Notice, Mark, TypeOK
  <2> QED BY <1>3, <1>9, <1>12, <2>1
          DEF CommitReject, TypeOK, requestVars, lockVars, Statuses
<1>13. CASE CommitAmend(d)
  <2>1. noticed' \in BOOLEAN /\ marks' \subseteq {"raced", "lost", "raised", "blind"}
    BY <1>13 DEF CommitAmend, Notice, Mark, TypeOK
  <2>2. amount' \in [Payments -> Amounts \cup {0}]
    BY <1>13 DEF CommitAmend, TypeOK
  <2> QED BY <1>3, <1>13, <2>1, <2>2 DEF CommitAmend, TypeOK, requestVars, lockVars
<1>14. CASE Abort(d)
  BY <1>3, <1>14 DEF Abort, TypeOK, requestVars, lockVars, ledgerVars
<1> QED BY <1>5, <1>6, <1>7, <1>8, <1>10, <1>11, <1>12, <1>13, <1>14 DEF Decide

(* Every variable keeps its type: in particular the receivable never goes below
   zero, whatever decisions overwrite each other (_sync_receivables). *)
THEOREM PaymentsTypeCorrect == Spec => []TypeOK
<1>1. Init => TypeOK
  <2> SUFFICES ASSUME Init PROVE TypeOK
    OBVIOUS
  <2>1. Blank("idle") \in [phase : {"idle", "started", "snapped", "holding", "summed", "done"},
                           op : Operations \cup {"none"}, target : Holders,
                           status : Statuses \cup {"none"}, amount : Amounts \cup {0}]
    BY DEF Blank, Holders
  <2> QED BY <2>1 DEF Init, TypeOK, Holders, Phases, Answers
<1>2. TypeOK /\ [Next]_vars => TypeOK'
  <2> SUFFICES ASSUME TypeOK, [Next]_vars PROVE TypeOK'
    OBVIOUS
  <2>1. CASE UNCHANGED vars
    BY <2>1 DEF vars, requestVars, lockVars, ledgerVars, txVars, TypeOK
  <2>2. CASE OtherContract
    BY <2>2 DEF OtherContract, requestVars, lockVars, ledgerVars, TypeOK
  <2>3. CASE \E k \in Keys : LeaseExpires(k) \/ LocalExpires(k)
    <3>1. CASE Payments = {}
      BY <2>3, <3>1 DEF LeaseExpires, LocalExpires, TypeOK, requestVars, ledgerVars, txVars,
         Holders
    <3> QED BY <2>3, <3>1, LockType
  <2> QED BY <2>1, <2>2, <2>3, LockType, AdvanceType, DecideType DEF Next
<1> QED BY <1>1, <1>2, PTL DEF Spec

-----------------------------------------------------------------------------
(* The lock *)

(* Who is inside is inside some key, by one of the two tables. *)
KeyKnown == \A p \in Payments : Inside(p) => key[p] \in Keys /\ via[p] # "none"

LockInv == TypeOK /\ KeyKnown /\ LockHeld

(* Steps after which the same requests are inside the same locks, or fewer. *)
LockUntouched ==
    /\ UNCHANGED lockVars
    /\ \A p \in Payments : Inside(p)' => Inside(p)

LEMMA UntouchedKeepsLock ==
    ASSUME LockInv, LockUntouched PROVE KeyKnown' /\ LockHeld'
  BY DEF LockInv, LockUntouched, KeyKnown, LockHeld, lockVars

LEMMA RefuseInside ==
    ASSUME TypeOK, NEW p \in Payments, phase[p] \in Working, Refuse(p) PROVE LockUntouched
  BY DEF TypeOK, Refuse, LockUntouched, Inside

LEMMA StepInside ==
    ASSUME TypeOK, NEW p \in Payments, NEW from \in Working, NEW to, Step(p, from, to)
    PROVE  LockUntouched
  BY DEF TypeOK, Step, LockUntouched, Inside

LEMMA BodyInside ==
    ASSUME TypeOK, NEW p \in Payments, Advance(p) \/ Fail(p), ~Leave(p)
    PROVE  LockUntouched
<1> USE DEF Working, Inserted
<1>1. CASE ReadDebt(p)
  BY <1>1, StepInside, RefuseInside DEF ReadDebt
<1>2. CASE ReadNumber(p)
  BY <1>2, StepInside DEF ReadNumber
<1>3. CASE Insert(p)
  BY <1>3, StepInside, RefuseInside DEF Insert
<1>4. CASE ReadReceivable(p) \/ Flush(p) \/ SumReceipts(p)
  BY <1>4, StepInside DEF ReadReceivable, Flush, SumReceipts
<1>5. CASE Commit(p)
  BY <1>5 DEF Commit, TypeOK, LockUntouched, Inside
<1>6. CASE Fail(p)
  BY <1>6, RefuseInside DEF Fail
<1> QED BY <1>1, <1>2, <1>3, <1>4, <1>5, <1>6 DEF Advance

(* Passing the lock: the holder of the key was Nobody, hence nobody inside. *)
LEMMA PassKeepsLock ==
    ASSUME LockInv, NEW p \in Payments, NEW k \in Keys,
           Acquire(p, k) \/ AcquireBusy(p, k) \/ AcquireFails(p, k) \/ NoClient(p, k)
    PROVE  KeyKnown' /\ LockHeld'
<1>1. phase[p] = "idle" /\ ~Inside(p)
  BY DEF Acquire, AcquireBusy, AcquireFails, NoClient, Inside, Working, Inserted
<1>2. \A q \in Payments : q # Nobody
  BY RequestAssumption
<1>3. \A q \in Payments \ {p} : /\ Inside(q)' <=> Inside(q)
                                /\ key'[q] = key[q] /\ via'[q] = via[q]
  BY DEF LockInv, TypeOK, Acquire, AcquireBusy, AcquireFails, NoClient, Enter, TurnAway, Inside
<1>4. lapsed' = lapsed /\ stray' = stray
  BY DEF Acquire, AcquireBusy, AcquireFails, NoClient, Outside
<1>5. ASSUME NEW h \in Keys
      PROVE  /\ redisHolder[h] = Nobody \/ redisHolder'[h] = redisHolder[h]
             /\ localHolder[h] = Nobody \/ localHolder'[h] = localHolder[h]
  BY DEF LockInv, TypeOK, Acquire, AcquireBusy, AcquireFails, NoClient
<1>6. ASSUME NEW q \in Payments \ {p}, Inside(q)'
      PROVE  /\ key'[q] \in Keys /\ via'[q] # "none"
             /\ via'[q] = "redis" /\ q \notin lapsed' => redisHolder'[key'[q]] = q
             /\ via'[q] = "local" /\ key'[q] \notin stray' => localHolder'[key'[q]] = q
  <2>1. Inside(q) /\ key'[q] = key[q] /\ via'[q] = via[q]
    BY <1>3, <1>6
  <2>2. key[q] \in Keys /\ via[q] # "none" /\ q # Nobody
    BY <1>2, <2>1 DEF LockInv, KeyKnown
  <2>3. /\ redisHolder[key[q]] = Nobody \/ redisHolder'[key[q]] = redisHolder[key[q]]
        /\ localHolder[key[q]] = Nobody \/ localHolder'[key[q]] = localHolder[key[q]]
    BY <1>5, <2>2
  <2>4. ASSUME via[q] = "redis", q \notin lapsed PROVE redisHolder'[key[q]] = q
    <3>1. redisHolder[key[q]] = q
      BY <2>1, <2>4 DEF LockInv, LockHeld
    <3> QED BY ONLY <2>3, <2>2, <3>1
  <2>5. ASSUME via[q] = "local", key[q] \notin stray PROVE localHolder'[key[q]] = q
    <3>1. localHolder[key[q]] = q
      BY <2>1, <2>5 DEF LockInv, LockHeld
    <3> QED BY ONLY <2>3, <2>2, <3>1
  <2> QED BY <1>4, <2>1, <2>2, <2>4, <2>5
<1>7. ASSUME Inside(p)'
      PROVE  /\ key'[p] = k
             /\ \/ via'[p] = "redis" /\ redisHolder'[k] = p
                \/ via'[p] = "local" /\ localHolder'[k] = p
  <2>1. CASE Acquire(p, k)
    BY <2>1 DEF Acquire, Enter, LockInv, TypeOK
  <2>2. CASE AcquireFails(p, k)
    BY <1>7, <2>2 DEF AcquireFails, Enter, TurnAway, LockInv, TypeOK, Inside, Working, Inserted
  <2>3. CASE AcquireBusy(p, k) \/ NoClient(p, k)
    BY <1>7, <2>3 DEF AcquireBusy, NoClient, TurnAway, LockInv, TypeOK, Inside, Working, Inserted
  <2> QED BY <2>1, <2>2, <2>3
<1> QED BY <1>6, <1>7 DEF KeyKnown, LockHeld

(* The end of a lease takes the lock from nobody who is not recorded. *)
LEMMA ExpiryKeepsLock ==
    ASSUME LockInv, NEW k \in Keys, LeaseExpires(k) \/ LocalExpires(k)
    PROVE  KeyKnown' /\ LockHeld'
<1>1. /\ \A q \in Payments : Inside(q)' <=> Inside(q)
      /\ key' = key /\ via' = via
  BY DEF LeaseExpires, LocalExpires, requestVars, Inside
<1>2. CASE LeaseExpires(k)
  BY <1>1, <1>2 DEF LeaseExpires, LockInv, TypeOK, KeyKnown, LockHeld
<1>3. CASE LocalExpires(k)
  BY <1>1, <1>3 DEF LocalExpires, LockInv, TypeOK, KeyKnown, LockHeld
<1> QED BY <1>2, <1>3

(* Leaving: in Redis only the own key goes; in the process the entry is the own
   one, unless the key is stray. *)
LEMMA LeaveKeepsLock ==
    ASSUME LockInv, NEW p \in Payments, Leave(p) PROVE KeyKnown' /\ LockHeld'
<1>1. \A q \in Payments \ {p} : /\ Inside(q)' <=> Inside(q)
                                /\ key'[q] = key[q] /\ via'[q] = via[q]
  BY DEF LockInv, TypeOK, Leave, Inside
<1>2. ~Inside(p)' /\ stray' = stray /\ lapsed' = lapsed \ {p}
  BY DEF LockInv, TypeOK, Leave, Inside, Working, Inserted
<1>3. Inside(p) /\ key[p] \in Keys
  BY DEF LockInv, KeyKnown, Leave, Inside
<1>4. ASSUME NEW q \in Payments \ {p}, Inside(q), via[q] = "redis", q \notin lapsed
      PROVE  redisHolder'[key[q]] = q
  <2>1. redisHolder[key[q]] = q /\ key[q] \in Keys
    BY <1>4 DEF LockInv, LockHeld, KeyKnown
  <2> QED BY <1>3, <2>1 DEF Leave, ReleaseRedis, LockInv, TypeOK
<1>5. ASSUME NEW q \in Payments \ {p}, Inside(q), via[q] = "local", key[q] \notin stray
      PROVE  localHolder'[key[q]] = q
  <2>1. localHolder[key[q]] = q /\ key[q] \in Keys
    BY <1>5 DEF LockInv, LockHeld, KeyKnown
  <2>2. CASE via[p] = "redis"
    BY <2>1, <2>2 DEF Leave
  <2>3. CASE via[p] = "local"
    <3>1. key[p] # key[q]
      BY <1>3, <1>5, <2>1, <2>3 DEF LockInv, LockHeld
    <3> QED BY <1>3, <2>1, <2>3, <3>1 DEF Leave, ReleaseLocal, LockInv, TypeOK
  <2> QED BY <2>2, <2>3 DEF Leave
<1>6. ASSUME NEW q \in Payments, Inside(q)'
      PROVE  /\ q # p /\ Inside(q)
             /\ key'[q] = key[q] /\ via'[q] = via[q]
             /\ key[q] \in Keys /\ via[q] # "none"
  <2>1. q # p
    BY <1>2, <1>6
  <2>2. q \in Payments \ {p}
    BY <2>1
  <2>3. Inside(q) /\ key'[q] = key[q] /\ via'[q] = via[q]
    BY <1>1, <1>6, <2>2
  <2>4. key[q] \in Keys /\ via[q] # "none"
    BY <2>3 DEF LockInv, KeyKnown
  <2> QED BY <2>1, <2>3, <2>4
<1>7. KeyKnown'
  BY <1>6 DEF KeyKnown
<1>8. ASSUME NEW q \in Payments, Inside(q)'
      PROVE  /\ via'[q] = "redis" /\ q \notin lapsed' => redisHolder'[key'[q]] = q
             /\ via'[q] = "local" /\ key'[q] \notin stray' => localHolder'[key'[q]] = q
  BY <1>2, <1>4, <1>5, <1>6, <1>8
<1> QED BY <1>7, <1>8 DEF LockHeld

LEMMA LockInvariant == Spec => []LockInv
<1>1. Init => KeyKnown /\ LockHeld
  BY DEF Init, KeyKnown, LockHeld, Inside, Working, Inserted
<1>2. TypeOK /\ TypeOK' /\ KeyKnown /\ LockHeld /\ [Next]_vars => KeyKnown' /\ LockHeld'
  <2> SUFFICES ASSUME LockInv, [Next]_vars PROVE KeyKnown' /\ LockHeld'
    BY DEF LockInv
  <2>1. CASE UNCHANGED vars \/ OtherContract
    BY <2>1, UntouchedKeepsLock DEF vars, OtherContract, requestVars, LockUntouched, Inside
  <2>2. CASE \E d \in Decisions :
              \/ Decide(d) \/ Abort(d)
              \/ \E op \in Operations, p \in Payments : Start(d, op, p)
    <3>1. UNCHANGED <<requestVars, lockVars>>
      BY <2>2 DEF Decide, Abort, Start, ReadReceivableFor, FlushApproval, SumForApproval,
         CommitApproval, CommitVoid, CommitReject, CommitAmend
    <3> QED BY <3>1, UntouchedKeepsLock DEF requestVars, LockUntouched, Inside
  <2>3. CASE \E p \in Payments : Advance(p) \/ Fail(p)
    BY <2>3, BodyInside, UntouchedKeepsLock, LeaveKeepsLock DEF LockInv
  <2> QED BY <2>1, <2>2, <2>3, PassKeepsLock, ExpiryKeepsLock DEF Next
<1> QED BY <1>1, <1>2, PaymentsTypeCorrect, PTL DEF Spec, LockInv

(* A request inside whose lease has not run out still has its key: no release,
   no refused request and no late end of another takes it (redis_distributed_lock).
   In the process this holds of keys whose entry never expired under its holder. *)
THEOREM LockHeldHolds == Spec => []LockHeld
  BY LockInvariant, PTL DEF LockInv

(* Hence the lock excludes: of the requests inside under one key that Redis let in
   and whose lease has not run out there is one at most, and so for the process.
   Nothing of the kind holds between the two tables. *)
Exclusive ==
    \A p, q \in Payments :
        /\ Inside(p) /\ Inside(q)
        /\ key[p] = key[q] /\ via[p] = via[q]
        /\ \/ via[p] = "redis" /\ {p, q} \cap lapsed = {}
           \/ via[p] = "local" /\ key[p] \notin stray
        => p = q

THEOREM ExclusiveHolds == Spec => []Exclusive
<1>1. LockInv => Exclusive
  BY DEF LockInv, LockHeld, Exclusive
<1> QED BY <1>1, LockInvariant, PTL

-----------------------------------------------------------------------------
(* The answers *)

(* A decision under way is about a receipt that exists. *)
TargetKnown ==
    \A d \in Decisions : decision[d].phase \notin {"idle", "done"} =>
        decision[d].target \in Payments /\ voucher[decision[d].target] # "none"

(* A request that has not ended its body has no receipt and no answer. *)
NothingYet ==
    \A p \in Payments : phase[p] \in Working \cup {"idle"} =>
        voucher[p] = "none" /\ answer[p] = "none"

AnswerInv == TypeOK /\ TargetKnown /\ NothingYet /\ AnswerTrue

(* What they say of one request. *)
Truthful(p) ==
    /\ phase[p] \in Working \cup {"idle"} => voucher[p] = "none" /\ answer[p] = "none"
    /\ Inside(p) => (answer[p] = "ok" <=> voucher[p] # "none")
    /\ answer[p] = "ok" => voucher[p] # "none"

LEMMA TruthfulAll == NothingYet /\ AnswerTrue => \A p \in Payments : Truthful(p)
<1> SUFFICES ASSUME NothingYet, AnswerTrue, NEW p \in Payments PROVE Truthful(p)
  OBVIOUS
<1>1. phase[p] \in Working \cup {"idle"} => voucher[p] = "none" /\ answer[p] = "none"
  BY DEF NothingYet
<1>2. Inside(p) => (answer[p] = "ok" <=> voucher[p] # "none")
  BY DEF AnswerTrue, Inside
<1>3. answer[p] = "ok" => voucher[p] # "none"
  BY DEF AnswerTrue
<1> QED BY <1>1, <1>2, <1>3 DEF Truthful, Inside

(* A receipt may come but does not go, and the decisions stay. *)
LEMMA TargetsKept ==
    ASSUME TargetKnown, decision' = decision,
           \A p \in Payments : voucher[p] # "none" => voucher'[p] # "none"
    PROVE  TargetKnown'
  BY DEF TargetKnown

(* What a request does to itself leaves the others as they are. *)
LEMMA OthersKept ==
    ASSUME AnswerInv, NEW p \in Payments, Truthful(p)',
           \A q \in Payments \ {p} : /\ phase'[q] = phase[q] /\ answer'[q] = answer[q]
                                     /\ voucher'[q] = voucher[q]
    PROVE  NothingYet' /\ AnswerTrue'
<1>1. ASSUME NEW q \in Payments PROVE Truthful(q)'
  BY TruthfulAll DEF AnswerInv, Truthful, Inside
<1> QED BY <1>1 DEF NothingYet, AnswerTrue, Truthful

LEMMA AdvanceTruthful ==
    ASSUME AnswerInv, NEW p \in Payments, Advance(p) \/ Fail(p)
    PROVE  TargetKnown' /\ NothingYet' /\ AnswerTrue'
<1> USE DEF Working, Inserted
<1>1. Truthful(p)
  BY TruthfulAll DEF AnswerInv
<1>2. ASSUME phase[p] \in Working, Refuse(p) PROVE TargetKnown' /\ NothingYet' /\ AnswerTrue'
  <2>1. Truthful(p)' /\ voucher' = voucher /\ decision' = decision
    BY <1>1, <1>2 DEF Refuse, Truthful, Inside, AnswerInv, TypeOK
  <2> QED BY <1>2, <2>1, OthersKept, TargetsKept DEF Refuse, AnswerInv, TypeOK
<1>3. ASSUME NEW from \in Working, NEW to \in Working, Step(p, from, to)
      PROVE  TargetKnown' /\ NothingYet' /\ AnswerTrue'
  <2>1. Truthful(p)' /\ voucher' = voucher /\ decision' = decision
    BY <1>1, <1>3 DEF Step, Truthful, Inside, AnswerInv, TypeOK, ledgerVars
  <2> QED BY <1>3, <2>1, OthersKept, TargetsKept DEF Step, AnswerInv, TypeOK
<1>4. CASE ReadDebt(p)
  BY <1>2, <1>3, <1>4 DEF ReadDebt
<1>5. CASE ReadNumber(p) \/ ReadReceivable(p) \/ Flush(p) \/ SumReceipts(p)
  BY <1>3, <1>5 DEF ReadNumber, ReadReceivable, Flush, SumReceipts
<1>6. CASE Insert(p)
  BY <1>2, <1>3, <1>6 DEF Insert
<1>7. CASE Commit(p)
  <2>1. voucher'[p] # "none" /\ decision' = decision
    BY <1>7 DEF Commit, AnswerInv, TypeOK
  <2>2. Truthful(p)'
    BY <1>7, <2>1 DEF Commit, Truthful, Inside, AnswerInv, TypeOK
  <2>3. \A q \in Payments \ {p} : /\ phase'[q] = phase[q] /\ answer'[q] = answer[q]
                                  /\ voucher'[q] = voucher[q]
    BY <1>7 DEF Commit, AnswerInv, TypeOK
  <2> QED BY <2>1, <2>2, <2>3, OthersKept, TargetsKept DEF AnswerInv
<1>8. CASE Leave(p)
  <2>1. Truthful(p)' /\ voucher' = voucher /\ decision' = decision
    BY <1>1, <1>8 DEF Leave, Truthful, Inside, AnswerInv, TypeOK, ledgerVars
  <2> QED BY <1>8, <2>1, OthersKept, TargetsKept DEF Leave, AnswerInv, TypeOK
<1>9. CASE Fail(p)
  BY <1>2, <1>9 DEF Fail
<1> QED BY <1>4, <1>5, <1>6, <1>7, <1>8, <1>9 DEF Advance

LEMMA PassTruthful ==
    ASSUME AnswerInv, NEW p \in Payments, NEW k \in Keys,
           Acquire(p, k) \/ AcquireBusy(p, k) \/ AcquireFails(p, k) \/ NoClient(p, k)
    PROVE  TargetKnown' /\ NothingYet' /\ AnswerTrue'
<1>1. phase[p] = "idle" /\ voucher' = voucher /\ decision' = decision
  BY DEF Acquire, AcquireBusy, AcquireFails, NoClient, Outside
<1>2. voucher[p] = "none" /\ answer[p] = "none"
  BY <1>1 DEF AnswerInv, NothingYet
<1>3. \/ phase'[p] = "inside" /\ answer' = answer
      \/ phase'[p] = "done" /\ answer'[p] = "refused"
  BY DEF AnswerInv, TypeOK, Acquire, AcquireBusy, AcquireFails, NoClient, Enter, TurnAway
<1>4. Truthful(p)'
  BY <1>1, <1>2, <1>3 DEF Truthful, Inside, Working, Inserted
<1>5. \A q \in Payments \ {p} : phase'[q] = phase[q] /\ answer'[q] = answer[q]
  BY DEF AnswerInv, TypeOK, Acquire, AcquireBusy, AcquireFails, NoClient, Enter, TurnAway
<1> QED BY <1>1, <1>4, <1>5, OthersKept, TargetsKept DEF AnswerInv

(* A decision touches no request and removes no receipt. *)
LEMMA DecideTruthful ==
    ASSUME AnswerInv, NEW d \in Decisions,
           \/ Decide(d) \/ Abort(d)
           \/ \E op \in Operations, p \in Payments : Start(d, op, p)
    PROVE  TargetKnown' /\ NothingYet' /\ AnswerTrue'
<1>1. phase' = phase /\ answer' = answer
  BY DEF Decide, Abort, Start, ReadReceivableFor, FlushApproval, SumForApproval,
     CommitApproval, CommitVoid, CommitReject, CommitAmend, requestVars
<1>2. \/ voucher' = voucher
      \/ /\ decision[d].phase \notin {"idle", "done"}
         /\ \E s \in Statuses : SetStatus(d, s)
  BY DEF Decide, Abort, Start, ReadReceivableFor, FlushApproval, SumForApproval,
     CommitApproval, CommitVoid, CommitReject, CommitAmend, ledgerVars, At, Statuses
<1>3. ASSUME NEW p \in Payments PROVE voucher'[p] = "none" <=> voucher[p] = "none"
  <2>1. CASE voucher' = voucher
    BY <2>1
  <2>2. ASSUME NEW s \in Statuses, SetStatus(d, s), decision[d].phase \notin {"idle", "done"}
        PROVE  voucher'[p] = "none" <=> voucher[p] = "none"
    <3>1. voucher[Target(d)] # "none"
      BY <2>2 DEF AnswerInv, TargetKnown, Target
    <3>2. s # "none"
      BY DEF Statuses
    <3> QED BY <2>2, <3>1, <3>2 DEF SetStatus, AnswerInv, TypeOK
  <2> QED BY <1>2, <2>1, <2>2
<1>4. ASSUME NEW p \in Payments PROVE Truthful(p)'
  BY <1>1, <1>3, TruthfulAll DEF AnswerInv, Truthful, Inside
<1>5. NothingYet' /\ AnswerTrue'
  BY <1>4 DEF NothingYet, AnswerTrue, Truthful
<1>6. \A e \in Decisions \ {d} : decision'[e] = decision[e]
  BY DEF AnswerInv, TypeOK, Decide, Abort, Start, ReadReceivableFor, FlushApproval,
     SumForApproval, CommitApproval, CommitVoid, CommitReject, CommitAmend, Move, End
<1>7. \/ decision'[d].phase = "done"
      \/ /\ decision[d].phase \notin {"idle", "done"}
         /\ decision'[d].target = decision[d].target
      \/ decision'[d].target \in Payments /\ voucher[decision'[d].target] # "none"
  <2>1. CASE Abort(d) \/ CommitApproval(d) \/ CommitVoid(d) \/ CommitReject(d) \/ CommitAmend(d)
    BY <2>1 DEF Abort, CommitApproval, CommitVoid, CommitReject, CommitAmend, End, Blank,
       AnswerInv, TypeOK
  <2>2. CASE ReadReceivableFor(d) \/ FlushApproval(d) \/ SumForApproval(d)
    BY <2>2 DEF ReadReceivableFor, FlushApproval, SumForApproval, Move, At, AnswerInv, TypeOK
  <2>3. ASSUME NEW op \in Operations, NEW p \in Payments, Start(d, op, p)
        PROVE  decision'[d].target \in Payments /\ voucher[decision'[d].target] # "none"
    <3>1. voucher[p] # "none"
      BY <2>3 DEF Start, Allowed, Operations
    <3> QED BY <2>3, <3>1 DEF Start, AnswerInv, TypeOK
  <2> QED BY <2>1, <2>2, <2>3 DEF Decide
<1>8. TargetKnown'
  <2> SUFFICES ASSUME NEW e \in Decisions, decision'[e].phase \notin {"idle", "done"}
               PROVE  /\ decision'[e].target \in Payments
                      /\ voucher'[decision'[e].target] # "none"
    BY DEF TargetKnown
  <2>1. CASE e # d
    BY <1>3, <1>6, <2>1 DEF AnswerInv, TargetKnown
  <2>2. CASE e = d
    BY <1>3, <1>7, <2>2 DEF AnswerInv, TargetKnown
  <2> QED BY <2>1, <2>2
<1> QED BY <1>5, <1>8

LEMMA AnswerInvariant == Spec => []AnswerInv
<1>1. Init => TargetKnown /\ NothingYet /\ AnswerTrue
  BY DEF Init, TargetKnown, NothingYet, AnswerTrue, Inside, Working, Inserted, Blank
<1>2. TypeOK /\ TypeOK' /\ TargetKnown /\ NothingYet /\ AnswerTrue /\ [Next]_vars
      => TargetKnown' /\ NothingYet' /\ AnswerTrue'
  <2> SUFFICES ASSUME AnswerInv, [Next]_vars PROVE TargetKnown' /\ NothingYet' /\ AnswerTrue'
    BY DEF AnswerInv
  <2>1. CASE \/ UNCHANGED vars \/ OtherContract
             \/ \E k \in Keys : LeaseExpires(k) \/ LocalExpires(k)
    BY <2>1 DEF vars, OtherContract, LeaseExpires, LocalExpires, requestVars, ledgerVars,
       AnswerInv, TargetKnown, NothingYet, AnswerTrue, Inside
  <2> QED BY <2>1, AdvanceTruthful, PassTruthful, DecideTruthful DEF Next
<1> QED BY <1>1, <1>2, PaymentsTypeCorrect, PTL DEF Spec, AnswerInv

(* Every request that is answered success has its receipt, and as long as it is
   inside the lock one that is refused has none (_store_payment_receipts): what
   MCUnconfirmed finds is the exit of the lock alone. *)
THEOREM AnswerTrueHolds == Spec => []AnswerTrue
  BY AnswerInvariant, PTL DEF AnswerInv

-----------------------------------------------------------------------------
(* The row of the receivable *)

(* Whoever has flushed holds the row, and nobody else does. *)
RowHeld ==
    /\ \A p \in Payments : phase[p] \in {"holding", "summed"} <=> row = p
    /\ \A d \in Decisions : decision[d].phase \in {"holding", "summed"} <=> row = d

(* A payment request that keeps its row, and one that lets it go. *)
LEMMA AdvanceRow ==
    ASSUME TypeOK, RowHeld, NEW p \in Payments, Advance(p) \/ Fail(p) PROVE RowHeld'
<1> USE RequestAssumption DEF Working, Inserted
<1>1. /\ \A q \in Payments \ {p} : phase'[q] = phase[q] /\ q # p
      /\ decision' = decision /\ phase'[p] \in Phases
      /\ \A d \in Decisions : d # p
  BY AdvanceType DEF TypeOK, Advance, Fail, ReadDebt, ReadNumber, Insert, ReadReceivable,
     Flush, SumReceipts, Commit, Leave, Refuse, Step
<1>2. \/ row' = row /\ (phase'[p] \in {"holding", "summed"} <=> phase[p] \in {"holding", "summed"})
      \/ row = Nobody /\ row' = p /\ phase'[p] = "holding"
      \/ row' = (IF row = p THEN Nobody ELSE row) /\ phase'[p] = "leaving"
  <2>1. ASSUME Refuse(p)
        PROVE  row' = (IF row = p THEN Nobody ELSE row) /\ phase'[p] = "leaving"
    BY <2>1 DEF Refuse, Forget, FreeRow, TypeOK
  <2>2. CASE Commit(p)
    BY <2>2 DEF Commit, Forget, FreeRow, TypeOK
  <2>3. CASE Flush(p)
    BY <2>3 DEF Flush, Step, TypeOK
  <2>4. CASE ReadNumber(p) \/ ReadReceivable(p) \/ SumReceipts(p)
    BY <2>4 DEF ReadNumber, ReadReceivable, SumReceipts, Step, TypeOK
  <2>5. CASE Leave(p)
    BY <2>5 DEF Leave, TypeOK, txVars
  <2>6. CASE \/ Step(p, "inside", "debt") /\ UNCHANGED txVars
             \/ Step(p, "numbered", "posted") /\ UNCHANGED txVars
    BY <2>6 DEF Step, TypeOK, txVars
  <2> QED BY <2>1, <2>2, <2>3, <2>4, <2>5, <2>6 DEF Advance, Fail, ReadDebt, Insert
<1> QED BY <1>1, <1>2 DEF RowHeld, TypeOK

LEMMA DecideRow ==
    ASSUME TypeOK, RowHeld, NEW d \in Decisions,
           \/ Decide(d) \/ Abort(d)
           \/ \E op \in Operations, p \in Payments : Start(d, op, p)
    PROVE  RowHeld'
<1> USE RequestAssumption
<1>1. /\ \A e \in Decisions \ {d} : decision'[e] = decision[e] /\ e # d
      /\ phase' = phase /\ \A p \in Payments : p # d
  BY DEF TypeOK, Decide, Abort, Start, ReadReceivableFor, FlushApproval, SumForApproval,
     CommitApproval, CommitVoid, CommitReject, CommitAmend, Move, End, requestVars
<1>2. \/ /\ row' = row
         /\ decision'[d].phase \in {"holding", "summed"}
            <=> decision[d].phase \in {"holding", "summed"}
      \/ row = Nobody /\ row' = d /\ decision'[d].phase = "holding"
      \/ row' = (IF row = d THEN Nobody ELSE row) /\ decision'[d].phase = "done"
  <2>1. ASSUME End(d)
        PROVE  row' = (IF row = d THEN Nobody ELSE row) /\ decision'[d].phase = "done"
    BY <2>1 DEF End, Forget, FreeRow, Blank, TypeOK
  <2>2. CASE ReadReceivableFor(d) \/ SumForApproval(d)
    BY <2>2 DEF ReadReceivableFor, SumForApproval, Move, At, TypeOK
  <2>3. CASE FlushApproval(d)
    BY <2>3 DEF FlushApproval, Move, TypeOK
  <2>4. CASE \E op \in Operations, p \in Payments : Start(d, op, p)
    BY <2>4 DEF Start, At, TypeOK, txVars
  <2> QED BY <2>1, <2>2, <2>3, <2>4 DEF Decide, Abort, CommitApproval, CommitVoid,
             CommitReject, CommitAmend
<1> QED BY <1>1, <1>2 DEF RowHeld, TypeOK

LEMMA RowInvariant == Spec => [](TypeOK /\ RowHeld)
<1>1. Init => RowHeld
  BY RequestAssumption DEF Init, RowHeld, Blank
<1>2. TypeOK /\ RowHeld /\ [Next]_vars => RowHeld'
  <2> SUFFICES ASSUME TypeOK, RowHeld, [Next]_vars PROVE RowHeld'
    OBVIOUS
  <2>1. CASE \/ UNCHANGED vars \/ OtherContract
             \/ \E k \in Keys : LeaseExpires(k) \/ LocalExpires(k)
    BY <2>1 DEF vars, OtherContract, LeaseExpires, LocalExpires, requestVars, txVars, RowHeld
  <2>2. CASE \E p \in Payments, k \in Keys :
                Acquire(p, k) \/ AcquireBusy(p, k) \/ AcquireFails(p, k) \/ NoClient(p, k)
    <3> SUFFICES ASSUME NEW p \in Payments, NEW k \in Keys,
                        Acquire(p, k) \/ AcquireBusy(p, k) \/ AcquireFails(p, k) \/ NoClient(p, k)
                 PROVE  RowHeld'
      BY <2>2
    <3>1. /\ phase[p] = "idle" /\ phase'[p] \in {"inside", "done"}
          /\ \A q \in Payments \ {p} : phase'[q] = phase[q]
          /\ row' = row /\ decision' = decision
      BY DEF Acquire, AcquireBusy, AcquireFails, NoClient, Enter, TurnAway, Outside, txVars, TypeOK
    <3> QED BY <3>1 DEF RowHeld
  <2> QED BY <2>1, <2>2, AdvanceRow, DecideRow DEF Next
<1> QED BY <1>1, <1>2, PaymentsTypeCorrect, PTL DEF Spec

(* Between the flush of a transaction and its end nobody else changes the
   receivable and no other receipt becomes approved (db.flush in
   approve_cashflow and _record_payment_transaction). *)
THEOREM RowProtectsHolds == Spec => RowProtects
<1> DEFINE A == row # Nobody /\ row' = row =>
          /\ receivable' = receivable
          /\ \A p \in Payments : voucher'[p] = "completed" => voucher[p] = "completed"
<1>1. TypeOK /\ RowHeld /\ [Next]_vars => [A]_vars
  <2> SUFFICES ASSUME TypeOK, RowHeld, Next, row # Nobody, row' = row
               PROVE  /\ receivable' = receivable
                      /\ \A p \in Payments : voucher'[p] = "completed" => voucher[p] = "completed"
    BY DEF vars
  <2>1. CASE \/ OtherContract
             \/ \E k \in Keys : LeaseExpires(k) \/ LocalExpires(k)
             \/ \E p \in Payments, k \in Keys :
                   Acquire(p, k) \/ AcquireBusy(p, k) \/ AcquireFails(p, k) \/ NoClient(p, k)
    BY <2>1 DEF OtherContract, LeaseExpires, LocalExpires, Acquire, AcquireBusy, AcquireFails,
       NoClient, Outside, ledgerVars
  <2>2. ASSUME NEW p \in Payments, Advance(p) \/ Fail(p)
        PROVE  /\ receivable' = receivable
               /\ \A q \in Payments : voucher'[q] = "completed" => voucher[q] = "completed"
    <3>1. CASE Commit(p)
      <4>1. phase[p] # "summed"
        BY <3>1 DEF Commit, Forget, FreeRow, RowHeld
      <4> QED BY <3>1, <4>1 DEF Commit, TypeOK
    <3>2. CASE ~Commit(p)
      BY <2>2, <3>2 DEF Advance, Fail, ReadDebt, ReadNumber, Insert, ReadReceivable, Flush,
         SumReceipts, Leave, Refuse, Step, ledgerVars
    <3> QED BY <3>1, <3>2
  <2>3. ASSUME NEW d \in Decisions,
               \/ Decide(d) \/ Abort(d)
               \/ \E op \in Operations, p \in Payments : Start(d, op, p)
        PROVE  /\ receivable' = receivable
               /\ \A q \in Payments : voucher'[q] = "completed" => voucher[q] = "completed"
    <3>1. ~CommitApproval(d)
      BY DEF CommitApproval, At, End, Forget, FreeRow, RowHeld
    <3>2. CASE CommitVoid(d) \/ CommitReject(d)
      BY <3>2 DEF CommitVoid, CommitReject, SetStatus, TypeOK
    <3>3. CASE ~CommitVoid(d) /\ ~CommitReject(d)
      BY <2>3, <3>1, <3>3 DEF Decide, Abort, Start, ReadReceivableFor, FlushApproval,
         SumForApproval, CommitAmend, ledgerVars
    <3> QED BY <3>2, <3>3
  <2> QED BY <2>1, <2>2, <2>3 DEF Next
<1> QED BY <1>1, RowInvariant, PTL DEF Spec, RowProtects

-----------------------------------------------------------------------------
(* The waits *)

(* A request has come to a stop: its insert at a number another has inserted, its
   event at a step another has locked, its write at the row of the receivable or
   at a receipt another has flushed, its lock at a step another shares. *)
Blocked(x) ==
    \/ /\ x \in Payments
       /\ \/ phase[x] = "numbered" /\ x \in fresh /\ InsertOpen
          \/ phase[x] = "posted" /\ ~StepOpen(x)
          \/ phase[x] = "snapped" /\ row # Nobody
          \/ phase[x] = "holding" /\ ~StepsFree(x)
    \/ /\ x \in Decisions
       /\ \/ At(x, "snapped") /\ row # Nobody /\ (Books(x) \/ snap[x] # 0)
          \/ /\ ReceiptLocked(x) /\ ~Books(x)
             /\ At(x, "snapped") \/ (At(x, "started") /\ ~TakesBack(x))
          \/ At(x, "holding") /\ ~StepsFree(x)

(* Whose end it waits for there. *)
WaitsFor(x, y) ==
    \/ /\ x \in Payments /\ phase[x] = "numbered"
       /\ y \in Payments /\ phase[y] \in Inserted
    \/ /\ \/ x \in Payments /\ phase[x] = "posted" /\ ~StepOpen(x)
          \/ x \in Payments /\ phase[x] = "snapped"
          \/ x \in Decisions /\ At(x, "snapped")
       /\ row = y
    \/ /\ x \in Decisions /\ decision[x].phase \in {"started", "snapped"}
       /\ y \in Decisions \ {x} /\ decision[y].phase \in {"holding", "summed"}
       /\ Target(y) = Target(x)
    \/ /\ \/ x \in Payments /\ phase[x] = "holding"
          \/ x \in Decisions /\ At(x, "holding")
       /\ y \in Payments /\ SharesStep(y, x)

UnderWay(x) ==
    \/ x \in Payments /\ phase[x] \in Working
    \/ x \in Decisions /\ decision[x].phase \notin {"idle", "done"}

(* Whoever is stopped waits for somebody under way.  A chain of waits leads to one
   who goes on or to the holder of the receivable: who is stopped on the way waits
   for that holder alone.  The holder is stopped only in a circle the database
   finds, by payments that wait for it and for nobody else. *)
WaitsEndAtRow ==
    \A x \in Transactions : Blocked(x) =>
        /\ \E y \in Transactions : WaitsFor(x, y)
        /\ \A y \in Transactions : WaitsFor(x, y) =>
              /\ UnderWay(y)
              /\ x = row => InCircle(y)
              /\ Blocked(y) /\ y # row =>
                    \A z \in Transactions : WaitsFor(y, z) => z = row

(* Who holds the row is under way. *)
LEMMA HolderUnderWay ==
    ASSUME TypeOK, RowHeld, NEW y \in Transactions, row = y PROVE UnderWay(y)
  BY DEF RowHeld, UnderWay, Working, Inserted, Transactions

(* A payment that is stopped after its insert and does not hold the row waits for
   the one who does. *)
LEMMA InsertedWaitsForRow ==
    ASSUME TypeOK, RowHeld, NEW y \in Payments, phase[y] \in Inserted, y # row,
           NEW z \in Transactions, WaitsFor(y, z)
    PROVE  z = row
<1>1. y \notin Decisions /\ phase[y] \notin {"holding", "summed"}
  BY RequestAssumption DEF RowHeld
<1> QED BY <1>1 DEF WaitsFor, Inserted

(* A decision that does not hold the row waits for the one who does. *)
LEMMA DecisionWaitsForRow ==
    ASSUME TypeOK, RowHeld, NEW y \in Decisions, y # row,
           NEW z \in Transactions, WaitsFor(y, z)
    PROVE  z = row
<1>1. y \notin Payments /\ ~At(y, "holding")
  BY RequestAssumption DEF RowHeld, At
<1>2. ASSUME z \in Decisions, decision[z].phase \in {"holding", "summed"} PROVE z = row
  BY <1>2 DEF RowHeld
<1> QED BY <1>1, <1>2 DEF WaitsFor

(* The waits of payments and decisions for each other form no circle but one
   between the holder of the receivable and payments that share a step
   (generate_voucher_id and the primary key, the event and db.flush of the
   payment, db.flush and auto_finalize_node_if_ready of the approval, the writes
   of the void, the rejection and the amendment). *)
THEOREM WaitsEndAtRowHolds == Spec => []WaitsEndAtRow
<1>1. TypeOK /\ RowHeld => WaitsEndAtRow
  <2> SUFFICES ASSUME TypeOK, RowHeld, NEW x \in Transactions, Blocked(x)
               PROVE  /\ \E y \in Transactions : WaitsFor(x, y)
                      /\ \A y \in Transactions : WaitsFor(x, y) =>
                            /\ UnderWay(y)
                            /\ x = row => InCircle(y)
                            /\ Blocked(y) /\ y # row =>
                                  \A z \in Transactions : WaitsFor(y, z) => z = row
    BY DEF WaitsEndAtRow
  <2>1. CASE x \in Payments /\ phase[x] = "numbered" /\ InsertOpen
    <3>1. \E y \in Transactions : WaitsFor(x, y)
      BY <2>1 DEF InsertOpen, WaitsFor, Transactions
    <3>2. ASSUME NEW y \in Transactions, WaitsFor(x, y)
          PROVE  y \in Payments /\ phase[y] \in Inserted
      BY <2>1, <3>2, RequestAssumption DEF WaitsFor
    <3>3. x # row
      BY <2>1, RequestAssumption DEF RowHeld
    <3>4. ASSUME NEW y \in Transactions, WaitsFor(x, y) PROVE UnderWay(y)
      BY <3>2, <3>4 DEF UnderWay, Working
    <3> QED BY <3>1, <3>2, <3>3, <3>4, InsertedWaitsForRow
  <2>2. CASE x # row /\ ~(x \in Payments /\ phase[x] = "numbered" /\ InsertOpen)
    <3>1. row # Nobody => row \in Transactions
      BY DEF TypeOK
    <3>2. ~(x \in Payments /\ phase[x] = "holding") /\ ~(x \in Decisions /\ At(x, "holding"))
      BY <2>2 DEF RowHeld, At
    <3>3. CASE x \in Payments
      <4>1. \/ phase[x] = "posted" /\ ~StepOpen(x)
            \/ phase[x] = "snapped" /\ row # Nobody
        BY <2>2, <3>2, <3>3, RequestAssumption DEF Blocked
      <4>2. row \in Transactions
        BY <3>1, <4>1 DEF StepOpen, HasSummed, Transactions
      <4>3. WaitsFor(x, row)
        BY <3>3, <4>1 DEF WaitsFor
      <4>4. ASSUME NEW y \in Transactions, WaitsFor(x, y) PROVE y = row
        BY <2>2, <3>3, <4>1, <4>4, InsertedWaitsForRow DEF Inserted
      <4> QED BY <2>2, <4>2, <4>3, <4>4, HolderUnderWay
    <3>4. CASE x \in Decisions
      <4>1. ASSUME NEW y \in Transactions, WaitsFor(x, y) PROVE y = row
        BY <2>2, <3>4, <4>1, DecisionWaitsForRow
      <4>2. \E y \in Transactions : WaitsFor(x, y)
        <5>1. x \notin Payments
          BY <3>4, RequestAssumption
        <5>2. CASE ReceiptLocked(x) /\ decision[x].phase \in {"started", "snapped"}
          BY <3>4, <5>2 DEF ReceiptLocked, WaitsFor, Transactions
        <5>3. CASE At(x, "snapped") /\ row # Nobody
          BY <3>1, <3>4, <5>3 DEF WaitsFor
        <5> QED BY <3>2, <5>1, <5>2, <5>3 DEF Blocked, At
      <4> QED BY <2>2, <4>1, <4>2, HolderUnderWay
    <3> QED BY <3>3, <3>4 DEF Transactions
  <2>3. CASE x = row
    <3>1. \/ x \in Payments /\ phase[x] \in {"holding", "summed"} /\ x \notin Decisions
          \/ x \in Decisions /\ decision[x].phase \in {"holding", "summed"} /\ x \notin Payments
      BY <2>3, RequestAssumption DEF RowHeld, Transactions
    <3>2. /\ ~StepsFree(x)
          /\ \/ x \in Payments /\ phase[x] = "holding" /\ x \notin Decisions
             \/ x \in Decisions /\ At(x, "holding") /\ x \notin Payments
      BY <3>1 DEF Blocked, At
    <3>3. \E y \in Transactions : WaitsFor(x, y)
      BY <3>2 DEF StepsFree, WaitsFor, Transactions
    <3>4. ASSUME NEW y \in Transactions, WaitsFor(x, y)
          PROVE  y \in Payments /\ SharesStep(y, x)
      BY <3>2, <3>4 DEF WaitsFor, At, Inserted
    <3>5. ~HasSummed(row) /\ row # Nobody
      BY <2>3, <3>2, RequestAssumption DEF HasSummed, At, Transactions
    <3>6. ASSUME NEW y \in Transactions, WaitsFor(x, y)
          PROVE  InCircle(y) /\ phase[y] \in Inserted /\ y \in Payments
      BY <2>3, <3>4, <3>5, <3>6 DEF InCircle, SharesStep, Inserted
    <3>7. ASSUME NEW y \in Transactions, WaitsFor(x, y) PROVE UnderWay(y)
      BY <3>6, <3>7 DEF UnderWay, Working
    <3> QED BY <3>3, <3>6, <3>7, InsertedWaitsForRow
  <2> QED BY <2>1, <2>2, <2>3
<1> QED BY <1>1, RowInvariant, PTL

-----------------------------------------------------------------------------
(* Sums of amounts *)

(* The units of the receipts s: there are finitely many. *)
Units(f, s) == UNION {{p} \X (1..f[p]) : p \in s}

LEMMA SumIsUnits == ASSUME NEW f, NEW s PROVE SumIn(f, s) = Cardinality(Units(f, s))
  BY DEF SumIn, Units

LEMMA UnitMembers ==
    ASSUME NEW f, NEW s PROVE Units(f, s) = {u \in s \X Nat : u[2] \in 1..f[u[1]]}
  BY DEF Units

LEMMA UnitsFinite ==
    ASSUME NEW f \in [Payments -> Nat], NEW s \in SUBSET Payments
    PROVE  IsFiniteSet(Units(f, s))
<1> DEFINE Of == {{p} \X (1..f[p]) : p \in s}
           g == [p \in s |-> {p} \X (1..f[p])]
<1>1. g \in Surjection(s, Of)
  BY DEF Surjection
<1>2. IsFiniteSet(s)
  BY RequestAssumption, FS_Subset
<1>3. IsFiniteSet(Of)
  BY <1>1, <1>2, FS_Surjection
<1>4. ASSUME NEW T \in Of PROVE IsFiniteSet(T)
  <2>1. PICK p \in s : T = {p} \X (1..f[p])
    OBVIOUS
  <2>2. 1 \in Int /\ f[p] \in Int
    OBVIOUS
  <2>3. IsFiniteSet({p}) /\ IsFiniteSet(1..f[p])
    BY <2>2, FS_Singleton, FS_Interval
  <2> QED BY <2>1, <2>3, FS_Product
<1> QED BY <1>3, <1>4, FS_UNION DEF Units

LEMMA SumNat ==
    ASSUME NEW f \in [Payments -> Nat], NEW s \in SUBSET Payments PROVE SumIn(f, s) \in Nat
  BY UnitsFinite, SumIsUnits, FS_CardinalityType

(* More receipts, or larger ones, are worth no less. *)
LEMMA SumMonotone ==
    ASSUME NEW f \in [Payments -> Nat], NEW g \in [Payments -> Nat],
           NEW s \in SUBSET Payments, NEW t \in SUBSET Payments,
           s \subseteq t, \A p \in s : f[p] <= g[p]
    PROVE  SumIn(f, s) <= SumIn(g, t)
<1>1. Units(f, s) \subseteq Units(g, t)
  BY UnitMembers
<1> QED BY <1>1, UnitsFinite, SumIsUnits, FS_Subset

(* The sum is that of the amounts of the receipts it is about. *)
LEMMA SumSame ==
    ASSUME NEW f, NEW g, NEW s, \A p \in s : f[p] = g[p] PROVE SumIn(f, s) = SumIn(g, s)
  BY DEF SumIn

LEMMA SumOne == ASSUME NEW f \in [Payments -> Nat], NEW p \in Payments PROVE SumIn(f, {p}) = f[p]
<1>1. Units(f, {p}) = {p} \X (1..f[p])
  BY DEF Units
<1>2. f[p] \in Nat /\ 1 \in Int /\ f[p] \in Int
  OBVIOUS
<1>3. IsFiniteSet(1..f[p]) /\ Cardinality(1..f[p]) = f[p]
  BY <1>2, FS_Interval
<1>4. IsFiniteSet({p}) /\ Cardinality({p}) = 1
  BY FS_Singleton
<1>5. Cardinality({p} \X (1..f[p])) = 1 * f[p]
  BY <1>3, <1>4, FS_Product
<1> QED BY <1>1, <1>2, <1>5, SumIsUnits

LEMMA SumSplit ==
    ASSUME NEW f \in [Payments -> Nat], NEW s \in SUBSET Payments, NEW t \in SUBSET Payments,
           s \cap t = {}
    PROVE  SumIn(f, s \cup t) = SumIn(f, s) + SumIn(f, t)
<1>1. Units(f, s \cup t) = Units(f, s) \cup Units(f, t) /\ Units(f, s) \cap Units(f, t) = {}
  BY UnitMembers
<1>2. Cardinality(Units(f, s)) \in Nat /\ Cardinality(Units(f, t)) \in Nat
  BY UnitsFinite, FS_CardinalityType
<1>3. Cardinality(Units(f, s \cup t)) =
      Cardinality(Units(f, s)) + Cardinality(Units(f, t)) - Cardinality({})
  BY <1>1, UnitsFinite, FS_Union
<1> QED BY <1>2, <1>3, SumIsUnits, FS_EmptySet

LEMMA SumAdd ==
    ASSUME NEW f \in [Payments -> Nat], NEW s \in SUBSET Payments, NEW p \in Payments \ s
    PROVE  SumIn(f, s \cup {p}) = SumIn(f, s) + f[p]
<1>1. p \in Payments /\ {p} \in SUBSET Payments /\ s \cap {p} = {}
  OBVIOUS
<1>2. SumIn(f, s \cup {p}) = SumIn(f, s) + SumIn(f, {p})
  BY <1>1, SumSplit
<1> QED BY <1>1, <1>2, SumOne

-----------------------------------------------------------------------------
(* What the steps do to the receipts *)

LEMMA NatAmounts == [Payments -> Amounts \cup {0}] \subseteq [Payments -> Nat]
<1>1. Amounts \cup {0} \subseteq Nat
  BY AmountAssumption
<1> QED BY <1>1

LEMMA AmountsAreNat == ASSUME TypeOK PROVE amount \in [Payments -> Nat]
  BY NatAmounts DEF TypeOK

LEMMA PaidNat == ASSUME TypeOK PROVE Paid \in Nat /\ Pending \in Nat
<1> DEFINE Of(s) == {p \in Payments : voucher[p] = s}
<1>1. SumIn(amount, Of("completed")) \in Nat /\ SumIn(amount, Of("pending")) \in Nat
  BY AmountsAreNat, SumNat
<1> QED BY <1>1 DEF Paid, PaidIf, Pending

(* The receipts that are approved, or wait, and their worth. *)
Receipts(set) == {p \in Payments : voucher[p] \in set}
Open == {"pending", "completed"}
Live == SumIn(amount, Receipts(Open))

LEMMA PaidIsSum ==
    /\ Paid = SumIn(amount, Receipts({"completed"}))
    /\ Paid' = SumIn(amount, Receipts({"completed"}))'
<1>1. Receipts({"completed"}) = {p \in Payments : voucher[p] = "completed"}
  BY DEF Receipts
<1>2. Receipts({"completed"})' = {p \in Payments : voucher'[p] = "completed"}
  BY DEF Receipts
<1> QED BY <1>1, <1>2 DEF Paid, PaidIf

LEMMA LiveIsBoth == ASSUME TypeOK PROVE Live = Paid + Pending
<1>1. Receipts({"pending"}) = {p \in Payments : voucher[p] = "pending"}
  BY DEF Receipts
<1>2. Pending = SumIn(amount, Receipts({"pending"}))
  BY <1>1 DEF Pending
<1>3. /\ Receipts(Open) = Receipts({"completed"}) \cup Receipts({"pending"})
      /\ Receipts({"completed"}) \cap Receipts({"pending"}) = {}
      /\ Receipts({"completed"}) \in SUBSET Payments /\ Receipts({"pending"}) \in SUBSET Payments
  BY DEF Receipts, Open
<1>4. SumIn(amount, Receipts({"completed"}) \cup Receipts({"pending"})) =
      SumIn(amount, Receipts({"completed"})) + SumIn(amount, Receipts({"pending"}))
  BY <1>3, AmountsAreNat, SumSplit
<1> QED BY <1>2, <1>3, <1>4, PaidIsSum DEF Live

(* A sum stays when its receipts and their amounts do, and does not grow when
   some leave. *)
LEMMA WorthKept ==
    ASSUME TypeOK, TypeOK', NEW set, Receipts(set)' = Receipts(set),
           \A p \in Receipts(set) : amount'[p] = amount[p]
    PROVE  SumIn(amount, Receipts(set))' = SumIn(amount, Receipts(set))
<1>1. SumIn(amount', Receipts(set)) = SumIn(amount, Receipts(set))
  BY SumSame
<1>2. SumIn(amount, Receipts(set))' = SumIn(amount', Receipts(set)')
  OBVIOUS
<1> QED BY <1>1, <1>2

LEMMA WorthShrinks ==
    ASSUME TypeOK, TypeOK', NEW set, Receipts(set)' \subseteq Receipts(set),
           \A p \in Receipts(set)' : amount'[p] <= amount[p]
    PROVE  SumIn(amount, Receipts(set))' <= SumIn(amount, Receipts(set))
<1>1. amount' \in [Payments -> Nat] /\ amount \in [Payments -> Nat]
  BY NatAmounts DEF TypeOK
<1>2. Receipts(set)' \in SUBSET Payments /\ Receipts(set) \in SUBSET Payments
  BY DEF Receipts
<1>3. SumIn(amount', Receipts(set)') <= SumIn(amount, Receipts(set))
  BY <1>1, <1>2, SumMonotone
<1> QED BY <1>3

(* A receipt that joins brings its amount. *)
LEMMA WorthGrows ==
    ASSUME TypeOK, TypeOK', NEW set, NEW p \in Payments, amount' = amount,
           p \notin Receipts(set), Receipts(set)' = Receipts(set) \cup {p}
    PROVE  SumIn(amount, Receipts(set))' = SumIn(amount, Receipts(set)) + amount[p]
<1>1. Receipts(set) \in SUBSET Payments
  BY DEF Receipts
<1>2. SumIn(amount, Receipts(set) \cup {p}) = SumIn(amount, Receipts(set)) + amount[p]
  BY <1>1, AmountsAreNat, SumAdd
<1>3. SumIn(amount, Receipts(set))' = SumIn(amount', Receipts(set)')
  OBVIOUS
<1> QED BY <1>2, <1>3

(* One that leaves takes it away. *)
LEMMA WorthFalls ==
    ASSUME TypeOK, TypeOK', NEW set, NEW p \in Payments, amount' = amount,
           p \in Receipts(set), Receipts(set)' = Receipts(set) \ {p}
    PROVE  SumIn(amount, Receipts(set)) = SumIn(amount, Receipts(set))' + amount[p]
<1>1. Receipts(set)' \in SUBSET Payments /\ Receipts(set) = Receipts(set)' \cup {p}
      /\ p \in Payments \ Receipts(set)'
  BY DEF Receipts
<1>2. SumIn(amount, Receipts(set)' \cup {p}) = SumIn(amount, Receipts(set)') + amount[p]
  BY <1>1, AmountsAreNat, SumAdd
<1>3. SumIn(amount, Receipts(set))' = SumIn(amount', Receipts(set)')
  OBVIOUS
<1> QED BY <1>1, <1>2, <1>3

-----------------------------------------------------------------------------
(* What a decision under way has established *)

(* Who has read the receivable reports for the Director. *)
OnlyDirector ==
    \A p \in Payments : phase[p] \in {"snapped", "holding", "summed"} => p \in byDirector

(* A decision goes on from a status its operation allows; it has read the
   receivable because it books or takes back, and flushed because it approves. *)
WellTaken ==
    \A d \in Decisions :
        /\ decision[d].phase \notin {"idle", "done"} =>
              /\ decision[d].op \in Operations
              /\ decision[d].status \in Allowed(decision[d].op)
        /\ decision[d].phase = "snapped" => Books(d) \/ TakesBack(d)
        /\ decision[d].phase \in {"holding", "summed"} => Books(d)

ShapeInv == TypeOK /\ OnlyDirector /\ WellTaken

LEMMA AdvanceShape ==
    ASSUME ShapeInv, NEW p \in Payments, Advance(p) \/ Fail(p) PROVE OnlyDirector' /\ WellTaken'
<1>1. decision' = decision
  BY DEF Advance, Fail, ReadDebt, ReadNumber, Insert, ReadReceivable, Flush, SumReceipts,
     Commit, Leave, Refuse, Step
<1>2. ASSUME NEW q \in Payments \ {p}
      PROVE  phase'[q] = phase[q] /\ (q \in byDirector => q \in byDirector')
  BY DEF ShapeInv, TypeOK, Advance, Fail, ReadDebt, ReadNumber, Insert, ReadReceivable, Flush,
     SumReceipts, Commit, Leave, Refuse, Step
<1>3. phase'[p] \in {"snapped", "holding", "summed"} => p \in byDirector'
  <2>1. ASSUME Refuse(p) PROVE phase'[p] = "leaving"
    BY <2>1 DEF ShapeInv, TypeOK, Refuse
  <2>2. ASSUME NEW from, NEW to, Step(p, from, to) PROVE phase'[p] = to /\ byDirector' = byDirector
    BY <2>2 DEF ShapeInv, TypeOK, Step
  <2>3. CASE ReadDebt(p) \/ Insert(p) \/ ReadNumber(p) \/ Fail(p)
    BY <2>1, <2>2, <2>3 DEF ReadDebt, Insert, ReadNumber, Fail
  <2>4. CASE ReadReceivable(p)
    BY <2>2, <2>4 DEF ReadReceivable
  <2>5. CASE Flush(p) \/ SumReceipts(p)
    <3>1. byDirector' = byDirector /\ phase[p] \in {"snapped", "holding"}
      BY <2>2, <2>5 DEF Flush, SumReceipts, Step
    <3> QED BY <3>1 DEF ShapeInv, OnlyDirector
  <2>6. CASE Commit(p) \/ Leave(p)
    BY <2>6 DEF ShapeInv, TypeOK, Commit, Leave
  <2> QED BY <2>3, <2>4, <2>5, <2>6 DEF Advance
<1>4. OnlyDirector'
  BY <1>2, <1>3 DEF ShapeInv, OnlyDirector
<1> QED BY <1>1, <1>4 DEF ShapeInv, WellTaken, Books, TakesBack

LEMMA DecideShape ==
    ASSUME ShapeInv, NEW d \in Decisions,
           \/ Decide(d) \/ Abort(d)
           \/ \E op \in Operations, p \in Payments : Start(d, op, p)
    PROVE  OnlyDirector' /\ WellTaken'
<1>1. UNCHANGED requestVars
  BY DEF Decide, Abort, Start, ReadReceivableFor, FlushApproval, SumForApproval,
     CommitApproval, CommitVoid, CommitReject, CommitAmend
<1>2. \A e \in Decisions \ {d} : decision'[e] = decision[e]
  BY DEF ShapeInv, TypeOK, Decide, Abort, Start, ReadReceivableFor, FlushApproval,
     SumForApproval, CommitApproval, CommitVoid, CommitReject, CommitAmend, Move, End
<1>3. /\ decision'[d].phase \notin {"idle", "done"} =>
            /\ decision'[d].op \in Operations
            /\ decision'[d].status \in Allowed(decision'[d].op)
      /\ decision'[d].phase = "snapped" => Books(d)' \/ TakesBack(d)'
      /\ decision'[d].phase \in {"holding", "summed"} => Books(d)'
  <2>1. CASE Abort(d) \/ CommitApproval(d) \/ CommitVoid(d) \/ CommitReject(d) \/ CommitAmend(d)
    BY <2>1 DEF Abort, CommitApproval, CommitVoid, CommitReject, CommitAmend, End, Blank,
       ShapeInv, TypeOK
  <2>2. CASE ReadReceivableFor(d)
    BY <2>2 DEF ReadReceivableFor, Move, At, ShapeInv, TypeOK, WellTaken, Books, TakesBack
  <2>3. CASE FlushApproval(d) \/ SumForApproval(d)
    BY <2>3 DEF FlushApproval, SumForApproval, Move, At, ShapeInv, TypeOK, WellTaken, Books
  <2>4. ASSUME NEW op \in Operations, NEW p \in Payments, Start(d, op, p)
        PROVE  /\ decision'[d].phase = "started"
               /\ decision'[d].op \in Operations
               /\ decision'[d].status \in Allowed(decision'[d].op)
    BY <2>4 DEF Start, ShapeInv, TypeOK
  <2> QED BY <2>1, <2>2, <2>3, <2>4 DEF Decide
<1> QED BY <1>1, <1>2, <1>3 DEF ShapeInv, OnlyDirector, WellTaken, Books, TakesBack, requestVars

LEMMA ShapeInvariant == Spec => []ShapeInv
<1>1. Init => OnlyDirector /\ WellTaken
  BY DEF Init, OnlyDirector, WellTaken, Blank
<1>2. TypeOK /\ OnlyDirector /\ WellTaken /\ [Next]_vars => OnlyDirector' /\ WellTaken'
  <2> SUFFICES ASSUME ShapeInv, [Next]_vars PROVE OnlyDirector' /\ WellTaken'
    BY DEF ShapeInv
  <2>1. CASE \/ UNCHANGED vars \/ OtherContract
             \/ \E k \in Keys : LeaseExpires(k) \/ LocalExpires(k)
    BY <2>1 DEF vars, OtherContract, LeaseExpires, LocalExpires, requestVars, ShapeInv,
       OnlyDirector, WellTaken, Books, TakesBack
  <2>2. CASE \E p \in Payments, k \in Keys :
                Acquire(p, k) \/ AcquireBusy(p, k) \/ AcquireFails(p, k) \/ NoClient(p, k)
    <3> SUFFICES ASSUME NEW p \in Payments, NEW k \in Keys,
                        Acquire(p, k) \/ AcquireBusy(p, k) \/ AcquireFails(p, k) \/ NoClient(p, k)
                 PROVE  OnlyDirector' /\ WellTaken'
      BY <2>2
    <3>1. /\ phase'[p] \in {"inside", "done"} /\ byDirector \subseteq byDirector'
          /\ \A q \in Payments \ {p} : phase'[q] = phase[q]
          /\ decision' = decision
      BY DEF Acquire, AcquireBusy, AcquireFails, NoClient, Enter, Callers, TurnAway, Outside,
         ShapeInv, TypeOK
    <3> QED BY <3>1 DEF ShapeInv, OnlyDirector, WellTaken, Books, TakesBack
  <2> QED BY <2>1, <2>2, AdvanceShape, DecideShape DEF Next
<1> QED BY <1>1, <1>2, PaymentsTypeCorrect, PTL DEF Spec, ShapeInv

-----------------------------------------------------------------------------
(* The steps that write receipts, and all the others *)

LedgerInv == AnswerInv /\ ShapeInv /\ RowHeld /\ LockInv

LEMMA LedgerInvariant == Spec => []LedgerInv
  BY AnswerInvariant, ShapeInvariant, RowInvariant, LockInvariant, PTL DEF LedgerInv

Commits(d) == CommitApproval(d) \/ CommitVoid(d) \/ CommitReject(d) \/ CommitAmend(d)

(* A step that commits nothing: an amount it changes is that of a request
   without a receipt. *)
Quiet ==
    /\ UNCHANGED <<voucher, receivable, noticed, marks>>
    /\ \A p \in Payments : voucher[p] # "none" => amount'[p] = amount[p]

LEMMA QuietSteps ==
    ASSUME LedgerInv, [Next]_vars
    PROVE  \/ Quiet
           \/ \E p \in Payments : Commit(p)
           \/ \E d \in Decisions : Commits(d)
<1> USE DEF LedgerInv
<1>1. ASSUME UNCHANGED ledgerVars, marks' = marks PROVE Quiet
  BY <1>1 DEF Quiet, ledgerVars
<1>2. CASE \/ UNCHANGED vars \/ OtherContract
           \/ \E k \in Keys : LeaseExpires(k) \/ LocalExpires(k)
  BY <1>1, <1>2 DEF vars, OtherContract, LeaseExpires, LocalExpires
<1>3. CASE \E p \in Payments, k \in Keys :
              Acquire(p, k) \/ AcquireBusy(p, k) \/ AcquireFails(p, k) \/ NoClient(p, k)
  <2> SUFFICES ASSUME NEW p \in Payments, NEW k \in Keys,
                      Acquire(p, k) \/ AcquireBusy(p, k) \/ AcquireFails(p, k) \/ NoClient(p, k)
               PROVE  Quiet
    BY <1>3
  <2>1. /\ UNCHANGED <<voucher, receivable, noticed, marks>> /\ phase[p] = "idle"
        /\ \A q \in Payments \ {p} : amount'[q] = amount[q]
    BY DEF Acquire, AcquireBusy, AcquireFails, NoClient, Enter, TurnAway, Outside, AnswerInv, TypeOK
  <2>2. voucher[p] = "none"
    BY <2>1 DEF AnswerInv, NothingYet
  <2> QED BY <2>1, <2>2 DEF Quiet
<1>4. ASSUME NEW p \in Payments, Advance(p) \/ Fail(p), ~Commit(p) PROVE Quiet
  <2>1. ASSUME phase[p] \in Working, Refuse(p) PROVE Quiet
    <3>1. voucher[p] = "none"
      BY <2>1 DEF AnswerInv, NothingYet
    <3> QED BY <2>1, <3>1 DEF Refuse, Quiet, AnswerInv, TypeOK
  <2>2. ASSUME NEW from, NEW to, Step(p, from, to) PROVE Quiet
    BY <1>1, <2>2 DEF Step
  <2>3. CASE Leave(p)
    BY <1>1, <2>3 DEF Leave
  <2> QED BY <1>4, <2>1, <2>2, <2>3 DEF Advance, Fail, ReadDebt, ReadNumber, Insert,
             ReadReceivable, Flush, SumReceipts, Working, Inserted
<1>5. ASSUME NEW d \in Decisions, Decide(d) \/ Abort(d), ~Commits(d) PROVE Quiet
  BY <1>1, <1>5 DEF Decide, Commits, Abort, ReadReceivableFor, FlushApproval, SumForApproval
<1>6. CASE \E d \in Decisions, op \in Operations, p \in Payments : Start(d, op, p)
  BY <1>1, <1>6 DEF Start
<1> QED BY <1>2, <1>3, <1>4, <1>5, <1>6 DEF Next

(* A quiet step leaves every set of receipts and its worth. *)
LEMMA QuietKeeps ==
    ASSUME TypeOK, TypeOK', Quiet
    PROVE  Paid' = Paid /\ Live' = Live
<1>1. ASSUME NEW set, "none" \notin set
      PROVE  SumIn(amount, Receipts(set))' = SumIn(amount, Receipts(set))
  <2>1. Receipts(set)' = Receipts(set) /\ \A p \in Receipts(set) : amount'[p] = amount[p]
    BY <1>1 DEF Quiet, Receipts
  <2> QED BY <2>1, WorthKept
<1>2. "none" \notin {"completed"} /\ "none" \notin Open
  BY DEF Open
<1> QED BY <1>1, <1>2, PaidIsSum DEF Live

(* The receipt of a payment was not there, and is "pending" or "completed". *)
LEMMA CommitEffect ==
    ASSUME LedgerInv, NEW p \in Payments, Commit(p)
    PROVE  /\ voucher[p] = "none" /\ amount' = amount /\ decision' = decision
           /\ \/ /\ voucher' = [voucher EXCEPT ![p] = "pending"]
                 /\ receivable' = receivable
              \/ /\ phase[p] = "summed" /\ p \in byDirector /\ row = p
                 /\ voucher' = [voucher EXCEPT ![p] = "completed"]
                 /\ receivable' = snap[p] + amount[p]
<1>1. phase[p] \in {"posted", "summed"}
  BY DEF Commit
<1>2. voucher[p] = "none"
  BY <1>1 DEF LedgerInv, AnswerInv, NothingYet, Working, Inserted
<1>3. phase[p] = "summed" => p \in byDirector /\ row = p
  BY DEF LedgerInv, ShapeInv, OnlyDirector, RowHeld
<1> QED BY <1>2, <1>3 DEF Commit

(* What a decision does to its receipt, when the receipt is still what the
   decision was taken on. *)
LEMMA DecisionEffect ==
    ASSUME LedgerInv, NEW d \in Decisions, Commits(d)
    PROVE  /\ Target(d) \in Payments /\ voucher[Target(d)] # "none"
           /\ decision[d].status \in Allowed(decision[d].op)
           /\ marks \subseteq marks'
           /\ Raced(d) => "raced" \in marks'
           /\ \/ /\ CommitApproval(d) /\ decision[d].status = "pending" /\ row = d
                 /\ voucher' = [voucher EXCEPT ![Target(d)] = "completed"]
                 /\ amount' = amount
              \/ /\ CommitVoid(d) \/ CommitReject(d)
                 /\ \E s \in {"cancelled", "rejected"} :
                       voucher' = [voucher EXCEPT ![Target(d)] = s]
                 /\ amount' = amount
              \/ /\ CommitAmend(d) /\ decision[d].status # "completed"
                 /\ voucher' = voucher /\ receivable' = receivable
                 /\ \E a \in Amounts : /\ amount' = [amount EXCEPT ![Target(d)] = a]
                                       /\ a > amount[Target(d)] => "raised" \in marks'
<1> USE DEF LedgerInv
<1>1. decision[d].phase \notin {"idle", "done"}
  BY DEF Commits, CommitApproval, CommitVoid, CommitReject, CommitAmend, At
<1>2. Target(d) \in Payments /\ voucher[Target(d)] # "none"
  BY <1>1 DEF AnswerInv, TargetKnown, Target
<1>3. decision[d].status \in Allowed(decision[d].op)
  BY <1>1 DEF ShapeInv, WellTaken
<1>4. marks \subseteq marks' /\ (Raced(d) => "raced" \in marks')
  BY DEF Commits, CommitApproval, CommitVoid, CommitReject, CommitAmend, Mark
<1>5. CASE CommitApproval(d)
  <2>1. Books(d) /\ row = d
    BY <1>5 DEF CommitApproval, At, ShapeInv, WellTaken, RowHeld
  <2>2. decision[d].status = "pending"
    BY <1>3, <2>1 DEF Books, Allowed
  <2> QED BY <1>2, <1>3, <1>4, <1>5, <2>1, <2>2 DEF CommitApproval, SetStatus
<1>6. CASE CommitVoid(d) \/ CommitReject(d)
  BY <1>2, <1>3, <1>4, <1>6 DEF CommitVoid, CommitReject, SetStatus
<1>7. CASE CommitAmend(d)
  <2>1. decision[d].status # "completed"
    BY <1>3, <1>7 DEF CommitAmend, Allowed
  <2> QED BY <1>2, <1>3, <1>4, <1>7, <2>1 DEF CommitAmend, Mark
<1> QED BY <1>5, <1>6, <1>7 DEF Commits

-----------------------------------------------------------------------------
(* The receivable *)

(* A payment that was not overtaken adds its amount to both sides. *)
LEMMA CommitReceivable ==
    ASSUME LedgerInv, TypeOK', NEW p \in Payments, Commit(p), receivable = Paid,
           "lost" \notin marks'
    PROVE  receivable' = Paid'
<1>1. TypeOK /\ voucher[p] = "none" /\ amount' = amount
  BY CommitEffect DEF LedgerInv, AnswerInv
<1>2. CASE voucher' = [voucher EXCEPT ![p] = "pending"] /\ receivable' = receivable
  <2>1. /\ Receipts({"completed"})' = Receipts({"completed"}) /\ receivable' = receivable
        /\ \A q \in Receipts({"completed"}) : amount'[q] = amount[q]
    BY <1>1, <1>2 DEF Receipts, TypeOK
  <2> QED BY <1>1, <2>1, WorthKept, PaidIsSum
<1>3. CASE /\ p \in byDirector /\ voucher' = [voucher EXCEPT ![p] = "completed"]
           /\ receivable' = snap[p] + amount[p]
  <2>1. snap[p] = receivable
    BY <1>3 DEF Commit, Mark
  <2>2. /\ Receipts({"completed"})' = Receipts({"completed"}) \cup {p}
        /\ p \notin Receipts({"completed"}) /\ amount' = amount
    BY <1>1, <1>3 DEF Receipts, TypeOK
  <2>3. Paid' = Paid + amount[p]
    BY <1>1, <2>2, WorthGrows, PaidIsSum
  <2> QED BY <1>3, <2>1, <2>3
<1> QED BY <1>2, <1>3, CommitEffect

(* An approval adds the amount of its receipt, a void takes back what had been
   added and nothing else. *)
LEMMA DecisionReceivable ==
    ASSUME LedgerInv, TypeOK', NEW d \in Decisions, Commits(d), receivable = Paid,
           marks' \cap {"raced", "lost"} = {}
    PROVE  receivable' = Paid'
<1> DEFINE t == Target(d)
           Done == Receipts({"completed"})
<1>1. TypeOK /\ amount \in [Payments -> Nat] /\ Paid \in Nat /\ Paid' \in Nat
  <2>1. TypeOK
    BY DEF LedgerInv, AnswerInv
  <2>2. amount' \in [Payments -> Nat]
    BY NatAmounts DEF TypeOK
  <2>3. Done' \in SUBSET Payments
    BY DEF Receipts
  <2>4. SumIn(amount', Done') \in Nat
    BY <2>2, <2>3, SumNat
  <2> QED BY <2>1, <2>4, AmountsAreNat, PaidNat, PaidIsSum
<1>2. t \in Payments /\ decision[d].status \in Allowed(decision[d].op)
  BY DecisionEffect
<1>3. voucher[t] = decision[d].status /\ amount[t] = decision[d].amount
  BY DecisionEffect DEF Raced
<1>4. amount[t] \in Nat
  BY <1>1, <1>2
<1>5. CASE CommitApproval(d)
  <2>1. snap[d] = receivable /\ receivable' = Floor(snap[d] + decision[d].amount)
    BY <1>5 DEF CommitApproval, Mark
  <2>2. voucher[t] = "pending" /\ voucher' = [voucher EXCEPT ![t] = "completed"] /\ amount' = amount
    BY <1>3, <1>5, DecisionEffect DEF CommitApproval, CommitVoid, CommitReject, CommitAmend, At
  <2>3. Done' = Done \cup {t} /\ t \notin Done
    BY <1>1, <1>2, <2>2 DEF Receipts, TypeOK
  <2>4. Paid' = Paid + amount[t]
    BY <1>1, <1>2, <2>2, <2>3, WorthGrows, PaidIsSum
  <2> QED BY <1>1, <1>3, <1>4, <2>1, <2>4 DEF Floor
<1>6. CASE CommitVoid(d) /\ TakesBack(d)
  <2>1. At(d, "snapped") /\ snap[d] = receivable
    BY <1>6 DEF CommitVoid, Mark
  <2>2. \/ snap[d] = 0 /\ receivable' = receivable
        \/ receivable' = Floor(snap[d] - decision[d].amount)
    BY <1>6, <2>1 DEF CommitVoid, TakeBack, At
  <2>3. voucher[t] = "completed" /\ voucher' = [voucher EXCEPT ![t] = "cancelled"] /\ amount' = amount
    BY <1>3, <1>6 DEF CommitVoid, SetStatus, TakesBack
  <2>4. Done' = Done \ {t} /\ t \in Done
    BY <1>1, <1>2, <2>3 DEF Receipts, TypeOK
  <2>5. Paid = Paid' + amount[t]
    BY <1>1, <1>2, <2>3, <2>4, WorthFalls, PaidIsSum
  <2> QED BY <1>1, <1>3, <1>4, <2>1, <2>2, <2>5 DEF Floor
<1>7. CASE (CommitVoid(d) /\ ~TakesBack(d)) \/ CommitReject(d)
  <2>1. voucher[t] # "completed"
    BY <1>2, <1>3, <1>7 DEF CommitVoid, CommitReject, TakesBack, Allowed
  <2>2. receivable' = receivable
    <3>1. CASE CommitVoid(d) /\ ~TakesBack(d)
      <4>1. ~At(d, "snapped")
        BY <3>1 DEF CommitVoid, At, LedgerInv, ShapeInv, WellTaken, Books
      <4> QED BY <3>1, <4>1 DEF CommitVoid
    <3> QED BY <1>7, <3>1 DEF CommitReject
  <2>3. amount' = amount /\ \E s \in {"cancelled", "rejected"} : voucher' = [voucher EXCEPT ![t] = s]
    BY <1>7 DEF CommitVoid, CommitReject, SetStatus
  <2>4. Done' = Done
    BY <1>1, <1>2, <2>1, <2>3 DEF Receipts, TypeOK
  <2> QED BY <1>1, <2>2, <2>3, <2>4, WorthKept, PaidIsSum
<1>8. CASE CommitAmend(d)
  <2>1. /\ voucher' = voucher /\ receivable' = receivable /\ voucher[t] # "completed"
        /\ \E a \in Amounts : amount' = [amount EXCEPT ![t] = a]
    BY <1>2, <1>3, <1>8 DEF CommitAmend, Allowed
  <2>2. Done' = Done /\ \A q \in Done : amount'[q] = amount[q]
    BY <1>1, <1>2, <2>1 DEF Receipts, TypeOK
  <2> QED BY <1>1, <2>1, <2>2, WorthKept, PaidIsSum
<1> QED BY <1>5, <1>6, <1>7, <1>8 DEF Commits

(* The receivable is the sum of the approved receipts, however payments,
   approvals, voids and amendments interleave, unless one of them wrote it from
   a value another had changed or acted on a receipt another had decided
   (_sync_receivables and its callers). *)
THEOREM ReceivableAgreesHolds == Spec => []ReceivableAgrees
<1>1. Init => ReceivableAgrees
  <2> SUFFICES ASSUME Init PROVE receivable = Paid
    BY DEF ReceivableAgrees
  <2>1. Receipts({"completed"}) = {} /\ receivable = 0
    BY DEF Init, Receipts
  <2>2. Units(amount, {}) = {}
    BY DEF Units
  <2> QED BY <2>1, <2>2, PaidIsSum, SumIsUnits, FS_EmptySet
<1>2. LedgerInv /\ LedgerInv' /\ ReceivableAgrees /\ [Next]_vars => ReceivableAgrees'
  <2> SUFFICES ASSUME LedgerInv, TypeOK', ReceivableAgrees, [Next]_vars,
                      marks' \cap {"raced", "lost"} = {}
               PROVE  receivable' = Paid'
    BY DEF LedgerInv, LockInv, ReceivableAgrees
  <2>1. marks \subseteq marks'
    BY QuietSteps, DecisionEffect DEF Quiet, Commit
  <2>2. receivable = Paid
    BY <2>1 DEF ReceivableAgrees
  <2>3. CASE Quiet
    BY <2>2, <2>3, QuietKeeps DEF Quiet, LedgerInv, LockInv
  <2> QED BY <2>2, <2>3, QuietSteps, CommitReceivable, DecisionReceivable
<1> QED BY <1>1, <1>2, LedgerInvariant, PTL DEF Spec


-----------------------------------------------------------------------------
(* The debt *)

(* From the test of the debt to the commit there is room for the amount, unless
   the request has missed a receipt. *)
Late == Working \ {"inside"}

RoomKept ==
    \/ marks \cap {"raced", "raised", "blind"} # {}
    \/ /\ Live <= Total
       /\ \A p \in Payments : phase[p] \in Late /\ p \notin blind => Live + amount[p] <= Total

(* Who is past the test was before, or has passed it with the room there was, and
   asks for what it asked for. *)
LEMMA LateSteps ==
    ASSUME LedgerInv, [Next]_vars, NEW q \in Payments, phase'[q] \in Late,
           \A p \in Payments : ~Commit(p)
    PROVE  /\ amount'[q] = amount[q] /\ (q \in blind => q \in blind')
           /\ phase[q] \in Late \/ amount[q] <= Room
<1> USE DEF Late, Working, Inserted
<1>1. TypeOK
  BY DEF LedgerInv, LockInv
<1>2. CASE UNCHANGED requestVars /\ amount' = amount
  BY <1>2 DEF requestVars
<1>3. CASE \/ UNCHANGED vars \/ OtherContract
           \/ \E k \in Keys : LeaseExpires(k) \/ LocalExpires(k)
  BY <1>2, <1>3 DEF vars, OtherContract, LeaseExpires, LocalExpires, ledgerVars
<1>4. CASE \E p \in Payments, k \in Keys :
              Acquire(p, k) \/ AcquireBusy(p, k) \/ AcquireFails(p, k) \/ NoClient(p, k)
  BY <1>1, <1>4 DEF Acquire, AcquireBusy, AcquireFails, NoClient, Enter, TurnAway, Outside, TypeOK
<1>5. ASSUME NEW p \in Payments, Advance(p) \/ Fail(p)
      PROVE  /\ amount'[q] = amount[q] /\ (q \in blind => q \in blind')
             /\ phase[q] \in Late \/ amount[q] <= Room
  <2>1. ASSUME Refuse(p) 
        PROVE  /\ q # p /\ amount'[q] = amount[q] /\ (q \in blind => q \in blind')
               /\ phase[q] \in Late
    BY <1>1, <2>1 DEF Refuse, TypeOK
  <2>2. ASSUME NEW from, NEW to, Step(p, from, to)
        PROVE  /\ amount'[q] = amount[q] /\ (q \in blind => q \in blind')
               /\ q = p => phase[q] = from
               /\ q # p => phase[q] \in Late
    BY <1>1, <2>2 DEF Step, TypeOK, ledgerVars
  <2>3. CASE ReadDebt(p)
    BY <2>1, <2>2, <2>3 DEF ReadDebt
  <2>4. CASE \/ ReadNumber(p) \/ Insert(p) \/ ReadReceivable(p) \/ Flush(p)
             \/ SumReceipts(p) \/ Fail(p)
    BY <2>1, <2>2, <2>4 DEF ReadNumber, Insert, ReadReceivable, Flush, SumReceipts, Fail
  <2>5. CASE Leave(p)
    BY <1>1, <2>5 DEF Leave, TypeOK, ledgerVars
  <2> QED BY <1>5, <2>3, <2>4, <2>5 DEF Advance
<1>6. ASSUME NEW d \in Decisions,
             \/ Decide(d) \/ Abort(d)
             \/ \E op \in Operations, p \in Payments : Start(d, op, p)
      PROVE  amount'[q] = amount[q] /\ (q \in blind => q \in blind') /\ phase[q] \in Late
  <2>1. UNCHANGED requestVars
    BY <1>6 DEF Decide, Abort, Start, ReadReceivableFor, FlushApproval, SumForApproval,
       CommitApproval, CommitVoid, CommitReject, CommitAmend
  <2>2. voucher[q] = "none"
    BY <2>1 DEF requestVars, LedgerInv, AnswerInv, NothingYet
  <2>3. amount'[q] = amount[q]
    <3>1. CASE Commits(d)
      BY <1>1, <2>2, <3>1, DecisionEffect DEF TypeOK
    <3>2. CASE ~Commits(d)
      BY <1>6, <3>2 DEF Commits, Decide, Abort, Start, ReadReceivableFor, FlushApproval,
         SumForApproval, ledgerVars
    <3> QED BY <3>1, <3>2
  <2> QED BY <2>1, <2>3 DEF requestVars
<1> QED BY <1>3, <1>4, <1>5, <1>6 DEF Next

(* When a receipt is committed nobody past the test is left who has not missed
   it: the lock keeps apart those it is to keep apart. *)
LEMMA CommitBlinds ==
    ASSUME LedgerInv, NEW p \in Payments, Commit(p), NEW q \in Payments, phase'[q] \in Late
    PROVE  q \in blind'
<1> USE DEF Late, Working, Inserted
<1>1. q # p /\ phase[q] \in Late
  BY DEF Commit, LedgerInv, LockInv, TypeOK
<1>2. ~Separated(q, p)
  <2> SUFFICES ASSUME Separated(q, p) PROVE FALSE
    OBVIOUS
  <2>1. Inside(p) /\ Inside(q)
    BY <1>1 DEF Commit, Inside
  <2>2. /\ key[p] = key[q] /\ via[p] = via[q] /\ p \notin lapsed /\ q \notin lapsed
        /\ via[p] = "local" => key[p] \notin stray
    BY DEF Separated
  <2>3. via[p] = "redis" \/ via[p] = "local"
    BY <2>1 DEF LedgerInv, LockInv, KeyKnown, TypeOK
  <2> QED BY <1>1, <2>1, <2>2, <2>3 DEF LedgerInv, LockInv, LockHeld
<1> QED BY <1>1, <1>2 DEF Commit

(* No decision adds to what is approved or waits, unless it raises an amount or
   overwrites another decision. *)
LEMMA DecisionWorth ==
    ASSUME LedgerInv, TypeOK', NEW d \in Decisions, Commits(d),
           marks' \cap {"raced", "raised"} = {}
    PROVE  Live' <= Live
<1> DEFINE t == Target(d)
<1>1. /\ t \in Payments /\ ~Raced(d) /\ TypeOK /\ amount \in [Payments -> Nat]
  BY DecisionEffect, AmountsAreNat DEF LedgerInv, LockInv
<1>2. voucher[t] = decision[d].status
  BY <1>1 DEF Raced
<1>3. /\ Receipts(Open)' \subseteq Receipts(Open)
      /\ \A p \in Receipts(Open)' : amount'[p] <= amount[p]
  <2>1. CASE /\ decision[d].status = "pending"
             /\ voucher' = [voucher EXCEPT ![t] = "completed"] /\ amount' = amount
    BY <1>1, <1>2, <2>1 DEF Receipts, Open, TypeOK
  <2>2. CASE /\ \E s \in {"cancelled", "rejected"} : voucher' = [voucher EXCEPT ![t] = s]
             /\ amount' = amount
    BY <1>1, <2>2 DEF Receipts, Open, TypeOK
  <2>3. ASSUME voucher' = voucher, NEW a \in Amounts, amount' = [amount EXCEPT ![t] = a],
               ~(a > amount[t])
        PROVE  /\ Receipts(Open)' \subseteq Receipts(Open)
               /\ \A p \in Receipts(Open)' : amount'[p] <= amount[p]
    <3>1. a \in Nat
      BY AmountAssumption
    <3>2. \A p \in Payments : amount'[p] <= amount[p]
      BY <1>1, <2>3, <3>1
    <3> QED BY <2>3, <3>2 DEF Receipts
  <2> QED BY <2>1, <2>2, <2>3, DecisionEffect
<1>4. SumIn(amount, Receipts(Open))' <= SumIn(amount, Receipts(Open))
  BY <1>1, <1>3, WorthShrinks
<1> QED BY <1>4 DEF Live

LEMMA RoomSteps ==
    ASSUME LedgerInv, TypeOK', RoomKept, [Next]_vars PROVE RoomKept'
<1> SUFFICES ASSUME marks' \cap {"raced", "raised", "blind"} = {}
             PROVE  /\ Live' <= Total
                    /\ \A q \in Payments : phase'[q] \in Late /\ q \notin blind'
                                           => Live' + amount'[q] <= Total
  BY DEF RoomKept
<1>1. marks \subseteq marks'
  BY QuietSteps, DecisionEffect DEF Quiet, Commit
<1>2. /\ Live <= Total
      /\ \A p \in Payments : phase[p] \in Late /\ p \notin blind => Live + amount[p] <= Total
  BY <1>1 DEF RoomKept
<1>3. /\ TypeOK /\ amount \in [Payments -> Nat] /\ Paid \in Nat /\ Pending \in Nat
      /\ Live = Paid + Pending /\ Total \in Nat
  BY AmountsAreNat, PaidNat, LiveIsBoth, AmountAssumption DEF LedgerInv, LockInv
<1>4. Live' \in Nat
  <2>1. amount' \in [Payments -> Nat]
    BY NatAmounts DEF TypeOK
  <2>2. Receipts(Open)' \in SUBSET Payments
    BY DEF Receipts
  <2>3. SumIn(amount', Receipts(Open)') \in Nat
    BY <2>1, <2>2, SumNat
  <2> QED BY <2>3 DEF Live
<1>5. ASSUME NEW p \in Payments, Commit(p)
      PROVE  /\ Live' <= Total
             /\ \A q \in Payments : phase'[q] \in Late => q \in blind'
  <2>1. p \notin blind /\ phase[p] \in Late
    BY <1>5 DEF Commit, Mark, Late, Working, Inserted
  <2>2. /\ amount' = amount /\ p \notin Receipts(Open)
        /\ Receipts(Open)' = Receipts(Open) \cup {p}
    <3>1. voucher[p] = "none" /\ amount' = amount
      BY <1>5, CommitEffect
    <3>2. \E s \in Open : voucher' = [voucher EXCEPT ![p] = s]
      BY <1>5, CommitEffect DEF Open
    <3> QED BY <1>3, <3>1, <3>2 DEF Receipts, Open, TypeOK
  <2>3. Live' = Live + amount[p]
    BY <1>3, <2>2, WorthGrows DEF Live
  <2> QED BY <1>2, <1>5, <2>1, <2>3, CommitBlinds
<1>6. ASSUME \A p \in Payments : ~Commit(p)
      PROVE  /\ Live' <= Total
             /\ \A q \in Payments : phase'[q] \in Late /\ q \notin blind'
                                    => Live' + amount'[q] <= Total
  <2>1. Live' <= Live
    <3>1. CASE Quiet
      BY <1>3, <3>1, QuietKeeps
    <3> QED BY <1>6, <3>1, QuietSteps, DecisionWorth
  <2>2. ASSUME NEW q \in Payments, phase'[q] \in Late, q \notin blind'
        PROVE  Live + amount[q] <= Total /\ amount'[q] = amount[q]
    <3>1. /\ q \notin blind /\ amount'[q] = amount[q]
          /\ phase[q] \in Late \/ amount[q] <= Room
      BY <1>6, <2>2, LateSteps
    <3>2. amount[q] \in Nat
      BY <1>3
    <3>3. ASSUME amount[q] <= Room PROVE Live + amount[q] <= Total
      BY <1>2, <1>3, <3>2, <3>3 DEF Room, Floor
    <3> QED BY <1>2, <3>1, <3>3
  <2>3. \A q \in Payments : amount[q] \in Nat
    BY <1>3
  <2> QED BY <1>2, <1>3, <1>4, <2>1, <2>2, <2>3
<1> QED BY <1>5, <1>6

LEMMA RoomInvariant == Spec => []RoomKept
<1>1. Init => RoomKept
  <2> SUFFICES ASSUME Init
               PROVE  Live <= Total /\ \A p \in Payments : phase[p] \notin Late
    BY DEF RoomKept
  <2>1. Receipts(Open) = {} /\ Units(amount, {}) = {}
    BY DEF Init, Receipts, Open, Units
  <2>2. Live = 0
    BY <2>1, SumIsUnits, FS_EmptySet DEF Live
  <2> QED BY <2>2, AmountAssumption DEF Init, Late, Working, Inserted
<1>2. LedgerInv /\ LedgerInv' /\ RoomKept /\ [Next]_vars => RoomKept'
  BY RoomSteps DEF LedgerInv, LockInv
<1> QED BY <1>1, <1>2, LedgerInvariant, PTL DEF Spec

(* What is approved or waits never exceeds the value of the contract, under any
   interleaving of payments and decisions and whatever happens to Redis, unless
   an amount was raised, a decision overwrote another, or a receipt was committed
   past a request the lock was not to keep apart (_record_payment_transaction). *)
THEOREM NotOverpaidHolds == Spec => []NotOverpaid
<1>1. LedgerInv /\ RoomKept => NotOverpaid
  <2> SUFFICES ASSUME LedgerInv, RoomKept PROVE NotOverpaid
    OBVIOUS
  <2>1. Live = Paid + Pending
    BY LiveIsBoth DEF LedgerInv, LockInv
  <2> QED BY <2>1 DEF RoomKept, NotOverpaid
<1> QED BY <1>1, RoomInvariant, LedgerInvariant, PTL

-----------------------------------------------------------------------------
(* The closing of the contract *)

(* The approved receipts and one more. *)
WithIt(r) == SumIn(amount, Receipts({"completed"}) \cup {r})

LEMMA CoveredIsSum ==
    ASSUME TypeOK, NEW r \in Payments PROVE Covered(r) <=> WithIt(r) >= Total
<1>1. {p \in Payments : [voucher EXCEPT ![r] = "completed"][p] = "completed"} =
      Receipts({"completed"}) \cup {r}
  BY DEF Receipts, TypeOK
<1> QED BY <1>1 DEF Covered, PaidIf, WithIt

(* Transaction x has summed the approved receipts with its own, r. *)
SumsFor(x, r) ==
    \/ x \in Payments /\ x = r /\ phase[x] = "summed"
    \/ x \in Decisions /\ Target(x) = r /\ decision[x].phase = "summed"

SumStands ==
    \/ "raced" \in marks
    \/ /\ Paid >= Total => noticed
       /\ \A x \in Transactions, r \in Payments :
             SumsFor(x, r) /\ WithIt(r) >= Total => x \in closes

(* Whoever has summed holds the row of the receivable. *)
LEMMA SummedHoldsRow ==
    ASSUME RowHeld, NEW x \in Transactions, NEW r \in Payments, SumsFor(x, r) PROVE row = x
  BY DEF RowHeld, SumsFor, Transactions

(* Who has summed had before, or sums now what there is. *)
LEMMA SumsBefore ==
    ASSUME LedgerInv, [Next]_vars, NEW x \in Transactions, NEW r \in Payments, SumsFor(x, r)'
    PROVE  \/ SumsFor(x, r) /\ (x \in closes => x \in closes')
           \/ /\ UNCHANGED <<voucher, amount>>
              /\ WithIt(r) >= Total => x \in closes'
<1> USE RequestAssumption
<1>1. TypeOK
  BY DEF LedgerInv, LockInv
<1>2. ASSUME UNCHANGED <<phase, decision, closes>> PROVE SumsFor(x, r) /\ closes' = closes
  BY <1>2 DEF SumsFor, Target
<1>3. CASE \/ UNCHANGED vars \/ OtherContract
           \/ \E k \in Keys : LeaseExpires(k) \/ LocalExpires(k)
  BY <1>2, <1>3 DEF vars, OtherContract, LeaseExpires, LocalExpires, requestVars, txVars
<1>4. CASE \E p \in Payments, k \in Keys :
              Acquire(p, k) \/ AcquireBusy(p, k) \/ AcquireFails(p, k) \/ NoClient(p, k)
  <2> SUFFICES ASSUME NEW p \in Payments, NEW k \in Keys,
                      Acquire(p, k) \/ AcquireBusy(p, k) \/ AcquireFails(p, k) \/ NoClient(p, k)
               PROVE  SumsFor(x, r) /\ closes' = closes
    BY <1>4
  <2>1. /\ phase'[p] \in {"inside", "done"} /\ decision' = decision /\ closes' = closes
        /\ \A q \in Payments \ {p} : phase'[q] = phase[q]
    BY <1>1 DEF Acquire, AcquireBusy, AcquireFails, NoClient, Enter, TurnAway, Outside, txVars,
       TypeOK
  <2> QED BY <2>1 DEF SumsFor, Target
<1>5. ASSUME NEW p \in Payments, Advance(p) \/ Fail(p)
      PROVE  \/ SumsFor(x, r) /\ (x \in closes => x \in closes')
             \/ /\ UNCHANGED <<voucher, amount>>
                /\ WithIt(r) >= Total => x \in closes'
  <2>1. /\ decision' = decision
        /\ \A q \in Payments \ {p} : phase'[q] = phase[q]
    BY <1>1, <1>5 DEF Advance, Fail, ReadDebt, ReadNumber, Insert, ReadReceivable, Flush,
       SumReceipts, Commit, Leave, Refuse, Step, TypeOK
  <2>2. x # p => SumsFor(x, r)
    BY <2>1 DEF SumsFor, Target
  <2>3. x # p /\ x \in closes => x \in closes'
    BY <1>5 DEF Advance, Fail, ReadDebt, ReadNumber, Insert, ReadReceivable, Flush,
       SumReceipts, Commit, Leave, Refuse, Forget, txVars
  <2>4. CASE x = p /\ SumReceipts(p)
    <3>1. r = p
      BY <2>4 DEF SumsFor
    <3>2. Covered(r) => x \in closes'
      BY <2>4, <3>1 DEF SumReceipts
    <3>3. UNCHANGED <<voucher, amount>>
      BY <2>4 DEF SumReceipts, Step, ledgerVars
    <3> QED BY <1>1, <3>2, <3>3, CoveredIsSum
  <2>5. CASE x = p /\ ~SumReceipts(p)
    <3>1. phase'[p] # "summed"
      <4>1. ASSUME Refuse(p) PROVE phase'[p] = "leaving"
        BY <1>1, <4>1 DEF Refuse, TypeOK
      <4>2. ASSUME NEW from, NEW to, Step(p, from, to) PROVE phase'[p] = to
        BY <1>1, <4>2 DEF Step, TypeOK
      <4>3. CASE Commit(p) \/ Leave(p)
        BY <1>1, <4>3 DEF Commit, Leave, TypeOK
      <4> QED BY <1>5, <2>5, <4>1, <4>2, <4>3 DEF Advance, Fail, ReadDebt, ReadNumber,
                 Insert, ReadReceivable, Flush
    <3> QED BY <2>5, <3>1 DEF SumsFor
  <2> QED BY <2>2, <2>3, <2>4, <2>5
<1>6. ASSUME NEW d \in Decisions,
             \/ Decide(d) \/ Abort(d)
             \/ \E op \in Operations, p \in Payments : Start(d, op, p)
      PROVE  \/ SumsFor(x, r) /\ (x \in closes => x \in closes')
             \/ /\ UNCHANGED <<voucher, amount>>
                /\ WithIt(r) >= Total => x \in closes'
  <2>1. /\ phase' = phase
        /\ \A e \in Decisions \ {d} : decision'[e] = decision[e]
    BY <1>1, <1>6 DEF Decide, Abort, Start, ReadReceivableFor, FlushApproval, SumForApproval,
       CommitApproval, CommitVoid, CommitReject, CommitAmend, Move, End, requestVars, TypeOK
  <2>2. x # d => SumsFor(x, r)
    BY <2>1 DEF SumsFor, Target
  <2>3. x # d /\ x \in closes => x \in closes'
    BY <1>6 DEF Decide, Abort, Start, ReadReceivableFor, FlushApproval, SumForApproval,
       CommitApproval, CommitVoid, CommitReject, CommitAmend, End, Forget, txVars
  <2>4. CASE x = d /\ SumForApproval(d)
    <3>1. r = Target(d)
      BY <1>1, <2>4 DEF SumsFor, SumForApproval, Move, Target, TypeOK
    <3>2. Covered(r) => x \in closes'
      BY <2>4, <3>1 DEF SumForApproval
    <3>3. UNCHANGED <<voucher, amount>>
      BY <2>4 DEF SumForApproval, ledgerVars
    <3> QED BY <1>1, <3>2, <3>3, CoveredIsSum
  <2>5. CASE x = d /\ ~SumForApproval(d)
    <3>1. decision'[d].phase # "summed"
      <4>1. ASSUME End(d) PROVE decision'[d].phase = "done"
        BY <1>1, <4>1 DEF End, Blank, TypeOK
      <4>2. ASSUME NEW to, Move(d, to) PROVE decision'[d].phase = to
        BY <1>1, <4>2 DEF Move, TypeOK
      <4>3. CASE \E op \in Operations, p \in Payments : Start(d, op, p)
        BY <1>1, <4>3 DEF Start, TypeOK
      <4> QED BY <1>6, <2>5, <4>1, <4>2, <4>3 DEF Decide, Abort, ReadReceivableFor,
                 FlushApproval, CommitApproval, CommitVoid, CommitReject, CommitAmend
    <3> QED BY <2>5, <3>1 DEF SumsFor
  <2> QED BY <2>2, <2>3, <2>4, <2>5
<1> QED BY <1>3, <1>4, <1>5, <1>6 DEF Next

(* Neither the sum with r nor what is paid grows when no receipt is approved and
   no amount that counts changes. *)
LEMMA WithItShrinks ==
    ASSUME TypeOK, TypeOK', NEW r \in Payments,
           Receipts({"completed"})' \subseteq Receipts({"completed"}),
           \A p \in Receipts({"completed"})' : amount'[p] = amount[p],
           amount'[r] = amount[r]
    PROVE  WithIt(r)' <= WithIt(r) /\ WithIt(r) \in Nat /\ WithIt(r)' \in Nat
<1> DEFINE Done == Receipts({"completed"})
<1>1. amount \in [Payments -> Nat] /\ amount' \in [Payments -> Nat]
  BY NatAmounts DEF TypeOK
<1>2. Done \cup {r} \in SUBSET Payments /\ Done' \cup {r} \in SUBSET Payments
  BY DEF Receipts
<1>3. \A p \in Done' \cup {r} : amount'[p] <= amount[p]
  BY <1>1, <1>2
<1>4. SumIn(amount', Done' \cup {r}) <= SumIn(amount, Done \cup {r})
  BY <1>1, <1>2, <1>3, SumMonotone
<1>5. SumIn(amount', Done' \cup {r}) \in Nat /\ SumIn(amount, Done \cup {r}) \in Nat
  BY <1>1, <1>2, SumNat
<1> QED BY <1>4, <1>5 DEF WithIt

LEMMA PaidShrinks ==
    ASSUME TypeOK, TypeOK', Receipts({"completed"})' \subseteq Receipts({"completed"}),
           \A p \in Receipts({"completed"})' : amount'[p] = amount[p]
    PROVE  Paid' <= Paid /\ Paid \in Nat /\ Paid' \in Nat
<1> DEFINE Done == Receipts({"completed"})
<1>1. amount \in [Payments -> Nat] /\ amount' \in [Payments -> Nat]
  BY NatAmounts DEF TypeOK
<1>2. Done \in SUBSET Payments /\ Done' \in SUBSET Payments
  BY DEF Receipts
<1>3. \A p \in Done' : amount'[p] <= amount[p]
  BY <1>1, <1>2
<1>4. SumIn(amount', Done') <= SumIn(amount, Done)
  BY <1>1, <1>2, <1>3, SumMonotone
<1>5. SumIn(amount', Done') \in Nat /\ SumIn(amount, Done) \in Nat
  BY <1>1, <1>2, SumNat
<1> QED BY <1>4, <1>5, PaidIsSum

(* When a transaction approves r, what is paid is what it had summed. *)
LEMMA ApprovedIsSummed ==
    ASSUME TypeOK, TypeOK', NEW r \in Payments, amount' = amount,
           voucher' = [voucher EXCEPT ![r] = "completed"]
    PROVE  Paid' = WithIt(r)
<1>1. Receipts({"completed"})' = Receipts({"completed"}) \cup {r}
  BY DEF Receipts, TypeOK
<1> QED BY <1>1, PaidIsSum DEF WithIt

LEMMA SumSteps ==
    ASSUME LedgerInv, LedgerInv', SumStands, [Next]_vars PROVE SumStands'
<1> SUFFICES ASSUME "raced" \notin marks'
             PROVE  /\ Paid' >= Total => noticed'
                    /\ \A x \in Transactions, r \in Payments :
                          SumsFor(x, r)' /\ WithIt(r)' >= Total => x \in closes'
  BY DEF SumStands
<1> USE RequestAssumption
<1>1. /\ TypeOK /\ TypeOK' /\ RowHeld /\ RowHeld' /\ Total \in Nat
      /\ Payments \subseteq Transactions /\ Decisions \subseteq Transactions
  BY AmountAssumption DEF LedgerInv, LockInv, Transactions
<1>2. marks \subseteq marks'
  BY QuietSteps, DecisionEffect DEF Quiet, Commit
<1>3. /\ Paid >= Total => noticed
      /\ \A x \in Transactions, r \in Payments :
            SumsFor(x, r) /\ WithIt(r) >= Total => x \in closes
  BY <1>2 DEF SumStands
<1>4. ASSUME NEW x \in Transactions, NEW r \in Payments, SumsFor(x, r)', WithIt(r)' >= Total,
             ~SumsFor(x, r)
      PROVE  x \in closes'
  <2>1. UNCHANGED <<voucher, amount>> /\ (WithIt(r) >= Total => x \in closes')
    BY <1>4, SumsBefore
  <2>2. WithIt(r)' = WithIt(r)
    BY <2>1 DEF WithIt, Receipts
  <2> QED BY <1>4, <2>1, <2>2
<1>5. ASSUME NEW x \in Transactions, NEW r \in Payments, SumsFor(x, r), SumsFor(x, r)',
             WithIt(r)' >= Total, WithIt(r)' <= WithIt(r), WithIt(r) \in Nat, WithIt(r)' \in Nat
      PROVE  x \in closes'
  <2>1. WithIt(r) >= Total
    BY <1>1, <1>5
  <2> QED BY <1>3, <1>5, <2>1, SumsBefore
<1>6. ASSUME Receipts({"completed"})' \subseteq Receipts({"completed"}),
             \A p \in Receipts({"completed"})' : amount'[p] = amount[p],
             \A x \in Transactions, r \in Payments :
                 SumsFor(x, r) /\ SumsFor(x, r)' => amount'[r] = amount[r],
             noticed /\ Paid' >= Total => noticed'
      PROVE  /\ Paid' >= Total => noticed'
             /\ \A x \in Transactions, r \in Payments :
                   SumsFor(x, r)' /\ WithIt(r)' >= Total => x \in closes'
  <2>1. Paid' <= Paid /\ Paid \in Nat /\ Paid' \in Nat
    BY <1>1, <1>6, PaidShrinks
  <2>2. ASSUME NEW x \in Transactions, NEW r \in Payments, SumsFor(x, r), SumsFor(x, r)',
               WithIt(r)' >= Total
        PROVE  x \in closes'
    <3>1. WithIt(r)' <= WithIt(r) /\ WithIt(r) \in Nat /\ WithIt(r)' \in Nat
      BY <1>1, <1>6, <2>2, WithItShrinks
    <3> QED BY <1>5, <2>2, <3>1
  <2>3. Paid' >= Total => noticed'
    BY <1>1, <1>3, <1>6, <2>1
  <2> QED BY <1>4, <2>2, <2>3
<1>7. ASSUME NEW x \in Transactions, NEW r \in Payments, SumsFor(x, r), row' = Nobody,
             amount' = amount, voucher' = [voucher EXCEPT ![r] = "completed"],
             x \in closes => noticed'
      PROVE  /\ Paid' >= Total => noticed'
             /\ \A y \in Transactions, s \in Payments :
                   SumsFor(y, s)' /\ WithIt(s)' >= Total => y \in closes'
  <2>1. Paid' = WithIt(r)
    BY <1>1, <1>7, ApprovedIsSummed
  <2>2. ASSUME NEW y \in Transactions, NEW s \in Payments, SumsFor(y, s)' PROVE FALSE
    <3>1. row' = y
      BY <1>1, <2>2 DEF RowHeld, SumsFor
    <3> QED BY <1>7, <3>1 DEF Transactions
  <2> QED BY <1>3, <1>7, <2>1, <2>2
<1>8. ASSUME \A p \in Payments : ~Commit(p), NEW x \in Payments, SumsFor(x, x),
             SumsFor(x, x)'
      PROVE  amount'[x] = amount[x]
  <2>1. phase'[x] = "summed"
    BY <1>8 DEF SumsFor
  <2> QED BY <1>8, <2>1, LateSteps DEF Late, Working, Inserted
<1>9. ASSUME NEW p \in Payments, Commit(p)
      PROVE  /\ Paid' >= Total => noticed'
             /\ \A x \in Transactions, r \in Payments :
                   SumsFor(x, r)' /\ WithIt(r)' >= Total => x \in closes'
  <2>1. /\ voucher[p] = "none" /\ amount' = amount
        /\ p \in closes \/ (noticed /\ Paid' >= Total) => noticed'
    BY <1>9, CommitEffect DEF Commit, Notice
  <2>2. CASE voucher' = [voucher EXCEPT ![p] = "pending"]
    <3>1. /\ Receipts({"completed"})' \subseteq Receipts({"completed"})
          /\ \A q \in Payments : amount'[q] = amount[q]
      BY <1>1, <2>1, <2>2 DEF Receipts, TypeOK
    <3> QED BY <1>6, <2>1, <3>1 DEF Receipts
  <2>3. CASE /\ phase[p] = "summed" /\ row = p
             /\ voucher' = [voucher EXCEPT ![p] = "completed"]
    <3>1. SumsFor(p, p) /\ p \in Transactions
      BY <1>1, <2>3 DEF SumsFor
    <3>2. row' = Nobody
      BY <1>9, <2>3 DEF Commit, Forget, FreeRow
    <3> QED BY <1>7, <2>1, <2>3, <3>1, <3>2
  <2> QED BY <1>9, <2>2, <2>3, CommitEffect
<1>10. ASSUME \A p \in Payments : ~Commit(p), Quiet
       PROVE  /\ Paid' >= Total => noticed'
              /\ \A x \in Transactions, r \in Payments :
                    SumsFor(x, r)' /\ WithIt(r)' >= Total => x \in closes'
  <2>1. ASSUME NEW x \in Transactions, NEW r \in Payments, SumsFor(x, r), SumsFor(x, r)'
        PROVE  amount'[r] = amount[r]
    <3>1. CASE x \in Payments
      <4>1. x = r
        BY <2>1, <3>1 DEF SumsFor
      <4> QED BY <1>8, <1>10, <2>1, <4>1
    <3>2. CASE x \in Decisions
      <4>1. Target(x) = r /\ decision[x].phase = "summed"
        BY <2>1, <3>2 DEF SumsFor
      <4>2. voucher[r] # "none"
        BY <3>2, <4>1 DEF LedgerInv, AnswerInv, TargetKnown, Target
      <4> QED BY <1>10, <4>2 DEF Quiet
    <3> QED BY <3>1, <3>2 DEF Transactions
  <2>2. /\ Receipts({"completed"})' \subseteq Receipts({"completed"})
        /\ \A p \in Receipts({"completed"})' : amount'[p] = amount[p]
    BY <1>10 DEF Quiet, Receipts
  <2> QED BY <1>6, <1>10, <2>1, <2>2 DEF Quiet
<1>11. ASSUME \A p \in Payments : ~Commit(p), NEW d \in Decisions, Commits(d)
       PROVE  /\ Paid' >= Total => noticed'
              /\ \A x \in Transactions, r \in Payments :
                    SumsFor(x, r)' /\ WithIt(r)' >= Total => x \in closes'
  <2> DEFINE t == Target(d)
  <2>1. /\ t \in Payments /\ d \in Transactions /\ voucher[t] # "none"
        /\ d \in closes \/ (noticed /\ Paid' >= Total) => noticed'
    BY <1>1, <1>11, DecisionEffect DEF Commits, CommitApproval, CommitVoid, CommitReject,
       CommitAmend, Notice
  <2>2. CASE CommitApproval(d)
    <3>1. SumsFor(d, t)
      BY <2>2 DEF CommitApproval, At, SumsFor
    <3>2. row = d
      BY <1>1, <2>1, <3>1, SummedHoldsRow
    <3>3. /\ row' = Nobody /\ amount' = amount
          /\ voucher' = [voucher EXCEPT ![t] = "completed"]
      BY <2>2, <3>2 DEF CommitApproval, SetStatus, End, Forget, FreeRow
    <3> QED BY <1>7, <2>1, <3>1, <3>3
  <2>3. CASE CommitVoid(d) \/ CommitReject(d)
    <3>1. amount' = amount /\ \E s \in {"cancelled", "rejected"} : voucher' = [voucher EXCEPT ![t] = s]
      BY <2>3 DEF CommitVoid, CommitReject, SetStatus
    <3>2. Receipts({"completed"})' \subseteq Receipts({"completed"})
      BY <1>1, <2>1, <3>1 DEF Receipts, TypeOK
    <3> QED BY <1>6, <2>1, <3>1, <3>2
  <2>4. CASE CommitAmend(d)
    <3>1. /\ voucher' = voucher /\ \E a \in Amounts : amount' = [amount EXCEPT ![t] = a]
      BY <2>4 DEF CommitAmend
    <3>2. voucher[t] # "completed"
      BY <1>11, <2>4, DecisionEffect DEF Raced, Allowed, CommitAmend
    <3>3. /\ Receipts({"completed"})' \subseteq Receipts({"completed"})
          /\ \A p \in Receipts({"completed"})' : amount'[p] = amount[p]
      BY <1>1, <2>1, <3>1, <3>2 DEF Receipts, TypeOK
    <3>4. ASSUME NEW x \in Transactions, NEW r \in Payments, SumsFor(x, r), SumsFor(x, r)'
          PROVE  amount'[r] = amount[r]
      <4>1. CASE x \in Payments
        <5>1. x = r
          BY <3>4, <4>1 DEF SumsFor
        <5> QED BY <1>8, <1>11, <3>4, <5>1
      <4>2. CASE x \in Decisions
        <5>1. Target(x) = r /\ decision[x].phase = "summed" /\ decision'[x].phase = "summed"
          BY <3>4, <4>2 DEF SumsFor
        <5>2. x # d
          BY <1>1, <2>4, <5>1 DEF CommitAmend, At
        <5>3. r # t
          BY <2>4, <4>2, <5>1, <5>2 DEF CommitAmend, ReceiptLocked
        <5> QED BY <1>1, <2>1, <3>1, <5>3 DEF TypeOK
      <4> QED BY <4>1, <4>2 DEF Transactions
    <3> QED BY <1>6, <2>1, <3>3, <3>4
  <2> QED BY <1>11, <2>2, <2>3, <2>4 DEF Commits
<1> QED BY <1>9, <1>10, <1>11, QuietSteps

LEMMA SumInvariant == Spec => []SumStands
<1>1. Init => SumStands
  <2> SUFFICES ASSUME Init
               PROVE  /\ ~(Paid >= Total)
                      /\ \A x \in Transactions, r \in Payments : ~SumsFor(x, r)
    BY DEF SumStands
  <2>1. Receipts({"completed"}) = {} /\ Units(amount, {}) = {}
    BY DEF Init, Receipts, Units
  <2>2. Paid = 0
    BY <2>1, SumIsUnits, FS_EmptySet, PaidIsSum
  <2>3. \A x \in Transactions, r \in Payments : ~SumsFor(x, r)
    BY DEF Init, SumsFor, Blank
  <2> QED BY <2>2, <2>3, AmountAssumption
<1>2. LedgerInv /\ LedgerInv' /\ SumStands /\ [Next]_vars => SumStands'
  BY SumSteps
<1> QED BY <1>1, <1>2, LedgerInvariant, PTL DEF Spec

(* Whichever transaction brings the last of the receipts that cover the contract
   has seen them all when it summed, and tries the closing: between two that end
   in either order none is blind to the other (db.flush before
   _finalize_contract_after_full_payment). *)
THEOREM FullPaymentNoticedHolds == Spec => []FullPaymentNoticed
<1>1. SumStands => FullPaymentNoticed
  BY DEF SumStands, FullPaymentNoticed
<1> QED BY <1>1, SumInvariant, PTL

-----------------------------------------------------------------------------
(* The books of the ledger *)

(* No closing is tried for nothing: who means to try it has summed and holds what
   it summed. *)
ClosingEarned ==
    \/ marks # {}
    \/ /\ noticed => Paid >= Total
       /\ \A x \in closes : \E r \in Payments : SumsFor(x, r) /\ WithIt(r) >= Total

(* Who means to try the closing meant to before and has not ended, or has just
   summed. *)
LEMMA ClosesBefore ==
    ASSUME LedgerInv, [Next]_vars, NEW x \in closes', x \in Transactions,
           x \in closes => \E r \in Payments : SumsFor(x, r)
    PROVE  \/ x \in closes /\ \A r \in Payments : SumsFor(x, r) => SumsFor(x, r)'
           \/ /\ UNCHANGED <<voucher, amount>>
              /\ \E r \in Payments : SumsFor(x, r)' /\ WithIt(r) >= Total
<1> USE RequestAssumption
<1>1. TypeOK
  BY DEF LedgerInv, LockInv
<1>2. ASSUME UNCHANGED <<phase, decision, closes>>
      PROVE  x \in closes /\ \A r \in Payments : SumsFor(x, r) => SumsFor(x, r)'
  BY <1>2 DEF SumsFor, Target
<1>3. CASE \/ UNCHANGED vars \/ OtherContract
           \/ \E k \in Keys : LeaseExpires(k) \/ LocalExpires(k)
  BY <1>2, <1>3 DEF vars, OtherContract, LeaseExpires, LocalExpires, requestVars, txVars
<1>4. CASE \E p \in Payments, k \in Keys :
              Acquire(p, k) \/ AcquireBusy(p, k) \/ AcquireFails(p, k) \/ NoClient(p, k)
  <2> SUFFICES ASSUME NEW p \in Payments, NEW k \in Keys,
                      Acquire(p, k) \/ AcquireBusy(p, k) \/ AcquireFails(p, k) \/ NoClient(p, k)
               PROVE  x \in closes /\ \A r \in Payments : SumsFor(x, r) => SumsFor(x, r)'
    BY <1>4
  <2>1. /\ phase[p] = "idle" /\ decision' = decision /\ closes' = closes
        /\ \A q \in Payments \ {p} : phase'[q] = phase[q]
    BY <1>1 DEF Acquire, AcquireBusy, AcquireFails, NoClient, Enter, TurnAway, Outside, txVars,
       TypeOK
  <2> QED BY <2>1 DEF SumsFor, Target
<1>5. ASSUME NEW p \in Payments, Advance(p) \/ Fail(p)
      PROVE  \/ x \in closes /\ \A r \in Payments : SumsFor(x, r) => SumsFor(x, r)'
             \/ /\ UNCHANGED <<voucher, amount>>
                /\ \E r \in Payments : SumsFor(x, r)' /\ WithIt(r) >= Total
  <2>1. /\ decision' = decision
        /\ \A q \in Payments \ {p} : phase'[q] = phase[q]
    BY <1>1, <1>5 DEF Advance, Fail, ReadDebt, ReadNumber, Insert, ReadReceivable, Flush,
       SumReceipts, Commit, Leave, Refuse, Step, TypeOK
  <2>2. CASE x # p
    <3>1. x \in closes
      BY <1>5, <2>2 DEF Advance, Fail, ReadDebt, ReadNumber, Insert, ReadReceivable, Flush,
         SumReceipts, Commit, Leave, Refuse, Forget, txVars
    <3> QED BY <2>1, <2>2, <3>1 DEF SumsFor, Target
  <2>3. CASE x = p /\ SumReceipts(p)
    <3>1. /\ UNCHANGED <<voucher, amount>> /\ phase'[p] = "summed" /\ phase[p] = "holding"
      BY <1>1, <2>3 DEF SumReceipts, Step, ledgerVars, TypeOK
    <3>2. SumsFor(p, p)'
      BY <3>1 DEF SumsFor
    <3>3. p \notin closes
      BY <2>3, <3>1 DEF SumsFor
    <3>4. Covered(p)
      BY <2>3, <3>3 DEF SumReceipts
    <3> QED BY <1>1, <2>3, <3>1, <3>2, <3>4, CoveredIsSum
  <2>4. CASE x = p /\ ~SumReceipts(p)
    <3>1. x \in closes /\ ~Forget(p)
      BY <1>5, <2>4 DEF Advance, Fail, ReadDebt, ReadNumber, Insert, ReadReceivable, Flush,
         Commit, Leave, Refuse, Forget, txVars
    <3>2. phase[p] = "summed"
      BY <2>4, <3>1 DEF SumsFor
    <3> QED BY <1>5, <2>4, <3>1, <3>2 DEF Advance, Fail, ReadDebt, ReadNumber, Insert,
               ReadReceivable, Flush, Commit, Leave, Refuse, Step
  <2> QED BY <2>2, <2>3, <2>4
<1>6. ASSUME NEW d \in Decisions,
             \/ Decide(d) \/ Abort(d)
             \/ \E op \in Operations, p \in Payments : Start(d, op, p)
      PROVE  \/ x \in closes /\ \A r \in Payments : SumsFor(x, r) => SumsFor(x, r)'
             \/ /\ UNCHANGED <<voucher, amount>>
                /\ \E r \in Payments : SumsFor(x, r)' /\ WithIt(r) >= Total
  <2>1. /\ phase' = phase
        /\ \A e \in Decisions \ {d} : decision'[e] = decision[e]
    BY <1>1, <1>6 DEF Decide, Abort, Start, ReadReceivableFor, FlushApproval, SumForApproval,
       CommitApproval, CommitVoid, CommitReject, CommitAmend, Move, End, requestVars, TypeOK
  <2>2. CASE x # d
    <3>1. x \in closes
      BY <1>6, <2>2 DEF Decide, Abort, Start, ReadReceivableFor, FlushApproval, SumForApproval,
         CommitApproval, CommitVoid, CommitReject, CommitAmend, End, Forget, txVars
    <3> QED BY <2>1, <2>2, <3>1 DEF SumsFor, Target
  <2>3. CASE x = d /\ SumForApproval(d)
    <3>1. /\ UNCHANGED <<voucher, amount>> /\ decision'[d].phase = "summed"
          /\ decision'[d].target = Target(d) /\ decision[d].phase = "holding"
      BY <1>1, <2>3 DEF SumForApproval, Move, At, Target, ledgerVars, TypeOK
    <3>2. Target(d) \in Payments
      BY <3>1 DEF LedgerInv, AnswerInv, TargetKnown, Target
    <3>3. SumsFor(d, Target(d))'
      BY <3>1 DEF SumsFor, Target
    <3>4. d \notin closes
      BY <2>3, <3>1 DEF SumsFor
    <3>5. Covered(Target(d))
      BY <2>3, <3>4 DEF SumForApproval
    <3>6. WithIt(Target(d)) >= Total
      BY <1>1, <3>2, <3>5, CoveredIsSum
    <3>7. \E r \in Payments : SumsFor(d, r)' /\ WithIt(r) >= Total
      <4>1. PICK r \in Payments : r = Target(d)
        BY <3>2
      <4>2. SumsFor(d, r)'
        BY <3>1, <4>1 DEF SumsFor, Target
      <4> QED BY <3>6, <4>1, <4>2
    <3> QED BY <2>3, <3>1, <3>7
  <2>4. CASE x = d /\ ~SumForApproval(d)
    <3>1. x \in closes /\ ~End(d)
      BY <1>6, <2>4 DEF Decide, Abort, Start, ReadReceivableFor, FlushApproval,
         CommitApproval, CommitVoid, CommitReject, CommitAmend, End, Forget, txVars
    <3>2. decision[d].phase = "summed"
      BY <2>4, <3>1 DEF SumsFor
    <3> QED BY <1>6, <2>4, <3>1, <3>2 DEF Decide, Abort, Start, ReadReceivableFor,
               FlushApproval, CommitApproval, CommitVoid, CommitReject, CommitAmend, At
  <2> QED BY <2>2, <2>3, <2>4
<1> QED BY <1>3, <1>4, <1>5, <1>6 DEF Next

(* Who works on a payment asks for an amount, and every receipt has one. *)
Priced ==
    \A p \in Payments : phase[p] \in Working \/ voucher[p] # "none" => amount[p] \in Amounts

LEMMA PricedSteps == ASSUME LedgerInv, Priced, [Next]_vars PROVE Priced'
<1> USE DEF Working, Inserted
<1>1. TypeOK /\ NothingYet
  BY DEF LedgerInv, LockInv, AnswerInv
<1>2. CASE UNCHANGED <<phase, voucher, amount>>
  BY <1>2 DEF Priced
<1>3. CASE \/ UNCHANGED vars \/ OtherContract
           \/ \E k \in Keys : LeaseExpires(k) \/ LocalExpires(k)
  BY <1>2, <1>3 DEF vars, OtherContract, LeaseExpires, LocalExpires, requestVars, ledgerVars
<1>4. CASE \E p \in Payments, k \in Keys :
              Acquire(p, k) \/ AcquireBusy(p, k) \/ AcquireFails(p, k) \/ NoClient(p, k)
  <2> SUFFICES ASSUME NEW p \in Payments, NEW k \in Keys,
                      Acquire(p, k) \/ AcquireBusy(p, k) \/ AcquireFails(p, k) \/ NoClient(p, k)
               PROVE  Priced'
    BY <1>4
  <2>1. /\ phase[p] = "idle" /\ voucher' = voucher
        /\ \A q \in Payments \ {p} : phase'[q] = phase[q] /\ amount'[q] = amount[q]
    BY <1>1 DEF Acquire, AcquireBusy, AcquireFails, NoClient, Enter, TurnAway, Outside, TypeOK
  <2>2. amount'[p] \in Amounts \/ phase'[p] = "done"
    BY <1>1 DEF Acquire, AcquireBusy, AcquireFails, NoClient, Enter, TurnAway, TypeOK
  <2>3. voucher[p] = "none"
    BY <1>1, <2>1 DEF NothingYet
  <2> QED BY <2>1, <2>2, <2>3 DEF Priced
<1>5. ASSUME NEW p \in Payments, Advance(p) \/ Fail(p) PROVE Priced'
  <2>1. ASSUME phase[p] \in Working, Refuse(p) PROVE Priced'
    <3>1. voucher[p] = "none"
      BY <1>1, <2>1 DEF NothingYet
    <3> QED BY <1>1, <2>1, <3>1 DEF Refuse, Priced, TypeOK
  <2>2. ASSUME NEW from \in Working, NEW to, Step(p, from, to) PROVE Priced'
    BY <1>1, <2>2 DEF Step, Priced, ledgerVars, TypeOK
  <2>3. CASE ReadDebt(p) \/ Insert(p) \/ Fail(p)
    BY <2>1, <2>2, <2>3 DEF ReadDebt, Insert, Fail
  <2>4. CASE ReadNumber(p) \/ ReadReceivable(p) \/ Flush(p) \/ SumReceipts(p)
    BY <2>2, <2>4 DEF ReadNumber, ReadReceivable, Flush, SumReceipts
  <2>5. CASE Commit(p)
    BY <1>1, <2>5 DEF Commit, Priced, TypeOK
  <2>6. CASE Leave(p)
    BY <1>1, <2>6 DEF Leave, Priced, ledgerVars, TypeOK
  <2> QED BY <1>5, <2>3, <2>4, <2>5, <2>6 DEF Advance
<1>6. ASSUME NEW d \in Decisions,
             \/ Decide(d) \/ Abort(d)
             \/ \E op \in Operations, p \in Payments : Start(d, op, p)
      PROVE  Priced'
  <2>1. phase' = phase
    BY <1>6 DEF Decide, Abort, Start, ReadReceivableFor, FlushApproval, SumForApproval,
       CommitApproval, CommitVoid, CommitReject, CommitAmend, requestVars
  <2>2. CASE Commits(d)
    <3>1. voucher[Target(d)] # "none" /\ Target(d) \in Payments
      BY <2>2, DecisionEffect
    <3>2. CASE amount' = amount /\ \E s \in Statuses : voucher' = [voucher EXCEPT ![Target(d)] = s]
      BY <1>1, <2>1, <3>1, <3>2 DEF Priced, TypeOK
    <3>3. CASE voucher' = voucher /\ \E a \in Amounts : amount' = [amount EXCEPT ![Target(d)] = a]
      BY <1>1, <2>1, <3>1, <3>3 DEF Priced, TypeOK
    <3> QED BY <2>2, <3>2, <3>3, DecisionEffect DEF Statuses
  <2>3. CASE ~Commits(d)
    BY <1>2, <1>6, <2>1, <2>3 DEF Commits, Decide, Abort, Start, ReadReceivableFor,
       FlushApproval, SumForApproval, ledgerVars
  <2> QED BY <2>2, <2>3
<1> QED BY <1>3, <1>4, <1>5, <1>6 DEF Next

(* A void takes back what was approved only with the row of the receivable in
   hand: it finds there at least the amount of its receipt. *)
LEMMA VoidNeedsRow ==
    ASSUME LedgerInv, Priced, receivable = Paid, marks' = {},
           NEW d \in Decisions, CommitVoid(d), voucher[Target(d)] = "completed"
    PROVE  row = Nobody
<1> DEFINE t == Target(d)
           Done == Receipts({"completed"})
<1>1. /\ TypeOK /\ t \in Payments /\ voucher[t] = decision[d].status
      /\ amount \in [Payments -> Nat]
  BY DecisionEffect, AmountsAreNat DEF Commits, Raced, LedgerInv, LockInv
<1>2. TakesBack(d) /\ snap[d] = receivable
  BY <1>1 DEF CommitVoid, TakesBack, Mark
<1>3. receivable > 0
  <2>1. amount[t] > 0 /\ amount[t] \in Nat
    BY <1>1, AmountAssumption DEF Priced
  <2>2. SumIn(amount, {t}) = amount[t]
    BY <1>1, SumOne
  <2>3. {t} \in SUBSET Payments /\ Done \in SUBSET Payments /\ {t} \subseteq Done
    BY <1>1 DEF Receipts
  <2>4. \A p \in {t} : amount[p] <= amount[p]
    BY <2>1
  <2>5. SumIn(amount, {t}) <= SumIn(amount, Done)
    BY <1>1, <2>3, <2>4, SumMonotone
  <2>6. SumIn(amount, Done) \in Nat
    BY <1>1, <2>3, SumNat
  <2> QED BY <2>1, <2>2, <2>5, <2>6, PaidIsSum
<1> QED BY <1>2, <1>3 DEF CommitVoid

(* Between the sum of a transaction and its end nothing it has summed goes. *)
LEMMA SumNotLost ==
    ASSUME LedgerInv, LedgerInv', Priced, receivable = Paid, marks' = {}, [Next]_vars,
           NEW x \in Transactions, NEW r \in Payments, SumsFor(x, r), SumsFor(x, r)'
    PROVE  WithIt(r) <= WithIt(r)' /\ WithIt(r) \in Nat /\ WithIt(r)' \in Nat
<1> USE RequestAssumption
<1> DEFINE Done == Receipts({"completed"})
<1>1. TypeOK /\ TypeOK' /\ RowHeld /\ RowHeld'
  BY DEF LedgerInv, LockInv
<1>2. row = x /\ row' = x /\ x # Nobody
  BY <1>1 DEF RowHeld, SumsFor, Transactions
<1>3. x \in Decisions => voucher[r] # "none"
  BY DEF SumsFor, LedgerInv, AnswerInv, TargetKnown, Target
<1>4. x \in Payments => voucher[r] = "none" /\ x = r
  BY DEF SumsFor, LedgerInv, AnswerInv, NothingYet, Working, Inserted
<1>5. Done \subseteq Done' /\ \A p \in Done \cup {r} : amount'[p] = amount[p]
  <2>1. ASSUME NEW p \in Payments, Commit(p)
        PROVE  Done \subseteq Done' /\ \A q \in Done \cup {r} : amount'[q] = amount[q]
    <3>1. /\ voucher[p] = "none" /\ amount' = amount
          /\ \E s \in Statuses : voucher' = [voucher EXCEPT ![p] = s]
      BY <2>1, CommitEffect DEF Statuses
    <3> QED BY <1>1, <3>1 DEF Receipts, TypeOK
  <2>2. CASE Quiet /\ \A p \in Payments : ~Commit(p)
    <3>1. amount'[r] = amount[r]
      <4>1. CASE x \in Decisions
        BY <1>3, <2>2, <4>1 DEF Quiet
      <4>2. CASE x \in Payments
        <5>1. phase'[r] = "summed"
          BY <1>4, <4>2 DEF SumsFor
        <5> QED BY <2>2, <5>1, LateSteps DEF Late, Working, Inserted
      <4> QED BY <4>1, <4>2 DEF Transactions
    <3> QED BY <2>2, <3>1 DEF Quiet, Receipts
  <2>3. ASSUME NEW d \in Decisions, Commits(d)
        PROVE  Done \subseteq Done' /\ \A p \in Done \cup {r} : amount'[p] = amount[p]
    <3> DEFINE t == Target(d)
    <3>1. /\ t \in Payments /\ voucher[t] = decision[d].status
          /\ decision[d].status \in Allowed(decision[d].op)
      BY <2>3, DecisionEffect DEF Raced
    <3>2. ~CommitApproval(d)
      BY <1>1, <1>2 DEF CommitApproval, At, End, Forget, FreeRow, RowHeld
    <3>3. CASE CommitVoid(d) \/ CommitReject(d)
      <4>1. voucher[t] # "completed"
        <5>1. CASE CommitVoid(d)
          BY <1>2, <5>1, VoidNeedsRow
        <5>2. CASE CommitReject(d)
          BY <3>1, <5>2 DEF CommitReject, Allowed
        <5> QED BY <3>3, <5>1, <5>2
      <4>2. amount' = amount /\ \E s \in Statuses : voucher' = [voucher EXCEPT ![t] = s]
        BY <3>3 DEF CommitVoid, CommitReject, SetStatus, Statuses
      <4> QED BY <1>1, <3>1, <4>1, <4>2 DEF Receipts, TypeOK
    <3>4. CASE CommitAmend(d)
      <4>1. voucher' = voucher /\ \E a \in Amounts : amount' = [amount EXCEPT ![t] = a]
        BY <3>4 DEF CommitAmend
      <4>2. voucher[t] # "completed" /\ voucher[t] # "none"
        BY <3>1, <3>4 DEF CommitAmend, Allowed
      <4>3. r # t
        <5>1. CASE x \in Payments
          BY <1>4, <4>2, <5>1
        <5>2. CASE x \in Decisions
          <6>1. Target(x) = r /\ decision[x].phase = "summed" /\ decision[d].phase = "started"
            BY <3>4, <5>2 DEF SumsFor, CommitAmend, At
          <6> QED BY <3>4, <5>2, <6>1 DEF CommitAmend, ReceiptLocked
        <5> QED BY <5>1, <5>2 DEF Transactions
      <4> QED BY <1>1, <3>1, <4>1, <4>2, <4>3 DEF Receipts, TypeOK
    <3> QED BY <2>3, <3>2, <3>3, <3>4 DEF Commits
  <2> QED BY <2>1, <2>2, <2>3, QuietSteps
<1>6. amount \in [Payments -> Nat] /\ amount' \in [Payments -> Nat]
  BY <1>1, NatAmounts DEF TypeOK
<1>7. Done \cup {r} \in SUBSET Payments /\ Done' \cup {r} \in SUBSET Payments
  BY DEF Receipts
<1>8. Done \cup {r} \subseteq Done' \cup {r} /\ \A p \in Done \cup {r} : amount[p] <= amount'[p]
  BY <1>5, <1>6, <1>7
<1>9. SumIn(amount, Done \cup {r}) <= SumIn(amount', Done' \cup {r})
  BY <1>6, <1>7, <1>8, SumMonotone
<1>10. SumIn(amount', Done' \cup {r}) \in Nat /\ SumIn(amount, Done \cup {r}) \in Nat
  BY <1>6, <1>7, SumNat
<1> QED BY <1>9, <1>10 DEF WithIt

LEMMA ClosingSteps ==
    ASSUME LedgerInv, LedgerInv', Priced, ReceivableAgrees, ClosingEarned, [Next]_vars
    PROVE  ClosingEarned'
<1> SUFFICES ASSUME marks' = {}
             PROVE  /\ noticed' => Paid' >= Total
                    /\ \A x \in closes' :
                          \E r \in Payments : SumsFor(x, r)' /\ WithIt(r)' >= Total
  BY DEF ClosingEarned
<1> USE RequestAssumption
<1>1. TypeOK /\ TypeOK' /\ Total \in Nat
  BY AmountAssumption DEF LedgerInv, LockInv
<1>2. marks = {}
  BY QuietSteps, DecisionEffect DEF Quiet, Commit
<1>3. /\ receivable = Paid
      /\ noticed => Paid >= Total
      /\ \A x \in closes : \E r \in Payments : SumsFor(x, r) /\ WithIt(r) >= Total
  BY <1>2 DEF ReceivableAgrees, ClosingEarned
<1>4. ASSUME NEW x \in closes'
      PROVE  \E r \in Payments : SumsFor(x, r)' /\ WithIt(r)' >= Total
  <2>1. x \in Transactions
    BY <1>1 DEF TypeOK
  <2>2. CASE x \in closes /\ \A r \in Payments : SumsFor(x, r) => SumsFor(x, r)'
    <3>1. PICK r \in Payments : SumsFor(x, r) /\ WithIt(r) >= Total
      BY <1>3, <2>2
    <3>2. WithIt(r) <= WithIt(r)' /\ WithIt(r) \in Nat /\ WithIt(r)' \in Nat
      BY <1>3, <2>1, <2>2, <3>1, SumNotLost
    <3> QED BY <1>1, <2>2, <3>1, <3>2
  <2>3. CASE /\ UNCHANGED <<voucher, amount>>
             /\ \E r \in Payments : SumsFor(x, r)' /\ WithIt(r) >= Total
    <3>1. \A r \in Payments : WithIt(r)' = WithIt(r)
      BY <2>3 DEF WithIt, Receipts
    <3> QED BY <2>3, <3>1
  <2> QED BY <1>3, <2>1, <2>2, <2>3, ClosesBefore
<1>5. ASSUME noticed' PROVE Paid' >= Total
  <2>1. CASE Quiet
    BY <1>1, <1>3, <1>5, <2>1, QuietKeeps DEF Quiet
  <2>2. ASSUME NEW p \in Payments, Commit(p) PROVE Paid' >= Total
    <3>1. CASE p \in closes
      <4>1. PICK r \in Payments : SumsFor(p, r) /\ WithIt(r) >= Total
        BY <1>3, <3>1
      <4>2. r = p /\ phase[p] = "summed"
        BY <4>1 DEF SumsFor
      <4>3. amount' = amount /\ voucher' = [voucher EXCEPT ![p] = "completed"]
        BY <2>2, <4>2 DEF Commit
      <4> QED BY <1>1, <4>1, <4>2, <4>3, ApprovedIsSummed
    <3>2. CASE p \notin closes
      BY <1>5, <2>2, <3>2 DEF Commit, Notice
    <3> QED BY <3>1, <3>2
  <2>3. ASSUME NEW d \in Decisions, Commits(d) PROVE Paid' >= Total
    <3>1. CASE d \in closes
      <4>1. PICK r \in Payments : SumsFor(d, r) /\ WithIt(r) >= Total
        BY <1>3, <3>1
      <4>2. r = Target(d) /\ decision[d].phase = "summed"
        BY <4>1 DEF SumsFor
      <4>3. CommitApproval(d)
        BY <2>3, <4>2 DEF Commits, CommitVoid, CommitReject, CommitAmend, At
      <4>4. amount' = amount /\ voucher' = [voucher EXCEPT ![r] = "completed"]
        BY <4>2, <4>3 DEF CommitApproval, SetStatus
      <4> QED BY <1>1, <4>1, <4>4, ApprovedIsSummed
    <3>2. CASE d \notin closes
      BY <1>5, <2>3, <3>2 DEF Commits, CommitApproval, CommitVoid, CommitReject, CommitAmend,
         Notice
    <3> QED BY <3>1, <3>2
  <2> QED BY <2>1, <2>2, <2>3, QuietSteps
<1> QED BY <1>4, <1>5

LEMMA BooksInvariant == Spec => [](Priced /\ ClosingEarned)
<1>1. Init => Priced /\ ClosingEarned
  BY DEF Init, Priced, ClosingEarned, Working, Inserted
<1>2. LedgerInv /\ LedgerInv' /\ ReceivableAgrees /\ Priced /\ ClosingEarned /\ [Next]_vars
      => Priced' /\ ClosingEarned'
  BY PricedSteps, ClosingSteps
<1> QED BY <1>1, <1>2, LedgerInvariant, ReceivableAgreesHolds, PTL DEF Spec

-----------------------------------------------------------------------------
(* The payments keep the ledger *)

(* The amounts as the ledger has them, and a sum of them over receipts that are
   there. *)
Worth == [p \in Payments |-> IF voucher[p] = "none" THEN 0 ELSE amount[p]]

LEMMA WorthSum ==
    ASSUME NEW v, NEW a, NEW s \in SUBSET Payments, \A p \in s : v[p] # "none"
    PROVE  SumIn([p \in Payments |-> IF v[p] = "none" THEN 0 ELSE a[p]], s) = SumIn(a, s)
<1> DEFINE w == [p \in Payments |-> IF v[p] = "none" THEN 0 ELSE a[p]]
<1>1. \A p \in s : w[p] = a[p]
  OBVIOUS
<1> HIDE DEF w
<1>2. SumIn(w, s) = SumIn(a, s)
  BY <1>1, SumSame
<1> QED BY <1>2 DEF w

(* What the ledger calls paid and waiting is what the payments do. *)
LEMMA LedgerSums ==
    /\ Ledger!Paid = Paid /\ Ledger!Waiting = Pending
    /\ Ledger!Paid' = Paid'
<1> DEFINE Of(v, s) == {p \in Payments : v[p] = s}
<1>1. ASSUME NEW v, NEW a, NEW s, s # "none"
      PROVE  SumIn([p \in Payments |-> IF v[p] = "none" THEN 0 ELSE a[p]], Of(v, s))
             = SumIn(a, Of(v, s))
  <2>1. Of(v, s) \in SUBSET Payments /\ \A p \in Of(v, s) : v[p] # "none"
    BY <1>1
  <2> HIDE DEF Of
  <2> QED BY <2>1, WorthSum
<1>2. ASSUME NEW s, s # "none"
      PROVE  /\ SumIn(Worth, {p \in Payments : voucher[p] = s})
                = SumIn(amount, {p \in Payments : voucher[p] = s})
             /\ SumIn(Worth', {p \in Payments : voucher'[p] = s})
                = SumIn(amount', {p \in Payments : voucher'[p] = s})
  BY <1>1, <1>2 DEF Worth
<1>3. "completed" # "none" /\ "pending" # "none"
  OBVIOUS
<1>4. /\ SumIn(Worth, {p \in Payments : voucher[p] = "completed"})
         = SumIn(amount, {p \in Payments : voucher[p] = "completed"})
      /\ SumIn(Worth', {p \in Payments : voucher'[p] = "completed"})
         = SumIn(amount', {p \in Payments : voucher'[p] = "completed"})
  BY <1>2, <1>3
<1>5. SumIn(Worth, {p \in Payments : voucher[p] = "pending"})
      = SumIn(amount, {p \in Payments : voucher[p] = "pending"})
  BY <1>2, <1>3
<1>6. Ledger!Paid = Paid /\ Ledger!Paid' = Paid'
  BY <1>4 DEF Ledger!Paid, Ledger!With, Worth, Paid, PaidIf
<1>7. Ledger!Waiting = Pending
  BY <1>5 DEF Ledger!Waiting, Ledger!With, Worth, Pending
<1> QED BY <1>6, <1>7

(* A receipt that is reported fits into what is still owed. *)
LEMMA LedgerReport ==
    ASSUME LedgerInv, LedgerInv', Priced, RoomKept, marks' = {}, NEW p \in Payments, Commit(p)
    PROVE  Ledger!Report(p)
<1>1. TypeOK /\ voucher[p] = "none" /\ amount' = amount
  BY CommitEffect DEF LedgerInv, LockInv
<1>2. phase[p] \in Late /\ phase[p] \in Working /\ p \notin blind /\ marks = {}
  BY DEF Commit, Mark, Late, Working, Inserted
<1>3. amount[p] \in Amounts /\ Paid + Pending + amount[p] <= Total
  BY <1>1, <1>2, LiveIsBoth DEF Priced, RoomKept
<1>4. \E s \in {"pending", "completed"} : voucher' = [voucher EXCEPT ![p] = s]
  BY CommitEffect
<1>5. voucher'[p] # "none" /\ \A q \in Payments \ {p} : voucher'[q] = voucher[q]
  BY <1>1, <1>4 DEF TypeOK
<1>6. Worth' = [Worth EXCEPT ![p] = amount[p]]
  BY <1>1, <1>5 DEF Worth
<1> QED BY <1>1, <1>3, <1>4, <1>6, LedgerSums DEF Ledger!Report, Ledger!Become, Worth

(* A decision that nothing overtook decides the receipt as it is. *)
LEMMA LedgerDecides ==
    ASSUME LedgerInv, LedgerInv', Priced, marks' = {}, NEW d \in Decisions, Commits(d)
    PROVE  \E r \in Payments :
              Ledger!Approve(r) \/ Ledger!Reject(r) \/ Ledger!Void(r) \/ Ledger!Amend(r)
<1> DEFINE t == Target(d)
<1>1. /\ TypeOK /\ t \in Payments /\ voucher[t] # "none"
      /\ voucher[t] = decision[d].status /\ voucher[t] \in Allowed(decision[d].op)
  BY DecisionEffect DEF Raced, LedgerInv, LockInv
<1>2. ASSUME amount' = amount, NEW s \in Statuses, voucher' = [voucher EXCEPT ![t] = s]
      PROVE  Worth' = Worth
  BY <1>1, <1>2 DEF Worth, Statuses, TypeOK
<1>3. ASSUME CommitApproval(d) PROVE Ledger!Approve(t)
  <2>1. voucher[t] = "pending"
    BY <1>1, <1>3, DecisionEffect DEF CommitApproval, CommitVoid, CommitReject, CommitAmend, At,
       LedgerInv, ShapeInv, WellTaken, Books, Allowed
  <2>2. amount' = amount /\ voucher' = [voucher EXCEPT ![t] = "completed"]
    BY <1>3 DEF CommitApproval, SetStatus
  <2>3. Worth' = Worth
    BY <1>2, <2>2 DEF Statuses
  <2> QED BY <2>1, <2>2, <2>3 DEF Ledger!Approve, Ledger!Become, Worth
<1>4. ASSUME CommitReject(d) PROVE Ledger!Reject(t)
  <2>1. voucher[t] = "pending"
    BY <1>1, <1>4 DEF CommitReject, Allowed
  <2>2. amount' = amount /\ voucher' = [voucher EXCEPT ![t] = "rejected"]
    BY <1>4 DEF CommitReject, SetStatus
  <2>3. Worth' = Worth
    BY <1>2, <2>2 DEF Statuses
  <2> QED BY <2>1, <2>2, <2>3 DEF Ledger!Reject, Ledger!Become, Worth
<1>5. ASSUME CommitVoid(d) PROVE Ledger!Void(t)
  <2>1. voucher[t] \in {"pending", "completed", "rejected"}
    BY <1>1, <1>5 DEF CommitVoid, Allowed
  <2>2. amount' = amount /\ voucher' = [voucher EXCEPT ![t] = "cancelled"]
    BY <1>5 DEF CommitVoid, SetStatus
  <2>3. Worth' = Worth
    BY <1>2, <2>2 DEF Statuses
  <2> QED BY <2>1, <2>2, <2>3 DEF Ledger!Void, Ledger!Become, Worth
<1>6. ASSUME CommitAmend(d) PROVE Ledger!Amend(t)
  <2>1. voucher[t] \in {"pending", "rejected", "cancelled"} /\ voucher' = voucher
    BY <1>1, <1>6 DEF CommitAmend, Allowed
  <2>2. PICK a \in Amounts : /\ amount' = [amount EXCEPT ![t] = a]
                             /\ ~(a > amount[t])
    BY <1>6 DEF CommitAmend, Mark
  <2>3. a \in Nat /\ amount[t] \in Nat
    BY <1>1, AmountsAreNat, AmountAssumption
  <2>4. a <= Worth[t]
    BY <1>1, <2>2, <2>3 DEF Worth
  <2>5. Worth' = [Worth EXCEPT ![t] = a]
    BY <1>1, <2>1, <2>2 DEF Worth, TypeOK
  <2> QED BY <2>1, <2>4, <2>5 DEF Ledger!Amend, Worth
<1>7. Ledger!Approve(t) \/ Ledger!Reject(t) \/ Ledger!Void(t) \/ Ledger!Amend(t)
  BY <1>3, <1>4, <1>5, <1>6 DEF Commits
<1> QED BY <1>1, <1>7 DEF Ledger!Approve, Ledger!Reject, Ledger!Void, Ledger!Amend

LEMMA LedgerSteps ==
    ASSUME LedgerInv, LedgerInv', Priced, RoomKept, ReceivableAgrees', SumStands',
           ClosingEarned', [Next]_vars
    PROVE  [Ledger!Next]_(Ledger!ledger)
<1>1. CASE marks' # {}
  BY <1>1 DEF Ledger!Next, Ledger!GoWrong
<1>2. CASE marks' = {}
  <2>1. marks = {}
    BY <1>2, QuietSteps, DecisionEffect DEF Quiet, Commit
  <2>2. TypeOK' /\ receivable' = Paid' /\ (noticed' <=> Paid' >= Total)
    BY <1>2 DEF ReceivableAgrees, SumStands, ClosingEarned, LedgerInv, LockInv
  <2>3. Ledger!BooksFollow
    BY <2>2, LedgerSums DEF Ledger!BooksFollow, TypeOK
  <2>4. CASE Quiet
    <3>1. Worth' = Worth
      BY <2>4 DEF Quiet, Worth
    <3> QED BY <2>4, <3>1 DEF Quiet, Ledger!ledger, Worth
  <2>5. CASE (\E p \in Payments : Commit(p)) \/ (\E d \in Decisions : Commits(d))
    <3>1. \E r \in Payments : \/ Ledger!Report(r) \/ Ledger!Approve(r) \/ Ledger!Reject(r)
                              \/ Ledger!Void(r) \/ Ledger!Amend(r)
      BY <1>2, <2>5, LedgerReport, LedgerDecides
    <3> QED BY <1>2, <2>1, <2>3, <3>1 DEF Ledger!Next, Ledger!Keep
  <2> QED BY <2>4, <2>5, QuietSteps
<1> QED BY <1>1, <1>2

(* Payments and decisions on a contract, however they interleave and whatever
   happens to Redis, do to its receipts, its receivable and its closing what the
   steps of the ledger do, one at a time, each on the books as they are when it
   commits: until a request acts on something that was no longer so
   (_record_payment_transaction, approve_cashflow, reject_cashflow, void_cashflow,
   update_cashflow). *)
THEOREM PaymentsKeepLedger == Spec => ImplementsLedger
<1>1. Init => Ledger!Init
  <2> SUFFICES ASSUME Init PROVE Ledger!Init
    OBVIOUS
  <2>1. Worth = [p \in Payments |-> 0]
    BY DEF Init, Worth
  <2> QED BY <2>1 DEF Init, Ledger!Init, Worth
<1>2. /\ LedgerInv /\ LedgerInv' /\ Priced /\ RoomKept /\ ReceivableAgrees' /\ SumStands'
      /\ ClosingEarned' /\ [Next]_vars
      => [Ledger!Next]_(Ledger!ledger)
  BY LedgerSteps
<1> QED BY <1>1, <1>2, LedgerInvariant, RoomInvariant, ReceivableAgreesHolds, SumInvariant,
           BooksInvariant, PTL DEF Spec, ImplementsLedger, Ledger!Spec

-----------------------------------------------------------------------------
(* What the ledger promises *)

Owed(v, w) == SumIn(w, {r \in Payments : v[r] \in Open})
Known(v, w) == v \in [Payments -> Statuses \cup {"none"}] /\ w \in [Payments -> Nat]

LEMMA OwedIsBoth ==
    ASSUME NEW v, NEW w \in [Payments -> Nat]
    PROVE  /\ SumIn(w, {r \in Payments : v[r] = "completed"}) \in Nat
           /\ SumIn(w, {r \in Payments : v[r] = "pending"}) \in Nat
           /\ Owed(v, w) = SumIn(w, {r \in Payments : v[r] = "completed"})
                           + SumIn(w, {r \in Payments : v[r] = "pending"})
<1> DEFINE Of(s) == {r \in Payments : v[r] = s}
<1>1. /\ {r \in Payments : v[r] \in Open} = Of("completed") \cup Of("pending")
      /\ Of("completed") \cap Of("pending") = {}
      /\ Of("completed") \in SUBSET Payments /\ Of("pending") \in SUBSET Payments
  BY DEF Open
<1> HIDE DEF Of
<1>2. SumIn(w, Of("completed")) \in Nat /\ SumIn(w, Of("pending")) \in Nat
      /\ SumIn(w, Of("completed") \cup Of("pending"))
         = SumIn(w, Of("completed")) + SumIn(w, Of("pending"))
  BY <1>1, SumNat, SumSplit
<1> QED BY <1>1, <1>2 DEF Owed, Of

(* Only a report adds to what is owed, and it finds the room. *)
LEMMA KeepsRoom ==
    ASSUME Known(voucher, Worth), Owed(voucher, Worth) <= Total, Ledger!Keep
    PROVE  Known(voucher', Worth') /\ Owed(voucher', Worth') <= Total
<1> DEFINE Set == {r \in Payments : voucher[r] \in Open}
           Next1 == {r \in Payments : voucher'[r] \in Open}
<1> USE DEF Known
<1>1. PICK r \in Payments : \/ Ledger!Report(r) \/ Ledger!Approve(r) \/ Ledger!Reject(r)
                            \/ Ledger!Void(r) \/ Ledger!Amend(r)
  BY DEF Ledger!Keep
<1>2. Set \in SUBSET Payments /\ Next1 \in SUBSET Payments /\ Total \in Nat
  BY AmountAssumption
<1>3. CASE Ledger!Report(r)
  <2>1. PICK a \in Amounts : /\ Worth' = [Worth EXCEPT ![r] = a]
                             /\ Ledger!Paid + Ledger!Waiting + a <= Total
    BY <1>3 DEF Ledger!Report, Worth
  <2>2. a \in Nat
    BY AmountAssumption
  <2>3. Known(voucher', Worth')
    BY <1>3, <2>1, <2>2 DEF Ledger!Report, Ledger!Become, Statuses
  <2>4. Next1 = Set \cup {r} /\ r \in Payments \ Set
    BY <1>3 DEF Ledger!Report, Ledger!Become, Open
  <2>5. SumIn(Worth', Set) = SumIn(Worth, Set)
    <3>1. \A q \in Set : Worth'[q] = Worth[q]
      BY <2>1, <2>4
    <3> QED BY <3>1, SumSame
  <2>6. SumIn(Worth', Set \cup {r}) = SumIn(Worth', Set) + Worth'[r]
    BY <1>2, <2>3, <2>4, SumAdd
  <2>7. Owed(voucher, Worth) = Ledger!Paid + Ledger!Waiting
    BY OwedIsBoth DEF Ledger!Paid, Ledger!Waiting, Ledger!With, Worth
  <2>8. Worth'[r] = a
    BY <2>1
  <2>9. Owed(voucher', Worth') = Owed(voucher, Worth) + a
    BY <2>4, <2>5, <2>6, <2>8 DEF Owed
  <2> QED BY <2>1, <2>3, <2>7, <2>9
<1>4. CASE \/ Ledger!Approve(r) \/ Ledger!Reject(r) \/ Ledger!Void(r) \/ Ledger!Amend(r)
  <2>1. Known(voucher', Worth') /\ Next1 \subseteq Set /\ \A q \in Payments : Worth'[q] <= Worth[q]
    <3>1. CASE Ledger!Amend(r)
      <4>1. PICK a \in Amounts : a <= Worth[r] /\ Worth' = [Worth EXCEPT ![r] = a]
        BY <3>1 DEF Ledger!Amend, Worth
      <4>2. a \in Nat
        BY AmountAssumption
      <4> QED BY <3>1, <4>1, <4>2 DEF Ledger!Amend
    <3>2. ASSUME NEW s \in Statuses, voucher' = [voucher EXCEPT ![r] = s], Worth' = Worth,
                 s \in Open => voucher[r] \in Open
          PROVE  Known(voucher', Worth') /\ Next1 \subseteq Set
                 /\ \A q \in Payments : Worth'[q] <= Worth[q]
      BY <3>2
    <3>3. CASE Ledger!Approve(r)
      BY <3>2, <3>3 DEF Ledger!Approve, Ledger!Become, Worth, Statuses, Open
    <3>4. CASE Ledger!Reject(r)
      BY <3>2, <3>4 DEF Ledger!Reject, Ledger!Become, Worth, Statuses, Open
    <3>5. CASE Ledger!Void(r)
      BY <3>2, <3>5 DEF Ledger!Void, Ledger!Become, Worth, Statuses, Open
    <3> QED BY <1>4, <3>1, <3>3, <3>4, <3>5
  <2>2. SumIn(Worth', Next1) <= SumIn(Worth, Set)
    <3>1. \A q \in Next1 : Worth'[q] <= Worth[q]
      BY <2>1
    <3> QED BY <1>2, <2>1, <3>1, SumMonotone
  <2>3. SumIn(Worth', Next1) \in Nat /\ SumIn(Worth, Set) \in Nat
    BY <1>2, <2>1, SumNat
  <2> QED BY <1>2, <2>1, <2>2, <2>3 DEF Owed
<1> QED BY <1>1, <1>3, <1>4

(* The ledger by itself keeps its books: what is approved or waits stays within
   the value of the contract, the receivable is what is approved, and the contract
   knows that it is paid exactly when it is, although a void takes back and an
   amendment lowers what was reported. *)
THEOREM LedgerBalances == Ledger!Spec => []Ledger!Balanced
<1> DEFINE Sound == marks # {} \/ (/\ Known(voucher, Worth)
                                   /\ Owed(voucher, Worth) <= Total
                                   /\ receivable = Ledger!Paid
                                   /\ noticed <=> Ledger!Paid >= Total)
<1>1. Ledger!Init => Sound
  <2> SUFFICES ASSUME Ledger!Init PROVE Sound
    OBVIOUS
  <2>1. /\ voucher = [p \in Payments |-> "none"] /\ Worth = [p \in Payments |-> 0]
        /\ receivable = 0 /\ noticed = FALSE
    BY DEF Ledger!Init, Worth
  <2>2. {p \in Payments : voucher[p] = "completed"} = {}
        /\ {p \in Payments : voucher[p] \in Open} = {}
    BY <2>1 DEF Open
  <2>3. SumIn(Worth, {}) = 0
    BY SumIsUnits, FS_EmptySet DEF Units
  <2>4. Ledger!Paid = 0 /\ Owed(voucher, Worth) = 0
    BY <2>2, <2>3 DEF Ledger!Paid, Ledger!With, Worth, Owed
  <2> QED BY <2>1, <2>4, AmountAssumption DEF Known
<1>2. Sound /\ [Ledger!Next]_(Ledger!ledger) => Sound'
  <2> SUFFICES ASSUME Sound, [Ledger!Next]_(Ledger!ledger), marks' = {} PROVE Sound'
    OBVIOUS
  <2>1. CASE UNCHANGED Ledger!ledger
    BY <2>1 DEF Ledger!ledger, Worth, Ledger!Paid, Ledger!With
  <2>2. CASE Ledger!Keep
    <3>1. marks = {} /\ Ledger!BooksFollow
      BY <2>2 DEF Ledger!Keep
    <3>2. Known(voucher', Worth') /\ Owed(voucher', Worth') <= Total
      BY <2>2, <3>1, KeepsRoom
    <3> QED BY <3>1, <3>2 DEF Ledger!BooksFollow
  <2> QED BY <2>1, <2>2 DEF Ledger!Next, Ledger!GoWrong
<1>3. Sound => Ledger!Balanced
  BY OwedIsBoth DEF Known, Ledger!Balanced, Ledger!Paid, Ledger!Waiting, Ledger!With, Worth
<1> QED BY <1>1, <1>2, <1>3, PTL DEF Ledger!Spec

(* So do the payments of a contract, until a mark is set: a receivable above or
   below the approved receipts, an amount over the value of the contract, a
   closing tried too early or missed each take a request that acted on something
   stale (payments.py, finance.py). *)
THEOREM LedgerBalancedHolds == Spec => []Ledger!Balanced
  BY PaymentsKeepLedger, LedgerBalances, PTL DEF ImplementsLedger

=============================================================================
