CONSTANTS
    p1 = p1
    p2 = p2
    d1 = d1
    d2 = d2
    contract = contract
    step = step
    Nobody = nobody
    Payments = {p1, p2}
    Decisions = {d1, d2}
    Keys = {contract, step}
    ContractKey = contract
    Amounts = {1, 2}
    Total = 2
SPECIFICATION Spec
PROPERTIES RowProtects ImplementsLedger
INVARIANTS LockHeld AnswerTrue NotOverpaid ReceivableAgrees FullPaymentNoticed
CHECK_DEADLOCK FALSE
CONSTRAINT OneMishap
SYMMETRY Alike
