CONSTANTS
    p1 = p1
    p2 = p2
    d1 = d1
    d2 = d2
    contract = contract
    step = step
    Nobody = nobody
    Payments = {p1, p2}
    Decisions = {d1}
    Keys = {contract, step}
    ContractKey = contract
    Amounts = {1}
    Total = 1
    t1 = t1  u1 = u1  NoUser = NoUser
    Tabs = {t1}
    Users = {u1}
    MaxRows = 2
    Calls = {1}
    Attempts = 2
    SessionScenes <- MCScenes
SPECIFICATION EndsSpec
CHECK_DEADLOCK FALSE
PROPERTIES EveryRequestEnds StartupSettles
