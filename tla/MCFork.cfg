CONSTANTS
    k06 = k06
    k07 = k07
    k08 = k08
    none = none
    office = office
    Nodes <- MCNodes
    StartNode = k06
    NoNode = none
    Succ <- MCSucc
    DefaultNext <- MCDefaultNext
    Code <- MCCode
    Depts = {office}
    Dept <- MCDept
    NodeRoles <- MCNodeRoles
    HandoverNode = k06
    FieldNodes = {k08}
    PauseNodes = {}
    DocNodes = {}
    ChecklistNodes = {k06}
    PayNodes = {}
    SurveyNode = k08
    MaxAttempts = 2
    MaxRequests = 1
SPECIFICATION Spec
INVARIANT WorkIsStaffed
PROPERTY MoneyBeforeClose
CHECK_DEADLOCK FALSE
