CONSTANTS
    k02 = k02
    n04 = n04
    k07 = k07
    none = none
    office = office
    Nodes <- MCNodes
    StartNode = k02
    NoNode = none
    Succ <- MCSucc
    DefaultNext <- MCDefaultNext
    Code <- MCCode
    Depts = {office}
    Dept <- MCDept
    NodeRoles <- MCNodeRoles
    HandoverNode = none
    FieldNodes = {}
    PauseNodes = {}
    DocNodes = {}
    ChecklistNodes = {}
    PayNodes = {}
    SurveyNode = none
    MaxAttempts = 1
    MaxRequests = 1
SPECIFICATION Spec
PROPERTY OnlyRollbackUndoes
CHECK_DEADLOCK FALSE
