CONSTANTS
    k02 = k02
    k03 = k03
    k06 = k06
    none = none
    survey = survey
    Nodes <- MCNodes
    StartNode = k02
    NoNode = none
    Succ <- MCSucc
    DefaultNext <- MCDefaultNext
    Code <- MCCode
    Depts = {survey}
    Dept <- MCDept
    NodeRoles <- MCNodeRoles
    HandoverNode = k06
    FieldNodes = {k02}
    PauseNodes = {k03}
    DocNodes = {k03}
    ChecklistNodes = {k03, k06}
    PayNodes = {k03}
    SurveyNode = none
    MaxAttempts = 2
    MaxRequests = 1
SPECIFICATION Spec
INVARIANT CancelIsTerminal
CHECK_DEADLOCK FALSE
