SPECIFICATION Spec
CONSTANTS
    Agent = agent
    Workers = {w1}
    Static = {home}
    Dynamic = {extra}
    MaxChanges = 3
    MaxTrouble = 2
INVARIANTS
    TypeOK
    AnsweredKept
PROPERTIES
    NeverBack
    WorkersConverge
    CalledOnce
CHECK_DEADLOCK FALSE
