SPECIFICATION FairSpec
CONSTANTS
    Agents = {worker}
    NoAgent = nobody
    Requests = {1, 2}
    Worker = worker
    ExportBudget = 2
INVARIANTS
    JudgedRowsStayBroken
    FailsAfterSecondTry
    LostOnlyToOthers
PROPERTIES
    ExportSettles
CHECK_DEADLOCK FALSE
