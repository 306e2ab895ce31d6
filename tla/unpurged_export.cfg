SPECIFICATION Spec
CONSTANTS
    Agents = {worker}
    NoAgent = nobody
    Requests = {1, 2}
    Worker = worker
    ExportBudget = 2
INVARIANTS
    FailedJobIsRecreated
CHECK_DEADLOCK FALSE
