SPECIFICATION Spec
CONSTANTS
    Agents = {deviceService, signingWorker}
    NoAgent = nobody
    DeviceService = deviceService
    SigningWorker = signingWorker
    UpdateChoices = {TRUE, FALSE}
    RefreshBudget = 2
    SignBudget = 1
    InstallBudget = 2
    MaxSigned = 2
CHECK_DEADLOCK FALSE
INVARIANTS
    TypeOK
    TerminalRefreshHasCause
PROPERTIES
    CompletedSignIsReused
