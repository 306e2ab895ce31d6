SPECIFICATION Spec
CONSTANTS
    Agents = {deviceService, signingWorker}
    NoAgent = nobody
    DeviceService = deviceService
    SigningWorker = signingWorker
    UpdateChoices = {TRUE}
    RefreshBudget = 2
    SignBudget = 2
    InstallBudget = 2
    MaxSigned = 2
CHECK_DEADLOCK FALSE
INVARIANTS
    CompletedNamesInstalled
