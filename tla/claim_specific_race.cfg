SPECIFICATION Spec
CONSTANTS
    service = service
    agent = agent
    worker = worker
    nobody = nobody
    Agents = {service, agent}
    NoAgent = nobody
    Keys = {1}
    NoKey = 0
    Devices = {1}
    NoDevice = 0
    JobType <- OneInstallType
    JobDevice <- OneInstallDevice
    MaxAttempts <- OneInstallBudget
    Role <- RoleOf
    LocalService = service
    Calls = {1, 2}
    RequeueCap = 3
CHECK_DEADLOCK FALSE
PROPERTIES
    ClaimsAreStable
