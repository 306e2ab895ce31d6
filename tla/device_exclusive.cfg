SPECIFICATION Spec
CONSTANTS
    service = service
    agent = agent
    worker = worker
    nobody = nobody
    Agents = {service, agent}
    NoAgent = nobody
    Keys = {1, 2}
    NoKey = 0
    Devices = {1}
    NoDevice = 0
    JobType <- InstallTypes
    JobDevice <- InstallDevices
    MaxAttempts <- InstallBudgets
    Role <- RoleOf
    LocalService = service
    Calls = {1}
    RequeueCap = 2
CHECK_DEADLOCK FALSE
INVARIANTS
    DeviceExclusive
