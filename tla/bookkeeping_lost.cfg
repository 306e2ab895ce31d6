SPECIFICATION Spec
CONSTANTS
    Agents = {agent}
    NoAgent = nobody
    Deployments = {1}
    DeviceOf <- SharedDevice
    Lead = 1
    expiryGuardLead = 1
    refreshProfileValidity = 2
    Retention = 0
    refreshMaxAttempts = 1
    manualMaxAttempts = 1
    OddExpiries = {}
    Horizon = 2
    MaxManual = 0
CHECK_DEADLOCK FALSE
INVARIANTS
    BookkeepingNeverLost
