SPECIFICATION Spec
CONSTANTS
    Agents = {agent}
    NoAgent = nobody
    Deployments = {1}
    DeviceOf <- SharedDevice
    Lead = 1
    expiryGuardLead = 0
    refreshProfileValidity = 2
    Retention = 0
    refreshMaxAttempts = 2
    manualMaxAttempts = 2
    OddExpiries = {}
    Horizon = 1
    MaxManual = 1
CHECK_DEADLOCK FALSE
PROPERTIES
    TerminalCyclesAreKept
