SPECIFICATION Spec
CONSTANTS
    Agents = {agent}
    NoAgent = nobody
    Deployments = {1}
    DeviceOf <- SharedDevice
    Lead = 1
    expiryGuardLead = 0
    refreshProfileValidity = 2
    Retention = 0
    refreshMaxAttempts = 1
    manualMaxAttempts = 2
    OddExpiries = {1, 2}
    Horizon = 1
    MaxManual = 1
CHECK_DEADLOCK FALSE
INVARIANTS
    TypeOK
    CompletedCycleIsOver
    AttentionIsJustified
PROPERTIES
    OnlyExhaustedCyclesRestart
