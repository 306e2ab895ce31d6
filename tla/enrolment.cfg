SPECIFICATION FairSpec
CONSTANTS
    Tokens = {"old", "new", "spare"}
    Legacy = {"old"}
    NoToken = none
    Workers = {worker}
    Gone = gone
    Signing = {worker}
    AgentIds = {1, 2, 3}
    NoAgent = none
    Torn = torn
    Handlers = {h1, h2}
    Free = free
    Roles = {"device_agent", "signing_worker"}
    MaxFaults = 2
INVARIANTS
    TypeOK
    OneAgentPerToken
    RunningKeysWork
PROPERTIES
    WorkersServe
    LostAgentsGoOffline
