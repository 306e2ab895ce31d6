SPECIFICATION Spec
CONSTANTS
    Hashes = {hash}
    NoHash = none
    Requests = {1}
    Free = free
    Pruner = pruner
    Kinds = {"signed"}
    MaxRestarts = 0
INVARIANTS
    RemovalIsRaceFree
