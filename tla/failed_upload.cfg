SPECIFICATION Spec
CONSTANTS
    Hashes = {hash}
    NoHash = none
    Requests = {1}
    Free = free
    Pruner = pruner
    Kinds = {"upload", "signed"}
    MaxRestarts = 0
INVARIANTS
    DroppedIsUnreferenced
