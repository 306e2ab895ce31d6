SPECIFICATION FairSpec
CONSTANTS
    Hashes = {hash}
    NoHash = none
    Requests = {1, 2}
    Free = free
    Pruner = pruner
    Kinds = {"upload", "signed", "import"}
    MaxRestarts = 1
INVARIANTS
    LockedRowsNameFiles
    OrphansHaveCause
PROPERTIES
    RetentionCompletes
