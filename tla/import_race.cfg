SPECIFICATION Spec
CONSTANTS
    Hashes = {hash}
    NoHash = none
    Requests = {1, 2}
    Free = free
    Pruner = pruner
    Kinds = {"upload", "signed", "import"}
    MaxRestarts = 0
INVARIANTS
    RowsNameFiles
