SPECIFICATION Spec
CONSTANTS
    URLs = {feed, repo}
    Defaults = {}
    Feeds = {feed}
    Ids = {1}
    Discovered = discovered
    Operators = {operator}
    Mirror = mirror
    Readers = {}
    MaxRestarts = 1
INVARIANTS
    DeletedFeedsAreGone
