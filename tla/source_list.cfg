SPECIFICATION FairSpec
CONSTANTS
    URLs = {feed, repo}
    Defaults = {}
    Feeds = {feed}
    Ids = {1}
    Discovered = discovered
    Operators = {operator}
    Mirror = mirror
    Readers = {reader}
    MaxRestarts = 2
INVARIANTS
    SeenSourcesAreKept
    DeletedStaysDeleted
PROPERTIES
    CatalogForgets
