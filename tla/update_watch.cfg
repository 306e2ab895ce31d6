SPECIFICATION WatchSpec
CONSTANTS
    Sources = {s1, s2, s3}
    NoSource = none
    Versions <- MCVersions
    MaxDate = 2
INVARIANTS
    WatchTypeOK
    OffersAreNewest
    OnlyNewerSurfaces
