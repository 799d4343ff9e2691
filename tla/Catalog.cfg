CONSTANTS
    Url = {u1}    DefaultUrls = {u1}    Id = {i1}
    Unknown = Unknown    Waiting = Waiting    Offline = Offline    Failed = Failed
    MaxVersion = 2    MaxFetches = 3    MaxMishaps = 3
SPECIFICATION Spec
CHECK_DEADLOCK FALSE
INVARIANTS OffersResolve FetchingIsUnderWay
PROPERTY ManifestKept
