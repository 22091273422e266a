\* Two functions, two request threads, three calls between restarts.
SPECIFICATION Spec
CONSTANTS
    Names <- TwoFunctions
    Specs <- TwoSpecs
    Threads = {t1, t2}
    ContainerIds = {c1, c2}
    Ports = {p1, p2}
    kReadinessAttempts = 2
    MaxRequests = 3
    Null = Null
SYMMETRY Symmetry
INVARIANTS
    TypeOK
    NoUntracked
    TableIsLive
    SingleStart
    PostsReachOwn
    MetricsConserve
    ColdStartsReported
    BusyHasCaller
    RetryElsewhere
    IndInv
PROPERTY
    ImplementsPool
