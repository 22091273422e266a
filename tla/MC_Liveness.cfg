\* Fair behaviours without restarts: f has a timeout, g has none.
SPECIFICATION LiveSpec
CONSTANTS
    Names <- TwoFunctions
    Specs <- TwoSpecs
    Threads = {t1, t2}
    ContainerIds = {c1, c2}
    Ports = {p1, p2}
    kReadinessAttempts = 2
    MaxRequests = 2
    Null = Null
PROPERTIES
    CallsComplete
    ScaleToZero
