\* A warm call whose connection breaks after it was accepted.
SPECIFICATION StepSpec
CONSTANTS
    Names <- OneFunction
    Specs <- OneSpec
    Threads = {t1}
    ContainerIds = {c1, c2}
    Ports = {p1, p2}
    kReadinessAttempts = 1
    MaxRequests = 2
    Null = Null
INVARIANT
    RetryOnlyUnreached
