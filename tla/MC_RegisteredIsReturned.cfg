\* Two deploys of one name.
SPECIFICATION StepSpec
CONSTANTS
    Names <- OneFunction
    Specs <- TwoVersions
    Threads = {t1, t2}
    ContainerIds = {c1, c2}
    MaxRequests = 2
    Null = Null
INVARIANT
    RegisteredIsReturned
