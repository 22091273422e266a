\* A delete that overtakes an invocation.
SPECIFICATION StepSpec
CONSTANTS
    Names <- OneFunction
    Specs <- TwoVersions
    Threads = {t1, t2}
    ContainerIds = {c1, c2}
    MaxRequests = 3
    Null = Null
INVARIANT
    DeletedHasNoRuntime
