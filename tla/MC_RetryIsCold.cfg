\* Two warm calls of a dead runtime: one retry creates the new one, the other
\* finds it.
SPECIFICATION StepSpec
CONSTANTS
    Names <- OneFunction
    Specs <- OneSpec
    Threads = {t1, t2}
    ContainerIds = {c1, c2}
    Ports = {p1, p2}
    kReadinessAttempts = 1
    MaxRequests = 3
    Null = Null
SYMMETRY Symmetry
INVARIANT
    RetryIsCold
