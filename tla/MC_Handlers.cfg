\* Overlapping handlers of one function over one connection, with crashes.
SPECIFICATION LiveSpec
CONSTANTS
    Names <- OneFunction
    Specs <- TwoVersions
    Threads = {t1, t2}
    ContainerIds = {c1, c2}
    MaxRequests = 3
    Null = Null
INVARIANTS
    VerdictIsOwn
    IdsStayValid
    StoreInv
PROPERTIES
    HandlersReply
    ImplementsStore
