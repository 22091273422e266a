\* Two connections; stop() may come at any moment or never.
SPECIFICATION LiveSpec
CONSTANTS
    Words <- ApiWords
    MaxSegments = 4
    Conns = {k1, k2}
    Requests <- SomeRequests
    HeaderLimit = 2
    MaxExtra = 1
    Null = Null
CHECK_DEADLOCK FALSE
INVARIANTS
    ServerInv
    BodyAsSent
    NoSilentClose
    RoutesAgree
PROPERTIES
    ConnectionsEnd
    ListenReturns
