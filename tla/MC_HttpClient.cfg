\* Two units of headers and two of body, with and without a timeout.
SPECIFICATION LiveSpec
CONSTANTS
    RequestSize = 2
    HeaderSize = 2
    ResponseSize = 4
    Timeouts = {0, 2}
INVARIANTS
    OutcomesExclusive
    WholeResponseDelivered
    ClientInv
PROPERTY
    RequestEnds
