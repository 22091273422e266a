\* Two clock values and two runs per process: names repeat after a restart.
SPECIFICATION Spec
CONSTANTS
    Images <- SomeImages
    SafeChars = {"a"}
    ClockWrap = 2
    MaxRuns = 2
    Null = Null
INVARIANTS
    NoStrays
    BackendInv
PROPERTIES
    DeletesOwnPod
    ImplementsBackend
