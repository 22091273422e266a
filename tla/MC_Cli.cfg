\* Every short command line, with one other command beside it.
SPECIFICATION Spec
CONSTANTS
    Runs = {1, 2}
    CommandLines <- TwoRuns
    IntMax = 131071
    IdleTimeoutEnv = 30000
    Null = Null
INVARIANTS
    CliInv
    ExitTruthful
    DeployedAsTyped
    AbortChangesNothing
CHECK_DEADLOCK FALSE
