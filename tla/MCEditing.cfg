SPECIFICATION Spec
CONSTANTS
    Processes = {left, right}
    MaxEdits = 1
    MaxVersions = 2
    MaxRollbacks = 2
    MaxTests = 1
SYMMETRY Alike
INVARIANTS
    SomeCurrentVersion
    GraphsWhole
    ReadyWasTested
    NoDeadlock
CHECK_DEADLOCK FALSE
