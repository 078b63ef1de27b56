SPECIFICATION FairHintsSpec
CONSTANTS
    NodeIds = {1, 2, 3, 4, 5}
    Graphs <- MCGraphs
    Retries = 1
    MaxVisits = 2
    MaxSteps = 5
INVARIANTS
    TypeOK
    QuietRunReachesEnd
    EffectsBounded
    HintsPredictRuns
PROPERTIES
    RunsClose
CHECK_DEADLOCK FALSE
