SPECIFICATION Spec
CONSTANTS
    MaxItem = 1
    MaxResp = 3
    Configs <- ClientConfigs
    MaxOps = 3
    MaxDeltas = 1
INVARIANTS
    RuntimeMatchesPhase
    OpenHasCloser
    OnlyBargeInRaces
PROPERTIES
    ImplementsLifecycle
CONSTRAINT Healthy
CHECK_DEADLOCK FALSE
