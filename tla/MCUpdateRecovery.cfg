SPECIFICATION Spec
CONSTANTS
    Files = 3
    Always <- MCAlways
    MaxRelease = 2
    InterruptRecovery = TRUE
INVARIANTS TitleStarts
