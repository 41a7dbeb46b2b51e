SPECIFICATION Spec
CONSTANTS
    Files = 3
    Always <- MCAlways
    MaxRelease = 3
    InterruptRecovery = FALSE
INVARIANTS TypeOK TitleStarts JournalIsReported
PROPERTIES UpdateIsAtomic UpdateEnds
