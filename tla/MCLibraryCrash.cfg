SPECIFICATION MCSpec
CONSTANTS
    w1 = w1
    w2 = w2
    t1 = t1
    t2 = t2
    k1 = k1
    k2 = k2
    NoOne = NoOne
    Systems <- MCSystems
    Database <- MCDatabase
    Cores = {"swanstation", "scummvm"}
    Stands <- MCStands
    Runs <- MCRuns
    Style <- MCStyle
    Files <- MCFiles
    Name <- MCName
    Kind <- MCKind
    Stem <- MCStem
    Title <- MCTitle
    Lists <- MCLists
    History = "history"
    Plans <- MCPlans
INVARIANT EntriesFollow
CHECK_DEADLOCK FALSE
