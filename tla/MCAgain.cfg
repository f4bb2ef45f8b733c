\* A second note turns up at any time, even after Complete, in an app that is
\* killed once anywhere and misses replies.
SPECIFICATION AppSpec
CONSTANTS
    RunIds = {r1}
    NoRun = NoRun
    MaxTx = 3
    MaxNotes = 2
    MaxMoney = 2
    MaxHeight = 1
    GenesisWorth <- TwoNotes
    LateNotes = {2}
    Faults = {"crash", "lost_reply"}
    Stamps = {1}
    App = app
    Workers = {w1}
    Calls = {"split", "private", "restart", "deliver", "state"}
    Cadence = 0
    Window = 0
    SplitWindow = 1
    MaxCrashes = 1
PROPERTIES
    MigrationCompletes
