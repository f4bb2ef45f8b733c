\* The app's loop, killed once anywhere, over a network that loses replies.
SPECIFICATION AppSpec
CONSTANTS
    RunIds = {r1, r2}
    NoRun = NoRun
    MaxTx = 3
    MaxNotes = 2
    MaxMoney = 2
    MaxHeight = 2
    GenesisWorth <- OneUnit
    LateNotes = {}
    Faults = {"crash", "lost_reply", "unreachable"}
    Stamps = {1}
    App = app
    Workers = {w1}
    Calls = {"split", "private", "restart", "deliver", "state"}
    Cadence = 0
    Window = 0
    SplitWindow = 1
    MaxCrashes = 1
INVARIANTS
    OneMigration
    TransfersAfterSplit
    AppInv
PROPERTIES
    MigrationCompletes
