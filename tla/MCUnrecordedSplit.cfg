\* The reply to the split's broadcast is lost, and the split is mined.
SPECIFICATION AppSpec
CONSTANTS
    RunIds = {r1}
    NoRun = NoRun
    MaxTx = 2
    MaxNotes = 1
    MaxMoney = 1
    MaxHeight = 1
    GenesisWorth <- OneUnit
    LateNotes = {}
    Faults = {"lost_reply"}
    Stamps = {1}
    App = app
    Workers = {w1}
    Calls = {"split", "private", "restart", "deliver", "state"}
    Cadence = 0
    Window = 0
    SplitWindow = 1
    MaxCrashes = 0
PROPERTIES
    StuckTransfersNeedAttention
