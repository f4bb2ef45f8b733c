\* Transfers signed while the split is not yet mined.
SPECIFICATION Spec
CONSTANTS
    RunIds = {r1}
    NoRun = NoRun
    MaxTx = 2
    MaxNotes = 2
    MaxMoney = 2
    MaxHeight = 2
    GenesisWorth <- OneUnit
    LateNotes = {}
    Faults = {}
    Stamps = {1}
    App = app
    Workers = {w1}
    Calls = {"split", "private", "deliver"}
    Cadence = 1
    Window = 1
    SplitWindow = 1
INVARIANTS
    SplitConfirmedBeforeTransfers
