\* A transfer whose reply was lost is mined, and sent again.
SPECIFICATION Spec
CONSTANTS
    RunIds = {r1}
    NoRun = NoRun
    MaxTx = 1
    MaxNotes = 2
    MaxMoney = 2
    MaxHeight = 2
    GenesisWorth <- OneUnit
    LateNotes = {}
    Faults = {"lost_reply"}
    Stamps = {1}
    App = app
    Workers = {w1}
    Calls = {"private", "deliver", "state"}
    Cadence = 1
    Window = 1
    SplitWindow = 1
INVARIANTS
    InvalidMeansSpentExternally
