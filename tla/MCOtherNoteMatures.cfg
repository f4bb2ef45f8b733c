\* The split is mined, and only a note received meanwhile is spendable.
SPECIFICATION Spec
CONSTANTS
    RunIds = {r1}
    NoRun = NoRun
    MaxTx = 1
    MaxNotes = 2
    MaxMoney = 2
    MaxHeight = 2
    GenesisWorth <- TwoNotes
    LateNotes = {2}
    Faults = {}
    Stamps = {1}
    App = app
    Workers = {w1}
    Calls = {"split", "deliver", "state"}
    Cadence = 1
    Window = 1
    SplitWindow = 1
INVARIANTS
    ReadyMeansSplitSpendable
