\* The process dies between storing a split and storing its locks.
SPECIFICATION Spec
CONSTANTS
    RunIds = {r1, r2}
    NoRun = NoRun
    MaxTx = 2
    MaxNotes = 2
    MaxMoney = 2
    MaxHeight = 2
    GenesisWorth <- OneUnit
    LateNotes = {}
    Faults = {"crash"}
    Stamps = {1, 2}
    App = app
    Workers = {w1}
    Calls = {"split", "deliver"}
    Cadence = 1
    Window = 1
    SplitWindow = 1
INVARIANTS
    PreparedNotesReserved
