\* From schedule to Complete and on, with a note that confirms late and one that
\* another device may spend, and transfers signed beside each other.
SPECIFICATION Spec
CONSTANTS
    RunIds = {r1}
    NoRun = NoRun
    MaxTx = 3
    MaxNotes = 2
    MaxMoney = 2
    MaxHeight = 1
    GenesisWorth <- TwoNotes
    LateNotes = {2}
    Faults = {"elsewhere"}
    Stamps = {1}
    App = app
    Workers = {w1}
    Calls = {"private", "immediate", "deliver", "state"}
    Cadence = 0
    Window = 0
    SplitWindow = 1
PROPERTIES
    CompleteMeansMigrated
