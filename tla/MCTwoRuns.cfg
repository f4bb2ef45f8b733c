\* Two runs that each split and sign transfers; the node is not reached, or its
\* reply gets lost.
SPECIFICATION Spec
CONSTANTS
    RunIds = {r1, r2}
    NoRun = NoRun
    MaxTx = 4
    MaxNotes = 2
    MaxMoney = 2
    MaxHeight = 1
    GenesisWorth <- TwoUnits
    LateNotes = {}
    Faults = {"lost_reply", "unreachable"}
    Stamps = {1}
    App = app
    Workers = {w1}
    Calls = {"split", "private", "deliver"}
    Cadence = 1
    Window = 1
    SplitWindow = 1
INVARIANTS
    LocksRespected
    PreparedNotesReserved
    FewOvertake
    IInv
PROPERTIES
    DeliveryKept
