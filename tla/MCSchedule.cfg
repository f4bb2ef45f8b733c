\* Schedules of two transfers, signed, interrupted, restarted, carried by two
\* deliveries over an unreliable network, and confirmed by migration_state.
SPECIFICATION Spec
CONSTANTS
    RunIds = {r1}
    NoRun = NoRun
    MaxTx = 2
    MaxNotes = 2
    MaxMoney = 2
    MaxHeight = 1
    GenesisWorth <- TwoNotes
    LateNotes = {}
    Faults = {"lost_reply", "unreachable", "sign_error"}
    Stamps = {1}
    App = app
    Workers = {w1, w2}
    Calls = {"private", "restart", "deliver", "state"}
    Cadence = 1
    Window = 0
    SplitWindow = 1
INVARIANTS
    BatchDisjoint
    SentInWindow
    RecordedMeansAccepted
PROPERTIES
    SentRowsKept
    DeliveryKept
