\* Two runs that split: signing interrupted anywhere, the split sent by the
\* App and by a worker, the clock stepping back, and migration_state polled.
SPECIFICATION Spec
CONSTANTS
    RunIds = {r1, r2}
    NoRun = NoRun
    MaxTx = 2
    MaxNotes = 2
    MaxMoney = 2
    MaxHeight = 2
    GenesisWorth <- UnitAndDust
    LateNotes = {}
    Faults = {"crash", "lost_reply", "sign_error", "lock_error"}
    Stamps = {1, 2}
    App = app
    Workers = {w1}
    Calls = {"split", "deliver", "state"}
    Cadence = 1
    Window = 1
    SplitWindow = 1
INVARIANTS
    TypeOK
    SplitConfirmedBeforeReady
    RecordedMeansAccepted
