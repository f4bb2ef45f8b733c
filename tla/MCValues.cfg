\* The real fees and denominations, a cap of nine notes, and a height range
\* that a schedule can exceed.
SPECIFICATION Spec
CONSTANTS
    Unit = 20000
    Buffer = 4
    MaxPrepared = 9
    Cadence = 288
    Window = 288
    BlocksPerHour = 48
    MaxU32 = 3000
    Marginal = 1
    Grace = 2
    FeeEstimate = 2
    NoteValues <- Values
    MaxStart = 2
    Targets = {1000, 2500}
CONSTRAINT
    SmallSplits
INVARIANTS
    PlanIsBest
    PlannedSplitBuilds
    SplitSurvivesReplanning
    WindowsApart
    DurationCovers
    FirstTransferFunded
    UniformScheduleSigns
    SweepTakesAll
CHECK_DEADLOCK FALSE
