---------------------------- MODULE MigrationValues ----------------------------
(***************************************************************************)
(* The money of one migration, call by call: what context.rs computes with *)
(* denominations.rs, split.rs, scheduling.rs and backend.rs, from the      *)
(* notes the wallet holds to the transfers that spend what the split       *)
(* prepared.  The order of events is MigrationContext's concern; here the  *)
(* calls follow one another, and only a payment received between the plan  *)
(* and its signing comes between.  All amounts are in units of 5000        *)
(* zatoshi, the marginal fee of ZIP-317.                                   *)
(***************************************************************************)
EXTENDS Denominations, Scheduling, NoteSplit, FiniteSets

CONSTANTS
    FeeEstimate,   \* FEE_ESTIMATE_ZATOSHI
    NoteValues,    \* the values a note of the wallet may have
    MaxStart,      \* bound: the notes the wallet starts with
    Targets        \* the target heights of a schedule

(* zcash_client_sqlite counts no note as spendable that is worth no more   *)
(* than the marginal fee.                                                  *)
ASSUME ValuesAssumption ==
    /\ FeeEstimate \in Nat
    /\ NoteValues \subseteq {v \in Nat : v > Marginal}
    /\ MaxStart \in Nat \ {0}
    /\ Targets \subseteq 0..MaxU32

VARIABLES
    stage,         \* the last call that was made
    immediate,     \* whether the single sweeping transfer was chosen
    notes,         \* the spendable Orchard notes, by transaction and action index
    plan,          \* what prepare_note_split planned, for which balance
    locks,         \* the prepared notes in the store
    schedule,      \* the schedule the user confirmed
    target,        \* the target height it was proposed at
    signed,        \* its transfers signed so far
    reserved       \* the notes those transfers spend

vars == <<stage, immediate, notes, plan, locks, schedule, target, signed, reserved>>

Stages == {"idle", "planned", "split", "proposed", "stopped"}
NoPlan == [crossings |-> << >>, refused |-> FALSE, total |-> 0]

Worth(S) == SumOf([n \in S |-> n.value])
Total == Worth(notes)

Init ==
    /\ stage = "idle"
    /\ immediate = FALSE
    /\ \E k \in 1..MaxStart : \E worth \in [1..k -> NoteValues] :
        notes = {[tx |-> 0, ix |-> i, value |-> worth[i]] : i \in 1..k}
    /\ plan = NoPlan
    /\ locks = {}
    /\ schedule = << >>
    /\ target = 0
    /\ signed = 0
    /\ reserved = {}

-----------------------------------------------------------------------------
(* prepare_note_split *)
PrepareNoteSplit ==
    /\ stage = "idle"
    /\ LET p == PlanDenominations(Total, FeeEstimate)
       IN  /\ plan' = [crossings |-> p.crossings, refused |-> p.refused, total |-> Total]
           /\ stage' = IF p.refused THEN "stopped" ELSE "planned"
    /\ UNCHANGED <<immediate, notes, locks, schedule, target, signed, reserved>>

(* A payment becomes spendable before the user confirms.                   *)
Receive ==
    /\ stage = "planned"
    /\ Total = plan.total
    /\ \E v \in NoteValues : notes' = notes \cup {[tx |-> 0, ix |-> 0, value |-> v]}
    /\ UNCHANGED <<stage, immediate, plan, locks, schedule, target, signed, reserved>>

(* The builder insists on the exact ZIP-317 fee (external).                *)
BuilderBalances(nSpends, outputs) ==
    Total - SumOf(outputs) = Marginal * Larger(nSpends + Len(outputs), Grace)

(* sign_note_split, until the split is mined: the wallet scans its outputs *)
(* where the builder put them, and the store locks what it was told.       *)
SignNoteSplit ==
    LET n == Cardinality(notes)
        outputs == PreparedNotes(plan)
        fee == SplitFee(n, Len(outputs))
        adjusted == AdjustedOutputs(Total, fee, outputs)
    IN  /\ stage = "planned"
        /\ ~CannotAdjust(Total, fee, outputs)
        /\ BuilderBalances(n, adjusted)
        /\ \E p \in Placements(n, Len(outputs)) :
            /\ notes' = {[tx |-> 1, ix |-> p[i], value |-> adjusted[i]] :
                            i \in DOMAIN adjusted}
            /\ locks' = Placed(p, adjusted)
        /\ stage' = "split"
        /\ UNCHANGED <<immediate, plan, schedule, target, signed, reserved>>

SignNoteSplitFails ==
    LET n == Cardinality(notes)
        outputs == PreparedNotes(plan)
        fee == SplitFee(n, Len(outputs))
    IN  /\ stage = "planned"
        /\ \/ CannotAdjust(Total, fee, outputs)
           \/ /\ ~CannotAdjust(Total, fee, outputs)
              /\ ~BuilderBalances(n, AdjustedOutputs(Total, fee, outputs))
        /\ stage' = "stopped"
        /\ UNCHANGED <<immediate, notes, plan, locks, schedule, target, signed, reserved>>

-----------------------------------------------------------------------------
(* propose_migration_transfers: plans again, for the balance the split     *)
(* left, and reserves the fee of a split again.  A plan over the cap is an *)
(* error.                                                                  *)
ProposeMigrationTransfers ==
    LET p == PlanDenominations(Total, FeeEstimate)
    IN  /\ stage = "split"
        /\ \/ /\ p.refused
              /\ stage' = "stopped"
              /\ UNCHANGED <<schedule, target>>
           \/ /\ ~p.refused
              /\ \E height \in Targets :
                    /\ schedule' = BuildSchedule(p.crossings, height, 0)
                    /\ target' = height
              /\ stage' = "proposed"
        /\ UNCHANGED <<immediate, notes, plan, locks, signed, reserved>>

(* The fee of a transfer of n notes (external, the change strategy's): the *)
(* spends' actions, and an Ironwood output with its change.                *)
TransferFee(n) == Marginal * (Larger(n, Grace) + Grace)

(* Mutant: keeps back a buffer for every note.                             *)
SweepBuffered == Total - Buffer * Cardinality(notes)

(* sweep_crossing_value *)
SweepCrossingValue == Total - TransferFee(Cardinality(notes))

ProposeImmediate ==
    /\ stage = "idle"
    /\ SweepCrossingValue > 0
    /\ \E height \in Targets :
        /\ schedule' = BuildSchedule(<<SweepCrossingValue>>, height, 0)
        /\ target' = height
    /\ immediate' = TRUE
    /\ stage' = "proposed"
    /\ UNCHANGED <<notes, plan, locks, signed, reserved>>

(* The input selector takes notes until they cover amount and fee.         *)
Covers(S, amount) == Worth(S) >= amount + TransferFee(Cardinality(S))
Selections(amount) ==
    {S \in SUBSET (notes \ reserved) :
        Covers(S, amount) /\ \E n \in S : ~Covers(S \ {n}, amount)}

(* sign_schedule, one transfer.                                            *)
SignTransfer ==
    /\ stage = "proposed"
    /\ signed < Len(schedule)
    /\ \E S \in Selections(schedule[signed + 1].amount) : reserved' = reserved \cup S
    /\ signed' = signed + 1
    /\ UNCHANGED <<stage, immediate, notes, plan, locks, schedule, target>>

SignTransferFails ==
    /\ stage = "proposed"
    /\ signed < Len(schedule)
    /\ ~Covers(notes \ reserved, schedule[signed + 1].amount)
    /\ stage' = "stopped"
    /\ UNCHANGED <<immediate, notes, plan, locks, schedule, target, signed, reserved>>

Next ==
    \/ PrepareNoteSplit
    \/ Receive
    \/ SignNoteSplit
    \/ SignNoteSplitFails
    \/ ProposeMigrationTransfers
    \/ ProposeImmediate
    \/ SignTransfer
    \/ SignTransferFails

Spec == Init /\ [][Next]_vars

-----------------------------------------------------------------------------
(* Properties.                                                             *)

(* Fees that are small beside a note: the fee of a transfer of one note is *)
(* what the buffer and the estimate are for, and the largest split with    *)
(* the largest transfer cost less than a unit.  The real ones are 4 <= 6,  *)
(* and MaxStart + 131 <= 20000: wallets of some nineteen thousand notes.   *)
FeesSmall ==
    /\ TransferFee(1) <= Buffer + FeeEstimate
    /\ SplitFee(MaxStart + 1, MaxPrepared) + TransferFee(MaxPrepared) <= Unit

(* The units a budget can move, each note with its buffer.                 *)
Movable(budget) ==
    {x \in 0..(budget \div Unit) : Unit * x + Buffer * DigitSum[x] <= budget}

(* The greedy decomposition (denominations.rs:61-86) moves as much as any  *)
(* choice of self-funding notes could, with as few notes, and only a plan  *)
(* that needs more than the cap of 64 is refused.                          *)
PlanIsBest ==
    LET budget == plan.total - FeeEstimate
    IN  plan # NoPlan /\ plan.total > FeeEstimate =>
            \E best \in Movable(budget) :
                /\ \A x \in Movable(budget) : x <= best
                /\ SumOf(plan.crossings) = Unit * best
                /\ Len(plan.crossings) = DigitSum[best]
                /\ plan.refused <=> DigitSum[best] > MaxPrepared

(* A split planned with the fee estimate can be built with the exact fee   *)
(* (split.rs:90-120): the last output makes up the difference, whatever    *)
(* was received in between.                                                *)
PlannedSplitBuilds ==
    stage = "stopped" /\ ~immediate /\ locks = {} /\ ~plan.refused => plan.crossings = << >>

(* The proposal that follows a split (context.rs:295) offers the transfers *)
(* the split was made for if the planned residue paid for the split, and   *)
(* less otherwise: the fee estimate is reserved a second time.             *)
SplitSurvivesReplanning ==
    LET residue == (plan.total - FeeEstimate) - SumOf(PreparedNotes(plan))
        fee == plan.total - Total
        again == PlanDenominations(Total, FeeEstimate).crossings
    IN  stage = "split" /\ fee > 0 =>
            IF residue >= fee THEN again = plan.crossings
            ELSE SumOf(again) < SumOf(plan.crossings)

(* No two transfers of a schedule share a send or an expiry height         *)
(* (scheduling.rs:5-7), unless the heights have run out.                   *)
WindowsApart ==
    \A i, j \in DOMAIN schedule : i < j =>
        /\ schedule[i].next < schedule[j].next \/ schedule[j].next = MaxU32
        /\ schedule[i].expiry < schedule[j].expiry \/ schedule[j].expiry = MaxU32

(* The estimate shown to the user (scheduling.rs:71-79) is the hours to    *)
(* the last send window, rounded up, as long as heights do not run out.    *)
DurationCovers ==
    LET hours == EstimatedDurationHours(Len(schedule), 0)
        blocks == schedule[Len(schedule)].next - target
    IN  schedule # << >> =>
            /\ hours * BlocksPerHour >= blocks
            /\ \/ (hours - 1) * BlocksPerHour < blocks
               \/ schedule[Len(schedule)].next = MaxU32

(* The first transfer proposed after a split can be paid from the prepared *)
(* notes whichever of them are selected (denominations.rs:9-11), so a      *)
(* migration that was split always has a next step.  One thing can spoil   *)
(* it: a payment received before the signing lets the balance be planned   *)
(* anew, for a larger denomination, and if that takes all the notes and    *)
(* they are many, their fee is more than what the new plan set aside.      *)
FirstTransferFunded ==
    stage \in {"proposed", "stopped"} /\ schedule # << >> /\ signed = 0 =>
        \/ Covers(notes, schedule[1].amount)
        \/ /\ ~immediate /\ plan.total < Total
           /\ TransferFee(Cardinality(notes)) > Buffer + FeeEstimate

(* When nothing was received after the plan and the schedule is of one     *)
(* denomination that notes were prepared for, every transfer of it finds   *)
(* its note, whichever the selector takes first, even if the exact fee     *)
(* made the last note too small to pay for itself (reserved_source.rs:4-7, *)
(* split.rs:85-94).  Otherwise signing may stop before the end of the      *)
(* schedule: a large transfer may take small notes, and a small one a      *)
(* large note; what was received sits in the last output, where one        *)
(* transfer takes it all; and a note of ten that cannot pay its split is   *)
(* offered as nine of one, the first of which takes it.                    *)
UniformScheduleSigns ==
    stage = "stopped" /\ schedule # << >> /\ Total < plan.total =>
        \/ \E i, j \in DOMAIN schedule : schedule[i].amount # schedule[j].amount
        \/ \A k \in DOMAIN plan.crossings : plan.crossings[k] # schedule[1].amount

(* The immediate transfer spends every note of the wallet (backend.rs:200- *)
(* 207), whatever order the selector takes them in: nothing stays behind.  *)
SweepTakesAll ==
    immediate => /\ stage # "stopped"
                 /\ signed = 1 => reserved = notes
=============================================================================
