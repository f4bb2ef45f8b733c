-------------------------------- MODULE MCValues --------------------------------
(* An instance of MigrationValues for TLC: amounts in units of 5000        *)
(* zatoshi, with notes around the values at which plans change.  Five      *)
(* notes and a residue (FiveNotes), and a payment (Late) that makes it a   *)
(* ten, bring about the exception of FirstTransferFunded.                  *)
EXTENDS MigrationValues

ASSUME RealFees == FeesSmall /\ TransferFee(1) <= Buffer

Note == Unit + Buffer + FeeEstimate     \* the least balance that can be split
TenNote == 10 * Unit + Buffer + FeeEstimate
FiveNotes == 5 * (Unit + Buffer) + FeeEstimate
Late == TenNote + SplitFee(2, 5) - FiveNotes
Values ==
    {2, 9, Unit - 1} \cup (Note - 1)..(Note + 1) \cup (2 * Note - 2)..(2 * Note)
        \cup {9 * Note, TenNote - 1, TenNote, TenNote + Note}
        \cup {Late, FiveNotes}

(* The builder has (n + k)! / n! ways to place k outputs: larger splits    *)
(* are planned, and checked as plans, but not signed.                      *)
SmallSplits ==
    stage = "planned" =>
        Len(plan.crossings) <= 5 /\ Cardinality(notes) * Len(plan.crossings) <= 10
=============================================================================
