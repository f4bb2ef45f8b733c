----------------------------- MODULE Denominations -----------------------------
(***************************************************************************)
(* src/src/denominations.rs: how a balance is cut into self-funding notes. *)
(* A denomination is Unit times a power of ten; a note of it also carries  *)
(* the fee of the transfer that will spend it (Buffer).  No u64 overflows: *)
(* a cost that would is above any budget, in the code (checked_mul,        *)
(* checked_add) as it is in the natural numbers.                           *)
(***************************************************************************)
EXTENDS Naturals, Sequences

CONSTANTS
    Unit,          \* ZATOSHIS_PER_ZEC
    Buffer,        \* TRANSFER_FEE_BUFFER_ZATOSHI
    MaxPrepared    \* MIGRATION_MAX_PREPARED_NOTES_PER_RUN

ASSUME DenominationAssumption ==
    /\ Unit \in Nat \ {0}
    /\ Buffer \in Nat
    /\ MaxPrepared \in Nat

(* The largest denomination whose note fits the budget, which the smallest *)
(* one does.                                                               *)
LargestDenomination(budget) ==
    LET grow[d \in Nat] == IF 10 * d + Buffer <= budget THEN grow[10 * d] ELSE d
    IN  grow[Unit]

(* The denominations taken from a budget, largest first.                   *)
Decomposition[budget \in Nat] ==
    IF budget < Unit + Buffer THEN << >>
    ELSE LET d == LargestDenomination(budget)
         IN  <<d>> \o Decomposition[budget - (d + Buffer)]

(* Mutant: does not set the fee aside.                                     *)
PlanUnreserved(total, prepFee) ==
    LET crossings == Decomposition[total]
    IN  [crossings |-> crossings, refused |-> Len(crossings) > MaxPrepared]

(* Mutant: the last note need not carry its buffer.                        *)
PlanUnbuffered(total, prepFee) ==
    LET budget == IF total <= prepFee THEN 0 ELSE (total - prepFee) + Buffer
        crossings == Decomposition[budget]
    IN  [crossings |-> crossings, refused |-> Len(crossings) > MaxPrepared]

(* Mutant: refuses a plan of as many notes as are allowed.                 *)
PlanCapped(total, prepFee) ==
    LET budget == IF total <= prepFee THEN 0 ELSE total - prepFee
        crossings == Decomposition[budget]
    IN  [crossings |-> crossings, refused |-> Len(crossings) >= MaxPrepared]

(* plan_denominations: the values that will cross, and whether the plan is *)
(* an error for needing too many notes.                                    *)
PlanDenominations(total, prepFee) ==
    LET budget == IF total <= prepFee THEN 0 ELSE total - prepFee
        crossings == Decomposition[budget]
    IN  [crossings |-> crossings, refused |-> Len(crossings) > MaxPrepared]

(* Mutant: notes that cannot pay for their own crossing.                   *)
PreparedNotesBare(plan) == plan.crossings

(* migration_outputs: the prepared notes' values.                          *)
PreparedNotes(plan) == [i \in DOMAIN plan.crossings |-> plan.crossings[i] + Buffer]

-----------------------------------------------------------------------------
(* For the properties: the fewest powers of ten that add up to n, which is *)
(* the sum of its decimal digits.                                          *)
DigitSum[n \in Nat] == IF n < 10 THEN n ELSE (n % 10) + DigitSum[n \div 10]
=============================================================================
