------------------------------ MODULE Scheduling ------------------------------
(***************************************************************************)
(* src/src/scheduling.rs: when each transfer of a schedule may be sent and *)
(* when it expires.  Heights are u32 and saturate at MaxU32.               *)
(***************************************************************************)
EXTENDS Naturals, Sequences

CONSTANTS
    Cadence,       \* TRANSFER_CADENCE_BLOCKS
    Window,        \* TRANSFER_EXPIRY_WINDOW_BLOCKS
    BlocksPerHour, \* BLOCKS_PER_HOUR
    MaxU32         \* u32::MAX

ASSUME SchedulingAssumption ==
    /\ Cadence \in Nat \ {0}
    /\ Window \in Nat \ {0}
    /\ BlocksPerHour \in Nat \ {0}
    /\ MaxU32 \in Nat

Saturated(n) == IF n > MaxU32 THEN MaxU32 ELSE n

(* The i-th transfer, from 0, may be sent from this height on.             *)
NextExecutable(target, firstDelay, i) ==
    Saturated(Saturated(target + firstDelay) + Saturated(i * Cadence))

(* Mutant: every transfer expires with the first.                          *)
ExpirySame(target, firstDelay, i) == Saturated(target + firstDelay + Window)

Expiry(target, firstDelay, i) ==
    Saturated(NextExecutable(target, firstDelay, i) + Window)

(* build_schedule *)
BuildSchedule(amounts, target, firstDelay) ==
    [k \in 1..Len(amounts) |->
        [amount |-> amounts[k],
         next |-> NextExecutable(target, firstDelay, k - 1),
         expiry |-> Expiry(target, firstDelay, k - 1)]]

(* Mutant: counts a transfer too many.                                     *)
DurationOfAll(count, firstDelay) ==
    (Saturated(firstDelay + Saturated(count * Cadence)) + (BlocksPerHour - 1))
        \div BlocksPerHour

(* estimated_duration_hours: until the last send window, rounded up.       *)
EstimatedDurationHours(count, firstDelay) ==
    IF count = 0 THEN 0
    ELSE (Saturated(firstDelay + Saturated((count - 1) * Cadence)) + (BlocksPerHour - 1))
            \div BlocksPerHour
=============================================================================
