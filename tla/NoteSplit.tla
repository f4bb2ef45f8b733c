------------------------------- MODULE NoteSplit -------------------------------
(***************************************************************************)
(* src/src/split.rs: the arithmetic of the note-split transaction, its fee *)
(* and its outputs, and where the builder puts them.                       *)
(***************************************************************************)
EXTENDS Integers, Sequences, FiniteSetsExt

CONSTANTS
    Marginal,      \* MARGINAL_FEE_ZATOSHI
    Grace          \* GRACE_ACTIONS

ASSUME SplitAssumption == Marginal \in Nat \ {0} /\ Grace \in Nat

SumOf(seq) == MapThenSumSet(LAMBDA i : seq[i], DOMAIN seq)
Larger(m, n) == IF m < n THEN n ELSE m

(* Mutant: forgets that a spend takes an action too.                       *)
SplitFeeOfOutputs(nSpends, nOutputs) == Marginal * Larger(nOutputs, Grace)

(* Each spend and each output has an action of its own.                    *)
SplitFee(nSpends, nOutputs) == Marginal * Larger(nSpends + nOutputs, Grace)

(* What adjust_outputs_for_exact_balance makes of the last output: it      *)
(* absorbs the difference between plan and balance, in either direction.   *)
LastOutput(selected, fee, outputs) ==
    outputs[Len(outputs)] + (selected - fee) - SumOf(outputs)

(* Its error paths. *)
CannotAdjust(selected, fee, outputs) ==
    \/ selected < fee
    \/ outputs = << >>
    \/ outputs # << >> /\ LastOutput(selected, fee, outputs) <= 0

AdjustedOutputs(selected, fee, outputs) ==
    [outputs EXCEPT ![Len(outputs)] = LastOutput(selected, fee, outputs)]

(* The builder shuffles the actions; output i ends up at action p[i].      *)
Placements(nSpends, nOutputs) ==
    LET actions == 0..(Larger(nSpends + nOutputs, Grace) - 1)
    IN  {p \in [1..nOutputs -> actions] :
            \A i, j \in 1..nOutputs : p[i] = p[j] => i = j}

(* What the store is told: each output's action index and value, mapped    *)
(* through the builder's metadata (output_action_index).                   *)
Placed(p, outputs) == {[ix |-> p[i], value |-> outputs[i]] : i \in DOMAIN outputs}
=============================================================================
