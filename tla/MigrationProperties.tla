-------------------------- MODULE MigrationProperties --------------------------
(***************************************************************************)
(* What the migration engine promises, stated of MigrationContext: first   *)
(* what holds however the facade's callers behave, then what a comment of  *)
(* the code says and the code does not do.                                 *)
(***************************************************************************)
EXTENDS MigrationContext

Transfers(S) == {t \in S : txs[t].kind = "transfer"}
HasSplit(r) == prep[r].tx # NoTx
SplitSent(r) == HasSplit(r) => prep[r].status = "broadcasted"

-----------------------------------------------------------------------------
(* A run that reads ready_to_migrate and has a split has seen that split   *)
(* mined, whichever thread signed, sent or polled in the meantime          *)
(* (context.rs:132-134: "a not-yet-broadcast split never advances          *)
(* prematurely").                                                          *)
SplitConfirmedBeforeReady ==
    \A r \in RunIds : phase[r] = "ready_to_migrate" /\ HasSplit(r)
                        => prep[r].tx \in mined

(* No signed transaction spends a note that another run holds locked       *)
(* (store.rs:292-295), although the lock set is read once per signing call *)
(* and the notes are picked later.                                         *)
LocksRespected ==
    \A t \in TxIds : \A lock \in locked :
        lock[2] \in txs[t].spends => lock[1] = txs[t].run

(* The transfers of one signing call spend different notes                 *)
(* (reserved_source.rs:4-7): none of them can invalidate another.          *)
BatchDisjoint ==
    \A t, u \in Transfers(TxIds) :
        t # u /\ txs[t].batch = txs[u].batch => txs[t].spends \cap txs[u].spends = {}

(* A row is confirmed only when its transaction is mined, and reads        *)
(* broadcasted (and a split likewise) only when the node has taken it,     *)
(* whichever thread reports whose result and however late.                 *)
RecordedMeansAccepted ==
    /\ \A t \in TxIds : /\ pending[t] = "confirmed" => t \in mined
                        /\ pending[t] = "broadcasted" => t \in accepted
    /\ \A r \in RunIds : prep[r].status = "broadcasted" => prep[r].tx \in accepted

(* No transfer reaches the network before the send height its schedule     *)
(* gave it, whoever delivers it and however often it was re-signed         *)
(* (scheduling.rs:32-35, store.rs:350-365).                                *)
SentInWindow ==
    \A t \in Transfers(accepted) : txs[t].sendAt <= height

Overtaking(r) == {t \in Transfers(accepted) : txs[t].run = r}

(* While a run has a split that was not recorded as sent, no more of its   *)
(* transfers reach the network than there are deliveries: only one that    *)
(* looked for the split before it was stored can be handed a transfer      *)
(* (context.rs:397-408), and the next time it looks it finds the split.    *)
FewOvertake ==
    \A r \in RunIds : ~SplitSent(r)
                        => Cardinality(Overtaking(r)) <= Cardinality(Workers)

(* Every note a run's split prepares is spent by that run alone: locks     *)
(* "exist to keep other migration operations off them" (store.rs:293-295). *)
PreparedNotesReserved ==
    \A t \in TxIds : \A n \in txs[t].spends : \A r \in RunIds :
        HasSplit(r) /\ n.tx = prep[r].tx => txs[t].run = r

(* The row of a transfer that was recorded as sent is never deleted, by a  *)
(* restart or otherwise (context.rs:517-526), so its confirmation is not   *)
(* missed.                                                                 *)
SentRowsKept ==
    [][\A t \in TxIds : pending[t] \in {"broadcasted", "confirmed"}
                            => pending'[t] \in {"broadcasted", "confirmed"}]_vars

(* When migration_state turns to Complete, nothing that could still be     *)
(* migrated is spendable, and each transfer of the run is mined or can     *)
(* never be, its note having been spent by a mined transaction (another    *)
(* device's, or one of the wallet's own that was signed beside it)         *)
(* (context.rs:155-157), although the phase, the totals and the balance    *)
(* are read one by one while transfers are signed, sent and mined.         *)
CompleteMeansMigrated ==
    [][poll'.state = "Complete" /\ poll' # poll =>
        /\ Spendable = {}
        /\ RowsOf(poll'.run) # {}
        /\ \A t \in RowsOf(poll'.run) :
              \/ t \in mined
              \/ Conflicts(t, mined)
              \/ txs[t].spends \cap elsewhere # {}]_vars

-----------------------------------------------------------------------------
(* The refinement: what of the detailed state the promise speaks of.       *)
Promise == INSTANCE Delivery WITH
    Runs <- RunIds,
    None <- NoRun,
    Ids <- TxIds,
    Slack <- Cardinality(Workers),
    owner <- [t \in TxIds |-> txs[t].run],
    split <- [r \in RunIds |-> prep[r].tx],
    reported <- {r \in RunIds : prep[r].status = "broadcasted"},
    record <- pending,
    network <- accepted,
    chain <- mined

(* Whatever the threads and the network do, each signed transaction goes   *)
(* through the life Delivery describes (store.rs:317-474,                  *)
(* context.rs:388-416, 436-476): sent after its run's split, but for one   *)
(* per delivery, recorded truthfully, discarded only while unsent.         *)
DeliveryKept == Promise!Spec

-----------------------------------------------------------------------------
(* The inductive invariant behind the safety properties above.             *)

Built == 1..(nextTx - 1)

(* Transactions move forward through the network, ids are given once, and  *)
(* a transaction spends outputs of older ones only.                        *)
ChainInv ==
    /\ mempool \subseteq accepted
    /\ mined \subseteq accepted
    /\ matured \subseteq mined
    /\ accepted \subseteq Built
    /\ \A t \in TxIds : /\ t >= nextTx => txs[t] = Unbuilt
                        /\ txs[t].batch <= t
                        /\ \A n \in txs[t].spends : n.tx < t

(* The phases the engine writes: none of them is terminal.                 *)
WrittenPhases == {Absent, "preparing_denominations", "waiting_denom_confirmations",
                  "ready_to_migrate", "broadcast_scheduled", "failed_recoverable"}

(* What hangs off a run exists only once the run does.                     *)
RunInv ==
    /\ \A r \in RunIds : /\ phase[r] \in WrittenPhases
                         /\ phase[r] = Absent => prep[r] = NoPrep
                         /\ ~HasSplit(r) => prep[r] = NoPrep
                         /\ HasSplit(r) => /\ prep[r].tx \in Built
                                           /\ prep[r].status # Absent
                                           /\ txs[prep[r].tx].kind = "split"
                                           /\ txs[prep[r].tx].run = r
    /\ \A lock \in locked : phase[lock[1]] # Absent
    /\ \A t \in Built : /\ txs[t].run \in RunIds
                        /\ phase[txs[t].run] # Absent
                        /\ txs[t].kind = "transfer" \/ prep[txs[t].run].tx = t
    /\ \A t \in TxIds : pending[t] # Absent => t \in Built

(* The App's signing calls, at each point where other threads may run.     *)
SigningInv ==
    /\ At(App, "splitting") =>
        /\ job.run \in RunIds
        /\ prep[job.run] = NoPrep
        /\ phase[job.run] \notin {Absent, "ready_to_migrate"}
        /\ \A t \in TxIds : txs[t].run # job.run
    /\ At(App, "locking") =>
        /\ job.run \in RunIds
        /\ phase[job.run] # Absent
        /\ thr[App].tx \in Built
        /\ thr[App].tx = nextTx - 1
        /\ thr[App].prepOf = job.run
        /\ prep[job.run].tx = thr[App].tx
    /\ At(App, "signing") =>
        /\ job.run \in RunIds
        /\ phase[job.run] # Absent
        /\ job.batch \in 1..nextTx
        /\ \A lock \in locked :
              lock[2] \in job.avail => lock[1] = job.run \/ lock[2] \in job.locks
        /\ \A t \in TxIds : txs[t].batch = job.batch => txs[t].spends \cap job.avail = {}

(* What a thread has read, and the transaction in its hands.               *)
CarriedInv ==
    /\ \A th \in Threads :
        /\ thr[th].pc \in {"asking", "checked", "targeted", "refusing"} =>
              /\ thr[th].run \in RunIds
              /\ phase[thr[th].run] # Absent
        /\ thr[th].target <= height
        /\ thr[th].pc \notin {"answered", "prepsent", "refusing"} =>
              thr[th].answer = "none"
        /\ thr[th].pc \in {"fetched", "answered", "prepsent", "refusing"} =>
              /\ thr[th].tx \in Built
              /\ txs[thr[th].tx].kind = "transfer" => txs[thr[th].tx].sendAt <= height
              /\ thr[th].prepOf # NoRun => prep[thr[th].prepOf].tx = thr[th].tx
              /\ thr[th].answer = "Success" => thr[th].tx \in accepted
              /\ thr[th].pc = "prepsent" => thr[th].prepOf # NoRun
              /\ thr[th].pc = "refusing" => thr[th].prepOf = NoRun
    /\ thr[App].pc = "fetched" => thr[App].prepOf # NoRun
    /\ Polling => poll.run \in RunIds

IInv ==
    /\ TypeOK
    /\ ChainInv
    /\ RunInv
    /\ SigningInv
    /\ CarriedInv
    /\ SplitConfirmedBeforeReady
    /\ LocksRespected
    /\ BatchDisjoint
    /\ RecordedMeansAccepted
    /\ SentInWindow

(* The deliveries that are past the look at run r's split, or were handed  *)
(* a transfer of r and have not sent it yet.                               *)
Ahead(r) ==
    {w \in Workers :
        \/ thr[w].pc \in {"checked", "targeted"} /\ thr[w].run = r
        \/ /\ thr[w].pc = "fetched"
           /\ txs[thr[w].tx].kind = "transfer"
           /\ txs[thr[w].tx].run = r}

(* Each transfer that overtook its split used up a delivery that was ahead *)
(* of it.                                                                  *)
OvertakeInv ==
    \A r \in RunIds : ~SplitSent(r) =>
        Cardinality(Overtaking(r)) + Cardinality(Ahead(r)) <= Cardinality(Workers)

-----------------------------------------------------------------------------
(* What comments of the code say and the code does not do.  Each of these  *)
(* is violated by MigrationContext.                                        *)

(* context.rs:396: "The note-split (prep) transaction must broadcast and   *)
(* confirm before any transfer."                                           *)
SplitConfirmedBeforeTransfers ==
    \A th \in Threads :
        At(th, "fetched") /\ txs[thr[th].tx].kind = "transfer"
                          /\ HasSplit(txs[thr[th].tx].run)
            => prep[txs[thr[th].tx].run].tx \in mined

(* context.rs:141-143: "Mined alone is not enough: the split's change      *)
(* notes must also be SPENDABLE".                                          *)
ReadyMeansSplitSpendable ==
    \A r \in RunIds : phase[r] = "ready_to_migrate" /\ HasSplit(r)
                        => prep[r].tx \in matured

(* types.rs:141: InvalidTransfer is "An input note was spent externally    *)
(* before its transfer was broadcast."                                     *)
InvalidMeansSpentExternally ==
    poll.state = "RequiresAttention" /\ poll.error.kind = "invalid_note"
        => poll.error.tx \notin mined
=============================================================================
