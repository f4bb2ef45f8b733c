---------------------------- MODULE MigrationStore ----------------------------
(***************************************************************************)
(* src/src/store.rs: the ext_ironwood_migration_* tables, and one operator *)
(* per SQL statement.  Every statement autocommits, so each operator below *)
(* is one atomic step of the database; MigrationContext says which         *)
(* statements a facade call executes, and in which order.                  *)
(*                                                                         *)
(* Rows are functions of their primary key.  The columns of a pending_txs  *)
(* row that never change once the row is written (run, send height, expiry *)
(* and the signed PCZT) are read from the content of its transaction, in   *)
(* WalletChain!txs; the status is the only column that is updated.         *)
(***************************************************************************)
EXTENDS WalletChain

CONSTANTS
    Stamps         \* values the wall clock may give created_at_ms

ASSUME StoreAssumption == Stamps \subseteq Nat \ {0}

(* state.rs: the persisted phases.                                         *)
TerminalPhases == {"complete", "failed_terminal", "abandoned"}

Phases == {"no_orchard_funds", "waiting_for_spendable_orchard",
           "ready_to_prepare", "preparing_denominations",
           "waiting_denom_confirmations", "ready_to_migrate",
           "broadcast_scheduled", "broadcasting",
           "waiting_migration_confirmations", "paused",
           "failed_recoverable"} \cup TerminalPhases

Absent == "absent"

VARIABLES
    phase,      \* runs.phase, Absent while there is no row
    createdAt,  \* runs.created_at_ms
    lastError,  \* runs.last_error: which message, about which transaction
    prep,       \* prep_tx: each run's split transaction and its status
    locked,     \* prepared_notes with lock_state 'locked': (run, note) pairs
    pending     \* pending_txs.status of every transaction, Absent if no row

storeVars == <<phase, createdAt, lastError, prep, locked, pending>>

Errors == [kind : {"none", "invalid_note", "expired"}, tx : 0..MaxTx]
NoError == [kind |-> "none", tx |-> NoTx]

PrepRows == [tx : 0..MaxTx, status : {Absent, "pending", "broadcasted"}]
NoPrep == [tx |-> NoTx, status |-> Absent]

StoreTypeOK ==
    /\ phase \in [RunIds -> Phases \cup {Absent}]
    /\ createdAt \in [RunIds -> Nat]
    /\ lastError \in [RunIds -> Errors]
    /\ prep \in [RunIds -> PrepRows]
    /\ locked \subseteq RunIds \X Notes
    /\ pending \in [TxIds -> {Absent, "scheduled", "broadcasted", "confirmed"}]

StoreInit ==
    /\ phase = [r \in RunIds |-> Absent]
    /\ createdAt = [r \in RunIds |-> 0]
    /\ lastError = [r \in RunIds |-> NoError]
    /\ prep = [r \in RunIds |-> NoPrep]
    /\ locked = {}
    /\ pending = [t \in TxIds |-> Absent]

-----------------------------------------------------------------------------
(* Queries.                                                                *)

LiveRuns == {r \in RunIds : phase[r] \notin TerminalPhases \cup {Absent}}

(* active_run: the newest live run.  The clock is not monotone and its     *)
(* stamps may tie; SQLite then returns either row.                         *)
ActiveRuns == {r \in LiveRuns : \A s \in LiveRuns : createdAt[s] <= createdAt[r]}

(* Mutant: excludes the wrong run.                                         *)
LockedByOwn(r) == {lock[2] : lock \in {l \in locked : l[1] \in LiveRuns \cap {r}}}

(* locked_note_refs with exclude_run_id = r.                               *)
LockedByOthers(r) == {lock[2] : lock \in {l \in locked : l[1] \in LiveRuns \ {r}}}

RowsOf(r) == {t \in TxIds : txs[t].run = r /\ pending[t] # Absent}

(* broadcasted_txids *)
BroadcastedOf(r) == {t \in RowsOf(r) : pending[t] = "broadcasted"}

(* Mutant: due as soon as scheduled.                                       *)
DueAtOnce(r, target) == {t \in RowsOf(r) : pending[t] = "scheduled"}

(* Mutant: passes over the rows that have expired.                         *)
DueUnexpired(r, target) ==
    {t \in RowsOf(r) : pending[t] = "scheduled" /\ target \in txs[t].sendAt..txs[t].expiry}

(* next_due_transfer: the row due at the target height with the lowest     *)
(* send height; the order of equal heights is that of the txids, which are *)
(* hashes.                                                                 *)
DueRows(r, target) ==
    {t \in RowsOf(r) : pending[t] = "scheduled" /\ txs[t].sendAt <= target}
NextDue(r, target) ==
    {t \in DueRows(r, target) :
        \A u \in DueRows(r, target) : txs[t].sendAt <= txs[u].sendAt}

-----------------------------------------------------------------------------
(* Updates: one statement each.                                            *)

(* insert_run: a fresh UUID, stamped with the wall clock.                  *)
InsertRun(r, p) ==
    /\ phase[r] = Absent
    /\ phase' = [phase EXCEPT ![r] = p]
    /\ \E now \in Stamps : createdAt' = [createdAt EXCEPT ![r] = now]
    /\ UNCHANGED <<lastError, prep, locked, pending>>

(* set_phase overwrites the error with the phase, with NULL for None.      *)
SetPhase(r, p, error) ==
    /\ phase' = [phase EXCEPT ![r] = p]
    /\ lastError' = [lastError EXCEPT ![r] = error]
    /\ UNCHANGED <<createdAt, prep, locked, pending>>

(* Mutant: a status the readers do not know.                               *)
InsertPrepTxSigned(r, t) ==
    /\ prep' = [prep EXCEPT ![r] = [tx |-> t, status |-> "signed"]]
    /\ UNCHANGED <<phase, createdAt, lastError, locked, pending>>

InsertPrepTx(r, t) ==
    /\ prep' = [prep EXCEPT ![r] = [tx |-> t, status |-> "pending"]]
    /\ UNCHANGED <<phase, createdAt, lastError, locked, pending>>

(* set_prep_tx_status(run, "broadcasted") *)
SetPrepBroadcasted(r) ==
    /\ prep' = [prep EXCEPT ![r].status = "broadcasted"]
    /\ UNCHANGED <<phase, createdAt, lastError, locked, pending>>

(* insert_prepared_notes: one statement per note, so a failure leaves the  *)
(* rows written before it.                                                 *)
InsertPreparedNotes(r, notes) ==
    /\ locked' = locked \cup ({r} \X notes)
    /\ UNCHANGED <<phase, createdAt, lastError, prep, pending>>

(* insert_pending_txs, which sign_schedule calls with one row at a time.   *)
InsertPendingTx(t) ==
    /\ pending' = [pending EXCEPT ![t] = "scheduled"]
    /\ UNCHANGED <<phase, createdAt, lastError, prep, locked>>

(* mark_pending_status: an UPDATE by txid, of no row when there is none.   *)
MarkPending(S, status) ==
    /\ pending' = [t \in TxIds |-> IF t \in S /\ pending[t] # Absent
                                   THEN status ELSE pending[t]]
    /\ UNCHANGED <<phase, createdAt, lastError, prep, locked>>

(* Mutant: clears every row of the run.                                    *)
ClearAll(runs) ==
    /\ pending' = [t \in TxIds |-> IF txs[t].run \in runs THEN Absent ELSE pending[t]]
    /\ UNCHANGED <<phase, createdAt, lastError, prep, locked>>

(* clear_scheduled_pending *)
ClearScheduled(runs) ==
    /\ pending' = [t \in TxIds |-> IF txs[t].run \in runs /\ pending[t] = "scheduled"
                                   THEN Absent ELSE pending[t]]
    /\ UNCHANGED <<phase, createdAt, lastError, prep, locked>>
=============================================================================
