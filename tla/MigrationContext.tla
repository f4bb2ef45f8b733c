--------------------------- MODULE MigrationContext ---------------------------
(***************************************************************************)
(* src/src/context.rs, the facade of the engine, with the parts of         *)
(* backend.rs, split.rs, reserved_source.rs and scheduling.rs it drives:   *)
(* the note split, the proposal and signing of a schedule, background      *)
(* delivery, the recording of broadcast results, and migration_state.      *)
(*                                                                         *)
(* MigrationContext holds no state of its own ("open and operate per       *)
(* call"): every call opens its own connection, so calls made by different *)
(* threads of the platform interleave between the statements they execute, *)
(* and a process that dies loses whatever it had not written yet.  A call  *)
(* is cut here at its writes, and between a read and the use of what it    *)
(* read where another thread may come in between.  Three kinds of caller:  *)
(*   - App, the foreground thread: every call that proposes or signs, and  *)
(*     the broadcast of the split it has just signed;                      *)
(*   - Workers, the background deliveries: next_due_transfer, broadcast,   *)
(*     record_transfer_result;                                             *)
(*   - a poller that calls migration_state.                                *)
(* The callers are not otherwise constrained: they may make any call the   *)
(* facade accepts, in any order.                                           *)
(***************************************************************************)
EXTENDS MigrationStore

CONSTANTS
    App,           \* the foreground thread
    Workers,       \* the background threads
    Calls,         \* the facade calls the platform of this instance makes
    Cadence,       \* TRANSFER_CADENCE_BLOCKS
    Window,        \* TRANSFER_EXPIRY_WINDOW_BLOCKS
    SplitWindow    \* expiry delta of the split: the builder's default, 40

Call == {"split", "private", "immediate", "restart", "deliver", "state"}

ASSUME ContextAssumption ==
    /\ App \notin Workers
    /\ IsFiniteSet(Workers)
    /\ Calls \subseteq Call
    /\ Cadence \in Nat
    /\ Window \in Nat
    /\ SplitWindow \in Nat

Threads == {App} \cup Workers

VARIABLES
    thr,        \* per thread: where it is, what it read and what it carries
    job,        \* local variables of the App's signing call
    offer,      \* the proposal the App holds for the user to confirm
    poll        \* local variables of migration_state, then what it returned

ctxVars == <<thr, job, offer, poll>>
vars == <<chainVars, storeVars, ctxVars>>

Answers == {"none", "Success", "NetworkError", "InvalidNote", "Expired"}

(* What next_due_transfer has read so far (the run it serves, the target   *)
(* height), then a PreparedTx in the platform's hands: its transaction,    *)
(* and the run in its id if that is of the form "prep:<run>".  In          *)
(* record_transfer_result, run is again the active run that was read.      *)
ThreadStates == [pc : {"idle", "splitting", "locking", "signing", "asking",
                       "checked", "targeted", "fetched", "answered",
                       "prepsent", "refusing"},
                 run : RunIds \cup {NoRun}, target : 0..MaxHeight,
                 tx : 0..MaxTx, prepOf : RunIds \cup {NoRun}, answer : Answers]
Idle == [pc |-> "idle", run |-> NoRun, target |-> 0,
         tx |-> NoTx, prepOf |-> NoRun, answer |-> "none"]

Jobs == [run : RunIds \cup {NoRun}, todo : 0..MaxNotes, amount : 0..MaxMoney,
         sendAt : Nat, avail : SUBSET Notes, locks : SUBSET Notes,
         batch : 0..MaxTx]
NoJob == [run |-> NoRun, todo |-> 0, amount |-> 0, sendAt |-> 0,
          avail |-> {}, locks |-> {}, batch |-> NoTx]

(* A NoteSplitProposal of count outputs, or a MigrationSchedule of count   *)
(* transfers of amount units each, the first due at height target.         *)
Offers == [kind : {"none", "split", "schedule"}, count : 0..MaxNotes,
           amount : 0..MaxMoney, target : 0..MaxHeight]
NoOffer == [kind |-> "none", count |-> 0, amount |-> 0, target |-> 0]

States == {"NotStarted", "SplitPendingConfirmation", "ReadyToPropose",
           "InProgress", "RequiresAttention", "Complete"}

(* While migration_state runs, phase and error are the ones it read of its *)
(* run, and totals says whether it has counted the run's rows yet and      *)
(* found all of them confirmed; once it has returned, phase is Absent,     *)
(* state is its result and error is what the result blames (the attention  *)
(* reason).                                                                *)
Polls == [run : RunIds \cup {NoRun}, phase : Phases \cup {Absent},
          error : Errors, totals : {"uncounted", "open", "confirmed"},
          state : States \cup {"none"}]
NoPoll == [run |-> NoRun, phase |-> Absent, error |-> NoError,
           totals |-> "uncounted", state |-> "NotStarted"]

TypeOK ==
    /\ ChainTypeOK
    /\ StoreTypeOK
    /\ thr \in [Threads -> ThreadStates]
    /\ job \in Jobs
    /\ offer \in Offers
    /\ poll \in Polls

Init ==
    /\ ChainInit
    /\ StoreInit
    /\ thr = [th \in Threads |-> Idle]
    /\ job = NoJob
    /\ offer = NoOffer
    /\ poll = NoPoll

At(th, pc) == thr[th].pc = pc

(* Thread th returns from its call.                                        *)
Return(th) == thr' = [thr EXCEPT ![th] = Idle]

(* The App's signing call ends.                                            *)
ReturnFromSigning == Return(App) /\ job' = NoJob

(* A transaction is built and signed: it gets the next id.                 *)
Build(body) ==
    /\ nextTx <= MaxTx
    /\ txs' = [txs EXCEPT ![nextTx] = body]
    /\ nextTx' = nextTx + 1
    /\ UNCHANGED <<height, mempool, accepted, mined, matured, late, elsewhere>>

-----------------------------------------------------------------------------
(* Note split.                                                             *)

(* prepare_note_split: one output per denomination of the spendable        *)
(* balance; an error when nothing is spendable or the plan tops the cap.   *)
PrepareNoteSplit ==
    /\ "split" \in Calls
    /\ At(App, "idle")
    /\ Spendable # {}
    /\ \E k \in 0..MaxNotes :
        /\ Units(Spendable) = k
        /\ offer' = [kind |-> "split", count |-> k, amount |-> 0, target |-> 0]
    /\ UNCHANGED <<chainVars, storeVars, thr, job, poll>>

(* sign_note_split, up to its first write: the run is inserted before      *)
(* anything has been built.  It does not look for an active run.           *)
SignNoteSplitBegin ==
    /\ At(App, "idle")
    /\ offer.kind = "split"
    /\ nextTx <= MaxTx
    /\ \E r \in RunIds :
        /\ InsertRun(r, "preparing_denominations")
        /\ job' = [NoJob EXCEPT !.run = r, !.todo = offer.count]
    /\ thr' = [thr EXCEPT ![App].pc = "splitting"]
    /\ offer' = NoOffer
    /\ UNCHANGED <<chainVars, poll>>

(* Mutant: the split ignores the locks.                                    *)
SplitInputsUnlocked == Spendable

(* The notes build_split_pczt spends: all of them, less other runs' locks. *)
SplitInputs == Spendable \ LockedByOthers(job.run)

(* sign_split up to insert_prep_tx: the last output absorbs the difference *)
(* between the selected notes and the planned outputs, and may shrink to   *)
(* dust, but not to nothing.                                               *)
SignNoteSplitBuild ==
    /\ At(App, "splitting")
    /\ SplitInputs # {}
    /\ job.todo > 0
    /\ \E last \in 0..MaxMoney :
        /\ Units(SplitInputs) = (job.todo - 1) + last
        /\ Build([kind |-> "split", run |-> job.run, spends |-> SplitInputs,
                  outs |-> job.todo, last |-> last, sendAt |-> 0,
                  expiry |-> height + SplitWindow, batch |-> nextTx])
    /\ InsertPrepTx(job.run, nextTx)
    /\ thr' = [thr EXCEPT ![App].pc = "locking", ![App].tx = nextTx,
                          ![App].prepOf = job.run]
    /\ UNCHANGED <<job, offer, poll>>

(* sign_split fails before it wrote anything: nothing to spend, no outputs *)
(* planned, a last output driven to nothing or below (what the inputs hold *)
(* beyond whole units decides when it would be dust), or a proof, witness  *)
(* or database error.  The run inserted by SignNoteSplitBegin stays.       *)
SignNoteSplitFails ==
    /\ At(App, "splitting")
    /\ \/ SplitInputs = {}
       \/ job.todo = 0
       \/ Units(SplitInputs) < job.todo
       \/ "sign_error" \in Faults
    /\ ReturnFromSigning
    /\ UNCHANGED <<chainVars, storeVars, offer, poll>>

(* insert_prepared_notes; the call returns the split to the App, which     *)
(* will broadcast it.                                                      *)
SignNoteSplitLock ==
    /\ At(App, "locking")
    /\ InsertPreparedNotes(job.run, OutputsOf(thr[App].tx))
    /\ thr' = [thr EXCEPT ![App].pc = "fetched"]
    /\ job' = NoJob
    /\ UNCHANGED <<chainVars, offer, poll>>

(* insert_prepared_notes fails after some of its statements.               *)
SignNoteSplitLockFails ==
    /\ At(App, "locking")
    /\ "lock_error" \in Faults
    /\ \E S \in SUBSET OutputsOf(thr[App].tx) :
        /\ S # OutputsOf(thr[App].tx)
        /\ InsertPreparedNotes(job.run, S)
    /\ ReturnFromSigning
    /\ UNCHANGED <<chainVars, offer, poll>>

-----------------------------------------------------------------------------
(* Proposing and signing the schedule.                                     *)

(* The schedule for the current balance: one transfer per denomination,    *)
(* the first executable at the current target height.                      *)
FreshSchedule ==
    \E k \in 0..MaxNotes :
        /\ Units(Spendable) = k
        /\ offer' = [kind |-> "schedule", count |-> k, amount |-> 1, target |-> height]

ProposeMigrationTransfers ==
    /\ "private" \in Calls
    /\ At(App, "idle")
    /\ FreshSchedule
    /\ UNCHANGED <<chainVars, storeVars, thr, job, poll>>

(* The sweep: the whole balance in one transfer, none if it is all dust.   *)
(* Its probe applies no locks.                                             *)
ProposeImmediate ==
    /\ "immediate" \in Calls
    /\ At(App, "idle")
    /\ \E value \in 0..MaxMoney :
        /\ Units(Spendable) = value
        /\ offer' = [kind |-> "schedule", count |-> IF value > 0 THEN 1 ELSE 0,
                     amount |-> value, target |-> height]
    /\ UNCHANGED <<chainVars, storeVars, thr, job, poll>>

(* restart_current_migration_step: the active run's scheduled rows go,     *)
(* whatever became of their transactions, and the balance is proposed      *)
(* anew, which may fail.  refresh_stale_transfers is this call followed by *)
(* the signing of what it returned.                                        *)
RestartCurrentStep ==
    /\ "restart" \in Calls
    /\ At(App, "idle")
    /\ \/ \E r \in ActiveRuns : ClearScheduled({r})
       \/ ActiveRuns = {} /\ UNCHANGED storeVars
    /\ \/ FreshSchedule
       \/ "sign_error" \in Faults /\ UNCHANGED offer
    /\ UNCHANGED <<chainVars, thr, job, poll>>

(* sign_and_store_migration_schedule up to the first transfer: an empty    *)
(* schedule is refused; the active run is reused whatever its phase, else  *)
(* a run is inserted; the lock set and the target height are read once.    *)
SignScheduleBegin ==
    /\ At(App, "idle")
    /\ offer.kind = "schedule"
    /\ offer.count > 0
    /\ nextTx + offer.count <= MaxTx + 1
    /\ \E r \in RunIds :
        /\ \/ r \in ActiveRuns /\ UNCHANGED storeVars
           \/ ActiveRuns = {} /\ InsertRun(r, "ready_to_migrate")
        /\ job' = [run |-> r, todo |-> offer.count, amount |-> offer.amount,
                   sendAt |-> offer.target, avail |-> Spendable,
                   locks |-> LockedByOthers(r), batch |-> nextTx]
    /\ thr' = [thr EXCEPT ![App].pc = "signing"]
    /\ offer' = NoOffer
    /\ UNCHANGED <<chainVars, poll>>

(* What the wallet may select for the next transfer: the notes reserved by *)
(* earlier transfers are excluded from the selection, those locked by      *)
(* other runs are only dropped from its result.                            *)
WalletSelections == Selections(job.avail \cap Spendable, job.amount)

(* The selections that survive: what is left after dropping the locked     *)
(* notes must still cover the amount, for the selector asks again with the *)
(* same request, gets the same notes, and gives up.                        *)
TransferInputs ==
    {S \in {T \ job.locks : T \in WalletSelections} : Units(S) >= job.amount}

(* Nothing covers the amount, or a selection that would is spoilt by a     *)
(* locked note in it, even when enough unlocked notes were there to take.  *)
SelectionFails ==
    \/ WalletSelections = {}
    \/ \E T \in WalletSelections : Units(T \ job.locks) < job.amount

(* Mutant: the notes taken are not reserved for the rest of the call.      *)
SignTransferUnreserved ==
    /\ At(App, "signing")
    /\ job.todo > 0
    /\ \E S \in TransferInputs :
        Build([kind |-> "transfer", run |-> job.run, spends |-> S,
               outs |-> 0, last |-> 0, sendAt |-> job.sendAt,
               expiry |-> job.sendAt + Window, batch |-> job.batch])
    /\ job' = [job EXCEPT !.todo = @ - 1, !.sendAt = @ + Cadence]
    /\ InsertPendingTx(nextTx)
    /\ UNCHANGED <<thr, offer, poll>>

(* One transfer: notes neither locked by another run nor reserved by an    *)
(* earlier transfer of this call; the signed row is stored at once.        *)
SignTransfer ==
    /\ At(App, "signing")
    /\ job.todo > 0
    /\ \E S \in TransferInputs :
        /\ Build([kind |-> "transfer", run |-> job.run, spends |-> S,
                  outs |-> 0, last |-> 0, sendAt |-> job.sendAt,
                  expiry |-> job.sendAt + Window, batch |-> job.batch])
        /\ job' = [job EXCEPT !.todo = @ - 1, !.sendAt = @ + Cadence,
                              !.avail = @ \ S]
    /\ InsertPendingTx(nextTx)
    /\ UNCHANGED <<thr, offer, poll>>

(* The call fails at a transfer; the rows of the earlier ones stay, and    *)
(* the phase is not set.                                                   *)
SignScheduleFails ==
    /\ At(App, "signing")
    /\ job.todo > 0
    /\ SelectionFails \/ "sign_error" \in Faults
    /\ ReturnFromSigning
    /\ UNCHANGED <<chainVars, storeVars, offer, poll>>

SignScheduleEnd ==
    /\ At(App, "signing")
    /\ job.todo = 0
    /\ SetPhase(job.run, "broadcast_scheduled", NoError)
    /\ ReturnFromSigning
    /\ UNCHANGED <<chainVars, offer, poll>>

-----------------------------------------------------------------------------
(* Background delivery.                                                    *)

(* next_due_transfer.  The connection is not a transaction: each of its    *)
(* reads sees what other threads have written by then, and what it read    *)
(* before may no longer be so.  First the active run.  (Without one the    *)
(* call returns None, and changes nothing.)                                *)
NextDueBegin(w) ==
    /\ "deliver" \in Calls
    /\ At(w, "idle")
    /\ \E r \in ActiveRuns :
        thr' = [thr EXCEPT ![w].pc = "asking", ![w].run = r]
    /\ UNCHANGED <<chainVars, storeVars, job, offer, poll>>

(* The run's split, while its row is pending.                              *)
NextDueIsSplit(w) ==
    /\ At(w, "asking")
    /\ prep[thr[w].run].status = "pending"
    /\ thr' = [thr EXCEPT ![w] = [Idle EXCEPT !.pc = "fetched",
                                              !.tx = prep[thr[w].run].tx,
                                              !.prepOf = thr[w].run]]
    /\ UNCHANGED <<chainVars, storeVars, job, offer, poll>>

(* Mutant: goes on to the transfers without looking at the split.          *)
NextDueUnchecked(w) ==
    /\ At(w, "asking")
    /\ thr' = [thr EXCEPT ![w].pc = "checked"]
    /\ UNCHANGED <<chainVars, storeVars, job, offer, poll>>

(* No split, or one recorded as sent: on to the transfers.  The split may  *)
(* be stored, and transfers after it, before the due row is looked up.     *)
NextDueNoSplit(w) ==
    /\ At(w, "asking")
    /\ prep[thr[w].run].status # "pending"
    /\ thr' = [thr EXCEPT ![w].pc = "checked"]
    /\ UNCHANGED <<chainVars, storeVars, job, offer, poll>>

(* The wallet is opened, and asked for the target height.                  *)
NextDueTarget(w) ==
    /\ At(w, "checked")
    /\ thr' = [thr EXCEPT ![w].pc = "targeted", ![w].target = height]
    /\ UNCHANGED <<chainVars, storeVars, job, offer, poll>>

(* The next row due at that height, or None.                               *)
NextDueIsTransfer(w) ==
    /\ At(w, "targeted")
    /\ \E t \in NextDue(thr[w].run, thr[w].target) :
        thr' = [thr EXCEPT ![w] = [Idle EXCEPT !.pc = "fetched", !.tx = t]]
    /\ UNCHANGED <<chainVars, storeVars, job, offer, poll>>

NextDueNone(w) ==
    /\ At(w, "targeted")
    /\ DueRows(thr[w].run, thr[w].target) = {}
    /\ Return(w)
    /\ UNCHANGED <<chainVars, storeVars, job, offer, poll>>

(* The platform submits the transaction and the node takes it; the reply   *)
(* may still get lost.                                                     *)
BroadcastAccepted(th) ==
    /\ At(th, "fetched")
    /\ CanEnter(thr[th].tx)
    /\ mempool' = mempool \cup {thr[th].tx}
    /\ accepted' = accepted \cup {thr[th].tx}
    /\ \E a \in {"Success"} \cup IF "lost_reply" \in Faults
                                 THEN {"NetworkError"} ELSE {} :
        thr' = [thr EXCEPT ![th].pc = "answered", ![th].answer = a]
    /\ UNCHANGED <<height, txs, nextTx, mined, matured, late, elsewhere,
                   storeVars, job, offer, poll>>

(* The node has it already, refuses it, or is not reached.                 *)
BroadcastNotAccepted(th) ==
    /\ At(th, "fetched")
    /\ \E a \in (IF thr[th].tx \in mempool THEN {"Success"}
                                           ELSE Refusals(thr[th].tx))
                \cup (IF "unreachable" \in Faults THEN {"NetworkError"} ELSE {}) :
        thr' = [thr EXCEPT ![th].pc = "answered", ![th].answer = a]
    /\ UNCHANGED <<chainVars, storeVars, job, offer, poll>>

(* record_transfer_result.  All of it requires an active run, which need   *)
(* not be the run the transaction belongs to.                              *)
Answered(th, isPrep, answers) ==
    /\ At(th, "answered")
    /\ ActiveRuns # {}
    /\ isPrep <=> thr[th].prepOf # NoRun
    /\ thr[th].answer \in answers

(* Mutant: takes any answer for a success.                                 *)
RecordPrepSentAlways(th) ==
    /\ Answered(th, TRUE, Answers)
    /\ SetPrepBroadcasted(thr[th].prepOf)
    /\ thr' = [thr EXCEPT ![th].pc = "prepsent"]
    /\ UNCHANGED <<chainVars, job, offer, poll>>

(* A split that was sent: its row first, then the phase of its run.        *)
RecordPrepSent(th) ==
    /\ Answered(th, TRUE, {"Success"})
    /\ SetPrepBroadcasted(thr[th].prepOf)
    /\ thr' = [thr EXCEPT ![th].pc = "prepsent"]
    /\ UNCHANGED <<chainVars, job, offer, poll>>

RecordPrepPhase(th) ==
    /\ At(th, "prepsent")
    /\ SetPhase(thr[th].prepOf, "waiting_denom_confirmations", NoError)
    /\ Return(th)
    /\ UNCHANGED <<chainVars, job, offer, poll>>

(* Mutant: takes an unreached node for a success.                          *)
RecordTransferSentLost(th) ==
    /\ Answered(th, FALSE, {"Success", "NetworkError"})
    /\ MarkPending({thr[th].tx}, "broadcasted")
    /\ Return(th)
    /\ UNCHANGED <<chainVars, job, offer, poll>>

RecordTransferSent(th) ==
    /\ Answered(th, FALSE, {"Success"})
    /\ MarkPending({thr[th].tx}, "broadcasted")
    /\ Return(th)
    /\ UNCHANGED <<chainVars, job, offer, poll>>

(* Any other answer about a split, and a network error about a transfer,   *)
(* leave everything as it is.                                              *)
RecordNothing(th) ==
    /\ \/ Answered(th, TRUE, Answers \ {"Success"})
       \/ Answered(th, FALSE, {"NetworkError"})
    /\ Return(th)
    /\ UNCHANGED <<chainVars, storeVars, job, offer, poll>>

(* A refused transfer: which run is active was read first ...              *)
RecordRefusalBegin(th) ==
    /\ Answered(th, FALSE, {"InvalidNote", "Expired"})
    /\ \E r \in ActiveRuns :
        thr' = [thr EXCEPT ![th].pc = "refusing", ![th].run = r]
    /\ UNCHANGED <<chainVars, storeVars, job, offer, poll>>

(* ... and that run is stopped.                                            *)
RecordTransferRefused(th) ==
    /\ At(th, "refusing")
    /\ SetPhase(thr[th].run, "failed_recoverable",
                [kind |-> IF thr[th].answer = "Expired" THEN "expired"
                                                        ELSE "invalid_note",
                 tx |-> thr[th].tx])
    /\ Return(th)
    /\ UNCHANGED <<chainVars, job, offer, poll>>

-----------------------------------------------------------------------------
(* migration_state.                                                        *)

SplitPhases == {"preparing_denominations", "waiting_denom_confirmations"}
SendingPhases == {"broadcast_scheduled", "broadcasting",
                  "waiting_migration_confirmations"}

(* state.rs, to_state *)
ToState(p) ==
    CASE p \in {"no_orchard_funds", "waiting_for_spendable_orchard",
                "ready_to_prepare", "abandoned"} -> "NotStarted"
      [] p \in SplitPhases -> "SplitPendingConfirmation"
      [] p = "ready_to_migrate" -> "ReadyToPropose"
      [] p \in SendingPhases \cup {"paused"} -> "InProgress"
      [] p = "complete" -> "Complete"
      [] p \in {"failed_recoverable", "failed_terminal"} -> "RequiresAttention"

Polling == poll.phase # Absent

Result(state, reason) ==
    poll' = [NoPoll EXCEPT !.run = poll.run, !.error = reason, !.state = state]

(* The active run and its phase are read first; what follows uses them     *)
(* whatever other threads write in the meantime.                           *)
StateBegin ==
    /\ "state" \in Calls
    /\ ~Polling
    /\ \E r \in ActiveRuns :
        poll' = [run |-> r, phase |-> phase[r], error |-> lastError[r],
                 totals |-> "uncounted", state |-> "none"]
    /\ UNCHANGED <<chainVars, storeVars, thr, job, offer>>

(* Mutant: does not ask the wallet.                                        *)
SeenSent ==
    IF poll.phase \in SendingPhases THEN BroadcastedOf(poll.run) ELSE {}

(* The sent transfers of a sending run that the wallet has seen mined.     *)
SeenMined ==
    IF poll.phase \in SendingPhases THEN BroadcastedOf(poll.run) \cap mined ELSE {}

(* pending_totals after that: total > 0 and confirmed = total.             *)
AllConfirmed(newly) ==
    /\ RowsOf(poll.run) # {}
    /\ \A t \in RowsOf(poll.run) : pending[t] = "confirmed" \/ t \in newly

(* Those transfers become confirmed, and the run's rows are counted.       *)
StateReconciles ==
    /\ Polling
    /\ poll.totals = "uncounted"
    /\ MarkPending(SeenMined, "confirmed")
    /\ poll' = [poll EXCEPT !.totals = IF AllConfirmed(SeenMined)
                                       THEN "confirmed" ELSE "open"]
    /\ UNCHANGED <<chainVars, thr, job, offer>>

(* Mutant: advances as soon as the split is signed.                        *)
SplitDoneUnmined ==
    /\ poll.phase \in SplitPhases
    /\ prep[poll.run].tx # NoTx
    /\ Spendable # {}

(* The split is mined and something is spendable: the run advances.        *)
SplitDone ==
    /\ poll.phase \in SplitPhases
    /\ prep[poll.run].tx \in mined
    /\ Spendable # {}

StateAdvances ==
    /\ Polling
    /\ poll.totals # "uncounted"
    /\ SplitDone
    /\ SetPhase(poll.run, "ready_to_migrate", NoError)
    /\ Result("ReadyToPropose", NoError)
    /\ UNCHANGED <<chainVars, thr, job, offer>>

(* Mutant: does not look at the balance.                                   *)
StateReportsUnswept ==
    /\ Polling
    /\ poll.totals # "uncounted"
    /\ ~SplitDone
    /\ Result(IF ToState(poll.phase) = "InProgress" /\ poll.totals = "confirmed"
              THEN "Complete" ELSE ToState(poll.phase), NoError)
    /\ UNCHANGED <<chainVars, storeVars, thr, job, offer>>

(* An in-progress run all of whose rows were confirmed, with nothing       *)
(* spendable left in Orchard, reads Complete, a state that is not          *)
(* persisted.                                                              *)
StateReports ==
    LET mapped == ToState(poll.phase)
        complete == /\ mapped = "InProgress"
                    /\ poll.totals = "confirmed"
                    /\ Spendable = {}
                    /\ IronwoodReceived
    IN  /\ Polling
        /\ poll.totals # "uncounted"
        /\ ~SplitDone
        /\ Result(IF complete THEN "Complete" ELSE mapped,
                  IF mapped = "RequiresAttention" THEN poll.error ELSE NoError)
        /\ UNCHANGED <<chainVars, storeVars, thr, job, offer>>

-----------------------------------------------------------------------------
(* The process dies: every call in progress, every result not recorded and *)
(* every proposal not signed is lost.                                      *)
Crash ==
    /\ "crash" \in Faults
    /\ thr' = [th \in Threads |-> Idle]
    /\ job' = NoJob
    /\ offer' = NoOffer
    /\ poll' = NoPoll
    /\ UNCHANGED <<chainVars, storeVars>>

Environment == ChainStep /\ UNCHANGED <<storeVars, ctxVars>>

AppStep ==
    \/ PrepareNoteSplit
    \/ SignNoteSplitBegin
    \/ SignNoteSplitBuild
    \/ SignNoteSplitFails
    \/ SignNoteSplitLock
    \/ SignNoteSplitLockFails
    \/ ProposeMigrationTransfers
    \/ ProposeImmediate
    \/ RestartCurrentStep
    \/ SignScheduleBegin
    \/ SignTransfer
    \/ SignScheduleFails
    \/ SignScheduleEnd

NextDueTransfer(w) ==
    \/ NextDueBegin(w)
    \/ NextDueIsSplit(w)
    \/ NextDueNoSplit(w)
    \/ NextDueTarget(w)
    \/ NextDueIsTransfer(w)
    \/ NextDueNone(w)

DeliveryStep(th) ==
    \/ BroadcastAccepted(th)
    \/ BroadcastNotAccepted(th)
    \/ RecordPrepSent(th)
    \/ RecordPrepPhase(th)
    \/ RecordTransferSent(th)
    \/ RecordNothing(th)
    \/ RecordRefusalBegin(th)
    \/ RecordTransferRefused(th)

StateStep == StateBegin \/ StateReconciles \/ StateAdvances \/ StateReports

Next ==
    \/ AppStep
    \/ \E w \in Workers : NextDueTransfer(w)
    \/ \E th \in Threads : DeliveryStep(th)
    \/ StateStep
    \/ Crash
    \/ Environment

Spec == Init /\ [][Next]_vars
=============================================================================
