------------------------------ MODULE MigrationApp ------------------------------
(***************************************************************************)
(* The engine under the app it was written for: the platform's loop, which *)
(* calls migration_state "on launch and after every operation"             *)
(* (context.rs:94), shows what it returned, and offers the one operation   *)
(* that state calls for.  MigrationContext allows any call at any time;    *)
(* here its calls come in the order of the app's screens, which is what    *)
(* makes it meaningful to ask that a migration gets anywhere.              *)
(***************************************************************************)
EXTENDS MigrationProperties

CONSTANT
    MaxCrashes     \* bound: how often the operating system kills the app

ASSUME AppAssumption == MaxCrashes \in Nat

VARIABLES
    fresh,         \* migration_state was called since the last operation
    crashes        \* how often the app was killed

appVars == <<vars, fresh, crashes>>

AppInit == Init /\ fresh = FALSE /\ crashes = 0

-----------------------------------------------------------------------------
(* What the screens are chosen by.                                         *)

Told(s) == fresh /\ ~Polling /\ poll.state = s

(* is_note_split_needed: no run has got past ready_to_prepare, and there   *)
(* is something to split.                                                  *)
PreSplitPhases ==
    {"no_orchard_funds", "waiting_for_spendable_orchard", "ready_to_prepare"}
IsNoteSplitNeeded ==
    /\ \A r \in ActiveRuns : phase[r] \in PreSplitPhases
    /\ Spendable # {}

PreSchedulePhases == PreSplitPhases \cup SplitPhases \cup {"ready_to_migrate"}

(* Mutant: asks whether the run ever had a transfer.                       *)
HasNoTransfers ==
    \E r \in ActiveRuns :
        phase[r] \notin PreSchedulePhases /\ RowsOf(r) = {} /\ Spendable # {}

(* has_invalid_transfers: once there should be a schedule, nothing is      *)
(* queued although something is spendable.                                 *)
HasInvalidTransfers ==
    \E r \in ActiveRuns :
        /\ phase[r] \notin PreSchedulePhases
        /\ \A t \in RowsOf(r) : pending[t] = "confirmed"
        /\ Spendable # {}

NeedsRestart ==
    \/ Told("RequiresAttention")
    \/ Told("InProgress") /\ HasInvalidTransfers

-----------------------------------------------------------------------------
(* The foreground: one operation per screen, each confirmed by the user.   *)
(* An operation that signs makes the last answer of migration_state old.   *)

(* Mutant: offers a split whenever there is something to split.            *)
StartSplitAnytime ==
    /\ ~Polling /\ Spendable # {} /\ offer = NoOffer
    /\ PrepareNoteSplit
    /\ UNCHANGED fresh

StartSplit ==
    /\ Told("NotStarted") /\ IsNoteSplitNeeded /\ offer = NoOffer
    /\ PrepareNoteSplit
    /\ UNCHANGED fresh

PlanTransfers ==
    /\ Told("ReadyToPropose") /\ offer.count = 0
    /\ ProposeMigrationTransfers
    /\ UNCHANGED fresh

Recover ==
    /\ NeedsRestart /\ offer.count = 0
    /\ RestartCurrentStep
    /\ UNCHANGED fresh

Confirm ==
    /\ ~Polling
    /\ SignNoteSplitBegin \/ SignScheduleBegin
    /\ fresh' = FALSE

Sign ==
    /\ \/ SignNoteSplitBuild \/ SignNoteSplitFails
       \/ SignNoteSplitLock \/ SignNoteSplitLockFails
       \/ SignTransfer \/ SignScheduleFails \/ SignScheduleEnd
    /\ UNCHANGED fresh

Foreground ==
    (StartSplit \/ PlanTransfers \/ Recover \/ Confirm \/ Sign) /\ UNCHANGED crashes

-----------------------------------------------------------------------------
(* migration_state is called by the foreground between its operations.     *)
Ask ==
    /\ \/ /\ StateBegin
          /\ At(App, "idle")
          /\ UNCHANGED fresh
       \/ /\ StateReconciles
          /\ UNCHANGED fresh
       \/ /\ StateAdvances \/ StateReports
          /\ fresh' = TRUE
       \/ /\ ActiveRuns = {} /\ At(App, "idle") /\ ~Polling    \* NotStarted
          /\ fresh' = TRUE
          /\ UNCHANGED vars
    /\ UNCHANGED crashes

(* The background delivery, and the foreground sending the split it signed.*)
Fetch(w) == NextDueTransfer(w) /\ UNCHANGED <<fresh, crashes>>

Broadcast(th) ==
    (BroadcastAccepted(th) \/ BroadcastNotAccepted(th)) /\ UNCHANGED <<fresh, crashes>>

Record(th) ==
    /\ \/ RecordPrepSent(th) \/ RecordPrepPhase(th) \/ RecordTransferSent(th)
       \/ RecordNothing(th) \/ RecordRefusalBegin(th) \/ RecordTransferRefused(th)
    /\ UNCHANGED <<fresh, crashes>>

Killed ==
    /\ crashes < MaxCrashes
    /\ Crash
    /\ fresh' = FALSE
    /\ crashes' = crashes + 1

World == Environment /\ UNCHANGED <<fresh, crashes>>

AppNext ==
    \/ Foreground
    \/ Ask
    \/ \E w \in Workers : Fetch(w)
    \/ \E th \in Threads : Broadcast(th) \/ Record(th)
    \/ Killed
    \/ World

-----------------------------------------------------------------------------
(* Fairness.  The app goes on: it asks, acts on the answer (the user       *)
(* confirms what is offered, between polls), delivers, and reports what it *)
(* learnt.  The network works from time to time: a thread that keeps       *)
(* trying gets its answer through.  The chain grows, mines what it holds   *)
(* and confirms what it mined.                                             *)
Answering(th) == Broadcast(th) /\ thr'[th].answer # "NetworkError"
BlockMined(t) == Mine(t) /\ UNCHANGED <<storeVars, ctxVars, fresh, crashes>>
Confirmation ==
    /\ (\E t \in TxIds : Mature(t)) \/ (\E n \in Genesis : NoteConfirms(n))
    /\ UNCHANGED <<storeVars, ctxVars, fresh, crashes>>
Growth == Tick /\ UNCHANGED <<storeVars, ctxVars, fresh, crashes>>

Fairness ==
    /\ SF_appVars(Foreground)
    /\ WF_appVars(Ask)
    /\ \A w \in Workers : WF_appVars(Fetch(w))
    /\ \A th \in Threads : /\ WF_appVars(Broadcast(th))
                           /\ SF_appVars(Answering(th))
                           /\ WF_appVars(Record(th))
    /\ \A t \in TxIds : WF_appVars(BlockMined(t))
    /\ WF_appVars(Confirmation)
    /\ WF_appVars(Growth)

AppSpec == AppInit /\ [][AppNext]_appVars /\ Fairness

-----------------------------------------------------------------------------
(* The dead ends: states of the tables from which no call of the app leads *)
(* on, because nothing in the code repairs them.                           *)

(* The app was killed, or signing failed, after the run was inserted.      *)
SplitNeverSigned ==
    \E r \in RunIds : phase[r] # Absent /\ ~HasSplit(r) /\ job.run # r

(* The split was mined, but its Success never recorded: its row stays      *)
(* pending, and next_due_transfer hands out nothing else.                  *)
SplitNeverRecorded ==
    \E r \in RunIds : prep[r].status = "pending" /\ prep[r].tx \in mined

(* A transaction left the node unmined; no call signs a split again, and   *)
(* none gives up a row that reads broadcasted.                             *)
Gone(t) == t \notin mined /\ (height > txs[t].expiry \/ txs[t].spends \cap MinedSpends # {})
SplitLost == \E r \in RunIds : HasSplit(r) /\ Gone(prep[r].tx)
TransferLost == \E t \in TxIds : pending[t] = "broadcasted" /\ Gone(t)

(* The run's transfers went out while its phase lags behind them: signing  *)
(* was interrupted before the phase was set, or a late report of the split *)
(* set it back, maybe after a restart cleared the rows.  With nothing left *)
(* to sign, nothing sets it right.                                         *)
PhaseBehind ==
    \E r \in RunIds :
        /\ phase[r] \in {"waiting_denom_confirmations", "ready_to_migrate"}
        /\ job.run # r
        /\ \E t \in Transfers(mined) : txs[t].run = r
        /\ Spendable = {}

(* A transfer was refused because it is mined already, and nothing is left *)
(* to propose: an empty schedule is not signed, and the run stays failed.  *)
NothingToRestart ==
    \E r \in RunIds : phase[r] = "failed_recoverable" /\ Spendable = {}

DeadEnd ==
    \/ SplitNeverSigned \/ SplitNeverRecorded \/ SplitLost \/ TransferLost
    \/ PhaseBehind \/ NothingToRestart

(* The user confirms a proposal, and the instance has run out of ids.      *)
OutOfIds ==
    nextTx + (IF offer.kind = "schedule" THEN offer.count ELSE 1) > MaxTx + 1
        /\ offer.count > 0

(* A migration completes, and completes again whenever something more is   *)
(* found to migrate, unless it meets one of the dead ends: killed,         *)
(* interrupted, refused, expired or unanswered anywhere else, the app's    *)
(* loop brings it to Complete (context.rs:96-168, 388-527).                *)
MigrationCompletes ==
    (ActiveRuns # {}) ~> (Told("Complete") \/ DeadEnd \/ OutOfIds)

SplitMined(r) == HasSplit(r) /\ prep[r].tx \in mined

(* The app never has two migrations at once, so a refused transfer stops   *)
(* the run it belongs to (context.rs:461 stops the active run), a result   *)
(* reaches its own run, and no run's locks stand in another's way.         *)
OneMigration ==
    /\ \A r, s \in LiveRuns : r = s
    /\ \A r \in RunIds : lastError[r].tx # NoTx => txs[lastError[r].tx].run = r

-----------------------------------------------------------------------------
(* "The note-split (prep) transaction must broadcast and confirm before    *)
(* any transfer" (context.rs:396).  A caller that proposes transfers at    *)
(* any time breaks this; the app keeps it, killed, refused or late as it   *)
(* may be, because it signs nothing before migration_state told it to, and *)
(* what it was told stays true.                                            *)
TransfersAfterSplit == \A t \in Transfers(TxIds) : SplitMined(txs[t].run)

(* types.rs:132, RequiresAttention: "A transfer cannot proceed             *)
(* automatically; the app must act", and context.rs:131-132: "a broadcast  *)
(* whose result wasn't recorded still advances".  So a transfer that is    *)
(* due is sent, given up, or the user is told.                             *)
StuckTransfersNeedAttention ==
    \A t \in TxIds :
        (pending[t] = "scheduled" /\ txs[t].sendAt <= height)
            ~> (pending[t] # "scheduled" \/ poll.state = "RequiresAttention")

-----------------------------------------------------------------------------
(* The inductive invariant behind OneMigration and TransfersAfterSplit:    *)
(* there is one run at most, it gets past its split only once that is      *)
(* mined, and what the app holds (an offer, a signing call, an answer of   *)
(* migration_state) was true when it was obtained and still is.            *)

SomeSplitMined == \E r \in RunIds : SplitMined(r)

PastSplit == {"ready_to_migrate", "broadcast_scheduled", "failed_recoverable"}

OneRun == \A r, s \in RunIds : phase[r] # Absent /\ phase[s] # Absent => r = s

RunsInOrder ==
    \A r \in RunIds :
        /\ phase[r] \in PastSplit => SplitMined(r)
        /\ lastError[r].tx # NoTx => /\ lastError[r].tx \in Built
                                    /\ txs[lastError[r].tx].run = r

OffersInOrder ==
    /\ offer.kind = "split" => \A r \in RunIds : phase[r] = Absent
    /\ offer.kind = "schedule" => SomeSplitMined
    /\ At(App, "signing") => SplitMined(job.run)

AnswersInOrder ==
    /\ poll.phase \in WrittenPhases
    /\ poll.phase \in PastSplit => SomeSplitMined
    /\ poll.state \in {"ReadyToPropose", "RequiresAttention"} => SomeSplitMined
    /\ fresh /\ poll.state = "NotStarted" => \A r \in RunIds : phase[r] = Absent

AppInv ==
    /\ fresh \in BOOLEAN
    /\ OneRun
    /\ RunsInOrder
    /\ OffersInOrder
    /\ AnswersInOrder
    /\ TransfersAfterSplit
=============================================================================
