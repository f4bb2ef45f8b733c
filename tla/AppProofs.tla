------------------------------- MODULE AppProofs -------------------------------
(***************************************************************************)
(* The engine under the app's loop: every step of the loop is a step the   *)
(* facade allows, so what MigrationProofs and CompletionProofs establish   *)
(* of any caller holds of the app; and by asking before it acts the app    *)
(* keeps what the facade alone does not: one migration at a time, and no   *)
(* transfer signed before the split is mined.                              *)
(***************************************************************************)
EXTENDS MigrationApp, CompletionProofs

USE ChainAssumption, StoreAssumption, ContextAssumption DEF TxIds, NoTx

(* What the engine does under the app, apart from the two calls that the   *)
(* user confirms.                                                          *)
Unconfirmed ==
  \/ PrepareNoteSplit \/ ProposeMigrationTransfers \/ RestartCurrentStep
  \/ SignNoteSplitBuild \/ SignNoteSplitFails \/ SignNoteSplitLock
  \/ SignNoteSplitLockFails \/ SignTransfer \/ SignScheduleFails \/ SignScheduleEnd
  \/ \E w \in Workers : NextDueTransfer(w)
  \/ \E th \in Threads : DeliveryStep(th)
  \/ StateStep \/ Crash \/ Environment \/ UNCHANGED vars

(* A step of the app is a step of the engine.                              *)
LEMMA AppStepIsStep ==
  ASSUME [AppNext]_appVars
  PROVE  /\ Confirm \/ Unconfirmed
         /\ [Next]_vars
<1>1. Confirm \/ Unconfirmed
  <2>1. CASE Foreground
    BY <2>1 DEF Foreground, StartSplit, PlanTransfers, Recover, Sign, Unconfirmed
  <2>2. CASE Ask
    BY <2>2 DEF Ask, StateStep, Unconfirmed
  <2>3. ASSUME NEW th \in Threads, Broadcast(th) \/ Record(th) PROVE Unconfirmed
    BY <2>3 DEF Broadcast, Record, DeliveryStep, Unconfirmed
  <2>4. CASE (\E w \in Workers : Fetch(w)) \/ Killed \/ World \/ UNCHANGED appVars
    BY <2>4 DEF Fetch, Killed, World, appVars, Unconfirmed
  <2> QED
    BY <2>1, <2>2, <2>3, <2>4 DEF AppNext
<1> QED
  BY <1>1 DEF Confirm, Unconfirmed, Next, AppStep

(* The app's loop under the engine: whatever holds of the engine, however  *)
(* it is called, holds of the app.                                         *)
THEOREM AppImplementsEngine == AppSpec => Spec
<1>1. AppInit => Init
  BY DEF AppInit
<1>2. [AppNext]_appVars => [Next]_vars
  BY AppStepIsStep
<1> QED
  BY <1>1, <1>2, PTL DEF AppSpec, Spec

-----------------------------------------------------------------------------
(* Steps of the engine, as far as the app's invariant looks at them.       *)

(* A run keeps its split, and a mined split stays mined.                   *)
LEMMA SplitStays ==
  ASSUME IInv, [Next]_vars, NEW r \in RunIds, HasSplit(r)
  PROVE  /\ prep'[r].tx = prep[r].tx
         /\ SplitMined(r) => SplitMined(r)'
<1> USE DEF IInv, TypeOK, StoreTypeOK
<1>1. prep'[r].tx = prep[r].tx
  <2>1. CASE UNCHANGED prep
    BY <2>1
  <2>2. CASE SignNoteSplitBuild
    <3>1. r # job.run
      BY <2>2 DEF SignNoteSplitBuild, SigningInv, HasSplit, NoPrep
    <3> QED
      BY <2>2, <3>1 DEF SignNoteSplitBuild, InsertPrepTx
  <2>3. ASSUME NEW th \in Threads, RecordPrepSent(th)
        PROVE  prep'[r].tx = prep[r].tx
    BY <2>3 DEF RecordPrepSent, SetPrepBroadcasted, PrepRows
  <2>4. CASE ~SignNoteSplitBuild /\ ~(\E th \in Threads : RecordPrepSent(th))
    BY <2>4 DEF Next, AppStep, PrepareNoteSplit, SignNoteSplitBegin,
       SignNoteSplitFails, SignNoteSplitLock, SignNoteSplitLockFails,
       ProposeMigrationTransfers, ProposeImmediate, RestartCurrentStep,
       SignScheduleBegin, SignTransfer, SignScheduleFails, SignScheduleEnd,
       NextDueTransfer, NextDueBegin, NextDueIsSplit, NextDueNoSplit,
       NextDueTarget, NextDueIsTransfer, NextDueNone, DeliveryStep,
       BroadcastAccepted, BroadcastNotAccepted, RecordPrepPhase,
       RecordTransferSent, RecordNothing, RecordRefusalBegin,
       RecordTransferRefused, StateStep, StateBegin, StateReconciles,
       StateAdvances, StateReports, Crash, Environment, InsertRun,
       InsertPreparedNotes, InsertPendingTx, ClearScheduled, MarkPending,
       SetPhase, vars, storeVars
  <2> QED
    BY <2>2, <2>3, <2>4
<1> QED
  BY <1>1, StepKeeps DEF SplitMined, HasSplit, Onwards

(* A transaction stays what it is; a new transfer belongs to the run that  *)
(* is being signed for.                                                    *)
LEMMA TransferStep ==
  ASSUME IInv, [Next]_vars, NEW t \in TxIds, txs'[t].kind = "transfer"
  PROVE  \/ t \in Built /\ txs[t].kind = "transfer" /\ txs'[t] = txs[t]
         \/ At(App, "signing") /\ txs'[t].run = job.run
<1>1. CASE t \in Built
  BY <1>1, StepKeeps DEF SameBuilt
<1>2. CASE t \notin Built
  <2>1. txs[t].kind # "transfer"
    BY <1>2 DEF IInv, ChainInv, Built, Unbuilt, TypeOK, ChainTypeOK
  <2>2. txs' # txs
    BY <2>1
  <2>3. SignNoteSplitBuild \/ SignTransfer
    BY <2>2 DEF Next, AppStep, PrepareNoteSplit, SignNoteSplitBegin,
       SignNoteSplitFails, SignNoteSplitLock, SignNoteSplitLockFails,
       ProposeMigrationTransfers, ProposeImmediate, RestartCurrentStep,
       SignScheduleBegin, SignScheduleFails, SignScheduleEnd, NextDueTransfer,
       NextDueBegin, NextDueIsSplit, NextDueNoSplit, NextDueTarget,
       NextDueIsTransfer, NextDueNone, DeliveryStep, BroadcastAccepted,
       BroadcastNotAccepted, RecordPrepSent, RecordPrepPhase,
       RecordTransferSent, RecordNothing, RecordRefusalBegin,
       RecordTransferRefused, StateStep, StateBegin, StateReconciles,
       StateAdvances, StateReports, Crash, Environment, ChainStep, Mine,
       Mature, NoteConfirms, SpendElsewhere, Tick, 
       chainVars, vars
  <2>4. CASE SignNoteSplitBuild
    <3>1. PICK body : Build(body) /\ body.kind = "split"
      <4>1. PICK last : Build([kind |-> "split", run |-> job.run, spends |-> SplitInputs,
                               outs |-> job.todo, last |-> last, sendAt |-> 0,
                               expiry |-> height + SplitWindow, batch |-> nextTx])
        BY <2>4 DEF SignNoteSplitBuild
      <4> QED
        BY <4>1
    <3> QED
      BY <2>1, <3>1, OneMoreTx
  <2>5. CASE SignTransfer
    <3>1. PICK body : Build(body) /\ body.run = job.run
      <4>1. PICK S : Build([kind |-> "transfer", run |-> job.run, spends |-> S,
                            outs |-> 0, last |-> 0, sendAt |-> job.sendAt,
                            expiry |-> job.sendAt + Window, batch |-> job.batch])
        BY <2>5 DEF SignTransfer
      <4> QED
        BY <4>1
    <3> QED
      BY <2>1, <2>5, <3>1, OneMoreTx DEF SignTransfer
  <2> QED
    BY <2>3, <2>4, <2>5
<1> QED
  BY <1>1, <1>2

(* What an unconfirmed step does to a run: no run appears.                 *)
LEMMA RunStep ==
  ASSUME IInv, RowInv, Unconfirmed, NEW r \in RunIds
  PROVE  \/ phase'[r] = phase[r] /\ lastError'[r] = lastError[r]
         \/ /\ phase[r] # Absent /\ lastError'[r] = NoError
            /\ \/ phase'[r] = "waiting_denom_confirmations"
               \/ phase'[r] = "broadcast_scheduled" /\ At(App, "signing") /\ r = job.run
               \/ phase'[r] = "ready_to_migrate" /\ SplitMined(r)
         \/ /\ phase[r] # Absent /\ phase'[r] = "failed_recoverable"
            /\ lastError'[r].tx \in Transfers(Built)
<1> USE DEF IInv, TypeOK, StoreTypeOK
<1>1. CASE UNCHANGED <<phase, lastError>>
  BY <1>1
<1>2. CASE SignScheduleEnd
  <2>1. phase[job.run] # Absent
    BY <1>2 DEF SignScheduleEnd, SigningInv
  <2> QED
    BY <1>2, <2>1 DEF SignScheduleEnd, SetPhase
<1>3. ASSUME NEW th \in Threads, RecordPrepPhase(th)
      PROVE  \/ phase'[r] = phase[r] /\ lastError'[r] = lastError[r]
             \/ /\ phase[r] # Absent /\ lastError'[r] = NoError
                /\ phase'[r] = "waiting_denom_confirmations"
  <2>1. thr[th].prepOf \in RunIds /\ HasSplit(thr[th].prepOf)
    <3>1. thr[th].prepOf # NoRun /\ thr[th].tx \in Built
          /\ prep[thr[th].prepOf].tx = thr[th].tx
      BY <1>3 DEF RecordPrepPhase, At, CarriedInv
    <3> QED
      BY <3>1 DEF HasSplit, Built, ThreadStates
  <2>2. phase[thr[th].prepOf] # Absent
    BY <2>1 DEF RunInv, HasSplit, NoPrep
  <2> QED
    BY <1>3, <2>1, <2>2 DEF RecordPrepPhase, SetPhase
<1>4. ASSUME NEW th \in Threads, RecordTransferRefused(th)
      PROVE  \/ phase'[r] = phase[r] /\ lastError'[r] = lastError[r]
             \/ /\ phase[r] # Absent /\ phase'[r] = "failed_recoverable"
                /\ lastError'[r].tx \in Transfers(Built)
  <2>1. thr[th].tx \in Transfers(Built)
    BY <1>4 DEF RecordTransferRefused, At, CarriedInv, RowInv, Carrying, Transfers
  <2>2. /\ thr[th].run \in RunIds /\ phase[thr[th].run] # Absent
        /\ \E kind : SetPhase(thr[th].run, "failed_recoverable",
                             [kind |-> kind, tx |-> thr[th].tx])
    BY <1>4 DEF RecordTransferRefused, At, CarriedInv
  <2> QED
    BY <2>1, <2>2 DEF SetPhase
<1>5. CASE StateAdvances
  <2>1. poll.run \in RunIds /\ SplitMined(poll.run)
    BY <1>5 DEF StateAdvances, SplitDone, CarriedInv, SplitMined, HasSplit, ChainTypeOK
  <2>2. phase[poll.run] # Absent
    BY <2>1 DEF SplitMined, RunInv, HasSplit, NoPrep
  <2> QED
    BY <1>5, <2>1, <2>2 DEF StateAdvances, SetPhase
<1>6. CASE \/ PrepareNoteSplit \/ ProposeMigrationTransfers \/ RestartCurrentStep
           \/ SignNoteSplitBuild \/ SignNoteSplitFails \/ SignNoteSplitLock
           \/ SignNoteSplitLockFails \/ SignTransfer \/ SignScheduleFails
           \/ (\E w \in Workers : NextDueTransfer(w))
           \/ (\E th \in Threads : \/ BroadcastAccepted(th) \/ BroadcastNotAccepted(th)
                                   \/ RecordPrepSent(th) \/ RecordTransferSent(th)
                                   \/ RecordNothing(th) \/ RecordRefusalBegin(th))
           \/ StateBegin \/ StateReconciles \/ StateReports
           \/ Crash \/ Environment \/ UNCHANGED vars
  <2>1. UNCHANGED <<phase, lastError>>
    BY <1>6 DEF PrepareNoteSplit, ProposeMigrationTransfers,
       RestartCurrentStep, SignNoteSplitBuild, SignNoteSplitFails,
       SignNoteSplitLock, SignNoteSplitLockFails, SignTransfer,
       SignScheduleFails, NextDueTransfer, NextDueBegin, NextDueIsSplit,
       NextDueNoSplit, NextDueTarget, NextDueIsTransfer, NextDueNone,
       BroadcastAccepted, BroadcastNotAccepted, RecordPrepSent,
       RecordTransferSent, RecordNothing, RecordRefusalBegin, StateBegin, StateReconciles,
       StateReports, Crash, Environment, InsertPrepTx, SetPrepBroadcasted,
       InsertPreparedNotes, InsertPendingTx, ClearScheduled, MarkPending, vars,
       storeVars
  <2> QED
    BY <1>1, <2>1
<1> QED
  BY <1>2, <1>3, <1>4, <1>5, <1>6 DEF Unconfirmed, DeliveryStep, StateStep

(* What an unconfirmed step does to what the app holds: it is offered only *)
(* what the last answer of migration_state calls for.                      *)
LEMMA OfferStep ==
  ASSUME [AppNext]_appVars, ~Confirm
  PROVE  \/ offer' = offer
         \/ offer'.kind = "none"
         \/ offer'.kind = "split" /\ Told("NotStarted")
         \/ offer'.kind = "schedule" /\ (Told("ReadyToPropose") \/ NeedsRestart)
<1>1. CASE Foreground
  <2>1. CASE StartSplit
    BY <2>1 DEF StartSplit, PrepareNoteSplit
  <2>2. CASE PlanTransfers
    BY <2>2 DEF PlanTransfers, ProposeMigrationTransfers, FreshSchedule
  <2>3. CASE Recover
    <3>1. FreshSchedule \/ UNCHANGED offer
      BY <2>3 DEF Recover, RestartCurrentStep
    <3> QED
      BY <2>3, <3>1 DEF Recover, FreshSchedule
  <2>4. CASE Sign
    BY <2>4 DEF Sign, SignNoteSplitBuild, SignNoteSplitFails, SignNoteSplitLock,
       SignNoteSplitLockFails, SignTransfer, SignScheduleFails, SignScheduleEnd
  <2> QED
    BY <1>1, <2>1, <2>2, <2>3, <2>4 DEF Foreground
<1>2. CASE Ask
  BY <1>2 DEF Ask, StateBegin, StateReconciles, StateAdvances, StateReports, vars, ctxVars
<1>3. ASSUME NEW th \in Threads, Broadcast(th) \/ Record(th) PROVE offer' = offer
  BY <1>3 DEF Broadcast, Record, BroadcastAccepted, BroadcastNotAccepted,
     RecordPrepSent, RecordPrepPhase, RecordTransferSent, RecordNothing,
     RecordRefusalBegin, RecordTransferRefused
<1>4. CASE Killed
  BY <1>4 DEF Killed, Crash, NoOffer
<1>5. CASE (\E w \in Workers : Fetch(w)) \/ World \/ UNCHANGED appVars
  BY <1>5 DEF Fetch, NextDueTransfer, NextDueBegin, NextDueIsSplit,
     NextDueNoSplit, NextDueTarget, NextDueIsTransfer, NextDueNone, World,
     Environment, appVars, vars, ctxVars
<1> QED
  BY <1>1, <1>2, <1>3, <1>4, <1>5 DEF AppNext

(* migration_state's answer becomes fresh only when it returns, or when    *)
(* there is nothing to ask about.                                          *)
LEMMA FreshStep ==
  ASSUME [AppNext]_appVars
  PROVE  \/ UNCHANGED fresh
         \/ fresh' = FALSE
         \/ fresh' = TRUE /\ (StateAdvances \/ StateReports)
         \/ fresh' = TRUE /\ ActiveRuns = {} /\ UNCHANGED vars
<1>1. CASE Foreground
  <2>1. UNCHANGED fresh \/ fresh' = FALSE
    BY <1>1, Zenon DEF Foreground, StartSplit, PlanTransfers, Recover, Confirm, Sign
  <2> QED
    BY <2>1, Zenon
<1>2. CASE Ask
  BY <1>2, Zenon DEF Ask
<1>3. CASE \/ \E w \in Workers : Fetch(w)
           \/ \E th \in Threads : Broadcast(th) \/ Record(th)
           \/ Killed \/ World \/ UNCHANGED appVars
  <2>1. UNCHANGED fresh \/ fresh' = FALSE
    BY <1>3 DEF Fetch, Broadcast, Record, Killed, World, appVars
  <2> QED
    BY <2>1, Zenon
<1> QED
  BY <1>1, <1>2, <1>3, Zenon DEF AppNext

LEMMA AnswerStep ==
  ASSUME [AppNext]_appVars
  PROVE  UNCHANGED poll \/ StateStep \/ (Crash /\ fresh' = FALSE)
<1>1. CASE Foreground \/ (\E w \in Workers : Fetch(w)) \/ World \/ UNCHANGED appVars
           \/ \E th \in Threads : Broadcast(th) \/ Record(th)
  BY <1>1 DEF Foreground, StartSplit, PlanTransfers, Recover, Confirm, Sign,
     PrepareNoteSplit, ProposeMigrationTransfers, RestartCurrentStep,
     SignNoteSplitBegin, SignScheduleBegin, SignNoteSplitBuild,
     SignNoteSplitFails, SignNoteSplitLock, SignNoteSplitLockFails,
     SignTransfer, SignScheduleFails, SignScheduleEnd, Fetch, NextDueTransfer,
     NextDueBegin, NextDueIsSplit, NextDueNoSplit, NextDueTarget,
     NextDueIsTransfer, NextDueNone, World, Environment, Broadcast, Record,
     BroadcastAccepted, BroadcastNotAccepted, RecordPrepSent, RecordPrepPhase,
     RecordTransferSent, RecordNothing, RecordRefusalBegin,
     RecordTransferRefused, appVars, vars, ctxVars
<1>2. CASE Ask
  BY <1>2 DEF Ask, StateStep, vars, ctxVars
<1>3. CASE Killed
  BY <1>3 DEF Killed
<1> QED
  BY <1>1, <1>2, <1>3 DEF AppNext

(* With one run at most, that run is the active one.                       *)
LEMMA RunIsActive ==
  ASSUME IInv, OneRun, NEW r \in RunIds, phase[r] # Absent
  PROVE  /\ r \in ActiveRuns
         /\ \A s \in ActiveRuns : s = r
<1>1. r \in LiveRuns
  BY DEF IInv, RunInv, WrittenPhases, TerminalPhases, LiveRuns
<1>2. \A s \in LiveRuns : s = r
  BY DEF OneRun, LiveRuns
<1> QED
  BY <1>1, <1>2 DEF ActiveRuns, IInv, TypeOK, StoreTypeOK

LEMMA MinedSplitHasRun ==
  ASSUME IInv, NEW r \in RunIds, HasSplit(r)
  PROVE  phase[r] # Absent
BY DEF IInv, RunInv, HasSplit, NoPrep

LEMMA AppInvInit == AppInit => AppInv
<1> SUFFICES ASSUME AppInit PROVE AppInv
  OBVIOUS
<1>1. offer.kind = "none" /\ thr[App].pc = "idle" /\ poll = NoPoll
  BY DEF AppInit, Init, NoOffer, Idle, Threads
<1>2. \A r \in RunIds : phase[r] = Absent /\ lastError[r].tx = NoTx
  BY DEF AppInit, Init, StoreInit, NoError
<1>3. \A t \in TxIds : txs[t].kind = "none"
  BY DEF AppInit, Init, ChainInit, Unbuilt
<1>4. OneRun /\ RunsInOrder
  BY <1>2 DEF OneRun, RunsInOrder, PastSplit, Absent
<1>5. OffersInOrder
  BY <1>1 DEF OffersInOrder, At
<1>6. AnswersInOrder
  BY <1>1, <1>2 DEF AnswersInOrder, NoPoll, WrittenPhases, PastSplit, Absent
<1>7. TransfersAfterSplit
  BY <1>3 DEF TransfersAfterSplit, Transfers
<1> QED
  BY <1>4, <1>5, <1>6, <1>7 DEF AppInv, AppInit

(* What is true of a run's split stays true.                               *)
LEMMA SplitsStay ==
  ASSUME IInv, [Next]_vars
  PROVE  /\ \A r \in RunIds : SplitMined(r) => prep'[r].tx # NoTx /\ prep'[r].tx \in mined'
         /\ SomeSplitMined => \E r \in RunIds : prep'[r].tx # NoTx /\ prep'[r].tx \in mined'
<1>1. ASSUME NEW r \in RunIds, SplitMined(r)
      PROVE  prep'[r].tx # NoTx /\ prep'[r].tx \in mined'
  <2>1. HasSplit(r) /\ prep[r].tx \in mined
    BY <1>1 DEF SplitMined
  <2>2. prep'[r].tx = prep[r].tx
    BY <2>1, SplitStays
  <2> QED
    BY <2>1, <2>2, StepKeeps DEF HasSplit, Onwards
<1> QED
  BY <1>1 DEF SomeSplitMined

(* The signed transfers come after their run's split, whoever steps.       *)
LEMMA TransfersStay ==
  ASSUME IInv, AppInv, [Next]_vars
  PROVE  TransfersAfterSplit'
<1> SUFFICES ASSUME NEW t \in TxIds, txs'[t].kind = "transfer"
             PROVE  prep'[txs'[t].run].tx # NoTx /\ prep'[txs'[t].run].tx \in mined'
  BY DEF TransfersAfterSplit, Transfers, SplitMined, HasSplit
<1>1. CASE t \in Built /\ txs[t].kind = "transfer" /\ txs'[t] = txs[t]
  <2>1. txs[t].run \in RunIds /\ SplitMined(txs[t].run)
    BY <1>1 DEF AppInv, TransfersAfterSplit, Transfers, IInv, RunInv
  <2> QED
    BY <1>1, <2>1, SplitsStay
<1>2. CASE At(App, "signing") /\ txs'[t].run = job.run
  <2>1. job.run \in RunIds /\ SplitMined(job.run)
    BY <1>2 DEF AppInv, OffersInOrder, IInv, SigningInv
  <2> QED
    BY <1>2, <2>1, SplitsStay
<1> QED
  BY <1>1, <1>2, TransferStep

(* A schedule is signed for the run whose split is mined.                  *)
LEMMA ScheduleOfSplitRun ==
  ASSUME IInv, AppInv, SignScheduleBegin
  PROVE  /\ job'.run \in RunIds /\ SplitMined(job'.run)
         /\ UNCHANGED <<storeVars, chainVars>>
<1>1. PICK s \in RunIds : SplitMined(s)
  BY DEF SignScheduleBegin, AppInv, OffersInOrder, SomeSplitMined
<1>2. phase[s] # Absent
  BY <1>1, MinedSplitHasRun DEF SplitMined
<1>3. s \in ActiveRuns /\ \A r \in ActiveRuns : r = s
  BY <1>2, RunIsActive DEF AppInv
<1>4. UNCHANGED storeVars /\ job'.run = s
  BY <1>3 DEF SignScheduleBegin
<1> QED
  BY <1>1, <1>4 DEF SignScheduleBegin

(* What the user confirms: a split only where there is no run, a schedule  *)
(* only for the run whose split is mined.                                  *)
LEMMA ConfirmedInOrder ==
  ASSUME IInv, CountInv, AppInv, Confirm
  PROVE  AppInv'
<1>1. [Next]_vars /\ fresh' = FALSE /\ UNCHANGED <<chainVars, poll, prep, lastError>>
  BY DEF Confirm, SignNoteSplitBegin, SignScheduleBegin, InsertRun, storeVars, Next, AppStep
<1>2. offer'.kind = "none"
  <2>1. offer' = NoOffer
    BY DEF Confirm, SignNoteSplitBegin, SignScheduleBegin
  <2> QED
    BY <2>1 DEF NoOffer
<1>3. TransfersAfterSplit'
  BY <1>1, TransfersStay
<1>4. App \in Threads /\ thr[App] \in ThreadStates /\ thr \in [Threads -> ThreadStates]
  BY DEF IInv, TypeOK, Threads
<1>5. CASE SignNoteSplitBegin
  <2>1. \A r \in RunIds : phase[r] = Absent
    BY <1>5 DEF SignNoteSplitBegin, AppInv, OffersInOrder
  <2>2. PICK r \in RunIds : phase' = [phase EXCEPT ![r] = "preparing_denominations"]
    BY <1>5 DEF SignNoteSplitBegin, InsertRun
  <2>3. \A s \in RunIds : phase'[s] = IF s = r THEN "preparing_denominations" ELSE Absent
    BY <2>1, <2>2 DEF IInv, TypeOK, StoreTypeOK
  <2>4. OneRun'
    BY <2>3 DEF OneRun
  <2>5. \A s \in RunIds : prep[s].tx = NoTx /\ lastError[s].tx = NoTx
    BY <2>1 DEF IInv, RunInv, NoPrep, AppInv, RunsInOrder
  <2>6. RunsInOrder'
    BY <1>1, <2>3, <2>5 DEF RunsInOrder, PastSplit, Absent
  <2>7. thr'[App].pc # "signing"
    BY <1>4, <1>5 DEF SignNoteSplitBegin, ThreadStates
  <2>8. OffersInOrder'
    BY <1>2, <2>7 DEF OffersInOrder, At
  <2>9. ~SomeSplitMined
    BY <2>5 DEF SomeSplitMined, SplitMined, HasSplit
  <2>10. AnswersInOrder'
    BY <1>1, <2>9 DEF AppInv, AnswersInOrder
  <2> QED
    BY <1>1, <1>3, <2>4, <2>6, <2>8, <2>10 DEF AppInv
<1>6. CASE SignScheduleBegin
  <2>1. job'.run \in RunIds /\ SplitMined(job'.run)
    BY <1>6, ScheduleOfSplitRun
  <2>2. UNCHANGED <<phase, prep, lastError, mined, txs, nextTx>>
    BY <1>6, ScheduleOfSplitRun DEF storeVars, chainVars
  <2>3. OneRun' /\ RunsInOrder'
    BY <2>2 DEF AppInv, OneRun, RunsInOrder, SplitMined, HasSplit, Built
  <2>4. OffersInOrder'
    BY <1>2, <2>1, <2>2 DEF OffersInOrder, SplitMined, HasSplit
  <2>5. AnswersInOrder'
    BY <1>1, <2>2 DEF AppInv, AnswersInOrder, SomeSplitMined, SplitMined, HasSplit
  <2> QED
    BY <1>1, <1>3, <2>3, <2>4, <2>5 DEF AppInv
<1> QED
  BY <1>5, <1>6 DEF Confirm

(* Everything else the app, the deliveries and the world do.               *)
LEMMA UnconfirmedInOrder ==
  ASSUME IInv, RowInv, CountInv, AppInv, [AppNext]_appVars, ~Confirm
  PROVE  AppInv'
<1>1. [Next]_vars /\ Unconfirmed
  BY AppStepIsStep
<1>2. \A r \in RunIds : phase'[r] = Absent <=> phase[r] = Absent
  BY <1>1, RunStep DEF ActiveRuns, LiveRuns, Absent
<1>3. SomeSplitMined => \E r \in RunIds : prep'[r].tx # NoTx /\ prep'[r].tx \in mined'
  BY <1>1, SplitsStay
<1>4. OneRun'
  BY <1>2 DEF AppInv, OneRun
<1>5. \A r \in RunIds : SplitMined(r) => phase[r] # Absent
  BY MinedSplitHasRun DEF SplitMined
<1>6. RunsInOrder'
  <2> SUFFICES ASSUME NEW r \in RunIds
               PROVE  /\ phase'[r] \in PastSplit =>
                            prep'[r].tx # NoTx /\ prep'[r].tx \in mined'
                      /\ lastError'[r].tx # NoTx =>
                            /\ lastError'[r].tx \in Built'
                            /\ txs'[lastError'[r].tx].run = r
    BY DEF RunsInOrder, SplitMined, HasSplit
  <2>1. SplitMined(r) => prep'[r].tx # NoTx /\ prep'[r].tx \in mined'
    BY <1>1, SplitsStay
  <2>2. SameBuilt
    BY <1>1, StepKeeps
  <2>3. CASE phase'[r] = phase[r] /\ lastError'[r] = lastError[r]
    BY <2>1, <2>2, <2>3 DEF AppInv, RunsInOrder, SameBuilt
  <2>4. CASE /\ phase[r] # Absent /\ lastError'[r] = NoError
             /\ \/ phase'[r] = "waiting_denom_confirmations"
                \/ phase'[r] = "broadcast_scheduled" /\ At(App, "signing") /\ r = job.run
                \/ phase'[r] = "ready_to_migrate" /\ SplitMined(r)
    BY <2>1, <2>4 DEF AppInv, OffersInOrder, NoError, PastSplit
  <2>5. CASE /\ phase[r] # Absent /\ phase'[r] = "failed_recoverable"
             /\ lastError'[r].tx \in Transfers(Built)
    <3> DEFINE t == lastError'[r].tx
    <3>1. t \in Built /\ t \in TxIds /\ txs[t].kind = "transfer"
      BY <2>2, <2>5 DEF Transfers, SameBuilt
    <3>2. txs[t].run \in RunIds /\ phase[txs[t].run] # Absent /\ SplitMined(txs[t].run)
      BY <3>1 DEF IInv, RunInv, AppInv, TransfersAfterSplit, Transfers
    <3>3. txs[t].run = r
      BY <2>5, <3>2 DEF AppInv, OneRun
    <3> QED
      BY <2>1, <2>2, <3>1, <3>2, <3>3 DEF SameBuilt
  <2> QED
    BY <1>1, <2>3, <2>4, <2>5, RunStep
<1>7. OffersInOrder'
  <2>1. offer'.kind = "split" => \A r \in RunIds : phase'[r] = Absent
    BY <1>2, OfferStep DEF AppInv, OffersInOrder, AnswersInOrder, Told
  <2>2. offer'.kind = "schedule" => SomeSplitMined
    <3>1. NeedsRestart => SomeSplitMined
      <4>1. HasInvalidTransfers => SomeSplitMined
        <5> SUFFICES ASSUME NEW r \in ActiveRuns, phase[r] \notin PreSchedulePhases
                     PROVE  SomeSplitMined
          BY DEF HasInvalidTransfers
        <5>1. r \in RunIds /\ phase[r] \in PastSplit
          BY DEF ActiveRuns, LiveRuns, PreSchedulePhases, SplitPhases, PastSplit,
             WrittenPhases, IInv, RunInv
        <5> QED
          BY <5>1 DEF AppInv, RunsInOrder, SomeSplitMined
      <4> QED
        BY <4>1 DEF NeedsRestart, Told, AppInv, AnswersInOrder
    <3> QED
      BY <3>1, OfferStep DEF AppInv, OffersInOrder, AnswersInOrder, Told
  <2>3. thr'[App].pc = "signing" => prep'[job'.run].tx # NoTx /\ prep'[job'.run].tx \in mined'
    <3> SUFFICES ASSUME thr'[App].pc = "signing"
                 PROVE  prep'[job'.run].tx # NoTx /\ prep'[job'.run].tx \in mined'
      OBVIOUS
    <3>1. CASE SignScheduleBegin
      BY <3>1, ScheduleOfSplitRun DEF SplitMined, HasSplit, storeVars, chainVars
    <3>2. CASE thr[App].pc = "signing" /\ (UNCHANGED job \/ SignTransfer)
      <4>1. At(App, "signing") /\ job'.run = job.run
        BY <3>2 DEF At, SignTransfer, IInv, TypeOK, Jobs
      <4>2. job.run \in RunIds /\ SplitMined(job.run)
        BY <4>1 DEF AppInv, OffersInOrder, IInv, SigningInv
      <4> QED
        BY <1>1, <4>1, <4>2, SplitsStay
    <3> QED
      BY <1>1, <3>1, <3>2, SigningStep
  <2> QED
    BY <1>3, <2>1, <2>2, <2>3 DEF OffersInOrder, SomeSplitMined, SplitMined, HasSplit, At
<1>8. AnswersInOrder'
  <2>1. poll'.phase \in WrittenPhases
    BY <1>1, CountNext DEF CountInv
  <2>2. CASE UNCHANGED poll
    <3>1. fresh' /\ poll.state = "NotStarted" => \A r \in RunIds : phase[r] = Absent
      <4>1. CASE ActiveRuns = {}
        BY <4>1, RunIsActive DEF AppInv
      <4>2. CASE fresh' => fresh
        BY <4>2 DEF AppInv, AnswersInOrder
      <4>3. CASE StateAdvances \/ StateReports
        <5>1. Polling
          BY <4>3 DEF StateAdvances, StateReports
        <5> QED
          BY <5>1 DEF CountInv
      <4> QED
        BY <4>1, <4>2, <4>3, FreshStep
    <3> QED
      BY <1>2, <1>3, <2>1, <2>2, <3>1
         DEF AppInv, AnswersInOrder, SomeSplitMined, SplitMined, HasSplit
  <2>3. CASE StateBegin
    <3>1. PICK r \in ActiveRuns :
            poll' = [run |-> r, phase |-> phase[r], error |-> lastError[r],
                     totals |-> "uncounted", state |-> "none"]
      BY <2>3 DEF StateBegin
    <3>2. phase[r] \in PastSplit => SomeSplitMined
      BY DEF AppInv, RunsInOrder, SomeSplitMined, ActiveRuns, LiveRuns
    <3> QED
      BY <1>3, <2>1, <3>1, <3>2 DEF AnswersInOrder, SomeSplitMined, SplitMined, HasSplit
  <2>4. CASE StateReconciles
    <3>1. poll'.phase = poll.phase /\ poll'.state = "none"
      BY <2>4 DEF StateReconciles, CountInv, IInv, TypeOK, Polls
    <3> QED
      BY <1>3, <2>1, <3>1
         DEF AppInv, AnswersInOrder, SomeSplitMined, SplitMined, HasSplit
  <2>5. CASE StateAdvances
    <3>1. poll'.phase = Absent /\ poll'.state = "ReadyToPropose"
      BY <2>5, Returned DEF StateAdvances
    <3>2. SomeSplitMined
      BY <2>5 DEF StateAdvances, SplitDone, IInv, CarriedInv, TypeOK, ChainTypeOK,
         SomeSplitMined, SplitMined, HasSplit
    <3> QED
      BY <1>3, <2>1, <3>1, <3>2
         DEF AnswersInOrder, PastSplit, Absent, SomeSplitMined, SplitMined, HasSplit
  <2>6. CASE StateReports
    <3>1. PICK e : Result(IF /\ ToState(poll.phase) = "InProgress"
                             /\ poll.totals = "confirmed"
                             /\ Spendable = {}
                             /\ IronwoodReceived
                          THEN "Complete" ELSE ToState(poll.phase), e)
      BY <2>6 DEF StateReports
    <3>2. poll'.phase = Absent /\ poll'.state \in {"Complete", ToState(poll.phase)}
      BY <3>1, Returned
    <3>3. poll.phase \in WrittenPhases \ {Absent}
      BY <2>6 DEF StateReports, Polling, CountInv
    <3>4. /\ ToState(poll.phase) # "NotStarted"
          /\ ToState(poll.phase) \in {"ReadyToPropose", "RequiresAttention"}
               => poll.phase \in PastSplit
      BY <3>3 DEF WrittenPhases, ToState, SplitPhases, SendingPhases, PastSplit
    <3> QED
      BY <1>3, <2>1, <3>2, <3>4
         DEF AppInv, AnswersInOrder, PastSplit, Absent, SomeSplitMined, SplitMined, HasSplit
  <2>7. CASE Crash /\ fresh' = FALSE
    <3>1. poll'.phase = Absent /\ poll'.state = "NotStarted"
      BY <2>7 DEF Crash, NoPoll
    <3> QED
      BY <2>1, <2>7, <3>1 DEF AnswersInOrder, PastSplit, Absent
  <2> QED
    BY <2>2, <2>3, <2>4, <2>5, <2>6, <2>7, AnswerStep DEF StateStep
<1>9. TransfersAfterSplit'
  BY <1>1, TransfersStay
<1>10. fresh' \in BOOLEAN
  BY FreshStep DEF AppInv
<1> QED
  BY <1>4, <1>6, <1>7, <1>8, <1>9, <1>10 DEF AppInv

-----------------------------------------------------------------------------
(* The app's invariant: what it was told was true, and still is.           *)
THEOREM AppInductive == AppSpec => []AppInv
<1> DEFINE Inv == IInv /\ RowInv /\ CountInv /\ AppInv
<1>1. AppInit => Inv
  BY InitIInv, RowInit, CountInit, AppInvInit DEF AppInit
<1>2. Inv /\ [AppNext]_appVars => Inv'
  BY AppStepIsStep, NextIInv, RowNext, CountNext, ConfirmedInOrder, UnconfirmedInOrder
<1>3. Inv => AppInv
  OBVIOUS
<1> HIDE DEF Inv
<1> QED
  BY <1>1, <1>2, <1>3, PTL DEF AppSpec

(* The app never has two migrations at once, however often it is killed,   *)
(* and a refused transfer is blamed on the run it belongs to, although the *)
(* engine stops whatever run is active (context.rs:461).                   *)
THEOREM OneMigrationAtATime == AppSpec => []OneMigration
<1>1. AppInv => OneMigration
  BY DEF AppInv, OneRun, RunsInOrder, OneMigration, LiveRuns
<1> QED
  BY <1>1, AppInductive, PTL

(* Under the app's loop no transfer is signed, let alone sent, before its  *)
(* run's split is mined (context.rs:396).                                  *)
THEOREM TransfersFollowSplit == AppSpec => []TransfersAfterSplit
<1>1. AppInv => TransfersAfterSplit
  BY DEF AppInv
<1> QED
  BY <1>1, AppInductive, PTL
=============================================================================
