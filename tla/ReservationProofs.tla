--------------------------- MODULE ReservationProofs ---------------------------
(***************************************************************************)
(* A split's outputs are reserved for its run, provided the process is not *)
(* stopped, and the store does not fail, between storing the split and     *)
(* storing the locks on its outputs.  MCSplitWithoutLocks shows that this  *)
(* proviso is needed.                                                      *)
(***************************************************************************)
EXTENDS MigrationProofs

LocksNeverMissed == "crash" \notin Faults /\ "lock_error" \notin Faults

(* Every output of a stored split is locked, or about to be.               *)
OutputsLocked ==
    \A r \in RunIds : HasSplit(r) =>
        \/ \A ix \in 1..txs[prep[r].tx].outs : <<r, [tx |-> prep[r].tx, ix |-> ix]>> \in locked
        \/ thr[App].pc = "locking" /\ job.run = r

ReservedInv == OutputsLocked /\ PreparedNotesReserved

LEMMA ReservedInit == Init => ReservedInv
<1> SUFFICES ASSUME Init PROVE ReservedInv
  OBVIOUS
<1>1. \A r \in RunIds : ~HasSplit(r)
  BY DEF Init, StoreInit, HasSplit, NoPrep
<1> QED
  BY <1>1 DEF ReservedInv, OutputsLocked, PreparedNotesReserved

(* Steps that sign nothing keep it, unless they take a split away from the *)
(* thread that is to lock its outputs.                                     *)
LEMMA ReservedFrame ==
  ASSUME IInv, ReservedInv,
         UNCHANGED txs, \A r \in RunIds : prep'[r].tx = prep[r].tx,
         locked \subseteq locked',
         At(App, "locking") => thr'[App].pc = "locking" /\ job' = job
  PROVE  ReservedInv'
<1>1. OutputsLocked'
  <2> SUFFICES ASSUME NEW r \in RunIds, prep'[r].tx # NoTx,
                      ~ (thr'[App].pc = "locking" /\ job'.run = r),
                      NEW ix \in 1..txs'[prep'[r].tx].outs
               PROVE  <<r, [tx |-> prep'[r].tx, ix |-> ix]>> \in locked'
    BY DEF OutputsLocked, HasSplit
  <2>1. ~ (thr[App].pc = "locking" /\ job.run = r)
    BY DEF At
  <2>2. <<r, [tx |-> prep[r].tx, ix |-> ix]>> \in locked
    BY <2>1 DEF ReservedInv, OutputsLocked, HasSplit
  <2> QED
    BY <2>2
<1>2. PreparedNotesReserved'
  BY DEF ReservedInv, PreparedNotesReserved, HasSplit
<1> QED
  BY <1>1, <1>2 DEF ReservedInv

(* What a signing call may spend, the locks of the others removed, holds   *)
(* no output of another run's split.                                       *)
LEMMA NotAnothersOutput ==
  ASSUME IInv, OutputsLocked, ~At(App, "locking"),
         NEW r \in RunIds, HasSplit(r), NEW n \in Spendable, n.tx = prep[r].tx
  PROVE  <<r, n>> \in locked
<1>1. \A ix \in 1..txs[prep[r].tx].outs : <<r, [tx |-> prep[r].tx, ix |-> ix]>> \in locked
  BY DEF OutputsLocked, At
<1>2. n \in OutputsOf(n.tx)
  <2>1. n.tx # NoTx
    BY DEF HasSplit
  <2>2. n \notin Genesis
    BY <2>1 DEF Genesis, NoTx
  <2>3. PICK t \in matured : n \in OutputsOf(t)
    BY <2>2 DEF Spendable
  <2>4. n.tx = t
    BY <2>3 DEF OutputsOf
  <2> QED
    BY <2>3, <2>4
<1>3. \E ix \in 1..txs[prep[r].tx].outs : n = [tx |-> prep[r].tx, ix |-> ix]
  BY <1>2 DEF OutputsOf
<1> QED
  BY <1>1, <1>3

(* A new transaction that spends nothing locked by another run, and        *)
(* perhaps becomes the split of its run.                                   *)
LEMMA ReservedBuild ==
  ASSUME IInv, ReservedInv, NEW run \in RunIds, NEW body \in TxBodies,
         Build(body), body.run = run,
         \A n \in body.spends : n \in Spendable,
         \A n \in body.spends : \A lock \in locked : lock[2] = n => lock[1] = run,
         ~At(App, "locking"),
         \A r \in RunIds \ {run} : prep'[r].tx = prep[r].tx,
         prep'[run].tx \in {prep[run].tx, nextTx}
  PROVE  PreparedNotesReserved'
<1>1. /\ nextTx \in TxIds
      /\ txs' = [txs EXCEPT ![nextTx] = body]
      /\ txs \in [TxIds -> TxBodies]
      /\ nextTx \in Nat
  BY DEF IInv, TypeOK, ChainTypeOK, Build, TxIds
<1>2. \A t \in TxIds : \A n \in txs[t].spends : n.tx < nextTx
  <2>1. \A t \in TxIds : t >= nextTx => txs[t].spends = {}
    BY DEF IInv, ChainInv, Unbuilt
  <2>2. \A t \in TxIds : \A n \in txs[t].spends : n \in Notes /\ n.tx < t
    BY <1>1 DEF IInv, ChainInv, TxBodies
  <2>3. ASSUME NEW t \in TxIds, NEW n \in txs[t].spends PROVE n.tx < nextTx
    <3>1. t < nextTx
      BY <2>1, <1>1 DEF TxIds
    <3>2. n.tx \in Nat
      BY <2>2, ChainAssumption DEF Notes
    <3> QED
      BY <2>2, <3>1, <3>2, <1>1 DEF TxIds
  <2> QED
    BY <2>3
<1>3. \A n \in body.spends : n.tx < nextTx
  BY SpendableBuilt
<1> SUFFICES ASSUME NEW t \in TxIds, NEW n \in txs'[t].spends, NEW r \in RunIds,
                    prep'[r].tx # NoTx, n.tx = prep'[r].tx
             PROVE  txs'[t].run = r
  BY DEF PreparedNotesReserved, HasSplit
<1>4. n.tx # nextTx
  BY <1>1, <1>2, <1>3
<1>5. prep'[r].tx = prep[r].tx
  BY <1>4
<1>6. CASE t # nextTx
  BY <1>1, <1>5, <1>6 DEF ReservedInv, PreparedNotesReserved, HasSplit
<1>7. CASE t = nextTx
  <2>1. n \in body.spends /\ txs'[t].run = run
    BY <1>1, <1>7
  <2>2. <<r, n>> \in locked
    BY <1>5, <2>1, NotAnothersOutput DEF ReservedInv, HasSplit
  <2>3. r = run
    BY <2>1, <2>2
  <2> QED
    BY <2>1, <2>3
<1> QED
  BY <1>6, <1>7

(* The outputs of the splits that were there before it stay locked.        *)
LEMMA OlderOutputs ==
  ASSUME IInv, ReservedInv, ~At(App, "locking"),
         NEW body, Build(body), UNCHANGED locked,
         NEW r \in RunIds, HasSplit(r), NEW ix \in 1..txs'[prep[r].tx].outs
  PROVE  <<r, [tx |-> prep[r].tx, ix |-> ix]>> \in locked'
<1>1. prep[r].tx \in Built
  BY DEF IInv, RunInv
<1>2. txs'[prep[r].tx] = txs[prep[r].tx]
  BY <1>1 DEF Build, Built, IInv, TypeOK, ChainTypeOK, TxIds
<1> QED
  BY <1>2 DEF ReservedInv, OutputsLocked, At

LEMMA SplitBuildReserved ==
  ASSUME IInv, ReservedInv, SignNoteSplitBuild
  PROVE  ReservedInv'
<1>1. job.run \in RunIds /\ prep[job.run] = NoPrep /\ ~At(App, "locking")
  BY DEF SignNoteSplitBuild, IInv, SigningInv, At
<1>2. PICK body \in TxBodies :
        Build(body) /\ body.spends = SplitInputs /\ body.run = job.run
  <2>1. PICK last \in 0..MaxMoney :
          Build([kind |-> "split", run |-> job.run, spends |-> SplitInputs,
                  outs |-> job.todo, last |-> last, sendAt |-> 0,
                  expiry |-> height + SplitWindow, batch |-> nextTx])
    BY DEF SignNoteSplitBuild
  <2>2. SplitInputs \subseteq Notes
    BY SpendableType DEF SplitInputs, IInv, TypeOK
  <2>3. nextTx \in 0..MaxTx /\ height \in Nat /\ job.todo \in 0..MaxNotes
    BY <2>1 DEF Build, IInv, TypeOK, ChainTypeOK, Jobs
  <2>4. [kind |-> "split", run |-> job.run, spends |-> SplitInputs,
         outs |-> job.todo, last |-> last, sendAt |-> 0,
         expiry |-> height + SplitWindow, batch |-> nextTx] \in TxBodies
    <3>1. job.run \in RunIds
      BY <1>1
    <3> QED
      BY <3>1, <2>2, <2>3, ContextAssumption DEF TxBodies
  <2> QED
    BY <2>1, <2>4
<1>3. /\ \A s \in RunIds : prep'[s].tx = IF s = job.run THEN nextTx ELSE prep[s].tx
      /\ thr'[App].pc = "locking" /\ job' = job /\ locked' = locked
  <2>1. prep' = [prep EXCEPT ![job.run] = [tx |-> nextTx, status |-> "pending"]]
    BY DEF SignNoteSplitBuild, InsertPrepTx
  <2>2. thr'[App].pc = "locking"
    BY Nothing DEF SignNoteSplitBuild, IInv, TypeOK, ThreadStates
  <2> QED
    BY <2>1, <2>2 DEF SignNoteSplitBuild, InsertPrepTx, IInv, TypeOK, StoreTypeOK
<1>4. PreparedNotesReserved'
  <2>1. \A n \in body.spends : n \in Spendable
    BY <1>2 DEF SplitInputs
  <2>2. \A n \in body.spends : \A lock \in locked : lock[2] = n => lock[1] = job.run
    BY <1>1, <1>2, LocksOfOthers DEF SplitInputs
  <2> QED
    BY <1>1, <1>2, <1>3, <2>1, <2>2, ReservedBuild
<1>5. OutputsLocked'
  <2> SUFFICES ASSUME NEW r \in RunIds, prep'[r].tx # NoTx, r # job.run,
                      NEW ix \in 1..txs'[prep'[r].tx].outs
               PROVE  <<r, [tx |-> prep'[r].tx, ix |-> ix]>> \in locked'
    BY <1>3 DEF OutputsLocked, HasSplit
  <2>1. prep'[r].tx = prep[r].tx
    BY <1>3
  <2>2. HasSplit(r)
    BY <2>1 DEF HasSplit
  <2> QED
    BY <1>1, <1>2, <1>3, <2>1, <2>2, OlderOutputs
<1> QED
  BY <1>4, <1>5 DEF ReservedInv

LEMMA TransferReserved ==
  ASSUME IInv, ReservedInv, SignTransfer
  PROVE  ReservedInv'
<1>1. /\ job.run \in RunIds /\ job.batch \in 1..nextTx /\ ~At(App, "locking")
      /\ \A lock \in locked :
            lock[2] \in job.avail => lock[1] = job.run \/ lock[2] \in job.locks
  BY DEF SignTransfer, IInv, SigningInv, At
<1>2. PICK S \in TransferInputs :
        Build([kind |-> "transfer", run |-> job.run, spends |-> S,
                  outs |-> 0, last |-> 0, sendAt |-> job.sendAt,
                  expiry |-> job.sendAt + Window, batch |-> job.batch])
  BY DEF SignTransfer
<1>3. S \subseteq job.avail \ job.locks /\ S \subseteq Spendable
  BY <1>2 DEF TransferInputs, WalletSelections, Selections
<1>4. PICK body \in TxBodies :
        Build(body) /\ body.spends = S /\ body.run = job.run
  <2>1. S \in SUBSET Notes
    BY <1>3, SpendableType DEF IInv, TypeOK
  <2>2. [kind |-> "transfer", run |-> job.run, spends |-> S,
         outs |-> 0, last |-> 0, sendAt |-> job.sendAt,
         expiry |-> job.sendAt + Window, batch |-> job.batch] \in TxBodies
    BY <2>1, ContextAssumption, ChainAssumption DEF TxBodies, IInv, TypeOK, Jobs
  <2> QED
    BY <1>2, <2>2
<1>5. prep' = prep /\ locked' = locked /\ thr' = thr
  BY DEF SignTransfer, InsertPendingTx
<1>6. PreparedNotesReserved'
  <2>1. \A n \in body.spends : \A lock \in locked : lock[2] = n => lock[1] = job.run
    BY <1>1, <1>3, <1>4
  <2> QED
    BY <1>1, <1>3, <1>4, <1>5, <2>1, ReservedBuild
<1>7. OutputsLocked'
  <2> SUFFICES ASSUME NEW r \in RunIds, prep'[r].tx # NoTx,
                      NEW ix \in 1..txs'[prep'[r].tx].outs
               PROVE  <<r, [tx |-> prep'[r].tx, ix |-> ix]>> \in locked'
    BY DEF OutputsLocked, HasSplit
  <2>1. HasSplit(r)
    BY <1>5 DEF HasSplit
  <2> QED
    BY <1>1, <1>4, <1>5, <2>1, OlderOutputs
<1> QED
  BY <1>6, <1>7 DEF ReservedInv

(* The locks of the split just signed are stored.                          *)
LEMMA SplitLockReserved ==
  ASSUME IInv, ReservedInv, SignNoteSplitLock
  PROVE  ReservedInv'
<1>1. /\ job.run \in RunIds /\ prep[job.run].tx = thr[App].tx
      /\ locked' = locked \cup ({job.run} \X OutputsOf(thr[App].tx))
      /\ txs' = txs /\ prep' = prep
  BY DEF SignNoteSplitLock, InsertPreparedNotes, IInv, SigningInv, At, chainVars
<1>2. OutputsLocked'
  <2> SUFFICES ASSUME NEW r \in RunIds, prep[r].tx # NoTx,
                      NEW ix \in 1..txs[prep[r].tx].outs
               PROVE  <<r, [tx |-> prep[r].tx, ix |-> ix]>> \in locked'
    BY <1>1 DEF OutputsLocked, HasSplit
  <2>1. CASE r # job.run
    BY <1>1, <2>1 DEF ReservedInv, OutputsLocked, HasSplit
  <2>2. CASE r = job.run
    BY <1>1, <2>2 DEF OutputsOf
  <2> QED
    BY <2>1, <2>2
<1>3. PreparedNotesReserved'
  BY <1>1 DEF ReservedInv, PreparedNotesReserved, HasSplit
<1> QED
  BY <1>2, <1>3 DEF ReservedInv

(* Every other step of the App.                                            *)
LEMMA AppReserved ==
  ASSUME IInv, ReservedInv, LocksNeverMissed, AppStep
  PROVE  ReservedInv'
<1>1. CASE SignNoteSplitBuild
  BY <1>1, SplitBuildReserved
<1>2. CASE SignTransfer
  BY <1>2, TransferReserved
<1>3. CASE SignNoteSplitLock
  BY <1>3, SplitLockReserved
<1>4. CASE SignNoteSplitLockFails
  BY <1>4 DEF LocksNeverMissed, SignNoteSplitLockFails
<1>5. CASE \/ PrepareNoteSplit \/ ProposeMigrationTransfers \/ ProposeImmediate
           \/ RestartCurrentStep
  <2>1. UNCHANGED <<txs, prep, locked, thr, job>>
    BY <1>5 DEF PrepareNoteSplit, ProposeMigrationTransfers, ProposeImmediate,
       RestartCurrentStep, ClearScheduled, chainVars, storeVars
  <2> QED
    BY <2>1, ReservedFrame DEF At
<1>6. CASE \/ SignNoteSplitBegin \/ SignNoteSplitFails \/ SignScheduleBegin
           \/ SignScheduleFails \/ SignScheduleEnd
  <2>1. UNCHANGED <<txs, prep, locked>>
    BY <1>6 DEF SignNoteSplitBegin, SignNoteSplitFails, SignScheduleBegin,
       SignScheduleFails, SignScheduleEnd, InsertRun, SetPhase, chainVars, storeVars
  <2>2. ~At(App, "locking")
    BY <1>6 DEF SignNoteSplitBegin, SignNoteSplitFails, SignScheduleBegin,
       SignScheduleFails, SignScheduleEnd, At
  <2> QED
    BY <2>1, <2>2, ReservedFrame
<1> QED
  BY <1>1, <1>2, <1>3, <1>4, <1>5, <1>6 DEF AppStep

(* The deliveries, migration_state and the environment.                    *)
LEMMA OthersReserved ==
  ASSUME IInv, ReservedInv,
         \/ \E w \in Workers : NextDueTransfer(w)
         \/ \E th \in Threads : DeliveryStep(th)
         \/ StateStep
         \/ Environment
         \/ UNCHANGED vars
  PROVE  ReservedInv'
<1>1. CASE \E w \in Workers : NextDueTransfer(w)
  <2>1. PICK w \in Workers : NextDueTransfer(w)
    BY <1>1
  <2>2. UNCHANGED <<txs, prep, locked, job>>
    BY <2>1 DEF NextDueTransfer, NextDueBegin, NextDueIsSplit, NextDueNoSplit, NextDueTarget,
       NextDueIsTransfer, NextDueNone, chainVars, storeVars
  <2>3. \E v : thr' = [thr EXCEPT ![w] = v]
    BY <2>1 DEF NextDueTransfer, NextDueBegin, NextDueIsSplit, NextDueNoSplit, NextDueTarget,
       NextDueIsTransfer, NextDueNone, Return
  <2>4. thr'[App] = thr[App]
    BY <2>3, ContextAssumption DEF IInv, TypeOK, Threads
  <2> QED
    BY <2>2, <2>4, ReservedFrame DEF At
<1>2. CASE \E th \in Threads : DeliveryStep(th)
  <2>1. PICK th \in Threads : DeliveryStep(th)
    BY <1>2
  <2>2. UNCHANGED <<txs, locked, job>>
    BY <2>1 DEF DeliveryStep, BroadcastAccepted, BroadcastNotAccepted, RecordPrepSent,
       RecordPrepPhase, RecordTransferSent, RecordNothing, RecordRefusalBegin,
       RecordTransferRefused, SetPrepBroadcasted, SetPhase, MarkPending, chainVars, storeVars
  <2>3. UNCHANGED prep \/ SetPrepBroadcasted(thr[th].prepOf)
    BY <2>1 DEF DeliveryStep, BroadcastAccepted, BroadcastNotAccepted, RecordPrepSent,
       RecordPrepPhase, RecordTransferSent, RecordNothing, RecordRefusalBegin,
       RecordTransferRefused, SetPhase, MarkPending, storeVars
  <2>4. \A r \in RunIds : prep'[r].tx = prep[r].tx
    BY <2>3 DEF SetPrepBroadcasted, IInv, TypeOK, StoreTypeOK, PrepRows
  <2>5. At(th, "fetched") \/ At(th, "answered") \/ At(th, "prepsent") \/ At(th, "refusing")
    <3>1. CASE BroadcastAccepted(th) \/ BroadcastNotAccepted(th)
      BY <3>1 DEF BroadcastAccepted, BroadcastNotAccepted
    <3>2. CASE RecordPrepPhase(th) \/ RecordTransferRefused(th)
      BY <3>2 DEF RecordPrepPhase, RecordTransferRefused
    <3>3. CASE RecordPrepSent(th) \/ RecordTransferSent(th) \/ RecordNothing(th)
                 \/ RecordRefusalBegin(th)
      BY <3>3 DEF RecordPrepSent, RecordTransferSent, RecordNothing, RecordRefusalBegin,
         Answered
    <3> QED
      BY <2>1, <3>1, <3>2, <3>3 DEF DeliveryStep
  <2>6. \A u \in Threads : u # th => thr'[u] = thr[u]
    <3>1. CASE BroadcastAccepted(th) \/ BroadcastNotAccepted(th)
      <4>1. \E a : thr' = [thr EXCEPT ![th].pc = "answered", ![th].answer = a]
        BY <3>1 DEF BroadcastAccepted, BroadcastNotAccepted
      <4> QED
        BY <4>1 DEF IInv, TypeOK
    <3>2. CASE ~(BroadcastAccepted(th) \/ BroadcastNotAccepted(th))
      BY <2>1, <3>2 DEF DeliveryStep, RecordPrepSent, RecordPrepPhase, RecordTransferSent,
         RecordNothing, RecordRefusalBegin, RecordTransferRefused, Return, IInv, TypeOK
    <3> QED
      BY <3>1, <3>2
  <2> QED
    BY <2>2, <2>4, <2>5, <2>6, Nothing, ReservedFrame DEF At
<1>3. CASE StateStep
  <2>1. UNCHANGED <<txs, prep, locked, thr, job>>
    BY <1>3 DEF StateStep, StateBegin, StateReconciles, StateAdvances, StateReports,
       MarkPending, SetPhase, chainVars, storeVars
  <2> QED
    BY <2>1, ReservedFrame DEF At
<1>4. CASE Environment \/ UNCHANGED vars
  <2>1. UNCHANGED <<txs, prep, locked, thr, job>>
    BY <1>4 DEF Environment, ChainStep, Mine, Mature, NoteConfirms, Tick, SpendElsewhere,
       vars, chainVars, storeVars, ctxVars
  <2> QED
    BY <2>1, ReservedFrame DEF At
<1> QED
  BY <1>1, <1>2, <1>3, <1>4

LEMMA ReservedNext ==
  ASSUME LocksNeverMissed, IInv, ReservedInv, [Next]_vars
  PROVE  ReservedInv'
<1>1. CASE AppStep
  BY <1>1, AppReserved
<1>2. CASE Crash
  BY <1>2 DEF Crash, LocksNeverMissed
<1> QED
  BY <1>1, <1>2, OthersReserved DEF Next

(* Every note a run's split prepares is spent by that run alone            *)
(* (store.rs:293-295), if no lock is ever missed: neither a crash nor a    *)
(* database error separates insert_prep_tx from insert_prepared_notes      *)
(* (backend.rs:466-484).                                                   *)
THEOREM NotesReserved ==
  ASSUME LocksNeverMissed
  PROVE  Spec => []PreparedNotesReserved
<1>1. Init => ReservedInv
  BY ReservedInit
<1>2. IInv /\ ReservedInv /\ [Next]_vars => ReservedInv'
  BY ReservedNext
<1>3. ReservedInv => PreparedNotesReserved
  BY DEF ReservedInv
<1> QED
  BY <1>1, <1>2, <1>3, Inductive, PTL DEF Spec
=============================================================================
