----------------------------- MODULE DeliveryProofs -----------------------------
(***************************************************************************)
(* How many transfers may overtake their run's split: an invariant of its  *)
(* own, inductive together with IInv.  With it MigrationContext implements *)
(* Delivery: every step of the facade, of the deliveries and of the chain  *)
(* is a step of Delivery, under the refinement mapping of                  *)
(* MigrationProperties, or changes nothing Delivery speaks of.             *)
(***************************************************************************)
EXTENDS MigrationProofs, FiniteSetTheorems

(* The five variables the mapping reads.                                   *)
delivered == <<txs, prep, pending, accepted, mined>>

-----------------------------------------------------------------------------
(* Which of them each action may change.                                   *)

LEMMA QuietApp ==
  ASSUME \/ PrepareNoteSplit \/ SignNoteSplitBegin \/ SignNoteSplitFails
         \/ SignNoteSplitLock \/ SignNoteSplitLockFails
         \/ ProposeMigrationTransfers \/ ProposeImmediate
         \/ SignScheduleBegin \/ SignScheduleFails \/ SignScheduleEnd
  PROVE  UNCHANGED delivered /\ UNCHANGED nextTx
BY DEF PrepareNoteSplit, SignNoteSplitBegin, SignNoteSplitFails, SignNoteSplitLock,
   SignNoteSplitLockFails, ProposeMigrationTransfers, ProposeImmediate,
   SignScheduleBegin, SignScheduleFails, SignScheduleEnd, InsertRun,
   InsertPreparedNotes, SetPhase, delivered, chainVars, storeVars

LEMMA QuietElsewhere ==
  ASSUME \/ \E w \in Workers : NextDueTransfer(w)
         \/ \E th \in Threads : \/ BroadcastNotAccepted(th) \/ RecordPrepPhase(th)
                                \/ RecordNothing(th) \/ RecordRefusalBegin(th)
                                \/ RecordTransferRefused(th)
         \/ StateBegin \/ StateAdvances \/ StateReports
         \/ Crash
         \/ UNCHANGED vars
  PROVE  UNCHANGED delivered /\ UNCHANGED nextTx
BY DEF NextDueTransfer, NextDueBegin, NextDueIsSplit, NextDueNoSplit,
   NextDueTarget, NextDueIsTransfer, NextDueNone,
   BroadcastNotAccepted, RecordPrepPhase, RecordNothing,
   RecordRefusalBegin, RecordTransferRefused, StateBegin, StateAdvances, StateReports, Crash,
   SetPhase, delivered, vars, chainVars, storeVars

LEMMA ChainChanges ==
  ASSUME Environment
  PROVE  /\ UNCHANGED <<txs, prep, pending, accepted, nextTx>>
         /\ \/ UNCHANGED mined
            \/ \E t \in TxIds : Mine(t)
BY DEF Environment, ChainStep, Mine, Mature, NoteConfirms, SpendElsewhere, Tick, storeVars

-----------------------------------------------------------------------------
(* Transfers that overtake their split.                                    *)

LEMMA FewFinite ==
  ASSUME IInv, NEW r \in RunIds
  PROVE  /\ IsFiniteSet(Overtaking(r)) /\ Cardinality(Overtaking(r)) \in Nat
         /\ IsFiniteSet(Ahead(r)) /\ Cardinality(Ahead(r)) \in Nat
         /\ IsFiniteSet(Workers) /\ Cardinality(Workers) \in Nat
         /\ Cardinality(Ahead(r)) <= Cardinality(Workers)
<1>1. IsFiniteSet(TxIds)
  BY ChainAssumption, FS_Interval DEF TxIds
<1>2. Overtaking(r) \subseteq TxIds
  BY DEF Overtaking, Transfers, IInv, TypeOK, ChainTypeOK
<1>3. Ahead(r) \subseteq Workers /\ IsFiniteSet(Workers)
  BY ContextAssumption DEF Ahead
<1>4. IsFiniteSet(Overtaking(r))
  BY <1>1, <1>2, FS_Subset
<1>5. IsFiniteSet(Ahead(r)) /\ Cardinality(Ahead(r)) <= Cardinality(Workers)
  BY <1>3, FS_Subset
<1> QED
  BY <1>3, <1>4, <1>5, FS_CardinalityType

LEMMA OvertakeInit == Init => OvertakeInv
  BY DEF Init, StoreInit, OvertakeInv, SplitSent, HasSplit, NoPrep

(* No transfer enters the network and nobody gets ahead of run r's split.  *)
LEMMA OvertakeFrame ==
  ASSUME IInv, OvertakeInv, NEW r \in RunIds, ~SplitSent(r),
         accepted' = accepted,
         \A t \in Built : txs'[t] = txs[t],
         Ahead(r)' \subseteq Ahead(r)
  PROVE  Cardinality(Overtaking(r)') + Cardinality(Ahead(r)') <= Cardinality(Workers)
<1>1. Overtaking(r)' = Overtaking(r)
  BY DEF Overtaking, Transfers, IInv, ChainInv
<1>2. Cardinality(Ahead(r)') <= Cardinality(Ahead(r)) /\ Cardinality(Ahead(r)') \in Nat
  BY FewFinite, FS_Subset, FS_CardinalityType
<1>3. Cardinality(Overtaking(r)) + Cardinality(Ahead(r)) <= Cardinality(Workers)
  BY DEF OvertakeInv
<1> QED
  BY <1>1, <1>2, <1>3, FewFinite

(* What the workers carry was built, so its kind and run are settled.      *)
LEMMA AheadSettled ==
  ASSUME IInv, NEW r \in RunIds,
         \A t \in Built : txs'[t] = txs[t],
         \A w \in Workers : \/ thr'[w] = thr[w]
                            \/ thr'[w].pc \notin {"checked", "targeted", "fetched"}
  PROVE  Ahead(r)' \subseteq Ahead(r)
<1>1. \A w \in Workers : thr[w].pc = "fetched" => thr[w].tx \in Built
  BY DEF IInv, CarriedInv, Threads
<1> QED
  BY <1>1 DEF Ahead

(* A step in which the workers stay where they are or leave.               *)
LEMMA OvertakeQuiet ==
  ASSUME IInv, OvertakeInv,
         accepted' = accepted,
         \A t \in Built : txs'[t] = txs[t],
         \A w \in Workers : \/ thr'[w] = thr[w]
                            \/ thr'[w].pc \notin {"checked", "targeted", "fetched"},
         \A r \in RunIds : /\ prep'[r].tx = prep[r].tx
                           /\ \/ prep'[r].status = prep[r].status
                              \/ prep'[r].status = "broadcasted"
  PROVE  OvertakeInv'
<1> SUFFICES ASSUME NEW r \in RunIds, ~SplitSent(r)'
             PROVE  Cardinality(Overtaking(r)') + Cardinality(Ahead(r)')
                      <= Cardinality(Workers)
  BY DEF OvertakeInv
<1>1. ~SplitSent(r)
  BY DEF SplitSent, HasSplit
<1>2. Ahead(r)' \subseteq Ahead(r)
  BY AheadSettled
<1> QED
  BY <1>1, <1>2, OvertakeFrame

(* A run whose split is stored has no transaction to overtake it yet.      *)
LEMMA SplitOvertake ==
  ASSUME IInv, OvertakeInv, SignNoteSplitBuild
  PROVE  OvertakeInv'
<1> SUFFICES ASSUME NEW r \in RunIds, ~SplitSent(r)'
             PROVE  Cardinality(Overtaking(r)') + Cardinality(Ahead(r)')
                      <= Cardinality(Workers)
  BY DEF OvertakeInv
<1>1. /\ job.run \in RunIds
      /\ \A t \in TxIds : txs[t].run # job.run
      /\ prep' = [prep EXCEPT ![job.run] = [tx |-> nextTx, status |-> "pending"]]
      /\ thr' = [thr EXCEPT ![App].pc = "locking", ![App].tx = nextTx,
                            ![App].prepOf = job.run]
  BY DEF SignNoteSplitBuild, InsertPrepTx, IInv, SigningInv
<1>2. PICK body \in [kind : {"split"}, run : RunIds \cup {NoRun}, spends : {SplitInputs},
                     outs : {job.todo}, last : 0..MaxMoney, sendAt : {0},
                     expiry : {height + SplitWindow}, batch : {nextTx}] : Build(body)
  BY <1>1 DEF SignNoteSplitBuild
<1>3. accepted' = accepted /\ txs' = [txs EXCEPT ![nextTx] = body]
  BY <1>2 DEF Build
<1>4. \A t \in Built : t \in TxIds /\ txs'[t] = txs[t]
  BY <1>3, ChainAssumption DEF IInv, TypeOK, ChainTypeOK, Built, TxIds
<1>5. \A w \in Workers : thr'[w] = thr[w]
  BY <1>1, ContextAssumption DEF IInv, TypeOK, Threads
<1>6. CASE r = job.run
  <2>1. Overtaking(r)' = {}
    BY <1>1, <1>3, <1>4, <1>6 DEF Overtaking, Transfers, IInv, ChainInv
  <2>2. Ahead(r)' \subseteq Workers
    BY DEF Ahead
  <2>3. /\ Cardinality(Ahead(r)') <= Cardinality(Workers)
        /\ Cardinality(Ahead(r)') \in Nat
    BY <2>2, FewFinite, FS_Subset, FS_CardinalityType
  <2>4. Cardinality({}) = 0
    BY FS_EmptySet
  <2> QED
    BY <2>1, <2>3, <2>4
<1>7. CASE r # job.run
  <2>1. prep'[r] = prep[r]
    BY <1>1, <1>7 DEF IInv, TypeOK, StoreTypeOK
  <2>2. ~SplitSent(r)
    BY <2>1 DEF SplitSent, HasSplit
  <2>3. Ahead(r)' \subseteq Ahead(r)
    BY <1>4, <1>5, AheadSettled
  <2> QED
    BY <1>3, <1>4, <2>2, <2>3, OvertakeFrame
<1> QED
  BY <1>6, <1>7

(* A delivery gets past the look at a split only where it is recorded as   *)
(* sent, or where there is none.                                           *)
LEMMA LookOvertake ==
  ASSUME IInv, OvertakeInv, NEW w \in Workers, NextDueTransfer(w)
  PROVE  OvertakeInv'
<1>0. w \in Threads
  BY DEF Threads
<1>1. UNCHANGED <<txs, accepted, prep>>
  BY DEF NextDueTransfer, NextDueBegin, NextDueIsSplit, NextDueNoSplit,
     NextDueTarget, NextDueIsTransfer, NextDueNone, chainVars, storeVars
<1>2. \A v : /\ \A u \in Threads : u # w => [thr EXCEPT ![w] = v][u] = thr[u]
             /\ [thr EXCEPT ![w] = v][w] = v
  BY <1>0 DEF IInv, TypeOK
<1>3. \A u \in Workers : u # w => thr'[u] = thr[u]
  <2>1. \E v : thr' = [thr EXCEPT ![w] = v]
    BY DEF NextDueTransfer, NextDueBegin, NextDueIsSplit, NextDueNoSplit, NextDueTarget,
       NextDueIsTransfer, NextDueNone, Return
  <2> QED
    BY <1>2, <2>1 DEF Threads
<1>4. thr[w] \in ThreadStates
  BY <1>0 DEF IInv, TypeOK
<1> SUFFICES ASSUME NEW r \in RunIds, ~SplitSent(r), w \in Ahead(r)'
             PROVE  w \in Ahead(r)
  <2>1. SUFFICES ASSUME NEW r \in RunIds, ~SplitSent(r)'
                 PROVE  Cardinality(Overtaking(r)') + Cardinality(Ahead(r)')
                          <= Cardinality(Workers)
    BY DEF OvertakeInv
  <2>2. ~SplitSent(r)
    BY <1>1, <2>1 DEF SplitSent, HasSplit
  <2>3. \A u \in Workers : u # w /\ u \in Ahead(r)' => u \in Ahead(r)
    BY <1>1, <1>3 DEF Ahead
  <2>4. Ahead(r)' \subseteq Workers
    BY DEF Ahead
  <2>5. Ahead(r)' \subseteq Ahead(r)
    BY <2>2, <2>3, <2>4
  <2> QED
    BY <1>1, <2>2, <2>5, OvertakeFrame
<1>5. CASE NextDueBegin(w)
  <2>1. thr'[w].pc = "asking"
    BY <1>0, <1>4, <1>5 DEF NextDueBegin, IInv, TypeOK, ThreadStates
  <2> QED
    BY <2>1 DEF Ahead
<1>6. CASE NextDueIsSplit(w)
  <2>1. /\ thr'[w].pc = "fetched" /\ thr'[w].tx = prep[thr[w].run].tx
    BY <1>2, <1>6 DEF NextDueIsSplit, Idle
  <2>2. txs[prep[thr[w].run].tx].kind = "split"
    BY <1>6, NextDueBuilt
  <2> QED
    BY <1>1, <2>1, <2>2 DEF Ahead
<1>7. CASE NextDueNoSplit(w)
  <2>1. thr'[w].pc = "checked" /\ thr'[w].run = thr[w].run
    BY <1>0, <1>4, <1>7 DEF NextDueNoSplit, IInv, TypeOK, ThreadStates
  <2>2. thr[w].run = r
    BY <2>1 DEF Ahead
  <2>3. prep[r].status \notin {"pending", "broadcasted", Absent}
    BY <1>7, <2>2 DEF NextDueNoSplit, SplitSent, IInv, RunInv
  <2> QED
    BY <2>3 DEF IInv, TypeOK, StoreTypeOK, PrepRows
<1>8. CASE NextDueTarget(w)
  <2>1. thr[w].pc = "checked" /\ thr'[w].pc = "targeted" /\ thr'[w].run = thr[w].run
    BY <1>0, <1>4, <1>8 DEF NextDueTarget, At, IInv, TypeOK, ThreadStates
  <2> QED
    BY <2>1 DEF Ahead
<1>9. CASE NextDueIsTransfer(w)
  <2>1. PICK t \in NextDue(thr[w].run, thr[w].target) :
          thr' = [thr EXCEPT ![w] = [Idle EXCEPT !.pc = "fetched", !.tx = t]]
    BY <1>9 DEF NextDueIsTransfer
  <2>2. thr'[w].pc = "fetched" /\ thr'[w].tx = t
    BY <1>2, <2>1 DEF Idle
  <2>3. txs[t].run = thr[w].run /\ thr[w].pc = "targeted"
    BY <1>9 DEF NextDueIsTransfer, At, NextDue, DueRows, RowsOf
  <2> QED
    BY <1>1, <2>2, <2>3 DEF Ahead
<1>10. CASE NextDueNone(w)
  <2>1. thr'[w].pc = "idle"
    BY <1>2, <1>10 DEF NextDueNone, Return, Idle
  <2> QED
    BY <2>1 DEF Ahead
<1> QED
  BY <1>5, <1>6, <1>7, <1>8, <1>9, <1>10 DEF NextDueTransfer

(* What the App broadcasts is a split; a worker that broadcasts a transfer *)
(* was ahead of the split of that transfer's run.                          *)
LEMMA SenderAhead ==
  ASSUME IInv, NEW th \in Threads, At(th, "fetched"),
         txs[thr[th].tx].kind = "transfer"
  PROVE  th \in Workers /\ th \in Ahead(txs[thr[th].tx].run)
<1>1. /\ thr[th].prepOf # NoRun => prep[thr[th].prepOf].tx = thr[th].tx
      /\ thr[App].pc = "fetched" => thr[App].prepOf # NoRun
      /\ thr[th].tx \in Built /\ thr[th].tx # NoTx
  BY DEF At, IInv, CarriedInv, Built, NoTx
<1>2. thr[th].prepOf \in RunIds \cup {NoRun}
  BY ThreadMoves DEF IInv
<1>3. ASSUME thr[th].prepOf # NoRun PROVE FALSE
  BY <1>1, <1>2, <1>3 DEF IInv, RunInv, HasSplit
<1>4. th \in Workers
  BY <1>1, <1>3 DEF At, Threads
<1> QED
  BY <1>4 DEF At, Ahead

(* Sending uses up the delivery that was ahead.                            *)
LEMMA SendOvertake ==
  ASSUME IInv, OvertakeInv, NEW th \in Threads, BroadcastAccepted(th)
  PROVE  OvertakeInv'
<1> DEFINE t == thr[th].tx
<1>1. /\ UNCHANGED <<txs, prep>> /\ accepted' = accepted \cup {t}
      /\ At(th, "fetched")
  BY DEF BroadcastAccepted, storeVars
<1>2. /\ thr'[th].pc = "answered"
      /\ \A u \in Threads : u # th => thr'[u] = thr[u]
  BY DEF BroadcastAccepted, IInv, TypeOK, ThreadStates
<1> SUFFICES ASSUME NEW r \in RunIds, ~SplitSent(r)'
             PROVE  Cardinality(Overtaking(r)') + Cardinality(Ahead(r)')
                      <= Cardinality(Workers)
  BY DEF OvertakeInv
<1>3. ~SplitSent(r)
  BY <1>1 DEF SplitSent, HasSplit
<1>4. Cardinality(Overtaking(r)) + Cardinality(Ahead(r)) <= Cardinality(Workers)
  BY <1>3 DEF OvertakeInv
<1>5. Ahead(r)' \subseteq Ahead(r) \ {th}
  BY <1>1, <1>2 DEF Ahead, Threads
<1>6. CASE txs[t].kind = "transfer" /\ txs[t].run = r
  <2>1. th \in Ahead(r)
    BY <1>1, <1>6, SenderAhead
  <2>2. /\ IsFiniteSet(Ahead(r) \ {th})
        /\ Cardinality(Ahead(r) \ {th}) = Cardinality(Ahead(r)) - 1
    BY <2>1, FewFinite, FS_RemoveElement
  <2>3. /\ Cardinality(Ahead(r)') <= Cardinality(Ahead(r) \ {th})
        /\ Cardinality(Ahead(r)') \in Nat
    BY <1>5, <2>2, FS_Subset, FS_CardinalityType
  <2>4. Overtaking(r)' = Overtaking(r) \cup {t}
    BY <1>1, <1>6 DEF Overtaking, Transfers
  <2>5. Cardinality(Overtaking(r)') \in {Cardinality(Overtaking(r)), Cardinality(Overtaking(r)) + 1}
    BY <2>4, FewFinite, FS_AddElement
  <2> QED
    BY <1>4, <2>2, <2>3, <2>5, FewFinite
<1>7. CASE ~(txs[t].kind = "transfer" /\ txs[t].run = r)
  <2>1. Overtaking(r)' = Overtaking(r)
    BY <1>1, <1>7 DEF Overtaking, Transfers
  <2>2. Cardinality(Ahead(r)') <= Cardinality(Ahead(r)) /\ Cardinality(Ahead(r)') \in Nat
    BY <1>5, FewFinite, FS_Subset, FS_CardinalityType
  <2> QED
    BY <1>4, <2>1, <2>2, FewFinite
<1> QED
  BY <1>6, <1>7

(* A thread that records a result leaves, and App is no delivery.          *)
LEMMA RecordOvertake ==
  ASSUME IInv, OvertakeInv, NEW th \in Threads,
         \/ BroadcastNotAccepted(th) \/ RecordPrepSent(th) \/ RecordPrepPhase(th)
         \/ RecordTransferSent(th) \/ RecordNothing(th) \/ RecordRefusalBegin(th)
         \/ RecordTransferRefused(th)
  PROVE  OvertakeInv'
<1>1. UNCHANGED <<txs, accepted>>
  BY DEF BroadcastNotAccepted, RecordPrepSent, RecordPrepPhase, RecordTransferSent,
     RecordNothing, RecordRefusalBegin, RecordTransferRefused, chainVars
<1>2. \A r \in RunIds : /\ prep'[r].tx = prep[r].tx
                        /\ \/ prep'[r].status = prep[r].status
                           \/ prep'[r].status = "broadcasted"
  <2>1. CASE RecordPrepSent(th)
    BY <2>1 DEF RecordPrepSent, SetPrepBroadcasted, IInv, TypeOK, StoreTypeOK, PrepRows
  <2>2. CASE UNCHANGED prep
    BY <2>2
  <2> QED
    BY <2>1, <2>2 DEF BroadcastNotAccepted, RecordPrepPhase, RecordTransferSent,
       RecordNothing, RecordRefusalBegin, RecordTransferRefused, MarkPending, SetPhase,
       storeVars
<1>3. thr \in [Threads -> ThreadStates]
  BY DEF IInv, TypeOK
<1>4. \A u \in Threads : \/ thr'[u] = thr[u]
                         \/ thr'[u].pc \in {"answered", "prepsent", "refusing", "idle"}
  <2>1. CASE \E a : thr' = [thr EXCEPT ![th].pc = "answered", ![th].answer = a]
    BY <1>3, <2>1 DEF ThreadStates
  <2>2. CASE thr' = [thr EXCEPT ![th].pc = "prepsent"]
    BY <1>3, <2>2 DEF ThreadStates
  <2>3. CASE \E r : thr' = [thr EXCEPT ![th].pc = "refusing", ![th].run = r]
    BY <1>3, <2>3 DEF ThreadStates
  <2>4. CASE thr' = [thr EXCEPT ![th] = Idle]
    BY <1>3, <2>4 DEF Idle
  <2> QED
    BY <2>1, <2>2, <2>3, <2>4 DEF BroadcastNotAccepted, RecordPrepSent, RecordPrepPhase,
       RecordTransferSent, RecordNothing, RecordRefusalBegin, RecordTransferRefused, Return
<1>5. \A w \in Workers : \/ thr'[w] = thr[w]
                         \/ thr'[w].pc \notin {"checked", "targeted", "fetched"}
  BY <1>4 DEF Threads
<1> QED
  BY <1>1, <1>2, <1>5, OvertakeQuiet

(* The App's other calls, migration_state, the chain, and the death of the *)
(* process.                                                                *)
LEMMA RestOvertake ==
  ASSUME IInv, OvertakeInv,
         \/ AppStep /\ ~SignNoteSplitBuild
         \/ StateStep \/ Crash \/ Environment \/ UNCHANGED vars
  PROVE  OvertakeInv'
<1>1. accepted' = accepted /\ prep' = prep
  <2>1. CASE AppStep /\ ~SignNoteSplitBuild
    <3>1. CASE SignTransfer
      BY <3>1 DEF SignTransfer, Build, InsertPendingTx
    <3>2. CASE RestartCurrentStep
      BY <3>2 DEF RestartCurrentStep, ClearScheduled, chainVars, storeVars
    <3> QED
      BY <2>1, <3>1, <3>2, QuietApp DEF AppStep, delivered
  <2>2. CASE StateStep
    BY <2>2 DEF StateStep, StateBegin, StateReconciles, StateAdvances, StateReports,
       MarkPending, SetPhase, chainVars, storeVars
  <2>3. CASE Environment
    BY <2>3, ChainChanges
  <2>4. CASE Crash \/ UNCHANGED vars
    BY <2>4 DEF Crash, vars, chainVars, storeVars
  <2> QED
    BY <2>1, <2>2, <2>3, <2>4
<1>2. \A t \in Built : txs'[t] = txs[t]
  <2>1. CASE SignTransfer
    <3>1. PICK body : Build(body)
      BY <2>1 DEF SignTransfer
    <3> QED
      BY <3>1 DEF Build, Built, IInv, TypeOK, ChainTypeOK
  <2>2. CASE UNCHANGED txs
    BY <2>2
  <2>3. CASE RestartCurrentStep
    BY <2>3 DEF RestartCurrentStep, chainVars
  <2>4. CASE StateStep
    BY <2>4 DEF StateStep, StateBegin, StateReconciles, StateAdvances, StateReports, chainVars
  <2> QED
    BY <2>1, <2>2, <2>3, <2>4, QuietApp, ChainChanges
       DEF AppStep, delivered, Crash, vars, chainVars
<1>3. thr \in [Threads -> ThreadStates]
  BY DEF IInv, TypeOK
<1>4. \A w \in Workers : thr'[w] = thr[w] \/ thr'[w].pc = "idle"
  <2>1. CASE AppStep /\ ~SignNoteSplitBuild
    <3>1. UNCHANGED thr \/ (\E v : thr' = [thr EXCEPT ![App] = v])
      BY <2>1 DEF AppStep, PrepareNoteSplit, SignNoteSplitBegin, SignNoteSplitFails,
         SignNoteSplitLock, SignNoteSplitLockFails, ProposeMigrationTransfers,
         ProposeImmediate, RestartCurrentStep, SignScheduleBegin, SignTransfer,
         SignScheduleFails, SignScheduleEnd, ReturnFromSigning, Return
    <3> QED
      BY <1>3, <3>1, ContextAssumption DEF Threads
  <2>2. CASE StateStep \/ Environment \/ UNCHANGED vars
    BY <2>2 DEF StateStep, StateBegin, StateReconciles, StateAdvances, StateReports,
       Environment, vars, ctxVars
  <2>3. CASE Crash
    BY <2>3 DEF Crash, Idle, Threads
  <2> QED
    BY <2>1, <2>2, <2>3
<1> QED
  BY <1>1, <1>2, <1>4, OvertakeQuiet

LEMMA OvertakeStep ==
  ASSUME IInv, OvertakeInv, [Next]_vars
  PROVE  OvertakeInv'
BY SplitOvertake, LookOvertake, SendOvertake, RecordOvertake, RestOvertake
   DEF Next, DeliveryStep, AppStep

-----------------------------------------------------------------------------
(* The refinement.                                                         *)

LEMMA PromiseInit == Init => Promise!Init
BY DEF Init, ChainInit, StoreInit, Promise!Init, Unbuilt, NoPrep, NoTx, Absent

LEMMA PromiseStutter ==
  ASSUME UNCHANGED delivered
  PROVE  UNCHANGED Promise!promise
BY DEF delivered, Promise!promise

(* Signing a split, whose run has signed nothing yet.                      *)
LEMMA SplitRefines ==
  ASSUME IInv, SignNoteSplitBuild
  PROVE  Promise!Next
<1>1. PICK last \in 0..MaxMoney :
        /\ nextTx <= MaxTx
        /\ txs' = [txs EXCEPT ![nextTx] =
              [kind |-> "split", run |-> job.run, spends |-> SplitInputs,
               outs |-> job.todo, last |-> last, sendAt |-> 0,
               expiry |-> height + SplitWindow, batch |-> nextTx]]
  BY DEF SignNoteSplitBuild, Build
<1>2. /\ job.run \in RunIds
      /\ prep[job.run] = NoPrep
      /\ \A t \in TxIds : txs[t].run # job.run
      /\ prep' = [prep EXCEPT ![job.run] = [tx |-> nextTx, status |-> "pending"]]
      /\ UNCHANGED <<pending, accepted, mined>>
  BY DEF SignNoteSplitBuild, InsertPrepTx, IInv, SigningInv, Build
<1>3. nextTx \in TxIds /\ txs[nextTx] = Unbuilt
  BY <1>1 DEF IInv, TypeOK, ChainTypeOK, TxIds, ChainInv
<1>4. [t \in TxIds |-> txs'[t].run]
        = [[t \in TxIds |-> txs[t].run] EXCEPT ![nextTx] = job.run]
  BY <1>1, <1>3 DEF IInv, TypeOK, ChainTypeOK
<1>5. [r \in RunIds |-> prep'[r].tx]
        = [[r \in RunIds |-> prep[r].tx] EXCEPT ![job.run] = nextTx]
  BY <1>2 DEF IInv, TypeOK, StoreTypeOK
<1>6. {r \in RunIds : prep'[r].status = "broadcasted"}
        = {r \in RunIds : prep[r].status = "broadcasted"}
  BY <1>2 DEF NoPrep, Absent, IInv, TypeOK, StoreTypeOK
<1>7. Promise!SignSplit(job.run, nextTx)
  BY <1>2, <1>3, <1>4, <1>5, <1>6 DEF Promise!SignSplit, Unbuilt
<1> QED
  BY <1>2, <1>3, <1>7 DEF Promise!Next, Promise!SignSplit

(* Signing a transfer, and storing its row in the same step.               *)
LEMMA TransferRefines ==
  ASSUME IInv, SignTransfer
  PROVE  Promise!Next
<1>1. PICK S \in TransferInputs :
        /\ nextTx <= MaxTx
        /\ txs' = [txs EXCEPT ![nextTx] =
              [kind |-> "transfer", run |-> job.run, spends |-> S,
               outs |-> 0, last |-> 0, sendAt |-> job.sendAt,
               expiry |-> job.sendAt + Window, batch |-> job.batch]]
  BY DEF SignTransfer, Build
<1>2. /\ job.run \in RunIds
      /\ pending' = [pending EXCEPT ![nextTx] = "scheduled"]
      /\ UNCHANGED <<prep, accepted, mined>>
  BY DEF SignTransfer, InsertPendingTx, IInv, SigningInv, Build
<1>3. nextTx \in TxIds /\ txs[nextTx] = Unbuilt
  BY <1>1 DEF IInv, TypeOK, ChainTypeOK, TxIds, ChainInv
<1>4. [t \in TxIds |-> txs'[t].run]
        = [[t \in TxIds |-> txs[t].run] EXCEPT ![nextTx] = job.run]
  BY <1>1, <1>3 DEF IInv, TypeOK, ChainTypeOK
<1>5. Promise!SignTransfer(job.run, nextTx)
  BY <1>2, <1>3, <1>4 DEF Promise!SignTransfer, Unbuilt
<1> QED
  BY <1>2, <1>3, <1>5 DEF Promise!Next, Promise!SignTransfer

(* Delivery counts as this module does.                                    *)
LEMMA SameCount ==
  ASSUME NEW S
  PROVE  Promise!Cardinality(S) = Cardinality(S)
BY DEF Cardinality, Promise!Cardinality

(* A broadcast: what a thread carries is the split of its run, or a        *)
(* transfer of a run whose split was recorded as sent, or one of the few   *)
(* that are ahead of it.                                                   *)
LEMMA BroadcastRefines ==
  ASSUME IInv, OvertakeInv, NEW th \in Threads, BroadcastAccepted(th)
  PROVE  Promise!Next
<1> DEFINE t == thr[th].tx
           r == txs[t].run
<1>1. t \in Built /\ t \in TxIds
  BY ChainAssumption DEF BroadcastAccepted, At, IInv, CarriedInv, TypeOK,
     ChainTypeOK, Built, TxIds
<1>2. r \in RunIds
  BY <1>1 DEF IInv, RunInv
<1>3. /\ UNCHANGED <<txs, prep, pending, mined>>
      /\ accepted' = accepted \cup {t}
      /\ At(th, "fetched")
  BY DEF BroadcastAccepted, storeVars
<1>4. r # NoRun
  BY <1>2, ChainAssumption
<1>5. \/ Promise!IsSplit(t)
      \/ prep[r].tx \in accepted \cup {0}
      \/ Cardinality(Promise!SentOf(r)) < Cardinality(Workers)
  <2>1. CASE txs[t].kind # "transfer"
    <3>1. prep[r].tx = t
      BY <1>1, <2>1 DEF IInv, RunInv
    <3> QED
      BY <1>2, <3>1 DEF Promise!IsSplit
  <2>2. CASE SplitSent(r)
    <3>1. prep[r].tx = 0 \/ prep[r].status = "broadcasted"
      BY <2>2 DEF SplitSent, HasSplit, NoTx
    <3> QED
      BY <1>2, <3>1 DEF IInv, RecordedMeansAccepted
  <2>3. CASE txs[t].kind = "transfer" /\ ~SplitSent(r)
    <3> HIDE DEF r
    <3>1. th \in Ahead(r)
      BY <1>3, <2>3, SenderAhead DEF r
    <3>2. Cardinality(Overtaking(r)) + Cardinality(Ahead(r)) <= Cardinality(Workers)
      BY <1>2, <2>3 DEF OvertakeInv
    <3>3. Cardinality(Ahead(r)) >= 1
      <4>1. IsFiniteSet({th}) /\ Cardinality({th}) = 1
        BY FS_EmptySet, FS_AddElement
      <4>2. {th} \subseteq Ahead(r)
        BY <3>1
      <4>3. Cardinality({th}) <= Cardinality(Ahead(r))
        BY <1>2, <4>2, FewFinite, FS_Subset
      <4> QED
        BY <1>2, <4>1, <4>3, FewFinite
    <3>4. Promise!SentOf(r) \subseteq Overtaking(r)
      <4>1. ASSUME NEW u \in accepted, [v \in TxIds |-> txs[v].run][u] = r,
                   u # [q \in RunIds |-> prep[q].tx][r]
            PROVE  u \in Overtaking(r)
        <5>1. u \in Built /\ u \in TxIds
          BY DEF IInv, ChainInv, TypeOK, ChainTypeOK
        <5>2. txs[u].run = r /\ u # prep[r].tx
          BY <1>2, <4>1, <5>1
        <5> QED
          BY <5>1, <5>2 DEF Overtaking, Transfers, IInv, RunInv
      <4> QED
        BY <4>1 DEF Promise!SentOf
    <3>5. /\ Cardinality(Promise!SentOf(r)) <= Cardinality(Overtaking(r))
          /\ Cardinality(Promise!SentOf(r)) \in Nat
      BY <1>2, <3>4, FewFinite, FS_Subset, FS_CardinalityType
    <3>6. Cardinality(Promise!SentOf(r)) < Cardinality(Workers)
      BY <1>2, <3>2, <3>3, <3>5, FewFinite
    <3> QED
      BY <3>6
  <2> QED
    BY <2>1, <2>2, <2>3
<1>6. [u \in TxIds |-> txs[u].run][t] = r /\ [q \in RunIds |-> prep[q].tx][r] = prep[r].tx
  BY <1>1, <1>2
<1>7. /\ [u \in TxIds |-> txs[u].run][t] # NoRun
      /\ \/ Promise!IsSplit(t)
         \/ [q \in RunIds |-> prep[q].tx][[u \in TxIds |-> txs[u].run][t]] \in accepted \cup {0}
         \/ Cardinality(Promise!SentOf([u \in TxIds |-> txs[u].run][t])) < Cardinality(Workers)
  <2> HIDE DEF r
  <2> QED
    BY <1>4, <1>5, <1>6
<1>8. Promise!Send(t)
  BY <1>1, <1>3, <1>7, SameCount DEF Promise!Send
<1> QED
  BY <1>1, <1>8 DEF Promise!Next, Promise!Send

(* The report of a split.                                                  *)
LEMMA PrepReportRefines ==
  ASSUME IInv, NEW th \in Threads, RecordPrepSent(th)
  PROVE  Promise!Next
<1> DEFINE r == thr[th].prepOf
<1>1. r \in RunIds /\ prep[r].tx \in accepted
  BY DEF RecordPrepSent, Answered, At, IInv, CarriedInv, TypeOK, ThreadStates
<1>2. /\ UNCHANGED <<txs, pending, accepted, mined>>
      /\ prep' = [prep EXCEPT ![r].status = "broadcasted"]
  BY DEF RecordPrepSent, SetPrepBroadcasted, chainVars
<1>3. [s \in RunIds |-> prep'[s].tx] = [s \in RunIds |-> prep[s].tx]
  BY <1>1, <1>2 DEF IInv, TypeOK, StoreTypeOK, PrepRows
<1>4. {s \in RunIds : prep'[s].status = "broadcasted"}
        = {s \in RunIds : prep[s].status = "broadcasted"} \cup {r}
  BY <1>1, <1>2 DEF IInv, TypeOK, StoreTypeOK, PrepRows
<1>5. Promise!ReportSplit(r)
  BY <1>1, <1>2, <1>3, <1>4 DEF Promise!ReportSplit
<1> QED
  BY <1>1, <1>5 DEF Promise!Next, Promise!ReportSplit

(* The report of a transfer; one about a deleted row changes nothing.      *)
LEMMA ReportRefines ==
  ASSUME IInv, NEW th \in Threads, RecordTransferSent(th)
  PROVE  Promise!Next \/ UNCHANGED Promise!promise
<1> DEFINE t == thr[th].tx
<1>1. t \in accepted /\ t \in TxIds
  BY DEF RecordTransferSent, Answered, At, IInv, CarriedInv, TypeOK, ChainTypeOK
<1>2. /\ UNCHANGED <<txs, prep, accepted, mined>>
      /\ pending' = [u \in TxIds |-> IF u \in {t} /\ pending[u] # Absent
                                     THEN "broadcasted" ELSE pending[u]]
  BY DEF RecordTransferSent, MarkPending, chainVars
<1>3. CASE pending[t] # Absent
  <2>1. pending' = [pending EXCEPT ![t] = "broadcasted"]
    BY <1>1, <1>2, <1>3 DEF IInv, TypeOK, StoreTypeOK
  <2>2. Promise!Report(t)
    BY <1>1, <1>2, <1>3, <2>1 DEF Promise!Report, Absent
  <2> QED
    BY <1>1, <2>2 DEF Promise!Next
<1>4. CASE pending[t] = Absent
  <2>1. pending' = pending
    BY <1>1, <1>2, <1>4 DEF IInv, TypeOK, StoreTypeOK
  <2> QED
    BY <1>2, <2>1, PromiseStutter DEF delivered
<1> QED
  BY <1>3, <1>4

(* migration_state confirms rows that read broadcasted and are mined.      *)
LEMMA ReconcileRefines ==
  ASSUME IInv, StateReconciles
  PROVE  Promise!Next
<1>1. /\ UNCHANGED <<txs, prep, accepted, mined>>
      /\ pending' = [t \in TxIds |-> IF t \in SeenMined /\ pending[t] # Absent
                                     THEN "confirmed" ELSE pending[t]]
  BY DEF StateReconciles, MarkPending, chainVars
<1>2. \A t \in SeenMined : t \in TxIds /\ pending[t] = "broadcasted" /\ t \in mined
  BY DEF SeenMined, BroadcastedOf, RowsOf
<1>3. pending' = [t \in TxIds |-> IF t \in SeenMined THEN "confirmed" ELSE pending[t]]
  BY <1>1, <1>2 DEF Absent
<1>4. Promise!Confirm(SeenMined)
  BY <1>1, <1>2, <1>3 DEF Promise!Confirm
<1>5. SeenMined \in SUBSET TxIds
  BY <1>2
<1> QED
  BY <1>4, <1>5 DEF Promise!Next

(* A restart deletes the scheduled rows of the active run, if there is one.*)
LEMMA RestartRefines ==
  ASSUME IInv, RestartCurrentStep
  PROVE  Promise!Next \/ UNCHANGED Promise!promise
<1>1. UNCHANGED chainVars
  BY DEF RestartCurrentStep
<1>2. ASSUME NEW r \in RunIds, ClearScheduled({r}) PROVE Promise!Next
  <2>1. pending' = [t \in TxIds |-> IF txs[t].run = r /\ pending[t] = "scheduled"
                                    THEN "absent" ELSE pending[t]]
    BY <1>2 DEF ClearScheduled, Absent
  <2>2. UNCHANGED prep
    BY <1>2 DEF ClearScheduled
  <2>3. [t \in TxIds |-> IF txs[t].run = r /\ pending[t] = "scheduled"
                         THEN "absent" ELSE pending[t]]
        = [t \in TxIds |-> IF [u \in TxIds |-> txs[u].run][t] = r
                              /\ pending[t] = "scheduled"
                           THEN "absent" ELSE pending[t]]
    OBVIOUS
  <2>4. Promise!Discard(r)
    BY <1>1, <2>1, <2>2, <2>3 DEF Promise!Discard, chainVars
  <2> QED
    BY <2>4 DEF Promise!Next
<1>3. CASE UNCHANGED storeVars
  BY <1>1, <1>3, PromiseStutter DEF delivered, storeVars, chainVars
<1> QED
  BY <1>2, <1>3 DEF RestartCurrentStep, ActiveRuns, LiveRuns

LEMMA ChainRefines ==
  ASSUME IInv, Environment
  PROVE  Promise!Next \/ UNCHANGED Promise!promise
<1>1. CASE UNCHANGED mined
  BY <1>1, ChainChanges, PromiseStutter DEF delivered
<1>2. ASSUME NEW t \in TxIds, Mine(t) PROVE Promise!Next
  <2>1. t \in accepted /\ mined' = mined \cup {t}
    BY <1>2 DEF Mine, IInv, ChainInv
  <2>2. Promise!MineOne(t)
    BY <2>1, ChainChanges DEF Promise!MineOne
  <2> QED
    BY <2>2 DEF Promise!Next
<1> QED
  BY <1>1, <1>2, ChainChanges

(* Every step of the facade and its environment.                           *)
LEMMA StepRefines ==
  ASSUME IInv, OvertakeInv, [Next]_vars
  PROVE  Promise!Next \/ UNCHANGED Promise!promise
BY QuietApp, QuietElsewhere, PromiseStutter, SplitRefines, TransferRefines,
   BroadcastRefines, PrepReportRefines, ReportRefines, ReconcileRefines,
   RestartRefines, ChainRefines DEF Next, AppStep, DeliveryStep, StateStep

-----------------------------------------------------------------------------
(* The theorems.                                                           *)

LEMMA Overtaken == Spec => [](IInv /\ OvertakeInv)
<1>1. Init => IInv /\ OvertakeInv
  BY InitIInv, OvertakeInit
<1>2. IInv /\ OvertakeInv /\ [Next]_vars => (IInv /\ OvertakeInv)'
  BY NextIInv, OvertakeStep
<1> QED
  BY <1>1, <1>2, PTL DEF Spec

(* No more transfers of a run reach the network before its split was       *)
(* recorded as sent than there are deliveries, however late a delivery     *)
(* that looked before the split was stored is handed one                   *)
(* (context.rs:397-408).                                                   *)
THEOREM FewTransfersOvertake == Spec => []FewOvertake
<1>1. IInv /\ OvertakeInv => FewOvertake
  <2> SUFFICES ASSUME IInv, OvertakeInv, NEW r \in RunIds, ~SplitSent(r)
               PROVE  Cardinality(Overtaking(r)) <= Cardinality(Workers)
    BY DEF FewOvertake
  <2>1. Cardinality(Overtaking(r)) + Cardinality(Ahead(r)) <= Cardinality(Workers)
    BY DEF OvertakeInv
  <2> QED
    BY <2>1, FewFinite
<1> QED
  BY <1>1, Overtaken, PTL

(* The engine keeps Delivery's promise for any number of runs, workers and *)
(* transactions and under every fault (store.rs:317-474, context.rs:388-   *)
(* 476): no interleaving of its calls sends a transfer before its run's    *)
(* split, but for one per delivery, records what did not happen, or        *)
(* discards the record of a transfer reported sent.                        *)
THEOREM ImplementsDelivery == Spec => DeliveryKept
<1>1. Init => Promise!Init
  BY PromiseInit
<1>2. IInv /\ OvertakeInv /\ [Next]_vars => [Promise!Next]_Promise!promise
  BY StepRefines
<1> QED
  BY <1>1, <1>2, Overtaken, PTL DEF Spec, DeliveryKept, Promise!Spec
=============================================================================
