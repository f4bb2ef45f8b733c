---------------------------- MODULE CompletionProofs ----------------------------
(***************************************************************************)
(* When a migration is over: Complete is told only of a migrated run,      *)
(* whatever the callers of MigrationContext do.                            *)
(***************************************************************************)
EXTENDS MigrationProofs

USE ChainAssumption, StoreAssumption, ContextAssumption DEF TxIds, NoTx

-----------------------------------------------------------------------------
(* What every step keeps: the content of a transaction, and what the chain *)
(* has once seen.                                                          *)

SameBuilt == \A t \in Built : t \in Built' /\ t \in TxIds /\ txs'[t] = txs[t]

Onwards ==
  /\ mined \subseteq mined'
  /\ matured \subseteq matured'
  /\ late' \subseteq late
  /\ elsewhere \subseteq elsewhere'

LEMMA SameTxs ==
  ASSUME IInv, UNCHANGED <<txs, nextTx>>
  PROVE  SameBuilt
BY DEF SameBuilt, Built, IInv, TypeOK, ChainTypeOK

LEMMA OneMoreTx ==
  ASSUME IInv, NEW body, Build(body)
  PROVE  /\ SameBuilt
         /\ UNCHANGED <<mined, matured, late, elsewhere>>
         /\ nextTx \in TxIds /\ nextTx \notin Built /\ nextTx \in Nat
         /\ txs'[nextTx] = body
         /\ \A t \in Built' : t \in Built \/ t = nextTx
         /\ \A t \in TxIds : t # nextTx => txs'[t] = txs[t]
<1>1. nextTx \in TxIds /\ nextTx \in Nat
  BY DEF Build, IInv, TypeOK, ChainTypeOK
<1> QED
  BY <1>1 DEF SameBuilt, Build, Built, IInv, TypeOK, ChainTypeOK

LEMMA AppKeeps ==
  ASSUME IInv, AppStep
  PROVE  SameBuilt /\ Onwards
<1>1. CASE SignNoteSplitBuild
  <2>1. PICK body : Build(body)
    BY <1>1 DEF SignNoteSplitBuild
  <2> QED
    BY <2>1, OneMoreTx DEF Onwards
<1>2. CASE SignTransfer
  <2>1. PICK body : Build(body)
    BY <1>2 DEF SignTransfer
  <2> QED
    BY <2>1, OneMoreTx DEF Onwards
<1>3. CASE UNCHANGED chainVars
  BY <1>3, SameTxs DEF Onwards, chainVars
<1> QED
  BY <1>1, <1>2, <1>3
     DEF AppStep, PrepareNoteSplit, SignNoteSplitBegin, SignNoteSplitFails,
         SignNoteSplitLock, SignNoteSplitLockFails, ProposeMigrationTransfers,
         ProposeImmediate, RestartCurrentStep, SignScheduleBegin, SignScheduleFails,
         SignScheduleEnd

LEMMA StepKeeps ==
  ASSUME IInv, [Next]_vars
  PROVE  SameBuilt /\ Onwards
<1>1. CASE AppStep
  BY <1>1, AppKeeps
<1>2. CASE UNCHANGED chainVars
  BY <1>2, SameTxs DEF Onwards, chainVars
<1>3. ASSUME NEW th \in Threads, BroadcastAccepted(th) PROVE SameBuilt /\ Onwards
  BY <1>3, SameTxs DEF Onwards, BroadcastAccepted
<1>4. CASE Environment
  <2>1. UNCHANGED <<txs, nextTx>> /\ Onwards
    BY <1>4 DEF Environment, ChainStep, Mine, Mature, NoteConfirms, SpendElsewhere,
       Tick, Onwards
  <2> QED
    BY <2>1, SameTxs
<1>5. CASE \/ \E w \in Workers : NextDueTransfer(w)
           \/ \E th \in Threads : \/ BroadcastNotAccepted(th) \/ RecordPrepSent(th)
                                  \/ RecordPrepPhase(th) \/ RecordTransferSent(th)
                                  \/ RecordNothing(th) \/ RecordRefusalBegin(th)
                                  \/ RecordTransferRefused(th)
           \/ StateStep \/ Crash \/ UNCHANGED vars
  <2>1. UNCHANGED chainVars
    BY <1>5 DEF NextDueTransfer, NextDueBegin, NextDueIsSplit, NextDueNoSplit,
       NextDueTarget, NextDueIsTransfer, NextDueNone, BroadcastNotAccepted,
       RecordPrepSent, RecordPrepPhase, RecordTransferSent, RecordNothing,
       RecordRefusalBegin, RecordTransferRefused, StateStep, StateBegin,
       StateReconciles, StateAdvances, StateReports, Crash, vars
  <2> QED
    BY <2>1, <1>2
<1> QED
  BY <1>1, <1>3, <1>4, <1>5 DEF Next, DeliveryStep

-----------------------------------------------------------------------------
(* Rows and transactions in a thread's hands.                              *)

(* What a step does to a row.                                              *)
LEMMA RowStep ==
  ASSUME IInv, [Next]_vars, NEW t \in TxIds
  PROVE  \/ pending'[t] = pending[t]
         \/ /\ t = nextTx /\ SignTransfer /\ pending[t] = Absent
            /\ pending'[t] = "scheduled"
         \/ pending[t] = "scheduled" /\ pending'[t] = Absent
         \/ /\ pending[t] # Absent /\ pending'[t] = "broadcasted"
            /\ \E th \in Threads : RecordTransferSent(th) /\ thr[th].tx = t
         \/ /\ pending[t] = "broadcasted" /\ pending'[t] = "confirmed"
            /\ t \in mined
<1> USE DEF IInv, TypeOK, StoreTypeOK
<1>1. CASE UNCHANGED pending
  BY <1>1
<1>2. CASE SignTransfer
  <2>1. InsertPendingTx(nextTx) /\ nextTx <= MaxTx
    BY <1>2 DEF SignTransfer, Build
  <2>2. nextTx \in TxIds /\ nextTx \notin Built
    BY <2>1 DEF ChainTypeOK, Built
  <2>3. pending[nextTx] = Absent
    BY <2>2 DEF RunInv
  <2> QED
    BY <1>2, <2>1, <2>2, <2>3 DEF InsertPendingTx
<1>3. CASE RestartCurrentStep
  <2>1. UNCHANGED pending \/ \E runs : ClearScheduled(runs)
    BY <1>3 DEF RestartCurrentStep, storeVars
  <2> QED
    BY <2>1, <1>1 DEF ClearScheduled
<1>4. ASSUME NEW th \in Threads, RecordTransferSent(th)
      PROVE  \/ pending'[t] = pending[t]
             \/ pending[t] # Absent /\ pending'[t] = "broadcasted" /\ thr[th].tx = t
  BY <1>4 DEF RecordTransferSent, MarkPending
<1>5. CASE StateReconciles
  <2>1. \A u \in SeenMined : pending[u] = "broadcasted" /\ u \in mined
    BY DEF SeenMined, BroadcastedOf
  <2> QED
    BY <1>5, <2>1 DEF StateReconciles, MarkPending
<1>6. CASE \/ PrepareNoteSplit \/ SignNoteSplitBegin \/ SignNoteSplitBuild
           \/ SignNoteSplitFails \/ SignNoteSplitLock \/ SignNoteSplitLockFails
           \/ ProposeMigrationTransfers \/ ProposeImmediate \/ SignScheduleBegin
           \/ SignScheduleFails \/ SignScheduleEnd
  <2>1. UNCHANGED pending
    BY <1>6 DEF PrepareNoteSplit, SignNoteSplitBegin, SignNoteSplitBuild,
       SignNoteSplitFails, SignNoteSplitLock, SignNoteSplitLockFails,
       ProposeMigrationTransfers, ProposeImmediate, SignScheduleBegin,
       SignScheduleFails, SignScheduleEnd, InsertRun, InsertPrepTx,
       InsertPreparedNotes, SetPhase, storeVars
  <2> QED
    BY <2>1, <1>1
<1>7. CASE \/ \E w \in Workers : NextDueTransfer(w)
           \/ \E th \in Threads : \/ BroadcastAccepted(th) \/ BroadcastNotAccepted(th)
                                  \/ RecordPrepSent(th) \/ RecordPrepPhase(th)
                                  \/ RecordNothing(th) \/ RecordRefusalBegin(th)
                                  \/ RecordTransferRefused(th)
           \/ StateBegin \/ StateAdvances \/ StateReports
           \/ Crash \/ Environment \/ UNCHANGED vars
  <2>1. UNCHANGED pending
    BY <1>7 DEF NextDueTransfer, NextDueBegin, NextDueIsSplit, NextDueNoSplit,
       NextDueTarget, NextDueIsTransfer, NextDueNone, BroadcastAccepted,
       BroadcastNotAccepted, RecordPrepSent, RecordPrepPhase, RecordNothing,
       RecordRefusalBegin, RecordTransferRefused, StateBegin, StateAdvances,
       StateReports, Crash, Environment, SetPrepBroadcasted, SetPhase, vars,
       storeVars
  <2> QED
    BY <2>1, <1>1
<1> QED
  BY <1>2, <1>3, <1>4, <1>5, <1>6, <1>7 DEF Next, AppStep, DeliveryStep, StateStep

(* A thread that carries a transaction that is not a split was carrying it *)
(* before the step, or is a worker that has just fetched it.               *)
LEMMA CarryStep ==
  ASSUME IInv, [Next]_vars, NEW th \in Threads,
         thr'[th].pc \in Carrying, thr'[th].prepOf = NoRun
  PROVE  \/ thr[th].pc \in Carrying /\ thr[th].prepOf = NoRun /\ thr'[th].tx = thr[th].tx
         \/ /\ th \in Workers
            /\ UNCHANGED <<txs, pending>>
            /\ pending[thr'[th].tx] # Absent /\ thr'[th].tx \in TxIds
<1> DEFINE Kept == /\ thr[th].pc \in Carrying /\ thr[th].prepOf = NoRun
                   /\ thr'[th].tx = thr[th].tx
<1> USE DEF IInv, TypeOK
<1>1. CASE UNCHANGED thr
  BY <1>1
<1>2. CASE \/ SignNoteSplitBegin \/ SignNoteSplitBuild \/ SignNoteSplitFails
           \/ SignNoteSplitLockFails \/ SignScheduleBegin \/ SignScheduleFails
           \/ SignScheduleEnd
  <2>1. App \in Threads /\ thr[App] \in ThreadStates
    BY DEF Threads
  <2>2. thr'[App].pc \notin Carrying /\ (th # App => thr'[th] = thr[th])
    <3>1. CASE SignNoteSplitBegin \/ SignScheduleBegin
      <4>1. PICK p \in {"splitting", "signing"} : thr' = [thr EXCEPT ![App].pc = p]
        BY <3>1 DEF SignNoteSplitBegin, SignScheduleBegin
      <4> QED
        BY <2>1, <4>1 DEF Carrying, ThreadStates
    <3>2. CASE SignNoteSplitBuild
      BY <2>1, <3>2 DEF SignNoteSplitBuild, Carrying
    <3>3. CASE SignNoteSplitFails \/ SignNoteSplitLockFails \/ SignScheduleFails
               \/ SignScheduleEnd
      BY <2>1, <3>3 DEF SignNoteSplitFails, SignNoteSplitLockFails, SignScheduleFails,
         SignScheduleEnd, ReturnFromSigning, Return, Idle, Carrying
    <3> QED
      BY <1>2, <3>1, <3>2, <3>3
  <2> QED
    BY <2>2
<1>3. CASE SignNoteSplitLock
  <2>1. thr[App].prepOf = job.run /\ job.run \in RunIds
    BY <1>3 DEF SignNoteSplitLock, SigningInv
  <2> QED
    BY <1>3, <2>1 DEF SignNoteSplitLock, Threads
<1>4. ASSUME NEW w \in Workers, NextDueTransfer(w)
      PROVE  Kept \/ /\ th \in Workers
                     /\ UNCHANGED <<txs, pending>>
                     /\ pending[thr'[th].tx] # Absent /\ thr'[th].tx \in TxIds
  <2>1. UNCHANGED <<txs, pending>> /\ w \in Threads
    BY <1>4 DEF NextDueTransfer, NextDueBegin, NextDueIsSplit, NextDueNoSplit,
       NextDueTarget, NextDueIsTransfer, NextDueNone, chainVars, storeVars, Threads
  <2>2. CASE NextDueBegin(w) \/ NextDueNoSplit(w) \/ NextDueTarget(w)
    <3>1. ASSUME NEW p \in {"asking", "checked", "targeted"},
                 \/ \E r : thr' = [thr EXCEPT ![w].pc = p, ![w].run = r]
                 \/ \E h : thr' = [thr EXCEPT ![w].pc = p, ![w].target = h]
                 \/ thr' = [thr EXCEPT ![w].pc = p]
          PROVE  Kept
      <4>1. thr'[w].pc = p /\ (th # w => thr'[th] = thr[th])
        BY <2>1, <3>1 DEF ThreadStates
      <4> QED
        BY <4>1 DEF Carrying
    <3> QED
      BY <2>2, <3>1 DEF NextDueBegin, NextDueNoSplit, NextDueTarget
  <2>3. CASE NextDueIsSplit(w)
    <3>1. thr[w].run \in RunIds
      BY <2>1, <2>3 DEF NextDueIsSplit, At, CarriedInv
    <3>2. thr'[w].prepOf = thr[w].run /\ (th # w => thr'[th] = thr[th])
      BY <2>1, <2>3 DEF NextDueIsSplit, Idle
    <3> QED
      BY <3>1, <3>2
  <2>4. CASE NextDueIsTransfer(w)
    <3>1. PICK t \in NextDue(thr[w].run, thr[w].target) :
            thr' = [thr EXCEPT ![w] = [Idle EXCEPT !.pc = "fetched", !.tx = t]]
      BY <2>4 DEF NextDueIsTransfer
    <3>2. t \in TxIds /\ pending[t] # Absent
      BY <3>1 DEF NextDue, DueRows, RowsOf
    <3>3. thr'[w].tx = t /\ (th # w => thr'[th] = thr[th])
      BY <2>1, <3>1 DEF Idle
    <3> QED
      BY <2>1, <3>2, <3>3
  <2>5. CASE NextDueNone(w)
    <3>1. thr'[w] = Idle /\ (th # w => thr'[th] = thr[th])
      BY <2>1, <2>5 DEF NextDueNone, Return
    <3> QED
      BY <3>1 DEF Idle, Carrying
  <2> QED
    BY <1>4, <2>2, <2>3, <2>4, <2>5 DEF NextDueTransfer
<1>5. ASSUME NEW u \in Threads, BroadcastAccepted(u) \/ BroadcastNotAccepted(u)
      PROVE  Kept
  <2>1. /\ thr[u].pc = "fetched"
        /\ \E a : thr' = [thr EXCEPT ![u].pc = "answered", ![u].answer = a]
    BY <1>5 DEF BroadcastAccepted, BroadcastNotAccepted, At
  <2> QED
    BY <2>1 DEF ThreadStates, Carrying
<1>6. ASSUME NEW u \in Threads, RecordPrepSent(u) \/ RecordRefusalBegin(u)
      PROVE  Kept
  <2>1. CASE RecordPrepSent(u)
    BY <2>1 DEF RecordPrepSent, Answered, At, ThreadStates, Carrying
  <2>2. CASE RecordRefusalBegin(u)
    <3>1. /\ thr[u].pc = "answered"
          /\ \E r : thr' = [thr EXCEPT ![u].pc = "refusing", ![u].run = r]
      BY <2>2 DEF RecordRefusalBegin, Answered, At
    <3> QED
      BY <3>1 DEF ThreadStates, Carrying
  <2> QED
    BY <1>6, <2>1, <2>2
<1>7. ASSUME NEW u \in Threads,
             \/ RecordPrepPhase(u) \/ RecordTransferSent(u) \/ RecordNothing(u)
             \/ RecordTransferRefused(u)
      PROVE  Kept
  <2>1. thr' = [thr EXCEPT ![u] = Idle]
    BY <1>7 DEF RecordPrepPhase, RecordTransferSent, RecordNothing,
       RecordTransferRefused, Return
  <2> QED
    BY <2>1 DEF Idle, Carrying
<1>8. CASE Crash
  BY <1>8 DEF Crash, Idle, Carrying
<1>9. CASE \/ PrepareNoteSplit \/ ProposeMigrationTransfers \/ ProposeImmediate
           \/ RestartCurrentStep \/ SignTransfer \/ StateStep \/ Environment
           \/ UNCHANGED vars
  BY <1>1, <1>9 DEF PrepareNoteSplit, ProposeMigrationTransfers, ProposeImmediate,
     RestartCurrentStep, SignTransfer, StateStep, StateBegin, StateReconciles,
     StateAdvances, StateReports, Environment, vars, ctxVars
<1> QED
  BY <1>2, <1>3, <1>4, <1>5, <1>6, <1>7, <1>8, <1>9 DEF Next, AppStep, DeliveryStep

(* Only transfers have rows, the App carries nothing but its split, and    *)
(* who carries something that is not a split carries a transfer.           *)
RowInv ==
  /\ \A t \in TxIds : pending[t] # Absent => txs[t].kind = "transfer"
  /\ \A th \in Threads : thr[th].pc \in Carrying /\ thr[th].prepOf = NoRun =>
        th \in Workers /\ txs[thr[th].tx].kind = "transfer"

LEMMA RowInit == Init => RowInv
BY DEF Init, StoreInit, RowInv, Idle, Carrying

LEMMA RowNext ==
  ASSUME IInv, RowInv, [Next]_vars
  PROVE  RowInv'
<1>1. SameBuilt
  BY StepKeeps
<1>2. ASSUME NEW t \in TxIds, pending'[t] # Absent
      PROVE  txs'[t].kind = "transfer"
  <2>1. CASE pending[t] # Absent
    <3>1. t \in Built
      BY <2>1 DEF IInv, RunInv
    <3> QED
      BY <1>1, <2>1, <3>1 DEF SameBuilt, RowInv
  <2>2. CASE pending[t] = Absent
    <3>1. t = nextTx /\ SignTransfer
      BY <1>2, <2>2, RowStep DEF Absent
    <3>2. PICK S : Build([kind |-> "transfer", run |-> job.run, spends |-> S,
                          outs |-> 0, last |-> 0, sendAt |-> job.sendAt,
                          expiry |-> job.sendAt + Window, batch |-> job.batch])
      BY <3>1 DEF SignTransfer
    <3> QED
      BY <3>1, <3>2, OneMoreTx
  <2> QED
    BY <2>1, <2>2
<1>3. ASSUME NEW th \in Threads, thr'[th].pc \in Carrying, thr'[th].prepOf = NoRun
      PROVE  th \in Workers /\ txs'[thr'[th].tx].kind = "transfer"
  <2>1. CASE /\ thr[th].pc \in Carrying /\ thr[th].prepOf = NoRun
             /\ thr'[th].tx = thr[th].tx
    <3>1. thr[th].tx \in Built
      BY <2>1 DEF IInv, CarriedInv, Carrying
    <3> QED
      BY <1>1, <2>1, <3>1 DEF SameBuilt, RowInv
  <2>2. CASE /\ th \in Workers
             /\ UNCHANGED <<txs, pending>>
             /\ pending[thr'[th].tx] # Absent /\ thr'[th].tx \in TxIds
    BY <2>2 DEF RowInv
  <2> QED
    BY <1>3, <2>1, <2>2, CarryStep
<1> QED
  BY <1>2, <1>3 DEF RowInv

-----------------------------------------------------------------------------
(* Complete means migrated.  First: a transaction spends something, and    *)
(* only notes that were ripe when it was built; they still are.            *)

LEMMA NothingIsWorthNothing == Units({}) = 0
<1> DEFINE sum == CHOOSE g : g = [s \in SUBSET {} |->
                    IF s = {} THEN 0
                    ELSE Worth(CHOOSE x \in s : TRUE) + g[s \ {CHOOSE x \in s : TRUE}]]
<1>1. Units({}) = sum[{}]
  BY DEF Units, MapThenSumSet, MapThenFoldSet
<1>2. \E g : g = [s \in SUBSET {} |->
                    IF s = {} THEN 0
                    ELSE Worth(CHOOSE x \in s : TRUE) + g[s \ {CHOOSE x \in s : TRUE}]]
  <2> DEFINE zero == [s \in SUBSET {} |-> 0]
  <2>1. zero = [s \in SUBSET {} |->
                    IF s = {} THEN 0
                    ELSE Worth(CHOOSE x \in s : TRUE) + zero[s \ {CHOOSE x \in s : TRUE}]]
    OBVIOUS
  <2> QED
    BY <2>1
<1>3. sum = [s \in SUBSET {} |->
               IF s = {} THEN 0
               ELSE Worth(CHOOSE x \in s : TRUE) + sum[s \ {CHOOSE x \in s : TRUE}]]
  BY <1>2
<1> HIDE DEF sum
<1>4. {} \in SUBSET {}
  OBVIOUS
<1>5. sum[{}] = 0
  BY <1>3, <1>4
<1> QED
  BY <1>1, <1>5

Ripe == (Genesis \ late) \cup UNION {OutputsOf(t) : t \in matured}

SpendsInv ==
  /\ \A t \in Built : txs[t].spends # {} /\ txs[t].spends \subseteq Ripe
  /\ offer.kind = "schedule" /\ offer.count > 0 => offer.amount > 0
  /\ At(App, "signing") /\ job.todo > 0 => job.amount > 0

LEMMA SpendsInit == Init => SpendsInv
<1> SUFFICES ASSUME Init PROVE SpendsInv
  OBVIOUS
<1>1. Built = {}
  BY DEF Init, ChainInit, Built
<1>2. offer.kind = "none" /\ thr[App].pc = "idle"
  BY DEF Init, NoOffer, Idle, Threads
<1> QED
  BY <1>1, <1>2 DEF SpendsInv, At

(* A thread only gets to sign from a signing call.                         *)
LEMMA SigningStep ==
  ASSUME IInv, [Next]_vars, thr'[App].pc = "signing"
  PROVE  \/ SignScheduleBegin
         \/ thr[App].pc = "signing" /\ (UNCHANGED job \/ SignTransfer)
<1>1. App \in Threads /\ thr[App] \in ThreadStates /\ TypeOK
  BY DEF Threads, IInv, TypeOK
<1>2. CASE SignNoteSplitBegin
  BY <1>1, <1>2 DEF SignNoteSplitBegin, ThreadStates, TypeOK
<1>3. CASE SignNoteSplitBuild
  BY <1>1, <1>3 DEF SignNoteSplitBuild, TypeOK
<1>4. CASE SignNoteSplitLock
  BY <1>1, <1>4 DEF SignNoteSplitLock, ThreadStates, TypeOK
<1>5. CASE \/ SignNoteSplitFails \/ SignNoteSplitLockFails \/ SignScheduleFails
           \/ SignScheduleEnd
  <2>1. thr' = [thr EXCEPT ![App] = Idle]
    BY <1>5 DEF SignNoteSplitFails, SignNoteSplitLockFails, SignScheduleFails,
       SignScheduleEnd, ReturnFromSigning, Return
  <2> QED
    BY <1>1, <2>1 DEF Idle, TypeOK
<1>6. CASE Crash
  BY <1>1, <1>6 DEF Crash, Idle
<1>7. ASSUME NEW th \in Threads, NextDueTransfer(th) \/ DeliveryStep(th)
      PROVE  UNCHANGED job /\ thr[App].pc = "signing"
  <2>1. UNCHANGED job
    BY <1>7 DEF NextDueTransfer, NextDueBegin, NextDueIsSplit, NextDueNoSplit,
       NextDueTarget, NextDueIsTransfer, NextDueNone, DeliveryStep,
       BroadcastAccepted, BroadcastNotAccepted, RecordPrepSent,
       RecordPrepPhase, RecordTransferSent, RecordNothing, RecordRefusalBegin,
       RecordTransferRefused
  <2> DEFINE NotSigning == thr'[th].pc # "signing" /\ (th # App => thr'[App] = thr[App])
  <2> SUFFICES NotSigning
    BY <1>1, <2>1
  <2>2. thr \in [Threads -> ThreadStates]
    BY <1>1 DEF TypeOK
  <2>3. CASE NextDueIsSplit(th)
    BY <1>1, <2>2, <2>3 DEF NextDueIsSplit, Idle
  <2>4. CASE NextDueIsTransfer(th)
    <3>1. PICK t : thr' = [thr EXCEPT ![th] = [Idle EXCEPT !.pc = "fetched", !.tx = t]]
      BY <2>4 DEF NextDueIsTransfer
    <3> QED
      BY <1>1, <2>2, <3>1 DEF Idle
  <2>5. ASSUME NEW p \in Midway \cup {"checked", "prepsent"},
               \/ \E v : thr' = [thr EXCEPT ![th].pc = p, ![th].run = v]
               \/ \E v : thr' = [thr EXCEPT ![th].pc = p, ![th].target = v]
               \/ \E v : thr' = [thr EXCEPT ![th].pc = p, ![th].answer = v]
               \/ thr' = [thr EXCEPT ![th].pc = p]
        PROVE  NotSigning
    <3>1. thr'[th].pc = p /\ (th # App => thr'[App] = thr[App])
      BY <1>1, <2>2, <2>5 DEF ThreadStates
    <3> QED
      BY <3>1 DEF Midway
  <2>6. CASE NextDueBegin(th) \/ NextDueTarget(th) \/ NextDueNoSplit(th)
    BY <2>5, <2>6 DEF NextDueBegin, NextDueTarget, NextDueNoSplit, Midway
  <2>7. CASE \/ BroadcastAccepted(th) \/ BroadcastNotAccepted(th)
             \/ RecordPrepSent(th) \/ RecordRefusalBegin(th)
    BY <2>5, <2>7 DEF BroadcastAccepted, BroadcastNotAccepted, RecordPrepSent,
       RecordRefusalBegin, Midway
  <2>8. CASE \/ NextDueNone(th) \/ RecordPrepPhase(th) \/ RecordTransferSent(th)
             \/ RecordNothing(th) \/ RecordTransferRefused(th)
    <3>1. thr' = [thr EXCEPT ![th] = Idle]
      BY <2>8 DEF NextDueNone, RecordPrepPhase, RecordTransferSent, RecordNothing,
         RecordTransferRefused, Return
    <3> QED
      BY <1>1, <2>2, <3>1 DEF Idle
  <2> QED
    BY <1>7, <2>3, <2>4, <2>6, <2>7, <2>8 DEF NextDueTransfer, DeliveryStep
<1>8. CASE SignTransfer
  BY <1>8 DEF SignTransfer, At
<1>9. CASE \/ PrepareNoteSplit \/ ProposeMigrationTransfers \/ ProposeImmediate
           \/ RestartCurrentStep \/ StateStep \/ Environment \/ UNCHANGED vars
  BY <1>9 DEF PrepareNoteSplit, ProposeMigrationTransfers, ProposeImmediate,
     RestartCurrentStep, StateStep, StateBegin, StateReconciles, StateAdvances,
     StateReports, Environment, vars, ctxVars
<1> QED
  BY <1>2, <1>3, <1>4, <1>5, <1>6, <1>7, <1>8, <1>9 DEF Next, AppStep, Threads

LEMMA RipeGrows ==
  ASSUME IInv, SameBuilt, Onwards
  PROVE  Ripe \subseteq Ripe'
<1>1. \A t \in matured : txs'[t].outs = txs[t].outs
  BY DEF SameBuilt, IInv, ChainInv
<1>2. \A t \in matured : [tx : {t}, ix : 1..txs'[t].outs] = [tx : {t}, ix : 1..txs[t].outs]
  BY <1>1
<1> SUFFICES ASSUME NEW n \in Ripe
             PROVE  \/ n \in Genesis \ late'
                    \/ \E t \in matured' : n \in [tx : {t}, ix : 1..txs'[t].outs]
  BY DEF Ripe, OutputsOf
<1> QED
  BY <1>2 DEF Ripe, OutputsOf, Onwards

(* What a transaction is built from.                                       *)
LEMMA BuiltOfRipe ==
  ASSUME IInv, SpendsInv,
         NEW body, Build(body), body.spends # {}, body.spends \subseteq Spendable
  PROVE  \A t \in Built' : txs'[t].spends # {} /\ txs'[t].spends \subseteq Ripe'
<1>1. SameBuilt /\ Onwards
  BY OneMoreTx DEF Onwards
<1>2. Ripe \subseteq Ripe'
  BY <1>1, RipeGrows
<1>3. body.spends \subseteq Ripe
  BY DEF Spendable, Ripe
<1>4. ASSUME NEW t \in Built
      PROVE  txs'[t].spends # {} /\ txs'[t].spends \subseteq Ripe'
  BY <1>1, <1>2 DEF SameBuilt, SpendsInv
<1> QED
  BY <1>2, <1>3, <1>4, OneMoreTx

LEMMA TransferSpends ==
  ASSUME TypeOK, job.amount > 0, NEW S \in TransferInputs
  PROVE  S # {} /\ S \subseteq Spendable
<1>1. Units(S) >= job.amount /\ job.amount \in Nat
  BY DEF TransferInputs, TypeOK, Jobs
<1>2. ASSUME S = {} PROVE FALSE
  <2>1. Units(S) = Units({})
    BY <1>2
  <2>2. Units(S) = 0
    BY <2>1, NothingIsWorthNothing
  <2> QED
    BY <1>1, <2>2
<1> QED
  BY <1>2 DEF TransferInputs, WalletSelections, Selections

LEMMA SpendsNext ==
  ASSUME IInv, SpendsInv, [Next]_vars
  PROVE  SpendsInv'
<1>1. SameBuilt /\ Onwards /\ Ripe \subseteq Ripe'
  BY StepKeeps, RipeGrows
<1>2. \A t \in Built' : txs'[t].spends # {} /\ txs'[t].spends \subseteq Ripe'
  <2>1. CASE SignNoteSplitBuild
    <3>1. PICK last : Build([kind |-> "split", run |-> job.run, spends |-> SplitInputs,
                             outs |-> job.todo, last |-> last, sendAt |-> 0,
                             expiry |-> height + SplitWindow, batch |-> nextTx])
      BY <2>1 DEF SignNoteSplitBuild
    <3>2. SplitInputs # {} /\ SplitInputs \subseteq Spendable
      BY <2>1 DEF SignNoteSplitBuild, SplitInputs
    <3> QED
      BY <3>1, <3>2, BuiltOfRipe
  <2>2. CASE SignTransfer
    <3>1. PICK S \in TransferInputs :
            Build([kind |-> "transfer", run |-> job.run, spends |-> S,
                   outs |-> 0, last |-> 0, sendAt |-> job.sendAt,
                   expiry |-> job.sendAt + Window, batch |-> job.batch])
      BY <2>2 DEF SignTransfer
    <3>2. S # {} /\ S \subseteq Spendable
      BY <2>2, TransferSpends DEF SignTransfer, SpendsInv, IInv
    <3> QED
      BY <3>1, <3>2, BuiltOfRipe
  <2>3. CASE nextTx' = nextTx
    <3>1. \A t \in Built' : t \in Built
      BY <2>3 DEF Built
    <3> QED
      BY <1>1, <3>1 DEF SameBuilt, SpendsInv
  <2>4. CASE ~SignNoteSplitBuild /\ ~SignTransfer
    <3>1. nextTx' = nextTx
      BY <2>4 DEF Next, AppStep, PrepareNoteSplit, SignNoteSplitBegin,
         SignNoteSplitFails, SignNoteSplitLock, SignNoteSplitLockFails,
         ProposeMigrationTransfers, ProposeImmediate, RestartCurrentStep,
         SignScheduleBegin, SignScheduleFails, SignScheduleEnd,
         NextDueTransfer, NextDueBegin, NextDueIsSplit, NextDueNoSplit,
         NextDueTarget, NextDueIsTransfer, NextDueNone, DeliveryStep,
         BroadcastAccepted, BroadcastNotAccepted, RecordPrepSent,
         RecordPrepPhase, RecordTransferSent, RecordNothing,
         RecordRefusalBegin, RecordTransferRefused, StateStep, StateBegin,
         StateReconciles, StateAdvances, StateReports, Crash, Environment,
         ChainStep, Mine, Mature, NoteConfirms, SpendElsewhere, Tick, 
         chainVars, vars
    <3> QED
      BY <2>3, <3>1
  <2> QED
    BY <2>1, <2>2, <2>4
<1>3. offer'.kind = "schedule" /\ offer'.count > 0 => offer'.amount > 0
  <2>1. CASE UNCHANGED offer
    BY <2>1 DEF SpendsInv
  <2>2. CASE PrepareNoteSplit
    BY <2>2 DEF PrepareNoteSplit
  <2>3. CASE offer' = NoOffer
    BY <2>3 DEF NoOffer
  <2>4. CASE FreshSchedule
    BY <2>4 DEF FreshSchedule
  <2>5. CASE ProposeImmediate
    BY <2>5 DEF ProposeImmediate
  <2> QED
    BY <2>1, <2>2, <2>3, <2>4, <2>5
       DEF Next, AppStep, SignNoteSplitBegin, SignNoteSplitBuild,
          SignNoteSplitFails, SignNoteSplitLock, SignNoteSplitLockFails,
          ProposeMigrationTransfers, RestartCurrentStep, SignScheduleBegin,
          SignTransfer, SignScheduleFails, SignScheduleEnd, NextDueTransfer,
          NextDueBegin, NextDueIsSplit, NextDueNoSplit, NextDueTarget,
          NextDueIsTransfer, NextDueNone, DeliveryStep, BroadcastAccepted,
          BroadcastNotAccepted, RecordPrepSent, RecordPrepPhase,
          RecordTransferSent, RecordNothing, RecordRefusalBegin,
          RecordTransferRefused, StateStep, StateBegin, StateReconciles,
          StateAdvances, StateReports, Crash, Environment, vars, ctxVars
<1>4. thr'[App].pc = "signing" /\ job'.todo > 0 => job'.amount > 0
  <2>1. CASE thr[App].pc = "signing" /\ UNCHANGED job
    BY <2>1 DEF SpendsInv, At
  <2>2. CASE SignTransfer
    BY <2>2 DEF SignTransfer, SpendsInv, IInv, TypeOK, Jobs
  <2>3. CASE SignScheduleBegin
    BY <2>3 DEF SignScheduleBegin, SpendsInv
  <2> QED
    BY <2>1, <2>2, <2>3, SigningStep
<1> QED
  BY <1>2, <1>3, <1>4 DEF SpendsInv, At

(* What migration_state has counted stays recorded: a run whose rows were  *)
(* all confirmed keeps a row, whatever is restarted or reported meanwhile. *)
CountInv ==
  /\ poll.phase \in WrittenPhases
  /\ Polling => poll.state = "none"
  /\ poll.totals = "confirmed" =>
       \E t \in TxIds : /\ txs[t].run = poll.run
                        /\ pending[t] \in {"broadcasted", "confirmed"}

LEMMA CountInit == Init => CountInv
BY DEF Init, NoPoll, CountInv, WrittenPhases, Polling

LEMMA PollMoves ==
  ASSUME [Next]_vars
  PROVE  UNCHANGED poll \/ StateStep \/ Crash
BY DEF Next, AppStep, PrepareNoteSplit, SignNoteSplitBegin, SignNoteSplitBuild,
   SignNoteSplitFails, SignNoteSplitLock, SignNoteSplitLockFails,
   ProposeMigrationTransfers, ProposeImmediate, RestartCurrentStep,
   SignScheduleBegin, SignTransfer, SignScheduleFails, SignScheduleEnd,
   NextDueTransfer, NextDueBegin, NextDueIsSplit, NextDueNoSplit,
   NextDueTarget, NextDueIsTransfer, NextDueNone, DeliveryStep,
   BroadcastAccepted, BroadcastNotAccepted, RecordPrepSent, RecordPrepPhase,
   RecordTransferSent, RecordNothing, RecordRefusalBegin,
   RecordTransferRefused, Environment, vars, ctxVars

(* What migration_state leaves behind when it returns.                     *)
LEMMA Returned ==
  ASSUME NEW s, NEW e, Result(s, e)
  PROVE  /\ poll'.run = poll.run
         /\ poll'.phase = Absent
         /\ poll'.totals = "uncounted"
         /\ poll'.error = e
         /\ poll'.state = s
BY DEF Result, NoPoll

LEMMA CountNext ==
  ASSUME IInv, CountInv, [Next]_vars
  PROVE  CountInv'
<1>1. CASE UNCHANGED poll
  <2>1. ASSUME NEW t \in TxIds, txs[t].run = poll.run, poll.totals = "confirmed",
               pending[t] \in {"broadcasted", "confirmed"}
        PROVE  txs'[t].run = poll.run /\ pending'[t] \in {"broadcasted", "confirmed"}
    <3>1. t \in Built
      BY <2>1 DEF IInv, RunInv, Absent
    <3> QED
      BY <2>1, <3>1, StepKeeps, SentRowsStep DEF SameBuilt
  <2> QED
    BY <1>1, <2>1 DEF CountInv, Polling
<1>2. CASE StateReconciles
  <2>1. /\ UNCHANGED txs
        /\ pending' = [t \in TxIds |-> IF t \in SeenMined /\ pending[t] # Absent
                                       THEN "confirmed" ELSE pending[t]]
        /\ poll' = [poll EXCEPT !.totals = IF AllConfirmed(SeenMined)
                                           THEN "confirmed" ELSE "open"]
    BY <1>2 DEF StateReconciles, MarkPending, chainVars
  <2>2. poll'.phase = poll.phase /\ poll'.run = poll.run /\ poll'.state = poll.state
        /\ (poll'.totals = "confirmed" => AllConfirmed(SeenMined))
    BY <2>1 DEF IInv, TypeOK, Polls
  <2>3. ASSUME AllConfirmed(SeenMined)
        PROVE  \E t \in TxIds : txs'[t].run = poll.run /\ pending'[t] = "confirmed"
    <3>1. PICK t \in RowsOf(poll.run) : pending[t] = "confirmed" \/ t \in SeenMined
      BY <2>3 DEF AllConfirmed
    <3>2. t \in TxIds /\ txs[t].run = poll.run /\ pending[t] # Absent
      BY <3>1 DEF RowsOf
    <3> QED
      BY <2>1, <3>1, <3>2
  <2> QED
    BY <2>2, <2>3 DEF CountInv, Polling
<1>3. CASE StateBegin
  <2>1. PICK r \in RunIds :
          poll' = [run |-> r, phase |-> phase[r], error |-> lastError[r],
                   totals |-> "uncounted", state |-> "none"]
    BY <1>3 DEF StateBegin, ActiveRuns, LiveRuns
  <2> QED
    BY <2>1 DEF CountInv, IInv, RunInv
<1>4. CASE StateAdvances \/ StateReports \/ Crash
  <2>1. poll'.phase = Absent /\ poll'.totals = "uncounted"
    <3>1. CASE StateAdvances
      BY <3>1, Returned DEF StateAdvances
    <3>2. CASE StateReports
      <4>1. PICK s, e : Result(s, e)
        BY <3>2 DEF StateReports
      <4> QED
        BY <4>1, Returned
    <3>3. CASE Crash
      BY <3>3 DEF Crash, NoPoll
    <3> QED
      BY <1>4, <3>1, <3>2, <3>3
  <2> QED
    BY <2>1 DEF CountInv, WrittenPhases, Polling
<1> QED
  BY <1>1, <1>2, <1>3, <1>4, PollMoves DEF StateStep

(* When migration_state turns to Complete, the whole wallet is migrated    *)
(* (context.rs:155-157): nothing spendable is left, and no transfer of the *)
(* run is outstanding that the chain would still take.  The totals may be  *)
(* out of date by then, rows having been signed or re-reported since; what *)
(* carries the argument is that every transaction spends notes that were   *)
(* spendable when it was built, so that an empty balance, read last, means *)
(* that each of them was spent by something that is mined.                 *)
THEOREM CompleteIsMigrated == Spec => CompleteMeansMigrated
<1> DEFINE Inv == IInv /\ SpendsInv /\ CountInv
           Step == poll'.state = "Complete" /\ poll' # poll =>
                     /\ Spendable = {}
                     /\ RowsOf(poll'.run) # {}
                     /\ \A t \in RowsOf(poll'.run) :
                           \/ t \in mined
                           \/ Conflicts(t, mined)
                           \/ txs[t].spends \cap elsewhere # {}
<1>1. Init => Inv
  BY InitIInv, SpendsInit, CountInit
<1>2. Inv /\ [Next]_vars => Inv'
  BY NextIInv, SpendsNext, CountNext
<1>3. Inv /\ [Next]_vars => Step
  <2> SUFFICES ASSUME Inv, [Next]_vars, poll'.state = "Complete", poll' # poll
               PROVE  /\ Spendable = {}
                      /\ RowsOf(poll'.run) # {}
                      /\ \A t \in RowsOf(poll'.run) :
                            \/ t \in mined
                            \/ Conflicts(t, mined)
                            \/ txs[t].spends \cap elsewhere # {}
    OBVIOUS
  <2>1. StateReports /\ Spendable = {} /\ poll'.run = poll.run /\ poll.totals = "confirmed"
    <3>1. CASE StateReports
      <4>1. poll.phase \in WrittenPhases /\ poll.phase # Absent
        BY <3>1 DEF CountInv, StateReports, Polling
      <4>2. ToState(poll.phase) # "Complete"
        BY <4>1 DEF WrittenPhases, ToState, SplitPhases, SendingPhases
      <4> DEFINE complete == /\ ToState(poll.phase) = "InProgress"
                             /\ poll.totals = "confirmed"
                             /\ Spendable = {}
                             /\ IronwoodReceived
      <4>3. \E e : Result(IF complete THEN "Complete" ELSE ToState(poll.phase), e)
        BY <3>1 DEF StateReports
      <4>4. poll'.state = (IF complete THEN "Complete" ELSE ToState(poll.phase))
            /\ poll'.run = poll.run
        BY <4>3, Returned
      <4> QED
        BY <3>1, <4>2, <4>4
    <3>2. CASE StateBegin \/ StateAdvances \/ Crash
      <4>1. poll'.state \in {"none", "ReadyToPropose", "NotStarted"}
        <5>1. CASE StateBegin
          BY <5>1 DEF StateBegin
        <5>2. CASE StateAdvances
          BY <5>2, Returned DEF StateAdvances
        <5>3. CASE Crash
          BY <5>3 DEF Crash, NoPoll
        <5> QED
          BY <3>2, <5>1, <5>2, <5>3
      <4> QED
        BY <4>1
    <3>3. CASE StateReconciles
      <4>1. poll'.state = "none"
        BY <3>3 DEF StateReconciles, CountInv, IInv, TypeOK, Polls
      <4> QED
        BY <4>1
    <3> QED
      BY <3>1, <3>2, <3>3, PollMoves DEF StateStep
  <2>2. RowsOf(poll.run) # {}
    BY <2>1 DEF CountInv, RowsOf, Absent
  <2>3. ASSUME NEW t \in RowsOf(poll.run)
        PROVE  \/ t \in mined
               \/ Conflicts(t, mined)
               \/ txs[t].spends \cap elsewhere # {}
    <3>1. t \in Built
      BY DEF RowsOf, IInv, RunInv
    <3>2. PICK n \in txs[t].spends : n \in Ripe
      BY <3>1 DEF SpendsInv
    <3>3. n \in MinedSpends
      BY <2>1, <3>2 DEF Spendable, Ripe
    <3>4. CASE n \in elsewhere
      BY <3>2, <3>4
    <3>5. ASSUME NEW u \in mined, n \in txs[u].spends
          PROVE  t \in mined \/ Conflicts(t, mined)
      BY <3>2, <3>5 DEF Conflicts
    <3>6. n \in elsewhere \/ \E u \in mined : n \in txs[u].spends
      BY <3>3 DEF MinedSpends
    <3> QED
      BY <3>4, <3>5, <3>6
  <2> QED
    BY <2>1, <2>2, <2>3
<1>4. Inv /\ [Next]_vars => [Step]_vars
  BY <1>3
<1> HIDE DEF Inv
<1> QED
  BY <1>1, <1>2, <1>4, PTL DEF Spec, CompleteMeansMigrated
=============================================================================
