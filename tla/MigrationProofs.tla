---------------------------- MODULE MigrationProofs ----------------------------
(***************************************************************************)
(* TLAPS proofs about MigrationContext, for every value of its constants   *)
(* that satisfies the assumptions.                                         *)
(***************************************************************************)
EXTENDS MigrationProperties, TLAPS

USE ChainAssumption, StoreAssumption, ContextAssumption DEF TxIds, NoTx

-----------------------------------------------------------------------------
(* Type correctness: first what the operators of the chain and the store   *)
(* preserve, then one step per action.                                     *)

LEMMA InitTypeOK == Init => TypeOK
  BY DEF Init, ChainInit, StoreInit, TypeOK, ChainTypeOK, StoreTypeOK,
     Unbuilt, TxBodies, Genesis, NoError, Errors, NoPrep, PrepRows, Absent,
     Threads, Idle, ThreadStates, Answers, NoJob, Jobs, NoOffer, Offers, NoPoll,
     Polls, States, Phases, TerminalPhases, Notes

(* Outputs of a transaction are notes: it has at most MaxNotes of them.    *)
LEMMA OutputsType ==
  ASSUME ChainTypeOK, NEW t \in TxIds
  PROVE  OutputsOf(t) \subseteq Notes
<1>1. txs[t].outs \in 0..MaxNotes
  BY DEF ChainTypeOK, TxBodies
<1> QED
  BY <1>1 DEF OutputsOf, Notes

LEMMA GenesisType == Genesis \subseteq Notes
  BY DEF Genesis, Notes

LEMMA SpendableType ==
  ASSUME ChainTypeOK
  PROVE  Spendable \subseteq Notes
<1>1. \A t \in matured : OutputsOf(t) \subseteq Notes
  BY OutputsType DEF ChainTypeOK
<1> QED
  BY <1>1, GenesisType DEF Spendable

LEMMA BuildType ==
  ASSUME ChainTypeOK, NEW body \in TxBodies, Build(body)
  PROVE  ChainTypeOK' /\ nextTx \in TxIds
  BY DEF ChainTypeOK, Build

LEMMA ChainStepType ==
  ASSUME ChainTypeOK, ChainStep
  PROVE  ChainTypeOK'
<1>1. ASSUME NEW t \in TxIds, Mine(t) PROVE ChainTypeOK'
  BY <1>1 DEF ChainTypeOK, Mine
<1>2. ASSUME NEW t \in TxIds, Mature(t) PROVE ChainTypeOK'
  BY <1>2 DEF ChainTypeOK, Mature
<1>3. ASSUME NEW n \in Genesis, NoteConfirms(n) PROVE ChainTypeOK'
  BY <1>3 DEF ChainTypeOK, NoteConfirms
<1>4. ASSUME NEW n \in Notes, SpendElsewhere(n) PROVE ChainTypeOK'
  BY <1>4 DEF ChainTypeOK, SpendElsewhere
<1>5. ASSUME Tick PROVE ChainTypeOK'
  <2>1. height' \in 1..MaxHeight
    BY <1>5 DEF ChainTypeOK, Tick
  <2>2. mempool' \subseteq TxIds
    BY <1>5 DEF ChainTypeOK, Tick
  <2> QED
    BY <1>5, <2>1, <2>2 DEF ChainTypeOK, Tick
<1> QED
  BY <1>1, <1>2, <1>3, <1>4, <1>5 DEF ChainStep

LEMMA InsertRunType ==
  ASSUME StoreTypeOK, NEW r \in RunIds, NEW p \in Phases, InsertRun(r, p)
  PROVE  StoreTypeOK'
  BY DEF StoreTypeOK, InsertRun

LEMMA SetPhaseType ==
  ASSUME StoreTypeOK, NEW r \in RunIds, NEW p \in Phases, NEW e \in Errors,
         SetPhase(r, p, e)
  PROVE  StoreTypeOK'
  BY DEF StoreTypeOK, SetPhase

LEMMA PrepType ==
  ASSUME StoreTypeOK, NEW r \in RunIds
  PROVE  /\ \A t \in TxIds : InsertPrepTx(r, t) => StoreTypeOK'
         /\ SetPrepBroadcasted(r) => StoreTypeOK'
<1>1. ASSUME NEW t \in TxIds, InsertPrepTx(r, t) PROVE StoreTypeOK'
  BY <1>1 DEF StoreTypeOK, InsertPrepTx, PrepRows
<1>2. ASSUME SetPrepBroadcasted(r) PROVE StoreTypeOK'
  <2>1. [prep[r] EXCEPT !.status = "broadcasted"] \in PrepRows
    BY DEF StoreTypeOK, PrepRows
  <2>2. prep' \in [RunIds -> PrepRows]
    BY <1>2, <2>1 DEF StoreTypeOK, SetPrepBroadcasted
  <2> QED
    BY <1>2, <2>2 DEF StoreTypeOK, SetPrepBroadcasted
<1> QED
  BY <1>1, <1>2

LEMMA InsertPreparedNotesType ==
  ASSUME StoreTypeOK, NEW r \in RunIds, NEW notes \in SUBSET Notes,
         InsertPreparedNotes(r, notes)
  PROVE  StoreTypeOK'
  BY DEF StoreTypeOK, InsertPreparedNotes

LEMMA PendingType ==
  ASSUME StoreTypeOK
  PROVE  /\ \A t \in TxIds : InsertPendingTx(t) => StoreTypeOK'
         /\ \A S : \A status \in {"broadcasted", "confirmed"} :
                MarkPending(S, status) => StoreTypeOK'
         /\ \A runs : ClearScheduled(runs) => StoreTypeOK'
  BY DEF StoreTypeOK, InsertPendingTx, MarkPending, ClearScheduled

(* A thread moves: its new state is a state.                               *)
LEMMA ThreadMoves ==
  ASSUME TypeOK, NEW th \in Threads
  PROVE  /\ thr[th].tx \in 0..MaxTx /\ thr[th].prepOf \in RunIds \cup {NoRun}
         /\ thr[th].run \in RunIds \cup {NoRun} /\ thr[th].target \in 0..MaxHeight
         /\ \A s \in ThreadStates : [thr EXCEPT ![th] = s] \in [Threads -> ThreadStates]
         /\ \A p \in {"idle", "splitting", "locking", "signing", "checked",
                      "fetched", "prepsent"} :
               [thr EXCEPT ![th].pc = p] \in [Threads -> ThreadStates]
         /\ [thr EXCEPT ![th] = Idle] \in [Threads -> ThreadStates]
         /\ NoJob \in Jobs
<1>1. thr[th] \in ThreadStates
  BY DEF TypeOK
<1>2. \A p \in {"idle", "splitting", "locking", "signing", "checked",
                "fetched", "prepsent"} : [thr[th] EXCEPT !.pc = p] \in ThreadStates
  BY <1>1 DEF ThreadStates
<1>3. Idle \in ThreadStates
  BY DEF Idle, ThreadStates, Answers
<1>4. NoJob \in Jobs
  BY DEF NoJob, Jobs
<1> QED
  BY <1>1, <1>2, <1>3, <1>4 DEF TypeOK, ThreadStates

(* The same when a call also sets one or two of the other fields.          *)
Midway == {"asking", "targeted", "answered", "refusing", "locking"}

LEMMA ThreadUpdates ==
  ASSUME TypeOK, NEW th \in Threads
  PROVE  /\ \A p \in Midway, r \in RunIds \cup {NoRun} :
               [thr EXCEPT ![th].pc = p, ![th].run = r] \in [Threads -> ThreadStates]
         /\ \A p \in Midway, h \in 0..MaxHeight :
               [thr EXCEPT ![th].pc = p, ![th].target = h] \in [Threads -> ThreadStates]
         /\ \A p \in Midway, a \in Answers :
               [thr EXCEPT ![th].pc = p, ![th].answer = a] \in [Threads -> ThreadStates]
         /\ \A p \in Midway, t \in 0..MaxTx, r \in RunIds \cup {NoRun} :
               [thr EXCEPT ![th].pc = p, ![th].tx = t, ![th].prepOf = r]
                 \in [Threads -> ThreadStates]
         /\ thr[th].target \in Nat
<1>1. thr \in [Threads -> ThreadStates] /\ thr[th] \in ThreadStates
  BY DEF TypeOK
<1>2. \A s \in ThreadStates : [thr EXCEPT ![th] = s] \in [Threads -> ThreadStates]
  BY <1>1
<1>3. ASSUME NEW p \in Midway, NEW r \in RunIds \cup {NoRun}
      PROVE  [thr EXCEPT ![th].pc = p, ![th].run = r] \in [Threads -> ThreadStates]
  <2>1. [thr[th] EXCEPT !.pc = p, !.run = r] \in ThreadStates
    BY <1>1 DEF ThreadStates, Midway
  <2>2. [thr EXCEPT ![th].pc = p, ![th].run = r]
          = [thr EXCEPT ![th] = [thr[th] EXCEPT !.pc = p, !.run = r]]
    BY <1>1
  <2> QED
    BY <1>2, <2>1, <2>2
<1>4. ASSUME NEW p \in Midway, NEW h \in 0..MaxHeight
      PROVE  [thr EXCEPT ![th].pc = p, ![th].target = h] \in [Threads -> ThreadStates]
  <2>1. [thr[th] EXCEPT !.pc = p, !.target = h] \in ThreadStates
    BY <1>1 DEF ThreadStates, Midway
  <2>2. [thr EXCEPT ![th].pc = p, ![th].target = h]
          = [thr EXCEPT ![th] = [thr[th] EXCEPT !.pc = p, !.target = h]]
    BY <1>1
  <2> QED
    BY <1>2, <2>1, <2>2
<1>5. ASSUME NEW p \in Midway, NEW a \in Answers
      PROVE  [thr EXCEPT ![th].pc = p, ![th].answer = a] \in [Threads -> ThreadStates]
  <2>1. [thr[th] EXCEPT !.pc = p, !.answer = a] \in ThreadStates
    BY <1>1 DEF ThreadStates, Midway
  <2>2. [thr EXCEPT ![th].pc = p, ![th].answer = a]
          = [thr EXCEPT ![th] = [thr[th] EXCEPT !.pc = p, !.answer = a]]
    BY <1>1
  <2> QED
    BY <1>2, <2>1, <2>2
<1>6. ASSUME NEW p \in Midway, NEW t \in 0..MaxTx, NEW r \in RunIds \cup {NoRun}
      PROVE  [thr EXCEPT ![th].pc = p, ![th].tx = t, ![th].prepOf = r]
               \in [Threads -> ThreadStates]
  <2>1. [thr[th] EXCEPT !.pc = p, !.tx = t, !.prepOf = r] \in ThreadStates
    BY <1>1 DEF ThreadStates, Midway
  <2>2. [thr EXCEPT ![th].pc = p, ![th].tx = t, ![th].prepOf = r]
          = [thr EXCEPT ![th] = [thr[th] EXCEPT !.pc = p, !.tx = t, !.prepOf = r]]
    BY <1>1
  <2> QED
    BY <1>2, <2>1, <2>2
<1>7. thr[th].target \in Nat
  BY <1>1 DEF ThreadStates
<1> QED
  BY <1>3, <1>4, <1>5, <1>6, <1>7

LEMMA Nothing == App \in Threads /\ NoOffer \in Offers /\ NoPoll \in Polls
                   /\ NoError \in Errors /\ NoJob \in Jobs /\ Idle \in ThreadStates
<1>1. NoError \in Errors
  BY DEF NoError, Errors
<1>2. NoOffer \in Offers
  BY DEF NoOffer, Offers
<1>3. NoPoll \in Polls
  BY <1>1 DEF NoPoll, Polls, States
<1>4. NoJob \in Jobs
  BY DEF NoJob, Jobs
<1> QED
  BY <1>1, <1>2, <1>3, <1>4 DEF Threads, Idle, ThreadStates, Answers

LEMMA ReturnType ==
  ASSUME TypeOK, NEW th \in Threads, Return(th)
  PROVE  thr' \in [Threads -> ThreadStates]
  BY ThreadMoves DEF Return

LEMMA FreshScheduleType ==
  ASSUME TypeOK, FreshSchedule
  PROVE  offer' \in Offers
<1>1. height \in 0..MaxHeight
  BY DEF TypeOK, ChainTypeOK
<1>2. 1 \in 0..MaxMoney
  OBVIOUS
<1> QED
  BY <1>1, <1>2 DEF FreshSchedule, Offers

LEMMA TypeAppStep ==
  ASSUME TypeOK, SigningInv, AppStep
  PROVE  TypeOK'
<1> USE Nothing
<1>1. CASE PrepareNoteSplit
  BY <1>1 DEF PrepareNoteSplit, TypeOK, Offers, ChainTypeOK, StoreTypeOK, chainVars, storeVars
<1>2. CASE SignNoteSplitBegin
  <2>1. PICK r \in RunIds : /\ InsertRun(r, "preparing_denominations")
                            /\ job' = [NoJob EXCEPT !.run = r, !.todo = offer.count]
    BY <1>2 DEF SignNoteSplitBegin
  <2>2. StoreTypeOK'
    BY <2>1, InsertRunType DEF Phases, TypeOK
  <2>3. job' \in Jobs
    BY <2>1 DEF NoJob, Jobs, TypeOK, Offers
  <2>4. thr' \in [Threads -> ThreadStates]
    BY <1>2, ThreadMoves DEF SignNoteSplitBegin
  <2> QED
    BY <1>2, <2>2, <2>3, <2>4 DEF SignNoteSplitBegin, TypeOK, ChainTypeOK, chainVars
<1>3. CASE SignNoteSplitBuild
  <2>1. SplitInputs \in SUBSET Notes
    BY SpendableType DEF SplitInputs, TypeOK
  <2>2. job.run \in RunIds \cup {NoRun} /\ job.todo \in 0..MaxNotes
    BY DEF TypeOK, Jobs
  <2>3. nextTx \in 0..MaxTx /\ nextTx \in TxIds
    BY <1>3 DEF SignNoteSplitBuild, Build, TypeOK, ChainTypeOK
  <2>4. ChainTypeOK'
    <3>1. PICK last \in 0..MaxMoney :
             Build([kind |-> "split", run |-> job.run, spends |-> SplitInputs,
                    outs |-> job.todo, last |-> last, sendAt |-> 0,
                    expiry |-> height + SplitWindow, batch |-> nextTx])
      BY <1>3 DEF SignNoteSplitBuild
    <3>2. height + SplitWindow \in Nat
      BY DEF TypeOK, ChainTypeOK
    <3>3. [kind |-> "split", run |-> job.run, spends |-> SplitInputs,
           outs |-> job.todo, last |-> last, sendAt |-> 0,
           expiry |-> height + SplitWindow, batch |-> nextTx] \in TxBodies
      BY <2>1, <2>2, <2>3, <3>2 DEF TxBodies
    <3> QED
      BY <3>1, <3>3, BuildType DEF TypeOK
  <2>5. StoreTypeOK'
    BY <1>3, <2>3 DEF SignNoteSplitBuild, InsertPrepTx, StoreTypeOK, PrepRows, TypeOK
  <2>6. thr' \in [Threads -> ThreadStates]
    <3>1. thr' = [thr EXCEPT ![App].pc = "locking", ![App].tx = nextTx,
                             ![App].prepOf = job.run]
      BY <1>3 DEF SignNoteSplitBuild
    <3> QED
      BY <2>2, <2>3, <3>1, ThreadUpdates, Nothing DEF Midway
  <2> QED
    BY <1>3, <2>4, <2>5, <2>6 DEF SignNoteSplitBuild, TypeOK
<1>4. CASE SignNoteSplitFails
  BY <1>4, ReturnType DEF SignNoteSplitFails, ReturnFromSigning, TypeOK, ChainTypeOK,
     StoreTypeOK, chainVars, storeVars
<1>5. CASE SignNoteSplitLock
  <2>1. job.run \in RunIds /\ thr[App].tx \in TxIds
    BY <1>5 DEF SigningInv, SignNoteSplitLock, At, Built, TypeOK, ChainTypeOK
  <2>2. StoreTypeOK'
    BY <1>5, <2>1, OutputsType, InsertPreparedNotesType DEF SignNoteSplitLock, TypeOK
  <2>3. thr' \in [Threads -> ThreadStates]
    BY <1>5, ThreadMoves DEF SignNoteSplitLock
  <2> QED
    BY <1>5, <2>2, <2>3 DEF SignNoteSplitLock, TypeOK, ChainTypeOK, chainVars
<1>6. CASE SignNoteSplitLockFails
  <2>1. job.run \in RunIds /\ thr[App].tx \in TxIds
    BY <1>6 DEF SigningInv, SignNoteSplitLockFails, At, Built, TypeOK, ChainTypeOK
  <2>2. PICK S \in SUBSET OutputsOf(thr[App].tx) : InsertPreparedNotes(job.run, S)
    BY <1>6 DEF SignNoteSplitLockFails
  <2>3. StoreTypeOK'
    BY <2>1, <2>2, OutputsType, InsertPreparedNotesType DEF TypeOK
  <2>4. thr' \in [Threads -> ThreadStates] /\ job' \in Jobs
    BY <1>6, ReturnType DEF SignNoteSplitLockFails, ReturnFromSigning
  <2> QED
    BY <1>6, <2>3, <2>4 DEF SignNoteSplitLockFails, TypeOK, ChainTypeOK, chainVars
<1>7. CASE ProposeMigrationTransfers
  <2>1. offer' \in Offers
    BY <1>7, FreshScheduleType DEF ProposeMigrationTransfers
  <2> QED
    BY <1>7, <2>1 DEF ProposeMigrationTransfers, TypeOK, ChainTypeOK, StoreTypeOK,
       chainVars, storeVars
<1>8. CASE ProposeImmediate
  <2>1. offer' \in Offers
    BY <1>8 DEF ProposeImmediate, Offers, TypeOK, ChainTypeOK
  <2> QED
    BY <1>8, <2>1 DEF ProposeImmediate, TypeOK, ChainTypeOK, StoreTypeOK,
       chainVars, storeVars
<1>9. CASE RestartCurrentStep
  <2>1. offer' \in Offers
    BY <1>9, FreshScheduleType DEF RestartCurrentStep, TypeOK
  <2>2. StoreTypeOK'
    <3>1. CASE \E r \in ActiveRuns : ClearScheduled({r})
      BY <3>1, PendingType DEF TypeOK
    <3>2. CASE UNCHANGED storeVars
      BY <3>2 DEF TypeOK, StoreTypeOK, storeVars
    <3> QED
      BY <1>9, <3>1, <3>2 DEF RestartCurrentStep
  <2> QED
    BY <1>9, <2>1, <2>2 DEF RestartCurrentStep, TypeOK, ChainTypeOK, chainVars
<1>10. CASE SignScheduleBegin
  <2>1. PICK r \in RunIds :
          /\ \/ r \in ActiveRuns /\ UNCHANGED storeVars
             \/ ActiveRuns = {} /\ InsertRun(r, "ready_to_migrate")
          /\ job' = [run |-> r, todo |-> offer.count, amount |-> offer.amount,
                     sendAt |-> offer.target, avail |-> Spendable,
                     locks |-> LockedByOthers(r), batch |-> nextTx]
    BY <1>10 DEF SignScheduleBegin
  <2>2. StoreTypeOK'
    BY <2>1, InsertRunType DEF Phases, TypeOK, StoreTypeOK, storeVars
  <2>3. nextTx \in 0..MaxTx /\ offer \in Offers
    BY <1>10 DEF SignScheduleBegin, TypeOK, ChainTypeOK, Offers
  <2>4. job' \in Jobs
    <3>1. LockedByOthers(r) \in SUBSET Notes
      BY DEF LockedByOthers, TypeOK, StoreTypeOK
    <3>2. Spendable \in SUBSET Notes
      BY SpendableType DEF TypeOK
    <3>3. offer.count \in 0..MaxNotes /\ offer.amount \in 0..MaxMoney /\ offer.target \in Nat
      BY <2>3 DEF Offers
    <3>4. job' = [run |-> r, todo |-> offer.count, amount |-> offer.amount,
                  sendAt |-> offer.target, avail |-> Spendable,
                  locks |-> LockedByOthers(r), batch |-> nextTx]
      BY <2>1
    <3>5. nextTx \in 0..MaxTx /\ r \in RunIds \cup {NoRun}
      BY <2>3
    <3> QED
      BY <3>1, <3>2, <3>3, <3>4, <3>5 DEF Jobs
  <2>5. thr' \in [Threads -> ThreadStates]
    BY <1>10, ThreadMoves DEF SignScheduleBegin
  <2> QED
    BY <1>10, <2>2, <2>4, <2>5 DEF SignScheduleBegin, TypeOK, ChainTypeOK, chainVars
<1>11. CASE SignTransfer
  <2>1. PICK S \in TransferInputs :
          /\ Build([kind |-> "transfer", run |-> job.run, spends |-> S,
                    outs |-> 0, last |-> 0, sendAt |-> job.sendAt,
                    expiry |-> job.sendAt + Window, batch |-> job.batch])
          /\ job' = [job EXCEPT !.todo = @ - 1, !.sendAt = @ + Cadence,
                                !.avail = @ \ S]
    BY <1>11 DEF SignTransfer
  <2>2. S \in SUBSET Notes
    BY <2>1, SpendableType DEF TransferInputs, WalletSelections, Selections, TypeOK
  <2>3. [kind |-> "transfer", run |-> job.run, spends |-> S,
         outs |-> 0, last |-> 0, sendAt |-> job.sendAt,
         expiry |-> job.sendAt + Window, batch |-> job.batch] \in TxBodies
    BY <2>2 DEF TxBodies, TypeOK, Jobs
  <2>4. ChainTypeOK' /\ nextTx \in TxIds
    BY <2>1, <2>3, BuildType DEF TypeOK
  <2>5. StoreTypeOK'
    BY <1>11, <2>4, PendingType DEF SignTransfer, TypeOK
  <2>6. job' \in Jobs
    <3>0. job.todo \in 0..MaxNotes /\ job.sendAt \in Nat /\ job.todo > 0
      BY <1>11 DEF SignTransfer, TypeOK, Jobs
    <3>1. job \in Jobs /\ job.todo - 1 \in 0..MaxNotes /\ job.sendAt + Cadence \in Nat
      BY <3>0 DEF TypeOK
    <3>2. job.avail \ S \in SUBSET Notes
      BY DEF TypeOK, Jobs
    <3> QED
      BY <2>1, <3>1, <3>2 DEF Jobs
  <2> QED
    BY <1>11, <2>4, <2>5, <2>6 DEF SignTransfer, TypeOK
<1>12. CASE SignScheduleFails
  BY <1>12, ReturnType DEF SignScheduleFails, ReturnFromSigning, TypeOK, ChainTypeOK,
     StoreTypeOK, chainVars, storeVars
<1>13. CASE SignScheduleEnd
  <2>1. StoreTypeOK'
    BY <1>13, SetPhaseType DEF SignScheduleEnd, SigningInv, At, Phases, TypeOK
  <2>2. thr' \in [Threads -> ThreadStates] /\ job' \in Jobs
    BY <1>13, ReturnType DEF SignScheduleEnd, ReturnFromSigning
  <2> QED
    BY <1>13, <2>1, <2>2 DEF SignScheduleEnd, TypeOK, ChainTypeOK, chainVars
<1> QED
  BY <1>1, <1>2, <1>3, <1>4, <1>5, <1>6, <1>7, <1>8, <1>9, <1>10, <1>11, <1>12,
     <1>13 DEF AppStep

(* A delivery looks for the next transaction due.                          *)
LEMMA TypeNextDue ==
  ASSUME TypeOK, CarriedInv, NEW th \in Threads, NextDueTransfer(th)
  PROVE  TypeOK'
<1>1. UNCHANGED <<chainVars, storeVars, job, offer, poll>>
  BY DEF NextDueTransfer, NextDueBegin, NextDueIsSplit, NextDueNoSplit, NextDueTarget,
     NextDueIsTransfer, NextDueNone
<1>2. thr' \in [Threads -> ThreadStates]
  <2>1. CASE NextDueBegin(th)
    <3>1. PICK r \in RunIds : thr' = [thr EXCEPT ![th].pc = "asking", ![th].run = r]
      BY <2>1 DEF NextDueBegin, ActiveRuns, LiveRuns
    <3> QED
      BY <3>1, ThreadUpdates DEF Midway
  <2>2. CASE NextDueIsSplit(th)
    <3> DEFINE r == thr[th].run
    <3>1. r \in RunIds
      BY <2>2 DEF NextDueIsSplit, CarriedInv, At
    <3>2. r \in RunIds \cup {NoRun} /\ prep[r].tx \in 0..MaxTx
      BY <3>1 DEF TypeOK, StoreTypeOK, PrepRows
    <3>3. [Idle EXCEPT !.pc = "fetched", !.tx = prep[r].tx, !.prepOf = r] \in ThreadStates
      BY <3>2, Nothing DEF Idle, ThreadStates
    <3> QED
      BY <2>2, <3>3, ThreadMoves DEF NextDueIsSplit
  <2>3. CASE NextDueNoSplit(th)
    BY <2>3, ThreadMoves DEF NextDueNoSplit
  <2>4. CASE NextDueTarget(th)
    <3>1. height \in 0..MaxHeight
      BY DEF TypeOK, ChainTypeOK
    <3> QED
      BY <2>4, <3>1, ThreadUpdates DEF NextDueTarget, Midway
  <2>5. CASE NextDueIsTransfer(th)
    <3>1. PICK t \in NextDue(thr[th].run, thr[th].target) :
            thr' = [thr EXCEPT ![th] = [Idle EXCEPT !.pc = "fetched", !.tx = t]]
      BY <2>5 DEF NextDueIsTransfer
    <3>2. t \in 0..MaxTx
      BY <3>1 DEF NextDue, DueRows, RowsOf
    <3>3. [Idle EXCEPT !.pc = "fetched", !.tx = t] \in ThreadStates
      BY <3>2, Nothing DEF Idle, ThreadStates
    <3> QED
      BY <3>1, <3>3, ThreadMoves
  <2>6. CASE NextDueNone(th)
    BY <2>6, ReturnType DEF NextDueNone
  <2> QED
    BY <2>1, <2>2, <2>3, <2>4, <2>5, <2>6 DEF NextDueTransfer
<1> QED
  BY <1>1, <1>2 DEF TypeOK, ChainTypeOK, StoreTypeOK, chainVars, storeVars

LEMMA TypeDeliveryStep ==
  ASSUME TypeOK, CarriedInv, NEW th \in Threads,
         NextDueTransfer(th) \/ DeliveryStep(th)
  PROVE  TypeOK'
<1>1. CASE NextDueTransfer(th)
  BY <1>1, TypeNextDue
<1>2. CASE BroadcastAccepted(th)
  <2>1. thr[th].tx \in TxIds
    BY <1>2 DEF BroadcastAccepted, CarriedInv, At, Built, TypeOK, ChainTypeOK
  <2>2. ChainTypeOK'
    BY <1>2, <2>1 DEF BroadcastAccepted, TypeOK, ChainTypeOK
  <2>3. PICK a \in Answers : thr' = [thr EXCEPT ![th].pc = "answered", ![th].answer = a]
    BY <1>2 DEF BroadcastAccepted, Answers
  <2>4. thr' \in [Threads -> ThreadStates]
    BY <2>3, ThreadUpdates DEF Midway
  <2> QED
    BY <1>2, <2>2, <2>4 DEF BroadcastAccepted, TypeOK, StoreTypeOK, storeVars
<1>3. CASE BroadcastNotAccepted(th)
  <2>1. Refusals(thr[th].tx) \subseteq Answers
    BY DEF Refusals, Answers
  <2>2. PICK a \in Answers : thr' = [thr EXCEPT ![th].pc = "answered", ![th].answer = a]
    BY <1>3, <2>1 DEF BroadcastNotAccepted, Answers
  <2>3. thr' \in [Threads -> ThreadStates]
    BY <2>2, ThreadUpdates DEF Midway
  <2> QED
    BY <1>3, <2>3 DEF BroadcastNotAccepted, TypeOK, ChainTypeOK, StoreTypeOK, chainVars, storeVars
<1>4. CASE RecordPrepSent(th)
  <2>1. thr[th].prepOf \in RunIds
    BY <1>4, ThreadMoves DEF RecordPrepSent, Answered
  <2>2. StoreTypeOK'
    BY <1>4, <2>1, PrepType DEF RecordPrepSent, TypeOK
  <2>3. thr' \in [Threads -> ThreadStates]
    BY <1>4, ThreadMoves DEF RecordPrepSent
  <2> QED
    BY <1>4, <2>2, <2>3 DEF RecordPrepSent, TypeOK, ChainTypeOK, chainVars
<1>5. CASE RecordPrepPhase(th)
  <2>1. thr[th].prepOf \in RunIds
    BY <1>5, ThreadMoves DEF RecordPrepPhase, CarriedInv, At
  <2>2. StoreTypeOK'
    BY <1>5, <2>1, SetPhaseType, Nothing DEF RecordPrepPhase, Phases, TypeOK
  <2> QED
    BY <1>5, <2>2, ReturnType DEF RecordPrepPhase, TypeOK, ChainTypeOK, chainVars
<1>6. CASE RecordTransferSent(th)
  <2>1. StoreTypeOK'
    BY <1>6, PendingType DEF RecordTransferSent, TypeOK
  <2> QED
    BY <1>6, <2>1, ReturnType DEF RecordTransferSent, TypeOK, ChainTypeOK, chainVars
<1>7. CASE RecordNothing(th)
  BY <1>7, ReturnType DEF RecordNothing, TypeOK, ChainTypeOK, StoreTypeOK, chainVars, storeVars
<1>8. CASE RecordTransferRefused(th)
  <2>1. [kind |-> IF thr[th].answer = "Expired" THEN "expired" ELSE "invalid_note",
         tx |-> thr[th].tx] \in Errors
    BY ThreadMoves DEF Errors
  <2>2. StoreTypeOK'
    BY <1>8, <2>1, SetPhaseType DEF RecordTransferRefused, CarriedInv, At, Phases, TypeOK
  <2> QED
    BY <1>8, <2>2, ReturnType DEF RecordTransferRefused, TypeOK, ChainTypeOK, chainVars
<1>9. CASE RecordRefusalBegin(th)
  <2>1. PICK r \in RunIds : thr' = [thr EXCEPT ![th].pc = "refusing", ![th].run = r]
    BY <1>9 DEF RecordRefusalBegin, ActiveRuns, LiveRuns
  <2>2. thr' \in [Threads -> ThreadStates]
    BY <2>1, ThreadUpdates DEF Midway
  <2> QED
    BY <1>9, <2>2 DEF RecordRefusalBegin, TypeOK, ChainTypeOK, StoreTypeOK, chainVars, storeVars
<1> QED
  BY <1>1, <1>2, <1>3, <1>4, <1>5, <1>6, <1>7, <1>8, <1>9 DEF DeliveryStep

LEMMA ResultType ==
  ASSUME TypeOK, NEW s \in States, NEW e \in Errors, Result(s, e)
  PROVE  poll' \in Polls
<1>1. poll.run \in RunIds \cup {NoRun} /\ NoPoll \in Polls
  BY Nothing DEF TypeOK, Polls
<1> QED
  BY <1>1 DEF Polls, Result

LEMMA TypeStateStep ==
  ASSUME TypeOK, CarriedInv, StateStep
  PROVE  TypeOK'
<1>1. CASE StateBegin
  <2>1. poll' \in Polls
    BY <1>1 DEF StateBegin, ActiveRuns, LiveRuns, Polls, TypeOK, StoreTypeOK
  <2> QED
    BY <1>1, <2>1 DEF StateBegin, TypeOK, ChainTypeOK, StoreTypeOK, chainVars, storeVars
<1>2. CASE StateAdvances
  <2>1. poll.run \in RunIds
    BY <1>2 DEF StateAdvances, CarriedInv
  <2>2. StoreTypeOK'
    BY <1>2, <2>1, SetPhaseType, Nothing DEF StateAdvances, Phases, TypeOK
  <2>3. poll' \in Polls
    BY <1>2, ResultType, Nothing DEF StateAdvances, States
  <2> QED
    BY <1>2, <2>2, <2>3 DEF StateAdvances, TypeOK, ChainTypeOK, chainVars
<1>3. CASE StateReports
  <2>1. poll.phase \in Phases /\ poll.error \in Errors
    BY <1>3 DEF StateReports, Polling, TypeOK, Polls
  <2>2. ToState(poll.phase) \in States
    BY <2>1 DEF ToState, States, Phases, TerminalPhases, SplitPhases, SendingPhases
  <2>3. poll' \in Polls
    BY <1>3, <2>1, <2>2, ResultType, Nothing DEF StateReports, States
  <2> QED
    BY <1>3, <2>3 DEF StateReports, TypeOK, ChainTypeOK, StoreTypeOK, chainVars, storeVars
<1>4. CASE StateReconciles
  <2>1. StoreTypeOK'
    BY <1>4, PendingType DEF StateReconciles, TypeOK
  <2>2. poll' \in Polls
    BY <1>4 DEF StateReconciles, TypeOK, Polls
  <2> QED
    BY <1>4, <2>1, <2>2 DEF StateReconciles, TypeOK, ChainTypeOK, chainVars
<1> QED
  BY <1>1, <1>2, <1>3, <1>4 DEF StateStep

LEMMA TypeCrash ==
  ASSUME TypeOK, Crash
  PROVE  TypeOK'
  BY Nothing DEF Crash, TypeOK, ChainTypeOK, StoreTypeOK, chainVars, storeVars

LEMMA TypeEnvironment ==
  ASSUME TypeOK, Environment
  PROVE  TypeOK'
<1>1. ChainTypeOK'
  BY ChainStepType DEF Environment, TypeOK
<1> QED
  BY <1>1 DEF Environment, TypeOK, StoreTypeOK, storeVars, ctxVars

-----------------------------------------------------------------------------
(* The inductive invariant.  Three lemmas say which of its parts an action *)
(* cannot disturb; then one step per action, and under it one per part     *)
(* that the action can disturb.                                            *)

LEMMA InitIInv == Init => IInv
<1> SUFFICES ASSUME Init PROVE IInv
  OBVIOUS
<1>1. TypeOK
  BY InitTypeOK
<1>2. ChainInv
  BY DEF Init, ChainInit, ChainInv, Built, Unbuilt
<1>3. RunInv
  BY <1>2 DEF Init, ChainInit, StoreInit, RunInv, HasSplit, NoPrep, WrittenPhases, Built, Absent
<1>4. SigningInv /\ CarriedInv
  <2>1. \A th \in Threads : thr[th] = Idle
    BY DEF Init
  <2>2. poll = NoPoll /\ 0 <= height
    BY <1>1 DEF Init, TypeOK, ChainTypeOK
  <2> QED
    BY <2>1, <2>2, Nothing DEF SigningInv, CarriedInv, At, Idle, Polling, NoPoll
<1>5. SplitConfirmedBeforeReady /\ LocksRespected /\ RecordedMeansAccepted
  BY DEF Init, StoreInit, SplitConfirmedBeforeReady, LocksRespected,
     RecordedMeansAccepted, NoPrep, Absent
<1>6. BatchDisjoint /\ SentInWindow
  BY DEF Init, ChainInit, BatchDisjoint, SentInWindow, Transfers, Unbuilt
<1> QED
  BY <1>1, <1>2, <1>3, <1>4, <1>5, <1>6 DEF IInv

(* The parts that speak of the chain only.                                 *)
LEMMA ChainFrame ==
  ASSUME IInv, UNCHANGED chainVars
  PROVE  ChainInv' /\ BatchDisjoint' /\ SentInWindow'
  BY DEF IInv, chainVars, ChainInv, Built, BatchDisjoint, SentInWindow, Transfers

(* The parts that speak of the chain and the tables.                       *)
LEMMA StoreFrame ==
  ASSUME IInv, UNCHANGED <<chainVars, storeVars>>
  PROVE  /\ ChainInv' /\ BatchDisjoint' /\ SentInWindow'
         /\ RunInv' /\ SplitConfirmedBeforeReady' /\ LocksRespected'
         /\ RecordedMeansAccepted'
  BY ChainFrame DEF IInv, chainVars, storeVars, RunInv, HasSplit, Built,
     SplitConfirmedBeforeReady, LocksRespected, RecordedMeansAccepted

(* What a thread has read or carries stays right while the world goes on.  *)
Onward ==
  /\ height' \in Nat /\ height <= height'
  /\ accepted \subseteq accepted'
  /\ \A t \in Built : t \in Built' /\ txs'[t] = txs[t]
  /\ \A r \in RunIds : /\ phase[r] # Absent => phase'[r] # Absent
                       /\ prep[r].tx # NoTx => prep'[r].tx = prep[r].tx

Reading == {"asking", "checked", "targeted", "refusing"}
Carrying == {"fetched", "answered", "prepsent", "refusing"}

(* One thread moves.                                                       *)
LEMMA CarriedMove ==
  ASSUME IInv, Onward, NEW th \in Threads,
         \A u \in Threads : u # th => thr'[u] = thr[u],
         thr'[th].pc \in Reading => /\ thr'[th].run \in RunIds
                                    /\ phase'[thr'[th].run] # Absent,
         thr'[th].target <= height',
         thr'[th].pc \notin {"answered", "prepsent", "refusing"} =>
              thr'[th].answer = "none",
         thr'[th].pc \in Carrying =>
              /\ thr'[th].tx \in Built'
              /\ txs'[thr'[th].tx].kind = "transfer" => txs'[thr'[th].tx].sendAt <= height'
              /\ thr'[th].prepOf # NoRun => prep'[thr'[th].prepOf].tx = thr'[th].tx
              /\ thr'[th].answer = "Success" => thr'[th].tx \in accepted'
              /\ thr'[th].pc = "prepsent" => thr'[th].prepOf # NoRun
              /\ thr'[th].pc = "refusing" => thr'[th].prepOf = NoRun,
         th = App /\ thr'[App].pc = "fetched" => thr'[App].prepOf # NoRun,
         Polling' => poll'.run \in RunIds
  PROVE  CarriedInv'
<1>1. ASSUME NEW u \in Threads, u # th
      PROVE  /\ thr'[u].pc \in Reading => /\ thr'[u].run \in RunIds
                                         /\ phase'[thr'[u].run] # Absent
             /\ thr'[u].target <= height'
             /\ thr'[u].pc \notin {"answered", "prepsent", "refusing"} =>
                    thr'[u].answer = "none"
  <2>0. TypeOK /\ height \in Nat
    BY DEF IInv, TypeOK, ChainTypeOK
  <2>1. thr'[u] = thr[u] /\ thr[u].target \in Nat /\ height \in Nat
    BY <1>1, <2>0, ThreadUpdates
  <2>2. thr[u].target <= height
    BY DEF IInv, CarriedInv
  <2>3. thr[u].target <= height'
    BY <2>1, <2>2 DEF Onward
  <2> QED
    BY <2>1, <2>3 DEF IInv, CarriedInv, Onward, Reading
<1>2. ASSUME NEW u \in Threads, u # th, thr'[u].pc \in Carrying
      PROVE  /\ thr'[u].tx \in Built'
             /\ txs'[thr'[u].tx].kind = "transfer" => txs'[thr'[u].tx].sendAt <= height'
             /\ thr'[u].prepOf # NoRun => prep'[thr'[u].prepOf].tx = thr'[u].tx
             /\ thr'[u].answer = "Success" => thr'[u].tx \in accepted'
             /\ thr'[u].pc = "prepsent" => thr'[u].prepOf # NoRun
             /\ thr'[u].pc = "refusing" => thr'[u].prepOf = NoRun
  <2> DEFINE t == thr[u].tx
             r == thr[u].prepOf
  <2>1. thr'[u] = thr[u]
    BY <1>2
  <2>2. /\ t \in Built
        /\ txs[t].kind = "transfer" => txs[t].sendAt <= height
        /\ r # NoRun => prep[r].tx = t
        /\ thr[u].answer = "Success" => t \in accepted
        /\ thr[u].pc = "prepsent" => r # NoRun
        /\ thr[u].pc = "refusing" => r = NoRun
    BY <1>2, <2>1 DEF IInv, CarriedInv, Carrying
  <2>3. t \in Built' /\ txs'[t] = txs[t] /\ t # NoTx /\ t \in TxIds
    BY <2>2 DEF Onward, Built, IInv, TypeOK, ChainTypeOK
  <2>4. txs[t].sendAt \in Nat /\ height \in Nat
    BY <2>3 DEF IInv, TypeOK, ChainTypeOK, TxBodies
  <2>5. txs'[t].kind = "transfer" => txs'[t].sendAt <= height'
    BY <2>2, <2>3, <2>4 DEF Onward
  <2>6. r # NoRun => prep'[r].tx = t
    BY <2>2, <2>3, ThreadMoves DEF Onward, IInv
  <2> QED
    BY <2>1, <2>2, <2>3, <2>5, <2>6 DEF Onward
<1>3. thr'[App].pc = "fetched" => thr'[App].prepOf # NoRun
  BY Nothing DEF IInv, CarriedInv
<1> QED
  BY <1>1, <1>2, <1>3 DEF CarriedInv, Reading, Carrying

(* A thread returns, or none moves.                                        *)
LEMMA CarriedReturn ==
  ASSUME IInv, Onward, NEW th \in Threads, Return(th) \/ UNCHANGED thr,
         Polling' => poll'.run \in RunIds
  PROVE  CarriedInv'
<1>1. CASE Return(th)
  <2>1. \A u \in Threads : thr'[u] = IF u = th THEN Idle ELSE thr[u]
    BY <1>1 DEF Return, IInv, TypeOK
  <2>2. /\ thr'[th].pc = "idle" /\ thr'[th].target = 0 /\ thr'[th].answer = "none"
    BY <2>1 DEF Idle
  <2>3. thr'[th].target <= height'
    BY <2>2 DEF Onward
  <2> QED
    BY <2>1, <2>2, <2>3, CarriedMove DEF Reading, Carrying
<1>2. CASE UNCHANGED thr
  <2>0. TypeOK /\ height \in Nat
    BY DEF IInv, TypeOK, ChainTypeOK
  <2>1. /\ thr[th].pc \in Reading => thr[th].run \in RunIds /\ phase[thr[th].run] # Absent
        /\ thr[th].target <= height /\ thr[th].target \in Nat /\ height \in Nat
        /\ thr[th].pc \notin {"answered", "prepsent", "refusing"} => thr[th].answer = "none"
    BY <2>0, ThreadUpdates DEF IInv, CarriedInv, Reading
  <2>2. ASSUME thr[th].pc \in Carrying
        PROVE  /\ thr[th].tx \in Built /\ thr[th].tx # NoTx /\ thr[th].tx \in TxIds
               /\ txs[thr[th].tx].kind = "transfer" => txs[thr[th].tx].sendAt <= height
               /\ thr[th].prepOf # NoRun => prep[thr[th].prepOf].tx = thr[th].tx
               /\ thr[th].answer = "Success" => thr[th].tx \in accepted
               /\ thr[th].pc = "prepsent" => thr[th].prepOf # NoRun
               /\ thr[th].pc = "refusing" => thr[th].prepOf = NoRun
    BY <2>2 DEF IInv, CarriedInv, Carrying, Built, TypeOK, ChainTypeOK
  <2>3. ASSUME thr[th].pc \in Carrying, txs'[thr[th].tx].kind = "transfer"
        PROVE  txs'[thr[th].tx].sendAt <= height'
    <3>1. txs[thr[th].tx].sendAt \in Nat
      BY <2>2, <2>3 DEF IInv, TypeOK, ChainTypeOK, TxBodies
    <3> QED
      BY <2>1, <2>2, <2>3, <3>1 DEF Onward
  <2>4. ASSUME thr[th].pc \in Carrying, thr[th].prepOf # NoRun
        PROVE  prep'[thr[th].prepOf].tx = thr[th].tx
    BY <2>2, <2>4, ThreadMoves DEF Onward, IInv
  <2>5. thr[th].target <= height'
    BY <2>1 DEF Onward
  <2>6. thr[App].pc = "fetched" => thr[App].prepOf # NoRun
    BY DEF IInv, CarriedInv
  <2>7. thr[th].pc \in Reading => thr[th].run \in RunIds /\ phase'[thr[th].run] # Absent
    BY <2>1 DEF Onward
  <2>8. thr[th].pc \in Carrying => thr[th].tx \in Built' /\ accepted \subseteq accepted'
    BY <2>2 DEF Onward
  <2>9. thr' = thr
    BY <1>2
  <2> QED
    BY <2>1, <2>2, <2>3, <2>4, <2>5, <2>6, <2>7, <2>8, <2>9, CarriedMove
<1> QED
  BY <1>1, <1>2

LEMMA OnwardSame ==
  ASSUME IInv, UNCHANGED <<chainVars, prep>>,
         \A r \in RunIds : phase[r] # Absent => phase'[r] # Absent
  PROVE  Onward
<1>1. height \in Nat
  BY DEF IInv, TypeOK, ChainTypeOK
<1> QED
  BY <1>1 DEF Onward, chainVars, Built

(* A call that returns leaves nothing to say about its thread.             *)
LEMMA ReturnFrame ==
  ASSUME IInv, UNCHANGED <<chainVars, storeVars, poll>>,
         NEW th \in Threads, Return(th), th = App \/ UNCHANGED job
  PROVE  SigningInv' /\ CarriedInv'
<1>1. \A u \in Threads : thr'[u] = IF u = th THEN Idle ELSE thr[u]
  BY DEF Return, IInv, TypeOK
<1>2. SigningInv'
  BY <1>1, Nothing DEF IInv, SigningInv, At, Idle, chainVars, storeVars, Built
<1>3. Onward
  BY OnwardSame DEF storeVars
<1>4. CarriedInv'
  BY <1>3, CarriedReturn DEF IInv, CarriedInv, Polling
<1> QED
  BY <1>2, <1>4

LEMMA ProposeIInv ==
  ASSUME IInv, PrepareNoteSplit \/ ProposeMigrationTransfers \/ ProposeImmediate
  PROVE  IInv'
<1>0. UNCHANGED <<chainVars, storeVars, thr, job, poll>>
  BY DEF PrepareNoteSplit, ProposeMigrationTransfers, ProposeImmediate
<1>1. TypeOK'
  BY TypeAppStep DEF AppStep, IInv
<1>2. SigningInv'
  BY <1>0 DEF IInv, SigningInv, At, chainVars, storeVars, Built
<1>3. CarriedInv'
  BY <1>0, OnwardSame, CarriedReturn, Nothing DEF IInv, CarriedInv, Polling, storeVars
<1> QED
  BY <1>0, <1>1, <1>2, <1>3, StoreFrame DEF IInv

LEMMA FailIInv ==
  ASSUME IInv, SignNoteSplitFails \/ SignScheduleFails
  PROVE  IInv'
<1>1. TypeOK'
  BY TypeAppStep DEF AppStep, IInv
<1>2. UNCHANGED <<chainVars, storeVars, poll>> /\ Return(App)
  BY DEF SignNoteSplitFails, SignScheduleFails, ReturnFromSigning
<1> QED
  BY <1>1, <1>2, StoreFrame, ReturnFrame, Nothing DEF IInv

LEMMA CrashIInv ==
  ASSUME IInv, Crash
  PROVE  IInv'
<1>1. TypeOK'
  BY TypeCrash DEF IInv
<1>2. UNCHANGED <<chainVars, storeVars>> /\ poll' = NoPoll
      /\ \A u \in Threads : thr'[u] = Idle
  BY DEF Crash
<1>3. 0 <= height'
  BY <1>2 DEF chainVars, IInv, TypeOK, ChainTypeOK
<1>4. SigningInv' /\ CarriedInv'
  BY <1>2, <1>3, Nothing DEF SigningInv, CarriedInv, At, Idle, Polling, NoPoll
<1> QED
  BY <1>1, <1>2, <1>4, StoreFrame DEF IInv

-----------------------------------------------------------------------------
(* The App's signing calls.                                                *)

(* Whatever the wallet counts as spendable was made by a built transaction.*)
LEMMA SpendableBuilt ==
  ASSUME IInv
  PROVE  \A n \in Spendable : n \in Notes /\ n.tx < nextTx
<1>1. matured \subseteq Built /\ nextTx \in Nat /\ 0 < nextTx
  BY DEF IInv, ChainInv, TypeOK, ChainTypeOK
<1>2. \A t \in matured : t < nextTx
  BY <1>1 DEF Built
<1>3. \A t \in matured : \A n \in OutputsOf(t) : n.tx = t
  BY DEF OutputsOf
<1>4. \A n \in Genesis : n.tx = 0
  BY DEF Genesis
<1> QED
  BY <1>1, <1>2, <1>3, <1>4, SpendableType DEF Spendable, IInv, TypeOK

(* The runs that hold locks are live, so what is left to a run once the    *)
(* locks of the others are taken away is locked by nobody else.            *)
LEMMA LocksOfOthers ==
  ASSUME IInv, NEW r \in RunIds, NEW lock \in locked,
         lock[2] \in Spendable \ LockedByOthers(r)
  PROVE  lock[1] = r
<1>1. lock[1] \in RunIds
  BY DEF IInv, TypeOK, StoreTypeOK
<1>2. phase[lock[1]] \in WrittenPhases /\ phase[lock[1]] # Absent
  BY <1>1 DEF IInv, RunInv
<1>3. lock[1] \in LiveRuns
  BY <1>1, <1>2 DEF LiveRuns, WrittenPhases, TerminalPhases, Absent
<1>4. ASSUME lock[1] # r PROVE lock[2] \in LockedByOthers(r)
  BY <1>3, <1>4 DEF LockedByOthers
<1> QED
  BY <1>4

(* One more transaction is built.                                          *)
LEMMA BuiltGrows ==
  ASSUME ChainTypeOK, nextTx' = nextTx + 1
  PROVE  \A t \in Built' : t \in Built \/ t = nextTx
  BY DEF Built, ChainTypeOK

(* Only a run that exists has transactions.                                *)
LEMMA AbsentRunHasNoTx ==
  ASSUME IInv, NEW r \in RunIds, phase[r] = Absent
  PROVE  \A t \in TxIds : txs[t].run # r
<1> SUFFICES ASSUME NEW t \in TxIds, txs[t].run = r PROVE FALSE
  OBVIOUS
<1>1. CASE t \in Built
  BY <1>1 DEF IInv, RunInv
<1>2. CASE t \notin Built
  <2>1. txs[t] = Unbuilt
    BY <1>2 DEF Built, IInv, ChainInv, TypeOK, ChainTypeOK
  <2> QED
    BY <2>1 DEF Unbuilt
<1> QED
  BY <1>1, <1>2

(* Building a transaction from spendable notes.                            *)
LEMMA BuildFrame ==
  ASSUME IInv, NEW body \in TxBodies, Build(body),
         body.spends \subseteq Spendable, body.batch <= nextTx
  PROVE  /\ nextTx \in TxIds /\ nextTx' = nextTx + 1
         /\ \A t \in TxIds : txs'[t] = IF t = nextTx THEN body ELSE txs[t]
         /\ txs[nextTx] = Unbuilt
         /\ \A t \in Built : t \in Built' /\ t \in TxIds /\ txs'[t] = txs[t]
         /\ nextTx \in Built'
         /\ ChainInv' /\ SentInWindow'
<1>1. nextTx \in TxIds /\ nextTx' = nextTx + 1 /\ nextTx \in Nat
  BY BuildType DEF Build, IInv, TypeOK, ChainTypeOK
<1>2. \A t \in TxIds : txs'[t] = IF t = nextTx THEN body ELSE txs[t]
  BY <1>1 DEF Build, IInv, TypeOK, ChainTypeOK
<1>3. txs[nextTx] = Unbuilt
  BY <1>1 DEF IInv, ChainInv
<1>4. \A t \in Built : t \in Built' /\ t \in TxIds /\ txs'[t] = txs[t]
  BY <1>1, <1>2 DEF Built
<1>5. nextTx \in Built'
  BY <1>1 DEF Built
<1>6. UNCHANGED <<mempool, accepted, mined, matured, height>>
  BY DEF Build
<1>7. ChainInv'
  <2>1. mempool \subseteq accepted /\ mined \subseteq accepted /\ matured \subseteq mined
        /\ accepted \subseteq Built
    BY DEF IInv, ChainInv
  <2>2. accepted \subseteq Built'
    BY <2>1, <1>4
  <2>3. ASSUME NEW t \in TxIds
        PROVE  /\ t >= nextTx' => txs'[t] = Unbuilt
               /\ txs'[t].batch <= t
               /\ \A n \in txs'[t].spends : n.tx < t
    <3>1. CASE t = nextTx
      BY <3>1, <1>1, <1>2, SpendableBuilt
    <3>2. CASE t # nextTx
      BY <3>2, <1>1, <1>2 DEF IInv, ChainInv
    <3> QED
      BY <3>1, <3>2
  <2> QED
    BY <1>6, <2>1, <2>2, <2>3 DEF ChainInv
<1>8. SentInWindow'
  <2>1. \A t \in accepted : txs'[t] = txs[t]
    BY <1>4 DEF IInv, ChainInv
  <2> QED
    BY <1>6, <2>1 DEF IInv, SentInWindow, Transfers
<1> QED
  BY <1>1, <1>2, <1>3, <1>4, <1>5, <1>7, <1>8

LEMMA SignNoteSplitBeginIInv ==
  ASSUME IInv, SignNoteSplitBegin
  PROVE  IInv'
<1>1. TypeOK'
  BY TypeAppStep DEF AppStep, IInv
<1>2. PICK r \in RunIds :
        /\ InsertRun(r, "preparing_denominations")
        /\ job' = [NoJob EXCEPT !.run = r, !.todo = offer.count]
  BY DEF SignNoteSplitBegin
<1>3. /\ UNCHANGED <<chainVars, poll, prep, locked, pending>>
      /\ thr' = [thr EXCEPT ![App].pc = "splitting"]
      /\ phase[r] = Absent
      /\ phase' = [phase EXCEPT ![r] = "preparing_denominations"]
  BY <1>2 DEF SignNoteSplitBegin, InsertRun
<1>4. job'.run = r
  BY <1>2 DEF NoJob
<1>5. prep[r] = NoPrep
  BY <1>3 DEF IInv, RunInv
<1>6. \A s \in RunIds : phase'[s] = IF s = r THEN "preparing_denominations" ELSE phase[s]
  BY <1>3 DEF IInv, TypeOK, StoreTypeOK
<1>7. RunInv'
  BY <1>3, <1>6 DEF IInv, RunInv, HasSplit, WrittenPhases, Absent, chainVars, Built,
     TypeOK, StoreTypeOK
<1>8. SplitConfirmedBeforeReady' /\ LocksRespected' /\ RecordedMeansAccepted'
  BY <1>3, <1>6 DEF IInv, SplitConfirmedBeforeReady, LocksRespected, HasSplit,
     RecordedMeansAccepted, chainVars
<1>9. \A u \in Threads : thr'[u] = IF u = App THEN [thr[u] EXCEPT !.pc = "splitting"] ELSE thr[u]
  BY <1>3 DEF IInv, TypeOK
<1>10. thr'[App].pc = "splitting"
  BY <1>9, Nothing DEF IInv, TypeOK, ThreadStates
<1>11. SigningInv'
  <2>1. \A t \in TxIds : txs'[t].run # r
    BY <1>3, AbsentRunHasNoTx DEF chainVars
  <2> QED
    BY <2>1, <1>3, <1>4, <1>5, <1>6, <1>10 DEF SigningInv, At, Absent
<1>12. CarriedInv'
  <2>1. Onward
    BY <1>3, <1>6, OnwardSame DEF Absent
  <2>2. /\ thr'[App].target = thr[App].target /\ thr'[App].answer = thr[App].answer
        /\ thr[App].pc = "idle"
    BY <1>9, Nothing DEF IInv, TypeOK, ThreadStates, SignNoteSplitBegin, At
  <2>3. thr'[App].target <= height' /\ thr'[App].answer = "none"
    BY <1>3, <2>2, Nothing DEF IInv, CarriedInv, chainVars
  <2>4. Polling' => poll'.run \in RunIds
    BY <1>3 DEF IInv, CarriedInv, Polling
  <2>5. thr'[App].pc \notin Reading \cup Carrying
    BY <1>10 DEF Reading, Carrying
  <2> QED
    BY <1>9, <1>10, <2>1, <2>3, <2>4, <2>5, CarriedMove, Nothing
<1> QED
  BY <1>1, <1>3, <1>7, <1>8, <1>11, <1>12, ChainFrame DEF IInv

LEMMA SignNoteSplitBuildIInv ==
  ASSUME IInv, SignNoteSplitBuild
  PROVE  IInv'
<1> DEFINE r == job.run
<1>1. TypeOK'
  BY TypeAppStep DEF AppStep, IInv
<1>2. /\ r \in RunIds
      /\ prep[r] = NoPrep
      /\ phase[r] \notin {Absent, "ready_to_migrate"}
  BY DEF SignNoteSplitBuild, IInv, SigningInv
<1>3. PICK body \in TxBodies :
        /\ Build(body)
        /\ body.spends = SplitInputs
        /\ body.kind = "split"
        /\ body.batch = nextTx
        /\ body.run = r
  <2>1. PICK last \in 0..MaxMoney :
          Build([kind |-> "split", run |-> job.run, spends |-> SplitInputs,
                  outs |-> job.todo, last |-> last, sendAt |-> 0,
                  expiry |-> height + SplitWindow, batch |-> nextTx])
    BY DEF SignNoteSplitBuild
  <2>2. SplitInputs \subseteq Notes
    BY SpendableType DEF SplitInputs, IInv, TypeOK
  <2>3. nextTx \in 0..MaxTx /\ height \in Nat /\ job.todo \in 0..MaxNotes
    BY <2>1 DEF Build, IInv, TypeOK, ChainTypeOK, Jobs
  <2>4. [kind |-> "split", run |-> job.run, spends |-> SplitInputs,
         outs |-> job.todo, last |-> last, sendAt |-> 0,
         expiry |-> height + SplitWindow, batch |-> nextTx] \in TxBodies
    BY <1>2, <2>2, <2>3 DEF TxBodies
  <2> QED
    BY <2>1, <2>4
<1>4. /\ nextTx \in TxIds /\ nextTx' = nextTx + 1
      /\ \A t \in TxIds : txs'[t] = IF t = nextTx THEN body ELSE txs[t]
      /\ txs[nextTx] = Unbuilt
      /\ \A t \in Built : t \in Built' /\ t \in TxIds /\ txs'[t] = txs[t]
      /\ nextTx \in Built'
      /\ ChainInv' /\ SentInWindow'
  <2>1. body.batch <= nextTx /\ body.spends \subseteq Spendable
    BY <1>3 DEF SplitInputs, IInv, TypeOK, ChainTypeOK
  <2> QED
    BY <1>3, <2>1, BuildFrame
<1>5. /\ prep' = [prep EXCEPT ![r] = [tx |-> nextTx, status |-> "pending"]]
      /\ UNCHANGED <<phase, createdAt, lastError, locked, pending, job, poll,
                     height, mined, accepted>>
      /\ thr' = [thr EXCEPT ![App].pc = "locking", ![App].tx = nextTx,
                            ![App].prepOf = job.run]
  BY <1>3 DEF SignNoteSplitBuild, InsertPrepTx, Build
<1>6. \A s \in RunIds : prep'[s] = IF s = r THEN [tx |-> nextTx, status |-> "pending"]
                                            ELSE prep[s]
  BY <1>5 DEF IInv, TypeOK, StoreTypeOK
<1>7. BatchDisjoint'
  <2>1. \A t \in TxIds : txs'[t].kind = "transfer" => t # nextTx /\ txs'[t] = txs[t]
    BY <1>3, <1>4
  <2> QED
    BY <2>1 DEF IInv, BatchDisjoint, Transfers
<1>8. RunInv'
  <2>1. ASSUME NEW s \in RunIds, HasSplit(s)'
        PROVE  /\ prep'[s].tx \in Built' /\ txs'[prep'[s].tx].kind = "split"
               /\ txs'[prep'[s].tx].run = s
    <3>1. CASE s = r
      BY <3>1, <1>3, <1>4, <1>6
    <3>2. CASE s # r
      BY <3>2, <2>1, <1>4, <1>6 DEF IInv, RunInv, HasSplit
    <3> QED
      BY <3>1, <3>2
  <2>2. ASSUME NEW s \in RunIds, ~HasSplit(s)'
        PROVE  prep'[s] = NoPrep
    BY <2>2, <1>4, <1>6 DEF IInv, RunInv, HasSplit
  <2>3. \A s \in RunIds : HasSplit(s)' => prep'[s].status # Absent
    BY <1>6 DEF IInv, RunInv, HasSplit, Absent
  <2>4. ASSUME NEW t \in Built'
        PROVE  /\ txs'[t].run \in RunIds /\ phase[txs'[t].run] # Absent
               /\ txs'[t].kind = "transfer" \/ prep'[txs'[t].run].tx = t
    <3>1. CASE t = nextTx
      BY <3>1, <1>2, <1>3, <1>4, <1>6
    <3>2. CASE t # nextTx
      <4>1. t \in Built /\ txs'[t] = txs[t] /\ t \in TxIds
        BY <3>2, <1>4, BuiltGrows DEF IInv, TypeOK
      <4>2. txs[t].run \in RunIds /\ txs[t].run # r
        BY <4>1 DEF SignNoteSplitBuild, IInv, SigningInv, RunInv
      <4> QED
        BY <4>1, <4>2, <1>6 DEF IInv, RunInv
    <3> QED
      BY <3>1, <3>2
  <2>5. \A t \in TxIds : pending[t] # Absent => t \in Built'
    BY <1>4 DEF IInv, RunInv
  <2> QED
    BY <2>1, <2>2, <2>3, <2>4, <2>5, <1>2, <1>5, <1>6 DEF IInv, RunInv
<1>9. SplitConfirmedBeforeReady'
  BY <1>2, <1>5, <1>6 DEF IInv, SplitConfirmedBeforeReady, HasSplit
<1>10. LocksRespected'
  <2>1. ASSUME NEW lock \in locked, lock[2] \in SplitInputs PROVE lock[1] = r
    BY <2>1, <1>2, LocksOfOthers DEF SplitInputs
  <2> QED
    BY <2>1, <1>3, <1>4, <1>5 DEF IInv, LocksRespected
<1>11. RecordedMeansAccepted'
  BY <1>5, <1>6 DEF IInv, RecordedMeansAccepted
<1>12. /\ \A u \in Threads : u # App => thr'[u] = thr[u]
       /\ thr'[App].pc = "locking" /\ thr'[App].tx = nextTx /\ thr'[App].prepOf = r
       /\ thr'[App].target = thr[App].target /\ thr'[App].answer = thr[App].answer
  BY <1>5, Nothing DEF IInv, TypeOK, ThreadStates
<1>13. SigningInv'
  <2>1. nextTx = nextTx' - 1
    BY <1>4 DEF IInv, TypeOK, ChainTypeOK
  <2> QED
    BY <2>1, <1>2, <1>4, <1>5, <1>6, <1>12, Nothing DEF SigningInv, At
<1>14. CarriedInv'
  <2>1. Onward
    BY <1>2, <1>4, <1>5, <1>6 DEF Onward, NoPrep, IInv, TypeOK, ChainTypeOK
  <2>2. thr[App].pc = "splitting"
    BY DEF SignNoteSplitBuild, At
  <2>3. thr'[App].target <= height' /\ thr'[App].answer = "none"
    BY <1>5, <1>12, <2>2, Nothing DEF IInv, CarriedInv
  <2>4. Polling' => poll'.run \in RunIds
    BY <1>5 DEF IInv, CarriedInv, Polling
  <2>5. thr'[App].pc \notin Reading \cup Carrying /\ thr'[App].pc # "fetched"
    BY <1>12 DEF Reading, Carrying
  <2> QED
    BY <1>12, <2>1, <2>3, <2>4, <2>5, CarriedMove, Nothing
<1> QED
  BY <1>1, <1>4, <1>7, <1>8, <1>9, <1>10, <1>11, <1>13, <1>14 DEF IInv

(* The split's outputs are younger than any transaction but itself, so     *)
(* nothing can have spent them yet.                                        *)
LEMMA LockOutputsIInv ==
  ASSUME IInv, At(App, "locking"), NEW S \in SUBSET OutputsOf(thr[App].tx),
         InsertPreparedNotes(job.run, S), UNCHANGED chainVars
  PROVE  /\ ChainInv' /\ BatchDisjoint' /\ SentInWindow'
         /\ RunInv' /\ SplitConfirmedBeforeReady' /\ LocksRespected'
         /\ RecordedMeansAccepted'
<1>1. /\ job.run \in RunIds /\ phase[job.run] # Absent
      /\ thr[App].tx = nextTx - 1
      /\ nextTx \in Nat
  BY DEF IInv, SigningInv, TypeOK, ChainTypeOK
<1>2. locked' = locked \cup ({job.run} \X S) /\ UNCHANGED <<phase, createdAt, lastError, prep, pending>>
  BY DEF InsertPreparedNotes
<1>3. \A t \in TxIds : \A n \in txs[t].spends : n \notin S
  <2>1. ASSUME NEW t \in TxIds, NEW n \in txs[t].spends, n \in S PROVE FALSE
    <3>1. n.tx = nextTx - 1
      BY <2>1, <1>1 DEF OutputsOf
    <3>2. n.tx < t
      BY <2>1 DEF IInv, ChainInv
    <3>3. txs[t] = Unbuilt
      BY <3>1, <3>2, <1>1 DEF IInv, ChainInv
    <3> QED
      BY <2>1, <3>3 DEF Unbuilt
  <2> QED
    BY <2>1
<1>4. \A lock \in locked' : lock \in locked \/ (lock[1] = job.run /\ lock[2] \in S)
  BY <1>2
<1>5. LocksRespected'
  BY <1>3, <1>4 DEF IInv, LocksRespected, chainVars
<1>6. RunInv'
  BY <1>1, <1>2, <1>4 DEF IInv, RunInv, HasSplit, chainVars, Built
<1>7. SplitConfirmedBeforeReady' /\ RecordedMeansAccepted'
  BY <1>2 DEF IInv, SplitConfirmedBeforeReady, RecordedMeansAccepted, HasSplit, chainVars
<1> QED
  BY <1>2, <1>5, <1>6, <1>7, ChainFrame

LEMMA SignNoteSplitLockIInv ==
  ASSUME IInv, SignNoteSplitLock
  PROVE  IInv'
<1>1. TypeOK'
  BY TypeAppStep DEF AppStep, IInv
<1>2. /\ At(App, "locking")
      /\ InsertPreparedNotes(job.run, OutputsOf(thr[App].tx))
      /\ UNCHANGED <<chainVars, poll>>
      /\ thr' = [thr EXCEPT ![App].pc = "fetched"]
  BY DEF SignNoteSplitLock
<1>3. UNCHANGED <<phase, prep>>
  BY <1>2 DEF InsertPreparedNotes
<1>4. \A u \in Threads : thr'[u] = IF u = App THEN [thr[u] EXCEPT !.pc = "fetched"] ELSE thr[u]
  BY <1>2 DEF IInv, TypeOK
<1>5. /\ thr'[App].pc = "fetched" /\ thr'[App].tx = thr[App].tx
      /\ thr'[App].prepOf = thr[App].prepOf /\ thr'[App].answer = thr[App].answer
      /\ thr'[App].target = thr[App].target
  <2>1. thr[App] \in ThreadStates /\ thr'[App] = [thr[App] EXCEPT !.pc = "fetched"]
    BY <1>4, Nothing DEF IInv, TypeOK
  <2> QED
    BY <2>1 DEF ThreadStates
<1>6. SigningInv'
  BY <1>5 DEF SigningInv, At
<1>7. CarriedInv'
  <2>1. /\ thr[App].tx \in Built /\ job.run \in RunIds /\ thr[App].prepOf = job.run
        /\ prep[job.run].tx = thr[App].tx
    BY <1>2 DEF IInv, SigningInv
  <2>2. thr[App].answer = "none" /\ thr[App].target <= height
    BY <1>2, Nothing DEF IInv, CarriedInv, At
  <2>3. txs[thr[App].tx].kind = "split"
    BY <2>1 DEF IInv, RunInv, HasSplit, Built
  <2>4. Onward
    BY <1>2, <1>3, OnwardSame
  <2>5. txs' = txs /\ prep' = prep /\ nextTx' = nextTx /\ height' = height
        /\ poll' = poll /\ Built' = Built
    BY <1>2, <1>3 DEF chainVars, Built
  <2>6. Polling' => poll'.run \in RunIds
    BY <2>5 DEF IInv, CarriedInv, Polling
  <2>7. thr'[App].prepOf # NoRun /\ thr'[App].pc \notin Reading
    BY <1>5, <2>1 DEF Reading
  <2>8. \A u \in Threads : u # App => thr'[u] = thr[u]
    BY <1>4
  <2>9. /\ thr'[App].tx \in Built' /\ txs'[thr'[App].tx].kind = "split"
        /\ prep'[thr'[App].prepOf].tx = thr'[App].tx
        /\ thr'[App].answer = "none" /\ thr'[App].target <= height'
    BY <1>5, <2>1, <2>2, <2>3, <2>5
  <2> QED
    BY <1>5, <2>4, <2>6, <2>7, <2>8, <2>9, CarriedMove, Nothing
<1> QED
  BY <1>1, <1>2, <1>6, <1>7, LockOutputsIInv DEF IInv

LEMMA SignNoteSplitLockFailsIInv ==
  ASSUME IInv, SignNoteSplitLockFails
  PROVE  IInv'
<1>1. TypeOK'
  BY TypeAppStep DEF AppStep, IInv
<1>2. PICK S \in SUBSET OutputsOf(thr[App].tx) : InsertPreparedNotes(job.run, S)
  BY DEF SignNoteSplitLockFails
<1>3. /\ At(App, "locking") /\ Return(App)
      /\ UNCHANGED <<chainVars, poll, phase, prep, pending>>
  BY <1>2 DEF SignNoteSplitLockFails, ReturnFromSigning, InsertPreparedNotes
<1>4. \A u \in Threads : thr'[u] = IF u = App THEN Idle ELSE thr[u]
  BY <1>3 DEF Return, IInv, TypeOK
<1>5. SigningInv'
  BY <1>4, Nothing DEF SigningInv, At, Idle
<1>6. CarriedInv'
  BY <1>3, OnwardSame, CarriedReturn, Nothing DEF IInv, CarriedInv, Polling
<1> QED
  BY <1>1, <1>2, <1>3, <1>5, <1>6, LockOutputsIInv DEF IInv

LEMMA SignScheduleBeginIInv ==
  ASSUME IInv, SignScheduleBegin
  PROVE  IInv'
<1>1. TypeOK'
  BY TypeAppStep DEF AppStep, IInv
<1>2. PICK r \in RunIds :
        /\ \/ r \in ActiveRuns /\ UNCHANGED storeVars
           \/ ActiveRuns = {} /\ InsertRun(r, "ready_to_migrate")
        /\ job' = [run |-> r, todo |-> offer.count, amount |-> offer.amount,
                   sendAt |-> offer.target, avail |-> Spendable,
                   locks |-> LockedByOthers(r), batch |-> nextTx]
  BY DEF SignScheduleBegin
<1>3. /\ UNCHANGED <<chainVars, poll, prep, locked, pending>>
      /\ thr' = [thr EXCEPT ![App].pc = "signing"]
      /\ job'.run = r /\ job'.batch = nextTx
      /\ job'.avail = Spendable /\ job'.locks = LockedByOthers(r)
  BY <1>2 DEF SignScheduleBegin, InsertRun, storeVars
<1>4. \/ UNCHANGED phase
      \/ /\ phase[r] = Absent
         /\ \A s \in RunIds : phase'[s] = IF s = r THEN "ready_to_migrate" ELSE phase[s]
  BY <1>2 DEF InsertRun, storeVars, IInv, TypeOK, StoreTypeOK
<1>5. RunInv' /\ SplitConfirmedBeforeReady'
  BY <1>3, <1>4 DEF IInv, RunInv, SplitConfirmedBeforeReady, HasSplit, NoPrep,
     WrittenPhases, Absent, chainVars, Built, TypeOK, StoreTypeOK
<1>6. LocksRespected' /\ RecordedMeansAccepted'
  BY <1>3 DEF IInv, LocksRespected, RecordedMeansAccepted, chainVars
<1>7. \A u \in Threads : thr'[u] = IF u = App THEN [thr[u] EXCEPT !.pc = "signing"] ELSE thr[u]
  BY <1>3 DEF IInv, TypeOK
<1>8. thr'[App].pc = "signing"
  BY <1>7, Nothing DEF IInv, TypeOK, ThreadStates
<1>9. SigningInv'
  <2>1. \A lock \in locked : lock[2] \in Spendable \ LockedByOthers(r) => lock[1] = r
    BY LocksOfOthers
  <2>2. \A t \in TxIds : txs[t].batch # nextTx
    <3>1. ASSUME NEW t \in TxIds, txs[t].batch = nextTx PROVE FALSE
      <4>1. txs[t] = Unbuilt
        BY <3>1 DEF IInv, ChainInv
      <4> QED
        BY <3>1, <4>1 DEF Unbuilt, IInv, TypeOK, ChainTypeOK
    <3> QED
      BY <3>1
  <2>3. nextTx \in 1..nextTx
    BY DEF IInv, TypeOK, ChainTypeOK
  <2>4. phase'[r] # Absent
    BY <1>2, <1>4 DEF ActiveRuns, LiveRuns, InsertRun, IInv, TypeOK, StoreTypeOK, Absent, storeVars
  <2> QED
    BY <1>2, <1>3, <1>8, <2>1, <2>2, <2>3, <2>4 DEF SigningInv, At, chainVars
<1>10. CarriedInv'
  <2>1. \A u \in Threads : u # App => thr'[u] = thr[u]
    BY <1>7
  <2>2. Onward
    BY <1>3, <1>4, OnwardSame DEF Absent
  <2>3. /\ thr'[App].target = thr[App].target /\ thr'[App].answer = thr[App].answer
        /\ thr[App].pc = "idle"
    BY <1>7, Nothing DEF IInv, TypeOK, ThreadStates, SignScheduleBegin, At
  <2>4. thr'[App].target <= height' /\ thr'[App].answer = "none"
    BY <1>3, <2>3, Nothing DEF IInv, CarriedInv, chainVars
  <2>5. Polling' => poll'.run \in RunIds
    BY <1>3 DEF IInv, CarriedInv, Polling
  <2>6. thr'[App].pc \notin Reading \cup Carrying /\ thr'[App].pc # "fetched"
    BY <1>8 DEF Reading, Carrying
  <2> QED
    BY <1>8, <2>1, <2>2, <2>4, <2>5, <2>6, CarriedMove, Nothing
<1> QED
  BY <1>1, <1>3, <1>5, <1>6, <1>9, <1>10, ChainFrame DEF IInv

LEMMA SignTransferIInv ==
  ASSUME IInv, SignTransfer
  PROVE  IInv'
<1>1. TypeOK'
  BY TypeAppStep DEF AppStep, IInv
<1>2. PICK S \in TransferInputs :
        /\ Build([kind |-> "transfer", run |-> job.run, spends |-> S,
                  outs |-> 0, last |-> 0, sendAt |-> job.sendAt,
                  expiry |-> job.sendAt + Window, batch |-> job.batch])
        /\ job' = [job EXCEPT !.todo = @ - 1, !.sendAt = @ + Cadence,
                              !.avail = @ \ S]
  BY DEF SignTransfer
<1>3. S \subseteq job.avail \ job.locks /\ S \subseteq Spendable
  BY <1>2 DEF TransferInputs, WalletSelections, Selections
<1>4. /\ job.run \in RunIds /\ phase[job.run] # Absent
      /\ job.batch \in 1..nextTx
      /\ \A lock \in locked :
            lock[2] \in job.avail => lock[1] = job.run \/ lock[2] \in job.locks
      /\ \A t \in TxIds : txs[t].batch = job.batch => txs[t].spends \cap job.avail = {}
  BY DEF SignTransfer, IInv, SigningInv
<1>5. PICK body \in TxBodies :
        /\ Build(body)
        /\ body.spends = S /\ body.run = job.run /\ body.batch = job.batch
        /\ body.kind = "transfer"
  <2>1. [kind |-> "transfer", run |-> job.run, spends |-> S,
         outs |-> 0, last |-> 0, sendAt |-> job.sendAt,
         expiry |-> job.sendAt + Window, batch |-> job.batch] \in TxBodies
    <3>1. S \in SUBSET Notes
      BY <1>3, SpendableType DEF IInv, TypeOK
    <3> QED
      BY <3>1 DEF TxBodies, IInv, TypeOK, Jobs
  <2> QED
    BY <1>2, <2>1
<1>6. /\ nextTx \in TxIds /\ nextTx' = nextTx + 1
      /\ \A t \in TxIds : txs'[t] = IF t = nextTx THEN body ELSE txs[t]
      /\ \A t \in Built : t \in Built' /\ t \in TxIds /\ txs'[t] = txs[t]
      /\ ChainInv' /\ SentInWindow'
  <2>1. body.batch <= nextTx /\ body.spends \subseteq Spendable
    BY <1>3, <1>4, <1>5 DEF IInv, TypeOK, ChainTypeOK
  <2> QED
    BY <1>5, <2>1, BuildFrame
<1>7. /\ job'.run = job.run /\ job'.batch = job.batch
      /\ job'.avail = job.avail \ S /\ job'.locks = job.locks
  BY <1>2 DEF IInv, TypeOK, Jobs
<1>8. /\ pending' = [pending EXCEPT ![nextTx] = "scheduled"]
      /\ UNCHANGED <<phase, createdAt, lastError, prep, locked, thr, poll,
                     height, mined, accepted>>
  BY <1>5 DEF SignTransfer, InsertPendingTx, Build
<1>9. BatchDisjoint'
  <2>1. ASSUME NEW t \in TxIds, t # nextTx, txs[t].batch = job.batch
        PROVE  txs[t].spends \cap S = {}
    BY <2>1, <1>3, <1>4
  <2> QED
    BY <2>1, <1>5, <1>6 DEF IInv, BatchDisjoint, Transfers
<1>10. LocksRespected'
  BY <1>3, <1>4, <1>5, <1>6, <1>8 DEF IInv, LocksRespected
<1>11. RunInv'
  <2>1. ASSUME NEW s \in RunIds, HasSplit(s)
        PROVE  /\ prep[s].tx \in Built' /\ txs'[prep[s].tx].kind = "split"
               /\ txs'[prep[s].tx].run = s
    BY <2>1, <1>6 DEF IInv, RunInv
  <2>2. \A t \in Built' : /\ txs'[t].run \in RunIds /\ phase[txs'[t].run] # Absent
                          /\ txs'[t].kind = "transfer" \/ prep[txs'[t].run].tx = t
    BY <1>4, <1>5, <1>6, BuiltGrows DEF IInv, RunInv, TypeOK
  <2>3. \A t \in TxIds : pending'[t] # Absent => t \in Built'
    <3>1. \A t \in TxIds : pending'[t] = IF t = nextTx THEN "scheduled" ELSE pending[t]
      BY <1>8 DEF IInv, TypeOK, StoreTypeOK
    <3>2. nextTx \in Built'
      BY <1>6 DEF Built, IInv, TypeOK, ChainTypeOK
    <3> QED
      BY <3>1, <3>2, <1>6 DEF IInv, RunInv
  <2> QED
    BY <2>1, <2>2, <2>3, <1>8 DEF IInv, RunInv, HasSplit
<1>12. SplitConfirmedBeforeReady'
  BY <1>8 DEF IInv, SplitConfirmedBeforeReady, HasSplit
<1>13. RecordedMeansAccepted'
  <2>1. \A t \in TxIds : pending'[t] = IF t = nextTx THEN "scheduled" ELSE pending[t]
    BY <1>8 DEF IInv, TypeOK, StoreTypeOK
  <2> QED
    BY <2>1, <1>8 DEF IInv, RecordedMeansAccepted
<1>14. SigningInv'
  <2>1. thr[App].pc = "signing"
    BY DEF SignTransfer, At
  <2>2. job'.batch \in 1..nextTx'
    BY <1>4, <1>6, <1>7 DEF IInv, TypeOK, ChainTypeOK
  <2>3. ASSUME NEW t \in TxIds, txs'[t].batch = job'.batch
        PROVE  txs'[t].spends \cap job'.avail = {}
    BY <2>3, <1>4, <1>5, <1>6, <1>7
  <2> QED
    BY <1>4, <1>7, <1>8, <2>1, <2>2, <2>3 DEF SigningInv, At
<1>15. CarriedInv'
  <2>1. Onward
    BY <1>6, <1>8 DEF Onward, IInv, TypeOK, ChainTypeOK
  <2> QED
    BY <2>1, <1>8, CarriedReturn, Nothing DEF IInv, CarriedInv, Polling
<1> QED
  BY <1>1, <1>6, <1>9, <1>10, <1>11, <1>12, <1>13, <1>14, <1>15 DEF IInv

LEMMA SignScheduleEndIInv ==
  ASSUME IInv, SignScheduleEnd
  PROVE  IInv'
<1>1. TypeOK'
  BY TypeAppStep DEF AppStep, IInv
<1>2. /\ job.run \in RunIds /\ Return(App)
      /\ UNCHANGED <<chainVars, poll, prep, locked, pending>>
      /\ phase' = [phase EXCEPT ![job.run] = "broadcast_scheduled"]
  BY DEF SignScheduleEnd, ReturnFromSigning, SetPhase, IInv, SigningInv
<1>3. \A s \in RunIds : phase'[s] = IF s = job.run THEN "broadcast_scheduled" ELSE phase[s]
  BY <1>2 DEF IInv, TypeOK, StoreTypeOK
<1>4. RunInv'
  <2>1. phase[job.run] # Absent
    BY DEF SignScheduleEnd, IInv, SigningInv
  <2>2. \A s \in RunIds : /\ phase'[s] \in WrittenPhases
                          /\ phase'[s] = Absent <=> phase[s] = Absent
    BY <1>3, <2>1 DEF IInv, RunInv, WrittenPhases, Absent
  <2>3. \A lock \in locked : lock[1] \in RunIds /\ phase'[lock[1]] # Absent
    BY <2>2 DEF IInv, RunInv, TypeOK, StoreTypeOK
  <2> QED
    BY <1>2, <2>2, <2>3 DEF IInv, RunInv, HasSplit, chainVars, Built
<1>5. SplitConfirmedBeforeReady' /\ LocksRespected' /\ RecordedMeansAccepted'
  BY <1>2, <1>3 DEF IInv, SplitConfirmedBeforeReady, LocksRespected, HasSplit,
     RecordedMeansAccepted, chainVars
<1>6. \A u \in Threads : thr'[u] = IF u = App THEN Idle ELSE thr[u]
  BY <1>2 DEF Return, IInv, TypeOK
<1>7. SigningInv'
  BY <1>6, Nothing DEF SigningInv, At, Idle
<1>8. CarriedInv'
  BY <1>2, <1>3, OnwardSame, CarriedReturn, Nothing DEF IInv, CarriedInv, Polling, Absent
<1> QED
  BY <1>1, <1>2, <1>4, <1>5, <1>7, <1>8, ChainFrame DEF IInv

(* An update of the statuses in pending_txs, by any call.                  *)
LEMMA PendingFrame ==
  ASSUME IInv, UNCHANGED <<chainVars, phase, prep, locked>>,
         \A t \in TxIds : /\ pending'[t] = "confirmed" => pending[t] = "confirmed" \/ t \in mined
                          /\ pending'[t] = "broadcasted" => pending[t] = "broadcasted" \/ t \in accepted
                          /\ pending'[t] # Absent => pending[t] # Absent
  PROVE  /\ ChainInv' /\ BatchDisjoint' /\ SentInWindow'
         /\ RunInv' /\ SplitConfirmedBeforeReady' /\ LocksRespected'
         /\ RecordedMeansAccepted'
<1>1. RunInv' /\ SplitConfirmedBeforeReady' /\ LocksRespected'
  BY DEF IInv, RunInv, SplitConfirmedBeforeReady, LocksRespected, HasSplit, chainVars, Built
<1>2. RecordedMeansAccepted'
  BY DEF IInv, RecordedMeansAccepted, chainVars
<1> QED
  BY <1>1, <1>2, ChainFrame

LEMMA RestartIInv ==
  ASSUME IInv, RestartCurrentStep
  PROVE  IInv'
<1>1. TypeOK'
  BY TypeAppStep DEF AppStep, IInv
<1>2. (\E r \in ActiveRuns : ClearScheduled({r})) \/ UNCHANGED storeVars
  BY DEF RestartCurrentStep
<1>3. UNCHANGED <<chainVars, thr, job, poll, phase, prep, locked>>
  BY <1>2 DEF RestartCurrentStep, ClearScheduled, storeVars
<1>4. \A t \in TxIds : pending'[t] \in {Absent, pending[t]}
  BY <1>2 DEF ClearScheduled, storeVars
<1>5. SigningInv'
  BY <1>3 DEF IInv, SigningInv, At, chainVars, Built
<1>6. CarriedInv'
  BY <1>3, OnwardSame, CarriedReturn, Nothing DEF IInv, CarriedInv, Polling
<1> QED
  BY <1>1, <1>3, <1>4, <1>5, <1>6, PendingFrame DEF IInv, Absent

-----------------------------------------------------------------------------
(* Delivery.                                                               *)

(* The transaction it is handed was built, and is not early.               *)
LEMMA NextDueBuilt ==
  ASSUME IInv, NEW w \in Workers
  PROVE  /\ NextDueIsSplit(w) =>
              /\ thr[w].run \in RunIds
              /\ prep[thr[w].run].tx \in Built
              /\ txs[prep[thr[w].run].tx].kind = "split"
         /\ \A t \in NextDue(thr[w].run, thr[w].target) :
              t \in Built /\ txs[t].sendAt <= height
<1>1. w \in Threads
  BY DEF Threads
<1>2. ASSUME NextDueIsSplit(w)
      PROVE  /\ thr[w].run \in RunIds
             /\ prep[thr[w].run].tx \in Built
             /\ txs[prep[thr[w].run].tx].kind = "split"
  <2>1. thr[w].run \in RunIds /\ prep[thr[w].run].status = "pending"
    BY <1>1, <1>2 DEF NextDueIsSplit, At, IInv, CarriedInv
  <2>2. HasSplit(thr[w].run)
    BY <2>1 DEF IInv, RunInv, NoPrep, Absent
  <2> QED
    BY <2>1, <2>2 DEF IInv, RunInv
<1>3. ASSUME NEW t \in NextDue(thr[w].run, thr[w].target)
      PROVE  t \in Built /\ txs[t].sendAt <= height
  <2>1. /\ t \in TxIds /\ pending[t] # Absent /\ txs[t].sendAt <= thr[w].target
    BY DEF NextDue, DueRows, RowsOf
  <2>0. TypeOK /\ height \in Nat
    BY DEF IInv, TypeOK, ChainTypeOK
  <2>2. thr[w].target <= height /\ thr[w].target \in Nat /\ height \in Nat
    BY <1>1, <2>0, ThreadUpdates DEF IInv, CarriedInv
  <2>3. txs[t].sendAt \in Nat
    BY <2>1 DEF IInv, TypeOK, ChainTypeOK, TxBodies
  <2>4. t \in Built
    BY <2>1 DEF IInv, RunInv
  <2> QED
    BY <2>1, <2>2, <2>3, <2>4
<1> QED
  BY <1>2, <1>3

(* Looking for the next due transaction only moves the one that looks.     *)
LEMMA NextDueTransferIInv ==
  ASSUME IInv, NEW w \in Workers, NextDueTransfer(w)
  PROVE  IInv'
<1>0. w \in Threads /\ w # App
  BY DEF Threads
<1>1. TypeOK'
  BY <1>0, TypeDeliveryStep DEF IInv
<1>2. UNCHANGED <<chainVars, storeVars, job, poll>>
  BY DEF NextDueTransfer, NextDueBegin, NextDueIsSplit, NextDueNoSplit, NextDueTarget,
     NextDueIsTransfer, NextDueNone
<1>3. Onward
  BY <1>2, OnwardSame DEF storeVars
<1>4. Polling' => poll'.run \in RunIds
  BY <1>2 DEF IInv, CarriedInv, Polling
<1>5. thr[w] \in ThreadStates /\ thr[w].target <= height /\ height \in Nat
  BY <1>0 DEF IInv, CarriedInv, TypeOK, ChainTypeOK
<1>6. height' = height /\ UNCHANGED <<txs, accepted, phase, prep>> /\ Built' = Built
  BY <1>2 DEF chainVars, storeVars, Built
<1>7. \A u \in Threads : u # w => thr'[u] = thr[u]
  <2>1. \A v : \A u \in Threads : u # w => [thr EXCEPT ![w] = v][u] = thr[u]
    BY DEF IInv, TypeOK
  <2>2. \E v : thr' = [thr EXCEPT ![w] = v]
    BY DEF NextDueTransfer, NextDueBegin, NextDueIsSplit, NextDueNoSplit, NextDueTarget,
       NextDueIsTransfer, NextDueNone, Return
  <2> QED
    BY <2>1, <2>2
<1>8. SigningInv'
  BY <1>0, <1>2, <1>7, Nothing DEF IInv, SigningInv, At, chainVars, storeVars, Built
<1>9. CarriedInv'
  <2>1. CASE NextDueBegin(w)
    <3>1. PICK r \in ActiveRuns : thr' = [thr EXCEPT ![w].pc = "asking", ![w].run = r]
      BY <2>1 DEF NextDueBegin
    <3>2. r \in RunIds /\ phase[r] # Absent
      BY DEF ActiveRuns, LiveRuns
    <3>3. thr'[w] = [thr[w] EXCEPT !.pc = "asking", !.run = r]
      BY <1>0, <3>1 DEF IInv, TypeOK
    <3>4. /\ thr'[w].pc = "asking" /\ thr'[w].run = r /\ thr'[w].target = thr[w].target
          /\ thr'[w].answer = thr[w].answer
      BY <1>5, <3>3 DEF ThreadStates
    <3>5. thr'[w].answer = "none"
      BY <2>1, <3>4, <1>0 DEF NextDueBegin, At, IInv, CarriedInv
    <3> QED
      BY <1>0, <1>3, <1>4, <1>5, <1>6, <1>7, <3>2, <3>4, <3>5, CarriedMove DEF Reading, Carrying
  <2>2. CASE NextDueIsSplit(w)
    <3> DEFINE r == thr[w].run
    <3>1. thr'[w] = [Idle EXCEPT !.pc = "fetched", !.tx = prep[r].tx, !.prepOf = r]
      BY <1>0, <2>2 DEF NextDueIsSplit, IInv, TypeOK
    <3>2. /\ thr'[w].pc = "fetched" /\ thr'[w].tx = prep[r].tx /\ thr'[w].prepOf = r
          /\ thr'[w].target = 0 /\ thr'[w].answer = "none"
      BY <3>1 DEF Idle
    <3>3. prep[r].tx \in Built /\ txs[prep[r].tx].kind = "split"
      BY <2>2, NextDueBuilt
    <3>4. thr'[w].target <= height'
      BY <1>5, <1>6, <3>2
    <3> QED
      BY <1>0, <1>3, <1>4, <1>6, <1>7, <3>2, <3>3, <3>4, CarriedMove DEF Reading, Carrying
  <2>3. CASE NextDueNoSplit(w)
    <3>1. thr[w].pc = "asking" /\ thr'[w] = [thr[w] EXCEPT !.pc = "checked"]
      BY <1>0, <2>3 DEF NextDueNoSplit, At, IInv, TypeOK
    <3>2. /\ thr'[w].pc = "checked" /\ thr'[w].run = thr[w].run
          /\ thr'[w].target = thr[w].target /\ thr'[w].answer = thr[w].answer
      BY <1>5, <3>1 DEF ThreadStates
    <3>3. /\ thr[w].run \in RunIds /\ phase[thr[w].run] # Absent /\ thr[w].answer = "none"
      BY <1>0, <3>1 DEF IInv, CarriedInv
    <3> QED
      BY <1>0, <1>3, <1>4, <1>5, <1>6, <1>7, <3>2, <3>3, CarriedMove DEF Reading, Carrying
  <2>4. CASE NextDueTarget(w)
    <3>1. thr[w].pc = "checked"
          /\ thr'[w] = [thr[w] EXCEPT !.pc = "targeted", !.target = height]
      BY <1>0, <2>4 DEF NextDueTarget, At, IInv, TypeOK
    <3>2. /\ thr'[w].pc = "targeted" /\ thr'[w].run = thr[w].run
          /\ thr'[w].target = height /\ thr'[w].answer = thr[w].answer
      BY <1>5, <3>1 DEF ThreadStates
    <3>3. /\ thr[w].run \in RunIds /\ phase[thr[w].run] # Absent /\ thr[w].answer = "none"
      BY <1>0, <3>1 DEF IInv, CarriedInv
    <3>4. thr'[w].target <= height'
      BY <1>5, <1>6, <3>2
    <3> QED
      BY <1>0, <1>3, <1>4, <1>6, <1>7, <3>2, <3>3, <3>4, CarriedMove DEF Reading, Carrying
  <2>5. CASE NextDueIsTransfer(w)
    <3>1. PICK t \in NextDue(thr[w].run, thr[w].target) :
            thr' = [thr EXCEPT ![w] = [Idle EXCEPT !.pc = "fetched", !.tx = t]]
      BY <2>5 DEF NextDueIsTransfer
    <3>2. thr'[w] = [Idle EXCEPT !.pc = "fetched", !.tx = t]
      BY <1>0, <3>1 DEF IInv, TypeOK
    <3>3. /\ thr'[w].pc = "fetched" /\ thr'[w].tx = t /\ thr'[w].prepOf = NoRun
          /\ thr'[w].target = 0 /\ thr'[w].answer = "none"
      BY <3>2 DEF Idle
    <3>4. t \in Built /\ txs[t].sendAt <= height
      BY NextDueBuilt
    <3>5. thr'[w].target <= height'
      BY <1>5, <1>6, <3>3
    <3> QED
      BY <1>0, <1>3, <1>4, <1>6, <1>7, <3>3, <3>4, <3>5, CarriedMove DEF Reading, Carrying
  <2>6. CASE NextDueNone(w)
    BY <2>6, <1>0, <1>3, <1>4, CarriedReturn DEF NextDueNone
  <2> QED
    BY <2>1, <2>2, <2>3, <2>4, <2>5, <2>6 DEF NextDueTransfer
<1> QED
  BY <1>1, <1>2, <1>8, <1>9, StoreFrame DEF IInv

(* The node takes the transaction, or answers without taking it.           *)
LEMMA BroadcastIInv ==
  ASSUME IInv, NEW th \in Threads, BroadcastAccepted(th) \/ BroadcastNotAccepted(th)
  PROVE  IInv'
<1> DEFINE tx == thr[th].tx
<1>1. TypeOK'
  BY TypeDeliveryStep DEF DeliveryStep, IInv
<1>2. /\ At(th, "fetched")
      /\ UNCHANGED <<height, txs, nextTx, mined, matured, storeVars, job, poll>>
      /\ \/ accepted' = accepted \cup {tx} /\ mempool' = mempool \cup {tx}
         \/ UNCHANGED <<accepted, mempool>>
  BY DEF BroadcastAccepted, BroadcastNotAccepted, chainVars
<1>3. PICK a \in Answers :
        /\ thr' = [thr EXCEPT ![th].pc = "answered", ![th].answer = a]
        /\ a = "Success" => tx \in accepted'
  <2>1. CASE BroadcastAccepted(th)
    BY <2>1 DEF BroadcastAccepted, Answers
  <2>2. CASE BroadcastNotAccepted(th)
    <3>1. Refusals(tx) \subseteq {"Expired", "InvalidNote"}
      BY DEF Refusals
    <3>2. mempool \subseteq accepted
      BY DEF IInv, ChainInv
    <3> QED
      BY <2>2, <3>1, <3>2 DEF BroadcastNotAccepted, Answers, chainVars
  <2> QED
    BY <2>1, <2>2
<1>4. /\ tx \in Built
      /\ txs[tx].kind = "transfer" => txs[tx].sendAt <= height
      /\ thr[th].prepOf # NoRun => prep[thr[th].prepOf].tx = tx
  BY <1>2 DEF IInv, CarriedInv, At
<1>5. \A u \in Threads : thr'[u] = IF u = th THEN [thr[u] EXCEPT !.pc = "answered", !.answer = a]
                                              ELSE thr[u]
  BY <1>3 DEF IInv, TypeOK
<1>6. /\ thr'[th].pc = "answered" /\ thr'[th].answer = a
      /\ thr'[th].tx = tx /\ thr'[th].prepOf = thr[th].prepOf
      /\ thr'[th].target = thr[th].target
  <2>1. thr[th] \in ThreadStates /\ thr'[th] = [thr[th] EXCEPT !.pc = "answered", !.answer = a]
    BY <1>5 DEF IInv, TypeOK
  <2> QED
    BY <2>1 DEF ThreadStates
<1>7. ChainInv' /\ BatchDisjoint'
  BY <1>2, <1>4 DEF IInv, ChainInv, Built, BatchDisjoint, Transfers
<1>8. SentInWindow'
  BY <1>2, <1>4 DEF IInv, SentInWindow, Transfers
<1>9. RunInv' /\ SplitConfirmedBeforeReady' /\ LocksRespected'
  BY <1>2 DEF IInv, RunInv, SplitConfirmedBeforeReady, LocksRespected, HasSplit, Built, storeVars
<1>10. RecordedMeansAccepted'
  BY <1>2 DEF IInv, RecordedMeansAccepted, storeVars
<1>11. SigningInv'
  <2>1. CASE th = App
    BY <2>1, <1>6 DEF SigningInv, At
  <2>2. CASE th # App
    <3>1. thr'[App] = thr[App]
      BY <2>2, <1>5, Nothing
    <3> QED
      BY <3>1, <1>2 DEF IInv, SigningInv, At, storeVars, Built
  <2> QED
    BY <2>1, <2>2
<1>12. CarriedInv'
  <2>1. UNCHANGED <<height, txs, nextTx, prep, phase, poll>> /\ accepted \subseteq accepted'
        /\ Built' = Built
    BY <1>2 DEF storeVars, Built
  <2>2. Onward
    BY <2>1 DEF Onward, IInv, TypeOK, ChainTypeOK
  <2>3. \A u \in Threads : u # th => thr'[u] = thr[u]
    BY <1>5
  <2>4. thr'[th].target <= height'
    BY <1>6, <2>1 DEF IInv, CarriedInv
  <2>5. Polling' => poll'.run \in RunIds
    BY <2>1 DEF IInv, CarriedInv, Polling
  <2>6. /\ thr'[th].tx \in Built'
        /\ txs'[thr'[th].tx].kind = "transfer" => txs'[thr'[th].tx].sendAt <= height'
        /\ thr'[th].prepOf # NoRun => prep'[thr'[th].prepOf].tx = thr'[th].tx
        /\ thr'[th].answer = "Success" => thr'[th].tx \in accepted'
    BY <1>3, <1>4, <1>6, <2>1
  <2>7. thr'[th].pc \notin Reading /\ thr'[th].pc = "answered"
    BY <1>6 DEF Reading
  <2> QED
    BY <2>2, <2>3, <2>4, <2>5, <2>6, <2>7, CarriedMove
<1> QED
  BY <1>1, <1>7, <1>8, <1>9, <1>10, <1>11, <1>12 DEF IInv

LEMMA RecordPrepSentIInv ==
  ASSUME IInv, NEW th \in Threads, RecordPrepSent(th)
  PROVE  IInv'
<1> DEFINE r == thr[th].prepOf
<1>1. TypeOK'
  BY TypeDeliveryStep DEF DeliveryStep, IInv
<1>2. /\ r \in RunIds
      /\ thr[th].pc = "answered" /\ thr[th].answer = "Success"
      /\ UNCHANGED <<chainVars, phase, locked, pending, job, poll>>
      /\ prep' = [prep EXCEPT ![r].status = "broadcasted"]
      /\ thr' = [thr EXCEPT ![th].pc = "prepsent"]
  BY ThreadMoves DEF RecordPrepSent, Answered, At, SetPrepBroadcasted, IInv
<1>3. prep[r].tx = thr[th].tx /\ thr[th].tx \in accepted /\ thr[th].tx \in Built
  BY <1>2 DEF IInv, CarriedInv
<1>4. \A s \in RunIds : /\ prep'[s].tx = prep[s].tx
                        /\ s # r => prep'[s] = prep[s]
                        /\ s = r => prep'[s].status = "broadcasted"
  <2>1. \A s \in RunIds : prep'[s] = IF s = r THEN [prep[s] EXCEPT !.status = "broadcasted"]
                                              ELSE prep[s]
    BY <1>2 DEF IInv, TypeOK, StoreTypeOK
  <2>2. \A s \in RunIds : prep[s] \in PrepRows
    BY DEF IInv, TypeOK, StoreTypeOK
  <2> QED
    BY <2>1, <2>2 DEF PrepRows
<1>5. HasSplit(r) /\ prep[r] # NoPrep
  BY <1>3 DEF HasSplit, Built, NoPrep
<1>6. RunInv'
  <2>1. \A s \in RunIds : prep'[s] # prep[s] => phase[s] # Absent /\ HasSplit(s)
    BY <1>4, <1>5 DEF IInv, RunInv
  <2>2. \A s \in RunIds : /\ phase[s] \in WrittenPhases
                          /\ phase[s] = Absent => prep'[s] = NoPrep
    BY <2>1 DEF IInv, RunInv
  <2>3. \A s \in RunIds : prep'[s].tx = NoTx => prep'[s] = NoPrep
    BY <1>4, <1>5 DEF IInv, RunInv, HasSplit
  <2>4. \A s \in RunIds : prep'[s].tx # NoTx =>
            /\ prep'[s].tx \in Built
            /\ prep'[s].status # Absent
            /\ txs[prep'[s].tx].kind = "split"
            /\ txs[prep'[s].tx].run = s
    BY <1>4 DEF IInv, RunInv, HasSplit, Absent
  <2>5. UNCHANGED <<phase, locked, pending, txs, nextTx>>
    BY <1>2 DEF chainVars
  <2>6. /\ \A lock \in locked : phase[lock[1]] # Absent
        /\ \A t \in Built : /\ txs[t].run \in RunIds /\ phase[txs[t].run] # Absent
                            /\ txs[t].kind = "transfer" \/ prep'[txs[t].run].tx = t
        /\ \A t \in TxIds : pending[t] # Absent => t \in Built
    BY <1>4 DEF IInv, RunInv
  <2> QED
    BY <2>2, <2>3, <2>4, <2>5, <2>6 DEF RunInv, HasSplit, Built
<1>7. SplitConfirmedBeforeReady' /\ LocksRespected'
  BY <1>2, <1>4 DEF IInv, SplitConfirmedBeforeReady, LocksRespected, HasSplit, chainVars
<1>8. RecordedMeansAccepted'
  BY <1>2, <1>3, <1>4 DEF IInv, RecordedMeansAccepted, chainVars
<1>9. \A u \in Threads : thr'[u] = IF u = th THEN [thr[u] EXCEPT !.pc = "prepsent"] ELSE thr[u]
  BY <1>2 DEF IInv, TypeOK
<1>10. /\ thr'[th].pc = "prepsent" /\ thr'[th].answer = thr[th].answer
       /\ thr'[th].tx = thr[th].tx /\ thr'[th].prepOf = r
       /\ thr'[th].target = thr[th].target
  <2>1. thr[th] \in ThreadStates /\ thr'[th] = [thr[th] EXCEPT !.pc = "prepsent"]
    BY <1>9 DEF IInv, TypeOK
  <2> QED
    BY <2>1 DEF ThreadStates
<1>11. SigningInv'
  <2>1. CASE th = App
    BY <2>1, <1>10 DEF SigningInv, At
  <2>2. CASE th # App
    <3>1. thr'[App] = thr[App]
      BY <2>2, <1>9, Nothing
    <3>2. ASSUME At(App, "splitting") PROVE job.run # r
      BY <3>2, <1>5 DEF IInv, SigningInv
    <3> QED
      BY <3>1, <3>2, <1>2, <1>4 DEF IInv, SigningInv, At, chainVars, Built
  <2> QED
    BY <2>1, <2>2
<1>12. CarriedInv'
  <2>1. UNCHANGED <<height, txs, nextTx, accepted, phase, poll>> /\ Built' = Built
    BY <1>2 DEF chainVars, Built
  <2>2. Onward
    BY <2>1, <1>4 DEF Onward, IInv, TypeOK, ChainTypeOK
  <2>3. \A u \in Threads : u # th => thr'[u] = thr[u]
    BY <1>9
  <2>4. thr'[th].target <= height'
    BY <1>10, <2>1 DEF IInv, CarriedInv
  <2>5. Polling' => poll'.run \in RunIds
    BY <2>1 DEF IInv, CarriedInv, Polling
  <2>6. txs[thr[th].tx].kind = "transfer" => txs[thr[th].tx].sendAt <= height
    BY <1>2 DEF IInv, CarriedInv
  <2>7. /\ thr'[th].tx \in Built'
        /\ txs'[thr'[th].tx].kind = "transfer" => txs'[thr'[th].tx].sendAt <= height'
        /\ prep'[thr'[th].prepOf].tx = thr'[th].tx
        /\ thr'[th].tx \in accepted'
        /\ thr'[th].prepOf # NoRun
    BY <1>2, <1>3, <1>4, <1>10, <2>1, <2>6
  <2>8. thr'[th].pc \notin Reading /\ thr'[th].pc = "prepsent"
    BY <1>10 DEF Reading
  <2> QED
    BY <2>2, <2>3, <2>4, <2>5, <2>7, <2>8, CarriedMove
<1> QED
  BY <1>1, <1>2, <1>6, <1>7, <1>8, <1>11, <1>12, ChainFrame DEF IInv

(* A phase other than ready_to_migrate is written and a thread returns.    *)
LEMMA PhaseFrame ==
  ASSUME IInv, NEW th \in Threads, NEW r \in RunIds, NEW p, NEW e,
         p \in WrittenPhases \ {Absent, "ready_to_migrate"},
         SetPhase(r, p, e), Return(th), UNCHANGED <<chainVars, job, poll>>
  PROVE  /\ ChainInv' /\ BatchDisjoint' /\ SentInWindow'
         /\ RunInv' /\ SplitConfirmedBeforeReady' /\ LocksRespected'
         /\ RecordedMeansAccepted'
         /\ SigningInv' /\ CarriedInv'
<1>1. UNCHANGED <<prep, locked, pending>>
      /\ \A s \in RunIds : phase'[s] = IF s = r THEN p ELSE phase[s]
  BY DEF SetPhase, IInv, TypeOK, StoreTypeOK
<1>2. RunInv' /\ SplitConfirmedBeforeReady'
  <2>1. \A s \in RunIds : /\ phase'[s] \in WrittenPhases
                          /\ phase'[s] = Absent => phase[s] = Absent
                          /\ phase'[s] = "ready_to_migrate" => phase[s] = "ready_to_migrate"
    BY <1>1 DEF IInv, RunInv
  <2>2. \A lock \in locked : lock[1] \in RunIds /\ phase'[lock[1]] # Absent
    BY <1>1 DEF IInv, RunInv, TypeOK, StoreTypeOK
  <2>3. RunInv'
    BY <1>1, <2>1, <2>2 DEF IInv, RunInv, HasSplit, chainVars, Built
  <2> QED
    BY <1>1, <2>1, <2>3 DEF IInv, SplitConfirmedBeforeReady, HasSplit, chainVars
<1>3. LocksRespected' /\ RecordedMeansAccepted'
  BY <1>1 DEF IInv, LocksRespected, RecordedMeansAccepted, chainVars
<1>4. \A u \in Threads : thr'[u] = IF u = th THEN Idle ELSE thr[u]
  BY DEF Return, IInv, TypeOK
<1>5. SigningInv'
  BY <1>1, <1>4, Nothing DEF IInv, SigningInv, At, Idle, chainVars, Built
<1>6. CarriedInv'
  BY <1>1, OnwardSame, CarriedReturn DEF IInv, CarriedInv, Polling
<1> QED
  BY <1>1, <1>2, <1>3, <1>5, <1>6, ChainFrame

LEMMA RecordPhaseIInv ==
  ASSUME IInv, NEW th \in Threads, RecordPrepPhase(th) \/ RecordTransferRefused(th)
  PROVE  IInv'
<1>1. TypeOK'
  BY TypeDeliveryStep DEF DeliveryStep, IInv
<1>2. CASE RecordPrepPhase(th)
  <2>1. thr[th].prepOf \in RunIds
    BY <1>2, ThreadMoves DEF RecordPrepPhase, IInv, CarriedInv, At
  <2>2. /\ SetPhase(thr[th].prepOf, "waiting_denom_confirmations", NoError)
        /\ Return(th) /\ UNCHANGED <<chainVars, job, poll>>
    BY <1>2 DEF RecordPrepPhase
  <2>3. "waiting_denom_confirmations" \in WrittenPhases \ {Absent, "ready_to_migrate"}
    BY DEF WrittenPhases, Absent
  <2> QED
    BY <1>1, <2>1, <2>2, <2>3, PhaseFrame DEF IInv
<1>3. CASE RecordTransferRefused(th)
  <2>1. PICK e : SetPhase(thr[th].run, "failed_recoverable", e)
    BY <1>3 DEF RecordTransferRefused
  <2>4. thr[th].run \in RunIds
    BY <1>3 DEF RecordTransferRefused, At, IInv, CarriedInv
  <2>2. Return(th) /\ UNCHANGED <<chainVars, job, poll>>
    BY <1>3 DEF RecordTransferRefused
  <2>3. "failed_recoverable" \in WrittenPhases \ {Absent, "ready_to_migrate"}
    BY DEF WrittenPhases, Absent
  <2> QED
    BY <1>1, <2>1, <2>2, <2>3, <2>4, PhaseFrame DEF IInv
<1> QED
  BY <1>2, <1>3

(* The active run is read; nothing is written yet.                         *)
LEMMA RecordRefusalBeginIInv ==
  ASSUME IInv, NEW th \in Threads, RecordRefusalBegin(th)
  PROVE  IInv'
<1>1. TypeOK'
  BY TypeDeliveryStep DEF DeliveryStep, IInv
<1>2. PICK r \in ActiveRuns : thr' = [thr EXCEPT ![th].pc = "refusing", ![th].run = r]
  BY DEF RecordRefusalBegin
<1>3. /\ UNCHANGED <<chainVars, storeVars, job, poll>>
      /\ thr[th].pc = "answered" /\ thr[th].answer \in {"InvalidNote", "Expired"}
      /\ thr[th].prepOf = NoRun
  BY DEF RecordRefusalBegin, Answered, At
<1>4. r \in RunIds /\ phase[r] # Absent
  BY DEF ActiveRuns, LiveRuns
<1>5. \A u \in Threads : u # th => thr'[u] = thr[u]
  BY <1>2 DEF IInv, TypeOK
<1>6. /\ thr'[th].pc = "refusing" /\ thr'[th].run = r
      /\ thr'[th].tx = thr[th].tx /\ thr'[th].prepOf = thr[th].prepOf
      /\ thr'[th].target = thr[th].target /\ thr'[th].answer = thr[th].answer
  <2>1. thr[th] \in ThreadStates
        /\ thr'[th] = [thr[th] EXCEPT !.pc = "refusing", !.run = r]
    BY <1>2 DEF IInv, TypeOK
  <2> QED
    BY <2>1 DEF ThreadStates
<1>7. SigningInv'
  <2>1. CASE th = App
    BY <2>1, <1>6 DEF SigningInv, At
  <2>2. CASE th # App
    BY <2>2, <1>3, <1>5, Nothing DEF IInv, SigningInv, At, chainVars, storeVars, Built
  <2> QED
    BY <2>1, <2>2
<1>8. CarriedInv'
  <2>1. Onward
    BY <1>3, OnwardSame DEF storeVars
  <2>2. UNCHANGED <<height, txs, phase, prep, poll>> /\ Built' = Built
    BY <1>3 DEF chainVars, storeVars, Built
  <2>3. thr'[th].target <= height'
    BY <1>6, <2>2 DEF IInv, CarriedInv
  <2>4. Polling' => poll'.run \in RunIds
    BY <2>2 DEF IInv, CarriedInv, Polling
  <2>5. /\ thr[th].tx \in Built
        /\ txs[thr[th].tx].kind = "transfer" => txs[thr[th].tx].sendAt <= height
        /\ thr[th].prepOf # NoRun => prep[thr[th].prepOf].tx = thr[th].tx
        /\ thr[th].answer # "Success"
    BY <1>3 DEF IInv, CarriedInv
  <2>6. /\ thr'[th].tx \in Built'
        /\ txs'[thr'[th].tx].kind = "transfer" => txs'[thr'[th].tx].sendAt <= height'
        /\ thr'[th].prepOf = NoRun /\ thr'[th].answer # "Success"
    BY <1>3, <1>6, <2>2, <2>5
  <2> QED
    BY <1>4, <1>5, <1>6, <2>1, <2>2, <2>3, <2>4, <2>6, CarriedMove
<1> QED
  BY <1>1, <1>3, <1>7, <1>8, StoreFrame DEF IInv

LEMMA RecordTransferSentIInv ==
  ASSUME IInv, NEW th \in Threads, RecordTransferSent(th)
  PROVE  IInv'
<1>1. TypeOK'
  BY TypeDeliveryStep DEF DeliveryStep, IInv
<1>2. /\ UNCHANGED <<chainVars, phase, prep, locked, job, poll>> /\ Return(th)
      /\ thr[th].pc = "answered" /\ thr[th].answer = "Success"
      /\ \A t \in TxIds : pending'[t] = IF t = thr[th].tx /\ pending[t] # Absent
                                        THEN "broadcasted" ELSE pending[t]
  BY DEF RecordTransferSent, MarkPending, Answered, At
<1>3. thr[th].tx \in accepted
  BY <1>2 DEF IInv, CarriedInv
<1>4. \A u \in Threads : thr'[u] = IF u = th THEN Idle ELSE thr[u]
  BY <1>2 DEF Return, IInv, TypeOK
<1>5. SigningInv'
  <2>1. CASE th = App
    BY <2>1, <1>4 DEF SigningInv, At, Idle
  <2>2. CASE th # App
    <3>1. thr'[App] = thr[App]
      BY <2>2, <1>4, Nothing
    <3> QED
      BY <3>1, <1>2 DEF IInv, SigningInv, At, chainVars, Built
  <2> QED
    BY <2>1, <2>2
<1>6. CarriedInv'
  BY <1>2, OnwardSame, CarriedReturn DEF IInv, CarriedInv, Polling
<1> QED
  BY <1>1, <1>2, <1>3, <1>5, <1>6, PendingFrame DEF IInv

LEMMA RecordNothingIInv ==
  ASSUME IInv, NEW th \in Threads, RecordNothing(th)
  PROVE  IInv'
<1>1. TypeOK'
  BY TypeDeliveryStep DEF DeliveryStep, IInv
<1>2. UNCHANGED <<chainVars, storeVars, job, poll>> /\ Return(th)
  BY DEF RecordNothing
<1> QED
  BY <1>1, <1>2, StoreFrame, ReturnFrame DEF IInv

LEMMA DeliveryStepIInv ==
  ASSUME IInv, NEW th \in Threads, DeliveryStep(th)
  PROVE  IInv'
  BY BroadcastIInv, RecordPrepSentIInv, RecordPhaseIInv, RecordTransferSentIInv,
     RecordNothingIInv, RecordRefusalBeginIInv DEF DeliveryStep

LEMMA AppStepIInv ==
  ASSUME IInv, AppStep
  PROVE  IInv'
  BY ProposeIInv, FailIInv, SignNoteSplitBeginIInv, SignNoteSplitBuildIInv,
     SignNoteSplitLockIInv, SignNoteSplitLockFailsIInv, RestartIInv,
     SignScheduleBeginIInv, SignTransferIInv, SignScheduleEndIInv DEF AppStep

-----------------------------------------------------------------------------
(* migration_state and the environment.                                    *)

LEMMA StateStepIInv ==
  ASSUME IInv, StateStep
  PROVE  IInv'
<1>1. TypeOK'
  BY TypeStateStep DEF IInv
<1>2. CASE StateBegin
  <2>1. UNCHANGED <<chainVars, storeVars, thr, job>>
    BY <1>2 DEF StateBegin
  <2>2. poll'.run \in RunIds
    BY <1>2 DEF StateBegin, ActiveRuns, LiveRuns
  <2>3. SigningInv'
    BY <2>1 DEF IInv, SigningInv, At, chainVars, storeVars, Built
  <2>4. CarriedInv'
    BY <2>1, <2>2, OnwardSame, CarriedReturn, Nothing DEF storeVars
  <2> QED
    BY <1>1, <2>1, <2>3, <2>4, StoreFrame DEF IInv
<1>3. CASE StateAdvances
  <2> DEFINE r == poll.run
  <2>1. /\ r \in RunIds /\ prep[r].tx \in mined
        /\ UNCHANGED <<chainVars, thr, job, prep, locked, pending>>
        /\ poll'.phase = Absent
        /\ phase' = [phase EXCEPT ![r] = "ready_to_migrate"]
    BY <1>3 DEF StateAdvances, SplitDone, SetPhase, Result, NoPoll, IInv, CarriedInv
  <2>2. \A s \in RunIds : phase'[s] = IF s = r THEN "ready_to_migrate" ELSE phase[s]
    BY <2>1 DEF IInv, TypeOK, StoreTypeOK
  <2>3. r \in RunIds /\ prep[r] # NoPrep
    BY <2>1 DEF IInv, ChainInv, Built, NoPrep
  <2>4. \A lock \in locked : phase'[lock[1]] # Absent
    BY <2>2 DEF IInv, RunInv, TypeOK, StoreTypeOK, Absent
  <2>5. RunInv'
    BY <2>1, <2>2, <2>3, <2>4 DEF IInv, RunInv, HasSplit, WrittenPhases, Absent, chainVars, Built
  <2>6. SplitConfirmedBeforeReady'
    BY <2>1, <2>2 DEF IInv, SplitConfirmedBeforeReady, HasSplit, chainVars
  <2>7. LocksRespected' /\ RecordedMeansAccepted'
    BY <2>1 DEF IInv, LocksRespected, RecordedMeansAccepted, chainVars
  <2>8. SigningInv'
    <3>1. At(App, "splitting") => job.run # r
      BY <2>3 DEF IInv, SigningInv
    <3>2. \A s \in RunIds : phase[s] # Absent => phase'[s] # Absent
      BY <2>2 DEF Absent
    <3> QED
      BY <2>1, <2>2, <3>1, <3>2 DEF IInv, SigningInv, At, chainVars, Built
  <2>9. CarriedInv'
    BY <2>1, <2>2, OnwardSame, CarriedReturn, Nothing DEF Polling, Absent
  <2> QED
    BY <1>1, <2>1, <2>5, <2>6, <2>7, <2>8, <2>9, ChainFrame DEF IInv
<1>4. CASE StateReconciles
  <2>1. /\ UNCHANGED <<chainVars, phase, prep, locked, thr, job>>
        /\ Polling /\ poll' = [poll EXCEPT !.totals = poll'.totals]
        /\ \A t \in TxIds : pending'[t] \in {pending[t], "confirmed"}
        /\ \A t \in TxIds : pending'[t] # pending[t] => t \in mined /\ pending[t] # Absent
    BY <1>4 DEF StateReconciles, MarkPending, SeenMined, TypeOK, IInv, Polls
  <2>2. poll'.run \in RunIds
    BY <2>1 DEF IInv, CarriedInv, TypeOK, Polls
  <2>3. SigningInv'
    BY <2>1 DEF IInv, SigningInv, At, chainVars, Built
  <2>4. CarriedInv'
    BY <2>1, <2>2, OnwardSame, CarriedReturn, Nothing
  <2> QED
    BY <1>1, <2>1, <2>3, <2>4, PendingFrame DEF IInv
<1>5. CASE StateReports
  <2>1. UNCHANGED <<chainVars, storeVars, thr, job>> /\ poll'.phase = Absent
    BY <1>5 DEF StateReports, Result, NoPoll
  <2>2. SigningInv'
    BY <2>1 DEF IInv, SigningInv, At, chainVars, storeVars, Built
  <2>3. CarriedInv'
    BY <2>1, OnwardSame, CarriedReturn, Nothing DEF Polling, storeVars
  <2> QED
    BY <1>1, <2>1, <2>2, <2>3, StoreFrame DEF IInv
<1> QED
  BY <1>2, <1>3, <1>4, <1>5 DEF StateStep

(* Blocks, confirmations and other wallets leave the tables alone; what    *)
(* was accepted or mined stays so.                                         *)
LEMMA EnvironmentIInv ==
  ASSUME IInv, Environment
  PROVE  IInv'
<1>1. TypeOK'
  BY TypeEnvironment DEF IInv
<1>2. /\ UNCHANGED <<txs, nextTx, accepted, storeVars, ctxVars>>
      /\ mined \subseteq mined' /\ height <= height'
      /\ mempool' \subseteq mempool
      /\ mined' \subseteq mined \cup mempool
      /\ matured' \subseteq matured \cup mined
  <2>1. ASSUME NEW t \in TxIds, Mine(t) \/ Mature(t)
        PROVE  /\ UNCHANGED <<txs, nextTx, accepted, height>>
               /\ mined \subseteq mined' /\ mempool' \subseteq mempool
               /\ mined' \subseteq mined \cup mempool /\ matured' \subseteq matured \cup mined
    BY <2>1 DEF Mine, Mature
  <2>2. ASSUME NEW n \in Notes \cup Genesis, NoteConfirms(n) \/ SpendElsewhere(n)
        PROVE  /\ UNCHANGED <<txs, nextTx, accepted, height, mined, matured>>
               /\ mempool' \subseteq mempool
    BY <2>2 DEF NoteConfirms, SpendElsewhere
  <2>3. ASSUME Tick
        PROVE  /\ UNCHANGED <<txs, nextTx, accepted, mined, matured>>
               /\ mempool' \subseteq mempool /\ height' = height + 1
    BY <2>3 DEF Tick
  <2>4. height \in Nat
    BY DEF IInv, TypeOK, ChainTypeOK
  <2> QED
    BY <2>1, <2>2, <2>3, <2>4 DEF Environment, ChainStep
<1>3. ChainInv'
  BY <1>2 DEF IInv, ChainInv, Built
<1>4. BatchDisjoint'
  BY <1>2 DEF IInv, BatchDisjoint, Transfers, storeVars
<1>5. SentInWindow'
  <2>1. \A t \in accepted : txs[t].sendAt \in Nat
    BY DEF IInv, ChainInv, Built, TypeOK, ChainTypeOK, TxBodies
  <2> QED
    BY <1>1, <1>2, <2>1 DEF IInv, SentInWindow, Transfers, TypeOK, ChainTypeOK
<1>6. RunInv' /\ SplitConfirmedBeforeReady' /\ LocksRespected' /\ RecordedMeansAccepted'
  BY <1>2 DEF IInv, RunInv, SplitConfirmedBeforeReady, LocksRespected, RecordedMeansAccepted,
     HasSplit, Built, storeVars
<1>7. SigningInv'
  BY <1>2 DEF IInv, SigningInv, At, Built, storeVars, ctxVars
<1>8. CarriedInv'
  <2>1. Onward
    BY <1>1, <1>2 DEF Onward, Built, storeVars, TypeOK, ChainTypeOK
  <2> QED
    BY <1>2, <2>1, CarriedReturn, Nothing DEF IInv, CarriedInv, Polling, ctxVars
<1> QED
  BY <1>1, <1>3, <1>4, <1>5, <1>6, <1>7, <1>8 DEF IInv

LEMMA StutterIInv ==
  ASSUME IInv, UNCHANGED vars
  PROVE  IInv'
<1>1. UNCHANGED <<chainVars, storeVars, thr, job, offer, poll>>
  BY DEF vars, ctxVars
<1>2. TypeOK'
  BY <1>1 DEF IInv, TypeOK, ChainTypeOK, StoreTypeOK, chainVars, storeVars
<1>3. SigningInv'
  BY <1>1 DEF IInv, SigningInv, At, chainVars, storeVars, Built
<1>4. CarriedInv'
  BY <1>1, OnwardSame, CarriedReturn, Nothing DEF IInv, CarriedInv, Polling, storeVars
<1> QED
  BY <1>1, <1>2, <1>3, <1>4, StoreFrame DEF IInv

LEMMA NextIInv == IInv /\ [Next]_vars => IInv'
<1> SUFFICES ASSUME IInv, [Next]_vars PROVE IInv'
  OBVIOUS
<1>1. CASE AppStep
  BY <1>1, AppStepIInv
<1>2. ASSUME NEW w \in Workers, NextDueTransfer(w) PROVE IInv'
  BY <1>2, NextDueTransferIInv
<1>3. ASSUME NEW th \in Threads, DeliveryStep(th) PROVE IInv'
  BY <1>3, DeliveryStepIInv
<1>4. CASE StateStep
  BY <1>4, StateStepIInv
<1>5. CASE Crash
  BY <1>5, CrashIInv
<1>6. CASE Environment
  BY <1>6, EnvironmentIInv
<1>7. CASE UNCHANGED vars
  BY <1>7, StutterIInv
<1> QED
  BY <1>1, <1>2, <1>3, <1>4, <1>5, <1>6, <1>7 DEF Next

-----------------------------------------------------------------------------
(* What a step may do to pending_txs: a row that was sent keeps a status    *)
(* of a sent row, because clear_scheduled_pending looks at the status and   *)
(* a signed row is always that of a transaction built just then.            *)
LEMMA SentRowsStep ==
  ASSUME IInv, [Next]_vars, NEW t \in TxIds, pending[t] \in {"broadcasted", "confirmed"}
  PROVE  pending'[t] \in {"broadcasted", "confirmed"}
<1> DEFINE Sent == {"broadcasted", "confirmed"}
<1>1. ASSUME NEW S, NEW status \in Sent, MarkPending(S, status)
      PROVE  pending'[t] \in Sent
  BY <1>1 DEF MarkPending
<1>2. ASSUME NEW runs, ClearScheduled(runs) PROVE pending'[t] \in Sent
  BY <1>2 DEF ClearScheduled
<1>3. ASSUME InsertPendingTx(nextTx) PROVE pending'[t] \in Sent
  <2>1. t \in Built /\ nextTx \in Nat
    BY DEF IInv, RunInv, TypeOK, ChainTypeOK, Absent
  <2>2. t # nextTx
    BY <2>1 DEF Built
  <2> QED
    BY <1>3, <2>2 DEF InsertPendingTx, IInv, TypeOK, StoreTypeOK
<1>4. ASSUME UNCHANGED pending PROVE pending'[t] \in Sent
  BY <1>4
<1>5. CASE AppStep
  <2>1. \/ UNCHANGED pending
        \/ InsertPendingTx(nextTx)
        \/ \E runs \in {{r} : r \in RunIds} : ClearScheduled(runs)
    BY <1>5 DEF AppStep, PrepareNoteSplit, SignNoteSplitBegin, SignNoteSplitBuild,
       SignNoteSplitFails, SignNoteSplitLock, SignNoteSplitLockFails,
       ProposeMigrationTransfers, ProposeImmediate, RestartCurrentStep,
       SignScheduleBegin, SignTransfer, SignScheduleFails, SignScheduleEnd,
       InsertRun, InsertPrepTx, InsertPreparedNotes, SetPhase, ActiveRuns,
       LiveRuns, storeVars
  <2> QED
    BY <2>1, <1>2, <1>3, <1>4
<1>6. ASSUME NEW th \in Threads, DeliveryStep(th) PROVE pending'[t] \in Sent
  <2>1. UNCHANGED pending \/ MarkPending({thr[th].tx}, "broadcasted")
    BY <1>6 DEF DeliveryStep, BroadcastAccepted, BroadcastNotAccepted, RecordPrepSent,
       RecordPrepPhase, RecordTransferSent, RecordNothing, RecordRefusalBegin,
       RecordTransferRefused, SetPrepBroadcasted, SetPhase, storeVars
  <2> QED
    BY <2>1, <1>1, <1>4
<1>7. CASE StateStep
  <2>1. UNCHANGED pending \/ MarkPending(SeenMined, "confirmed")
    BY <1>7 DEF StateStep, StateBegin, StateReconciles, StateAdvances, StateReports,
       SetPhase, storeVars
  <2> QED
    BY <2>1, <1>1, <1>4
<1>8. CASE \/ \E w \in Workers : NextDueTransfer(w)
           \/ Crash \/ Environment \/ UNCHANGED vars
  BY <1>8, <1>4 DEF NextDueTransfer, NextDueBegin, NextDueIsSplit, NextDueNoSplit,
     NextDueTarget, NextDueIsTransfer, NextDueNone, Crash, Environment, vars, storeVars
<1> QED
  BY <1>5, <1>6, <1>7, <1>8 DEF Next

-----------------------------------------------------------------------------
(* The theorems.                                                           *)

(* The inductive invariant holds of every behaviour of the facade.         *)
THEOREM Inductive == Spec => []IInv
<1>1. Init => IInv
  BY InitIInv
<1>2. IInv /\ [Next]_vars => IInv'
  BY NextIInv
<1> QED
  BY <1>1, <1>2, PTL DEF Spec

(* Every variable keeps its type: no call, in any interleaving, writes a   *)
(* row, a status or a local value that its readers do not know.            *)
THEOREM TypeCorrect == Spec => []TypeOK
<1>1. IInv => TypeOK
  BY DEF IInv
<1> QED
  BY <1>1, Inductive, PTL

(* A run that reads ready_to_migrate has seen its split mined, whatever    *)
(* thread wrote the phase, and from however old a read (context.rs:132).   *)
THEOREM ReadyAfterSplit == Spec => []SplitConfirmedBeforeReady
<1>1. IInv => SplitConfirmedBeforeReady
  BY DEF IInv
<1> QED
  BY <1>1, Inductive, PTL

(* No signed transaction spends a note another run holds locked, although  *)
(* a signing call reads the locks once and picks notes later.              *)
THEOREM NoForeignLockSpent == Spec => []LocksRespected
<1>1. IInv => LocksRespected
  BY DEF IInv
<1> QED
  BY <1>1, Inductive, PTL

(* The transfers of one signing call never compete for a note, however     *)
(* many there are and whatever is mined or sent while they are signed.     *)
THEOREM NoConflictInBatch == Spec => []BatchDisjoint
<1>1. IInv => BatchDisjoint
  BY DEF IInv
<1> QED
  BY <1>1, Inductive, PTL

(* The statuses in the tables never claim more than happened: broadcasted  *)
(* rows were accepted and confirmed rows were mined, through crashes, lost *)
(* replies, retries and late reports.                                      *)
THEOREM RecordsAreTrue == Spec => []RecordedMeansAccepted
<1>1. IInv => RecordedMeansAccepted
  BY DEF IInv
<1> QED
  BY <1>1, Inductive, PTL

(* No transfer is on the network before its scheduled height.              *)
THEOREM NeverEarly == Spec => []SentInWindow
<1>1. IInv => SentInWindow
  BY DEF IInv
<1> QED
  BY <1>1, Inductive, PTL

(* The row of a transfer recorded as sent stays recorded as sent, whatever  *)
(* is restarted or signed again (context.rs:517-526).                       *)
THEOREM SentRowsStay == Spec => SentRowsKept
<1>1. IInv /\ [Next]_vars =>
        [\A t \in TxIds : pending[t] \in {"broadcasted", "confirmed"}
                            => pending'[t] \in {"broadcasted", "confirmed"}]_vars
  BY SentRowsStep
<1> QED
  BY <1>1, Inductive, PTL DEF Spec, SentRowsKept
=============================================================================
