# TLA+ model of the ZODL Ironwood migration engine

The repository is a Rust crate that moves a wallet's Orchard balance into the
Ironwood pool.  The wallet app (the *platform*) drives it through one facade,
`MigrationContext`; the crate plans the transfers, pre-signs them, keeps the
signed transactions in SQLite tables, hands them out one at a time when they
are due, and works out from those tables and the wallet's scan what to tell the
user.  This directory holds TLA+ modules of that engine, TLC configurations
that check them on small instances, and TLAPS proofs that hold for any
instance.

Paths such as `context.rs:388` are relative to `src/src/`.

## 1. Inventory

| Component | Code | State it keeps | Operations |
|---|---|---|---|
| Facade | `context.rs` | none ("open and operate per call"): each call opens its own connections | `migration_state`, `prepare_note_split`, `sign_note_split`, `propose_migration_transfers`, `propose_immediate_migration_transfers`, `sign_and_store_migration_schedule`, `next_due_transfer`, `record_transfer_result`, `refresh_stale_transfers`, `restart_current_migration_step`, and read-only queries |
| Store | `store.rs` | tables `runs`, `prepared_notes`, `pending_txs`, `prep_tx` | one function per SQL statement, each autocommitted |
| Phase machine | `state.rs` | none (the phase is a column) | `as_str`/`parse`, `to_state` |
| Signing backend | `backend.rs` | none | balances, proposals under locks and reservations, `sign_schedule`, `sign_split`, proving |
| Note reservation | `reserved_source.rs` | the exclude list of one selection | a note source that hides locked and reserved notes |
| Note split | `split.rs` | none | input choice, output adjustment, PCZT construction |
| Denominations | `denominations.rs` | none | `plan_denominations` |
| Scheduling | `scheduling.rs` | none | `build_schedule` (send height, expiry), duration estimate |
| Types, errors | `types.rs`, `error.rs`, `lib.rs` | none | data carriers, FFI codes |
| Wallet and chain | not in the repository (`zcash_client_sqlite`, node, other devices) | notes, mined transactions, mempool, height | mining, confirmations, refusal of conflicting or expired transactions |

How they interact.  The platform calls the facade from several threads: a
foreground thread that proposes and signs, background deliveries that loop over
`next_due_transfer` / broadcast / `record_transfer_result`, and whatever polls
`migration_state`.  There is no lock, no in-memory state and no transaction
around a call, so the tables are shared between the statements of all calls.
What is on the chain reaches the engine only through the wallet database; what
the node answered reaches it only if the platform calls
`record_transfer_result`.  The engine never tells the wallet about what it
signed, so a note stays spendable in the wallet's eyes until a transaction
spending it is mined: the engine's own locks and reservations are the only
protection in between.

What is hard here:

- **interleaving**: `migration_state` reads the phase, asks the wallet, and then
  writes the phase; signing reads locks once and picks notes later; a result is
  recorded long after the transaction was handed out;
- **crash and partial failure**: `sign_note_split` inserts the run, then the
  split, then one lock row per note; `sign_schedule` stores each transfer as it
  is signed;
- **unreliable delivery**: a broadcast whose reply is lost is sent again, maybe
  after it was mined;
- **ordering**: late results, results for another run, a wall clock that steps
  back between two runs;
- **check and use**: `next_due_transfer` looks for the split, opens the wallet and
  then looks for a due row, and both may be stored in between;
- **staleness**: the spendable balance is used for "the split is spendable" and
  for "nothing is left to migrate".

`PROJECT.json` lists each hazard at its line with the properties aimed at it.
What makes each component correct: the store's rows never claim more than the
chain did; the facade never advances a run prematurely, never sends a transfer
too early, never loses a sent row, never announces a false completion; the
backend never lets transfers of one signing compete nor takes another run's
prepared notes; the planner cuts a balance as well as it can be cut, a planned
split can be built, and the transfers of a schedule have windows of their own.  And the whole gets somewhere:
the app's loop brings a migration to Complete, or to one of a few named dead
ends.

## 2. Modules

```
WalletChain <- MigrationStore <- MigrationContext <- MigrationProperties <- MCMigration     (TLC)
                                                      |                  <- MigrationProofs (TLAPS)
                                          INSTANCE Delivery                  <- DeliveryProofs
                                                      |                      <- ReservationProofs
                                                      |                      <- CompletionProofs
                                                      |                             <- AppProofs
                                                      <- MigrationApp    <- MCApp           (TLC)
                                                                         <- AppProofs       (TLAPS)

Denominations, Scheduling, NoteSplit <- MigrationValues <- MCValues                         (TLC)
                                                        <- ValueProofs                      (TLAPS)
NoteSplit <- SumProofs <- DecompositionProofs <- ValueProofs                                (TLAPS)
```

**`WalletChain`** (external).  Transactions are numbered in the order they are
built; `txs[t]` is the immutable content of a signed transaction (its run, the
notes it spends, its outputs, send height, expiry).  `mempool`, `accepted`,
`mined`, `matured` say how far it got.  Notes are outputs; the initial notes are
outputs of "transaction 0", some of which may still lack confirmations
(`late`).  The environment mines (`Mine`), confirms (`Mature`, `NoteConfirms`),
advances the height and drops what expired (`Tick`), and may once spend a note
from another device (`SpendElsewhere`).  `Spendable` is what `pool_balances`
and the input selectors see; `CanEnter` and `Refusals` are the node's answers.

**`MigrationStore`** (`store.rs`, the phases of `state.rs`).  One variable per
column that changes: `phase`, `createdAt`, `lastError` (runs), `prep` (prep_tx),
`locked` (prepared_notes), `pending` (status of pending_txs).  One operator per
query (`ActiveRuns`, `LockedByOthers`, `BroadcastedOf`, `NextDue`) and one per
statement (`InsertRun`, `SetPhase`, `InsertPrepTx`, `SetPrepBroadcasted`,
`InsertPreparedNotes`, `InsertPendingTx`, `MarkPending`, `ClearScheduled`).

**`MigrationContext`** (`context.rs` and what it drives).  Adds the calls in
progress: `thr[th]` (where a thread is, what `next_due_transfer` or
`record_transfer_result` has read there, and the transaction it carries), `job`
(the locals of the App's signing call), `offer` (the proposal the user has been
shown), `poll` (the locals of `migration_state`, then its result).  A call is
cut at its writes, and between a read and the use of what was read:

| Call | Actions |
|---|---|
| `prepare_note_split` | `PrepareNoteSplit` |
| `sign_note_split` | `SignNoteSplitBegin` (insert_run), `SignNoteSplitBuild` (selection, build, insert_prep_tx) or `SignNoteSplitFails`, `SignNoteSplitLock` (insert_prepared_notes, return) or `SignNoteSplitLockFails` (some of its rows) |
| `propose_migration_transfers` / `propose_immediate_...` | `ProposeMigrationTransfers` / `ProposeImmediate` |
| `sign_and_store_migration_schedule` | `SignScheduleBegin`, `SignTransfer` per transfer or `SignScheduleFails`, `SignScheduleEnd` |
| `restart_current_migration_step`, `refresh_stale_transfers` | `RestartCurrentStep`; the refresh then signs as above |
| `next_due_transfer` | `NextDueBegin` (active_run), `NextDueIsSplit` (prep_tx, handed out) or `NextDueNoSplit`, `NextDueTarget` (wallet opened, target height), `NextDueIsTransfer` or `NextDueNone` (the due row); together `NextDueTransfer` |
| broadcast by the platform | `BroadcastAccepted`, `BroadcastNotAccepted` |
| `record_transfer_result` | `RecordPrepSent` then `RecordPrepPhase`; `RecordTransferSent`; `RecordRefusalBegin` (active_run) then `RecordTransferRefused` (set_phase); `RecordNothing` |
| `migration_state` | `StateBegin`, `StateReconciles`, then `StateAdvances` or `StateReports` |
| the process dies | `Crash` |

What stays in one step, and why:

- the selection of notes, the building and the storing of one transaction
  (`SignNoteSplitBuild`, `SignTransfer`).  Only the App signs, and a selection
  reads the wallet, not the tables.  A block that arrives between selection and
  insert meets a transaction that is not stored yet, so it could as well have
  arrived after the insert.  (That the wallet may have selected a note which is
  spent by the time of the insert is covered: nothing checks it later either, and
  a note may be spent as soon as the insert is done);
- the proposals, which read height and balance and write nothing; and
  `RestartCurrentStep`, which deletes the rows and then proposes.  The offer is the
  App's own, and a later balance is what the next proposal would have seen;
- `active_run` with what `SignScheduleBegin` and `SignNoteSplitBegin` do about it:
  only the App inserts runs, and no phase is terminal, so the active run does not
  change in between.  `RecordPrepSent`, `RecordTransferSent` and `RecordNothing` ask
  only whether there is an active run, and once there is one there always is;
- `StateBegin`, one SELECT.  `StateReconciles` reads the sent rows, marks those seen
  mined one after another and counts.  The marks are invisible to all but the
  readers of counts; a late Success that hits a row between its mark and the count
  makes that one poll answer InProgress, which the model reaches by a poll that
  begins before the block.  `StateAdvances` and `StateReports` read what only grows (the split
  is mined) and then the balance, whose reading is the moment of the step.

**`MigrationProperties`** states the properties and the inductive invariant
`IInv`; **`MCMigration`** holds the wallets of the TLC instances;
**`MigrationProofs`** the theorems.  Operators commented "Mutant" are plausible
bugs: each property is broken by one of them, so none holds vacuously.

**`Delivery`** is the abstract specification: the life of a signed transaction
without threads, calls, heights and notes.  A run's split is the first
transaction it signs; a transfer is sent only after its run's split, but for the
few (`Slack`) that were asked for before there was a split; a record says
*broadcasted* only of what the node took and *confirmed* only of what is mined;
only an unsent record is discarded.  `Slack` is the number of workers: each can
be ahead of the split once (`context.rs:397-408`).  `MigrationProperties` maps
the detailed state to it (`Promise`: owners and splits from `txs` and `prep`,
records from `pending`, the network from `accepted`, the chain from `mined`) and
`DeliveryKept` says that `MigrationContext` implements it.

**`MigrationApp`** composes `MigrationContext` with the app it was written for.
`MigrationContext` allows every call at any time; the app calls
`migration_state` "on launch and after every operation" (`context.rs:94`), and
offers the one operation its answer calls for: the split when told NotStarted
and `is_note_split_needed`, the schedule when told ReadyToPropose, a restart when
told RequiresAttention or when `has_invalid_transfers`; the user confirms, the
signing call runs, deliveries go on in the background, and the operating system
may kill the app (`MaxCrashes` times) between any two statements.  `fresh` says
that the last answer is not older than the last operation.

**`Denominations`**, **`Scheduling`**, **`NoteSplit`** hold the pure functions of
the files of the same names, and **`MigrationValues`** the money of one migration
made of them: plan, split (with a payment received in between), replanning,
schedule, signing transfer by transfer, or the immediate sweep.  Amounts are
units of 5000 zatoshi, the marginal fee: every constant of the code is a multiple
of it (`Unit` = 20000, `Buffer` = 4, `FeeEstimate` = 2).  Balances need not be
multiples, but nothing in the code looks at the rest.  The builder's shuffle
(`Placements`), its exact-fee check, the input selector and the fee of a transfer
are external.

### Modelling decisions

- *Values are units* in `MigrationContext`.  One unit is the smallest denomination with its fee
  buffer; a wallet holds fewer than ten, so every denomination is one unit.  A
  note worth 0 is dust.  Fees below a unit are dropped; the split's last output
  absorbs the difference between inputs and plan, as
  `adjust_outputs_for_exact_balance` makes it do, and may become dust.
- *Callers are general.*  The facade does not check who calls what in which
  order, so any call is possible whenever its own early returns allow it, by one
  foreground thread (two concurrent signings are not modelled) and any number of
  delivery workers.  `Calls` narrows an instance to the calls it is about.
- *Pollers do not overlap each other*; they overlap everything else.
  `StateReconciles` marks all seen-mined rows and counts them in one step.
  Errors of `migration_state` amount to a step that is delayed.
- *Proposals* are consumed when signing starts; to sign again the platform
  proposes again.
- *The clock* stamps a run with any value of `Stamps`, in any order.
- *Faults* are named in `Faults`: `crash`, `lost_reply`, `unreachable`,
  `sign_error` (a proof, witness, key or database error while signing or
  proposing), `lock_error`, `elsewhere`.
- *Locks shadow selections.*  The selector is told which notes are reserved, but
  locked ones are only dropped from what it returned (`reserved_source.rs:91`).
  What is left may not cover the amount although other notes would: the selector
  asks again, gets the same notes, and gives up (`SelectionFails`).
- *Anchors* are not modelled: a missing witness is a `sign_error`.
- *Read-only calls* change nothing and are no actions; `is_note_split_needed` and
  `has_invalid_transfers` choose the screens of `MigrationApp`.
- *Reorganisations* are not modelled: the engine never un-marks a row.

## 3. Runs

| Run | What it shows |
|---|---|
| `MCSplit` | Two runs split one wallet while signing is interrupted, fails half way or its locks do, the split is sent by the App and by a worker, the clock steps back: `TypeOK`, `SplitConfirmedBeforeReady`, `RecordedMeansAccepted` |
| `MCTwoRuns` | Two runs split and sign transfers against one balance, while the node is not reached or its replies get lost, and a delivery is under way while a split and then transfers are stored: `LocksRespected`, `PreparedNotesReserved`, `FewOvertake`, the proofs' `IInv`, and the refinement `DeliveryKept` |
| `MCSchedule` | Two-transfer schedules signed, interrupted, restarted, and confirmed by `migration_state`, while two deliveries carry the same transfers over a bad network and report as late as they like: `BatchDisjoint`, `SentInWindow`, `RecordedMeansAccepted`, `SentRowsKept`, `DeliveryKept` |
| `MCComplete` | Signing, sending, mining and foreign spends between the reads of `migration_state`: `CompleteMeansMigrated` |
| `MCApp` | The app's loop, killed once anywhere, over a network that loses replies or is unreachable, while transactions expire: `OneMigration`, `TransfersAfterSplit`, the proofs' `AppInv`, and the liveness property `MigrationCompletes` |
| `MCAgain` | A second note confirms at any time, even after Complete; killed once, replies lost: `MigrationCompletes` again |
| `MCValues` | The money: plan, split, schedule, signing, sweep, for one or two notes around the values where plans change, a cap of nine notes, heights that run out |
| `MCTransferBeforeConfirm`, `MCOtherNoteMatures`, `MCRetriedTransfer`, `MCSplitWithoutLocks`, `MCUnrecordedSplit` | The five disagreements of section 5; TLC must find each |

Bounds. `MaxTx` (1 to 4 transactions), `MaxNotes` (1 or 2 outputs), `MaxHeight`
(1 or 2), `MaxMoney` (1 or 2 units), two runs where two are needed, one worker
next to the App, or two where two deliveries of one transfer matter. Two
transfers are enough for two to compete for a note; two runs for a lock to
matter or a result to hit the wrong run; two threads for one split to be sent
twice; height 1 with cadence 1 and window 0 for the second row of a schedule to
be not yet due and due, and for the first to be due and expired. In the app's
runs the cadence is 0 too, so that height 2 suffices for a transfer to expire
and one to follow it; one crash, because each dead end needs at most one. A user
who confirms a proposal the instance has no ids left for ends a behaviour
(`OutOfIds`). `MCComplete` takes two notes, one of which confirms late, so that
two transfers compete for one note, and the loser of a race is told from a
transfer still to come. `MCValues` takes the values one below, at and one above
what one, two and ten notes cost with the fee, a balance that is cut into five
notes and the payment that turns those into one of ten; its cap is 9 instead of
64 and its largest height 3000 instead of 2^32 - 1, so both are exceeded.
`SmallSplits` is a state constraint: larger splits are planned, and their plans
checked, but not signed, for the builder has (n + k)!/n! ways to place k
outputs. Deadlock is checked in every run but `MCValues`, where a signed
schedule is the end: elsewhere a call that only proposes or reads is always
possible. The theorems of section 6 have no bounds on runs, workers or
transactions.

Fairness.  The safety properties assume none: a platform that stops calling is
allowed.  `AppSpec` states it, action by action:

- weak fairness of the app's own loop: `migration_state`, fetching, broadcasting
  and recording.  The code gives the app nothing to wait for in these calls, and
  `context.rs:94` and the doc of `next_due_transfer` ask the platform to make
  them;
- strong fairness of the foreground, which is enabled only between polls: the
  user confirms what is offered sooner or later;
- strong fairness of broadcasts that are answered: the network works from time to
  time, so a thread that keeps trying (`context.rs:457`, "leave scheduled for
  retry") gets through.  An answer may be lost each time the fault is allowed,
  but not for ever;
- weak fairness of mining each transaction of the mempool, of confirmations and of
  the height.  A transaction may still expire first: the height is not held back
  for it.

Crashes, expiry, other devices and lost replies are never forced.

## 4. The properties

*Invariants.*
`SplitConfirmedBeforeReady`: a run with a split reads `ready_to_migrate` only
once the split is mined, although the phase is written from an old read.
`LocksRespected`: nobody's transaction spends a note that another run has
locked.  `PreparedNotesReserved`: nor any output of another run's split, locked
yet or not (this one needs the locks to be written: it is checked without
crashes, and refuted with them).  `FewOvertake`: while a run's split was not
recorded as sent, no more of its transfers are on the network than there are
delivery workers.  The comment at `context.rs:396` promises that there is none, and
one there can be (section 5, at its end); but a worker that has sent it looks for the split
again before it is handed another.  `BatchDisjoint`: transfers of
one signing call share no note.  `SentInWindow`: none on the network before its
send height.  `RecordedMeansAccepted`: rows are true.

*Action properties.*  `SentRowsKept`: no step deletes a sent row or makes it
scheduled again.  It does not say that a confirmed row stays confirmed, and with
two deliveries it need not: one reports late, and `mark_pending_status` writes
`broadcasted` over `confirmed` (`context.rs:455`).  `MCSchedule` has that step;
the row is still true, and the next `migration_state` confirms it again.
`CompleteMeansMigrated`: when Complete is
announced, nothing is spendable in Orchard and each transfer of the run is
mined, or can never be because its note was spent by a mined transaction or from
elsewhere.  (The middle case is real: signing a schedule a second time leaves two
rows for one note, of which the totals, read first, knew only one.)

*Refinement.*  `DeliveryKept`, see `Delivery` above.

*Of the app.*  `OneMigration`: the app never has two live runs, so the refusal
that stops "the active run" (`context.rs:461`) stops the run the transfer belongs
to.  `TransfersAfterSplit`: no transfer is signed unless its run's split is mined,
which holds in the app although the engine does not insist (section 5, 1).
`MigrationCompletes`: once a run exists, the app is eventually told Complete,
or the tables are in one of six states out of which the code has no way:

| Dead end | How one gets there |
|---|---|
| `SplitNeverSigned` | killed, or signing failed, after `insert_run` (`context.rs:254`): the run has no split, reads SplitPendingConfirmation for ever (`types.rs:126` calls that "submitted"), and bars a new one |
| `SplitNeverRecorded` | the split is mined, its Success never recorded: its row stays pending and blocks the transfers (`MCUnrecordedSplit`) |
| `SplitLost` | the split expired or lost its notes unmined; nothing signs it again |
| `TransferLost` | a transfer was recorded as sent and then dropped by the network; nothing gives up its row |
| `PhaseBehind` | a transfer was mined and nothing is left to migrate, while the phase is still that of the split: signing was interrupted before `set_phase` (`context.rs:375`), or a late second success for the split moved the run back (`context.rs:449`), maybe after a restart cleared the rows |
| `NothingToRestart` | a transfer refused because it is mined already leaves the run failed, and an empty schedule cannot be signed |

All other interruptions are recovered from: an expired head of the queue is
refused and the run restarted, a schedule cleared but not signed again is found by
`has_invalid_transfers`, a late note is migrated by the same run.

*Of the money* (`MCValues`).  `PlanIsBest`: the greedy decomposition moves as much
as any choice of self-funding notes, in as few notes, and is refused exactly when
that is above the cap.  A choice of notes is counted by the decimal digits of what
it moves (`DigitSum`); that no sequence of powers of ten is shorter is proved
(`NoBetterChoice`).  `PlannedSplitBuilds`: a plan that is not empty can be built
with the exact fee, whatever was received since.  `SplitSurvivesReplanning`:
the proposal after the split is the plan the split was made for if the residue
paid its fee, and less otherwise.  `WindowsApart`, `DurationCovers`: the
schedule's heights and the estimate shown.  `FirstTransferFunded`: whatever the
selector picks, the first transfer can be paid, but for one case: a payment that
arrives between plan and signing turns, say, the plan of five ones into one of a
single ten, which takes all five notes and pays a fee for each, while the new plan
has set aside the buffer of one.  `UniformScheduleSigns`: with nothing received and
a schedule of one denomination that notes were prepared for, all transfers can be
paid.  (The qualification is needed: a note of ten whose residue does not pay the
split is offered as nine of one, and the first of them takes the note.)
`SweepTakesAll`: the immediate transfer leaves nothing.

## 5. Where the code differs from its comments

Each is a run whose one property states the comment, and which TLC refutes:

1. `MCTransferBeforeConfirm` - `context.rs:396` "must broadcast and confirm
   before any transfer": only the broadcast is required.
2. `MCOtherNoteMatures` - `context.rs:141` "the split's change notes must also be
   SPENDABLE": any spendable note satisfies the check.
3. `MCRetriedTransfer` - `types.rs:141` "spent externally": a lost reply and a
   retry give the same verdict on a transfer that was mined.
4. `MCSplitWithoutLocks` - `store.rs:294` "keep other migration operations off
   them": split and locks are stored separately, and a crash separates them.
5. `MCUnrecordedSplit` - `context.rs:131` "a broadcast whose result wasn't
   recorded still advances", `types.rs:132` "the app must act": the run advances
   but its transfers are never handed out, and the app is told InProgress.

Also seen while modelling, and not runs: of the comment at `context.rs:396` not even
the broadcast is certain, for a delivery that looked for the split while it was
still being proved (`context.rs:397`) is handed a transfer that was stored after
it (`:408`), and sends it with the split still pending (`FewOvertake` and
`OvertakeInv` say how often); no code writes a terminal phase, so a
completed run remains the active run and keeps its locks, whatever
`store.rs:295` says of their release; signing a schedule again after an
interruption picks the notes of the rows already stored, so a run can hold
scheduled rows that exclude each other (`backend.rs:414`); Complete looks at
the *spendable* balance, so it may be announced while an Orchard note still
lacks confirmations (`context.rs:162`).  The value model adds: the proposal that
follows a split reserves `FEE_ESTIMATE_ZATOSHI` a second time (`context.rs:296`),
so a split whose residue did not pay its fee is followed by a schedule one
denomination short, or by an empty one, which cannot be signed; the residue and
any payment received before signing go into the last prepared note
(`split.rs:107`) although `denominations.rs:12` says that dust stays in Orchard as
change; the selector picks any notes that cover a transfer, so a schedule of
several denominations may fail to sign half way (`backend.rs:417`).

## 6. Proofs

`MigrationProofs`, `DeliveryProofs`, `ReservationProofs` and `CompletionProofs` prove of `MigrationContext`,
under the assumptions declared with the constants
(finite bounds are positive, `NoRun` is no run, the App is no worker, a wallet
below ten units; nothing about faults, fairness, the number of runs, workers or
transactions):

| Theorem | States |
|---|---|
| `Inductive` | `Spec => []IInv` |
| `TypeCorrect` | `Spec => []TypeOK` |
| `ReadyAfterSplit` | `Spec => []SplitConfirmedBeforeReady` |
| `NoForeignLockSpent` | `Spec => []LocksRespected` |
| `NoConflictInBatch` | `Spec => []BatchDisjoint` |
| `RecordsAreTrue` | `Spec => []RecordedMeansAccepted` |
| `NeverEarly` | `Spec => []SentInWindow` |
| `SentRowsStay` | `Spec => SentRowsKept` |
| `FewTransfersOvertake` | `Spec => []FewOvertake` |
| `ImplementsDelivery` | `Spec => DeliveryKept`, with as much slack as there are workers |
| `NotesReserved` | without the faults `crash` and `lock_error`, `Spec => []PreparedNotesReserved` |
| `CompleteIsMigrated` | `Spec => CompleteMeansMigrated` |

`AppProofs` proves, of `MigrationApp`, under the same assumptions:

| Theorem | States |
|---|---|
| `AppImplementsEngine` | `AppSpec => Spec`: whatever holds of the engine for arbitrary callers holds in the app |
| `AppInductive` | `AppSpec => []AppInv` |
| `OneMigrationAtATime` | `AppSpec => []OneMigration` |
| `TransfersFollowSplit` | `AppSpec => []TransfersAfterSplit` |

`ValueProofs` proves, of `MigrationValues`, for every value of its constants:

| Theorem | States |
|---|---|
| `OwnWindows` | `Spec => []WindowsApart` |
| `DurationIsRight` | `Spec => []DurationCovers` |
| `SweepSpendsAll` | `Spec => []SweepTakesAll` |
| `SplitSurvivesAgain` | `Spec => []SplitSurvivesReplanning` |
| `PlannedSplitIsBuilt` | if `FeesSmall`, `Spec => []PlannedSplitBuilds` |
| `FirstTransferIsFunded` | if `FeesSmall`, `Spec => []FirstTransferFunded` |
| `UniformIsSigned` | if `FeesSmall` and a buffer pays for a transfer, `Spec => []UniformScheduleSigns` |
| `PlanIsOptimal` | `Spec => []PlanIsBest` |

`DecompositionProofs` proves, of the algorithm alone, for every unit and buffer:

| Theorem | States |
|---|---|
| `NoBetterChoice` | of all sequences of denominations whose notes a budget pays for, none moves more than its `Decomposition`, and none that moves as much is shorter |

`FeesSmall` says that a transfer of one note costs no more than the buffer and the
estimate, and that the largest split and the largest transfer together cost less
than a unit.  With the code's constants this is a wallet of fewer than some 19,800
notes; `MCValues` checks it of its instance (`RealFees`), and that a buffer pays for
a transfer.  Without it the
properties are false: enough tiny notes eat up the plan.

The argument.  None of the five safety properties in `IInv` is inductive: each depends on
what a call in progress still believes.  `IInv` adds, in named parts,

- `ChainInv`: mined and mempool transactions were accepted, ids are given once,
  and a transaction spends outputs of older ones.  So a split's fresh outputs
  cannot already be spent when they are locked (`LockOutputsIInv`);
- `RunInv`: no terminal phase is ever written, and splits, locks, rows and
  transactions belong to runs that exist.  So a locked note's run is always
  live, and reading the locks really excludes it (`LocksOfOthers`), and a run
  about to get its split has no transfer that might already be out;
- `SigningInv`: what a signing call read at its start (the notes it may take,
  its batch) is still right when it picks notes: no lock of another run can
  appear on them and no transfer of the batch has taken them, because there is
  one signing thread;
- `CarriedInv`: the run and height a delivery has read exist and are not ahead of the
  chain, what is in a thread's hands was due when it was handed out, a split is in
  the hands of its own run, and a "Success" in hand is a fact.

The layout: types first (`Type...` lemmas, an action each), then frame lemmas
(`ChainFrame`, `StoreFrame`, `ReturnFrame`, `PendingFrame`, `PhaseFrame`) for
what an action does not touch, one `...IInv` lemma per action, `NextIInv`, and
the theorems.  `SentRowsStay` is a step lemma (`SentRowsStep`) under the
invariant: a signed row is that of a transaction just built, which has no row.

`ImplementsDelivery` shows, under `IInv`, that each action is a step of `Delivery`
under the mapping or changes nothing it sees: building a split or a transfer is
`SignSplit` or `SignTransfer` (the transaction built is nobody's yet, and
`SigningInv` says that a run getting its split has no transaction),
`BroadcastAccepted` is `Send`, recordings
are `ReportSplit` and `Report` (`CarriedInv`: a Success in hand is a fact),
`StateReconciles` is `Confirm`, `RestartCurrentStep` is `Discard`.  That the `Send` of a
transfer is allowed rests on `OvertakeInv`: while a run's split is pending, the
transfers of the run that are on the network and the deliveries that are still ahead
of the split (`Ahead`: past the look at its row, or with a transfer in hand) are
together no more than the workers.  Only a worker becomes ahead, and only while there
is no pending split, when the count does not matter; when a split is stored no
transfer of the run exists and at most all workers are ahead; sending a transfer
moves one from the second number to the first (`Overtaken`).  `FewTransfersOvertake`
follows.

`NotesReserved` adds to `IInv` that the outputs of a stored split are all locked,
or the signing thread is about to lock them (`OutputsLocked`).  A signing call then
finds every output of another run's split among the locks it read; a lock is never
released.  The hypothesis is what `MCSplitWithoutLocks` shows to be needed.

`CompleteIsMigrated` rests on the order of the reads.  A transaction
spends at least one note, and only notes that were spendable when it was built
(`SpendsInv`); spendable notes stay so until something mined spends them; so the
empty balance, which is read last, means that every note of every transfer is
spent, whatever was signed or reported since the totals were read.  What the
totals saw stays recorded (`CountInv`), so the run does have transfers.

`AppImplementsEngine` is by cases: every step of the app's loop is a step the
facade allows, or changes only `fresh`.  `AppInv` then says what the app gains by
asking first: one run at most (`OneRun`), which is past its split only when that
is mined (`RunsInOrder`), and an offer, a signing call or an answer still true when
it is used (`OffersInOrder`, `AnswersInOrder`).  It is inductive only together with
`IInv`.

The theorems about money need facts about sums and about the decomposition, which
is recursive.  The library's induction theorems take an operator as a parameter,
which no prover here can instantiate; instead `SumProofs` and `DecompositionProofs` argue by least
counterexample: a set of counterexamples that is not empty has a smallest element,
which the recursive equation contradicts.  `SumProofs` shows what `SumOf` does when
an element is added, changed or renamed.  `DecompositionProofs` shows first that
functions satisfying the recursive definitions exist (a `CHOOSE` says nothing
otherwise), then that the inner loop finds the largest denomination that fits
(`Largest`), that a decomposition costs no more than its budget and starts with the
largest denomination (`DecompositionSound`), that a smaller budget gives the
same plan if it covers its cost and a smaller one if not (`Replanned`), and that the
plan is the best of its budget.  The last goes by `DigitSum`, which is shown to exist
in the same way: the largest denomination is a power of ten whose next does not fit
(`LargestPower`), so taking it from any affordable amount that reaches it takes one
off the digit sum (`PriceOfPower`) and leaves an amount the rest of the budget affords
(`BestPrepended`); and a power more adds at most one to a digit sum
(`OneMoreNote`), so no sequence of powers is shorter than the digits of its sum
(`NotesMove`).

`ValueProofs` needs an invariant for each group: the schedule is one that
`BuildSchedule` made for its target (`WindowInv`, `ShapeInv`; the windows are
apart by monotonicity of saturated sums, and the estimate is a rounded-up
quotient); the sweep's amount is what
all notes are worth less their fee (`SweepInv`; since each note is worth more than
the marginal fee, fewer notes never cover it); and `PlanInv`, that the plan is the
decomposition of the balance it was made for, that the prepared notes are as many
as planned and worth the balance less the split's fee, and that a schedule starts
with the largest denomination of what is left.  `UniformIsSigned` adds that the
notes are the planned ones but for the last (`PreparedInv`), so that there are as
many notes that each pay for a transfer as there are transfers (`ManyCanPay`, from
`UniformPrefix`: of two budgets, the larger starts with as many notes of the
denomination); and that each signature uses up at most one of them (`UniformInv`),
since a selection that holds one needs no other, and the selector takes no note it
can do without.

Two facts about the text of the modules matter to the provers.  `Spendable` has
parentheses around `UNION {...}`, since TLC and TLAPS read `UNION A \cup B`
differently.  And the statements of `CompleteMeansMigrated`, `FirstTransferFunded`
and `UniformScheduleSigns` each carry an exception that larger instances of their
runs, made while proving, showed to be needed.

Model-checked only: `MigrationCompletes`, because liveness under fairness is beyond
the prover, and the five refuted properties.

## 7. Not modelled

Proving, keys and PCZT encoding (no migration state; their failures are
`sign_error`); serde types, error codes and FFI values (`types.rs`, `error.rs`,
`lib.rs`: data carriers without behaviour); `migration_progress`,
`has_overdue_transfers` and `is_sync_required_before_next_transfer`, which only
read, for display; schema creation (`store::init`, `initialize_post_upgrade`); reorganisations
(the engine never un-marks a row); two foreground threads signing at once;
overlapping polls; a wallet note of Sapling or of a value that is no multiple of
5000 zatoshi.

## 8. What could follow

1. Reorganisations, overlapping polls, two foreground threads: which properties
   survive.
2. `MigrationValues` composed with `MigrationContext`: schedules of several
   denominations whose signing is interrupted.

## 9. Running

```
tlc -workers 2 -config MCSplit.cfg MCMigration
tlc -workers 2 -config MCApp.cfg MCApp
tlc -workers 2 -config MCValues.cfg MCValues
tlapm MigrationProofs.tla        # and the other ...Proofs modules
```

Each passing run takes up to four minutes (a quarter of a million to 1.8 million distinct states), each
refuting run seconds, and the proofs a few minutes from scratch.
