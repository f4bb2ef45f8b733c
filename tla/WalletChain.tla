----------------------------- MODULE WalletChain -----------------------------
(***************************************************************************)
(* The world the migration engine runs against, modelled from how src/     *)
(* uses it: the chain, the mempool of the node the platform broadcasts to, *)
(* and the wallet database of zcash_client_sqlite (which notes it counts   *)
(* as spendable Orchard notes, which transactions it has seen mined, the   *)
(* current target height).  None of this code is under src/: the module is *)
(* external, except for the value a transaction's outputs have, which the  *)
(* engine's note split decides.                                            *)
(*                                                                         *)
(* Values are counted in units: one unit is the smallest self-funding      *)
(* denomination (1 ZEC plus its fee buffer), a note may hold some more     *)
(* than its whole units, and a note worth 0 is dust, spendable but too     *)
(* small to pay for its own crossing.  A wallet holds fewer than ten       *)
(* units, so that every planned denomination is one unit.                  *)
(***************************************************************************)
EXTENDS Naturals, Sequences, FiniteSetsExt

CONSTANTS
    RunIds,        \* run ids (UUIDs) the engine may draw
    NoRun,         \* "no run"
    MaxTx,         \* bound: transactions ever built
    MaxNotes,      \* the cap on prepared notes per run (64 in the code)
    MaxMoney,      \* bound on the value of the wallet, in units
    MaxHeight,     \* bound on the target height
    GenesisWorth,  \* worth of the notes the wallet starts with, a sequence
    LateNotes,     \* those of them that lack confirmations at the start
    Faults         \* the environment faults of this instance

Fault == {"crash", "elsewhere", "lost_reply", "unreachable", "sign_error",
          "lock_error"}

ASSUME ChainAssumption ==
    /\ NoRun \notin RunIds
    /\ MaxTx \in Nat \ {0}
    /\ MaxNotes \in Nat \ {0}
    /\ MaxMoney \in 1..9
    /\ MaxHeight \in Nat \ {0}
    /\ Len(GenesisWorth) \in 0..MaxNotes
    /\ \A i \in 1..Len(GenesisWorth) : GenesisWorth[i] \in 0..MaxMoney
    /\ LateNotes \subseteq 1..Len(GenesisWorth)
    /\ Faults \subseteq Fault

TxIds == 1..MaxTx
NoTx == 0

(* A note is an output of a transaction; the notes the wallet starts with  *)
(* are the outputs of transaction NoTx.                                    *)
Notes == [tx : 0..MaxTx, ix : 1..MaxNotes]
Genesis == [tx : {NoTx}, ix : 1..Len(GenesisWorth)]

(* The immutable content of a signed transaction and of the row that keeps *)
(* it: its run, the notes it spends, its number of Orchard outputs and the *)
(* worth of the last of them (the others are worth one unit each), the     *)
(* send height of its row, its consensus expiry, and (to state properties) *)
(* the first transaction built by the signing call that built it.          *)
TxBodies == [kind : {"none", "split", "transfer"}, run : RunIds \cup {NoRun},
             spends : SUBSET Notes, outs : 0..MaxNotes, last : 0..MaxMoney,
             sendAt : Nat, expiry : Nat, batch : 0..MaxTx]

Unbuilt == [kind |-> "none", run |-> NoRun, spends |-> {}, outs |-> 0,
            last |-> 0, sendAt |-> 0, expiry |-> 0, batch |-> 0]

VARIABLES
    height,     \* the target height: the next block's
    txs,        \* content of the transactions built so far
    nextTx,     \* the id the next transaction will have
    mempool,    \* accepted by the node, neither mined nor expired
    accepted,   \* ever accepted by the node
    mined,      \* mined, and scanned by the wallet
    matured,    \* mined with enough confirmations to spend the outputs
    late,       \* initial notes that still lack confirmations
    elsewhere   \* notes spent by another device holding the same seed

chainVars == <<height, txs, nextTx, mempool, accepted, mined, matured, late,
               elsewhere>>

ChainTypeOK ==
    /\ height \in 1..MaxHeight
    /\ txs \in [TxIds -> TxBodies]
    /\ nextTx \in 1..(MaxTx + 1)
    /\ mempool \subseteq TxIds
    /\ accepted \subseteq TxIds
    /\ mined \subseteq TxIds
    /\ matured \subseteq TxIds
    /\ late \subseteq Genesis
    /\ elsewhere \subseteq Notes

ChainInit ==
    /\ height = 1
    /\ txs = [t \in TxIds |-> Unbuilt]
    /\ nextTx = 1
    /\ mempool = {}
    /\ accepted = {}
    /\ mined = {}
    /\ matured = {}
    /\ late = {n \in Genesis : n.ix \in LateNotes}
    /\ elsewhere = {}

-----------------------------------------------------------------------------
(* What the wallet database tells the engine.                              *)

OutputsOf(t) == [tx : {t}, ix : 1..txs[t].outs]

Worth(n) ==
    IF n.tx = NoTx THEN GenesisWorth[n.ix]
    ELSE IF n.ix = txs[n.tx].outs THEN txs[n.tx].last ELSE 1

Units(notes) == MapThenSumSet(Worth, notes)

MinedSpends == (UNION {txs[t].spends : t \in mined}) \cup elsewhere

(* The notes behind pool_balances' orchard_spendable and behind the input  *)
(* selector: confirmed often enough, and not spent by a mined transaction. *)
(* A transaction that is only in the mempool spends nothing yet here: the  *)
(* engine never tells the wallet about what it signed.                     *)
Spendable ==
    ((Genesis \ late) \cup (UNION {OutputsOf(t) : t \in matured})) \ MinedSpends

(* ironwood_total > 0: some crossing has been mined.                       *)
IronwoodReceived == \E t \in mined : txs[t].kind = "transfer"

(* The input selector takes notes until they cover the amount, so the last *)
(* note it took was needed.                                                *)
Selections(notes, amount) ==
    {S \in SUBSET notes : \E n \in S : /\ Units(S) >= amount
                                       /\ Units(S \ {n}) < amount}

-----------------------------------------------------------------------------
(* The node's side of a broadcast.                                         *)

Conflicts(t, pool) == \E u \in pool \ {t} : txs[u].spends \cap txs[t].spends # {}

CanEnter(t) ==
    /\ t \notin mempool \cup mined
    /\ height <= txs[t].expiry
    /\ ~Conflicts(t, mempool \cup mined)
    /\ txs[t].spends \cap elsewhere = {}

Refusals(t) ==
    {a \in {"Expired", "InvalidNote"} :
        IF a = "Expired" THEN height > txs[t].expiry
        ELSE \/ t \in mined
             \/ Conflicts(t, mempool \cup mined)
             \/ txs[t].spends \cap elsewhere # {}}

-----------------------------------------------------------------------------
(* The environment's own steps.                                            *)

(* A block holding t is mined and the wallet scans it.                     *)
Mine(t) ==
    /\ t \in mempool
    /\ mined' = mined \cup {t}
    /\ mempool' = mempool \ {t}
    /\ UNCHANGED <<height, txs, nextTx, accepted, matured, late, elsewhere>>

(* t's outputs reach the confirmations the balance policy asks for.        *)
Mature(t) ==
    /\ t \in mined \ matured
    /\ txs[t].outs > 0
    /\ matured' = matured \cup {t}
    /\ UNCHANGED <<height, txs, nextTx, mempool, accepted, mined, late, elsewhere>>

(* A note the wallet received from outside reaches those confirmations.    *)
NoteConfirms(n) ==
    /\ n \in late
    /\ late' = late \ {n}
    /\ UNCHANGED <<height, txs, nextTx, mempool, accepted, mined, matured, elsewhere>>

(* The chain grows; what it can no longer mine leaves the mempool.         *)
Tick ==
    /\ height < MaxHeight
    /\ height' = height + 1
    /\ mempool' = {t \in mempool : txs[t].expiry > height}
    /\ UNCHANGED <<txs, nextTx, accepted, mined, matured, late, elsewhere>>

(* Another device with the same seed spends a note, once per behaviour.    *)
SpendElsewhere(n) ==
    /\ "elsewhere" \in Faults
    /\ elsewhere = {}
    /\ n \in Spendable
    /\ elsewhere' = {n}
    /\ mempool' = {t \in mempool : n \notin txs[t].spends}
    /\ UNCHANGED <<height, txs, nextTx, accepted, mined, matured, late>>

ChainStep ==
    \/ \E t \in TxIds : Mine(t) \/ Mature(t)
    \/ \E n \in Genesis : NoteConfirms(n)
    \/ \E n \in Notes : SpendElsewhere(n)
    \/ Tick
=============================================================================
