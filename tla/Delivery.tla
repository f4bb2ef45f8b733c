-------------------------------- MODULE Delivery --------------------------------
(***************************************************************************)
(* What the engine promises of every transaction it signs, without the     *)
(* threads, calls, heights and notes it takes to keep the promise: its     *)
(* record is deleted only while it may still be unsent, says it was sent   *)
(* only once the node took it and confirmed only once it is mined; and a   *)
(* run's transfers follow its split, but for the few (Slack at most) that  *)
(* were asked for before there was one.  MigrationProperties shows that    *)
(* MigrationContext implements this.                                       *)
(***************************************************************************)
EXTENDS Naturals, FiniteSets

CONSTANTS
    Runs,       \* the runs a transaction can belong to
    None,       \* no run
    Ids,        \* the transactions
    Slack       \* how many transfers of a run may overtake its split

VARIABLES
    owner,      \* the run of each transaction, None until it is signed
    split,      \* each run's split, 0 if it has none
    reported,   \* the runs whose split was reported sent
    record,     \* what the records say of each transfer
    network,    \* the transactions the node has taken
    chain       \* the transactions that are mined

promise == <<owner, split, reported, record, network, chain>>

Init ==
    /\ owner = [t \in Ids |-> None]
    /\ split = [r \in Runs |-> 0]
    /\ reported = {}
    /\ record = [t \in Ids |-> "absent"]
    /\ network = {}
    /\ chain = {}

IsSplit(t) == \E r \in Runs : split[r] = t

(* A run's split is the first transaction it signs.                        *)
SignSplit(r, t) ==
    /\ owner[t] = None
    /\ \A u \in Ids : owner[u] # r
    /\ owner' = [owner EXCEPT ![t] = r]
    /\ split' = [split EXCEPT ![r] = t]
    /\ UNCHANGED <<reported, record, network, chain>>

SignTransfer(r, t) ==
    /\ owner[t] = None
    /\ owner' = [owner EXCEPT ![t] = r]
    /\ record' = [record EXCEPT ![t] = "scheduled"]
    /\ UNCHANGED <<split, reported, network, chain>>

SentOf(r) == {u \in network : owner[u] = r /\ u # split[r]}

(* A transfer follows its run's split, or is one of the few.               *)
Send(t) ==
    /\ owner[t] # None
    /\ \/ IsSplit(t)
       \/ split[owner[t]] \in network \cup {0}
       \/ Cardinality(SentOf(owner[t])) < Slack
    /\ network' = network \cup {t}
    /\ UNCHANGED <<owner, split, reported, record, chain>>

ReportSplit(r) ==
    /\ split[r] \in network
    /\ reported' = reported \cup {r}
    /\ UNCHANGED <<owner, split, record, network, chain>>

(* A late report may follow the confirmation.                              *)
Report(t) ==
    /\ t \in network
    /\ record[t] # "absent"
    /\ record' = [record EXCEPT ![t] = "broadcasted"]
    /\ UNCHANGED <<owner, split, reported, network, chain>>

Confirm(S) ==
    /\ \A t \in S : record[t] = "broadcasted" /\ t \in chain
    /\ record' = [t \in Ids |-> IF t \in S THEN "confirmed" ELSE record[t]]
    /\ UNCHANGED <<owner, split, reported, network, chain>>

(* A run gives up what it has not recorded as sent.                        *)
Discard(r) ==
    /\ record' = [t \in Ids |-> IF owner[t] = r /\ record[t] = "scheduled"
                                THEN "absent" ELSE record[t]]
    /\ UNCHANGED <<owner, split, reported, network, chain>>

MineOne(t) ==
    /\ t \in network
    /\ chain' = chain \cup {t}
    /\ UNCHANGED <<owner, split, reported, record, network>>

Next ==
    \/ \E r \in Runs : ReportSplit(r) \/ Discard(r)
    \/ \E r \in Runs, t \in Ids : SignSplit(r, t) \/ SignTransfer(r, t)
    \/ \E t \in Ids : Send(t) \/ Report(t) \/ MineOne(t)
    \/ \E S \in SUBSET Ids : Confirm(S)

Spec == Init /\ [][Next]_promise
=============================================================================
