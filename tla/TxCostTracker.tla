---------------------------- MODULE TxCostTracker ---------------------------
(***************************************************************************)
(* The tracker of relayer/ibcv2/tx_submission_cost_tracker.go: it polls    *)
(* the submissions that are still PENDING, the oldest first and a bounded  *)
(* number at a time, and gives each its outcome on the chain and its cost, *)
(* or expires it.  Relayer processes that overlap, as in a redeployment,   *)
(* each run a tracker on the same table.                                   *)
(***************************************************************************)
EXTENDS Integers, FiniteSets

CONSTANTS
    Trackers,   \* the relayer processes
    MaxSub,     \* bound on the submissions
    BatchSize,  \* rows a poll reads at most
    Priced      \* a price client and the chain's gas token are configured

ASSUME TrackerAssumption ==
    /\ MaxSub \in Nat
    /\ BatchSize \in Nat \ {0}
    /\ Priced \in BOOLEAN

\* Submissions are numbered by submitted_at.
Sub == 1 .. MaxSub

VARIABLES
    outcome,    \* what became of the transaction on its chain
    fee,        \* what it cost, once it landed
    status,     \* column status, "NONE" while there is no row
    cost,       \* column gas_cost_amount
    usd,        \* column gas_cost_usd
    old,        \* submissions up to this one are older than attemptExpiry
    batch,      \* rows of the last poll that a tracker has not come to yet
    at          \* "poll", "track" a row, or about to "update" it

vars == <<outcome, fee, status, cost, usd, old, batch, at>>

Outcome == {"pending", "dropped", "SUCCESS", "FAILED"}
Landed  == {"SUCCESS", "FAILED"}
Fee     == {"ZERO", "POSITIVE"}
Amount  == Fee \cup {"NULL"}

\* outcome, fee and the row's columns have the types of the table and its chain.
TypeOK ==
    /\ outcome \in [Sub -> Outcome]
    /\ fee \in [Sub -> Fee]
    /\ status \in [Sub -> Landed \cup {"NONE", "PENDING", "EXPIRED"}]
    /\ cost \in [Sub -> Amount]
    /\ usd \in [Sub -> Amount]
    /\ old \in 0 .. MaxSub
    /\ batch \in [Trackers -> SUBSET Sub]
    /\ at \in [Trackers -> {"poll", "track", "update"}]

Init ==
    /\ outcome = [s \in Sub |-> "pending"]
    /\ fee = [s \in Sub |-> "ZERO"]
    /\ status = [s \in Sub |-> "NONE"]
    /\ cost = [s \in Sub |-> "NULL"]
    /\ usd = [s \in Sub |-> "NULL"]
    /\ old = 0
    /\ batch = [t \in Trackers |-> {}]
    /\ at = [t \in Trackers |-> "poll"]

-----------------------------------------------------------------------------
(* The world: the pipelines store submissions, the chains execute them,    *)
(* time passes.                                                            *)

\* InsertIBCV2RelayerTxSubmission, once per transaction the relayer delivered.  The time it
\* stores, submitted_at, is that of the broadcast: rows come in any order, and one may be
\* past attemptExpiry when it is stored.
Insert(s) ==
    /\ status[s] = "NONE"
    /\ status' = [status EXCEPT ![s] = "PENDING"]
    /\ UNCHANGED <<outcome, fee, cost, usd, old, batch, at>>

Land(s) ==
    /\ outcome[s] = "pending"
    /\ \E o \in Landed : outcome' = [outcome EXCEPT ![s] = o]
    /\ \E f \in Fee : fee' = [fee EXCEPT ![s] = f]
    /\ UNCHANGED <<status, cost, usd, old, batch, at>>

Drop(s) ==
    /\ outcome[s] = "pending"
    /\ outcome' = [outcome EXCEPT ![s] = "dropped"]
    /\ UNCHANGED <<fee, status, cost, usd, old, batch, at>>

Age ==
    /\ old < MaxSub /\ old' = old + 1
    /\ UNCHANGED <<outcome, fee, status, cost, usd, batch, at>>

-----------------------------------------------------------------------------
(* The tracker.                                                            *)

\* GetUnresolvedIBCV2RelayerTxSubmissions: pending rows by submitted_at, with a LIMIT.
Unresolved == {s \in Sub : status[s] = "PENDING"}
\* Mutant: the newest rows come first.
GetUnresolvedNewest ==
    {s \in Unresolved : Cardinality({r \in Unresolved : r > s}) < BatchSize}
GetUnresolved ==
    {s \in Unresolved : Cardinality({r \in Unresolved : r < s}) < BatchSize}

\* Run's ticker fires and Track reads the rows to look at.
Poll(t) ==
    /\ at[t] = "poll"
    /\ batch' = [batch EXCEPT ![t] = GetUnresolved]
    /\ at' = [at EXCEPT ![t] = "track"]
    /\ UNCHANGED <<outcome, fee, status, cost, usd, old>>

\* The row Track comes to next.
Oldest(t, s) == s \in batch[t] /\ \A r \in batch[t] : s <= r

\* The loop of Track goes on with the next row.
NextRow(t, s) ==
    /\ batch' = [batch EXCEPT ![t] = @ \ {s}]
    /\ at' = [at EXCEPT ![t] = "track"]

\* Track has come to the end of its rows and Run waits for the ticker.
Done(t) ==
    /\ at[t] = "track" /\ batch[t] = {}
    /\ at' = [at EXCEPT ![t] = "poll"]
    /\ UNCHANGED <<outcome, fee, status, cost, usd, old, batch>>

\* Mutants of the expiry: it overwrites an outcome stored by then, or there is none.
ExpireAnyStatus(s) == [status EXCEPT ![s] = "EXPIRED"]
ExpireNever(s) == status
\* ExpirePendingIBCV2RelayerTxSubmission.
ExpirePending(s) == IF status[s] = "PENDING" THEN [status EXCEPT ![s] = "EXPIRED"] ELSE status

\* trackSubmission of a row past attemptExpiry: it is not looked up any more.
Expire(t, s) ==
    /\ at[t] = "track" /\ Oldest(t, s) /\ s <= old
    /\ status' = ExpirePending(s)
    /\ NextRow(t, s)
    /\ UNCHANGED <<outcome, fee, cost, usd, old>>

\* TxExecutionStatus and TxFee have an answer once the transaction is in a block.
TxFound(s) == outcome[s] \in Landed

\* trackSubmission of another row: the chain knows the transaction and its fee.  Time may
\* pass between the lookups and the update.
Lookup(t, s) ==
    /\ at[t] = "track" /\ Oldest(t, s) /\ s > old
    /\ TxFound(s)
    /\ at' = [at EXCEPT ![t] = "update"]
    /\ UNCHANGED <<outcome, fee, status, cost, usd, old, batch>>

\* Mutant: an amount nobody priced is stored as worth nothing.
GasCostUSDOrZero(f) == IF f = "POSITIVE" /\ Priced THEN {"POSITIVE"} ELSE {"ZERO"}
\* getGasCostUSD: nothing costs nothing; NULL without a price client, a coin or a price.
\* A small amount may round to zero dollars.
GasCostUSD(f) ==
    IF f = "ZERO" THEN {"ZERO"} ELSE IF Priced THEN {"POSITIVE", "ZERO", "NULL"} ELSE {"NULL"}

\* UpdateIBCV2RelayerTxSubmissionTracking writes the outcome, whatever the row says by now.
Update(t, s) ==
    /\ at[t] = "update" /\ Oldest(t, s)
    /\ status' = [status EXCEPT ![s] = outcome[s]]
    /\ cost' = [cost EXCEPT ![s] = fee[s]]
    /\ \E u \in GasCostUSD(fee[s]) : usd' = [usd EXCEPT ![s] = u]
    /\ NextRow(t, s)
    /\ UNCHANGED <<outcome, fee, old>>

\* trackSubmission fails, the transaction not being found or any call failing: the row
\* is left for a later poll.
TrackError(t, s) ==
    /\ at[t] \in {"track", "update"} /\ Oldest(t, s)
    /\ NextRow(t, s)
    /\ UNCHANGED <<outcome, fee, status, cost, usd, old>>

\* The process stops and starts again.
Restart(t) ==
    /\ batch' = [batch EXCEPT ![t] = {}]
    /\ at' = [at EXCEPT ![t] = "poll"]
    /\ UNCHANGED <<outcome, fee, status, cost, usd, old>>

Track(t) ==
    \/ Poll(t) \/ Done(t) \/ Restart(t)
    \/ \E s \in Sub : Expire(t, s) \/ Lookup(t, s) \/ Update(t, s) \/ TrackError(t, s)

Next ==
    \/ Age
    \/ \E s \in Sub : Insert(s) \/ Land(s) \/ Drop(s)
    \/ \E t \in Trackers : Track(t)

Spec == Init /\ [][Next]_vars

\* The ticker fires, rows are come to and time passes.  An expiry that is attempted again
\* and again, in whatever process, succeeds at some time.
Fairness ==
    /\ WF_vars(Age)
    /\ \A t \in Trackers : WF_vars(Poll(t)) /\ WF_vars(Done(t))
    /\ \A t \in Trackers, s \in Sub :
         /\ WF_vars(TrackError(t, s))
         /\ SF_vars(Expire(t, s))

FairSpec == Spec /\ Fairness

-----------------------------------------------------------------------------
(* Properties.                                                             *)

\* A row that trackSubmission resolved agrees with the chain and has its native cost, and
\* its dollar cost is NULL, "no price available", rather than zero if it has no price.
ResolvedIsReal ==
    \A s \in Sub : status[s] \in Landed =>
        /\ status[s] = outcome[s] /\ cost[s] = fee[s]
        /\ IF fee[s] = "ZERO" THEN usd[s] = "ZERO" ELSE ~Priced => usd[s] = "NULL"

\* No tracker takes a resolved row back: an expiry decided on an old poll does not
\* overwrite the outcome another process has stored in the meantime.
ResolvedStays ==
    [][\A s \in Sub : status[s] \in Landed =>
           status'[s] = status[s] /\ cost'[s] = cost[s]]_vars

\* The pending rows that the poll puts before this one.
Ahead(s) == {r \in Unresolved : r < s}

\* A poll takes the oldest of the pending rows: nothing older than a row it takes is left out,
\* and it takes BatchSize rows, or all if there are no more than that.
PollsOldest ==
    [][\A t \in Trackers : Poll(t) =>
         /\ batch'[t] \subseteq Unresolved
         /\ \A s \in batch'[t] : Ahead(s) \subseteq batch'[t]
         /\ \/ Cardinality(batch'[t]) = BatchSize
            \/ batch'[t] = Unresolved /\ Cardinality(Unresolved) <= BatchSize]_vars

\* No submission is polled forever: the trackers resolve or expire every one, however many
\* of the older rows the LIMIT of the poll returns are never found on their chain.
EventuallyResolved == \A s \in Sub : status[s] = "PENDING" ~> status[s] # "PENDING"
=============================================================================
