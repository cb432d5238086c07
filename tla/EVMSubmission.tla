---------------------------- MODULE EVMSubmission ---------------------------
(***************************************************************************)
(* DeliverTx of the EVM bridge client: the batch processors of every       *)
(* pipeline towards a chain submit from the same account through one       *)
(* client, which serializes them with a mutex, spaces them by              *)
(* txSubmissionDelay and picks a nonce from two queries to the node.  The  *)
(* account and the node's transaction pool are modelled from how the       *)
(* client uses them.                                                       *)
(***************************************************************************)
EXTENDS Integers

CONSTANTS
    Callers,        \* goroutines that deliver transactions
    None,           \* no caller, no transaction
    MaxNonce,       \* bound on the nonces
    MaxDiff,        \* maxPendingAndConfirmedNonceDifference
    MaxEvictions    \* bound on the transactions the pool drops

ASSUME SubmissionAssumption ==
    /\ None \notin Callers
    /\ MaxNonce \in Nat
    /\ MaxDiff \in Nat
    /\ MaxEvictions \in Nat

Nonce == 0 .. MaxNonce

\* A transaction in the pool: who sent it, and whether its fee will get it into a block.
Tx == [by : Callers, minable : BOOLEAN]
NoTx == [by |-> None, minable |-> FALSE]

VARIABLES
    confirmed,  \* the account's nonce in the latest block
    pool,       \* the transaction in the pool for each nonce
    evictions,  \* how many transactions the pool has dropped
    lock,       \* who holds txSubmissionLock
    pc,         \* where each caller is in DeliverTx
    pendingNonce, confirmedNonce,   \* what the holder of the lock has read
    due         \* lastSubmissionTime is txSubmissionDelay ago

vars == <<confirmed, pool, evictions, lock, pc, pendingNonce, confirmedNonce, due>>
nodeVars == <<confirmed, pool, evictions>>
readVars == <<pendingNonce, confirmedNonce>>

\* The account, the pool, the lock and the callers have their types.
TypeOK ==
    /\ confirmed \in 0 .. MaxNonce + 1
    /\ pool \in [Nonce -> Tx \cup {NoTx}]
    /\ evictions \in 0 .. MaxEvictions
    /\ lock \in Callers \cup {None}
    /\ pc \in [Callers -> {"idle", "delay", "pendingNonce", "confirmedNonce", "send"}]
    /\ pendingNonce \in 0 .. MaxNonce + 1
    /\ confirmedNonce \in 0 .. MaxNonce + 1
    /\ due \in BOOLEAN

Init ==
    /\ confirmed = 0
    /\ pool = [n \in Nonce |-> NoTx]
    /\ evictions = 0
    /\ lock = None
    /\ pc = [c \in Callers |-> "idle"]
    /\ pendingNonce = 0 /\ confirmedNonce = 0
    /\ due = TRUE

-----------------------------------------------------------------------------
(* The node.                                                               *)

\* The nonce after the account's transactions in the pool that follow on each other.
IsPendingNonce(n) ==
    /\ n >= confirmed
    /\ n \in Nonce => pool[n] = NoTx
    /\ \A m \in Nonce : confirmed <= m /\ m < n => pool[m] # NoTx

\* The next transaction of the account gets into a block.
Mine ==
    /\ confirmed \in Nonce /\ pool[confirmed].minable
    /\ pool' = [pool EXCEPT ![confirmed] = NoTx]
    /\ confirmed' = confirmed + 1
    /\ UNCHANGED <<evictions, lock, pc, readVars, due>>

Evict(n) ==
    /\ evictions < MaxEvictions /\ pool[n] # NoTx
    /\ evictions' = evictions + 1
    /\ pool' = [pool EXCEPT ![n] = NoTx]
    /\ UNCHANGED <<confirmed, lock, pc, readVars, due>>

DelayPasses ==
    /\ ~due
    /\ due' = TRUE
    /\ UNCHANGED <<nodeVars, lock, pc, readVars>>

-----------------------------------------------------------------------------
(* DeliverTx.                                                              *)

\* Mutant: the mutex does not exclude.
LockShared(c) ==
    /\ pc[c] = "idle"
    /\ lock' = c /\ pc' = [pc EXCEPT ![c] = "delay"]
    /\ UNCHANGED <<nodeVars, readVars, due>>
Lock(c) ==
    /\ pc[c] = "idle" /\ lock = None
    /\ lock' = c /\ pc' = [pc EXCEPT ![c] = "delay"]
    /\ UNCHANGED <<nodeVars, readVars, due>>

Unlock(c) == lock' = None /\ pc' = [pc EXCEPT ![c] = "idle"]

\* The timer of the select fires.
Waited(c) ==
    /\ pc[c] = "delay" /\ due
    /\ pc' = [pc EXCEPT ![c] = "pendingNonce"]
    /\ UNCHANGED <<nodeVars, lock, readVars, due>>

\* Its context is cancelled: the deferred function still sees a nil err and records the
\* time, though nothing was submitted.
Cancelled(c) ==
    /\ pc[c] = "delay"
    /\ Unlock(c) /\ due' = FALSE
    /\ UNCHANGED <<nodeVars, readVars>>

\* newTx asks the node for the pending nonce, then for the confirmed one; blocks may come
\* in between.
PendingNonceAt(c) ==
    /\ pc[c] = "pendingNonce"
    /\ pendingNonce' \in {n \in 0 .. MaxNonce + 1 : IsPendingNonce(n)}
    /\ pc' = [pc EXCEPT ![c] = "confirmedNonce"]
    /\ UNCHANGED <<nodeVars, lock, confirmedNonce, due>>

\* Mutant: the transaction count is taken for the last nonce used.
NonceAfter(c) ==
    /\ pc[c] = "confirmedNonce"
    /\ confirmedNonce' = confirmed + 1
    /\ pc' = [pc EXCEPT ![c] = "send"]
    /\ UNCHANGED <<nodeVars, lock, pendingNonce, due>>
NonceAt(c) ==
    /\ pc[c] = "confirmedNonce"
    /\ confirmedNonce' = confirmed
    /\ pc' = [pc EXCEPT ![c] = "send"]
    /\ UNCHANGED <<nodeVars, lock, pendingNonce, due>>

\* Any call of DeliverTx fails, a rejected transaction included.  The time of the last
\* submission stays.
SubmitError(c) ==
    /\ pc[c] \in {"pendingNonce", "confirmedNonce", "send"}
    /\ Unlock(c)
    /\ UNCHANGED <<nodeVars, readVars, due>>

\* Mutants: no fallback, and a pending nonce taken for the last nonce used.
SelectPendingNonce == pendingNonce
SelectNonceAfterPending ==
    IF pendingNonce > confirmedNonce /\ pendingNonce - confirmedNonce > MaxDiff
    THEN confirmedNonce ELSE pendingNonce + 1
\* selectNonceWithFallback.
SelectNonceWithFallback ==
    IF pendingNonce > confirmedNonce /\ pendingNonce - confirmedNonce > MaxDiff
    THEN confirmedNonce ELSE pendingNonce

\* The node takes the transaction into its pool, in place of one with its nonce and a
\* lower fee.
Accept(c, minable) ==
    LET n == SelectNonceWithFallback
    IN  /\ n \in Nonce /\ n >= confirmed
        /\ pool[n].minable => minable
        /\ pool' = [pool EXCEPT ![n] = [by |-> c, minable |-> minable]]
        /\ UNCHANGED <<confirmed, evictions>>

\* SendTransaction succeeds.
Send(c, minable) ==
    /\ pc[c] = "send" /\ Accept(c, minable)
    /\ Unlock(c)
    /\ due' = FALSE
    /\ UNCHANGED readVars

\* SendTransaction fails although the node took the transaction: its answer is lost.
SendLost(c, minable) ==
    /\ pc[c] = "send" /\ Accept(c, minable)
    /\ Unlock(c)
    /\ UNCHANGED <<readVars, due>>

DeliverTx(c) ==
    \/ Lock(c) \/ Waited(c) \/ Cancelled(c) \/ PendingNonceAt(c) \/ NonceAt(c) \/ SubmitError(c)
    \/ \E minable \in BOOLEAN : Send(c, minable) \/ SendLost(c, minable)

Next ==
    \/ Mine \/ DelayPasses
    \/ \E n \in Nonce : Evict(n)
    \/ \E c \in Callers : DeliverTx(c)

Spec == Init /\ [][Next]_vars

\* Blocks are produced and time passes, there is always more to deliver, calls return and
\* do not fail forever.  A fee is not too low every time a nonce is used.
Fairness ==
    /\ WF_vars(Mine) /\ WF_vars(DelayPasses)
    /\ WF_vars(\E c \in Callers : Lock(c))
    /\ WF_vars(\E c \in Callers : SubmitError(c))
    /\ SF_vars(\E c \in Callers : Waited(c))
    /\ SF_vars(\E c \in Callers : PendingNonceAt(c))
    /\ SF_vars(\E c \in Callers : NonceAt(c))
    /\ \A n \in Nonce :
         SF_vars(\E c \in Callers : Send(c, TRUE) /\ SelectNonceWithFallback = n)

FairSpec == Spec /\ Fairness

-----------------------------------------------------------------------------
(* Properties.                                                             *)

\* selectNonceWithFallback under the submission lock: no delivery takes the place of
\* another one in the pool, whoever made it, unless the pool was so far ahead of the
\* chain that its transactions are taken to be stuck.
ReplacesOnlyStuck ==
    [][\A c \in Callers, minable \in BOOLEAN :
           /\ Send(c, minable) \/ SendLost(c, minable)
           /\ pool[SelectNonceWithFallback] # NoTx
           => pendingNonce - confirmedNonce > MaxDiff]_vars

\* No nonce gap while the pool drops nothing: between the account's nonce and a transaction in the
\* pool there is no nonce that nobody used, so every delivery can get into a block.
NoNonceGap ==
    evictions = 0 => \A n \in Nonce, m \in Nonce :
        pool[n] # NoTx /\ confirmed <= m /\ m < n => pool[m] # NoTx

\* The two queries for a nonce and the submission act as one step, though blocks come in between:
\* while the pool drops nothing, a transaction is sent with what is the pending nonce when the
\* node gets it, or in place of the one at the head of a pool that is too far ahead at that time.
SubmitsInTurn ==
    [][evictions = 0 => \A n \in Nonce : pool'[n] # NoTx /\ pool'[n] # pool[n] =>
           \/ IsPendingNonce(n)
           \/ /\ n = confirmed
              /\ \E p \in 0 .. MaxNonce + 1 : IsPendingNonce(p) /\ p - confirmed > MaxDiff]_vars

\* The fallback gets the account going again: a transaction whose fee is too low does not
\* hold up the ones behind it forever.
NonceAdvances ==
    \A n \in Nonce : n + MaxDiff <= MaxNonce => (confirmed = n ~> confirmed > n)
=============================================================================
