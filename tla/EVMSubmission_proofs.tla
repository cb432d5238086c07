------------------------- MODULE EVMSubmission_proofs ------------------------
(***************************************************************************)
(* Proofs about EVMSubmission, for any callers, nonces and threshold.      *)
(***************************************************************************)
EXTENDS EVMSubmission, TLAPS

\* Where the holder of the lock relies on the pending nonce it has read.
HasPendingNonce(c) == pc[c] \in {"confirmedNonce", "send"}

\* Only the holder of the lock is inside DeliverTx, so the nonce it read as pending stays
\* free and the account's nonce cannot get past it; the confirmed nonce it read may only have
\* been overtaken; and without evictions the nonces below the pending one stay taken.
IInv ==
    /\ TypeOK
    /\ \A c \in Callers : pc[c] # "idle" => lock = c
    /\ \A c \in Callers : HasPendingNonce(c) /\ pendingNonce \in Nonce => pool[pendingNonce] = NoTx
    /\ \A c \in Callers : HasPendingNonce(c) => confirmed <= pendingNonce
    /\ \A c \in Callers : pc[c] = "send" => confirmedNonce <= confirmed
    /\ evictions = 0 => \A c \in Callers : HasPendingNonce(c) =>
           \A m \in Nonce : confirmed <= m /\ m < pendingNonce => pool[m] # NoTx
    /\ NoNonceGap

\* The fallback only decides between the two nonces read.
LEMMA NonceChoice ==
    \/ SelectNonceWithFallback = pendingNonce
    \/ SelectNonceWithFallback = confirmedNonce /\ pendingNonce - confirmedNonce > MaxDiff
BY DEF SelectNonceWithFallback

\* A transaction that was sent is one.
LEMMA SentIsTx ==
    ASSUME NEW c \in Callers, NEW minable \in BOOLEAN
    PROVE  /\ [by |-> c, minable |-> minable] \in Tx
           /\ [by |-> c, minable |-> minable] # NoTx
BY SubmissionAssumption DEF Tx, NoTx

\* The initial state is in the invariant.
LEMMA InitInv == Init => IInv
BY SubmissionAssumption DEF Init, IInv, TypeOK, HasPendingNonce, NoNonceGap, Nonce

\* Blocks, evictions and time keep it.
LEMMA NodeInv ==
    ASSUME IInv, Mine \/ DelayPasses \/ \E n \in Nonce : Evict(n)
    PROVE  IInv'
<1> USE SubmissionAssumption DEF IInv, TypeOK, HasPendingNonce, NoNonceGap, nodeVars, readVars
<1>1. CASE Mine
  <2> USE <1>1 DEF Mine
  <2>1. TypeOK' BY DEF Nonce
  <2>2. \A c \in Callers : HasPendingNonce(c)' /\ (pendingNonce \in Nonce)' => (pool[pendingNonce] = NoTx)'
    OBVIOUS
  <2>3. \A c \in Callers : (pc[c] = "send")' => (confirmedNonce <= confirmed)'
    BY DEF Nonce
  <2>4. evictions = 0 => \A c \in Callers : HasPendingNonce(c)' =>
            \A m \in Nonce : confirmed' <= m /\ m < pendingNonce' => pool'[m] # NoTx
    BY DEF Nonce
  <2>5. NoNonceGap' BY DEF Nonce
  <2>6. \A c \in Callers : HasPendingNonce(c)' => (confirmed <= pendingNonce)'
    <3>1. pool[confirmed] # NoTx BY DEF NoTx
    <3>2. \A c \in Callers : HasPendingNonce(c) => confirmed # pendingNonce BY <3>1
    <3> QED BY <3>2 DEF Nonce
  <2> QED BY <2>1, <2>2, <2>3, <2>4, <2>5, <2>6
<1>2. CASE DelayPasses
  BY <1>2 DEF DelayPasses
<1>3. ASSUME NEW n \in Nonce, Evict(n) PROVE IInv'
  BY <1>3 DEF Evict
<1> QED BY <1>1, <1>2, <1>3

\* The steps of DeliverTx up to the submission keep it, and a failure does.
LEMMA PrepareInv ==
    ASSUME IInv, NEW c \in Callers,
           Lock(c) \/ Waited(c) \/ Cancelled(c) \/ PendingNonceAt(c) \/ NonceAt(c) \/ SubmitError(c)
    PROVE  IInv'
<1> USE SubmissionAssumption
    DEF IInv, TypeOK, HasPendingNonce, NoNonceGap, nodeVars, readVars, Unlock
<1>1. CASE Lock(c) BY <1>1 DEF Lock
<1>2. CASE Waited(c) BY <1>2 DEF Waited
<1>3. CASE Cancelled(c) BY <1>3 DEF Cancelled
<1>4. CASE PendingNonceAt(c) BY <1>4 DEF PendingNonceAt, IsPendingNonce
<1>5. CASE NonceAt(c) BY <1>5 DEF NonceAt
<1>6. CASE SubmitError(c) BY <1>6 DEF SubmitError
<1> QED BY <1>1, <1>2, <1>3, <1>4, <1>5, <1>6

\* The submission keeps it: the nonce it uses leaves no gap.
LEMMA AcceptInv ==
    ASSUME IInv, NEW c \in Callers, NEW minable \in BOOLEAN,
           Send(c, minable) \/ SendLost(c, minable)
    PROVE  IInv'
<1> DEFINE n == SelectNonceWithFallback
           tx == [by |-> c, minable |-> minable]
<1>1. /\ n \in Nonce /\ n >= confirmed
      /\ pool' = [pool EXCEPT ![n] = tx]
      /\ confirmed' = confirmed /\ pc[c] = "send"
      /\ lock' = None /\ pc' = [pc EXCEPT ![c] = "idle"]
      /\ pendingNonce' = pendingNonce /\ confirmedNonce' = confirmedNonce
      /\ due' \in BOOLEAN /\ evictions' = evictions
  BY DEF Send, SendLost, Accept, Unlock, readVars, IInv, TypeOK
<1>2. tx \in Tx /\ tx # NoTx BY SentIsTx
<1>3. TypeOK' BY <1>1, <1>2 DEF IInv, TypeOK
<1>4. \A d \in Callers : pc'[d] = "idle"
  BY <1>1 DEF IInv, TypeOK
<1>5. n = pendingNonce \/ n = confirmed
  BY <1>1, NonceChoice DEF IInv, TypeOK, Nonce
<1>6. evictions = 0 => \A m \in Nonce : confirmed <= m /\ m < n => pool[m] # NoTx
  BY <1>1, <1>5 DEF IInv, TypeOK, HasPendingNonce, Nonce
<1> HIDE DEF n, tx
<1>7. NoNonceGap'
  <2> SUFFICES ASSUME evictions = 0, NEW k \in Nonce, NEW m \in Nonce,
                      pool'[k] # NoTx, confirmed <= m, m < k
               PROVE  pool'[m] # NoTx
    BY <1>1 DEF NoNonceGap
  <2>1. CASE m = n BY <2>1, <1>1, <1>2 DEF IInv, TypeOK
  <2>2. CASE m # n /\ k = n BY <2>2, <1>1, <1>6 DEF IInv, TypeOK
  <2>3. CASE m # n /\ k # n BY <2>3, <1>1 DEF IInv, TypeOK, NoNonceGap
  <2> QED BY <2>1, <2>2, <2>3
<1> QED BY <1>3, <1>4, <1>7 DEF IInv, HasPendingNonce

\* IInv is an inductive invariant of DeliverTx and the node.
THEOREM SubmissionInvariance == Spec => []IInv
<1>1. IInv /\ [Next]_vars => IInv'
  <2> SUFFICES ASSUME IInv, [Next]_vars PROVE IInv'
    OBVIOUS
  <2>1. CASE Mine \/ DelayPasses \/ \E n \in Nonce : Evict(n)
    BY <2>1, NodeInv
  <2>2. ASSUME NEW c \in Callers, DeliverTx(c) PROVE IInv'
    BY <2>2, PrepareInv, AcceptInv DEF DeliverTx
  <2>3. CASE UNCHANGED vars
    BY <2>3 DEF vars, IInv, TypeOK, HasPendingNonce, NoNonceGap
  <2> QED BY <2>1, <2>2, <2>3 DEF Next
<1> QED BY <1>1, InitInv, PTL DEF Spec

\* The account, the pool, the lock and the callers keep their types.
THEOREM SubmissionTypes == Spec => []TypeOK
BY SubmissionInvariance, PTL DEF IInv

\* If the pool evicts nothing, DeliverTx never leaves a nonce out, however many goroutines
\* call it and wherever they fail.
THEOREM NonceGapFree == Spec => []NoNonceGap
BY SubmissionInvariance, PTL DEF IInv

\* No delivery replaces another one in the pool unless the pool is more than the threshold
\* ahead of the chain.
THEOREM ReplacementSound == Spec => ReplacesOnlyStuck
<1> DEFINE Kept == \A c \in Callers, minable \in BOOLEAN :
                       /\ Send(c, minable) \/ SendLost(c, minable)
                       /\ pool[SelectNonceWithFallback] # NoTx
                       => pendingNonce - confirmedNonce > MaxDiff
<1>1. IInv /\ [Next]_vars => [Kept]_vars
  <2> SUFFICES ASSUME IInv, NEW c \in Callers, NEW minable \in BOOLEAN,
                      Send(c, minable) \/ SendLost(c, minable),
                      pool[SelectNonceWithFallback] # NoTx
               PROVE  pendingNonce - confirmedNonce > MaxDiff
    OBVIOUS
  <2>1. pc[c] = "send" /\ SelectNonceWithFallback \in Nonce
    BY DEF Send, SendLost, Accept
  <2> QED BY <2>1, NonceChoice DEF IInv, TypeOK, HasPendingNonce
<1> QED BY <1>1, SubmissionInvariance, PTL DEF Spec, ReplacesOnlyStuck

\* While the pool drops nothing, what a delivery read of the account is as good as what it would
\* read at the moment of its submission.
THEOREM SubmissionInTurn == Spec => SubmitsInTurn
<1> DEFINE Turn ==
        evictions = 0 => \A n \in Nonce : pool'[n] # NoTx /\ pool'[n] # pool[n] =>
            \/ IsPendingNonce(n)
            \/ /\ n = confirmed
               /\ \E p \in 0 .. MaxNonce + 1 : IsPendingNonce(p) /\ p - confirmed > MaxDiff
<1>1. IInv /\ [Next]_vars => [Turn]_vars
  <2> SUFFICES ASSUME IInv, Next, evictions = 0, NEW n \in Nonce, pool'[n] # NoTx, pool'[n] # pool[n]
               PROVE  \/ IsPendingNonce(n)
                      \/ /\ n = confirmed
                         /\ \E p \in 0 .. MaxNonce + 1 : IsPendingNonce(p) /\ p - confirmed > MaxDiff
    OBVIOUS
  <2>1. PICK c \in Callers, minable \in BOOLEAN : Send(c, minable) \/ SendLost(c, minable)
    <3>1. ~Mine BY DEF Mine, IInv, TypeOK
    <3>2. ~DelayPasses BY DEF DelayPasses, nodeVars
    <3>3. ~\E m \in Nonce : Evict(m) BY DEF Evict, IInv, TypeOK
    <3>4. PICK c \in Callers : DeliverTx(c) BY <3>1, <3>2, <3>3 DEF Next
    <3> QED BY <3>4
      DEF DeliverTx, Lock, Waited, Cancelled, PendingNonceAt, NonceAt, SubmitError, nodeVars
  <2>2. /\ SelectNonceWithFallback \in Nonce /\ SelectNonceWithFallback >= confirmed
        /\ pool' = [pool EXCEPT ![SelectNonceWithFallback] = [by |-> c, minable |-> minable]]
        /\ pc[c] = "send"
    BY <2>1 DEF Send, SendLost, Accept
  <2>3. n = SelectNonceWithFallback BY <2>2 DEF IInv, TypeOK
  <2>4. /\ confirmed \in Nat /\ pendingNonce \in 0 .. MaxNonce + 1 /\ confirmedNonce \in Nat
        /\ confirmed <= pendingNonce /\ confirmedNonce <= confirmed
    BY <2>2, SubmissionAssumption DEF IInv, TypeOK, HasPendingNonce
  <2>5. IsPendingNonce(pendingNonce)
    BY <2>2, <2>4 DEF IInv, HasPendingNonce, IsPendingNonce
  <2>6. CASE n = pendingNonce BY <2>5, <2>6
  <2>7. CASE n = confirmedNonce /\ pendingNonce - confirmedNonce > MaxDiff
    <3>1. confirmedNonce = confirmed BY <2>2, <2>3, <2>4, <2>7
    <3> QED BY <2>4, <2>5, <2>7, <3>1
  <2> QED BY <2>3, <2>6, <2>7, NonceChoice
<1> QED BY <1>1, SubmissionInvariance, PTL DEF Spec, SubmitsInTurn
=============================================================================
