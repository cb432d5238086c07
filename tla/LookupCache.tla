---------------------------- MODULE LookupCache ----------------------------
(***************************************************************************)
(* OnceWithKey, the cache in front of a chain's node, and ShouldRetryTx    *)
(* asked through it by several goroutines.  A once is one request to the   *)
(* node, which everybody who comes while it is young shares.  Time is      *)
(* counted in ages that stop at SuccessTimeout, the longest of the         *)
(* timeouts; a request may take any time.                                  *)
(***************************************************************************)
EXTENDS Integers, FiniteSets, Functions

CONSTANTS
    Txs,            \* the transaction hashes, the keys of the cache
    Callers,        \* the goroutines
    Onces,          \* the onces there can be
    NoOnce,         \* the once of a caller that has none
    SuccessTimeout, ErrorTimeout

ASSUME CacheAssumption ==
    /\ Onces \cap Txs = {} /\ NoOnce \notin Onces
    /\ SuccessTimeout \in Nat /\ ErrorTimeout \in 1 .. SuccessTimeout

VARIABLES
    chain,      \* of each transaction: is it in a block, and did it succeed
    landed,     \* the time since it is
    expired,    \* the header is later than its expiry
    onces,      \* the map of the cache
    once,       \* the state of each once
    pc, tx, mine, said,     \* of each caller; mine is its once, said its last answer if it was no error
    recent      \* the transaction of a caller had not been on the chain for long when it came

chainVars == <<chain, landed, expired>>
vars == <<chainVars, onces, once, pc, tx, mine, said, recent>>

New == [phase |-> "new", age |-> 0, answer |-> "none", err |-> FALSE]

Init ==
    /\ chain = [t \in Txs |-> "pending"] /\ landed = [t \in Txs |-> 0]
    /\ expired = [t \in Txs |-> FALSE]
    /\ onces = [t \in {} |-> 0] /\ once = [o \in Onces |-> New]
    /\ pc = [c \in Callers |-> "idle"] /\ tx \in [Callers -> Txs] /\ mine = [c \in Callers |-> NoOnce]
    /\ said = [c \in Callers |-> "nothing"] /\ recent = [c \in Callers |-> TRUE]

-----------------------------------------------------------------------------
(* The chain and the clock.                                                *)

Older(n) == IF n < SuccessTimeout THEN n + 1 ELSE n

Tick ==
    /\ once' = [o \in Onces |-> [once[o] EXCEPT !.age = Older(@)]]
    /\ landed' = [t \in Txs |-> IF chain[t] = "pending" THEN 0 ELSE Older(landed[t])]
    /\ UNCHANGED <<chain, expired, onces, pc, tx, mine, said, recent>>

Land(t) ==
    /\ chain[t] = "pending"
    /\ \E s \in {"success", "failed"} : chain' = [chain EXCEPT ![t] = s]
    /\ UNCHANGED <<landed, expired, onces, once, pc, tx, mine, said, recent>>

\* The time of the latest header passes sentTs + expiry, landed or not.
Expire(t) ==
    /\ ~expired[t] /\ expired' = [expired EXCEPT ![t] = TRUE]
    /\ UNCHANGED <<chain, landed, onces, once, pc, tx, mine, said, recent>>

-----------------------------------------------------------------------------
(* OnceWithKey.Do.                                                         *)

\* Mutant: the error timeout is not looked at.
IsTimedOutOnSuccess(o) == ~once[o].err /\ once[o].age >= SuccessTimeout
IsTimedOut(o) ==
    \/ once[o].err /\ once[o].age >= ErrorTimeout
    \/ ~once[o].err /\ once[o].age >= SuccessTimeout

\* The onces that somebody refers to.  The others are garbage, and may be made anew.
Referenced ==
    {onces[t] : t \in DOMAIN onces} \cup {mine[c] : c \in Callers}
Collected(f) == [o \in Onces |-> IF o \in Referenced' THEN f[o] ELSE New]

\* o.onces[key] = once
Stored(t, o) == [u \in DOMAIN onces \cup {t} |-> IF u = t THEN o ELSE onces[u]]

\* When a caller comes, its transaction has not been on the chain for the time that an error
\* is kept; or, if it is to share a once whose failure is not recorded yet, for the time
\* that a success is kept.
Recent(t) ==
    landed[t] < IF t \in DOMAIN onces /\ once[onces[t]].err THEN ErrorTimeout ELSE SuccessTimeout

\* A caller comes and, holding the lock, takes the once of its transaction or makes one.
Lookup(c, t) ==
    /\ pc[c] = "idle" /\ pc' = [pc EXCEPT ![c] = "once"]
    /\ IF t \in DOMAIN onces /\ ~IsTimedOut(onces[t])
       THEN /\ mine' = [mine EXCEPT ![c] = onces[t]]
            /\ UNCHANGED <<onces, once>>
       ELSE \E o \in Onces \ Referenced :
            /\ o = CHOOSE new \in Onces \ Referenced : TRUE
            /\ mine' = [mine EXCEPT ![c] = o]
            /\ onces' = Stored(t, o)
            /\ once' = Collected([once EXCEPT ![o] = New])
    /\ tx' = [tx EXCEPT ![c] = t]
    /\ said' = [said EXCEPT ![c] = "nothing"]
    /\ recent' = [recent EXCEPT ![c] = Recent(t)]
    /\ UNCHANGED chainVars

\* What the node has to say about a transaction, if it can be reached.
NodeSays(t) == IF chain[t] = "pending" THEN "notFound" ELSE chain[t]

\* sync.OnceValues: the first to call the once runs its action, which asks the node.
Ask(c, a) ==
    /\ pc[c] = "once" /\ once[mine[c]].phase = "new"
    /\ once' = [once EXCEPT ![mine[c]].phase = "running", ![mine[c]].answer = a]
    /\ pc' = [pc EXCEPT ![c] = "running"]
    /\ UNCHANGED <<chainVars, onces, tx, mine, said, recent>>

\* An error may also be that the context of this caller is cancelled.
Run(c) == Ask(c, NodeSays(tx[c])) \/ Ask(c, "error")

\* The once returns, to the caller that ran it and to all that wait for it.
Return(c) ==
    /\ pc[c] = "running" \/ (pc[c] = "once" /\ once[mine[c]].phase = "done")
    /\ once' = [once EXCEPT ![mine[c]].phase = "done"]
    /\ pc' = [pc EXCEPT ![c] = IF once[mine[c]].answer \in {"notFound", "error"} THEN "setError"
                               ELSE "cleanup"]
    /\ UNCHANGED <<chainVars, onces, tx, mine, said, recent>>

SetError(c) ==
    /\ pc[c] = "setError"
    /\ once' = [once EXCEPT ![mine[c]].err = TRUE] /\ pc' = [pc EXCEPT ![c] = "cleanup"]
    /\ UNCHANGED <<chainVars, onces, tx, mine, said, recent>>

\* Mutant: a timed out once is removed by its key, which may have a newer once by now.
RemoveByKey(c) == Restrict(onces, DOMAIN onces \ {tx[c]})
\* delete(o.onces, once): the map has transactions, not onces, for keys.
Remove(c) == Restrict(onces, DOMAIN onces \ {mine[c]})

-----------------------------------------------------------------------------
(* ShouldRetryTx.                                                          *)

\* What it makes of an answer other than not found.
Verdict(a) == IF a = "failed" THEN "retry" ELSE IF a = "success" THEN "keep" ELSE "nothing"

\* The end of Do, and ShouldRetryTx unless it needs the header.
Cleanup(c) ==
    /\ pc[c] = "cleanup"
    /\ onces' = IF IsTimedOut(mine[c]) THEN Remove(c) ELSE onces
    /\ IF once[mine[c]].answer = "notFound"
       THEN pc' = [pc EXCEPT ![c] = "header"] /\ UNCHANGED said
       ELSE /\ pc' = [pc EXCEPT ![c] = "idle"]
            /\ said' = [said EXCEPT ![c] = Verdict(once[mine[c]].answer)]
    /\ mine' = [mine EXCEPT ![c] = NoOnce] /\ once' = Collected(once)
    /\ UNCHANGED <<chainVars, tx, recent>>

\* The transaction was not found: the latest header, which is not cached, decides.  If it
\* is not expired, or the header cannot be had, an error is returned.
Header(c) ==
    /\ pc[c] = "header" /\ pc' = [pc EXCEPT ![c] = "idle"]
    /\ \/ expired[tx[c]] /\ said' = [said EXCEPT ![c] = "retry"]
       \/ UNCHANGED said
    /\ UNCHANGED <<chainVars, onces, once, tx, mine, recent>>

-----------------------------------------------------------------------------
Steps(c) == Return(c) \/ SetError(c) \/ Cleanup(c) \/ Header(c)

Next ==
    \/ Tick \/ \E t \in Txs : Land(t) \/ Expire(t)
    \/ \E c \in Callers : Run(c) \/ Steps(c) \/ \E t \in Txs : Lookup(c, t)

Spec == Init /\ [][Next]_vars

Age == 0 .. SuccessTimeout

Once == [phase : {"new", "running", "done"}, age : Age, err : BOOLEAN,
         answer : {"none", "success", "failed", "notFound", "error"}]

TypeOK ==
    /\ chain \in [Txs -> {"pending", "success", "failed"}]
    /\ landed \in [Txs -> Age] /\ expired \in [Txs -> BOOLEAN]
    /\ DOMAIN onces \subseteq Txs /\ onces \in [DOMAIN onces -> Onces]
    /\ once \in [Onces -> Once]
    /\ pc \in [Callers -> {"idle", "once", "running", "setError", "cleanup", "header"}]
    /\ tx \in [Callers -> Txs] /\ mine \in [Callers -> Onces \cup {NoOnce}]
    /\ said \in [Callers -> {"nothing", "keep", "retry"}]
    /\ recent \in [Callers -> BOOLEAN]

-----------------------------------------------------------------------------
(* Properties.                                                             *)

\* The node is not asked about a transaction again while a request about it is out, unless the
\* once of that request is SuccessTimeout old, however callers come, wait and clean up.
SingleFlight ==
    \A c, d \in Callers :
      c # d /\ pc[c] = "running" /\ pc[d] = "running" /\ tx[c] = tx[d] =>
        once[mine[c]].age = SuccessTimeout \/ once[mine[d]].age = SuccessTimeout

\* A transaction is sent again only if it failed, or if it is expired and the cached "not
\* found" behind that is not out of date by more than the timeouts allow.
RetryJustified ==
    \A c \in Callers :
      said[c] = "retry" => chain[tx[c]] = "failed" \/ (expired[tx[c]] /\ recent[c])

-----------------------------------------------------------------------------
(* Liveness.                                                               *)

\* Goroutines run, requests return, transactions are asked about again and again, and the
\* node can be reached again and again.
Fairness ==
    /\ WF_vars(Tick) /\ \A c \in Callers : WF_vars(Run(c) \/ Steps(c))
    /\ \A t \in Txs : /\ WF_vars(\E c \in Callers : Lookup(c, t))
                      /\ SF_vars(\E c \in Callers : tx[c] = t /\ Ask(c, NodeSays(t)))

FairSpec == Spec /\ Fairness

\* A transaction that succeeds is found, whatever was cached about it before.
LandedIsFound ==
    \A t \in Txs : (chain[t] = "success") ~> \E c \in Callers : tx[c] = t /\ said[c] = "keep"
=============================================================================
