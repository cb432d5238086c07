---------------------------- MODULE RelayService ----------------------------
(***************************************************************************)
(* What the handlers of relayerapi/service.go promise to a client, without *)
(* database transactions, row locks or the order of queries: every call    *)
(* has its effect on the two tables, and gets its answer, in one step.     *)
(***************************************************************************)
CONSTANTS
    Calls, Hash, Tx, TxOf, Packet, PacketsOf, Known, Blacklisted, None   \* as in RelayerAPI

VARIABLES
    executed,   \* each transaction as its chain has it
    unnoticed,  \* the hashes the service holds for those of missing transactions
    requests,   \* the hashes whose transfers are tracked
    rows,       \* the hash under which each packet is tracked, or None
    answer      \* what the last call in each place answered, until the next one begins

vars == <<executed, unnoticed, requests, rows, answer>>

ToRelay(h) == PacketsOf[TxOf[h]] \cap Known
NoAnswer == [to |-> "none", hash |-> None, code |-> "OK", packets |-> {}]

Init ==
    /\ executed = [t \in Tx |-> "missing"]
    /\ unnoticed = {}
    /\ requests = {}
    /\ rows = [p \in Packet |-> None]
    /\ answer = [c \in Calls |-> NoAnswer]

Execute(t) ==
    /\ executed[t] = "missing"
    /\ \E s \in {"SUCCESS", "FAILED"} : executed' = [executed EXCEPT ![t] = s]
    /\ UNCHANGED <<unnoticed, requests, rows, answer>>

\* The service is ready to look for the transaction again.
Notice(h) ==
    /\ unnoticed' = unnoticed \ {h}
    /\ UNCHANGED <<executed, requests, rows, answer>>

\* A call begins; what was answered before is forgotten.
Begin(c) ==
    /\ answer' = [answer EXCEPT ![c] = NoAnswer]
    /\ UNCHANGED <<executed, unnoticed, requests, rows>>

Says(c, to, h, code, packets) ==
    answer' = [answer EXCEPT ![c] = [to |-> to, hash |-> h, code |-> code, packets |-> packets]]

-----------------------------------------------------------------------------
\* The transaction as the service knows it.
Found(h) == IF h \in unnoticed THEN "missing" ELSE executed[TxOf[h]]

\* Relay takes a transaction: all its packets that can be relayed are tracked from now on, and
\* none of them was before, under any hash.  The answer may get lost.
Accept(c, h) ==
    /\ Found(h) = "SUCCESS" /\ TxOf[h] \notin Blacklisted
    /\ \A p \in ToRelay(h) : rows[p] = None
    /\ requests' = requests \cup {h}
    /\ rows' = [p \in Packet |-> IF p \in ToRelay(h) THEN h ELSE rows[p]]
    /\ \E code \in {"OK", "Internal"} : Says(c, "Relay", h, code, {})
    /\ UNCHANGED <<executed, unnoticed>>

\* What can be wrong with a transaction.
Reason(h, code) ==
    CASE code = "NotFound"           -> Found(h) = "missing"
      [] code = "FailedPrecondition" -> Found(h) = "FAILED"
      [] code = "InvalidArgument"    -> Found(h) = "SUCCESS" /\ TxOf[h] \in Blacklisted
      [] OTHER                       -> code \in {"Unavailable", "Unknown", "Internal"}

\* Relay turns a transaction down and nothing has changed, but that a hash which was not found
\* may not be noticed at once.  A transaction that was found is never missing again.
Reject(c, h, code) ==
    /\ Reason(h, code) /\ Says(c, "Relay", h, code, {})
    /\ unnoticed' = IF code = "NotFound" THEN unnoticed \cup {h} ELSE unnoticed
    /\ UNCHANGED <<executed, requests, rows>>

\* Status answers with all packets of a tracked transaction, or with none.
Status(c, h) ==
    /\ \/ h \in requests /\ Says(c, "Status", h, "OK", ToRelay(h))
       \/ h \notin requests /\ Says(c, "Status", h, "NotFound", {})
       \/ Says(c, "Status", h, "Internal", {})
    /\ UNCHANGED <<executed, unnoticed, requests, rows>>

Code == {"NotFound", "InvalidArgument", "FailedPrecondition", "Unavailable", "Unknown", "Internal"}

Next ==
    \/ \E t \in Tx : Execute(t)
    \/ \E h \in Hash : Notice(h)
    \/ \E c \in Calls :
         \/ Begin(c)
         \/ \E h \in Hash : Accept(c, h) \/ Status(c, h) \/ \E code \in Code : Reject(c, h, code)

Spec == Init /\ [][Next]_vars
=============================================================================
