----------------------------- MODULE RelayerAPI -----------------------------
(***************************************************************************)
(* The handlers of relayerapi/service.go.  Relay checks a transaction on   *)
(* its chain and inserts the request and a row for each packet in one      *)
(* database transaction; Status reads the request and then the rows.       *)
(* Calls run concurrently, and a client may repeat one or spell the hash   *)
(* of a transaction in another way.                                        *)
(***************************************************************************)
EXTENDS Integers, FiniteSets

CONSTANTS
    Calls,          \* calls that may run at a time
    Hash,           \* what clients send as tx_hash
    Tx,             \* transactions on the source chain
    TxOf,           \* the transaction each hash is of
    Packet,         \* packets, numbered in the order of their events
    PacketsOf,      \* the packets each transaction sends
    Known,          \* packets whose client has a configured counterparty
    Blacklisted,    \* transactions of a blacklisted sender
    None            \* no hash

ASSUME APIAssumption ==
    /\ None \notin Hash
    /\ TxOf \in [Hash -> Tx]
    /\ Packet \subseteq Nat
    /\ PacketsOf \in [Tx -> SUBSET Packet]
    /\ \A t \in Tx : IsFiniteSet(PacketsOf[t])
    /\ \A t, u \in Tx : t # u => PacketsOf[t] \cap PacketsOf[u] = {}
    /\ Known \subseteq Packet /\ Blacklisted \subseteq Tx

VARIABLES
    executed,   \* each transaction as its chain has it
    cached,     \* the hashes whose lookup failed with ErrTxNotFound and is kept by txOnce
    requests,   \* ibcv2_relay_requests, as committed
    rows,       \* source_tx_hash of the row of each packet, as committed
    call,       \* each running call and its uncommitted inserts
    answer      \* what the last call in each place answered, until the next one begins

vars == <<executed, cached, requests, rows, call, answer>>

Code == {"OK", "NotFound", "InvalidArgument", "FailedPrecondition", "Unavailable", "Unknown",
         "Internal"}
CallAt(at, h, todo) ==
    [at |-> at, hash |-> h, todo |-> todo, request |-> FALSE, inserted |-> {}]
Idle == CallAt("idle", None, {})
NoAnswer == [to |-> "none", hash |-> None, code |-> "OK", packets |-> {}]

\* The packets of a hash that Relay does not skip.
ToRelay(h) == PacketsOf[TxOf[h]] \cap Known

\* Calls, tables and answers have their types, and a call that has ended holds nothing.
TypeOK ==
    /\ executed \in [Tx -> {"missing", "SUCCESS", "FAILED"}]
    /\ cached \in SUBSET Hash
    /\ requests \in SUBSET Hash
    /\ rows \in [Packet -> Hash \cup {None}]
    /\ call \in [Calls -> [at : {"idle", "request", "transfers", "rows"}, hash : Hash \cup {None},
                           todo : SUBSET Packet, request : BOOLEAN, inserted : SUBSET Packet]]
    /\ answer \in [Calls -> [to : {"none", "Relay", "Status"}, hash : Hash \cup {None},
                             code : Code, packets : SUBSET Packet]]
    /\ \A c \in Calls : call[c].at = "idle" => call[c] = Idle

Init ==
    /\ executed = [t \in Tx |-> "missing"]
    /\ cached = {}
    /\ requests = {}
    /\ rows = [p \in Packet |-> None]
    /\ call = [c \in Calls |-> Idle]
    /\ answer = [c \in Calls |-> NoAnswer]

\* A transaction gets into a block.
Execute(t) ==
    /\ executed[t] = "missing"
    /\ \E s \in {"SUCCESS", "FAILED"} : executed' = [executed EXCEPT ![t] = s]
    /\ UNCHANGED <<cached, requests, rows, call, answer>>

\* The errorTimeout of a lookup is over, and the next call looks again.
CacheExpires(h) ==
    /\ h \in cached /\ cached' = cached \ {h}
    /\ UNCHANGED <<executed, requests, rows, call, answer>>

\* A call ends; inserts that were not committed are gone.
Answer(c, to, h, code, packets) ==
    /\ answer' = [answer EXCEPT ![c] = [to |-> to, hash |-> h, code |-> code, packets |-> packets]]
    /\ call' = [call EXCEPT ![c] = Idle]

-----------------------------------------------------------------------------
(* Relay.                                                                  *)

\* What the bridge client answers.  A transaction is found when it is in a block, but not as
\* long as txOnce keeps a lookup of this hash from before; one that was found stays so.
TxExecutionStatus(h) == IF h \in cached THEN "missing" ELSE executed[TxOf[h]]
\* The packets of the events in the transaction, in any spelling of its hash.
SendPacketsFromTx(h) == PacketsOf[TxOf[h]]

\* The codes with which Relay turns a transaction down.  TxExecutionStatus, SendPacketsFromTx
\* and GetTransactionSender may fail at any time, the last with no code of its own.
Rejections(h) ==
    {"Unavailable"}
    \cup (CASE TxExecutionStatus(h) = "missing" -> {"NotFound"}
            [] TxExecutionStatus(h) = "FAILED"  -> {"FailedPrecondition"}
            [] OTHER -> {"Unknown",
                         IF TxOf[h] \in Blacklisted THEN "InvalidArgument" ELSE "Internal"})

\* txOnce keeps an error as well as an answer.
Reject(c, h) ==
    /\ call[c].at = "idle"
    /\ \E code \in Rejections(h) :
         /\ Answer(c, "Relay", h, code, {})
         /\ cached' = IF code = "NotFound" THEN cached \cup {h} ELSE cached
    /\ UNCHANGED <<executed, requests, rows>>

\* Mutant: the execution status is not looked at.
BeginTxOfAny(c, h) ==
    /\ call[c].at = "idle"
    /\ TxExecutionStatus(h) # "missing" /\ TxOf[h] \notin Blacklisted
    /\ call' = [call EXCEPT ![c] = CallAt("request", h, SendPacketsFromTx(h))]
    /\ answer' = [answer EXCEPT ![c] = NoAnswer]
    /\ UNCHANGED <<executed, cached, requests, rows>>
\* The checks pass, SendPacketsFromTx has its answer, and ExecTx begins a transaction.
BeginTx(c, h) ==
    /\ call[c].at = "idle"
    /\ TxExecutionStatus(h) = "SUCCESS" /\ TxOf[h] \notin Blacklisted
    /\ call' = [call EXCEPT ![c] = CallAt("request", h, SendPacketsFromTx(h))]
    /\ answer' = [answer EXCEPT ![c] = NoAnswer]
    /\ UNCHANGED <<executed, cached, requests, rows>>

\* ON CONFLICT DO NOTHING.
InsertsRequest(h) == h \notin requests

\* InsertRelayRequest.  Like every insert with a unique key it waits for the transaction
\* that has inserted this key and is not committed.
InsertRelayRequest(c) ==
    LET h == call[c].hash
    IN  /\ call[c].at = "request"
        /\ \A d \in Calls \ {c} : ~(call[d].request /\ call[d].hash = h)
        /\ call' = [call EXCEPT ![c].at = "transfers", ![c].request = InsertsRequest(h)]
        /\ UNCHANGED <<executed, cached, requests, rows, answer>>

\* Mutant: the packets are gone through in any order.
AnyPacket(c, p) == p \in call[c].todo
\* The loop goes through the packets in the order of their events.
NextPacket(c, p) == p \in call[c].todo /\ \A q \in call[c].todo : p <= q

\* GetClientCounterpartyChainID knows no destination: the packet is skipped.
SkipPacket(c, p) ==
    /\ call[c].at = "transfers" /\ NextPacket(c, p) /\ p \notin Known
    /\ call' = [call EXCEPT ![c].todo = @ \ {p}]
    /\ UNCHANGED <<executed, cached, requests, rows, answer>>

\* No other transaction that is not committed has inserted the packet.
Unlocked(c, p) == \A d \in Calls \ {c} : p \notin call[d].inserted

InsertIBCV2Transfer(c, p) ==
    /\ call[c].at = "transfers" /\ NextPacket(c, p) /\ p \in Known
    /\ Unlocked(c, p) /\ rows[p] = None
    /\ call' = [call EXCEPT ![c].todo = @ \ {p}, ![c].inserted = @ \cup {p}]
    /\ UNCHANGED <<executed, cached, requests, rows, answer>>

\* The unique index has the packet: ExecTx rolls back.
DuplicateTransfer(c, p) ==
    /\ call[c].at = "transfers" /\ NextPacket(c, p) /\ p \in Known
    /\ Unlocked(c, p) /\ rows[p] # None
    /\ Answer(c, "Relay", call[c].hash, "Internal", {})
    /\ UNCHANGED <<executed, cached, requests, rows>>

\* Mutant: the transaction ends after the first row.
LoopEndsEarly(c) == call[c].inserted # {} \/ call[c].todo = {}
LoopEnds(c) == call[c].todo = {}

\* ExecTx commits.  The answer is Internal if that of the database is lost.
Commit(c, code) ==
    LET h == call[c].hash
    IN  /\ call[c].at = "transfers" /\ LoopEnds(c)
        /\ requests' = IF call[c].request THEN requests \cup {h} ELSE requests
        /\ rows' = [p \in Packet |-> IF p \in call[c].inserted THEN h ELSE rows[p]]
        /\ Answer(c, "Relay", h, code, {})
        /\ UNCHANGED <<executed, cached>>

\* The database fails, the context is cancelled or the process stops: nothing is
\* committed.
RelayError(c) ==
    /\ call[c].at \in {"request", "transfers"}
    /\ Answer(c, "Relay", call[c].hash, "Internal", {})
    /\ UNCHANGED <<executed, cached, requests, rows>>

-----------------------------------------------------------------------------
(* Status.                                                                 *)

\* Mutant: a request that is still being inserted counts.
HasRequestUncommitted(h) == h \in requests \/ \E d \in Calls : call[d].request /\ call[d].hash = h
HasRequest(h) == h \in requests

GetRelayRequest(c, h) ==
    /\ call[c].at = "idle"
    /\ IF HasRequest(h)
       THEN /\ call' = [call EXCEPT ![c] = CallAt("rows", h, {})]
            /\ answer' = [answer EXCEPT ![c] = NoAnswer]
       ELSE Answer(c, "Status", h, "NotFound", {})
    /\ UNCHANGED <<executed, cached, requests, rows>>

GetTransfersBySourceTx(c) ==
    LET h == call[c].hash
    IN  /\ call[c].at = "rows"
        /\ Answer(c, "Status", h, "OK", {p \in Packet : rows[p] = h})
        /\ UNCHANGED <<executed, cached, requests, rows>>

StatusError(c, h) ==
    /\ call[c].at = "idle" \/ (call[c].at = "rows" /\ call[c].hash = h)
    /\ Answer(c, "Status", h, "Internal", {})
    /\ UNCHANGED <<executed, cached, requests, rows>>

\* The steps of a call that has begun when nothing fails.
GoOn(c) ==
    \/ InsertRelayRequest(c) \/ GetTransfersBySourceTx(c) \/ Commit(c, "OK")
    \/ \E p \in Packet : SkipPacket(c, p) \/ InsertIBCV2Transfer(c, p) \/ DuplicateTransfer(c, p)

Next ==
    \/ \E t \in Tx : Execute(t)
    \/ \E h \in Hash : CacheExpires(h)
    \/ \E c \in Calls :
         \/ GoOn(c) \/ Commit(c, "Internal") \/ RelayError(c)
         \/ \E h \in Hash : \/ Reject(c, h) \/ BeginTx(c, h)
                            \/ GetRelayRequest(c, h) \/ StatusError(c, h)

Spec == Init /\ [][Next]_vars

\* The database wakes the calls that wait for a transaction when it ends, and does not let
\* one of them be overtaken for ever.
FairSpec == Spec /\ \A c \in Calls : SF_vars(GoOn(c))

-----------------------------------------------------------------------------
(* Properties.                                                             *)

\* ExecTx of Relay: a request is in the database together with a row for each of its
\* packets that can be relayed, or not at all, and no row is there without its request.
AllOrNothing ==
    /\ \A h \in requests : \A p \in ToRelay(h) : rows[p] = h
    /\ \A p \in Packet : rows[p] # None => rows[p] \in requests /\ p \in ToRelay(rows[p])

\* A client that got OK from Relay may rely on it: every packet of the transaction with a
\* known destination is being tracked, and the transaction was successful and not of a
\* blacklisted sender.
AcceptedIsTracked ==
    \A c \in Calls : answer[c].to = "Relay" /\ answer[c].code = "OK" =>
        /\ \A p \in ToRelay(answer[c].hash) : rows[p] # None
        /\ executed[TxOf[answer[c].hash]] = "SUCCESS"
        /\ TxOf[answer[c].hash] \notin Blacklisted

\* Status reads two tables one after the other while Relay calls commit, and still never
\* answers with a part of a transaction's packets.
StatusComplete ==
    \A c \in Calls : answer[c].to = "Status" /\ answer[c].code = "OK" =>
        answer[c].packets = ToRelay(answer[c].hash)

\* The insert call c has come to has a unique key that call d has inserted and not committed.
WaitsFor(c, d) ==
    /\ c # d
    /\ \/ call[c].at = "request" /\ call[d].request /\ call[d].hash = call[c].hash
       \/ call[c].at = "transfers" /\ \E p \in Known : NextPacket(c, p) /\ p \in call[d].inserted

\* Relay calls of one transaction, in whatever spelling, wait for each other's inserts, but
\* never in a circle, as all of them go through its packets in the same order: among any
\* calls there is one that waits for none of them.
NoCircularWait ==
    \A S \in SUBSET Calls : S # {} => \E c \in S : \A d \in S : ~WaitsFor(c, d)

\* What a client can tell of the handlers and the database is what it could tell of
\* RelayService, which does everything it does for a call in one step.  What the service has
\* not noticed yet are the transactions whose failed lookup is still kept.
Service == INSTANCE RelayService WITH unnoticed <- cached
ImplementsService == Service!Spec

\* A call that has begun comes to an end.
CallsReturn == \A c \in Calls : call[c].at # "idle" ~> call[c].at = "idle"

\* service.go: a repeated request is errAlreadySubmitted, "tx already submitted", which
\* Relay answers with OK.
ResubmissionAccepted ==
    [][\A c \in Calls, p \in Packet :
           DuplicateTransfer(c, p) /\ call[c].hash \in requests => answer'[c].code = "OK"]_vars
=============================================================================
