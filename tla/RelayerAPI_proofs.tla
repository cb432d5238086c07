-------------------------- MODULE RelayerAPI_proofs -------------------------
(***************************************************************************)
(* Proofs about RelayerAPI, for any calls, hashes, transactions and        *)
(* packets.                                                                *)
(***************************************************************************)
EXTENDS RelayerAPI, FiniteSetTheorems, WellFoundedInduction, TLAPS

\* What a call that is in the middle of its database transaction, or between the two
\* queries of Status, can rely on.
Relaying(c) ==
    call[c].at \in {"request", "transfers"} =>
        /\ call[c].hash \in Hash
        /\ executed[TxOf[call[c].hash]] = "SUCCESS" /\ TxOf[call[c].hash] \notin Blacklisted
        /\ ToRelay(call[c].hash) \subseteq call[c].inserted \cup call[c].todo
        /\ call[c].todo \subseteq PacketsOf[TxOf[call[c].hash]]
        /\ call[c].inserted \subseteq ToRelay(call[c].hash)
        /\ \A p \in call[c].inserted : rows[p] = None
        /\ call[c].request => call[c].hash \notin requests
        /\ call[c].at = "transfers" /\ ~call[c].request => call[c].hash \in requests
        /\ call[c].at = "request" => ~call[c].request /\ call[c].inserted = {}
\* The loop inserts in the order of the packets.
InOrder(c) == \A p \in call[c].inserted, q \in call[c].todo : p < q
Reading(c) ==
    call[c].at = "rows" => call[c].hash \in requests /\ ~call[c].request /\ call[c].inserted = {}

\* Unique keys that are not committed belong to one call.
Apart(c, d) ==
    c # d => /\ call[c].inserted \cap call[d].inserted = {}
             /\ ~(call[c].request /\ call[d].request /\ call[c].hash = call[d].hash)

\* Relay goes on with a transaction only if the lookup found it, and a lookup that found one
\* is never followed by one that does not.
Noticed ==
    \A c \in Calls : call[c].at \in {"request", "transfers"} => call[c].hash \notin cached

IInv ==
    /\ TypeOK
    /\ \A c \in Calls : Relaying(c) /\ Reading(c) /\ InOrder(c)
    /\ \A c, d \in Calls : Apart(c, d)
    /\ AllOrNothing
    /\ AcceptedIsTracked
    /\ StatusComplete

\* The packets of a hash that are relayed are packets.
LEMMA ToRelayPackets == ASSUME NEW h \in Hash PROVE ToRelay(h) \subseteq Packet
BY APIAssumption DEF ToRelay

\* The calls TypeOK allows.
Call == [at : {"idle", "request", "transfers", "rows"}, hash : Hash \cup {None},
         todo : SUBSET Packet, request : BOOLEAN, inserted : SUBSET Packet]

\* A step that changes one call, and at most forgets what was answered before it, keeps the
\* invariant if the call does.
LEMMA OneCallInv ==
    ASSUME IInv, NEW c \in Calls, NEW r \in Call, call' = [call EXCEPT ![c] = r],
           r.at # "idle", UNCHANGED <<executed, cached, requests, rows>>,
           answer' = answer \/ answer' = [answer EXCEPT ![c] = NoAnswer],
           Relaying(c)', Reading(c)', InOrder(c)', \A d \in Calls : Apart(c, d)'
    PROVE  IInv'
<1>1. TypeOK'
  <2>1. /\ call' \in [Calls -> Call]
        /\ \A d \in Calls : call'[d].at = "idle" => call'[d] = Idle
    BY DEF IInv, TypeOK, Call
  <2>2. answer' \in [Calls -> [to : {"none", "Relay", "Status"}, hash : Hash \cup {None},
                              code : Code, packets : SUBSET Packet]]
    BY DEF IInv, TypeOK, NoAnswer, Code
  <2> QED BY <2>1, <2>2 DEF IInv, TypeOK, Call
<1>2. call'[c] = r /\ \A d \in Calls \ {c} : call'[d] = call[d]
  BY DEF IInv, TypeOK
<1>3. ASSUME NEW d \in Calls PROVE Relaying(d)' /\ Reading(d)' /\ InOrder(d)'
  <2>1. CASE d = c BY <2>1
  <2>2. CASE d # c
    <3>1. call'[d] = call[d] BY <1>2, <2>2
    <3>2. Relaying(d)'
      <4>1. Relaying(d) BY DEF IInv
      <4> QED BY <3>1, <4>1 DEF Relaying
    <3>3. Reading(d)' /\ InOrder(d)' BY <3>1 DEF IInv, Reading, InOrder
    <3> QED BY <3>2, <3>3
  <2> QED BY <2>1, <2>2
<1>4. ASSUME NEW d \in Calls, NEW e \in Calls PROVE Apart(d, e)'
  <2>1. CASE d # c /\ e # c BY <2>1, <1>2 DEF IInv, Apart
  <2>2. CASE d = c BY <2>2
  <2>3. CASE e = c
    <3>1. Apart(c, d)' OBVIOUS
    <3> QED BY <2>3, <3>1 DEF Apart
  <2> QED BY <2>1, <2>2, <2>3
<1>5. \A d \in Calls : answer'[d] = answer[d] \/ answer'[d].to = "none"
  BY DEF IInv, TypeOK, NoAnswer
<1>6. AllOrNothing'
  BY DEF IInv, AllOrNothing, ToRelay
<1>7. AcceptedIsTracked' /\ StatusComplete'
  BY <1>5 DEF IInv, AcceptedIsTracked, StatusComplete, ToRelay
<1> QED BY <1>1, <1>3, <1>4, <1>6, <1>7 DEF IInv

\* The initial state is in the invariant.
LEMMA InitInv == Init => IInv
BY APIAssumption DEF Init, IInv, TypeOK, Relaying, Reading, InOrder, Apart, AllOrNothing,
    AcceptedIsTracked, StatusComplete, Idle, CallAt, NoAnswer, Code

\* A call may always end without having written: nothing it inserted stays.
LEMMA EndInv ==
    ASSUME IInv, NEW c \in Calls, NEW to \in {"Relay", "Status"}, NEW h \in Hash, NEW code \in Code,
           NEW packets \in SUBSET Packet, Answer(c, to, h, code, packets),
           UNCHANGED <<executed, requests, rows>>, cached' \in SUBSET Hash,
           to = "Relay" => code # "OK",
           to = "Status" /\ code = "OK" => packets = ToRelay(h)
    PROVE  IInv'
<1>1. TypeOK'
  BY DEF IInv, TypeOK, Answer, Idle, CallAt
<1>2. \A d \in Calls : Relaying(d)' /\ Reading(d)' /\ InOrder(d)'
  BY DEF IInv, TypeOK, Relaying, Reading, InOrder, Answer, Idle, CallAt
<1>3. \A d, e \in Calls : Apart(d, e)'
  BY DEF IInv, TypeOK, Apart, Answer, Idle, CallAt
<1>4. AllOrNothing'
  BY DEF IInv, AllOrNothing, ToRelay
<1>5. AcceptedIsTracked' /\ StatusComplete'
  BY DEF IInv, TypeOK, AcceptedIsTracked, StatusComplete, Answer, ToRelay
<1> QED BY <1>1, <1>2, <1>3, <1>4, <1>5 DEF IInv

\* A step that only moves one call keeps what the tables and the answers satisfy.
LEMMA TablesKept ==
    ASSUME IInv, UNCHANGED <<executed, requests, rows, answer>>
    PROVE  AllOrNothing' /\ AcceptedIsTracked' /\ StatusComplete'
BY DEF IInv, AllOrNothing, AcceptedIsTracked, StatusComplete, ToRelay

\* The chain only adds to what it has executed.
LEMMA ExecuteInv == ASSUME IInv, NEW t \in Tx, Execute(t) PROVE IInv'
<1> USE APIAssumption DEF Execute
<1>1. TypeOK' BY DEF IInv, TypeOK
<1>2. \A d \in Calls : Relaying(d)' /\ Reading(d)' /\ InOrder(d)'
  BY DEF IInv, TypeOK, Relaying, Reading, InOrder, ToRelay
<1>3. \A d, e \in Calls : Apart(d, e)' BY DEF IInv, Apart
<1>4. AllOrNothing' BY DEF IInv, AllOrNothing, ToRelay
<1>5. AcceptedIsTracked' BY DEF IInv, TypeOK, AcceptedIsTracked, ToRelay
<1>6. StatusComplete' BY DEF IInv, StatusComplete, ToRelay
<1> QED BY <1>1, <1>2, <1>3, <1>4, <1>5, <1>6 DEF IInv

\* Nothing of it depends on the lookups that are kept.
LEMMA ExpiryInv == ASSUME IInv, NEW h \in Hash, CacheExpires(h) PROVE IInv'
<1> USE DEF CacheExpires
<1>1. TypeOK' BY DEF IInv, TypeOK
<1>2. \A d \in Calls : Relaying(d)' /\ Reading(d)' /\ InOrder(d)'
  BY DEF IInv, Relaying, Reading, InOrder, ToRelay
<1>3. \A d, e \in Calls : Apart(d, e)' BY DEF IInv, Apart
<1> QED BY <1>1, <1>2, <1>3, TablesKept DEF IInv

\* A call begins: Relay after its checks, Status after the first query.
LEMMA BeginInv ==
    ASSUME IInv, NEW c \in Calls, NEW h \in Hash,
           BeginTx(c, h) \/ GetRelayRequest(c, h)
    PROVE  IInv'
<1> USE APIAssumption
<1>1. CASE BeginTx(c, h)
  <2> DEFINE r == [at |-> "request", hash |-> h, todo |-> PacketsOf[TxOf[h]],
                   request |-> FALSE, inserted |-> {}]
  <2>1. call' = [call EXCEPT ![c] = r] /\ r \in Call
    BY <1>1 DEF BeginTx, SendPacketsFromTx, TxExecutionStatus, CallAt, Call
  <2>2. /\ executed[TxOf[h]] = "SUCCESS" /\ TxOf[h] \notin Blacklisted
        /\ UNCHANGED <<executed, cached, requests, rows>>
        /\ answer' = [answer EXCEPT ![c] = NoAnswer]
    BY <1>1 DEF BeginTx, SendPacketsFromTx, TxExecutionStatus
  <2>3. call'[c] = r BY <2>1 DEF IInv, TypeOK
  <2>4. Relaying(c)' /\ Reading(c)' /\ InOrder(c)'
    BY <2>2, <2>3 DEF Relaying, Reading, InOrder, ToRelay
  <2>5. \A d \in Calls : Apart(c, d)' BY <2>3 DEF Apart
  <2> QED BY <2>1, <2>2, <2>4, <2>5, OneCallInv
<1>2. CASE GetRelayRequest(c, h) /\ HasRequest(h)
  <2> DEFINE r == [at |-> "rows", hash |-> h, todo |-> {}, request |-> FALSE, inserted |-> {}]
  <2>1. call' = [call EXCEPT ![c] = r] /\ r \in Call
    BY <1>2 DEF GetRelayRequest, CallAt, Call
  <2>2. /\ h \in requests /\ UNCHANGED <<executed, cached, requests, rows>>
        /\ answer' = [answer EXCEPT ![c] = NoAnswer]
    BY <1>2 DEF GetRelayRequest, HasRequest
  <2>3. call'[c] = r BY <2>1 DEF IInv, TypeOK
  <2>4. Relaying(c)' /\ Reading(c)' /\ InOrder(c)'
    BY <2>2, <2>3 DEF Relaying, Reading, InOrder
  <2>5. \A d \in Calls : Apart(c, d)' BY <2>3 DEF Apart
  <2> QED BY <2>1, <2>2, <2>4, <2>5, OneCallInv
<1>3. CASE GetRelayRequest(c, h) /\ ~HasRequest(h)
  <2>1. cached' \in SUBSET Hash BY <1>3 DEF GetRelayRequest, IInv, TypeOK
  <2> QED BY <1>3, <2>1, EndInv DEF GetRelayRequest, Code
<1> QED BY <1>1, <1>2, <1>3

\* The inserts of a call: each waits until it has its key for itself.
LEMMA InsertInv ==
    ASSUME IInv, NEW c \in Calls,
           \/ InsertRelayRequest(c)
           \/ \E p \in Packet : SkipPacket(c, p) \/ InsertIBCV2Transfer(c, p)
    PROVE  IInv'
<1> USE APIAssumption
<1>0. call[c] \in Call /\ Relaying(c) /\ InOrder(c) BY DEF IInv, TypeOK, Call
<1>1. CASE InsertRelayRequest(c)
  <2> DEFINE r == [call[c] EXCEPT !.at = "transfers", !.request = InsertsRequest(call[c].hash)]
  <2>1. call' = [call EXCEPT ![c] = r] BY <1>1 DEF InsertRelayRequest, IInv, TypeOK
  <2>2. r \in Call BY <1>0 DEF Call, InsertsRequest
  <2>3. call'[c] = r /\ \A d \in Calls \ {c} : call'[d] = call[d]
    BY <2>1 DEF IInv, TypeOK
  <2>4. /\ r.at = "transfers" /\ r.hash = call[c].hash /\ r.todo = call[c].todo
        /\ r.inserted = call[c].inserted /\ r.request = (call[c].hash \notin requests)
    BY <1>0 DEF Call, InsertsRequest
  <2> HIDE DEF r
  <2>5. call[c].at = "request" /\ UNCHANGED <<executed, cached, requests, rows, answer>>
    BY <1>1 DEF InsertRelayRequest
  <2>6. Relaying(c)' /\ Reading(c)'
    BY <1>0, <2>3, <2>4, <2>5 DEF Relaying, Reading, ToRelay
  <2>0. InOrder(c)' BY <1>0, <2>3, <2>4 DEF InOrder
  <2>7. ASSUME NEW d \in Calls, d # c PROVE Apart(c, d)'
    <3>1. call'[d] = call[d] /\ ~(call[d].request /\ call[d].hash = call[c].hash)
      BY <1>1, <2>3, <2>7 DEF InsertRelayRequest
    <3>2. call'[c].hash = call[c].hash /\ call'[c].inserted = {}
      BY <1>0, <2>3, <2>4, <2>5 DEF Relaying
    <3> QED BY <3>1, <3>2 DEF Apart
  <2>8. \A d \in Calls : Apart(c, d)' BY <2>7 DEF Apart
  <2> QED BY <2>0, <2>1, <2>2, <2>4, <2>5, <2>6, <2>8, OneCallInv
<1>2. ASSUME NEW p \in Packet, SkipPacket(c, p) PROVE IInv'
  <2> DEFINE r == [call[c] EXCEPT !.todo = call[c].todo \ {p}]
  <2>1. call' = [call EXCEPT ![c] = r] BY <1>2 DEF SkipPacket, IInv, TypeOK
  <2>2. r \in Call BY <1>0 DEF Call
  <2>3. call'[c] = r /\ \A d \in Calls \ {c} : call'[d] = call[d]
    BY <2>1 DEF IInv, TypeOK
  <2>4. /\ r.at = call[c].at /\ r.hash = call[c].hash /\ r.todo = call[c].todo \ {p}
        /\ r.inserted = call[c].inserted /\ r.request = call[c].request
    BY <1>0 DEF Call
  <2> HIDE DEF r
  <2>5. /\ call[c].at = "transfers" /\ p \notin Known
        /\ UNCHANGED <<executed, cached, requests, rows, answer>>
    BY <1>2 DEF SkipPacket
  <2>6. Relaying(c)' /\ Reading(c)'
    BY <1>0, <2>3, <2>4, <2>5 DEF Relaying, Reading, ToRelay
  <2>0. InOrder(c)' BY <1>0, <2>3, <2>4 DEF InOrder
  <2>7. \A d \in Calls : Apart(c, d)'
    BY <2>3, <2>4 DEF IInv, Apart
  <2> QED BY <2>0, <2>1, <2>2, <2>4, <2>5, <2>6, <2>7, OneCallInv
<1>3. ASSUME NEW p \in Packet, InsertIBCV2Transfer(c, p) PROVE IInv'
  <2> DEFINE r == [call[c] EXCEPT !.todo = call[c].todo \ {p},
                                  !.inserted = call[c].inserted \cup {p}]
  <2>1. call' = [call EXCEPT ![c] = r] BY <1>3 DEF InsertIBCV2Transfer, IInv, TypeOK
  <2>2. r \in Call BY <1>0 DEF Call
  <2>3. call'[c] = r /\ \A d \in Calls \ {c} : call'[d] = call[d]
    BY <2>1 DEF IInv, TypeOK
  <2>4. /\ r.at = call[c].at /\ r.hash = call[c].hash /\ r.todo = call[c].todo \ {p}
        /\ r.inserted = call[c].inserted \cup {p} /\ r.request = call[c].request
    BY <1>0 DEF Call
  <2> HIDE DEF r
  <2>5. /\ call[c].at = "transfers" /\ p \in Known /\ p \in call[c].todo /\ rows[p] = None
        /\ UNCHANGED <<executed, cached, requests, rows, answer>>
    BY <1>3 DEF InsertIBCV2Transfer, NextPacket
  <2>6. Relaying(c)' /\ Reading(c)'
    BY <1>0, <2>3, <2>4, <2>5 DEF Relaying, Reading, ToRelay
  <2>0. InOrder(c)'
    <3>3. p \in Nat /\ call[c].todo \subseteq Nat BY <1>0 DEF Call
    <3>2. \A q \in call[c].todo : p <= q BY <1>3 DEF InsertIBCV2Transfer, NextPacket
    <3>1. \A q \in call[c].todo \ {p} : p < q BY <3>2, <3>3
    <3> QED BY <1>0, <2>3, <2>4, <3>1 DEF InOrder
  <2>7. ASSUME NEW d \in Calls, d # c PROVE Apart(c, d)'
    <3>1. call'[d] = call[d] /\ p \notin call[d].inserted
      BY <1>3, <2>3, <2>7 DEF InsertIBCV2Transfer, Unlocked
    <3>2. Apart(c, d) BY DEF IInv
    <3> QED BY <2>3, <2>4, <2>7, <3>1, <3>2 DEF Apart
  <2>8. \A d \in Calls : Apart(c, d)' BY <2>7 DEF Apart
  <2> QED BY <2>0, <2>1, <2>2, <2>4, <2>5, <2>6, <2>8, OneCallInv
<1> QED BY <1>1, <1>2, <1>3

\* A commit makes the request and all its rows visible at once.
LEMMA CommitInv ==
    ASSUME IInv, NEW c \in Calls, NEW code \in {"OK", "Internal"}, Commit(c, code)
    PROVE  IInv'
<1> DEFINE h == call[c].hash
<1>1. /\ call[c].at = "transfers" /\ call[c].todo = {}
      /\ requests' = IF call[c].request THEN requests \cup {h} ELSE requests
      /\ rows' = [p \in Packet |-> IF p \in call[c].inserted THEN h ELSE rows[p]]
      /\ answer' = [answer EXCEPT ![c] = [to |-> "Relay", hash |-> h, code |-> code, packets |-> {}]]
      /\ call' = [call EXCEPT ![c] = Idle]
      /\ executed' = executed /\ cached' = cached
  BY DEF Commit, LoopEnds, Answer
<1>2. /\ h \in Hash /\ ToRelay(h) = call[c].inserted /\ \A p \in call[c].inserted : rows[p] = None
      /\ executed[TxOf[h]] = "SUCCESS" /\ TxOf[h] \notin Blacklisted
      /\ call[c].request => h \notin requests
      /\ ~call[c].request => h \in requests
  <2>1. Relaying(c) BY DEF IInv
  <2>2. ToRelay(h) \subseteq call[c].inserted \cup {} /\ call[c].inserted \subseteq ToRelay(h)
    BY <1>1, <2>1 DEF Relaying
  <2>3. ToRelay(h) = call[c].inserted BY <2>2
  <2> HIDE DEF h
  <2> QED BY <1>1, <2>1, <2>3 DEF Relaying, h
<1>3. ToRelay(h) \subseteq Packet BY <1>2, ToRelayPackets
<1>4. h # None BY <1>2, APIAssumption
<1>5. ~call[c].request => call[c].inserted = {}
  BY <1>2, <1>4 DEF IInv, AllOrNothing
<1> HIDE DEF h
<1>6. h \in requests' /\ requests \subseteq requests' /\ requests' \subseteq requests \cup {h}
  BY <1>1, <1>2
<1>7. TypeOK'
  <2>1. call \in [Calls -> Call]
    BY DEF IInv, TypeOK, Call
  <2>2. call' \in [Calls -> Call]
    BY <1>1, <2>1 DEF Idle, CallAt, Call
  <2>3. answer' \in [Calls -> [to : {"none", "Relay", "Status"}, hash : Hash \cup {None},
                             code : Code, packets : SUBSET Packet]]
    BY <1>1, <1>2 DEF IInv, TypeOK, Code
  <2>4. rows' \in [Packet -> Hash \cup {None}] /\ requests' \in SUBSET Hash
    BY <1>1, <1>2 DEF IInv, TypeOK
  <2>5. \A d \in Calls : call'[d].at = "idle" => call'[d] = Idle
    BY <1>1, <2>1 DEF IInv, TypeOK
  <2> QED BY <1>1, <2>2, <2>3, <2>4, <2>5 DEF IInv, TypeOK, Call
<1>8. ASSUME NEW d \in Calls PROVE Relaying(d)' /\ Reading(d)' /\ InOrder(d)'
  <2>1. CASE d = c BY <2>1, <1>1 DEF IInv, TypeOK, Relaying, Reading, InOrder, Idle, CallAt
  <2>2. CASE d # c
    <3>1. call'[d] = call[d] /\ Apart(c, d) BY <1>1, <2>2 DEF IInv, TypeOK
    <3>2. \A p \in call[d].inserted : rows'[p] = rows[p]
      BY <1>1, <2>2, <3>1 DEF IInv, TypeOK, Apart
    <3>3. call[d].request /\ call[d].hash \notin requests => call[d].hash \notin requests'
      BY <1>1, <1>6, <2>2, <3>1 DEF Apart, h
    <3>4. Relaying(d)
      BY DEF IInv
    <3>5. Relaying(d)'
      BY <1>1, <1>6, <3>1, <3>2, <3>3, <3>4 DEF Relaying, ToRelay
    <3>6. Reading(d)' /\ InOrder(d)'
      BY <1>6, <3>1 DEF IInv, Reading, InOrder
    <3> QED BY <3>5, <3>6
  <2> QED BY <2>1, <2>2
<1>9. ASSUME NEW d \in Calls, NEW e \in Calls PROVE Apart(d, e)'
  <2>1. CASE d # c /\ e # c
    <3>1. call'[d] = call[d] /\ call'[e] = call[e] BY <1>1, <2>1 DEF IInv, TypeOK
    <3> QED BY <3>1 DEF IInv, Apart
  <2>2. CASE d = c \/ e = c
    <3>1. ~call'[c].request /\ call'[c].inserted = {}
      BY <1>1 DEF IInv, TypeOK, Idle, CallAt
    <3> QED BY <2>2, <3>1 DEF Apart
  <2> QED BY <2>1, <2>2
<1>10. AllOrNothing'
  <2>1. ASSUME NEW g \in requests', NEW p \in ToRelay(g) PROVE rows'[p] = g
    <3>1. g \in Hash /\ p \in Packet BY <1>2, <1>6, ToRelayPackets DEF IInv, TypeOK
    <3>2. CASE g = h /\ call[c].request BY <1>1, <1>2, <3>1, <3>2
    <3>3. CASE g \in requests
      <4>1. rows[p] = g BY <3>3 DEF IInv, AllOrNothing
      <4>2. g # None BY <3>1, APIAssumption
      <4> QED BY <1>1, <1>2, <3>1, <4>1, <4>2
    <3> QED BY <1>1, <3>2, <3>3
  <2>2. ASSUME NEW p \in Packet, rows'[p] # None PROVE rows'[p] \in requests' /\ p \in ToRelay(rows'[p])
    <3>1. CASE p \in call[c].inserted BY <3>1, <1>1, <1>2, <1>6
    <3>2. CASE p \notin call[c].inserted BY <3>2, <2>2, <1>1, <1>6 DEF IInv, AllOrNothing
    <3> QED BY <3>1, <3>2
  <2> QED BY <2>1, <2>2 DEF AllOrNothing, ToRelay
<1>11. \A p \in Packet : rows[p] # None => rows'[p] # None
  BY <1>1, <1>4
<1>12. AcceptedIsTracked'
  <2> SUFFICES ASSUME NEW d \in Calls, answer'[d].to = "Relay", answer'[d].code = "OK"
               PROVE  /\ \A p \in ToRelay(answer'[d].hash) : rows'[p] # None
                      /\ executed[TxOf[answer'[d].hash]] = "SUCCESS"
                      /\ TxOf[answer'[d].hash] \notin Blacklisted
    BY <1>1 DEF AcceptedIsTracked, ToRelay
  <2>1. CASE d = c
    <3>1. answer'[d].hash = h BY <2>1, <1>1 DEF IInv, TypeOK
    <3> QED BY <3>1, <1>1, <1>2, <1>3, <1>4
  <2>2. CASE d # c
    <3>1. answer'[d] = answer[d] BY <2>2, <1>1 DEF IInv, TypeOK
    <3>2. \A p \in ToRelay(answer[d].hash) : rows[p] # None /\ p \in Packet
      BY <3>1, APIAssumption DEF IInv, AcceptedIsTracked, ToRelay
    <3> QED BY <3>1, <3>2, <1>11 DEF IInv, AcceptedIsTracked
  <2> QED BY <2>1, <2>2
<1>13. StatusComplete'
  BY <1>1 DEF IInv, TypeOK, StatusComplete, ToRelay
<1> QED BY <1>7, <1>8, <1>9, <1>10, <1>12, <1>13 DEF IInv

\* The answers that write nothing.
LEMMA AnswerInv ==
    ASSUME IInv, NEW c \in Calls,
           \/ RelayError(c) \/ GetTransfersBySourceTx(c)
           \/ \E p \in Packet : DuplicateTransfer(c, p)
           \/ \E h \in Hash : Reject(c, h) \/ StatusError(c, h)
    PROVE  IInv'
<1>0. cached' \in SUBSET Hash
  BY DEF RelayError, GetTransfersBySourceTx, DuplicateTransfer, Reject, StatusError, IInv, TypeOK
<1>1. CASE RelayError(c)
  <2>1. call[c].hash \in Hash BY <1>1 DEF RelayError, IInv, Relaying
  <2>2. /\ Answer(c, "Relay", call[c].hash, "Internal", {})
        /\ UNCHANGED <<executed, requests, rows>>
    BY <1>1 DEF RelayError
  <2>3. "Internal" \in Code /\ "Internal" # "OK" BY DEF Code
  <2> QED BY <1>0, <2>1, <2>2, <2>3, EndInv
<1>2. CASE GetTransfersBySourceTx(c)
  <2> DEFINE h == call[c].hash
  <2>1. h \in requests /\ h \in Hash
    BY <1>2 DEF GetTransfersBySourceTx, IInv, Reading, TypeOK
  <2>2. h # None /\ ToRelay(h) \subseteq Packet BY <2>1, APIAssumption, ToRelayPackets
  <2>3. {p \in Packet : rows[p] = h} = ToRelay(h)
    BY <2>1, <2>2 DEF IInv, AllOrNothing
  <2> QED BY <1>0, <1>2, <2>1, <2>2, <2>3, EndInv DEF GetTransfersBySourceTx, Code
<1>3. ASSUME NEW p \in Packet, DuplicateTransfer(c, p) PROVE IInv'
  <2>1. call[c].hash \in Hash BY <1>3 DEF DuplicateTransfer, IInv, Relaying
  <2>2. /\ Answer(c, "Relay", call[c].hash, "Internal", {})
        /\ UNCHANGED <<executed, requests, rows>>
    BY <1>3 DEF DuplicateTransfer
  <2>3. "Internal" \in Code /\ "Internal" # "OK" BY DEF Code
  <2> QED BY <1>0, <2>1, <2>2, <2>3, EndInv
<1>4. ASSUME NEW h \in Hash, Reject(c, h) PROVE IInv'
  <2>1. PICK code \in Rejections(h) : Answer(c, "Relay", h, code, {})
    BY <1>4 DEF Reject
  <2>2. code \in Code /\ code # "OK"
    BY DEF Rejections, TxExecutionStatus, Code
  <2>3. UNCHANGED <<executed, requests, rows>> BY <1>4 DEF Reject
  <2> QED BY <1>0, <2>1, <2>2, <2>3, EndInv
<1>5. ASSUME NEW h \in Hash, StatusError(c, h) PROVE IInv'
  BY <1>0, <1>5, EndInv DEF StatusError, Code
<1> QED BY <1>1, <1>2, <1>3, <1>4, <1>5

\* IInv is an inductive invariant of the handlers.
THEOREM APIInvariance == Spec => []IInv
<1>1. IInv /\ [Next]_vars => IInv'
  <2> SUFFICES ASSUME IInv, [Next]_vars PROVE IInv'
    OBVIOUS
  <2>0. ASSUME NEW h \in Hash, CacheExpires(h) PROVE IInv' BY <2>0, ExpiryInv
  <2>1. ASSUME NEW t \in Tx, Execute(t) PROVE IInv' BY <2>1, ExecuteInv
  <2>2. ASSUME NEW c \in Calls, GoOn(c) \/ Commit(c, "Internal") \/ RelayError(c) PROVE IInv'
    BY <2>2, InsertInv, CommitInv, AnswerInv DEF GoOn
  <2>3. ASSUME NEW c \in Calls, NEW h \in Hash,
               Reject(c, h) \/ BeginTx(c, h) \/ GetRelayRequest(c, h) \/ StatusError(c, h)
        PROVE  IInv'
    BY <2>3, BeginInv, AnswerInv
  <2>4. CASE UNCHANGED vars
    <3>1. TypeOK' BY <2>4 DEF vars, IInv, TypeOK
    <3>2. \A d \in Calls : Relaying(d)' /\ Reading(d)' /\ InOrder(d)'
      BY <2>4 DEF vars, IInv, Relaying, Reading, InOrder, ToRelay
    <3>3. \A d, e \in Calls : Apart(d, e)' BY <2>4 DEF vars, IInv, Apart
    <3> QED BY <2>4, <3>1, <3>2, <3>3, TablesKept DEF vars, IInv
  <2> QED BY <2>0, <2>1, <2>2, <2>3, <2>4 DEF Next
<1> QED BY <1>1, InitInv, PTL DEF Spec

\* A hash whose transaction Relay goes on with is not kept as one that was not found.
THEOREM NoticedSound == Spec => []Noticed
<1>1. Init => Noticed
  BY DEF Init, Noticed
<1>2. IInv /\ Noticed /\ [Next]_vars => Noticed'
  <2> SUFFICES ASSUME IInv, Noticed, [Next]_vars,
                      NEW d \in Calls, call'[d].at \in {"request", "transfers"}
               PROVE  call'[d].hash \notin cached'
    BY DEF Noticed
  <2>1. ASSUME cached' \subseteq cached, call' = call PROVE call'[d].hash \notin cached'
    BY <2>1 DEF Noticed
  <2>2. ASSUME NEW c \in Calls, NEW h \in Hash, BeginTx(c, h) PROVE call'[d].hash \notin cached'
    <3>1. h \notin cached /\ cached' = cached
      BY <2>2 DEF BeginTx, TxExecutionStatus
    <3>2. call'[d] = call[d] \/ call'[d].hash = h
      BY <2>2 DEF BeginTx, CallAt, IInv, TypeOK
    <3> QED BY <3>1, <3>2 DEF Noticed
  <2>3. ASSUME NEW c \in Calls, NEW h \in Hash, Reject(c, h) PROVE call'[d].hash \notin cached'
    <3>1. call'[d] = call[d]
      BY <2>3 DEF Reject, Answer, Idle, CallAt, IInv, TypeOK
    <3>2. Relaying(d) /\ call[d].hash \notin cached
      BY <3>1 DEF IInv, Noticed
    <3>3. executed[TxOf[call[d].hash]] = "SUCCESS"
      BY <3>1, <3>2 DEF Relaying
    <3>4. cached' = cached \/ (cached' = cached \cup {h} /\ "NotFound" \in Rejections(h))
      BY <2>3 DEF Reject
    <3>5. "NotFound" \in Rejections(h) => h \in cached \/ executed[TxOf[h]] = "missing"
      BY DEF Rejections, TxExecutionStatus
    <3> QED BY <3>1, <3>2, <3>3, <3>4, <3>5
  <2>4. ASSUME cached' = cached, NEW c \in Calls, NEW r, call' = [call EXCEPT ![c] = r],
               \/ r.at \notin {"request", "transfers"}
               \/ call[c].at \in {"request", "transfers"} /\ r.hash = call[c].hash
        PROVE  call'[d].hash \notin cached'
    <3>1. call'[d] = IF d = c THEN r ELSE call[d]
      BY <2>4 DEF IInv, TypeOK
    <3> QED BY <2>4, <3>1 DEF Noticed
  <2>5. ASSUME NEW c \in Calls, cached' = cached, call' = [call EXCEPT ![c] = Idle]
        PROVE  call'[d].hash \notin cached'
    <3>1. Idle.at \notin {"request", "transfers"} BY DEF Idle, CallAt
    <3> QED BY <2>4, <2>5, <3>1
  <2>6. ASSUME NEW c \in Calls,
               \/ Commit(c, "OK") \/ Commit(c, "Internal")
               \/ RelayError(c) \/ GetTransfersBySourceTx(c)
               \/ \E p \in Packet : DuplicateTransfer(c, p)
               \/ \E h \in Hash : StatusError(c, h)
        PROVE  call'[d].hash \notin cached'
    <3>1. cached' = cached /\ call' = [call EXCEPT ![c] = Idle]
      BY <2>6 DEF Commit, RelayError, GetTransfersBySourceTx, DuplicateTransfer, StatusError, Answer
    <3> QED BY <2>5, <3>1
  <2>7. ASSUME NEW c \in Calls, NEW h \in Hash, GetRelayRequest(c, h)
        PROVE  call'[d].hash \notin cached'
    <3>1. CASE HasRequest(h)
      <4>1. cached' = cached /\ call' = [call EXCEPT ![c] = CallAt("rows", h, {})]
        BY <2>7, <3>1 DEF GetRelayRequest
      <4>2. CallAt("rows", h, {}).at \notin {"request", "transfers"} BY DEF CallAt
      <4> QED BY <2>4, <4>1, <4>2
    <3>2. CASE ~HasRequest(h)
      BY <2>5, <2>7, <3>2 DEF GetRelayRequest, Answer
    <3> QED BY <3>1, <3>2
  <2>8. ASSUME NEW c \in Calls,
               \/ InsertRelayRequest(c)
               \/ \E p \in Packet : SkipPacket(c, p) \/ InsertIBCV2Transfer(c, p)
        PROVE  call'[d].hash \notin cached'
    <3>1. call[c] \in Call /\ call \in [Calls -> Call] BY DEF IInv, TypeOK, Call
    <3>2. call[c].at \in {"request", "transfers"} /\ cached' = cached
      BY <2>8 DEF InsertRelayRequest, SkipPacket, InsertIBCV2Transfer
    <3>3. CASE d = c
      <4>1. call'[d].hash = call[d].hash
        <5>1. CASE InsertRelayRequest(c) BY <5>1, <3>1, <3>3 DEF InsertRelayRequest, Call
        <5>2. ASSUME NEW p \in Packet, SkipPacket(c, p) PROVE call'[d].hash = call[d].hash
          BY <5>2, <3>1, <3>3 DEF SkipPacket, Call
        <5>3. ASSUME NEW p \in Packet, InsertIBCV2Transfer(c, p) PROVE call'[d].hash = call[d].hash
          BY <5>3, <3>1, <3>3 DEF InsertIBCV2Transfer, Call
        <5> QED BY <2>8, <5>1, <5>2, <5>3
      <4> QED BY <3>2, <3>3, <4>1 DEF Noticed
    <3>4. CASE d # c
      <4>1. call'[d] = call[d]
        BY <2>8, <3>1, <3>4 DEF InsertRelayRequest, SkipPacket, InsertIBCV2Transfer
      <4> QED BY <3>2, <4>1 DEF Noticed
    <3> QED BY <3>3, <3>4
  <2>9. ASSUME NEW c \in Calls, GoOn(c) PROVE call'[d].hash \notin cached'
    BY <2>6, <2>8, <2>9 DEF GoOn
  <2>10. CASE UNCHANGED vars \/ (\E t \in Tx : Execute(t)) \/ (\E h \in Hash : CacheExpires(h))
    BY <2>1, <2>10 DEF vars, Execute, CacheExpires
  <2> QED BY <2>2, <2>3, <2>6, <2>7, <2>9, <2>10 DEF Next
<1> QED BY <1>1, <1>2, APIInvariance, PTL DEF Spec

\* Calls, tables and answers keep their types.
THEOREM APITypes == Spec => []TypeOK
BY APIInvariance, PTL DEF IInv

\* A request and its rows are in the database together or not at all, whatever calls run
\* at a time and wherever one stops.
THEOREM AllOrNothingSound == Spec => []AllOrNothing
BY APIInvariance, PTL DEF IInv

\* All packets of a transaction that Relay accepted are tracked.
THEOREM AcceptedSound == Spec => []AcceptedIsTracked
BY APIInvariance, PTL DEF IInv

\* Status never shows a part of a transaction's packets.
THEOREM StatusSound == Spec => []StatusComplete
BY APIInvariance, PTL DEF IInv

-----------------------------------------------------------------------------
(* Waiting for the inserts of other calls.                                 *)

\* Finitely many numbers have a largest one: a smallest set without one would have none after
\* an element is taken out of it either.
LEMMA FiniteMax ==
    ASSUME NEW S \in SUBSET Nat, IsFiniteSet(S), S # {}
    PROVE  \E m \in S : \A n \in S : n <= m
<1> DEFINE NoMax == {T \in FiniteSubsetsOf(S) : T # {} /\ \A m \in T : \E n \in T : ~(n <= m)}
<1>1. SUFFICES ASSUME NoMax # {} PROVE FALSE
  <2>1. S \in FiniteSubsetsOf(S) BY DEF FiniteSubsetsOf
  <2> QED BY <1>1, <2>1
<1>2. PICK T \in NoMax : \A U \in NoMax : ~(<<U, T>> \in StrictSubsetOrdering(S))
  BY <1>1, FS_StrictSubsetOrderingWellFounded, WFMin
<1>3. PICK x \in T : TRUE OBVIOUS
<1>4. T \subseteq S /\ IsFiniteSet(T) /\ T \ {x} \subseteq S /\ IsFiniteSet(T \ {x})
  BY FS_RemoveElement DEF FiniteSubsetsOf
<1>5. T \ {x} \notin NoMax
  BY <1>2, <1>4 DEF StrictSubsetOrdering, FiniteSubsetsOf
<1>6. CASE T \ {x} = {} BY <1>3, <1>4, <1>6
<1>7. CASE T \ {x} # {}
  <2>1. PICK m \in T \ {x} : \A n \in T \ {x} : n <= m
    BY <1>4, <1>5, <1>7 DEF FiniteSubsetsOf
  <2>2. \A n \in T : n \in Nat BY <1>4
  <2>3. CASE x <= m BY <2>1, <2>3
  <2>4. CASE ~(x <= m)
    <3>1. \A n \in T : n <= x BY <2>1, <2>2, <2>4, <1>3
    <3> QED BY <3>1, <1>3
  <2> QED BY <2>3, <2>4
<1> QED BY <1>6, <1>7

\* Only a call that is in its loop is waited for.
LEMMA WaitedFor ==
    ASSUME IInv, NEW c \in Calls, NEW d \in Calls, WaitsFor(c, d)
    PROVE  call[d].at = "transfers"
<1>1. call[d].request \/ call[d].inserted # {}
  BY DEF WaitsFor
<1>2. call[d].at \in {"idle", "request", "transfers", "rows"}
  BY DEF IInv, TypeOK
<1>3. call[d].at # "idle"
  <2>1. ~Idle.request /\ Idle.inserted = {} BY DEF Idle, CallAt
  <2>2. call[d].at = "idle" => call[d] = Idle BY DEF IInv, TypeOK
  <2> HIDE DEF Idle
  <2> QED BY <1>1, <2>1, <2>2
<1>4. call[d].at \notin {"request", "rows"}
  BY <1>1 DEF IInv, Relaying, Reading
<1> QED BY <1>2, <1>3, <1>4

\* Calls of one transaction wait for calls that are further on in its packets.
LEMMA NoCircle == ASSUME IInv PROVE NoCircularWait
<1> SUFFICES ASSUME NEW S \in SUBSET Calls, S # {}, \A c \in S : \E d \in S : WaitsFor(c, d)
             PROVE  FALSE
  BY DEF NoCircularWait
<1>1. PICK a \in S : call[a].at = "transfers"
  BY WaitedFor
<1> DEFINE t == TxOf[call[a].hash]
           Ours(c) == call[c].at = "transfers" /\ TxOf[call[c].hash] = t
           N == {p \in PacketsOf[t] : \E c \in S : Ours(c) /\ NextPacket(c, p)}
<1>2. t \in Tx
  BY <1>1, APIAssumption DEF IInv, Relaying
<1> HIDE DEF t
<1>3. ASSUME NEW c \in S, Ours(c)
      PROVE  \E p \in N : NextPacket(c, p) /\ \E d \in S : p \in call[d].inserted /\ Ours(d)
  <2>1. PICK d \in S : WaitsFor(c, d) OBVIOUS
  <2>2. PICK p \in Known : NextPacket(c, p) /\ p \in call[d].inserted
    BY <1>3, <2>1 DEF WaitsFor
  <2>3. call[c].todo \subseteq PacketsOf[t] BY <1>3 DEF IInv, Relaying
  <2>4. p \in PacketsOf[t] BY <2>2, <2>3 DEF NextPacket
  <2>5. call[d].at = "transfers" BY <2>1, WaitedFor
  <2>6. call[d].hash \in Hash /\ call[d].inserted \subseteq ToRelay(call[d].hash)
    BY <2>5 DEF IInv, Relaying
  <2>7. TxOf[call[d].hash] \in Tx /\ p \in PacketsOf[TxOf[call[d].hash]]
    BY <2>2, <2>6, APIAssumption DEF ToRelay
  <2>8. Ours(d) BY <1>2, <2>4, <2>5, <2>7, APIAssumption
  <2> QED BY <1>3, <2>2, <2>4, <2>8
<1>4. N \subseteq Nat /\ IsFiniteSet(N)
  <2>1. IsFiniteSet(PacketsOf[t]) /\ PacketsOf[t] \subseteq Packet BY <1>2, APIAssumption
  <2>2. N \subseteq PacketsOf[t] OBVIOUS
  <2> HIDE DEF N
  <2> QED BY <2>1, <2>2, FS_Subset, APIAssumption
<1>5. N # {}
  <2>1. Ours(a) BY <1>1 DEF t
  <2> HIDE DEF N
  <2> QED BY <1>3, <2>1
<1>6. PICK m \in N : \A n \in N : n <= m
  <2> HIDE DEF N
  <2> QED BY <1>4, <1>5, FiniteMax
<1>7. PICK c \in S : Ours(c) /\ NextPacket(c, m) OBVIOUS
<1>8. PICK p \in N : NextPacket(c, p) /\ \E d \in S : p \in call[d].inserted /\ Ours(d)
  BY <1>3, <1>7
<1>9. PICK d \in S : p \in call[d].inserted /\ Ours(d) BY <1>8
<1>10. PICK q \in N : NextPacket(d, q) BY <1>3, <1>9
<1>11. p \in Nat /\ m \in Nat /\ q \in Nat /\ q <= m BY <1>4, <1>6
<1> HIDE DEF N, Ours
<1>12. p = m
  <2>1. p <= m /\ m <= p BY <1>7, <1>8 DEF NextPacket
  <2> QED BY <1>11, <2>1
<1>13. p < q BY <1>9, <1>10 DEF IInv, InOrder, NextPacket
<1> QED BY <1>11, <1>12, <1>13

\* However many calls relay one transaction at a time, and in whatever spellings of its hash,
\* the database never has to break a circle of them waiting for each other.
THEOREM NoCircularWaitSound == Spec => []NoCircularWait
BY APIInvariance, NoCircle, PTL

-----------------------------------------------------------------------------
(* The refinement of RelayService.                                         *)

\* What a call has inserted when its loop has ended is what the service accepts in one step.
LEMMA CommitAccepts ==
    ASSUME IInv, Noticed, NEW c \in Calls, NEW code \in {"OK", "Internal"}, Commit(c, code)
    PROVE  call[c].hash \in Hash /\ Service!Accept(c, call[c].hash)
<1> DEFINE h == call[c].hash
<1>1. /\ call[c].at = "transfers" /\ call[c].todo = {}
      /\ requests' = IF call[c].request THEN requests \cup {h} ELSE requests
      /\ rows' = [p \in Packet |-> IF p \in call[c].inserted THEN h ELSE rows[p]]
      /\ answer' = [answer EXCEPT ![c] = [to |-> "Relay", hash |-> h, code |-> code, packets |-> {}]]
      /\ executed' = executed /\ cached' = cached
  BY DEF Commit, LoopEnds, Answer
<1>2. Relaying(c) BY DEF IInv
<1>3. /\ h \in Hash /\ executed[TxOf[h]] = "SUCCESS" /\ TxOf[h] \notin Blacklisted
      /\ \A p \in call[c].inserted : rows[p] = None
      /\ ~call[c].request => h \in requests
      /\ h \notin cached
  BY <1>1, <1>2 DEF Relaying, Noticed
<1>4. ToRelay(h) = call[c].inserted
  <2>1. ToRelay(h) \subseteq call[c].inserted \cup {} /\ call[c].inserted \subseteq ToRelay(h)
    BY <1>1, <1>2 DEF Relaying
  <2> QED BY <2>1
<1> HIDE DEF h
<1>5. requests' = requests \cup {h}
  BY <1>1, <1>3
<1>6. Service!ToRelay(h) = call[c].inserted
  BY <1>4 DEF ToRelay, Service!ToRelay
<1>7. Service!Says(c, "Relay", h, code, {})
  BY <1>1 DEF Service!Says
<1>8. Service!Accept(c, h)
  BY <1>1, <1>3, <1>5, <1>6, <1>7 DEF Service!Accept, Service!Found
<1> QED BY <1>3, <1>8 DEF h

\* What Status reads in two queries is what the service answers in one step.
LEMMA ReadingIsStatus ==
    ASSUME IInv, NEW c \in Calls, GetTransfersBySourceTx(c)
    PROVE  call[c].hash \in Hash /\ Service!Status(c, call[c].hash)
<1> DEFINE h == call[c].hash
<1>1. h \in requests /\ h \in Hash
  BY DEF GetTransfersBySourceTx, IInv, Reading, TypeOK
<1>2. h # None /\ ToRelay(h) \subseteq Packet BY <1>1, APIAssumption, ToRelayPackets
<1>3. {p \in Packet : rows[p] = h} = ToRelay(h)
  BY <1>1, <1>2 DEF IInv, AllOrNothing
<1>4. Answer(c, "Status", h, "OK", ToRelay(h)) /\ UNCHANGED <<executed, cached, requests, rows>>
  BY <1>3 DEF GetTransfersBySourceTx
<1> QED BY <1>1, <1>4 DEF Answer, Service!Status, Service!Says, ToRelay, Service!ToRelay

\* A call of Relay that writes nothing gives a reason that holds.
LEMMA RejectionHasReason ==
    ASSUME IInv, NEW c \in Calls, NEW h \in Hash, NEW code \in Rejections(h) \cup {"Internal"},
           Answer(c, "Relay", h, code, {}), UNCHANGED <<executed, requests, rows>>,
           cached' = IF code = "NotFound" THEN cached \cup {h} ELSE cached
    PROVE  \E k \in Service!Code : Service!Reject(c, h, k)
<1>1. code \in Service!Code
  BY DEF Rejections, Service!Code
<1>2. Service!Reason(h, code)
  <2>1. /\ Service!Found(h) = TxExecutionStatus(h)
        /\ TxExecutionStatus(h) \in {"missing", "SUCCESS", "FAILED"}
    BY APIAssumption DEF IInv, TypeOK, TxExecutionStatus, Service!Found
  <2> QED BY <2>1 DEF Rejections, Service!Reason
<1>3. Service!Says(c, "Relay", h, code, {})
  BY DEF Answer, Service!Says
<1> QED BY <1>1, <1>2, <1>3 DEF Service!Reject

\* Every step of the handlers is a step of the service, or nothing to it.
LEMMA ServiceStep == ASSUME IInv, Noticed, [Next]_vars PROVE [Service!Next]_(Service!vars)
<1>0. ASSUME NEW h \in Hash, CacheExpires(h) PROVE Service!Next
  BY <1>0 DEF CacheExpires, Service!Notice, Service!Next
<1>1. ASSUME NEW t \in Tx, Execute(t) PROVE Service!Next
  BY <1>1 DEF Execute, Service!Execute, Service!Next
<1>2. ASSUME NEW c \in Calls, NEW code \in {"OK", "Internal"}, Commit(c, code) PROVE Service!Next
  BY <1>2, CommitAccepts DEF Service!Next
<1>3. ASSUME NEW c \in Calls, GetTransfersBySourceTx(c) PROVE Service!Next
  BY <1>3, ReadingIsStatus DEF Service!Next
<1>4. ASSUME NEW c \in Calls, NEW h \in Hash, NEW code \in Rejections(h) \cup {"Internal"},
             Answer(c, "Relay", h, code, {}), UNCHANGED <<executed, requests, rows>>,
             cached' = IF code = "NotFound" THEN cached \cup {h} ELSE cached
      PROVE  Service!Next
  BY <1>4, RejectionHasReason DEF Service!Next
<1>5. ASSUME NEW c \in Calls, RelayError(c) \/ \E p \in Packet : DuplicateTransfer(c, p)
      PROVE  Service!Next
  <2>1. call[c].hash \in Hash
    BY <1>5 DEF RelayError, DuplicateTransfer, IInv, Relaying
  <2>2. Answer(c, "Relay", call[c].hash, "Internal", {}) /\ UNCHANGED <<executed, cached, requests, rows>>
    BY <1>5 DEF RelayError, DuplicateTransfer
  <2> QED BY <1>4, <2>1, <2>2
<1>6. ASSUME NEW c \in Calls, NEW h \in Hash, Reject(c, h) PROVE Service!Next
  BY <1>4, <1>6 DEF Reject
<1>7. ASSUME NEW c \in Calls, NEW h \in Hash,
             BeginTx(c, h) \/ (GetRelayRequest(c, h) /\ HasRequest(h))
      PROVE  Service!Next
  <2>1. Service!Begin(c)
    BY <1>7 DEF BeginTx, GetRelayRequest, Service!Begin, NoAnswer, Service!NoAnswer
  <2> QED BY <2>1 DEF Service!Next
<1>8. ASSUME NEW c \in Calls, NEW h \in Hash,
             StatusError(c, h) \/ (GetRelayRequest(c, h) /\ ~HasRequest(h))
      PROVE  Service!Next
  <2>1. Service!Status(c, h)
    BY <1>8 DEF StatusError, GetRelayRequest, HasRequest, Answer, Service!Status, Service!Says
  <2> QED BY <2>1 DEF Service!Next
<1>9. ASSUME NEW c \in Calls,
             \/ InsertRelayRequest(c)
             \/ \E p \in Packet : SkipPacket(c, p) \/ InsertIBCV2Transfer(c, p)
      PROVE  UNCHANGED Service!vars
  BY <1>9 DEF InsertRelayRequest, SkipPacket, InsertIBCV2Transfer, Service!vars
<1>10. CASE UNCHANGED vars BY <1>10 DEF vars, Service!vars
<1>11. ASSUME NEW c \in Calls, GoOn(c) PROVE [Service!Next]_(Service!vars)
  BY <1>2, <1>3, <1>5, <1>9, <1>11 DEF GoOn
<1> QED BY <1>0, <1>1, <1>2, <1>5, <1>6, <1>7, <1>8, <1>10, <1>11 DEF Next

\* To its clients the API is RelayService: every Relay call tracks all packets of a transaction
\* in one step or none, every rejection has its reason in what the service knows of the chain, a
\* transaction it has found is never missing again, and Status shows all or nothing, however
\* the database transactions, queries and lookups of the calls interleave.
THEOREM ServiceRefinement == Spec => ImplementsService
<1>1. Init => Service!Init
  BY DEF Init, Service!Init, NoAnswer, Service!NoAnswer
<1>2. IInv /\ Noticed /\ [Next]_vars => [Service!Next]_(Service!vars)
  BY ServiceStep
<1> QED BY <1>1, <1>2, APIInvariance, NoticedSound, PTL DEF Spec, ImplementsService, Service!Spec
=============================================================================
