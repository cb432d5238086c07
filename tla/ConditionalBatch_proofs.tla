----------------------- MODULE ConditionalBatch_proofs -----------------------
(***************************************************************************)
(* The safety of a batch stage, for any number of transfers and workers    *)
(* and any size of batches and buffer.                                     *)
(***************************************************************************)
EXTENDS ConditionalBatch, FiniteSetTheorems, TLAPS

\* The channels are closed from the input to the output, each by a goroutine that has
\* nothing left to send on it.
ClosingOrder ==
    /\ "toBatch" \notin open => "in" \notin open /\ splitter = {}
    /\ "batches" \notin open => "toBatch" \notin open /\ collector = {}
    /\ "bufferedBatches" \notin open => "batches" \notin open /\ copier = {}
    /\ "batchResults" \notin open =>
          "bufferedBatches" \notin open /\ buffered = << >> /\ \A w \in Workers : work[w] = {}
    /\ "out" \notin open => "batchResults" \notin open /\ output = {}

\* What the goroutines hold: the splitter one transfer, the collector a batch that has room
\* as long as it is not sent, a worker that is done with a batch that batch.
Holding ==
    /\ \A a, b \in splitter : a = b
    /\ sending => collector # {}
    /\ ~sending => Cardinality(collector) < MaxSize
    /\ \A w \in finished : work[w] # {}

BInv == TypeOK /\ ClosingOrder /\ Holding

-----------------------------------------------------------------------------
\* What is left of a batch is a batch.
LEMMA SubBatch ==
    ASSUME NEW b \in Batch, NEW a \in SUBSET b
    PROVE  a \in Batch
<1>1. IsFiniteSet(b)
  BY BatchAssumption, FS_Subset DEF Batch
<1>2. IsFiniteSet(a) /\ Cardinality(a) <= Cardinality(b)
  BY <1>1, FS_Subset
<1>3. Cardinality(a) \in Nat /\ Cardinality(b) \in Nat
  BY <1>1, <1>2, FS_CardinalityType
<1> QED
  BY <1>2, <1>3, BatchAssumption DEF Batch

LEMMA NoTransfers == {} \in Batch /\ Cardinality({}) < MaxSize
  BY BatchAssumption, FS_EmptySet DEF Batch

\* The collector's batch with the splitter's transfer.
LEMMA Collected ==
    ASSUME TypeOK, Holding, Collect
    PROVE  /\ collector' \in Batch
           /\ sending' => collector' # {}
           /\ ~sending' => Cardinality(collector') < MaxSize
<1>1. PICK k \in Keys : splitter = {k}
  BY DEF TypeOK, Holding, Collect
<1>2. IsFiniteSet(collector) /\ collector \subseteq Keys
  BY BatchAssumption, FS_Subset DEF TypeOK, Batch
<1>3. Cardinality(collector) \in Nat
  BY <1>2, FS_CardinalityType
<1>4. collector' = collector \cup {k}
  BY <1>1 DEF Collect
<1>5. Cardinality(collector') <= Cardinality(collector) + 1 /\ Cardinality(collector') \in Nat
  <2>1. /\ IsFiniteSet(collector \cup {k})
        /\ Cardinality(collector \cup {k}) =
             IF k \in collector THEN Cardinality(collector) ELSE Cardinality(collector) + 1
    BY <1>2, FS_AddElement
  <2> QED
    BY <1>3, <1>4, <2>1
<1>6. Cardinality(collector) < MaxSize /\ (~sending' => Cardinality(collector) + 1 # MaxSize)
  BY DEF Holding, Collect
<1>7. collector' \subseteq Keys /\ collector' # {}
  BY <1>2, <1>4
<1>8. Cardinality(collector') <= MaxSize /\ (~sending' => Cardinality(collector') < MaxSize)
  BY <1>3, <1>5, <1>6, BatchAssumption
<1> QED
  BY <1>7, <1>8 DEF Batch

-----------------------------------------------------------------------------
LEMMA BInvInit == Init => BInv
<1> SUFFICES ASSUME Init PROVE BInv
  OBVIOUS
<1>1. buffered \in Seq(Batch) /\ Len(buffered) <= BufferSize
  BY BatchAssumption DEF Init
<1>2. TypeOK
  BY <1>1, NoTransfers DEF Init, TypeOK
<1>3. ClosingOrder
  BY DEF Init, ClosingOrder, Channel
<1>4. Holding
  BY NoTransfers DEF Init, Holding
<1> QED
  BY <1>2, <1>3, <1>4 DEF BInv

LEMMA TypeStep ==
    ASSUME BInv, Next PROVE TypeOK'
<1> USE BatchAssumption, NoTransfers DEF BInv, TypeOK, Channel
<1>1. CASE Cancel \/ CloseInput \/ CloseToBatch \/ CloseBatches \/ CloseBufferedBatches
           \/ CloseBatchResults \/ CloseOut
  BY <1>1 DEF Cancel, CloseInput, CloseToBatch, CloseBatches, CloseBufferedBatches,
              CloseBatchResults, CloseOut, holders
<1>2. ASSUME NEW k \in Keys, Receive(k) \/ SplitterSend(k) PROVE TypeOK'
  BY <1>2 DEF Receive, SplitterSend, Leaves
<1>3. CASE Collect
  BY <1>3, Collected DEF Collect
<1>4. CASE CollectTimeout
  BY <1>4 DEF CollectTimeout
<1>5. CASE CopierReceive
  BY <1>5 DEF CopierReceive
<1>6. CASE CopierSend
  BY <1>6 DEF CopierSend
<1>7. ASSUME NEW w \in Workers, WorkerReceive(w) PROVE TypeOK'
  BY <1>7 DEF WorkerReceive
<1>8. ASSUME NEW w \in Workers, Process(w) PROVE TypeOK'
  <2>1. work' = work
    BY <1>8 DEF Process, Results
  <2> QED
    BY <1>8, <2>1 DEF Process
<1>9. ASSUME NEW w \in Workers, ProcessCancelled(w) PROVE TypeOK'
  BY <1>9 DEF ProcessCancelled
<1>10. ASSUME NEW w \in Workers, OutputReceive(w) PROVE TypeOK'
  BY <1>10 DEF OutputReceive
<1>11. ASSUME NEW k \in Keys, OutputSend(k) PROVE TypeOK'
  BY <1>11, SubBatch DEF OutputSend, Leaves
<1> QED
  BY <1>1, <1>2, <1>3, <1>4, <1>5, <1>6, <1>7, <1>8, <1>9, <1>10, <1>11
     DEF Next, Splitter, Collector, Copier, Worker, Output

LEMMA ClosingStep ==
    ASSUME BInv, Next PROVE ClosingOrder'
<1> USE DEF BInv, TypeOK, ClosingOrder, Channel
<1>1. CASE Cancel \/ CloseInput \/ CloseToBatch \/ CloseBatches \/ CloseBufferedBatches
           \/ CloseBatchResults \/ CloseOut
  BY <1>1 DEF Cancel, CloseInput, CloseToBatch, CloseBatches, CloseBufferedBatches,
              CloseBatchResults, CloseOut, holders
<1>2. ASSUME NEW k \in Keys, Receive(k) \/ SplitterSend(k) PROVE ClosingOrder'
  BY <1>2 DEF Receive, SplitterSend
<1>3. CASE Collect \/ CollectTimeout \/ CopierReceive
  BY <1>3 DEF Collect, CollectTimeout, CopierReceive, Holding
<1>4. CASE CopierSend
  BY <1>4 DEF CopierSend
<1>5. ASSUME NEW w \in Workers, WorkerReceive(w) PROVE ClosingOrder'
  BY <1>5 DEF WorkerReceive
<1>6. ASSUME NEW w \in Workers, Process(w) PROVE ClosingOrder'
  <2>1. work' = work
    BY <1>6 DEF Process, Results
  <2> QED
    BY <1>6, <2>1 DEF Process
<1>7. ASSUME NEW w \in Workers, ProcessCancelled(w) \/ OutputReceive(w) PROVE ClosingOrder'
  BY <1>7 DEF ProcessCancelled, OutputReceive, Holding
<1>8. ASSUME NEW k \in Keys, OutputSend(k) PROVE ClosingOrder'
  BY <1>8 DEF OutputSend
<1> QED
  BY <1>1, <1>2, <1>3, <1>4, <1>5, <1>6, <1>7, <1>8
     DEF Next, Splitter, Collector, Copier, Worker, Output

LEMMA HoldingStep ==
    ASSUME BInv, Next PROVE Holding'
<1> USE DEF BInv, TypeOK, Holding
<1>1. CASE Cancel \/ CloseInput \/ CloseToBatch \/ CloseBatches \/ CloseBufferedBatches
           \/ CloseBatchResults \/ CloseOut
  BY <1>1 DEF Cancel, CloseInput, CloseToBatch, CloseBatches, CloseBufferedBatches,
              CloseBatchResults, CloseOut, holders
<1>2. ASSUME NEW k \in Keys, Receive(k) \/ SplitterSend(k) \/ OutputSend(k) PROVE Holding'
  BY <1>2 DEF Receive, SplitterSend, OutputSend
<1>3. CASE Collect
  BY <1>3, Collected DEF Collect
<1>4. CASE CollectTimeout \/ CopierSend
  BY <1>4 DEF CollectTimeout, CopierSend
<1>5. CASE CopierReceive
  BY <1>5, NoTransfers DEF CopierReceive
<1>6. ASSUME NEW w \in Workers, WorkerReceive(w) PROVE Holding'
  BY <1>6 DEF WorkerReceive
<1>7. ASSUME NEW w \in Workers, Process(w) PROVE Holding'
  <2>1. work' = work
    BY <1>7 DEF Process, Results
  <2> QED
    BY <1>7, <2>1 DEF Process
<1>8. ASSUME NEW w \in Workers, ProcessCancelled(w) \/ OutputReceive(w) PROVE Holding'
  BY <1>8 DEF ProcessCancelled, OutputReceive
<1> QED
  BY <1>1, <1>2, <1>3, <1>4, <1>5, <1>6, <1>7, <1>8
     DEF Next, Splitter, Collector, Copier, Worker, Output

LEMMA BInvStep == BInv /\ [Next]_vars => BInv'
<1>1. ASSUME BInv, UNCHANGED vars PROVE BInv'
  BY <1>1 DEF BInv, TypeOK, ClosingOrder, Holding, vars, holders
<1> QED
  BY <1>1, TypeStep, ClosingStep, HoldingStep DEF BInv

\* Types, sizes of batches and of the buffer, the order of closing.
THEOREM BatchInvariant == Spec => []BInv
  BY BInvInit, BInvStep, PTL DEF Spec

\* The sizes of the batches and of the buffer keep their bounds.
THEOREM BatchTypes == Spec => []TypeOK
<1>1. BInv => TypeOK
  BY DEF BInv
<1> QED
  BY <1>1, BatchInvariant, PTL

\* No goroutine of the stage ever sends on a channel that another one has closed.
THEOREM NeverSendsOnClosed == Spec => []NoSendOnClosed
<1>1. BInv => NoSendOnClosed
  BY DEF BInv, TypeOK, ClosingOrder, Holding, NoSendOnClosed
<1> QED
  BY <1>1, BatchInvariant, PTL

-----------------------------------------------------------------------------
(* Where the transfers are.                                                *)

\* Some transfers go from one place to another.
LEMMA Moved ==
    ASSUME Accounted, cancelled' = cancelled,
           NEW a \in Place, NEW b \in Place, a # b, NEW S \in SUBSET Holds(a),
           Holds(a)' = Holds(a) \ S, Holds(b)' = Holds(b) \cup S,
           \A p \in Place : p # a /\ p # b => Holds(p)' = Holds(p)
    PROVE  Accounted'
<1>1. \A k \in Keys : \A p \in Place : k \in Holds(p)' =>
         IF k \in S /\ p = b THEN k \in Holds(a) ELSE k \in Holds(p) /\ (k \in S => p # a)
  OBVIOUS
<1>2. ASSUME NEW k \in Keys, NEW p \in Place, NEW q \in Place,
             k \in Holds(p)', k \in Holds(q)'
      PROVE  p = q
  BY <1>1, <1>2 DEF Accounted
<1>3. ASSUME NEW k \in Keys, NEW p \in Place, k \in Holds(p)
      PROVE  \E q \in Place : k \in Holds(q)'
  BY <1>3
<1> QED
  BY <1>2, <1>3 DEF Accounted, Place, Workers

\* Nobody moves, but with a cancelled context some may be dropped.
LEMMA Dropped ==
    ASSUME Accounted, cancelled \/ \A p \in Place : Holds(p)' = Holds(p),
           cancelled => cancelled',
           \A p \in Place : Holds(p)' \subseteq Holds(p)
    PROVE  Accounted'
  BY DEF Accounted, Place, Workers

\* A worker takes the first batch and the others move up.
LEMMA MovedUp ==
    ASSUME BInv, Accounted, NEW w \in Workers, WorkerReceive(w)
    PROVE  Accounted'
<1> DEFINE from(p) == IF p[1] = "buffered" THEN <<"buffered", p[2] + 1>>
                      ELSE IF p = <<"work", w>> THEN <<"buffered", 1>> ELSE p
<1> USE BatchAssumption DEF BInv, TypeOK
<1>1. \A p \in Place : Holds(p)' # {} => from(p) \in Place /\ Holds(p)' = Holds(from(p))
  <2> SUFFICES ASSUME NEW p \in Place, Holds(p)' # {}
               PROVE  from(p) \in Place /\ Holds(p)' = Holds(from(p))
    OBVIOUS
  <2>1. CASE p[1] = "buffered"
    BY <2>1 DEF WorkerReceive, Place, Holds
  <2>2. CASE p[1] = "work"
    BY <2>2 DEF WorkerReceive, Place, Holds
  <2>3. CASE p[1] \notin {"buffered", "work"}
    BY <2>3 DEF WorkerReceive, Place, Holds
  <2> QED
    BY <2>1, <2>2, <2>3
<1>2. ASSUME NEW p \in Place, NEW q \in Place, from(p) = from(q)
      PROVE  p = q
  <2>1. /\ p = <<p[1], p[2]>> /\ (p[1] = "buffered" => p[2] \in 1 .. BufferSize)
        /\ q = <<q[1], q[2]>> /\ (q[1] = "buffered" => q[2] \in 1 .. BufferSize)
    BY DEF Place
  <2>2. CASE p[1] = "buffered" /\ q[1] = "buffered"
    BY <1>2, <2>1, <2>2
  <2>3. CASE p[1] # "buffered" /\ q[1] # "buffered"
    BY <1>2, <2>1, <2>3
  <2>4. CASE p[1] = "buffered" /\ q[1] # "buffered"
    BY <1>2, <2>1, <2>4
  <2>5. CASE p[1] # "buffered" /\ q[1] = "buffered"
    BY <1>2, <2>1, <2>5
  <2> QED
    BY <2>2, <2>3, <2>4, <2>5
<1>3. ASSUME ~cancelled, NEW q \in Place, Holds(q) # {}
      PROVE  \E p \in Place : Holds(p)' = Holds(q)
  <2>1. CASE q[1] = "buffered" /\ q[2] = 1
    <3>1. <<"work", w>> \in Place /\ Holds(<<"work", w>>)' = Holds(q)
      BY <1>3, <2>1 DEF WorkerReceive, Place, Holds
    <3> QED
      BY <3>1
  <2>2. CASE q[1] = "buffered" /\ q[2] # 1
    <3>1. <<"buffered", q[2] - 1>> \in Place /\ Holds(<<"buffered", q[2] - 1>>)' = Holds(q)
      BY <1>3, <2>2 DEF WorkerReceive, Place, Holds
    <3> QED
      BY <3>1
  <2>3. CASE q[1] # "buffered"
    <3>1. Holds(q)' = Holds(q)
      BY <1>3, <2>3 DEF WorkerReceive, Place, Holds
    <3> QED
      BY <3>1
  <2> QED
    BY <2>1, <2>2, <2>3
<1>4. cancelled' = cancelled /\ Place' = Place
  BY DEF WorkerReceive, Place, Workers
<1> HIDE DEF from
<1>5. ASSUME NEW k \in Keys, NEW p \in Place, NEW q \in Place, k \in Holds(p)', k \in Holds(q)'
      PROVE  p = q
  BY <1>1, <1>2, <1>5 DEF Accounted
<1>6. ASSUME ~cancelled, NEW k \in Keys
      PROVE  \E p \in Place : k \in Holds(p)'
  BY <1>3, <1>6 DEF Accounted
<1> QED
  BY <1>4, <1>5, <1>6 DEF Accounted

LEMMA AccountedStep ==
    ASSUME BInv, Accounted, Next PROVE Accounted'
<1> USE BatchAssumption DEF BInv, TypeOK
<1>1. CASE Cancel \/ CloseInput \/ CloseToBatch \/ CloseBatches \/ CloseBufferedBatches
           \/ CloseBatchResults \/ CloseOut \/ CollectTimeout
  <2>1. \A p \in Place : Holds(p)' = Holds(p)
    BY <1>1 DEF Cancel, CloseInput, CloseToBatch, CloseBatches, CloseBufferedBatches,
                CloseBatchResults, CloseOut, CollectTimeout, holders, Holds
  <2>2. cancelled => cancelled'
    BY <1>1 DEF Cancel, CloseInput, CloseToBatch, CloseBatches, CloseBufferedBatches,
                CloseBatchResults, CloseOut, CollectTimeout
  <2> QED
    BY <2>1, <2>2, Dropped
<1>2. ASSUME NEW k \in Keys, Receive(k) PROVE Accounted'
  <2> DEFINE a == <<"outside", 0>>  b == <<"splitter", 0>>
  <2>1. /\ a \in Place /\ b \in Place /\ a # b /\ {k} \in SUBSET Holds(a) /\ cancelled' = cancelled
        /\ Holds(a)' = Holds(a) \ {k} /\ Holds(b)' = Holds(b) \cup {k}
    BY <1>2 DEF Receive, Place, Holds
  <2>2. \A p \in Place : p # a /\ p # b => Holds(p)' = Holds(p)
    BY <1>2 DEF Receive, Place, Holds
  <2> QED
    BY <2>1, <2>2, Moved
<1>3. ASSUME NEW k \in Keys, SplitterSend(k) PROVE Accounted'
  <2> DEFINE a == <<"splitter", 0>>  b == <<"outside", 0>>
  <2>1. /\ a \in Place /\ b \in Place /\ a # b /\ {k} \in SUBSET Holds(a) /\ cancelled' = cancelled
        /\ Holds(a)' = Holds(a) \ {k} /\ Holds(b)' = Holds(b) \cup {k}
    BY <1>3 DEF SplitterSend, Leaves, Place, Holds, Holding
  <2>2. \A p \in Place : p # a /\ p # b => Holds(p)' = Holds(p)
    BY <1>3 DEF SplitterSend, Leaves, Place, Holds
  <2> QED
    BY <2>1, <2>2, Moved
<1>4. CASE Collect
  <2> DEFINE a == <<"splitter", 0>>  b == <<"collector", 0>>
  <2>1. /\ a \in Place /\ b \in Place /\ a # b /\ splitter \in SUBSET Holds(a) /\ cancelled' = cancelled
        /\ Holds(a)' = Holds(a) \ splitter /\ Holds(b)' = Holds(b) \cup splitter
    BY <1>4 DEF Collect, Place, Holds
  <2>2. \A p \in Place : p # a /\ p # b => Holds(p)' = Holds(p)
    BY <1>4 DEF Collect, Place, Holds
  <2> QED
    BY <2>1, <2>2, Moved
<1>5. CASE CopierReceive
  <2> DEFINE a == <<"collector", 0>>  b == <<"copier", 0>>
  <2>1. /\ a \in Place /\ b \in Place /\ a # b /\ collector \in SUBSET Holds(a) /\ cancelled' = cancelled
        /\ Holds(a)' = Holds(a) \ collector /\ Holds(b)' = Holds(b) \cup collector
    BY <1>5 DEF CopierReceive, Place, Holds
  <2>2. \A p \in Place : p # a /\ p # b => Holds(p)' = Holds(p)
    BY <1>5 DEF CopierReceive, Place, Holds
  <2> QED
    BY <2>1, <2>2, Moved
<1>6. CASE CopierSend
  <2>0. PICK n \in 1 .. BufferSize : n = Len(buffered) + 1
    BY <1>6 DEF CopierSend
  <2> DEFINE a == <<"copier", 0>>  b == <<"buffered", n>>
  <2>1. /\ a \in Place /\ b \in Place /\ a # b /\ copier \in SUBSET Holds(a) /\ cancelled' = cancelled
        /\ Holds(a)' = Holds(a) \ copier /\ Holds(b)' = Holds(b) \cup copier
    BY <1>6, <2>0 DEF CopierSend, Place, Holds
  <2>2. ASSUME NEW p \in Place, p # a, p # b PROVE Holds(p)' = Holds(p)
    <3>1. CASE p[1] = "buffered"
      <4>1. p = <<"buffered", p[2]>> /\ p[2] \in 1 .. BufferSize /\ p[2] # n
        BY <2>2, <3>1 DEF Place
      <4>2. Len(buffered') = n /\ (p[2] < n => buffered'[p[2]] = buffered[p[2]])
        BY <1>6, <2>0, <4>1 DEF CopierSend
      <4> QED
        BY <2>0, <3>1, <4>1, <4>2 DEF Holds
    <3>2. CASE p[1] # "buffered"
      BY <1>6, <2>2, <3>2 DEF CopierSend, Place, Holds
    <3> QED
      BY <3>1, <3>2
  <2> QED
    BY <2>1, <2>2, Moved
<1>7. ASSUME NEW w \in Workers, WorkerReceive(w) PROVE Accounted'
  BY <1>7, MovedUp
<1>8. ASSUME NEW w \in Workers, Process(w) PROVE Accounted'
  <2>1. work' = work
    BY <1>8 DEF Process, Results
  <2>2. cancelled' = cancelled /\ \A p \in Place : Holds(p)' = Holds(p)
    BY <1>8, <2>1 DEF Process, Holds
  <2> QED
    BY <2>2, Dropped
<1>9. ASSUME NEW w \in Workers, ProcessCancelled(w) PROVE Accounted'
  <2>1. cancelled /\ cancelled' /\ \A p \in Place : Holds(p)' \subseteq Holds(p)
    BY <1>9 DEF ProcessCancelled, Place, Holds
  <2> QED
    BY <2>1, Dropped
<1>10. ASSUME NEW w \in Workers, OutputReceive(w) PROVE Accounted'
  <2> DEFINE a == <<"work", w>>  b == <<"output", 0>>
  <2>1. /\ a \in Place /\ b \in Place /\ a # b /\ work[w] \in SUBSET Holds(a) /\ cancelled' = cancelled
        /\ Holds(a)' = Holds(a) \ work[w] /\ Holds(b)' = Holds(b) \cup work[w]
    BY <1>10 DEF OutputReceive, Place, Holds
  <2>2. \A p \in Place : p # a /\ p # b => Holds(p)' = Holds(p)
    BY <1>10 DEF OutputReceive, Place, Holds
  <2> QED
    BY <2>1, <2>2, Moved
<1>11. ASSUME NEW k \in Keys, OutputSend(k) PROVE Accounted'
  <2> DEFINE a == <<"output", 0>>  b == <<"outside", 0>>
  <2>1. /\ a \in Place /\ b \in Place /\ a # b /\ {k} \in SUBSET Holds(a) /\ cancelled' = cancelled
        /\ Holds(a)' = Holds(a) \ {k} /\ Holds(b)' = Holds(b) \cup {k}
    BY <1>11 DEF OutputSend, Leaves, Place, Holds
  <2>2. \A p \in Place : p # a /\ p # b => Holds(p)' = Holds(p)
    BY <1>11 DEF OutputSend, Leaves, Place, Holds
  <2> QED
    BY <2>1, <2>2, Moved
<1> QED
  BY <1>1, <1>2, <1>3, <1>4, <1>5, <1>6, <1>7, <1>8, <1>9, <1>10, <1>11
     DEF Next, Splitter, Collector, Copier, Worker, Output

\* No transfer is in two batches or leaves the stage twice, and none is lost before the
\* context is cancelled, whatever processors and state updates fail.
THEOREM BatchAccounts == Spec => []Accounted
<1>1. Init => Accounted
  <2> SUFFICES ASSUME Init PROVE Accounted
    OBVIOUS
  <2>1. \A p \in Place : p # <<"outside", 0>> => Holds(p) = {}
    BY BatchAssumption DEF Init, Place, Holds
  <2>2. <<"outside", 0>> \in Place /\ Holds(<<"outside", 0>>) = Keys
    BY DEF Init, Place, Holds
  <2> QED
    BY <2>1, <2>2 DEF Accounted
<1>2. BInv /\ Accounted /\ [Next]_vars => Accounted'
  <2>1. ASSUME Accounted, UNCHANGED vars PROVE Accounted'
    BY <2>1 DEF vars, holders, Accounted, Place, Workers, Holds
  <2> QED
    BY <2>1, AccountedStep
<1> QED
  BY <1>1, <1>2, BatchInvariant, PTL DEF Spec

-----------------------------------------------------------------------------
(* The refinement of PipelineStage.                                        *)

InBuffer == UNION {buffered[i] : i \in DOMAIN buffered}
InWork == UNION {work[w] : w \in Workers}

LEMMA InsideIs ==
    /\ Inside = splitter \cup collector \cup copier \cup output \cup InBuffer \cup InWork
    /\ Inside' = splitter' \cup collector' \cup copier' \cup output' \cup InBuffer' \cup InWork'
  BY DEF Inside, InBuffer, InWork

\* The copier adds its batch to the buffer.
LEMMA BufferGrows ==
    ASSUME TypeOK, CopierSend PROVE InBuffer' = InBuffer \cup copier
<1> DEFINE n == Len(buffered)
<1>1. n \in Nat /\ DOMAIN buffered = 1 .. n /\ DOMAIN buffered' = 1 .. n + 1
  BY DEF TypeOK, CopierSend
<1>2. buffered'[n + 1] = copier /\ \A i \in 1 .. n : buffered'[i] = buffered[i]
  BY DEF TypeOK, CopierSend
<1>3. ASSUME NEW k \in InBuffer' PROVE k \in InBuffer \cup copier
  <2>1. PICK i \in 1 .. n + 1 : k \in buffered'[i] BY <1>1 DEF InBuffer
  <2>2. i = n + 1 \/ i \in 1 .. n BY <1>1
  <2> QED BY <1>1, <1>2, <2>1, <2>2 DEF InBuffer
<1>4. ASSUME NEW k \in InBuffer PROVE k \in InBuffer'
  <2>1. PICK i \in 1 .. n : k \in buffered[i] BY <1>1 DEF InBuffer
  <2>2. i \in 1 .. n + 1 /\ k \in buffered'[i] BY <1>1, <1>2, <2>1
  <2> QED BY <1>1, <2>2 DEF InBuffer
<1>5. ASSUME NEW k \in copier PROVE k \in InBuffer'
  <2>1. n + 1 \in 1 .. n + 1 BY <1>1
  <2> QED BY <1>1, <1>2, <1>5, <2>1 DEF InBuffer
<1> QED BY <1>3, <1>4, <1>5

\* A worker takes the first batch out of it.
LEMMA BufferShrinks ==
    ASSUME TypeOK, NEW w \in Workers, WorkerReceive(w)
    PROVE  InBuffer = InBuffer' \cup Head(buffered)
<1> DEFINE n == Len(buffered)
<1>1. n \in Nat /\ n > 0 /\ DOMAIN buffered = 1 .. n /\ DOMAIN buffered' = 1 .. n - 1
  BY DEF TypeOK, WorkerReceive
<1>2. buffered[1] = Head(buffered) /\ \A i \in 1 .. n - 1 : buffered'[i] = buffered[i + 1]
  BY DEF TypeOK, WorkerReceive
<1>3. ASSUME NEW k \in InBuffer PROVE k \in InBuffer' \cup Head(buffered)
  <2>1. PICK i \in 1 .. n : k \in buffered[i] BY <1>1 DEF InBuffer
  <2>2. i = 1 \/ (i - 1 \in 1 .. n - 1 /\ buffered'[i - 1] = buffered[i]) BY <1>1, <1>2
  <2> QED BY <1>1, <1>2, <2>1, <2>2 DEF InBuffer
<1>4. ASSUME NEW k \in InBuffer' PROVE k \in InBuffer
  <2>1. PICK i \in 1 .. n - 1 : k \in buffered'[i] BY <1>1 DEF InBuffer
  <2>2. i + 1 \in 1 .. n /\ k \in buffered[i + 1] BY <1>1, <1>2, <2>1
  <2> QED BY <1>1, <2>2 DEF InBuffer
<1>5. ASSUME NEW k \in Head(buffered) PROVE k \in InBuffer
  <2>1. 1 \in 1 .. n BY <1>1
  <2> QED BY <1>1, <1>2, <1>5, <2>1 DEF InBuffer
<1> QED BY <1>3, <1>4, <1>5

\* A transfer that the splitter or the last goroutine has is nowhere else in the stage.
LEMMA NowhereElse ==
    ASSUME TypeOK, Accounted, NEW k \in Keys
    PROVE  /\ k \in splitter => k \notin collector \cup copier \cup output \cup InBuffer \cup InWork
           /\ k \in output => k \notin splitter \cup collector \cup copier \cup InBuffer \cup InWork
<1>1. /\ <<"splitter", 0>> \in Place /\ Holds(<<"splitter", 0>>) = splitter
      /\ <<"collector", 0>> \in Place /\ Holds(<<"collector", 0>>) = collector
      /\ <<"copier", 0>> \in Place /\ Holds(<<"copier", 0>>) = copier
      /\ <<"output", 0>> \in Place /\ Holds(<<"output", 0>>) = output
  BY DEF Place, Holds
<1>2. \A w \in Workers : <<"work", w>> \in Place /\ Holds(<<"work", w>>) = work[w]
  BY DEF Place, Holds
<1>3. \A i \in DOMAIN buffered :
         <<"buffered", i>> \in Place /\ Holds(<<"buffered", i>>) = buffered[i]
  <2> SUFFICES ASSUME NEW i \in DOMAIN buffered
               PROVE  <<"buffered", i>> \in Place /\ Holds(<<"buffered", i>>) = buffered[i]
    OBVIOUS
  <2>1. i \in 1 .. BufferSize /\ i <= Len(buffered) BY BatchAssumption DEF TypeOK
  <2> QED BY <2>1 DEF Place, Holds
<1>4. \A p, q \in Place : k \in Holds(p) /\ k \in Holds(q) => p = q
  BY DEF Accounted
<1>5. \A w \in Workers : k \in work[w] => k \notin splitter /\ k \notin output
  BY <1>1, <1>2, <1>4
<1>6. \A i \in DOMAIN buffered : k \in buffered[i] => k \notin splitter /\ k \notin output
  BY <1>1, <1>3, <1>4
<1>7. k \in InWork => k \notin splitter /\ k \notin output
  BY <1>5 DEF InWork
<1>8. k \in InBuffer => k \notin splitter /\ k \notin output
  BY <1>6 DEF InBuffer
<1>9. /\ k \in collector \/ k \in copier => k \notin splitter /\ k \notin output
      /\ ~(k \in splitter /\ k \in output)
  BY <1>1, <1>4
<1> QED BY <1>7, <1>8, <1>9

\* Nothing happens to the stage as a whole while batches are made up, passed on and processed.
LEMMA WithinStage ==
    ASSUME TypeOK, \/ Collect \/ CollectTimeout \/ CopierReceive \/ CopierSend
                   \/ \E w \in Workers : Process(w) \/ OutputReceive(w)
    PROVE  Inside' = Inside /\ UNCHANGED <<outside, cancelled, open>>
<1> USE InsideIs
<1>1. CASE Collect \/ CollectTimeout \/ CopierReceive
  <2>1. InBuffer' = InBuffer /\ InWork' = InWork
    BY <1>1 DEF Collect, CollectTimeout, CopierReceive, InBuffer, InWork
  <2> QED BY <1>1, <2>1 DEF Collect, CollectTimeout, CopierReceive
<1>2. CASE CopierSend
  <2>1. InWork' = InWork /\ InBuffer' = InBuffer \cup copier
    BY <1>2, BufferGrows DEF CopierSend, InWork
  <2> QED BY <1>2, <2>1 DEF CopierSend
<1>3. ASSUME NEW w \in Workers, Process(w)
      PROVE  Inside' = Inside /\ UNCHANGED <<outside, cancelled, open>>
  <2>1. work' = work
    BY <1>3 DEF Process, Results, TypeOK
  <2>2. InBuffer' = InBuffer /\ InWork' = InWork
    BY <1>3, <2>1 DEF Process, InBuffer, InWork
  <2> QED BY <1>3, <2>2 DEF Process
<1>4. ASSUME NEW w \in Workers, OutputReceive(w)
      PROVE  Inside' = Inside /\ UNCHANGED <<outside, cancelled, open>>
  <2>1. InBuffer' = InBuffer
    BY <1>4 DEF OutputReceive, InBuffer
  <2>2. InWork = InWork' \cup work[w]
    <3>1. \A v \in Workers : work'[v] = IF v = w THEN {} ELSE work[v]
      BY <1>4 DEF OutputReceive, TypeOK
    <3> QED BY <3>1, Zenon DEF InWork
  <2> QED BY <1>4, <2>1, <2>2 DEF OutputReceive
<1> QED BY <1>1, <1>2, <1>3, <1>4

\* A worker loses the transfers it takes or has only if the context is cancelled.
LEMMA WorkerDrops ==
    ASSUME TypeOK, NEW w \in Workers, WorkerReceive(w) \/ ProcessCancelled(w)
    PROVE  /\ Inside' \subseteq Inside /\ (Inside' = Inside \/ cancelled)
           /\ UNCHANGED <<outside, cancelled, open>>
<1> USE InsideIs
<1>1. CASE WorkerReceive(w) /\ cancelled
  <2>1. InWork' = InWork /\ InBuffer' \subseteq InBuffer
    BY <1>1, BufferShrinks DEF WorkerReceive, InWork
  <2> QED BY <1>1, <2>1 DEF WorkerReceive
<1>2. CASE WorkerReceive(w) /\ ~cancelled
  <2>1. InWork' = InWork \cup Head(buffered)
    <3>1. work[w] = {} /\ \A v \in Workers : work'[v] = IF v = w THEN Head(buffered) ELSE work[v]
      BY <1>2 DEF WorkerReceive, TypeOK
    <3> QED BY <3>1, Zenon DEF InWork
  <2> QED BY <1>2, <2>1, BufferShrinks DEF WorkerReceive
<1>3. CASE ProcessCancelled(w)
  <2>1. \A v \in Workers : work'[v] = IF v = w THEN {} ELSE work[v]
    BY <1>3 DEF ProcessCancelled, TypeOK
  <2>2. InWork' \subseteq InWork
    BY <2>1, Zenon DEF InWork
  <2>3. InBuffer' = InBuffer
    BY <1>3 DEF ProcessCancelled, InBuffer
  <2> QED BY <1>3, <2>2, <2>3 DEF ProcessCancelled
<1> QED BY <1>1, <1>2, <1>3

\* When the results are closed and the last goroutine has nothing left, nobody has.
LEMMA NothingInside ==
    ASSUME ClosingOrder, CloseOut PROVE Inside = {} /\ "in" \notin open
<1>1. /\ splitter = {} /\ collector = {} /\ copier = {} /\ output = {} /\ "in" \notin open
      /\ buffered = << >> /\ \A w \in Workers : work[w] = {}
  BY DEF ClosingOrder, CloseOut
<1>2. InBuffer = {} BY <1>1 DEF InBuffer
<1>3. InWork = {} BY <1>1, Zenon DEF InWork
<1> QED BY <1>1, <1>2, <1>3, InsideIs

\* Every step is one that PipelineStage allows, or nothing to it.
LEMMA StageStep ==
    ASSUME BInv, Accounted, Next PROVE [Stage!Next]_(Stage!vars)
<1> USE DEF BInv
<1>1. ASSUME NEW k \in Keys, Receive(k) PROVE Stage!Next
  <2>1. InBuffer' = InBuffer /\ InWork' = InWork
    BY <1>1 DEF Receive, InBuffer, InWork
  <2>2. Inside' = Inside \cup {k}
    BY <1>1, <2>1, InsideIs DEF Receive
  <2>3. Stage!Enter(k)
    BY <1>1, <2>2 DEF Receive, Stage!Enter, State
  <2> QED BY <2>3 DEF Stage!Next
<1>2. ASSUME NEW k \in Keys, SplitterSend(k) \/ OutputSend(k) PROVE Stage!Next
  <2>1. InBuffer' = InBuffer /\ InWork' = InWork
    BY <1>2 DEF SplitterSend, OutputSend, InBuffer, InWork
  <2>2. Inside' = Inside \ {k}
    <3>1. CASE SplitterSend(k)
      <4>1. splitter = {k} BY <3>1 DEF SplitterSend, Holding
      <4> QED BY <2>1, <3>1, <4>1, InsideIs, NowhereElse DEF SplitterSend
    <3>2. CASE OutputSend(k)
      BY <2>1, <3>2, InsideIs, NowhereElse DEF OutputSend
    <3> QED BY <1>2, <3>1, <3>2
  <2>3. k \in Inside
    BY <1>2, InsideIs DEF SplitterSend, OutputSend
  <2>4. "out" \in open
    BY <1>2 DEF SplitterSend, OutputSend, ClosingOrder
  <2>5. Stage!Leave(k)
    BY <1>2, <2>2, <2>3, <2>4 DEF SplitterSend, OutputSend, Leaves, Stage!Leave, State
  <2> QED BY <2>5 DEF Stage!Next
<1>3. ASSUME Inside' = Inside, UNCHANGED <<outside, cancelled>>, State("in")' = State("in"), State("out")' = State("out")
      PROVE  UNCHANGED Stage!vars
  BY <1>3 DEF Stage!vars
<1>4. CASE \/ Collect \/ CollectTimeout \/ CopierReceive \/ CopierSend
           \/ \E w \in Workers : Process(w) \/ OutputReceive(w)
  BY <1>3, <1>4, WithinStage DEF State
<1>5. ASSUME NEW w \in Workers, WorkerReceive(w) \/ ProcessCancelled(w)
      PROVE  [Stage!Next]_(Stage!vars)
  <2>1. CASE Inside' = Inside
    BY <1>3, <1>5, <2>1, WorkerDrops DEF State
  <2>2. CASE cancelled
    <3>1. Stage!Drop BY <1>5, <2>2, WorkerDrops DEF Stage!Drop, State
    <3> QED BY <3>1 DEF Stage!Next
  <2> QED BY <1>5, <2>1, <2>2, WorkerDrops
<1>6. ASSUME UNCHANGED holders PROVE Inside' = Inside
  BY <1>6 DEF holders, Inside
<1>7. CASE CloseToBatch \/ CloseBatches \/ CloseBufferedBatches \/ CloseBatchResults
  <2>1. Inside' = Inside
    BY <1>6, <1>7 DEF CloseToBatch, CloseBatches, CloseBufferedBatches, CloseBatchResults
  <2>2. State("in")' = State("in") /\ State("out")' = State("out") /\ UNCHANGED <<outside, cancelled>>
    BY <1>7 DEF CloseToBatch, CloseBatches, CloseBufferedBatches, CloseBatchResults, State
  <2> QED BY <1>3, <2>1, <2>2
<1>8. CASE Cancel
  <2>1. Stage!Cancel BY <1>6, <1>8 DEF Cancel, Stage!Cancel, State
  <2> QED BY <2>1 DEF Stage!Next
<1>9. CASE CloseInput
  <2>1. Stage!CloseIn BY <1>6, <1>9 DEF CloseInput, Stage!CloseIn, State
  <2> QED BY <2>1 DEF Stage!Next
<1>10. CASE CloseOut
  <2>1. Stage!CloseOut BY <1>6, <1>10, NothingInside DEF CloseOut, Stage!CloseOut, State
  <2> QED BY <2>1 DEF Stage!Next
<1> QED
  BY <1>1, <1>2, <1>4, <1>5, <1>7, <1>8, <1>9, <1>10
     DEF Next, Splitter, Collector, Copier, Worker, Output

\* A batch stage implements PipelineStage, for any number of transfers and workers and any size
\* of batches and buffer.
THEOREM BatchIsStage == Spec => ImplementsStage
<1>1. Init => Stage!Init
  <2> SUFFICES ASSUME Init PROVE Stage!Init
    OBVIOUS
  <2>1. InBuffer = {} BY DEF Init, InBuffer
  <2>2. InWork = {} BY Zenon DEF Init, InWork
  <2>3. Inside = {} BY <2>1, <2>2, InsideIs DEF Init
  <2> QED BY <2>3 DEF Init, Stage!Init, State, Channel
<1>2. BInv /\ Accounted /\ [Next]_vars => [Stage!Next]_(Stage!vars)
  <2>1. ASSUME UNCHANGED vars PROVE UNCHANGED Stage!vars
    BY <2>1 DEF vars, holders, Stage!vars, Inside, State
  <2> QED BY <2>1, StageStep
<1> QED
  BY <1>1, <1>2, BatchInvariant, BatchAccounts, PTL DEF Spec, ImplementsStage, Stage!Spec
=============================================================================
