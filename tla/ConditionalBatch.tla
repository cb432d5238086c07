-------------------------- MODULE ConditionalBatch --------------------------
(***************************************************************************)
(* A batch stage of the pipeline, ConditionallyBatchProcess: goroutines    *)
(* and channels between the stage before it and the stage behind it.       *)
(*                                                                         *)
(*   in -> splitter -------------------------------------------> out       *)
(*            | toBatch                                           ^        *)
(*            v                                                   |        *)
(*        collector -> copier -> bufferedBatches -> workers -> output      *)
(*                                                                         *)
(* All channels but bufferedBatches are unbuffered: a send and its receive *)
(* are one step.  The collector is pipeline.Collect and the workers are    *)
(* pipeline.ProcessConcurrently of a library; each worker runs the batch   *)
(* middleware of processor_mw.go.  What the processor does to the rows of  *)
(* its transfers is in module TransferPipeline.                            *)
(***************************************************************************)
EXTENDS Integers, Sequences, FiniteSets

CONSTANTS
    Keys,           \* the transfers that come by
    Concurrency,    \* how many batches are processed at a time
    MaxSize,        \* of a batch
    BufferSize      \* of bufferedBatches

ASSUME BatchAssumption ==
    /\ IsFiniteSet(Keys)
    /\ Concurrency \in Nat \ {0}
    /\ MaxSize \in Nat \ {0}
    /\ BufferSize \in Nat \ {0}

VARIABLES
    outside,    \* the transfers that are not in this stage
    cancelled,  \* the context is cancelled
    open,       \* the channels that are not closed
    splitter,   \* what the splitter is about to send, a set of at most one transfer
    splitTo,    \* ... and to which channel
    collector,  \* the batch that is collected
    sending,    \* ... and is now to be sent
    copier,     \* the batch on its way into the buffer
    buffered,   \* bufferedBatches
    work,       \* the batch of each worker
    finished,   \* the workers that are done with theirs and are to send it
    output      \* what the last goroutine has left to send

holders == <<splitter, splitTo, collector, sending, copier, buffered, work, finished, output>>
vars == <<outside, cancelled, open, holders>>

Workers == 1 .. Concurrency
Channel == {"in", "toBatch", "batches", "bufferedBatches", "batchResults", "out"}

Init ==
    /\ outside = Keys /\ cancelled = FALSE /\ open = Channel
    /\ splitter = {} /\ splitTo = "out"
    /\ collector = {} /\ sending = FALSE /\ copier = {} /\ buffered = << >>
    /\ work = [w \in Workers |-> {}] /\ finished = {}
    /\ output = {}

-----------------------------------------------------------------------------
(* The stages around this one.                                             *)

\* The process is told to stop, and the stages before this one close its input.
Cancel ==
    /\ ~cancelled /\ cancelled' = TRUE
    /\ UNCHANGED <<outside, open, holders>>

CloseInput ==
    /\ cancelled /\ "in" \in open /\ open' = open \ {"in"}
    /\ UNCHANGED <<outside, cancelled, holders>>

\* The stage behind this one takes a transfer from out.
Leaves(k) == outside' = outside \cup {k}

-----------------------------------------------------------------------------
(* The splitter.                                                           *)

\* A transfer arrives.  One that an earlier stage has errored, or that ShouldProcess does
\* not want, goes round the batches.
Receive(k) ==
    /\ "in" \in open /\ splitter = {} /\ k \in outside
    /\ outside' = outside \ {k} /\ splitter' = {k} /\ splitTo' \in {"out", "toBatch"}
    /\ UNCHANGED <<cancelled, open, collector, sending, copier, buffered, work, finished, output>>

SplitterSend(k) ==
    /\ k \in splitter /\ splitTo = "out"
    /\ splitter' = {} /\ Leaves(k)
    /\ UNCHANGED <<cancelled, open, splitTo, collector, sending, copier, buffered, work, finished, output>>

\* Mutant: toBatch is closed as soon as the input is, not after the loop.
CloseToBatchEarly ==
    /\ "in" \notin open /\ "toBatch" \in open
    /\ open' = open \ {"toBatch"}
    /\ UNCHANGED <<outside, cancelled, holders>>
CloseToBatch ==
    /\ "in" \notin open /\ splitter = {} /\ "toBatch" \in open
    /\ open' = open \ {"toBatch"}
    /\ UNCHANGED <<outside, cancelled, holders>>

-----------------------------------------------------------------------------
(* The collector and the copier.                                           *)

\* Mutant: the batch is complete one transfer too late.
CollectPastMaxSize ==
    /\ splitter # {} /\ splitTo = "toBatch" /\ ~sending
    /\ splitter' = {} /\ splitTo' = "out" /\ collector' = collector \cup splitter
    /\ sending' = (Cardinality(collector) = MaxSize)
    /\ UNCHANGED <<outside, cancelled, open, copier, buffered, work, finished, output>>
\* The splitter sends to the collector, whose batch may be complete with it.
Collect ==
    /\ splitter # {} /\ splitTo = "toBatch" /\ ~sending
    /\ splitter' = {} /\ splitTo' = "out" /\ collector' = collector \cup splitter
    /\ sending' = (Cardinality(collector) + 1 = MaxSize)
    /\ UNCHANGED <<outside, cancelled, open, copier, buffered, work, finished, output>>

\* maxDuration is over, or toBatch is closed.
CollectTimeout ==
    /\ collector # {} /\ ~sending /\ sending' = TRUE
    /\ UNCHANGED <<outside, cancelled, open, splitter, splitTo, collector, copier, buffered,
                   work, finished, output>>

CloseBatches ==
    /\ "toBatch" \notin open /\ collector = {} /\ "batches" \in open
    /\ open' = open \ {"batches"}
    /\ UNCHANGED <<outside, cancelled, holders>>

\* Mutant: a batch stays with the collector until the one before it is processed.
CopierReceiveUnbuffered ==
    /\ sending /\ copier = {} /\ buffered = << >> /\ \A w \in Workers : work[w] = {}
    /\ copier' = collector /\ collector' = {} /\ sending' = FALSE
    /\ UNCHANGED <<outside, cancelled, open, splitter, splitTo, buffered, work, finished, output>>
CopierReceive ==
    /\ sending /\ copier = {}
    /\ copier' = collector /\ collector' = {} /\ sending' = FALSE
    /\ UNCHANGED <<outside, cancelled, open, splitter, splitTo, buffered, work, finished, output>>

CopierSend ==
    /\ copier # {} /\ Len(buffered) < BufferSize
    /\ buffered' = Append(buffered, copier) /\ copier' = {}
    /\ UNCHANGED <<outside, cancelled, open, splitter, splitTo, collector, sending, work,
                   finished, output>>

\* Mutant: the copier returns without closing the channel.
CopierReturns == FALSE
CloseBufferedBatches ==
    /\ "batches" \notin open /\ copier = {} /\ "bufferedBatches" \in open
    /\ open' = open \ {"bufferedBatches"}
    /\ UNCHANGED <<outside, cancelled, holders>>

-----------------------------------------------------------------------------
(* The workers.                                                            *)

\* A worker takes the next batch; with a cancelled context it only cancels it.
WorkerReceive(w) ==
    /\ buffered # << >> /\ work[w] = {}
    /\ buffered' = Tail(buffered)
    /\ work' = IF cancelled THEN work ELSE [work EXCEPT ![w] = Head(buffered)]
    /\ UNCHANGED <<outside, cancelled, open, splitter, splitTo, collector, sending, copier, finished, output>>

\* Mutant: the transfers that were not processed are forgotten.
ResultsOnly(toProcess, notProcessing) == toProcess
Results(toProcess, notProcessing) == toProcess \cup notProcessing

\* The middleware: ShouldProcess may have changed its mind about some transfers of the
\* batch, and the state update of others may fail; the processor gets the rest, if there
\* are any.  Whether it fails or not, which only marks them as errored, all are sent on.
Process(w) ==
    /\ work[w] # {} /\ w \notin finished
    /\ \E toProcess \in SUBSET work[w] :
         work' = [work EXCEPT ![w] = Results(toProcess, @ \ toProcess)]
    /\ finished' = finished \cup {w}
    /\ UNCHANGED <<outside, cancelled, open, splitter, splitTo, collector, sending, copier, buffered, output>>

\* The processor is cut short by a cancelled context: its batch is dropped as a whole.
ProcessCancelled(w) ==
    /\ cancelled /\ work[w] # {} /\ w \notin finished
    /\ work' = [work EXCEPT ![w] = {}]
    /\ UNCHANGED <<outside, cancelled, open, splitter, splitTo, collector, sending, copier, buffered,
                   finished, output>>

CloseBatchResults ==
    /\ "bufferedBatches" \notin open /\ buffered = << >> /\ \A w \in Workers : work[w] = {}
    /\ "batchResults" \in open /\ open' = open \ {"batchResults"}
    /\ UNCHANGED <<outside, cancelled, holders>>

-----------------------------------------------------------------------------
(* The goroutine that reads the results.                                   *)

\* Mutant: the splitter's goroutine reads the results, when it has nothing else to do.
OutputReceiveBySplitter(w) ==
    /\ w \in finished /\ output = {} /\ splitter = {}
    /\ output' = work[w] /\ work' = [work EXCEPT ![w] = {}] /\ finished' = finished \ {w}
    /\ UNCHANGED <<outside, cancelled, open, splitter, splitTo, collector, sending, copier, buffered>>
OutputReceive(w) ==
    /\ w \in finished /\ output = {}
    /\ output' = work[w] /\ work' = [work EXCEPT ![w] = {}] /\ finished' = finished \ {w}
    /\ UNCHANGED <<outside, cancelled, open, splitter, splitTo, collector, sending, copier, buffered>>

OutputSend(k) ==
    /\ k \in output /\ output' = output \ {k} /\ Leaves(k)
    /\ UNCHANGED <<cancelled, open, splitter, splitTo, collector, sending, copier, buffered, work, finished>>

CloseOut ==
    /\ "batchResults" \notin open /\ output = {} /\ "out" \in open
    /\ open' = open \ {"out"}
    /\ UNCHANGED <<outside, cancelled, holders>>

-----------------------------------------------------------------------------
Splitter == (\E k \in Keys : SplitterSend(k)) \/ CloseToBatch
Collector == Collect \/ CollectTimeout \/ CloseBatches
Copier == CopierReceive \/ CopierSend \/ CloseBufferedBatches
Worker(w) == WorkerReceive(w) \/ Process(w) \/ ProcessCancelled(w)
Output == (\E w \in Workers : OutputReceive(w)) \/ (\E k \in Keys : OutputSend(k)) \/ CloseOut

Next ==
    \/ Cancel \/ CloseInput
    \/ \E k \in Keys : Receive(k)
    \/ Splitter \/ Collector \/ Copier \/ Output
    \/ (\E w \in Workers : Worker(w)) \/ CloseBatchResults

Spec == Init /\ [][Next]_vars

\* The batches that Collect can make.
Batch == {b \in SUBSET Keys : Cardinality(b) <= MaxSize}

\* Types and capacities: a batch has at most MaxSize transfers, on its whole way from the
\* collector to the output, and bufferedBatches at most BufferSize batches.
TypeOK ==
    /\ outside \subseteq Keys
    /\ cancelled \in BOOLEAN /\ open \subseteq Channel
    /\ splitter \subseteq Keys /\ splitTo \in {"out", "toBatch"}
    /\ collector \in Batch /\ sending \in BOOLEAN
    /\ copier \in Batch
    /\ buffered \in Seq(Batch) /\ Len(buffered) <= BufferSize
    /\ work \in [Workers -> Batch] /\ finished \subseteq Workers
    /\ output \in Batch

-----------------------------------------------------------------------------
(* Properties.                                                             *)

\* Where a transfer may be, and who is there.
Place ==
    ({"outside", "splitter", "collector", "copier", "output"} \X {0})
      \cup ({"buffered"} \X (1 .. BufferSize)) \cup ({"work"} \X Workers)

Holds(p) ==
    CASE p[1] = "outside"   -> outside
      [] p[1] = "splitter"  -> splitter
      [] p[1] = "collector" -> collector
      [] p[1] = "copier"    -> copier
      [] p[1] = "buffered"  -> IF p[2] <= Len(buffered) THEN buffered[p[2]] ELSE {}
      [] p[1] = "work"      -> work[p[2]]
      [] p[1] = "output"    -> output

\* A transfer is never at two places at a time, so it is not in two batches and does not
\* leave twice; and none is lost on the way through splitter, collector, buffer, workers and
\* output, whatever fails, unless the context is cancelled.
Accounted ==
    /\ \A k \in Keys : \A p, q \in Place : k \in Holds(p) /\ k \in Holds(q) => p = q
    /\ ~cancelled => \A k \in Keys : \E p \in Place : k \in Holds(p)

\* No goroutine is about to send to a closed channel, which would panic: not the splitter to
\* out, which another goroutine closes, nor a worker that is still busy at shutdown.
NoSendOnClosed ==
    /\ splitter # {} => splitTo \in open
    /\ sending => "batches" \in open
    /\ copier # {} => "bufferedBatches" \in open
    /\ finished # {} => "batchResults" \in open
    /\ output # {} => "out" \in open

\* The refinement mapping to PipelineStage: what a goroutine or the buffer holds is in the stage.
Inside ==
    splitter \cup collector \cup copier \cup output
      \cup (UNION {buffered[i] : i \in DOMAIN buffered}) \cup (UNION {work[w] : w \in Workers})
State(ch) == IF ch \in open THEN "open" ELSE "closed"
Stage == INSTANCE PipelineStage WITH inside <- Inside, in <- State("in"), out <- State("out")

\* Split, collected, buffered and processed by several workers, the transfers see a stage like
\* any other: each comes out once for each time it goes in, or is dropped if the context is
\* cancelled, and out is closed when there is none left that could come out.
ImplementsStage == Stage!Spec

-----------------------------------------------------------------------------
(* Liveness.                                                               *)

\* Every goroutine runs, the stage behind this one keeps reading from out, and a channel
\* serves the senders that are blocked on it in order.
Fairness ==
    /\ WF_vars(CloseInput) /\ WF_vars(Splitter) /\ WF_vars(Collector) /\ WF_vars(Copier)
    /\ WF_vars(\E w \in Workers : WorkerReceive(w)) /\ WF_vars(CloseBatchResults)
    /\ WF_vars(Output) /\ \A w \in Workers : SF_vars(OutputReceive(w))

FairSpec == Spec /\ Fairness

\* Processors return.
ProcessorsReturn == \A w \in Workers : WF_vars(Process(w) \/ ProcessCancelled(w))

\* Batches that are slow to process do not bring the whole pipeline to a halt: even if no
\* processor ever returns, the stage keeps taking transfers in until bufferedBatches is full.
Flowing == (splitter # {}) ~> (splitter = {} \/ Len(buffered) = BufferSize)

\* Nothing above tells one transfer from another, so what one can rely on all can.
Followed == CHOOSE k \in Keys : TRUE

\* If processors return, a transfer that enters the stage comes out of it again: splitter,
\* collector, workers and the goroutine that reads the results never wait for each other in
\* a circle.
Delivered ==
    ProcessorsReturn => (Followed \notin outside ~> (Followed \in outside \/ cancelled))

\* ... and once the context is cancelled the closing of the input gets through to the output.
ClosesOut == ProcessorsReturn => (cancelled ~> "out" \notin open)
=============================================================================
