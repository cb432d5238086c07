--------------------------- MODULE RelayDispatcher --------------------------
(***************************************************************************)
(* How transfers get into the pipelines and out of them again: the loop of *)
(* relay_dispatcher.go, IBCV2PipelineManager, which has one pipeline per   *)
(* path between two chains, and PipelineDeduper, which lets a transfer     *)
(* into its pipeline only once at a time and shares a mutex with the       *)
(* goroutine that reads the pipeline's output.                             *)
(*                                                                         *)
(* The actors are the dispatcher and, for every pipeline, the goroutine of *)
(* pipeline.Emitter, the workers of its stages and the goroutine that      *)
(* drains its output.  What a stage does to a transfer is in module        *)
(* TransferPipeline; here it only matters that it writes a status, takes   *)
(* some time, and is cut short by a cancelled context: the dispatcher's,   *)
(* or that of a Relay request with which it shares a lookup in once.go.    *)
(***************************************************************************)
EXTENDS Integers, Sequences, FiniteSets, Functions

CONSTANTS
    Keys,           \* transferKeys: the transfers
    Pipelines,      \* pipelineKeys: the paths between two chains and clients
    PipelineOf,     \* the path of each transfer
    Unconfigured,   \* the paths NewPipelineOpts has no configuration for
    InputBuffer,    \* inputBufferSize of NewPipeline
    StageCapacity,  \* how many transfers fit into the stages of a pipeline
    Shared,         \* transfers with a transaction that Relay requests also look up
    Nil             \* the nil transfer

ASSUME DispatcherAssumption ==
    /\ PipelineOf \in [Keys -> Pipelines]
    /\ Unconfigured \subseteq Pipelines
    /\ InputBuffer \in Nat \ {0}
    /\ StageCapacity \in Nat \ {0}
    /\ Shared \subseteq Keys
    /\ Nil \notin Keys

VARIABLES
    status,     \* of each row: "absent", "unfinished", "finished" or "FAILED"
    cancelled,  \* the context is cancelled
    at,         \* where the dispatcher is
    todo,       \* the transfers of the last query that are not submitted yet
    cur,        \* the transfer Push has marked and not sent yet
    created,    \* the pipelines the manager has
    closed,     \* those whose input is closed
    inPipeline, \* PipelineDeduper's set of keys, for each pipeline
    input,      \* the buffered input channel
    emitter,    \* where the Emitter's goroutine is
    held,       \* what it is about to send to the first stage
    stages,     \* what is in the stages
    output,     \* what the last stage is waiting to send
    drainer,    \* where the draining goroutine is
    hand        \* what it has read and not deleted from inPipeline yet

dispatcherVars == <<at, todo, cur, created, closed>>
pipelineVars == <<inPipeline, input, emitter, held, stages, output, drainer, hand>>
vars == <<status, cancelled, dispatcherVars, pipelineVars>>

Init ==
    /\ status \in [Keys -> {"absent", "unfinished"}]
    /\ cancelled = FALSE
    /\ at = "select" /\ todo = {} /\ cur = Nil /\ created = {} /\ closed = {}
    /\ inPipeline = [p \in Pipelines |-> {}]
    /\ input = [p \in Pipelines |-> << >>]
    /\ emitter = [p \in Pipelines |-> "top"] /\ held = [p \in Pipelines |-> Nil]
    /\ stages = [p \in Pipelines |-> {}] /\ output = [p \in Pipelines |-> {}]
    /\ drainer = [p \in Pipelines |-> "off"] /\ hand = [p \in Pipelines |-> Nil]

\* A client asks for a transfer to be relayed.
Insert(k) ==
    /\ status[k] = "absent"
    /\ status' = [status EXCEPT ![k] = "unfinished"]
    /\ UNCHANGED <<cancelled, dispatcherVars, pipelineVars>>

\* The process is told to stop.
Cancel ==
    /\ ~cancelled /\ cancelled' = TRUE
    /\ UNCHANGED <<status, dispatcherVars, pipelineVars>>

-----------------------------------------------------------------------------
(* The dispatcher's goroutine.                                             *)

\* The ticker fires and the query for unfinished transfers succeeds, which it does not
\* with a cancelled context.
Tick ==
    /\ at = "select" /\ ~cancelled
    /\ at' = "submit" /\ todo' = {k \in Keys : status[k] = "unfinished"}
    /\ UNCHANGED <<status, cancelled, cur, created, closed, pipelineVars>>

\* There is no pipeline for the transfer and none can be made: it is marked FAILED, if
\* the database takes the update.
MarkFailed(k) ==
    /\ at = "submit" /\ k \in todo
    /\ PipelineOf[k] \notin created /\ PipelineOf[k] \in Unconfigured
    /\ status' = status \/ status' = [status EXCEPT ![k] = "FAILED"]
    /\ todo' = todo \ {k}
    /\ UNCHANGED <<cancelled, at, cur, created, closed, pipelineVars>>

\* Mutant: Push does not look whether the transfer is marked.
MarkedNever(k) == FALSE
Marked(k) == k \in inPipeline[PipelineOf[k]]

\* The first Push starts the goroutine that drains the output.
StartDrainer(p) ==
    drainer' = [drainer EXCEPT ![p] = IF @ = "off" THEN "poll" ELSE @]

\* Manager.Pipeline finds or makes the pipeline of the transfer and Push starts: it
\* marks the transfer and, still holding the mutex, goes on to send it; a transfer that is
\* marked already is dropped.
SubmitTransfer(k) ==
    LET p == PipelineOf[k] IN
    /\ at = "submit" /\ k \in todo
    /\ p \in created \/ p \notin Unconfigured
    /\ created' = created \cup {p}
    /\ StartDrainer(p)
    /\ IF Marked(k)
       THEN todo' = todo \ {k} /\ UNCHANGED <<at, cur, inPipeline>>
       ELSE /\ inPipeline' = [inPipeline EXCEPT ![p] = @ \cup {k}]
            /\ at' = "send" /\ cur' = k
            /\ UNCHANGED todo
    /\ UNCHANGED <<status, cancelled, closed, input, emitter, held, stages, output, hand>>

\* The dispatcher holds the mutex of pipeline p.
Locked(p) == at = "send" /\ PipelineOf[cur] = p

Push(p) == input' = [input EXCEPT ![p] = Append(@, cur)]

\* Pipeline.Push: the send to the buffered input channel, which nothing interrupts.
Send ==
    LET p == PipelineOf[cur] IN
    /\ at = "send" /\ Len(input[p]) < InputBuffer
    /\ at' = "submit" /\ cur' = Nil /\ todo' = todo \ {cur}
    /\ Push(p)
    /\ UNCHANGED <<status, cancelled, created, closed, inPipeline, emitter, held, stages,
                   output, drainer, hand>>

\* All are submitted, and the ticker is set again.
Submitted ==
    /\ at = "submit" /\ todo = {} /\ at' = "select"
    /\ UNCHANGED <<status, cancelled, todo, cur, created, closed, pipelineVars>>

\* Mutant: the pipelines are closed although the context is not cancelled.
BeginCloseEarly ==
    /\ at = "select"
    /\ at' = "closing"
    /\ UNCHANGED <<status, cancelled, todo, cur, created, closed, pipelineVars>>

\* The context is cancelled, and the loop ends.
BeginClose ==
    /\ at = "select" /\ cancelled
    /\ at' = "closing"
    /\ UNCHANGED <<status, cancelled, todo, cur, created, closed, pipelineVars>>

\* Manager.Close closes the input of one pipeline after the other, and waits each time
\* until its drainer is done.
ClosePipeline(p) ==
    /\ at = "closing" /\ p \in created \ closed
    /\ \A q \in closed : drainer[q] = "gone"
    /\ closed' = closed \cup {p}
    /\ UNCHANGED <<status, cancelled, at, todo, cur, created, pipelineVars>>

AwaitDone(p) ==
    /\ at = "closing" /\ p \in closed /\ drainer[p] = "done"
    /\ drainer' = [drainer EXCEPT ![p] = "gone"]
    /\ UNCHANGED <<status, cancelled, dispatcherVars, inPipeline, input, emitter, held,
                   stages, output, hand>>

EndClose ==
    /\ at = "closing" /\ \A p \in created : drainer[p] = "gone"
    /\ at' = "stopped"
    /\ UNCHANGED <<status, cancelled, todo, cur, created, closed, pipelineVars>>

-----------------------------------------------------------------------------
(* The goroutines of pipeline p.                                           *)

EmitterSet(p, where, what) ==
    emitter' = [emitter EXCEPT ![p] = where] /\ held' = [held EXCEPT ![p] = what]

\* The Emitter looks at the context, and then waits for a transfer: a closed input
\* yields nil.
EmitterTop(p) ==
    /\ p \in created /\ emitter[p] = "top"
    /\ EmitterSet(p, IF cancelled THEN "stopped" ELSE "receive", Nil)
    /\ UNCHANGED <<status, cancelled, dispatcherVars, inPipeline, input, stages, output,
                   drainer, hand>>

EmitterReceive(p) ==
    /\ emitter[p] = "receive"
    /\ \/ /\ input[p] # << >>
          /\ EmitterSet(p, "send", Head(input[p]))
          /\ input' = [input EXCEPT ![p] = Tail(@)]
       \/ /\ input[p] = << >> /\ p \in closed
          /\ EmitterSet(p, "send", Nil)
          /\ UNCHANGED input
    /\ UNCHANGED <<status, cancelled, dispatcherVars, inPipeline, stages, output, drainer, hand>>

\* A worker of the first stage takes what the Emitter holds, and cancels it or
\* processes it.
EmitterSend(p) ==
    /\ emitter[p] = "send" /\ Cardinality(stages[p] \cup output[p]) < StageCapacity
    /\ stages' = IF cancelled THEN stages ELSE [stages EXCEPT ![p] = @ \cup {held[p]}]
    /\ EmitterSet(p, "top", Nil)
    /\ UNCHANGED <<status, cancelled, dispatcherVars, inPipeline, input, output, drainer, hand>>

\* A processor writes a status of work in progress, or the last one a final status.
WriteStatus(p, k) ==
    /\ k \in stages[p]
    /\ \/ status[k] = "finished" /\ status' = [status EXCEPT ![k] = "unfinished"]
       \/ status[k] = "unfinished" /\ status' = [status EXCEPT ![k] = "finished"]
    /\ UNCHANGED <<cancelled, dispatcherVars, pipelineVars>>

\* Mutant: the middleware returns every error, and the worker drops the transfer.
MayDropErrored(k) == TRUE
\* The middleware of processor_mw.go returns an error only if it is context.Canceled.  The
\* clients' lookups of a transaction are shared by all who ask for it, and so is the error
\* of the one whose context the lookup ran under: a Relay request that names a recv, ack
\* or timeout transaction of the transfer and is given up leaves it to the processors.
MayDrop(k) == cancelled \/ k \in Shared

\* A transfer, errored or not, has passed all stages; or a worker drops it because of a
\* cancelled context, without telling the deduper.
LeaveStages(p, k) ==
    /\ k \in stages[p]
    /\ stages' = [stages EXCEPT ![p] = @ \ {k}]
    /\ \/ output' = [output EXCEPT ![p] = @ \cup {k}]
       \/ MayDrop(k) /\ UNCHANGED output
    /\ UNCHANGED <<status, cancelled, dispatcherVars, inPipeline, input, emitter, held,
                   drainer, hand>>

\* The output channel is not buffered: the drainer takes the transfer from the last stage, ...
DrainerPoll(p, k) ==
    /\ k \in output[p] /\ drainer[p] = "poll"
    /\ output' = [output EXCEPT ![p] = @ \ {k}]
    /\ drainer' = [drainer EXCEPT ![p] = "got"] /\ hand' = [hand EXCEPT ![p] = k]
    /\ UNCHANGED <<status, cancelled, dispatcherVars, inPipeline, input, emitter, held, stages>>

\* Mutant: the drainer does not delete the mark.
KeepMark(p) == UNCHANGED inPipeline
DeleteMark(p) == inPipeline' = [inPipeline EXCEPT ![p] = @ \ {hand[p]}]

\* ... needs the mutex to forget it, ...
DrainerDelete(p) ==
    /\ drainer[p] = "got" /\ ~Locked(p)
    /\ DeleteMark(p)
    /\ drainer' = [drainer EXCEPT ![p] = "poll"] /\ hand' = [hand EXCEPT ![p] = Nil]
    /\ UNCHANGED <<status, cancelled, dispatcherVars, input, emitter, held, stages, output>>

\* Mutant: the drainer returns without closing the done channel.
DrainerReturns(p) ==
    /\ drainer[p] = "poll" /\ emitter[p] = "stopped" /\ stages[p] = {} /\ output[p] = {}
    /\ drainer' = [drainer EXCEPT ![p] = "off"]
    /\ UNCHANGED <<status, cancelled, dispatcherVars, inPipeline, input, emitter, held,
                   stages, output, hand>>
\* ... and is done when the Emitter has stopped and every stage behind it is empty.
DrainerDone(p) ==
    /\ drainer[p] = "poll" /\ emitter[p] = "stopped" /\ stages[p] = {} /\ output[p] = {}
    /\ drainer' = [drainer EXCEPT ![p] = "done"]
    /\ UNCHANGED <<status, cancelled, dispatcherVars, inPipeline, input, emitter, held,
                   stages, output, hand>>

-----------------------------------------------------------------------------
Submit ==
    (\E k \in Keys : MarkFailed(k) \/ SubmitTransfer(k)) \/ Send \/ Submitted

Close == BeginClose \/ (\E p \in Pipelines : ClosePipeline(p) \/ AwaitDone(p)) \/ EndClose

Emitter(p) == EmitterTop(p) \/ EmitterReceive(p) \/ EmitterSend(p)

Drainer(p) == (\E k \in Keys : DrainerPoll(p, k)) \/ DrainerDelete(p) \/ DrainerDone(p)

Next ==
    \/ \E k \in Keys : Insert(k)
    \/ Cancel
    \/ Tick \/ Submit \/ Close
    \/ \E p \in Pipelines :
         Emitter(p) \/ Drainer(p) \/ \E k \in Keys : WriteStatus(p, k) \/ LeaveStages(p, k)

Spec == Init /\ [][Next]_vars

Keyed(x) == {x} \ {Nil}
Queued(p) == Range(input[p])
InFlight(p) == Queued(p) \cup Keyed(held[p]) \cup stages[p] \cup output[p] \cup Keyed(hand[p])

TypeOK ==
    /\ status \in [Keys -> {"absent", "unfinished", "finished", "FAILED"}]
    /\ cancelled \in BOOLEAN
    /\ at \in {"select", "submit", "send", "closing", "stopped"}
    /\ todo \subseteq Keys /\ cur \in Keys \cup {Nil}
    /\ created \subseteq Pipelines /\ closed \subseteq created
    /\ inPipeline \in [Pipelines -> SUBSET Keys]
    /\ input \in [Pipelines -> Seq(Keys)]
    /\ emitter \in [Pipelines -> {"top", "receive", "send", "stopped"}]
    /\ held \in [Pipelines -> Keys \cup {Nil}]
    /\ stages \in [Pipelines -> SUBSET (Keys \cup {Nil})]
    /\ output \in [Pipelines -> SUBSET Keys]
    /\ drainer \in [Pipelines -> {"off", "poll", "got", "done", "gone"}]
    /\ hand \in [Pipelines -> Keys \cup {Nil}]

-----------------------------------------------------------------------------
(* Properties.                                                             *)

\* PipelineDeduper: there is never more than one copy of a transfer in a pipeline, from
\* the input buffer to the hand of the drainer, and the copy is in its own pipeline; the
\* one Push is about to send is the only one.
Deduped ==
    /\ \A p \in Pipelines :
         /\ IsInjective(input[p])
         /\ held[p] = Nil \/ held[p] \notin Queued(p) \cup stages[p] \cup output[p] \cup {hand[p]}
         /\ hand[p] = Nil \/ hand[p] \notin Queued(p) \cup stages[p] \cup output[p]
         /\ Queued(p) \cap (stages[p] \cup output[p]) = {} /\ stages[p] \cap output[p] = {}
         /\ \A k \in Keys \cap InFlight(p) : PipelineOf[k] = p
    /\ at = "send" => cur \notin InFlight(PipelineOf[cur])

\* Pipeline p has the transfer, or it is on its way in.
Held(p) == InFlight(p) \cup (IF Locked(p) THEN {cur} ELSE {})

\* Only a lookup shared with a Relay request makes PipelineDeduper keep a mark for nothing: as
\* long as the context is not cancelled every other marked transfer is in the pipeline or on
\* its way in, so the drainer will forget it and the dispatcher can submit it again.
NoMarkLeaks ==
    ~cancelled => \A p \in Pipelines : inPipeline[p] \subseteq Held(p) \cup Shared

\* The nil transfer a closed input yields is never processed, only cancelled: the
\* processors would dereference it.
NilNeverProcessed == \A p \in Pipelines : Nil \notin stages[p]

\* With a buffer for as many transfers as a pipeline has, Push never blocks, neither with
\* the stages congested nor during shutdown, so the dispatcher never waits while it holds
\* the mutex.
PushNeverBlocks == at = "send" => Len(input[PipelineOf[cur]]) < InputBuffer

\* The refinement mapping to TransferCustody.  A transfer that Push has marked counts as handed
\* over, though it is not in the input channel yet.
Open == {k \in Keys : status[k] = "unfinished"}
Polled == todo \ {cur}
Inside == {k \in Keys : k \in inPipeline[PipelineOf[k]]}
Custody == INSTANCE TransferCustody WITH open <- Open, polled <- Polled, inside <- Inside

\* The dispatcher and the pipelines keep to TransferCustody, on which TransferPipeline relies:
\* a transfer enters a pipeline only if none has it and only with a row that was read as
\* unfinished, and no stage writes its row after PipelineDeduper has let it go.
ImplementsCustody == Custody!Spec

-----------------------------------------------------------------------------
(* Liveness.                                                               *)

\* Every goroutine runs, and a channel serves blocked senders in order.
Fairness ==
    /\ WF_vars(Tick) /\ WF_vars(Submit) /\ WF_vars(Close)
    /\ \A p \in Pipelines :
         /\ WF_vars(Emitter(p)) /\ WF_vars(Drainer(p))
         /\ \A k \in {x \in Keys : PipelineOf[x] = p} :
              WF_vars(LeaveStages(p, k)) /\ SF_vars(DrainerPoll(p, k))

FairSpec == Spec /\ Fairness

\* Once the context is cancelled the dispatcher stops, whatever is in its pipelines.
ShutdownCompletes == cancelled ~> at = "stopped"

\* The dispatcher does not lose an unfinished transfer of a path that is configured, whatever
\* becomes of those that share lookups: again and again it is in the stages of its pipeline,
\* until it is finished.
AlwaysTriedAgain ==
    \A k \in {x \in Keys \ Shared : PipelineOf[x] \notin Unconfigured} :
        status[k] = "unfinished" ~>
            cancelled \/ status[k] # "unfinished" \/ k \in stages[PipelineOf[k]]

\* processor_mw.go: "if the error is context cancelled, the pipeline is over and we dont care
\* about the oboe".  A transfer that is marked and that no goroutine has any more was
\* dropped by a worker; it is not submitted again until the process is restarted.
DroppedWhenOver == ~cancelled => \A p \in Pipelines : inPipeline[p] \subseteq Held(p)

\* relay_dispatcher.go, of SubmitTransfer: "If the context is cancelled while blocked, an
\* error will be returned and the transfer will not be submitted".
CancelUnblocksSubmit == (cancelled /\ at = "send") ~> at # "send"
=============================================================================
