# A TLA+ model of the IBC v2 relayer

This directory holds TLA+ modules that model the relayer service of this repository, TLC
configurations that check them on small instances, and TLAPS proofs of their main safety
properties. `PROJECT.json` maps every definition to the lines it models, and lists the
runs, the hazards each property is aimed at, what was found, and the theorems.

## The system

A client calls `Relay` (`relayerapi/services/relayerapi/service.go`) with the hash of a
transaction that sent packets; a row per packet goes into table `ibcv2_transfers`. Every few
seconds the **relay dispatcher** (`relayer/ibcv2/relay_dispatcher.go`) queries the unfinished
rows and pushes each into the **pipeline** of its path (`pipeline.go`), through a
**deduper** that keeps out a transfer which is in the pipeline already. A pipeline is a chain
of **processors**, each wrapped in a **middleware** (`processor_mw.go`) that skips it if it is
not needed, writes its state to the row, and turns its errors into a mark on the transfer. The
three processors that submit transactions work on **batches**
(`conditional_batch_processor.go`). Everything the processors know of the chains comes from
the **bridge clients** (`shared/bridges/ibcv2`), one for COSMOS and one for EVM chains.

| part | state | operations | hard behaviours |
|---|---|---|---|
| transfer pipeline | row, the copy in the pipeline | one `Process` per processor | stale copies, cleared hashes, clock read twice, errors at every call |
| batching | batches on their way through goroutines and channels | split, collect, process | a transfer ages while its batch fills; goroutines that wait for each other; shutdown |
| dispatcher | the rows of the last query | `Run`, `SubmitWaitingUnfinishedTransfers`, `SubmitTransfer` | rows change while they are submitted; shutdown |
| manager and deduper | pipelines, marks, mutex | `Pipeline`, `Push`, drain, `Close` | a send while holding the mutex; marks without a transfer |
| bridge clients | none; nonces on EVM | queries, `DeliverTx` | late, failed and lost transactions; finality |
| chains, other relayers (external) | commitment, receipt, acknowledgement, transactions | land, fail, finalize | race with the relayer |
| storage | rows, submissions | updates, `ExecTx` | failure after a submission |
| Relayer API | rows | `Relay`, `Status` | repeated requests |
| cost tracker | unresolved submissions | poll, resolve, expire | a limit on the rows polled |
| `OnceWithKey` | cached lookups | `Do`, expire | concurrent callers, stale failures |
| price cache, start-up, config, signing, metrics, CLIs, generated code | - | - | not modelled |

What the system should guarantee: a final status agrees with the chains; nothing is submitted
before its cause is final, or against the source chain's configuration; what the row says
stays true whatever is retried, cleared or relayed by others; no transfer is in a pipeline
twice, none is lost, and none stays for ever; the service can be stopped.

## Modules

| module | models | state |
|---|---|---|
| `PacketChains` | external: the two chains as seen through the clients, and other relayers | `nTx`, `txKind`, `txStatus`, `srcPacket`, `recvBy`, `writeAck`, ... |
| `BridgeClients` | the queries of `CosmosBridgeClient` and `EVMBridgeClient` | none |
| `TransferPipeline` | one transfer: dispatcher, middleware, all processors, database row | `row`, `snap`, `pc`, `mem`, `phase`, `sent`, `submissions` |
| `TransferLifecycle` | the promise to a client about one transfer, without saying how it is kept | `packet`, `receipt`, `inFlight`, `outcome`, ... |
| `TransferCustody` | who may touch the row of a transfer, and when: the agreement between dispatcher and pipelines | `open`, `polled`, `inside` |
| `TransferRefinement` | the mappings under which `TransferPipeline` implements `TransferLifecycle` and `TransferCustody` | none of its own |
| `ConditionalBatch` | a batch stage: its goroutines, channels and workers, many transfers | `open`, `splitter`, `collector`, `copier`, `buffered`, `work`, `output`, ... |
| `PipelineStage` | what the neighbours of a stage rely on, whatever it is made of | `outside`, `inside`, `cancelled`, `in`, `out` |
| `LookupCache` | `OnceWithKey` with concurrent callers of `ShouldRetryTx` | `onces`, `once`, `pc`, `mine`, `said`, `chain`, ... |
| `RelayDispatcher` | many transfers: dispatcher, manager, deduper, goroutines of each pipeline, shutdown | `at`, `todo`, `inPipeline`, `input`, `emitter`, `stages`, `output`, `drainer`, ... |
| `RelayerAPI` | the handlers `Relay` and `Status`, many calls at a time | `executed`, `cached`, `requests`, `rows`, `call`, `answer` |
| `RelayService` | the API as a client sees it: every call takes effect and is answered in one step | `executed`, `unnoticed`, `requests`, `rows`, `answer` |
| `EVMSubmission` | `DeliverTx` of the EVM client, many callers, the account and the pool | `confirmed`, `pool`, `lock`, `pc`, `pendingNonce`, ... |
| `TxCostTracker` | the tracker of submitted transactions, in several processes | `outcome`, `fee`, `status`, `cost`, `usd`, `batch`, `at` |
| `..._proofs` (eight) | theorems about `TransferPipeline`, its refinement, `RelayDispatcher`, `ConditionalBatch`, `LookupCache`, `RelayerAPI`, `EVMSubmission`, `TxCostTracker` | |
| `MC...` (seven) | instances for TLC | |

`TransferPipeline` EXTENDS `BridgeClients`, which EXTENDS `PacketChains`: the composition is
one relayer, two chains and everybody else. `RelayDispatcher` is the complementary view. It
keeps the goroutines, channels and the mutex apart, and reduces what a processor does to
writing a status. The deduper is what lets `TransferPipeline` have one `mem` per transfer:
that a transfer is never twice in its pipeline is `Deduped`. What the two views say of the same
rows meets in `TransferCustody`, which both are proved to implement (`ImplementsCustody` of
either module). The other modules stand alone because the rest of the system sees
little of them: of `RelayerAPI` that transactions are accepted as a whole (`RelayService`), of
`EVMSubmission` that a transaction is broadcast or not, of `ConditionalBatch` that a transfer
goes in and comes out once (`PipelineStage`, `Accounted`, `Delivered`), of `LookupCache` that a lookup may be stale for a bounded
time (`RetryJustified`, `LandedIsFound`; `StaleLookups` below), of `TxCostTracker` nothing.

### TransferPipeline and the code

- `row` is the row in `ibcv2_transfers`, reduced to the columns decisions depend on. A hash
  and its time are one field. All statuses of work in progress are one value, because nothing
  tells them apart. A gas cost is represented by the transaction it is the cost of.
- `snap` is what the dispatcher read and has not submitted yet (`polled`). `mem` is the
  `IBCV2Transfer` in the pipeline, `pc` the stage it is at.
- `Skip`, `ProcessError`, `MoveOn`, `Fail` are the middleware; one action per processor has
  the guard `Runs(stage)`, and `...ShouldProcess` is the processor's method. An errored
  transfer passes the later stages untouched, so `Fail` puts it at the output.
- A batch processor is `EnterBatch` (the splitter), then `LeaveBatch` (the middleware asks
  `ShouldProcess` again when the batch is handled) or `TimeoutPacket`, `BatchRecvPacket`,
  `BatchAckPacket` (up to `DeliverTx`), then `RecordTx` or `RecordTxError` (`ExecTx`).
- `DeliverTxError` includes a submission that reaches the chain although the call fails.
- `Restart` is a crash at any point: the database and the chains are all that is left.
- `LookupCancelled` is the `context.Canceled` exception of the middleware while the pipeline goes
  on. A lookup of a transaction is shared by all who ask for it (`once.go`) and runs under the
  context of whoever asked first. Besides the processors that is a Relay request, if a client
  names a transaction which the relayer submitted, for instance a recv that sent a packet on.
  If that request is given up, the stages in `LookupStage` get its error and drop their copy:
  it is `"dropped"`, the deduper still has its mark, and only a `Restart` brings the transfer
  back. With the constant `SharedLookups` it may happen.

Abstractions: the state update, the queries of a processor and the write of their result are
one step. What the chains say of a packet is never taken back in this model, so steps of the
chains commute with it; of the dispatcher's query only the view of a finished row that a stale
copy has just set back to work in progress, inside that step, is lost. Submitting and recording
are separate. A transaction that is not in a block yet may be found expired or not at any
moment, because expiry is by the chain's clock. The clients look transactions up through a
cache (`once.go`) that keeps a failed lookup for some seconds: with `StaleLookups`, a
transaction that lands may go on not being found (`missing`, `StaysMissing`) until
`CacheExpires`. The cached answer of a lookup that succeeded cannot become wrong without
reorganisations, which are not modelled (see the last section).

### TransferLifecycle and the refinement

`TransferLifecycle` is what a client and the chains may rely on: the relayer submits a recv or
a timeout only for a final send (`Due`), an ack only for a final receipt whose acknowledgement
the source is to get, reports a final status only if the chains bear it out (`Justified`), and
never replaces one final status by another without first being open again. It has no rows,
copies, stages, hashes, retries or restarts. Chain steps may land any of the relayer's
transactions along with an effect.

`TransferRefinement` maps the row to `outcome` (its final status, or `"OPEN"`), the pending
transactions to the set of their kinds, and the chains to themselves; `snap`, `mem`, `pc`,
`phase` and the submissions are hidden. `ImplementsLifecycle` is the abstract specification
under this mapping. `Reopen` is in the promise because the code does it: a row that was read
before the transfer was finished sends it through the pipeline once more, and the middleware
sets the finished row back to work in progress. The refinement shows that nothing worse comes
of it.

### TransferCustody, where dispatcher and pipeline meet

`TransferPipeline` takes it for granted that a row is polled only when the last query has been
worked off, that a transfer enters when no pipeline has it, and that nobody else writes its row
while it is inside. `RelayDispatcher` has the goroutines, channels and mutexes that are to bring
this about. `TransferCustody` states the agreement: `Poll`, `Enter` (read, and in no
pipeline), `Drop` and `GiveUp`, `Write` (only by a pipeline that has the transfer), `Leave`,
`Restart`. In `RelayDispatcher` the transfers `inside` are those the deduper has marked, in
`TransferRefinement` it is the one transfer while `pc` is not `"idle"`. A stage
that wrote a row after `PipelineDeduper` had let the transfer go, because its mark was dropped too
early or never set, would take no step of `TransferCustody`.

### ConditionalBatch and the code

- One action per send or receive of each goroutine. All channels but `bufferedBatches` are
  unbuffered, so a send and its receive are one step; `open` is the set of channels that are
  not closed.
- `Receive` and `SplitterSend`, `Collect` are the splitter. `ShouldProcess` is a free choice here:
  it depends on the row, which `TransferPipeline` has. `Collect`, `CollectTimeout`,
  `CloseBatches` are `pipeline.Collect`, and `WorkerReceive` and `CloseBatchResults`
  `pipeline.ProcessConcurrently`, both external.
- `Process` is the batch middleware. Each transfer of the batch is processed or not; a processor
  that fails marks its transfers and they are sent on all the same. `ProcessCancelled` is the
  `context.Canceled` exception: the batch is dropped.
- `Cancel` may happen at any time; `CloseInput` follows from the stages before.
- `ImplementsStage`: with the transfers that the goroutines hold as `inside`, it is a
  `PipelineStage`. Transfers may overtake each other, are dropped only once the context is
  cancelled, and the output is closed after the input, with nothing left inside.

### LookupCache and the code

- `Lookup` is `Do` up to the first unlock, `Run` and `Return` the `sync.OnceValues` that the
  callers share, `SetError` and `Cleanup` the rest, each a step because another caller may come
  in between. `Cleanup` also has what `ShouldRetryTx` makes of the answer, and `Header` the
  header it asks for if the transaction was not found.
- `Remove` deletes by the once, as the code does, and so removes nothing: the map is indexed by
  the transaction. A once that nobody refers to is `Collected` and can be used again, as the
  garbage collector does.
- `age` and `landed` are times up to `SuccessTimeout`. `recent` is a history variable: when
  the caller came, had its transaction been on the chain for longer than a cached answer is
  kept?

### RelayDispatcher and the code

- The dispatcher is `Tick` (the query), `MarkFailed`, `SubmitTransfer` (`Manager.Pipeline`,
  then `PipelineDeduper.Push` up to the send), `Send` (`Pipeline.Push`), `Submitted`, and for
  shutdown `BeginClose`, `ClosePipeline`, `AwaitDone`, `EndClose`.
- The mutex of a deduper is held exactly while `at = "send"` for its pipeline (`Locked`).
- `Emitter...` is the goroutine of `pipeline.Emitter`, `LeaveStages` the way through the
  stages, `Drainer...` the goroutine started by the first `Push`. The library
  (`deliveryhero/pipeline`) is external and modelled from its use: an unbuffered output, a
  nil from a closed input, and `Cancel` instead of `Process` once the context is cancelled.
- `MayDrop` is the `context.Canceled` exception of the middleware: the transfer leaves the stages,
  but not through the output, and nobody tells the deduper. It may happen to any transfer once
  the context is cancelled, and at any time to one in `Shared`, whose lookups a Relay request
  may share (`LookupCancelled` above). `NoMarkLeaks` and `AlwaysTriedAgain` say what holds of
  the others.
- `StageCapacity` is how many transfers fit into all stages; a full one stands for stages
  that are congested.

### RelayerAPI and the code

- `BeginTx` and `Reject` are `Relay` up to `ExecTx`: the checks read the chain only, so they
  are one step. A hash that was not found stays so for some seconds, whatever the chain says
  meanwhile: `cached`, until `CacheExpires`. `InsertRelayRequest`, `SkipPacket`, `InsertIBCV2Transfer`,
  `DuplicateTransfer` and `Commit` are the statements of the database transaction, one step
  each. What a call has inserted is `call[c].request` and `call[c].inserted` until it commits.
- The database is PostgreSQL with its default isolation: an insert with a unique key waits for
  an uncommitted one with the same key (`Unlocked`), then does nothing or fails.
- `Hash` is what clients send. Several hashes may be spellings of one transaction
  (`TxOf`): neither the handler nor the table normalises them.
- `GetRelayRequest` and `GetTransfersBySourceTx` are the two queries of `Status`.
- `RelayService` has the same tables and answers, and no database transactions: `Accept`
  takes a transaction with all its packets at once, `Reject` gives a reason that holds
  (`Reason`) of what the service knows: a hash may be `unnoticed` for a while although its
  transaction is in a block, and a call that finds nothing makes it so. `Status` shows all packets or none. The calls in progress are hidden, and with
  `ImplementsService` it is the commit, or the second query of `Status`, that counts.
- A sequence number is assumed to fit into the 32 bits of its column.

### EVMSubmission and the code

- `Lock`, `Waited` or `Cancelled`, `PendingNonceAt`, `NonceAt`, then `Send`, `SendLost` or
  `SubmitError` are `DeliverTx`, with a step for every point where the node or another
  goroutine can come in between. `due` is that `lastSubmissionTime` is `txSubmissionDelay`
  ago. `SendLost` is a transaction the node took although the call failed: its time is not
  recorded.
- The node is external: it answers with the account's nonce and the first free one behind it,
  takes a transaction whose nonce is not used up, in place of one with a lower fee, and mines
  in the order of the nonces. It may drop up to `MaxEvictions` of them. `minable` is whether a fee is high enough.
- `MaxDiff` is `maxPendingAndConfirmedNonceDifference`.

### TxCostTracker and the code

- Submissions are numbered by `submitted_at`, the time of the broadcast. Rows are inserted in any
  order, because batches that were sent earlier may be recorded later; `old` is how far `attemptExpiry` has got.
- `Poll` is the query with its `LIMIT`; then each row of `batch`, the oldest first, is
  `Expire`, `Lookup` and `Update`, or `TrackError`. The lookups and the update are separate
  steps because another process may get in between.
- Costs are zero, positive or NULL. `Priced` is that a price client and a coin are
  configured.

## Runs

| run | what it asks | result |
|---|---|---|
| `evm_to_cosmos` | EVM source, COSMOS destination, success acks wanted, other relayers, stale lookups, 2 transactions: `CompletionIsReal`, `WriteAckIsReal`, `RecordedTxIsKnown`, `SubmitAfterSendFinality`, `AckSubmittedWhenDue`, `NoTimeoutAfterWriteAck`; and under fairness the packet does not stay committed for ever on an unfinished transfer (`PacketResolved`) | hold |
| `cosmos_to_evm` | COSMOS source, EVM destination, error acks wanted, gas stages, shared lookups, other relayers, 2 transactions: `ImplementsLifecycle`, which includes that statuses and submissions are justified, and `ImplementsCustody` | hold |
| `dispatcher` | two transfers on a path whose buffer holds both, a third on a path that is not configured, one of the two with shared lookups: `ImplementsCustody`, `Deduped`, `NoMarkLeaks`, `NilNeverProcessed`, `PushNeverBlocks`, `AlwaysTriedAgain` (an unfinished transfer gets into the stages again and again), `ShutdownCompletes` | hold |
| `batching` | five transfers, one worker, batches of two, a buffer of one: `TypeOK`, `Accounted`, `NoSendOnClosed`, `ImplementsStage`, `Flowing`, `Delivered`, `ClosesOut` | hold |
| `caches` | two callers of one transaction, timeouts 2 and 1: `SingleFlight`, `RetryJustified`, `LandedIsFound` | hold |
| `api` | two calls at a time, four packets of two transactions, two spellings of a hash, a blacklisted sender: `AllOrNothing`, `AcceptedIsTracked`, `StatusComplete`, no circle of calls that wait for each other's inserts (`NoCircularWait`, `CallsReturn`), `ImplementsService` | hold |
| `submission` | two callers, an eviction: `ReplacesOnlyStuck`, `NoNonceGap`, `SubmitsInTurn` (the queries and the submission act as one step), `NonceAdvances` | hold |
| `tracker` | two processes, two submissions, one row a poll: `ResolvedIsReal`, `ResolvedStays`, `PollsOldest` (a poll takes those that have waited longest, as many as it may), `EventuallyResolved` | hold |
| `eventually_finished` | does every transfer reach a final status? | violated |
| `cancelled_lookup` | is a transfer dropped only when its pipeline is over? | violated |
| `cancel_unblocks` | does cancelling the context unblock `SubmitTransfer`? | violated |
| `api_resubmission` | is a repeated request answered with OK? | violated |

The type invariants of the modules other than `ConditionalBatch`, and `WriteAckStays`, are not in
a run: they are proved.

The violated properties state what a comment or the API's documentation says; each is quoted
in `PROJECT.json` under `findings`. Their counterexamples in words:

- `eventually_finished`: `RetryRecvPacket` clears a recv hash whose transaction lands late.
  A copy read before still has the hash, finds the write acknowledgement and stores it in a row
  without a recv hash, and the ack gets recorded. `CheckRecvPacketDelivery` does not look for
  the recv of a row with an ack, and `BatchRecvPacket` does nothing past the timeout:
  `IsComplete` is never true.
- `cancelled_lookup`: a processor gets `context.Canceled` from a lookup that ran under a Relay
  request, the middleware takes it for the end of the pipeline and the transfer is dropped. Its
  mark stays, so the deduper turns it away whenever the dispatcher submits it again.
- `cancel_unblocks`: `Pipeline.Push` sends without a `select` on the context. With a full
  input buffer the drainer waits for the mutex `Push` holds, so nothing makes room.
  `PushSound` shows when this cannot happen: the buffer holds all transfers of the path.
- `api_resubmission`: `InsertRelayRequest` does nothing on a conflict, so the duplicate key that
  is mapped to `errAlreadySubmitted` never comes; the unique index on the packets makes `Relay`
  answer Internal. A transaction without packets to relay is accepted again.

The rows of a query grow stale while they are submitted, so a finished transfer may be
submitted again from an old copy, or a timeout be submitted for a row that has got a recv
since. Likewise the clock may pass the timeout between `CheckTimeoutFinality`, which is then
skipped, and `BatchTimeoutPacket`; the source refuses a timeout that is too early. `CompletionIsReal` and `NoTimeoutAfterWriteAck` show that the statuses and the packet are
safe nevertheless.

### Bounds

- `MaxTx` bounds the transactions about the packet, the relayer's and others'. Two are
  needed for a late or failed transaction and its replacement, or a recv and an ack. Longer
  histories are left to the proofs, which hold for every `MaxTx`.
- Liveness of the pipeline is checked with two transactions and without shared lookups, after which
  it does not hold (`cancelled_lookup`). A relayer that has used up all
  transactions is not held to account (`OutOfTxs`): transactions that always fail are the
  chain's doing.
- Two transfers on a path are the least that compete for its buffer, its stages and its
  drainer. In `dispatcher` the buffer holds them, which is what `PushNeverBlocks` needs; in
  `cancel_unblocks` it does not.
- Five transfers in a batch stage are a batch with the worker, one in the buffer and one more
  that the splitter or the collector holds: enough to fill every place there is. The buffer of
  the code holds 1000 batches.
- Two callers are the least that share a once. Three onces are as many as can be in use: one in
  the map and one for each caller. Timeouts of 2 and 1 tell the two apart.
- The transfers of a batch stage are interchangeable, so `Delivered` is stated for one of them
  (`Followed`).
- Two Relay calls are the least that wait for each other, and two packets to relay the least
  that could be inserted in two orders. A third packet of the same transaction is skipped, and
  the fourth belongs to a transaction of a blacklisted sender.
- Nonces up to 3 with a threshold of 1 let the pool be filled past the threshold, replaced and
  mined; the code's threshold is 5. One eviction opens a gap. Two submissions and one row a
  poll leave one behind the `LIMIT`.
- Symmetry is not used: transaction numbers are ordered, transfers have different paths, and
  the other runs check liveness.
- For `TransferPipeline`, `RelayDispatcher` and `ConditionalBatch` deadlock is not checked
  because the system may stop: a finished transfer needs no more steps, a cancelled dispatcher
  ends, and so does a batch stage. In the other modules it is checked.

### Fairness

`TransferPipeline!Fairness`: from some time on no call fails and the process does not
restart; the dispatcher's loop, the goroutines of the stages and the chains keep going. The
runtime schedules every goroutine that can run, and none of these steps waits for another
transfer. The chains are fair as one: transactions land, blocks become final, clocks pass the
timeout, in any order. `RelayDispatcher!Fairness` is weak fairness of every goroutine, and
strong fairness of the handover to the drainer for each transfer, because a Go channel serves
blocked senders first come, first served. `Insert`, `Cancel`, `WriteStatus` and faults are
never forced.

`RelayerAPI!FairSpec`: a call goes on if it can again and again, because the database wakes
those who wait for a transaction when it ends. `EVMSubmission!Fairness`: blocks are produced,
there is always something to deliver, a call to the node succeeds at some time, and for each
nonce a fee is high enough at some time (fees are asked of the node for every transaction).
`TxCostTracker!Fairness`: the ticker fires, the loop goes on, time passes and an expiry
succeeds at some time; that a lookup does is not assumed.

`ConditionalBatch!Fairness`: every goroutine runs and the stage behind keeps reading. That a
processor returns is not part of it: `Flowing` holds without, `Delivered` and `ClosesOut` name
it as their premise (`ProcessorsReturn`). A worker's result is received if it waits for ever,
because blocked senders are served in order. `LookupCache!Fairness`: goroutines run, requests
return, a transaction is asked about again and again (the dispatcher's loop), and the node
can be reached again and again.

## Proofs

All theorems hold for every value of the constants that satisfies the named assumptions
(`ChainAssumption`, `PipelineAssumption`, `DispatcherAssumption`, `APIAssumption`,
`SubmissionAssumption`, `TrackerAssumption`, `BatchAssumption`, `CacheAssumption`). They give
the constants their types; that of `RelayerAPI` also says that no packet is sent by two
transactions, that of `ConditionalBatch` that there are finitely many transfers, and that of
`LookupCache` that an error is not kept for longer than a success.

`TransferPipeline_proofs` proves `Spec => []IInv` and from it `TypeCorrect`,
`CompletionSound`, `WriteAckSound`, `RecordedSound`, `SendFinalitySound`,
`AckSubmissionSound`, `TimeoutSubmissionSound` and `WriteAckKept`: once a row has a write
acknowledgement it stays, because whatever writes one, from however old a copy, writes the
receipt the destination has. `CompletionIsReal` is not inductive: that
the status is right when `StateFinisher` writes it follows from what the copy has passed.
`IInv` adds

- `ChainInv`: how transactions, receipt, acknowledgement and commitment of the external
  chains hang together;
- `Copy(t)` for `row`, `snap` and `mem`: a hash in a copy is of a transaction that was
  submitted, of the right kind, and had an effect or is a recorded submission; a write
  acknowledgement is the real one;
- `PassedInv`: what a copy behind a stage has learnt there, e.g. behind `RetryTimeout` a
  timeout hash means that the commitment is gone, and behind `RetryAck` an ack hash means that
  the packet is acknowledged. This is where the order of the stages in `NewPipeline` enters;
- `PhaseInv`, `SentInv`, `SubmissionsInv`: the transaction between `DeliverTx` and `ExecTx`,
  and the recorded ones.

`TransferRefinement_proofs` proves `Refinement`, `Spec => ImplementsLifecycle`. Most steps follow
from `IInv`: what a copy has passed makes its submissions due and its final status justified.
Two facts are added in `RInv`. `NoReceipt`: there is no acknowledgement without a receipt.
`OpenInv`: whenever a copy has passed `CheckPacketCommitment`, the row is in progress, or a
retry stage ahead will put it there because the copy has a timeout or an ack hash. It is needed because
`StateFinisher` writes its status without looking at the row: that it never writes one final
status over another follows only from the stages before it. Chain steps map to landings; a step of the relayer that is not a submission
and does not change the final status maps to a stutter.

It also proves `PipelineKeepsCustody`, `Spec => ImplementsCustody`. A step of a stage leads to
another stage or the output (`AfterIsInside`), so a row is written only by a pipeline that has
the transfer (`InsideWrites`), or is given up when there is no pipeline for it.

`ConditionalBatch_proofs` proves `BatchTypes`, `NeverSendsOnClosed`, `BatchAccounts` and
`BatchIsStage`. The
invariant `BInv` says that channels are closed from the input to the output, each after its
sender has nothing left (`ClosingOrder`), and what the goroutines hold (`Holding`): the splitter at
most one transfer, the collector a batch with room unless it is being sent, a finished worker
a batch. `Accounted` is then preserved because every step moves transfers from one place to
another. `BatchIsStage` follows by cases: a step between goroutines leaves `Inside` as it is
(`WithinStage`), what leaves is in no other place (`NowhereElse`), only `ProcessCancelled` drops
anything (`WorkerDrops`), and when the output is closed every place is empty (`NothingInside`,
from `ClosingOrder`).

`LookupCache_proofs` proves `CacheTypes`, `AsksOnce` and `RetriesJustified`. The invariant `CInv`: a once belongs to
one transaction (`Shared`); one caller runs it, and only a once that is done has an error
(`Phases`); a once that is not done is the one in the map or was replaced because of its age
(`InMapOrOld`), which gives `SingleFlight`; a "not found" was said when the transaction was not
on the chain, so it has not been there for longer than the once is old (`Answers`); and a
caller that got it came while that was recent (`NotFound`).

`RelayDispatcher_proofs` proves `Spec => []Inv`, where `Inv` adds to `TypeOK`, `Deduped`,
`NoMarkLeaks` and `NilNeverProcessed` that whatever is in a pipeline is marked (`PipelineInv`)
and that inputs are closed only after the context is cancelled (`LoopInv`). `PushSound` then
needs a counting argument: the queue has no duplicates and holds transfers of its path other
than the one being sent, so it is shorter than the buffer (`BufferFits`).
`DispatcherKeepsCustody`, `Spec => ImplementsCustody`, rests on the same invariant: what is in a
queue, with a goroutine or in a stage is marked, so a row is written only while the mark is
there, and what `Push` marks was marked by nobody.

`RelayerAPI_proofs` proves `AllOrNothingSound`, `AcceptedSound`, `StatusSound`,
`NoCircularWaitSound` and `ServiceRefinement`. The
invariant adds what a call in its database transaction relies on: its packets are inserted or
still to do, and were not in the table (`Relaying`); a request it did not insert is committed;
and two calls never hold the same key (`Apart`). This is what makes the commit of a repeated
request write nothing. `NoCircularWaitSound` needs that packets are inserted in their order
(`InOrder`) and that a call waits for packets of its own transaction only: in a circle, whoever
has inserted the greatest packet that is waited for waits for a still greater one. The maximum is
that of a finite set (`FiniteMax`). `ServiceRefinement`, `Spec => ImplementsService`: `Commit`
is `Accept` (`CommitAccepts`), the second query of `Status` sees what the first relied on
(`ReadingIsStatus`), and a rejection has its reason still when it is given
(`RejectionHasReason`). `CommitAccepts` also needs that a hash
Relay goes on with is not in the cache as one that was not found (`NoticedSound`): a lookup that
found a transaction is never followed by one that does not.

`EVMSubmission_proofs` proves `ReplacementSound`, `NonceGapFree` and `SubmissionInTurn`. The invariant: whoever is
inside `DeliverTx` holds the lock, so the nonce read as pending stays free until it is used;
the confirmed nonce that was read can only be overtaken; and until something is evicted all
nonces below the pending one stay taken. For `SubmissionInTurn` these together say that what
was read as pending still is when the node gets the transaction, whatever was mined since.

`TxCostTracker_proofs` proves `ResolvedSound`, `ResolvedKept` and `PollSound`. The invariant: a row about to
be updated is of a transaction that landed, and what landed does not change, so a second
update writes the same. `PollSound`: the query with its
`LIMIT` takes a prefix of the pending rows (`GetUnresolvedIsPrefix`) no longer than the limit
(`GetUnresolvedIsBounded`), and one shorter than that only if it leaves none out
(`GetUnresolvedIsFull`); the proofs count finite sets.

Only model-checked: liveness (`PacketResolved`, `AlwaysTriedAgain`, `ShutdownCompletes`,
`CallsReturn`, `NonceAdvances`, `EventuallyResolved`, `Flowing`, `Delivered`, `ClosesOut`,
`LandedIsFound`), which the prover does not handle under
fairness, and the violated properties.

## Not modelled

- Reorganisations of blocks that are not final. The retry processors are the code's answer to
  them, and a write acknowledgement recorded from such a block is not taken back. What follows
  depends on what the proof API and the light clients accept, which is not in this repository.
- Inside `DeliverTx` of the COSMOS client: client updates in transactions of their own when a
  message has several, gas estimation, the account sequence. The pipeline sees a submission that fails or not, and that may
  reach the chain although it failed.
- The growth of the map of a `OnceWithKey`: `delete(o.onces, once)` removes nothing, although
  the comment above it says that it does ("dont want to let the map grow forever",
  `once.go:45`). The model has the removal as it is. A removal by the key alone would not do:
  a caller of an old once would remove a newer one, and `SingleFlight` would fail.
- The polling loop of `WaitForChain`, which a batch processor runs before `DeliverTx` on an EVM
  chain. That it gives up is a submission that fails.
- The column for the finality of a write acknowledgement, which `check_write_ack_finality.go:70`
  never stores because its update names no row; only a metric depends on it. Block times are
  before or past the timeout, so that the COSMOS client wants a block strictly after it is not
  told apart from at or after.
- The price cache: a stale price changes a reported amount only.
- A composition of the dispatcher with the pipeline's rows in one state space.
  `TransferCustody` is what the two modules have in common, and both are proved to keep to it.
- Configuration, wiring, signing, metrics, logging, command line tools. They hold no state
  the relaying depends on, or are pure I/O.
- Generated code: sqlc, protobuf and contract bindings, which are most of the repository's
  lines. The modules cover about a third of the lines written by hand.
