# TLA+ models of the Gazette broker append path, consumer Resolver and client Reader

This directory holds TLA+ models of the parts of this repository whose correctness depends
on concurrency. Each model is checked with TLC. All modules and configurations sit directly in
`tla/`. `PROJECT.json` lists:

- the components;
- the runs, with the properties each one checks;
- a mutant for every checked property;
- the map from every definition to the source lines it translates;
- the findings;
- the hazards.

## 1. The system and its parts

The repository (`src/`) is a sample of Gazette, a journal (append-only byte stream) broker, and
of its consumer framework.

| Part | Source | State it keeps | Operations |
|---|---|---|---|
| **appendFSM** (broker) | `src/unnamed/part_003` 403-998 | `state`, `resolved`, `pln`, `plnReturnCh`, `readThroughRev`, `rollToOffset`, `clientCommit`, `clientFragment`, `err` | `run` (chunk pump + ticker), `runTo`, `returnPipeline`, one `on*` handler per state |
| replica mailboxes | used by part_003; code not in `src/` | `pipelineCh` (1-slot, holds the pipeline or nil), `spoolCh` (1-slot, holds the Spool) | send / receive |
| pipeline | spec 4.4; code not in `src/` | peer streams, `sendErr`/`recvErr`, barrier chain | `scatter`, `gatherSync`, `gatherOK`, `gatherEOF`, `barrier`, `closeSend`, `shutdown` |
| Spool | spec 4.1; code not in `src/` | the open Fragment and its uncommitted delta | `Apply` (content / proposal), `Next`, `nextProposal` |
| peers (Replicate RPC) | spec 4.4, 6 | each peer's own Spool | apply each request, answer acknowledged proposals |
| broker resolver, Etcd KeySpace, fragment index | spec 4.2, 4.3, 4.6 | revisions of Route and assignments; `EndOffset` | `resolve`, invalidation, watch, `updateAssignments` transaction, first remote refresh |
| consumer **Resolver** | `src/unnamed/part_006` 101-366 | `replicas` map, `wg`, KeySpace | `Resolve`, `updateResolutions`, `stopServingLocalReplicas`, `watch` |
| consumer **Service** | `src/unnamed/part_006` 1-100 | `stoppingCh` | `QueueTasks` (shutdown order) |
| client **Reader** | `src/broker/client/reader.go` 1-324 | `Request`, `Response`, direct fragment reader | `Read`, `AdjustedOffset`, `Seek`, `OpenFragmentURL` |
| consumer KeySpace **decoder** | `src/consumer/key_space.go` | none | `DecodeItem`, `DecodeMember`, `DecodeAssignment`, and `NewKeySpace`, which hands them to the allocator's KeySpace |
| **ConsumerContext.Publish** | `src/consumer/context.go` | `publishBufferPool`, a `sync.Pool` shared by all calls | `Publish` (Get, frame, write, Put) |
| framing, CLI, build, tests | the rest | — | stateless or not program logic |

**How the parts of the append path interact.** An Append RPC runs one appendFSM. The steps are:

1. It resolves the journal at a KeySpace revision. A remote primary means the append must be
   proxied.
2. It takes the pipeline from `pipelineCh`. It re-checks cancellation and invalidation, because
   these can become ready at the same moment.
3. If the pipeline is nil or belongs to another Route, it shuts that pipeline down in a
   goroutine. Then it takes the Spool from `spoolCh` and builds a new pipeline.
4. It synchronises the Spools of all members. Each member answers OK, FRAGMENT_MISMATCH (with
   its Fragment) or WRONG_ROUTE (with its revision). The appender rolls forward or re-resolves
   as needed.
5. It reconciles the assignments in Etcd, checks the replication factor, and validates the
   write offset against the fragment index.
6. It scatters content chunks and then a commit (or rollback) proposal.
7. It releases the send side back to `pipelineCh`, so the next append can start while this one
   waits for its acknowledgements.
8. It takes a slot in the pipeline's receive barrier, gathers one acknowledgement per peer, and
   passes the barrier on.

**The hard behaviours** are these:

- Appends interleave on one pipeline: send sides are handed on, and receive sides are ordered
  by the barrier.
- Route changes arrive asynchronously, as revisions and invalidations.
- Peers' Spools may be ahead of, behind, or different from the primary's.
- Replicate streams can break.
- Clients can stall, which leads to a timeout, or cancel.
- Shutdown goroutines race the appender that builds the next pipeline.

## 2. Modules

| Module | Models | Kind |
|---|---|---|
| `Spool.tla` | Spool proposals and content (`Frag`, `SpoolNext`, `IsRollback`/`IsCommit`/`IsRoll`, `ApplyProposal`, `Persist`, `ApplyContent`, `NextProposal`) | operators; spec-modelled (code not in `src/`) |
| `AppendFSM.tla` | appendFSM handlers, replica mailboxes, pipelines, peers, KeySpace, index, environment | state machine |
| `AbstractJournal.tla` | what the append path promises of the primary's journal: committed bytes never change, the end never regresses, an append's content is committed in one piece at the end while it is pending, and a finished append reports a committed range of its own bytes | abstract specification |
| `MCAppendFSM.tla` | model values for brokers and routes, used by the `MCAppendFSM*.cfg` files | TLC instantiation |
| `ConsumerResolver.tla` | consumer `Resolver` (`Resolve`, `updateResolutions`, `cancelReplicas`, `stopServingLocalReplicas`, `watch`) and `Service.QueueTasks` shutdown | state machine |
| `MCConsumerResolver.tla` | symmetry of RPC handlers, used by the `MCConsumerResolver*.cfg` files | TLC instantiation |
| `KeySpaceDecoder.tla` | the consumer KeySpace decoder's three methods and `NewKeySpace`'s dispatch of each kind of key to them | operators |
| `ConsumerContext.tla` | `ConsumerContext.Publish` by concurrent goroutines over `publishBufferPool` | state machine |
| `MCConsumerApp.tla` | the Resolver and Service together with concurrent `Publish` calls, used by `MCConsumerApp.cfg` | composition for TLC |
| `JournalRead.tla` | what a journal reader promises: committed bytes in order, skipping only removed bytes, the write head from -1, or a forward seek; no movement after failure | abstract specification |
| `ClientReader.tla` | `client.Reader` (`Read`, `Seek`, `AdjustedOffset`), `OpenFragmentURL`, `NewFragmentReader`, `FragmentReader.Read`/`Close`, the caller's `bufio.Reader`, and the broker's read handler and journal (spec 6) | state machine, refining `JournalRead` |
| `MCClientReader.tla` | the request offsets -1, 0 and 1, used by the `MCClientReader*.cfg` files | TLC instantiation |

### ClientReader: state and actions

A journal byte is its own offset, so a returned byte names where it came from. A faulty
fragment body may hold `Junk` (-2) past the fragment's end.

| Variable | Code |
|---|---|
| `head`, `persisted`, `removed` | the journal's write head, fragments with a backing-store URL, and expired fragments |
| `srv`, `wire` | the broker's read handler for the stream, and the frames in flight (`msg`, `eof`, `err`) |
| `off`, `resp` | `Reader.Request.Offset` and `Reader.Response` |
| `stream` | `Reader.stream`: nil, open, or after an EOF or error was received |
| `direct` | `Reader.direct`: the `FragmentReader` (its body, position, `Offset`, `End`, closed) |
| `pc`, `buf`, `lastErr` | the caller: idle, blocked in `RecvMsg`, or holding an invalidated Reader; `len(p)`; the error returned |
| `got`, `buffered` | the bytes `Read` returned, and how many of them the caller's `bufio.Reader` still holds |

`Read` is split at `RecvMsg`, the one call that blocks. `ReadDirect`, `ReadContent`,
`ReadOpen` and `ReadRecv` are its first four branches. `RecvError`, `RecvResponse` and
`RecvEOF` cover what follows `RecvMsg`. Each recursive call of `Read` is part of the step that
makes it: draining the closure after a !OK status stays in `RecvMsg`, and a fragment URL opened
after EOF is read in the same step. `FrRead` is `FragmentReader.Read` over the body
(`DecompRead`). `CopyN` is `io.CopyN` through a `LimitReader`; it is used for
`NewFragmentReader`'s pre-seek and for `Seek`. The caller reads through a `bufio.Reader` of
`BufCap` bytes: `ReadCall` is its `fill` into the free space, and `Consume` takes one byte.

The broker side is not under `src/` and follows spec 6. The steps are:

- `ServeStart` resolves -1 to the write head. At the head it answers
  `OFFSET_NOT_YET_AVAILABLE`, or waits when the request blocks (`block`, chosen from `Blocks` in `Init`).
- Otherwise it sends the metadata of the first unexpired fragment ending past the offset,
  with its URL if persisted.
- It then sends content in `ChunkSize` pieces, or closes the stream for `MetadataOnly`, or for
  `DoNotProxy` with a URL.

`StreamBreak` (status `Unavailable`) and `ServeNotBroker` are faults. Fragments persist once
complete, and expire (`Retention`) only while a later fragment exists.

`CtxDone` ends the Reader's context (`ctxErr`, one of `CtxErrs`) at any point. An open stream
then fails with the matching gRPC status code, either after or instead of the frames still in
flight. A dial under an ended context fails. The fragment fetch fails, and a body read may
fail (`bodyCanceled`). `MapGRPCCtxErr` is `mapGRPCCtxErr`, applied to the dial and `RecvMsg`
errors as in `Read`. Only the context produces the codes `Canceled` and `DeadlineExceeded`;
the broker never sends them.

### ConsumerResolver: state and actions

| Variable | Code |
|---|---|
| `etcd`, `ksRev` | Etcd revisions (per shard: local primary, local standby, remote primary, no primary) and the KeySpace's `Header.Revision`. `ksRev = 0` is the KeySpace before `Load`, where every shard is `SHARD_NOT_FOUND`. |
| `replicas`, `serving` | `Resolver.replicas`, and whether it is non-nil |
| `rep[i]` | each `Replica` instance: its shard, whether `storeReadyCh` is closed, `ctx` cancelled, `waitAndTearDown` started and finished, and its `wg` counter |
| `rwg` | `Resolver.wg` |
| `rpc[r]` | an RPC handler and where it is in `Resolve` |
| `svc`, `watchPc`, `watchCtx` | the `service.GracefulStop` and `service.Watch` tasks, and `watchCtx` |

`Resolve` is split where the code gives up the KeySpace lock:

- `RpcStart` covers the proxy header checks and, unless it must wait for a revision, the
  whole locked part (`ResolveLocked`: the status, `ErrResolverStopped`, the panic, the replica
  lookup).
- `RpcWaitRev` is `WaitForRevision`.
- `RpcSelect` and `RpcWaitStore` are the two selects after `RUnlock`.
- `RpcAdd` is `replica.wg.Add(1)`.
- `RpcRelease` is the handler calling `Resolution.Done`.

`WatchApply` applies one revision and runs `updateResolutions` in the same step, as the
observer does under the write lock. `WaitAndTearDown` and `ReplicaReady` model replica code
that is not under `src/`. They follow how the Resolver uses it: `waitAndTearDown` waits on
`replica.wg`, tears the Store down and calls `r.wg.Done`, and recovery closes `storeReadyCh`
unless the replica was cancelled.

### KeySpaceDecoder and ConsumerContext

An Etcd value is abstracted to whether it unmarshals, whether it `Validate`s, and the
identifier it carries. Each decode method is the code's chain of early returns: unmarshal,
validate, then (items) the ShardSpec ID against the item key, or (members) the Zone and
then the Suffix against the member key. `Decode` dispatches by kind of key, as the KeySpace
built by `NewKeySpace` does. What the allocator does with a decode error is not in `src/`.
The decoder is stateless straight-line code whose caller is not in `src/`, so no run checks
a property of it: a property would only restate its early returns.

In `ConsumerContext`, `pool` and `allocated` are the buffers `publishBufferPool` holds and
the ones its `New` has made; `content[b]` is whose message buffer `b` holds; `pub[p]` is
where goroutine `p`'s call is and the buffer it holds. `Frame(p)` is `Get` and `frame`,
with the `Put` and return of the framing-error path; `Write(p)` is `Writer.Write`, `Put` and
the return. `PoolDrop` is `sync.Pool` dropping a pooled buffer. The JournalWriter's code is
not here: `Write` is taken to be done with the buffer when it returns.

`MCConsumerApp` composes these with `ConsumerResolver`. `Publish` shares no variable with the
Resolver, so what each can reach does not depend on the other. `AppNext` steps the Publish
calls from the Resolver's initial states, and the Resolver and Service from Publish's initial
state. This reaches every state of each without multiplying the two state spaces.

### AppendFSM: state

Per appender `a`, the appendFSM fields are:

| Variable | Code |
|---|---|
| `st[a]` | `b.state` |
| `res[a]` | `b.resolved` |
| `pln[a]` | `b.pln`, a pipeline id or 0 for nil |
| `own[a]` | `b.plnReturnCh != nil` |
| `rtr[a]` | `b.readThroughRev` |
| `rto[a]` | `b.rollToOffset` |
| `ccommit[a]` | `b.clientCommit` |
| `cfrag[a]` | `b.clientFragment` |
| `ferr[a]` | `b.err != nil` |
| `cancelled[a]` | `ctx.Done()` |
| `reqOff[a]` | `req.Offset` |

Shared state:

- The replica: `plnCh` (`pipelineCh`), `spoolIn` (the Spool is in `spoolCh`), `indexEnd` and
  `refreshed` (the fragment index).
- Pipelines, by id, in `pl`. Each has a route, a phase (`live`, `shutdown`, `draining`, `gone`),
  `sendClosed`, the barrier (a sequence of appenders and shutdown tokens), and one stream per
  peer. A stream has queues of requests and responses, latched `serr`/`rerr`, and
  `broken`/`eof` flags.
- Brokers: `spool[b]`, `written[b]` (the label committed at each offset), `serving[p]` (the
  stream whose Spool the peer holds) and `peerRev[p]`.
- Etcd: `asn` (revisions, each holding a Route and whether the assignments advertise it) and
  `localRev`.
- `ackOf[a]`: the appenders whose requests each appender's gathers consumed. This is a history
  variable.

Journal bytes are abstracted to **labels**: the appender that wrote them, or `Old` for bytes
that were there before the model starts. A Fragment's SHA-1 sum is the sequence of its labels.
So equal sums mean equal bytes, which is the only property of SHA-1 the code relies on.

### AppendFSM: actions

There is one action per handler. Where a handler suspends, it is split at its `select` or
channel operation.

- **appendFSM handlers:** `OnResolve`, `OnAcquirePipeline`, `OnStartPipeline`,
  `OnSendPipelineSync`, `OnRecvPipelineSync`, `OnUpdateAssignments`, `OnAwaitDesiredReplicas`,
  `OnValidateOffset` and `OnStreamContent`.
  - `OnStreamContent` takes one of the events `run` can hand it: content, empty chunk, EOF, or
    error. The error event also covers the DeadlineExceeded injected by the ticker.
- **onReadAcknowledgements** is two actions:
  - `OnReadAcknowledgements` takes the barrier slot and releases the send side.
  - `AwaitAcks` runs after `<-waitFor`.
- **Terminal states:** reaching one before `streamContent` goes through `Stop`/`Fail`. These
  model `run`'s deferred `returnPipeline`.
- **Pipeline goroutines:** `PipelineShutdown` and `PipelineDrain` (`pipeline.shutdown`).
- **Peers:** `PeerServe`, `PeerEOF`.
- **Environment:**
  - `Allocate`: the allocator writes a new Route, with stale assignment values.
  - `LocalWatch`, `PeerWatch`.
  - `RemoteRefresh`: the store may lag the committed Spools.
  - `ExternalAppend`: a disconnected writer.
  - `StreamFail`: a Replicate stream breaks and loses what was in flight.
  - `Cancel`.
- **`Done`:** stuttering once every append has returned and no shutdown is pending.

A whole handler is one step. The scatters made by one handler are folded into one state change
by `ScatterV`. Each scatter applies the request to the local Spool: a rejection there is the Go
panic, recorded in `panicked`. It also appends the request to each peer stream, or latches a
send error on a broken stream.

## 3. Runs

| Run | cfg | Checks | Shows |
|---|---|---|---|
| `append_pipelined` | `MCAppendFSM.cfg` | TypeOK, AckedAppendsDurable, ReplicasAgree, NoSpoolPanic, AcksMatchAppends, SpoolExclusive, SendSideExclusive, JournalSpec | with 2 concurrent appends, 1 peer, Route changes, one lost stream and Spools starting at 0 or 1, the core safety properties hold and the primary's journal implements `AbstractJournal` (1.9M states, about 90 s) |
| `append_single` | `MCAppendFSM_single.cfg` | NoSpoolPanic, SendSideExclusive | request offsets 0..2, a foreign writer, over-subscribed Routes (n > R), cancellation and an Etcd failure keep the hand-offs sound |
| `append_readonly` | `MCAppendFSM_readonly.cfg` | SendSideExclusive, AcksMatchAppends | NOT_ALLOWED, NOT_JOURNAL_PRIMARY_BROKER and NO_JOURNAL_PRIMARY_BROKER exits keep pipeline ownership and ack order |
| `append_termination` | `MCAppendFSM_live.cfg` | Termination | every Append RPC returns under fair scheduling |
| `append_resync_acks` | `MCAppendFSM_resync.cfg` | AcksMatchAppends (violated) | finding 1 |
| `append_failed_commit` | `MCAppendFSM_rollback.cfg` | FailedAppendsRolledBack (violated) | finding 2 |
| `resolver_safety` | `MCConsumerResolver.cfg` | TypeOK, NoResolvePanic, OneReplicaPerShard, TornDownBeforeExit | with 2 RPCs, 1 shard re-assigned up to twice, a possible Etcd failure and shutdown, the replica map stays in step with the KeySpace (3.1M states) |
| `resolver_shutdown` | `MCConsumerApp.cfg` | WritesOwnFramedMessage, ShutdownCompletes | a shutdown completes while the watch is healthy; two goroutines sharing the buffer pool each hand the writer their own framed message |
| `resolver_store_teardown` | `MCConsumerResolver_store.cfg` | ResolvedStoreLive (violated) | finding 3 |
| `resolver_etcd_failure_shutdown` | `MCConsumerResolver_etcdfail.cfg` | ShutdownCompletes (violated) | finding 4 |
| `reader_refines` | `MCClientReader.cfg` | TypeOK, ErrorTearsDownStream, AdjustedOffsetExact, AbstractSpec, Termination, BlockedReadWakes | a blocking or non-blocking DoNotProxy read under expiry, stream breaks, NOT_JOURNAL_BROKER, short or long bodies and context cancellation implements `JournalRead`, never returns an error with an open stream, keeps `AdjustedOffset` exact for a caller that resets its buffer on `ErrOffsetJump`, ends when it does not block or its context ends, and wakes from a blocking `RecvMsg` once content exists at its offset (299k states) |
| `reader_jump_buffered` | `MCClientReader_jump.cfg` | AdjustedOffsetExact (violated) | finding 5 |

**Properties.**

- **`AckedAppendsDurable`**: a finished append's bytes are committed at its offsets on every
  member of its Route.
- **`ReplicasAgree`**: no offset holds different bytes on two brokers. This is spec 8.2.
- **`NoSpoolPanic`**: the local Spool never rejects a scattered request.
- **`AcksMatchAppends`**: each gather reads only responses to the gathering append's own
  requests. This is spec 8.5.
- **`SpoolExclusive`** and **`SendSideExclusive`**: the one-slot mailboxes give exactly one
  owner at any time.
- **`JournalSpec`**: `AppendFSM` implements `AbstractJournal`. The mapping is
  `journal <- written[Local]` and `end <- spool[Local].end`. An appendFSM is "pending" until it
  reaches a terminal state. A "finished" one reports `b.clientFragment` (`cfrag`). Every step
  must then be a stutter or an abstract step:
  - a commit of a pending append's bytes, contiguous at the end;
  - a roll forward;
  - a finish at a committed range of the append's own bytes;
  - an abort.

  This catches committed bytes rewritten, the end regressing, two appends' content mixed in
  one commit, content committed after its append returned, and a finish reported at bytes
  that are not the append's.
- **`Termination`**: every appendFSM reaches a terminal state. This also covers spec 8.6, a
  barrier slot released on a send error. Later appends wait on `<-waitFor` without watching
  their context (`part_003:951`), so every appendFSM must run its deferred
  `close(closeAfter)`; the mutant that leaves it out stalls the next append. A peer that
  never answers is outside the fairness below and not checked.

Consumer Resolver properties:

- **`NoResolvePanic`**: `Resolve` never reaches the "expected replica" panic.
- **`OneReplicaPerShard`**: a shard never has two uncancelled replicas, across re-assignments.
- **`TornDownBeforeExit`**: when `watch` returns, and when the loopback is closed, every
  replica has been torn down.
- **`ResolvedStoreLive`**: an RPC holding a Resolution holds a Store that has not been torn
  down.
- **`ShutdownCompletes`**: once the task group is cancelled, both tasks return.

Consumer context property:

- **`WritesOwnFramedMessage`**: whatever other goroutines publish at the same time, the
  writer is handed exactly the calling goroutine's framed message, and a framing error is
  returned, not masked by a write. A `Put` before the write would let another call frame
  its message into the same buffer first.

Client Reader properties:

- **`AbstractSpec`**: `ClientReader` implements `JournalRead` (`Abstract == INSTANCE
  JournalRead WITH pos <- off, out <- got, failed <- (pc = "invalid"), op <- lastOp`). Every
  byte returned is the journal's byte at the offset it is returned for, in order. The offset
  moves past bytes without returning them only on a jump over expired fragments or from -1, or
  by `Seek`. Trimming past `Fragment.End`, `ErrUnexpectedEOF`, the pre-seek, the slice of
  remaining content and the jump logic are all constrained by this property.
- **`ErrorTearsDownStream`**: the comment's invariant in `Read`. An error is returned only
  after an error or EOF was read from the stream, validation failures aside.
- **`AdjustedOffsetExact`**: `AdjustedOffset` is the offset of the next byte the
  `bufio.Reader` yields. `ResetOnJump` says whether the caller resets that reader on
  `ErrOffsetJump`. The property holds when it does and fails when it does not (finding 5).
- **`Termination`**: a read ends in an invalidating error when it does not block, or when its
  context ends.
- **`BlockedReadWakes`**: spec scenario S2. A read blocked in `RecvMsg` with a byte committed
  at its offset (`0 <= off < head`) leaves `RecvMsg`. This needs the reader never to block
  while the last response still holds content, and the broker to wait only at the reader's
  own offset, across expiry, offset jumps and direct fragment reads.

Every property has a mutant in `PROJECT.json`. Each mutant is a plausible bug that TLC catches
under the run's own configuration:

- the commit end off by one;
- recvErr ignored in readAcks;
- FRAGMENT_MISMATCH ignored;
- a roll-to offset that forgets the local end;
- acks gathered without waiting on the barrier;
- the Spool taken without waiting;
- `plnReturnCh` not reset;
- `ContentDelta` sent as an absolute offset;
- `close(closeAfter)` left out of `onReadAcknowledgements`;
- `sendErr()` read again after the send side was released, instead of the retained value
  (`SpoolExclusive` catches it: the appender tears down a pipeline another appender owns);
- an existing replica not carried into `next` by `updateResolutions`;
- `cancelReplicas` that cancels nothing;
- a new replica not counted in `Resolver.wg`;
- the `stopServingLocalReplicas` call left out of the GracefulStop task;
- `FragmentReader.Read` without trimming past `End`;
- the remaining-content test `l > d` written `l >= d`;
- a !OK status returned without draining the closure;
- `Request.Offset` advanced by `len(p)` after a copy;
- `AdjustedOffset` that ignores the buffered bytes;
- `Spool.applyCommit` writing the delta from the Fragment's begin instead of its end;
- `RecvMsg` called before the last response's content is copied out;
- `Publish` putting its buffer back into the pool before writing it.

**Findings.**

1. **Re-sync outside the barrier** (`part_003:829`). When `AppendRequest.Offset` is set and the
   index is ahead of the Spool, `onValidateOffset` loops back to `stateSendPipelineSync` on a
   pipeline reused from an earlier append. That earlier append may still be waiting in the
   barrier. `gatherSync` does not wait on the barrier, so it consumes the earlier append's
   acknowledgement, and the earlier append then reads the sync response. TLC's trace takes 23
   steps: a1 errors and releases the pipeline, a2 acquires it, a foreign writer advances the
   index, a2 re-syncs, and `ackOf[a2] = {a1}`.
2. **A failed append may be committed** (`part_003:916`). The commit proposal is applied to the
   local Spool as it is scattered. If the peer's stream then breaks, the append reports an
   error although its bytes are committed on the primary. Spec 8.3 says a failed append leaves
   the Spool's end unchanged. The code gives at-least-once semantics on such errors.
3. **A Resolution may carry a torn-down Store** (`part_006:285`). `Resolve` releases the
   KeySpace lock at line 264 and calls `replica.wg.Add(1)` only afterwards. In the 8-step trace:
   1. the replica becomes ready, and the RPC passes the first select;
   2. the watch fails and `stopServingLocalReplicas` cancels the replica;
   3. `waitAndTearDown` finds `wg` at zero and tears the Store down;
   4. the RPC's `wg.Add(1)` returns the torn-down Store.

   A KeySpace update that moves the shard away opens the same window.
4. **Shutdown hangs after an Etcd watch error** (`part_006:80`). The comment says that after
   `GracefulStop` no RPC can wait on a future revision. But once `service.Watch` has returned an
   error, the KeySpace stops advancing. A proxied RPC in `WaitForRevision` (line 213) for a
   revision the proxying peer already saw waits until its client cancels it, and
   `GracefulStop` waits for that RPC.

5. **AdjustedOffset after an offset jump** (`reader.go:150`). `bufio.Reader.fill` reads into a
   partly consumed buffer. If `Read` then returns `ErrOffsetJump`, because a fragment expired
   while the reader was behind, `Request.Offset` has moved but the buffer still holds bytes
   from before the jump. In TLC's 15-step trace:
   1. the open fragment is read up to offset 1, so the buffer holds byte 0;
   2. the fragment completes, persists and expires;
   3. the jump moves the offset to 2.

   `AdjustedOffset` is then 1, while the next byte in the buffer is 0. The comment promises
   the offset adjusted for buffered content. A caller must reset its `bufio.Reader` on
   `ErrOffsetJump` for the offset to be right, and no code under `src/` says so.

## 4. Bounds, and why they are enough

All runs use 1 peer, so Routes have 1 or 2 members. The Routes are:

- `{L, p1}` with `L` primary;
- `{L}`;
- `{L, p1}` with `p1` primary;
- for the read-only run, also one with no primary.

This reaches every resolution outcome: local primary, proxy, and a replica count that is too
large or too small.

| Bound | Value | What it allows |
|---|---|---|
| `MaxChunks` | 1 | one content chunk per append. Both the content path and the chunk-then-commit path are reached. A second chunk only repeats `ContentDelta` with a larger value. |
| `MaxRev` | 2 or 3 | one or two Route changes by the allocator. Transactions add further revisions on top of these. |
| `MaxPipelines` | 3 (2 in the liveness run) | at least one pipeline shutting down while another is live |
| `MaxFailures` | 1 | one stream break or Etcd error |
| `MaxExternal` | 0 or 1 | at most one fragment from a foreign writer |
| `MaxCancels` | 0 or 1 | at most one cancelled request |
| `MaxOffset` | 4 | enough offsets for two one-byte appends above an initial offset of 1 |

`InitEnds = {0, 1}` lets the peer start ahead of the primary, behind it, or level with it.
These are the sync cases of scenario S4. `FragmentLength = 2` makes `nextProposal` roll after
two bytes. Every action, and every branch of every handler, fires in at least one passing run.
TLC's coverage report was checked for this.

`Publish` runs
with two goroutines, each calling it once, and two buffer identities: enough that neither
call waits for a buffer, that a buffer one call put back is handed to the other, and that a
dropped buffer is replaced.

The consumer runs use one shard (a second shard only repeats the same per-shard logic, since
`updateResolutions` treats shards independently), 2 RPCs with symmetry in the safety run,
`MaxRev = 3` (two re-assignments, so a shard can leave and come back), and `MaxReplicas = 2`
(the two replicas a leave-and-return needs). The violation runs need only 1 RPC and 1 replica.

The reader runs use 2-byte fragments and a write head of at most 4, so there are two
fragments:

- one can be complete, persisted and expired while the other is open;
- a jump over an expired fragment and a read of a partly written fragment are both reachable.

The other bounds are:

- Initial heads of 1 to 3, and request offsets -1, 0 and 1, cover the following starting
  points: at the head, behind it, in the middle of a fragment, and -1.
- `ChunkSize = 2` and `BufCap = 2` make content frames larger than some reads, so a response
  is copied out in pieces.
- `SeekOffsets = {1, 2, 3}` reach seeks both inside and past the fragment.
- `CtxErrs` holds both context errors, so each branch of `mapGRPCCtxErr` is reached.
- `MaxFaults = 1` allows one stream break, dial error, fetch error, NOT_JOURNAL_BROKER, or a
  body that is truncated (to any length) or one byte long.

## 5. Fairness

Each appendFSM is a goroutine, and `WF` on `Appender(a)` says it keeps running while it can.
The event choice in `streamContent` needs no client fairness. The ticker injects
DeadlineExceeded when the client stalls, so some event is always enabled.

The following also get `WF`, because each is a goroutine or server loop:

- `PipelineShutdown`, `PipelineDrain`;
- the peers' `PeerServe`/`PeerEOF`;
- the watches;
- the remote refresh.

The allocator, stream failures, foreign writes and cancellation get no fairness, so they may
never happen. `Termination` is checked with Routes no larger than the replication factor.
Otherwise an appender waits in `WaitForRevision` for an allocator that need not act. The code
has no timeout there other than cancellation.

In `ConsumerResolver`, RPC handlers (each step of `Resolve`, and calling `Done`), the watch,
the GracefulStop task and the `waitAndTearDown` goroutines are fair. Clients (arrival and
cancellation), Etcd writes and failures, replica recovery and signals are not: a replica may
never finish recovery, which is why the shutdown must cancel replicas before draining RPCs.
`ShutdownCompletes` holds without any fairness for clients when the watch is healthy
(`EtcdMayFail = FALSE`). `Publish` calls get no fairness; no liveness property speaks of them.

In `ClientReader`, the broker's handler steps, gRPC delivery (`Recv`), the caller's `fill`
and its consumption of buffered bytes are fair. The journal, expiry and faults are not.
Context cancellation is not fair; `Termination` takes it as a premise.
`BlockedReadWakes` needs no fairness for appends: its premise is a byte already committed
at the offset, and gRPC delivery and the broker's handler, which are fair, must then wake the read.
`Termination` assumes a caller that keeps reading a valid Reader. The behaviour of a caller
that abandons it is the stuttering `Done`.

## 6. Not modelled (yet), and the plan

The modules are built in this order:

1. Spool and AppendFSM, the broker append path. This is done.
2. `ConsumerResolver.tla`, with the `QueueTasks` shutdown order of the Service. This is done.
   Not modelled: the local member key missing from Etcd (`LocalMemberInd = -1`), `transition`,
   and readers of `stoppingCh`.
3. `ClientReader.tla` with its abstract `JournalRead.tla`, including context cancellation
   and `mapGRPCCtxErr`. This is done. Not modelled: `InstallFileTransport`, a test transport;
   compression codecs; corrupt bytes in a body of the right length; and `MetadataOnly`
   requests. For `MetadataOnly` the constant exists, but no property tells its EOF apart.
4. `AbstractJournal.tla`, the primary's committed journal. `AppendFSM` is shown to implement
   it (`JournalSpec`, in `append_pipelined`). This is done.
5. `KeySpaceDecoder.tla` and `ConsumerContext.tla`, composed with the Resolver in
   `MCConsumerApp.tla`. This is done.

Some parts are left out of the models:

- What the allocator's KeySpace does with a decode error (the key skipped, or an earlier
  value kept) is decided by the `keyspace` and `allocator` packages. These are neither under
  `src/` nor described in spec.md, so the decoder is modelled on its own and not as a filter
  on what the Resolver reads. `frame` and the `JournalWriter` behind `Publish` are not here
  either: they are reduced to their outcome. Message framing and types, the CLI
  (`wordcountctl`, argument parsing and one RPC) and the build files are not modelled: they
  are encodings, I/O, or not program logic.
- The AppendService tests in `reader.go` (325-867) are tests.
- Compression, fragment upload, persistence to the blob store and the SHA-1 digest are
  abstracted as described above.
- Replica shutdown (the replica-scoped context) is not modelled.
- Peers serve one stream at a time, through their own Spool mailbox.
