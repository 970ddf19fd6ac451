# A TLA+ development of Armchair Analyst

Armchair Analyst (`src/core`, Rust) follows several EVM chains through public
JSON-RPC providers, keeps the state of the Uniswap pools on each of them, and
prices a swap route over all of them. This directory holds TLA+ models of its
logic, the TLC runs that check them, and TLAPS proofs about them.

Paths below are relative to `src/core/crates/`.

## 1. The system

### 1.1 Components

| Component | Code | State | Operations |
|---|---|---|---|
| Volatile block tree | `client-evm/src/kernel/blocks_graph.rs` | anchor (the finalized block), nodes (connected to the anchor, or pending for a parent), observed head; per block: number, bloom, logs and how far they are trusted | admit a header, observe a head, streamed and authoritative logs, holes, the optimization read, finalize and re-root |
| Chain kernel | `client-evm/src/kernel/mod.rs` | the tree, the pool states at the anchor (finalized snapshot), pool and token registries, staged logs, requests in flight, tick | one pure transition per event: head, header, denial, finality, logs, range, metadata, pool data, failure, tick |
| Request tracking | `client-evm/src/kernel/pending_requests.rs`, `request_tracking.rs`, `tick.rs` | id counter, one map per request kind | issue, take, retry, expire, retain |
| Registries | `client-evm/src/kernel/pool_registry.rs`, `token_registry.rs` | verified and rejected pools, known tokens | fold validation results |
| Pool logs and replay | `client-evm/src/pool_log.rs`, `pool_state.rs`, `lossless_replay.rs`, `tick_math.rs` | none | decode logs, derive a state from a run of logs, replay a plan on exact reserves |
| Bootstrap | `client-evm/src/bootstrap` | a phase, its requests, a deadline | anchor, discover pools page by page, validate, resolve tokens, degrade |
| Multi-chain kernel | `client-evm/src/multi_chain_kernel.rs` | per chain: bootstrapping (with buffered deliveries) or active; last optimized block | dispatch events, activate, refresh finality, ask for an optimization, judge the plans that come back |
| Endpoint pool | `client-evm/src/endpoints.rs` | rotation and health of the providers | pick, fail over, cool down |
| Effects, subscriptions, cache | `client-evm/src/client` | sockets, batch buffer, cache files | RPC calls, reconnecting feeds, log batching |
| Framework | `aa-framework` | one input queue | fold inputs one at a time; run effects on a pool of threads |
| Server | `aa-server` | awaiting seed, awaiting anchor, running; a metadata cache on disk | load the cache, anchor, validate, publish, serve snapshots and slices of them |
| Client core | `aa-client-core` | application state, ledger of fetches, a latest-value slot for the optimizer worker | reduce inputs, fetch, push to the worker, show its results |
| Command line client | `aa-cli` | terminal application state | render, drive the kernel |
| Optimization | `optimization` | none | floating-point flow optimization, plans |
| Token vetting | `aa-token-vetting` | files | build the whitelist |

### 1.2 How they interact

`aa-framework` folds one queue of inputs through a pure transition function and
runs the effects the transition returns on one pool of threads of fixed width
(`aa-framework/src/framework.rs:91`; 64 in the command line client,
`aa-cli/src/app.rs:354`), each of which puts its result back into the queue. An effect
holds its thread until it ends, and the HTTP agent has no timeout (`app.rs:106`). So a transition is atomic, and everything between two
transitions is not: answers come late, in any order, or never, while the
subscriptions push heads and logs in between. The multi-chain kernel is such a
transition function. It holds one kernel per chain; each kernel holds the tree,
and the requests it has outstanding. It is driven in two programs: by the command
line client, which runs the optimizer beside it, and by the server, which publishes
what the kernel knows to clients that run the optimizer themselves.

A kernel keeps no plan of what it is doing. At the end of nearly every event it
derives from its state what is missing (headers of unknown parents, logs of
blocks that may touch a tracked pool, metadata of pools seen in logs, token
metadata, pool states at the anchor), subtracts what is in flight, and issues the
rest. Finality is pushed in from outside as the hash of a finalized block; the
tree moves its anchor as far towards it as the logs it can trust allow, and asks
for the ranges that stopped it.

### 1.3 What is hard

* Headers come in any order, and may lie about their parent, so blocks wait
  as *pending* until a chain of parents reaches the anchor (`promote_reachable`).
* Logs come before their header, in fragments, twice, under an index another log has
  already, or not at all; only an authoritative answer is complete. The tree grades them
  (`Unknown < Streamed < Complete`) and every read says which grade it trusts.
* A peer may stop answering without closing, and most sockets and requests have no timeout.
* A pool state read at the anchor takes time, and the anchor moves meanwhile.
* Requests time out, are retried under new ids, and answered twice; a re-root
  makes requests pointless.
* The anchor itself may be orphaned; the kernel then starts again at the block
  canonical at that height.
* Several effect threads share the endpoints of a chain, and hold no lock while they
  call one; the failure of an attempt is reported long after its endpoint was picked.
* Several providers deliver the same logs, retract some, and lose connections.
* The server may crash between a write to its cache and the event that carries the
  same answer.
* A client polls: requests hang, expire, are overtaken by later ones or answered by a
  server that restarted, and what they bring crosses a thread pool that keeps no
  order and a slot that keeps one value.

`PROJECT.json` lists every such hazard with its line and the properties that
watch it.

### 1.4 What makes each component correct

* Tree: well formed whatever arrives; a block is connected exactly when its
  parents reach the anchor; the staging area is bounded; logs never lose
  authority; the anchor climbs only the canonical chain over blocks that hide
  nothing; a re-root loses nothing above it; the optimization read is exact.
* Kernel: the snapshot is exact at the anchor; no two requests in flight ask the
  same; every gap is being filled and closes; every tracked pool gets a state;
  finality is reached; an orphaned anchor is replaced only on proof.
* Bootstrap: it ends; its seed window holds the chain, without a wrong or a
  missing block, and links down to the anchor.
* Multi-chain kernel: nothing delivered while a chain bootstraps is lost; the
  window between finality and tip stays bounded, although the refresh of finality is
  triggered by an edge; the optimizer ends up with the reserves at the frontier.
* Plans: the verdict on a plan does not depend on the order in which a hash map
  yields its steps, and no route draws a pool down.
* Endpoint pool: a request is given up only when every endpoint was down at some time
  of it; the rotation keeps to the weights all along; an endpoint that recovers is
  used again.
* Log feed: no log that reached the process is lost, none is invented by a retraction,
  traffic does not hold the batch back for ever, and feeds come back.
* Server: it shows whole views from which nothing disappears; what it validated
  survives a crash; pools that keep trading come to be served.
* Client core: the worker never dies of a snapshot the reducer let through, never gets
  older reserves, and ends up with the current ones for the current route.

## 2. Plan

| Part | Modules |
|---|---|
| Kernel | `BlocksGraph`, `RealChain`, `VolatileTree`, `FinalizedLedger`, `ChainKernel`, `Bootstrap` |
| Composition | `MultiChain` over `ChainKernel`, with `PlanReplay`; `DataPlane`: `ClientEngine` (over `RoutingFilter`, `LatestSlot`) against `ServedView`, which `Server` implements |
| I/O | `EndpointPool`, `LogFeed` |
| Proofs | `BlocksGraphLemmas`, `VolatileTreeProofs`, `ChainKernelProofs`, `BootstrapProofs`, `DataPlaneProofs`, `ServerProofs`, `LogFeedProofs`, `EndpointPoolProofs` |
| Left | The server with the full `ChainKernel` instead of its registries |

## 3. Modules

### 3.1 `BlocksGraph`: the operators of the tree

A tree is a record `[anchor, number, head, nodes]`, `nodes` a function from the
hashes present to `[kind, parent, number, bloom, level, logs]`. The operators
carry the names of the Rust methods (`with_observed_head` is `WithObservedHead`).
What is abstracted:

* a hash is a model value; `AnchorRef` stands for `AnchoredRef::Anchor`, the
  parent of a block that sits on the anchor;
* a bloom is the set of emitters it may match; no bloom (a seed block) matches
  all of them, as in `bloom_may_touch`;
* a pool log is a model value with an emitter, a pool and an index; a pool state
  is the set of logs it was derived from since the last absolute one (`Absolute`:
  a swap or an initialize overwrites the state, a mint or burn changes it);
* the logs of a block are a set with one log per index (`LogMap`), for the `BTreeMap` keyed
  by `log_index`; `Extended` is its `extend`, by which a log replaces the one under its index;
* walks over parents are least closed sets (`Ancestors`, `Descendants`), so no
  operator is recursive and the proofs can use all of them.

### 3.2 `RealChain`: the world

The real chain as constants: headers, logs, the true state of each pool after
each block. It is what providers answer from. `SeedWindow` is the window a
bootstrap hands over; its `Fillers` (`filler_hash`) stand for stretches without
logs, and are hashes no provider serves (`Served` are the others). Hashes commit to headers and logs,
so a header answer is true to the hash asked for; what a *feed* announces is
not (`HeaderClaims` in `MCVolatileTree`). Nor are logs: `Streamable` is what a feed may tag
with a block, logs of other blocks included, and `Batch` a delivery of it, one log per index. `HonestChain` says so of the constants: heights
count along the trunk, the bloom of a header clears no emitter that logged, and each
filler of the seed window stands for a real block without logs (`StandIn`, `Spans`).

### 3.3 `VolatileTree`: the tree under any caller

Variables: the tree, the snapshot, the tracked pools, and what is left of the
seed window (`seeds`; the tree is live once it is empty). One action per operation of
the tree, with no kernel around it: any header, head, log delivery, seed and
finality signal may come at any time. What holds here holds whatever the kernel
does. `MCVolatileTree` has two worlds: honest headers with a fork, above a seed window
that bridges a block with a filler (`volatile_tree_honest`), and headers that
contradict each other, name themselves or form a cycle (`volatile_tree_claims`). In the
honest world a feed may tag a block with two logs of other blocks, one under the index of the
block's own log and one under a free index: streamed logs may be lost to a spurious one, and
`LogLadder` promises only that no index becomes empty and that an authoritative answer,
which puts its logs in the place of all of them, stands. `ProjectionExact` and the ledger say
what follows from that for the reads.

### 3.4 `FinalizedLedger`: the promise

The abstract specification of the finalized side: an anchor that only moves to
a real descendant, and a snapshot that is, for every pool it lists, the real
state at the anchor. `VolatileTree` and `ChainKernel` both refine it
(`ImplementsLedger`).

### 3.5 `ChainKernel`: the kernel of one chain

| TLA+ | Code |
|---|---|
| `kernel.graph`, `.snapshot` | `Blocks` (`kernel/mod.rs:61`) |
| `kernel.verified`, `.rejected`, `.tokens` | the registries |
| `kernel.staging` | `streamed_logs` |
| `kernel.pending` | `PendingRequests` |
| `kernel.wire` | not in the code: requests of this activation whose answer may still come |
| `kernel.ghosts` | not in the code: those of earlier activations |
| `SelfParentHead`, `TipRedelivered`, `HeadObserved` | the three ways the `HeadObserved` arm ends |
| `HeaderAnswered`, `HeaderNotFound`, `ProbeAnswered`, `LogsAnswered`, `RangeAnswered`, `PoolsAnswered`, `TokensAnswered`, `SeedsAnswered`, `RequestFailed`, `Tick`, `FinalizedBlockObserved`, `LogObserved` | the other arms of `transition_outcome` |
| `AnswerLost` | no event at all |
| `ScheduleAll` | `schedule_unknown_canonical_requests`: headers, logs, pools, tokens, seeds, in this order, each over what the one before it issued |

An action is a whole arm: the fold of the answer, the drain of staged logs, the
scheduling pass and the finality probe. `ScheduleAll` passes the state through
singleton sets only to make TLC evaluate each stage once.

Abstractions. Ids are the least free ones, not a counter: whether two requests
share an id is all that matters, and the counter would make every state new.
An answer that outlives an orphaned-anchor re-initialization (a ghost) may meet
its id again, as it does in the code, where the counter starts again. The kinds
of pool keys are reduced to the emitter (a v4 pool is emitted by the manager).
The `ws_miss_count` diagnostic is left out. The order of requests inside one
scheduling pass is not kept, since effects run in parallel.

Bounds, all constants: `MaxFaults` (faults in a behaviour, of the kinds in
`FaultKinds`), `MaxGhosts`, `RequestTTL = 1`, at most one slow request per timeout
fault. Two kinds of repetition would make a behaviour endless and cost a fault
each: announcing an older head again (`regress`) and a head that names itself as
parent (`garbage`). The first block of a model has no header to serve;
`Known` are the others, and `GapsRequested` and `GapsClose` are about those.

### 3.6 `Bootstrap`: the bootstrap of one chain

`boot` is the state machine of `bootstrap/mod.rs` with its request ledger, as one
record; `tip` the chain, which grows and reorganizes meanwhile.

| TLA+ | Code |
|---|---|
| `boot.stage` and the fields each stage carries | `Phase` |
| `boot.elapsed`, age of a request | `tick` against `started_at`, `dispatched_at` |
| `boot.wire` | not in the code: requests whose answer may still come |
| `ResolveTip`, `ServeWindow` | the two calls of `fetch_pool_candidates_window`, each to a provider of its own |
| `FinalizedHeaderReceived`, `PoolMetadataReceived`, `TokenMetadataReceived`, `RequestFailed`, `Tick` | the arms of `transition` |
| `WindowReceived`, `LastWindowReceived` | the `PoolCandidatesReceived` arm, by `next_from` |
| `LateAnswer` | any of them when the request is no longer pending |
| `FromWindow` | `GraphSeed::from_window` |

A provider is a head (`Views`): any block that agrees with the chain on everything
`Drift` or more blocks below the tip. `Settled` is what cannot be reorganized
any more; the finalized header is any settled block. The one assumption the code
makes of providers is `Drift <= TipTrim`: what they may disagree about is
trimmed from the seed. Token metadata has no influence on the seed and is left out.
What was scanned is a sequence of answers, each a set of blocks of one line;
`Line` is the least set that holds a block and with each member its parent. A filler is the
pair of blocks it bridges, which is no block (`HashAssumption`: 256-bit hashes do not
collide, and there are finitely many).
Ids are the least free ones, as in `ChainKernel`. What bootstrap hands over is
the `SeedWindow` of `RealChain`: `volatile_tree_*` and `chain_kernel_*` start from
windows of the form `FromWindow` gives.

### 3.7 `MultiChain`: the kernel under its wrapper

| TLA+ | Code |
|---|---|
| `phase`, `buffer` | `ChainLifecycle`; an entry that left the map is `"Dropped"` |
| `last` | `last_optimized_block` |
| `input` | not in the code: the last input handed to the optimizer |
| `refreshes` | not in the code: `FetchFinalizedHeader` effects under way, each with the height its answer has at the least |
| `tip` | not in the code: the newest block the feed has announced |
| `BufferDelivery`, `LiveDelivery`, `IgnoreDelivery` | `subscription_data`, by lifecycle |
| `Activate`, `Abandon` | `advance_bootstrap`, when the bootstrap has completed |
| `ChainEvent` | `chain_event` for the answers of the chain's own requests |
| `Rederive` | what `chain_event` does around `transition_outcome`: refresh trigger, dispatch gate |
| `ChainTick` | `tick`, which looks at neither |
| `FinalizedHeaderReceived`, `FinalizedHeaderUnavailable` | the functions of these names |
| `VerifyPlan` | `verify_plan`, called by `optimization_step_completed`; its verdict is for display, so no action changes the state |

It extends `ChainKernel` and reuses its actions as the inner transition. Where
`ChainKernel` lets finality be signalled at any time, here a signal is the answer to
a refresh the wrapper asked for. The activation replays the buffer with
`Delivered`, delivery by delivery, each with all its scheduling.

One chain is followed. Chains meet only in `merged_optimization_reserves`, which reads
every active kernel anew each time, so that no step of one chain depends on
another; the union itself and the reserve arithmetic with its conversion errors are left
out. How bootstrap gets its result is `Bootstrap`;
here it ends at any time with the seed window of the model, and `kernel` is until
then what it is going to hand over.

The feed announces heads in order, from one of `FirstHeads` on. A model's chain ends,
the real one does not, and the wrapper relies on that: the replay dispatches
nothing, a pool seeded at an unmoved frontier waits for the frontier to move, a failed
refresh is repeated at the next edge. So the blocks `Later` are announced once
everything asked for is answered (`Quiet`); they stand for the growth that follows.

### 3.8 `PlanReplay`: plans and their lossless replay

Operators, no state. `BuildPlan` is `build_plan` (`optimization/src/plan.rs`): classify
cells, prune, merge, renormalize, sort by stage. Its steps come out of a `HashMap`,
so it is the *set* of the orderings that may come out. `Replay` is
`replay_plan_lossless`, as a fold over the hops of a stage and a function over the
stages. Integers are naturals (the code widens to 512 bits), a weight is a multiple of
`1 / WeightScale`, rounded to the nearest, in place of an f32 and the fixed point it is
turned into. What a pool's reserves are after a set of logs is a parameter of the
model (`BookEntry`).

### 3.9 `ServedView` and `Server`: the data-plane server

`ServedView` is what a client may rely on: one view that is replaced as a whole, in
which no pool and no token disappears while the server is up, and no view after a restart
before there is an anchor. `Server` implements it (`ImplementsView`).

| TLA+ | Code |
|---|---|
| `phase`, `seed` | `aa-server/src/core.rs` phases; `"Down"` after a crash |
| `requests`, `probes`, `inbox` | not in the code: effects under way and their answers |
| `Handled(kind)` | an effect of `runtime.rs`, with its write to the cache |
| `Resolved(kind)`, `LoadRegistrySeed`, `AnchorFetched`, `AnchorMissed` | the events it is folded by |
| `Clock`, `due`, `view` | publication at most once in an interval |
| `Crash`, `Start` | not in the code: only `cache` survives |
| `shown`, `lost`, `kept` | not in the code: what was published, what could not be stored, what this run has to know from its start |

The kernel in it is reduced to registries, the pools with logs on the volatile
canonical line and the metadata requests: the rest of `ChainKernel` has no influence on
what is listed. A fault of the cache (a store or a load that fails) and an unanswered
probe come out of one budget.

### 3.10 `ClientEngine`, `RoutingFilter`, `LatestSlot`, `DataPlane`: the client

`ClientEngine` is the reducer of `aa-client-core/src/state.rs` with the ledger of
`pending.rs`, the pool of effect threads, and the worker of `optimizer.rs`;
`RoutingFilter` decides which pools enter for a route and when a snapshot will do
(`optimization/src/routing_filter.rs` and the gate and checks of `execution.rs`);
`LatestSlot` has one operator for each critical section of `latest_slot.rs`. The
two-core of the token graph is the least fixed point of stripping, not the stack the
code strips with. `DataPlane` puts the engine against `ServedView`, so a server may
publish, restart and come back at any time; together with `ImplementsView` this
composes the client with the server.

| TLA+ | Code |
|---|---|
| `OnMeta`, `OnProductiveSlice`, `OnUnproductiveSlice`, `OnFailureOrHealth`, `OnSuperseded` | the arms of the reducer for the answer of a fetch |
| `OnStep`, `SetRoute`, `Tick` | its other inputs |
| `Answer`, `Fail`, `Hang` | how a fetch ends on its pool thread |
| `Deliver(i)` | a push effect; the threads keep no order |
| `WorkerNext` | one turn of the worker: wait, take, step, report, or end with an error |

Ids are any id not in use for the kind. `Polled = {}` leaves out the health poll, whose
answer only frees its slot.

### 3.11 `EndpointPool`

`smooth_weighted_order` is a recursive function; `Begin`, `Pick` and `Attempted` are the
critical sections of `with_failover` (`client-evm/src/endpoints.rs`) on each thread.
Time is relative (what is left of a cooldown, the age of an attempt). `alive` is a
ghost: the endpoints up since the request began. Labels and the trace are left out;
an error is retryable or ends the request.

### 3.12 `LogFeed`

A connection per provider with its reconnect loop (`aa-cli/src/app.rs`), the admission
of frames, the channel, and the debounced consolidation with `LogBatchBuffer`
(`client/client_effects.rs`, `client/subscription.rs`). `FallSilent` is a peer that goes
mute, while it is dialled (it accepts, and answers neither the handshake nor the
subscription) or later (a half-open socket); neither has a timeout, so it ends nothing. `owed` is a ghost: what was put into the channel and not
emitted since.

## 4. Runs

TLC explores each run completely (two workers, about two minutes at most).

| Run | States | Shows |
|---|---|---|
| `volatile_tree_honest` | 24,920 | `TypeOK`, `ProjectionExact`, `LogLadder`, `FinalizationGate`, `ImplementsLedger`: the optimization read, the log ladder, the gate and the ledger, from a seed window with a filler |
| `volatile_tree_claims` | 47,642 | `TreeInv`, `ConnectedIffReachesAnchor`, `PendingBounded`, `ReanchorKeepsCanonical`: the shape of the tree, against lying headers |
| `chain_kernel_orphan` | 284,604 | `StagedOnlyAbsent`, `ReinitOnlyOnProof`: an orphaned anchor, with a lost or denied request and late answers |
| `chain_kernel_denials` | 14,158 | `InFlightDistinct`, `GapsClose`, with two faults: denied headers, failures, self-parent heads, timeouts with late answers |
| `chain_kernel_liveness` | 20,530 | `GapsRequested`, `CompleteIsAuthoritative`, `FinalityReached`, `PoolsSeeded`, `ImplementsLedger`, with two faults: lost answers, failures, stale heads; a feed that may put another block's log in the place of a true one |
| `bootstrap_scan` | 37,847 | `SeedIsTrue`, `SeedLinksToAnchor`, `AwaitsItsAnswer`, `BootstrapEnds`, with any failures, losses and late answers |
| `multi_chain` | 9,200 | `LifecycleTypeOK`, `PlanJudgedFairly`, `BufferSurvives`, `OptimizerCatchesUp`, `WindowBounded`, with a fault |
| `data_plane` | 670,278 | `WorkerSurvives`, `NeverOlder`, `WorkerCatchesUp`, with a restart, a failed, a hung and an overtaken request, and a change of route |
| `server` | 165,676 | `NothingForgotten`, `ImplementsView`, `TradedPoolsServed`, with a crash and two faults |
| `endpoint_pool` | 1,140,882 | `NoNeedlessFailure`, `OrderBalanced`, `RecoveredIsUsed`: two threads, two outages |
| `log_feed` | 219,894 | `NothingOwedIsLost`, `OnlyRecordedLogs`, `Relayed`, `FeedComesBack`: two providers, any closures, refusals and silences |
| `chain_kernel_reused_id` | violation | `SnapshotAtAnchor`, see section 5 |

Why the bounds suffice. Three blocks above the anchor give a head, a block
between head and anchor that headers must be fetched for, and a block to
finalize; the streaming settle depth of one separates the tip from the rest. A
fork of two blocks is enough for an orphaned anchor, its replacement and a
descendant of it. A seed chunk of one makes the chunk matter, one
staged block makes the staging buffer full. A pending cap of one or two is met
and exceeded by three blocks; the honest runs use one that is not. Two
faults allow a retry itself to fail or be overtaken; the orphan run takes one, for
there the faults multiply with the moves of the anchor. In
`chain_kernel_denials` a denied header is retried because the feed goes on
delivering logs of the tip, each of which schedules. The liveness run starts above a bridged seed window, so the join of the live chain
with a filler is on its way. Bootstrap needs no bound on faults: the deadline (3
ticks, over a time to live of 2) bounds retries. Six blocks, a fork of two and windows of
two blocks give scans of up to three windows with a provider on either fork, and a
trim of two leaves a seed of up to three blocks, one stretch of it bridged.

`multi_chain` has a target length of three (finality depth one, margin two) and a
stride of one, so five blocks cross the target and further edges; two buffered
deliveries are two heads, or a head and logs before or after it. That a buffered log replaces
one before it takes a third delivery: `BufferedDataSurvives` proves that case, and
`volatile_tree_honest` and `chain_kernel_liveness` run it in the tree and in the staging. Its two `Later`
blocks are one for each mechanism that waits for growth. Its routes reach every verdict:
each of the four failures, and verified plans with and without a hop cut at a tick limit,
with bridges, merged cells, pruned cells, and a pool used in both directions.

`data_plane` has two pools and three tokens: views that list a pool whose tokens are
not known, or without a state, and a route that needs both pools; two ids let an
answer be overtaken by the next; two threads of which one hangs. `server` has one
pool, and one emitter that is none, so that an answer is valid in part; a crash at
every point between the validation of the pool and that of its tokens. `endpoint_pool`
has two and three endpoints, one configured with weight zero, one with half of the total,
and the rotations of every weight up to three; a shift of one and a cap of two reach the
cap of the backoff. `log_feed` has one block of two logs and a retraction; a window,
a wire and a channel of one are full at once, a cap of three makes the backoff double
and stop. Time in these modules is relative and saturates, so it needs no bound.

Three cases are beyond these instances and rest on the theorems alone: a seed window with a
wider pending cap than the live tree (`PendingWithinCap`), a re-root while a gap is open
(`KernelGapsRequested`), and a range answer for a block that has no logs
(`KernelCompleteIsAuthoritative`).

Deadlock is checked in every run but `bootstrap_scan`, which stops when the bootstrap is
ready or abandoned.

### 4.1 Fairness

Safety runs assume none. The liveness runs use

    Fairness == WF_vars(Tick) /\ ([]<>~ProgressDue \/ []<><<Progress>>_vars)

Ticks keep coming, and while something useful is due (a request on the wire whose answer would tell the
kernel something, a lost request to time out, the tip to be announced, logs of
the tip to be delivered, a finality signal that would change something), one of
these happens again and again. The code justifies it: the runtime ticks for ever,
requests end in an answer or an error, the feeds deliver the tip, and finality is asked
for again while the chain grows. Two things are assumed in that. Requests share the pool of
fixed width and have no timeout of their own, so fewer of them hang than it has threads (the
kernel's time to live issues a hung one again, on another thread). And of the feeds of
a chain one is not mute: a feed reconnects after any failure it can notice (`LogFeed`), and
that the peer has gone mute is none. Nothing is assumed about faults, stale heads, logs of other blocks, or
answers that tell the kernel nothing (a header the buffer refuses, metadata no
source has, seed reads that fail). The second conjunct is weak fairness of `Progress`
with its enabledness written out as `ProgressDue`, because TLC would have to compute
ENABLED of every action in every state.

`BootstrapEnds` assumes only that ticks keep coming. `MultiChain` uses the
same form: bootstrap ends, refreshes are answered or fail, the next head and the logs
of the tip are delivered. Stale heads (`regress`) are left out there: one below the
anchor stays pending and is probed for as long as it is announced.

Late answers (`timeout`) are left out of the kernel's liveness run: see the hazard on
`kernel/mod.rs:1124`. A header answered after finality passed it is admitted as
pending, its ancestry is fetched below the anchor, and as long as that backfill is
in flight no pool is seeded; the next re-root clears it.

* `DataPlane`: ticks, inputs, pushes, the worker and answers are each weakly fair, for
  the engine thread, the pool threads and the worker loop for ever. `hung` requests are
  fewer than threads: as many of them as threads stop the client for good, for the HTTP
  agent has no timeout. Requests overtaken by their expiry are finite (`MaxSlow`): a
  server that always answers later than the time to live is never heard, for each answer
  is refused as superseded. That is how the code behaves, so it is an assumption here.
* `Server`: the supervisor restarts it, ticks and the clock go on, and the inputs, which
  are a queue in the code, are weakly fair per kind. Crashes and faults are finite. Only
  pools that keep trading are promised (`[]<>` on the kernel's window).
* `EndpointPool`: time passes and each thread goes on, that is, each attempt ends, which the
  agent without a timeout does not see to; there is always another request.
* `LogFeed`: threads go on; a provider dialled again and again accepts at last
  (`SF(Connect)`); a loop that comes by an empty channel after its deadline again and
  again is found there (`SF(Flush)`: one turn takes microseconds). `Relayed` is about
  channels that run empty again and again: the batcher flushes on a timeout of its
  receive, and a channel that never empties postpones it for ever. Nothing makes a dial
  end: connect, handshake and the wait for the subscription id have no timeout
  (`client_effects.rs:874`, `:939`), so a peer may keep a feed dialling for good. A mute
  peer, while dialled or later, is exempt from `FeedComesBack`, for nothing in the code notices
  one.

## 5. Findings and observations

**Reused request ids** (`chain_kernel_reused_id`). An orphaned-anchor
re-initialization starts from an empty `PendingRequests`, whose ids count from 1
again. Answers are matched by id and kind. A late seed answer, read at the old
anchor, that carries the id of the new seed request is folded into the
snapshot of the new anchor: the guard in `with_finalized_pool_seeds` compares the
anchor with the block of the *pending* request. The comment there promises such
a seed is "dropped wholesale rather than written at the wrong height".
The same happens to log queries, where fork and trunk are long enough: the logs of the
abandoned block are then recorded as those of the block asked for. `CompleteIsAuthoritative`
is therefore checked and proved without late answers only.

Observations met while modelling, which no run is devoted to:

* *Inert transitions.* The comment says the schedule of a tip announced again is
  "identical to the previous event's". A denied header or a re-root changes the
  state without deriving a schedule, so it is not. The next event that schedules makes
  up for it.
* *Unindexed v4 pools.* A candidate no source answers for is "simply skipped", but asked
  for again by the same transition.
* *Paused projection.* One pool of the snapshot whose token is not known makes the
  projection of its chain `None`. Token metadata is asked for only where the pool has a
  log on the volatile chain, and finality retires the request made there; afterwards
  nothing asks until the pool logs again, and no pool of the chain is priced.
  `OptimizerCatchesUp` is about what happens once the projection is ready.
* *Order of the steps of a stage.* "Within a stage steps are independent"
  (`optimization/src/plan.rs:168`) does not hold when a stage sends a pool amounts in both
  directions, as the layout of the model allows: the second hop meets the reserves the
  first has moved, and which one is second is up to the hash map. `PlanJudgedFairly`
  exempts such plans (`Crossed`) and is false without the exemption (`Both` in
  `MCMultiChain`). Of two bridges of a stage that fail in different ways, the first
  names the failure.
* *Weights.* "Never overspends" (`lossless_replay.rs:157`): each weight of a stage is rounded
  by itself, so three of f32(1/3) route 1.000000029 of the balance. And a hop is
  compared with its tick limit as if the pool had not been used before, so two hops
  within it may together leave the tick unflagged.
* *Metadata of the client* are fetched once: what the server learns later is not
  asked for until the client restarts. `Offer` in `DataPlane` is cut to the held catalog.
* *Masked columns.* A token all of whose outputs are masked gets a uniform softmax
  (`optimization/src/model.rs:240`), so a share of the flow goes to pools that are absent.
  This is numerics, and not modelled.
* *Limits.* A gap wider than the pending cap never closes: the header that would fill it
  is refused, requested again and refused again. The caps are sized so that this takes an
  outage of several times the finality depth; `GapsClose` is checked below the cap. The
  windows of a bootstrap scan may come from providers on different forks;
  `SeedIsTrue` shows that this does no harm while `Drift <= TipTrim`.

## 6. Proofs

Eight modules of theorems, for every value of the constants.

| Theorem | Statement | Module |
|---|---|---|
| `Invariance` | `Spec => []IInv` | `VolatileTreeProofs` |
| `TypeCorrect` | `Spec => []TypeOK` | |
| `TreeCorrect` | `Spec => []TreeInv` | |
| `PendingWithinCap` | `Spec => []PendingBounded` | |
| `LogsOnlyClimb` | `Spec => LogLadder` | |
| `FinalizationGated` | `Spec => FinalizationGate` | |
| `ConnectedMeansReachable` | `Spec => []ConnectedIffReachesAnchor` | |
| `CanonicalSurvives` | `Spec => ReanchorKeepsCanonical` | |
| `LedgerImplemented` | `HonestProviders => (Spec => ImplementsLedger)` | |
| `ProjectionIsExact` | `HonestProviders => (Spec => []ProjectionExact)` | |
| `KernelTyped` | `Spec => []KernelTypeOK` | `ChainKernelProofs` |
| `StagingInvariant` | `Spec => []StagedOnlyAbsent` | |
| `KernelDistinct` | `Spec => []InFlightDistinct` | |
| `KernelGapsRequested` | `HonestDenials => (Spec => []GapsRequested)` | |
| `KernelReinitOnProof` | `HonestKernel => (Spec => ReinitOnlyOnProof)` | |
| `KernelCompleteIsAuthoritative` | `HonestKernel /\ NoLateAnswers => (Spec => []CompleteIsAuthoritative)` | |
| `KernelSnapshotAtAnchor` | `HonestKernel /\ NoLateAnswers => (Spec => []SnapshotAtAnchor)` | |
| `KernelLedgerImplemented` | `HonestKernel /\ StartAnchor \in TrueLine(CanonTip) => (Spec => ImplementsLedger)` | |
| `LifecycleTyped` | `LifecycleSpec => []LifecycleTypeOK` | |
| `LifecycleRequests` | `LifecycleSpec => [](StagedOnlyAbsent /\ InFlightDistinct)` | |
| `LifecycleReinitOnProof` | `HonestKernel => (LifecycleSpec => ReinitOnlyOnProof)` | |
| `LifecycleGapsRequested` | `HonestDenials => (LifecycleSpec => []GapsRequested)` | |
| `LifecycleExact` | `HonestKernel /\ NoLateAnswers => (LifecycleSpec => [](CompleteIsAuthoritative /\ SnapshotAtAnchor))` | |
| `LifecycleLedgerImplemented` | `HonestKernel /\ StartAnchor \in TrueLine(CanonTip) => (LifecycleSpec => ImplementsLedger)` | |
| `BufferedDataSurvives` | `BufferFits => (LifecycleSpec => BufferSurvives)` | |
| `PoolsNotDrained` | `LifecycleSpec => []NoPoolDrained` | |
| `PlansJudgedFairly` | `LifecycleSpec => []PlanJudgedFairly` | |
| `OneRequestOutstanding` | `Spec => []AwaitsItsAnswer` | `BootstrapProofs` |
| `SeedLinked` | `Spec => []SeedLinksToAnchor` | |
| `SeedTrue` | `Spec => []SeedIsTrue` | |
| `ReservesNeverOlder` | `Spec => NeverOlder` | `DataPlaneProofs` |
| `WorkerLives` | `Spec => []WorkerSurvives` | |
| `NothingIsForgotten` | `Spec => []NothingForgotten` | `ServerProofs` |
| `ServerImplementsView` | `Spec => ImplementsView` | |
| `NothingLost` | `Spec => []NothingOwedIsLost` | `LogFeedProofs` |
| `OnlyRecorded` | `Spec => []OnlyRecordedLogs` | |
| `NoRequestFailsNeedlessly` | `Spec => []NoNeedlessFailure` | `EndpointPoolProofs` |
| `RotationFair` | every rotation: `NeverAhead` and `WholeCycle` | |
| `RotationNeverBehind` | the rotation of up to three endpoints: `NeverBehind` | |
| `PoolOrderBalanced` | `... Len(given) <= 3 => (Spec => []OrderBalanced)` | |

* *Induction.* The induction theorems of the library take a predicate, which no prover
  here instantiates. Where an induction is needed the proofs take a smallest
  counterexample: `SmallestSubset` says that a family of subsets of a finite set which
  has a member has a minimal one. `HighestMember` (a finite set has a greatest member under an
  order), `FoldUnique`, `FoldExists` and `FoldKeeps` (what a fold over a seed window
  returns and keeps) and, on the chain, `HonestGrounded` (heights leave no cycle)
  and `HonestLast` (a run with an absolute log has a last one) follow from it. Along the
  parents of a tree, where no finiteness is at hand, the conjunct `Grounded` of the tree
  invariant does the same: every set of blocks has one whose parent is outside.
* *Tree.* `BlocksGraphLemmas` has the facts about the operators: what each keeps of the
  shape of the tree, of the bound on pending blocks, of the headers and of the logs. `IInv`
  is the types, `TreeInv`, the bound, and two facts no run checks on their own: the pending
  area is finite, without which its cardinality is not a number, and a `Complete` block
  holds the logs the block really has (`CompleteIsExact`), without which a second
  authoritative answer could change it and `LogsOnlyClimb` would not follow. The bound needs
  that live admission never adds to a buffer the seed window overfilled. The two action
  properties are checked per action against the primed tree under `IInv`.
* *Ledger.* `HonestProviders` is `HonestChain` with headers that are the ones their hashes
  commit to. `HInv` is then `Tied`, every block of the tree stands above its parent on the
  real chain with nothing but blocks without logs between them, and `SnapshotExact`.
  `ConnectedOnRealChain` and `PathRunIsReal` turn the path to a block into the stretch of
  the real chain above the anchor, `DerivedIsReal` the fold over it into the real state (an
  absolute log resets it, so only what follows the last one counts), and `FrontierServed`
  shows that a fold never stops at a filler. Refinement and exact reads both follow from
  `FoldIsReal`; `FinalityIsReal` and `CompleteFold` say it for the point where finality
  stops. TLC evaluates `HonestProviders` on the constants of `volatile_tree_honest`
  (`HonestInstance`). The claims instance, where headers lie, has no honest chain and
  only the theorems without the assumption.
* *Kernel, for any providers.* `KInv`: the tree is one; the id of a request is its own,
  among those remembered and among those under way; no two in flight ask for the same
  thing; staged blocks are not in the tree. Every handler is taken apart into the change it
  makes to the tree (`Regraphs`) or the registries (`Records`) and the scheduling pass
  after it (`Scheduled`), of which `Asks` says what it adds: requests for what was derived
  and not in flight yet. Each scheduler is a lemma about one kind, so distinctness is proved once
  and not per handler. That old ids may come back does not touch any of this.
* *Gaps.* `GapInv` adds that no gap a provider can fill goes unasked. Under
  `HonestDenials` (no provider denies a block it has, no answer outlives its activation): a denial
  ends the request without a new one, and `GapsClose`, which TLC checks, is then the promise left.
  Every pass of the scheduler leaves all gaps asked for. Of the events without one, a re-root
  retires header requests, but drops every pending block with its gap; a retry sends again
  what it takes back; the others touch neither tree nor header requests.
* *Kernel on a real chain.* `HonestKernel` is `HonestChain`, with true numbers from bootstrap
  and true headers for what is announced (except a head that names itself as parent, which
  the kernel refuses). `TrueInv` is `KInv` with the tree tied to the chain (`Real`). Every step
  then either leaves the anchor (`Proceeds`), or lifts it along the chain (`Rises`), or
  starts again at a block of the canonical chain at the same height, the old anchor not being on that
  chain (`Restarts`). `KernelReinitOnProof` is that trichotomy: it needs nothing
  about late answers, because a probe answer is believed for what it says itself.
* *Kernel without late answers.* `ExactInv` adds what the requests in flight mean: a range
  covers only blocks of the canonical chain whose heights it asks for (`RangeReal`), seeds are
  read for verified pools, and what was read at the anchor of a request is
  written only under that anchor. From it follow that silence about a covered block is
  proof, that the snapshot is real, and the refinement. `NoLateAnswers` says that `MaxGhosts`
  is 0 or that the first anchor is on the chain the provider follows, so that there is no earlier
  activation to answer for. It cannot be dropped: `chain_kernel_reused_id` is the
  counterexample. `KernelLedgerImplemented` asks for a canonical start, because a restart
  is a step no ledger takes.
* *Under the wrapper.* The run `multi_chain` checks none of the kernel's properties on its own; the
  `Lifecycle...` theorems carry them over. `LifecycleStep` says that every step of
  `MultiChain` is a step of `ChainKernel` or a delivery (`Delivers`), one or a whole buffer. The
  kernel lemmas are stated for any kernel, not for the variable, so a replay is a
  sequence of kernels each of which they apply to (`ReplayOK`); that the recursive
  function in `ReplayOf` has a value is `ReplayExists`, by the least length without one. A
  buffered head leaves its gap asked for (`DeliveredGaps`), so `GapInv` holds on activation.
* *Buffered data.* `BufferInv`: until the activation the kernel is the seeded one, nothing is
  staged and no refresh is under way. `Takes(k, n)` counts what `n` deliveries can have added:
  pending and staged blocks. By it no delivery meets a full area, except the logs of the
  very last one, and `Survives` follows the buffer: the head is the newest head so far, and
  logs held in the tree or staged stay held (`KeepsLogs`), but for those whose index a new
  delivery for the same block has (`KeepsBut`). So what `Survives` promises of a delivery is `Lasting`, its
  logs without those a later one replaces. No hypothesis on indexes is needed. `Absorbs` says that logs streamed for
  a block that is already `Complete` are among its own, since these are ignored.
  `BufferFits` names the limits, and TLC evaluates it on the instance (`AllFits`): a
  buffer longer than the pending area, or than the staging plus one, can lose a head or
  logs. The code bounds both areas by 1,024 blocks and does not bound the buffer. The gap
  fill of the kernel fetches such logs later, so this is a limit of the promise and not of
  what the chain ends up with.
* *Plans.* `Trade` is one swap: what the curve is asked about, after the fee and the cut at
  the tick, is at most what joins the reserve, and the quotient rounds down, so the product of
  the reserves never shrinks and no more leaves than is held. `SwapOK`, `HopOK` and `StageOK`
  carry it through the hops of a step and the steps of a stage in whatever order they come,
  `StagesExist` and `ReplayStaged` through the stages, each by a smallest counterexample;
  `PlansTyped` says that what `build_plan` makes is what the replay takes, each step once. Plans
  that cross a pool are included: this half of `PlanJudgedFairly` needs no exemption.
* *Order of a stage.* The other half, `OrderIrrelevant`, is about plans that cross no pool.
  `UncrossedPlans`: two steps of a stage through one pool would be of one cell, since the layout
  leads from a token through a pool to one token only (`LayoutAssumption`), and of a cell
  there is one step. `HopsCommute`: two hops through different pools read the balances
  the stage began with and disjoint parts of the book, and what they credit adds up, so
  they commute. Which of two failing hops is met first, and how far the book had moved by
  then, does depend on the order; so a state that has failed is compared as `Broken`
  (`Judged`), and hops commute up to that (`OutcomesCommute`). `OrderlessFold` makes of
  steps that commute one function of the *set* of steps, whichever is last (`Gathers`),
  and `StageGathers` shows the fold of a stage, in any order, to be that function of its
  steps. So no permutation is counted: `StageSame` and `ReplaySame` carry the equality through
  the stages, `BridgesJudged` says that some bridge fails in one order if one does in another,
  and `VerdictsAgree` puts the verdict together.
* *Bootstrap.* `AwaitInv`: a phase that is not terminal has exactly one request, of its kind.
  `SeedInv`: what was scanned, and each answer under way, `Agrees` with the chain on its
  range of heights and `Drift` below the frozen tip; an answer and the request it is for are
  about the same window; before the scan has ended there is no seed, after that it is linked
  and true. It rests on lemmas about lines: they are linear (`LineLinear`), without gaps
  (`LineFull`), and equal as far down as one is settled on the other (`LinesAgree`), so a
  move of the chain and another provider change nothing below (`AgreesStays`, `LoggedAgrees`).
  `WindowTrue` is where `Drift <= TipTrim` is used: what stays of a scan is what agrees.
  `WindowLinked` needs no chain at all, only what `from_window` does.
* *Data plane.* `AgeInv`: the one answer a slot still waits for is no older than the
  reserves in use, since the slot was freed when they were taken and its next id belonged
  to no answer under way. `GateInv`: whatever is on its way to the worker passed the gate of
  the reducer; `GateSuffices` is the lemma that this gate is no weaker than the checks of a step.
* *Server.* `FoldInv` follows what was validated from answer to registry to cache;
  `ViewInv` ties what is published to the kernel, whose registries only grow. The
  refinement takes the view itself as its mapping: every step publishes, withdraws or
  stutters.
* *Log feed.* `FeedInv`: what the channel and buffer hold is recorded, and is what is owed.
* *Endpoint pool.* `PoolInv`: a request has tried as many endpoints as attempts failed, and each
  of them was down at some time; so after as many failures as endpoints `alive` is empty.
  That needs a rotation which holds every endpoint (`RotationComplete`), and that is proved of
  any weights. `RoundInv`: after `n` rounds an endpoint of weight `x` holds `n * x` less
  `total` for each of its picks, all hold nothing together, and none less than `-total`, since
  the one that pays holds most of a positive sum. Hence `NeverAhead`; after `total` rounds what each
  holds is a multiple of `total` and not negative, hence nothing, which is `WholeCycle`. Sums are the
  functions of `IsSum` on the subsets of the endpoints, shown to be what `SumFunction` computes
  (`SumIs`), and the rounds are a least fixed point (`RecursionExists`).
* *Not behind.* That no endpoint falls a whole pick *behind* is proved for up to three
  endpoints: were one of them to, the one taken would hold as much and the third would be
  a whole pick ahead. It is not true of the algorithm in general: of five endpoints that
  weigh 1, 1, 8, 8 and 8 the third has had 3 of the first 13 picks where its share is 4. The
  code promises a balanced cycle without a bound on the way, so this is no defect; the
  hypothesis stays.

The proofs assume what the modules assume of their constants (named `ASSUME`s, which TLC
evaluates in the runs), among them `FiniteAssumption`, that hashes, addresses and log
positions are finitely many, as types of a fixed width are, and `PowerAssumption`, that powers
of two are naturals, which the SMT encoding lacks, and `LayoutAssumption`, that a pool enters
the layout of the optimizer once in each direction (`ModelLayout::with_reserve_values`, folded
over the directional reserves of the pools). `HonestInstance` in the MC modules has
TLC find `HonestKernel` and `HonestProviders` true of the constants the runs use.

Only model-checked: the properties of section 4 that have no row above. They are all
liveness, which is out of the prover's reach, as is ENABLED: `GapsClose`, `FinalityReached`,
`PoolsSeeded`, `BootstrapEnds`, `OptimizerCatchesUp`, `WindowBounded`, `WorkerCatchesUp`,
`TradedPoolsServed`, `RecoveredIsUsed`, `Relayed` and `FeedComesBack`. So is induction over
recursive data: walks are closed sets rather than recursion, and folds are functions on the
subsets of a finite set, so that the proofs do not need it.

## 7. Not modelled

* Uniswap protocols and whitelist, wire types and stubs: tables, address derivation and
  serialized data.
* Token vetting: an offline batch tool, one pass over candidates and files.
* The optimizer's forward pass and training, tick arithmetic, 256-bit conversions:
  numerics, for which the crate has unit and property tests. What surrounds them is modelled: which pools
  enter, when a session starts and fails, the plan, its replay and its verdict.
* The terminal of the command line client, JSON-RPC encoding, multicall packing, key
  layout of the cache, HTTP routing.
* Per component, what is left out is in the notes of `PROJECT.json`.

More than half of the Rust in the repository is tests, benches and fixtures inside
the source files (`kernel/mod.rs`: 1,430 of 9,335 lines are code), so the mapped lines
are a small share of all lines although the kernel, the tree, bootstrap and the
client core are mapped nearly in full.
