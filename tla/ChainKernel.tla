------------------------------ MODULE ChainKernel ------------------------------
(***************************************************************************)
(* The kernel of one chain (client-evm/src/kernel/mod.rs): a pure          *)
(* transition function over the volatile tree, the finalized snapshot, the *)
(* pool and token registries, the staged logs and the requests in flight.  *)
(* Every event but a failure, a denial or a tick ends in one scheduling    *)
(* pass that derives from the state what has to be fetched next.           *)
(*                                                                         *)
(* The state is one record.  `pending` is what the kernel remembers of its *)
(* requests, `wire` the requests of this activation whose answer may still *)
(* come, `ghosts` those of earlier activations: PendingRequests::new()     *)
(* forgets a request, but nothing calls its answer back.                   *)
(*                                                                         *)
(* Request ids: the code counts up from 1 in every activation.  Only       *)
(* whether two requests share an id matters, so a new id is the least one  *)
(* that no outstanding request of the activation carries, while an id sent *)
(* before the activation may be met again.                                 *)
(***************************************************************************)
EXTENDS RealChain

CONSTANTS
  Tracked,       \* the pools bootstrap validated
  ValidPools,    \* the candidates whose metadata validates
  NoMetadata,    \* candidates no metadata source answers for (v4 without an indexer)
  BornIn,        \* [Pool -> Block]: the block a pool was created in
  Token, TokensOf, KnownTokens,   \* tokens, a pool's pair, those bootstrap resolved
  Manager,       \* {the v4 PoolManager of the chain}, or {}
  CanonTip,      \* the tip of the chain the network settles on
  HeadClaims,    \* the headers a feed may announce
  Finalized,     \* the blocks a finality signal may name
  MaxStaged,     \* MAX_STREAMED_LOG_BLOCKS
  SettleDepth,   \* STREAM_SETTLE_DEPTH
  SeedChunk,     \* FINALIZED_POOL_SEED_CHUNK
  RequestTTL,    \* REQUEST_TTL
  FaultKinds,    \* the faults that may happen
  MaxFaults,     \* bound: how many of them
  MaxGhosts      \* bound: how many answers outlive the activation that asked

ASSUME KernelAssumption ==
  /\ IsFiniteSet(Token)
  /\ Tracked \subseteq Pool /\ ValidPools \subseteq Pool /\ NoMetadata \subseteq Pool
  /\ BornIn \in [Pool -> Block]
  /\ TokensOf \in [Pool -> SUBSET Token] /\ KnownTokens \subseteq Token
  /\ Manager \subseteq Emitter
  /\ CanonTip \in Block /\ Finalized \subseteq TrueLine(CanonTip)
  /\ HeadClaims \subseteq Header
  /\ {MaxStaged, SettleDepth, SeedChunk, MaxFaults, MaxGhosts} \subseteq Nat /\ RequestTTL \in Nat \ {0}
  /\ FaultKinds \subseteq {"fail", "lose", "timeout", "notfound", "regress", "garbage"}

VARIABLES
  kernel,   \* the state of the kernel and its outstanding requests
  faults    \* the faults still allowed

vars == <<kernel, faults>>

(***************************************************************************)
(* Requests in flight (pending_requests.rs, request_tracking.rs).  A       *)
(* request is [kind, at, items, numbers]: the block it targets (AnchorRef  *)
(* for none), the pools, tokens or covered blocks it names, and the block  *)
(* numbers it asks for.                                                    *)
(***************************************************************************)
Req(kind, at, items, numbers) == [kind |-> kind, at |-> at, items |-> items, numbers |-> numbers]

InFlight(k, kind) == {r.payload : r \in {q \in k.pending : q.payload.kind = kind}}
Targets(k, kind) == {p.at : p \in InFlight(k, kind)}
Covered(k, kind) == UNION {p.items : p \in InFlight(k, kind)}
CoveredNumbers(k) == UNION {p.numbers : p \in InFlight(k, "range")}

\* The n least ids that nothing outstanding carries.
FreshIds(k, n) ==
  LET taken == {r.id : r \in k.pending} \cup {m.id : m \in k.wire}
      free  == (1 .. (Cardinality(taken) + n)) \ taken
  IN {i \in free : Cardinality({j \in free : j <= i}) <= n}

\* One id for each member of S.
Ids(k, S) ==
  CHOOSE f \in [S -> FreshIds(k, Cardinality(S))] : \A x, y \in S : f[x] = f[y] => x = y

Sent(k, messages) ==
  [k EXCEPT !.pending = @ \cup {[id |-> m.id, payload |-> m.payload, age |-> 0] : m \in messages},
            !.wire    = @ \cup messages]

Issue(k, payloads) ==
  LET ids == Ids(k, payloads) IN Sent(k, {[id |-> ids[p], payload |-> p] : p \in payloads})

\* Faulty variants of the next: the old request is kept; it is dropped and not
\* sent again; it is registered again and not sent.
RetryKept(k, R) ==
  LET ids == Ids(k, R) IN Sent(k, {[id |-> ids[r], payload |-> r.payload] : r \in R})
RetryDropped(k, R) == [k EXCEPT !.pending = @ \ R]
RetryUnsent(k, R) ==
  LET ids == Ids(k, R)
  IN [k EXCEPT !.pending = (@ \ R) \cup {[id |-> ids[r], payload |-> r.payload, age |-> 0] : r \in R}]

\* retry: the requests in R are forgotten and sent again under new ids.  The
\* answers to the old ids may still come.
Retry(k, R) ==
  LET ids == Ids(k, R)
  IN Sent([k EXCEPT !.pending = @ \ R], {[id |-> ids[r], payload |-> r.payload] : r \in R})

\* The pending request an answer belongs to: same id, same kind.
Matching(k, m) == {r \in k.pending : r.id = m.id /\ r.payload.kind = m.payload.kind}

Arrived(k, m) ==
  [k EXCEPT !.wire = @ \ {m}, !.ghosts = IF m \in k.wire THEN @ ELSE @ \ {m}]
Taken(k, m) == [Arrived(k, m) EXCEPT !.pending = @ \ Matching(k, m)]

\* The block-scoped requests whose block is still in the tree survive a re-root,
\* a ranged one if any block it covers is.
Retained(r, present) ==
  CASE r.payload.kind = "probe" -> TRUE
    [] r.payload.kind = "range" -> r.payload.items \cap present # {}
    [] OTHER                    -> r.payload.at \in present

(***************************************************************************)
(* Scheduling.                                                             *)
(***************************************************************************)
ScheduleHeaders(k) ==
  Issue(k, {Req("header", h, {}, {}) : h \in MissingParents(k.graph) \ Targets(k, "header")})

TrustedEmitters(k) == WatchedAddresses(k.verified) \cup Manager

ScheduleLogs(k) ==
  Issue(k, {Req("logs", h, {}, {}) :
              h \in UnknownLogHoles(k.graph, TrustedEmitters(k), Targets(k, "logs"), SettleDepth)})

\* The pools the stored logs of a block name.
Candidates(k, h) == {LogPool[l] : l \in k.graph.nodes[h].logs}

\* One request per block of the present chain, newest first, each for what no
\* newer block and nothing in flight already asks for.
Batched(k, kind, need, available) ==
  LET g == k.graph
      newer(h) == {x \in DOMAIN need : h # x /\ h \in Ancestors(g, Present(g), x)}
      rest(h)  == need[h] \ (available \cup UNION {need[x] : x \in newer(h)})
  IN Issue(k, {Req(kind, h, rest(h), {}) : h \in {x \in DOMAIN need : rest(x) # {}}})

\* Faulty variant: what is already being asked is asked again.
SchedulePoolsAgain(k) ==
  Batched(k, "pools", [h \in PresentChain(k.graph) |-> Candidates(k, h)], k.verified \cup k.rejected)

SchedulePools(k) ==
  Batched(k, "pools", [h \in PresentChain(k.graph) |-> Candidates(k, h)],
          k.verified \cup k.rejected \cup Covered(k, "pools"))

ScheduleTokens(k) ==
  Batched(k, "tokens",
          [h \in PresentChain(k.graph) |-> UNION {TokensOf[p] : p \in Candidates(k, h) \cap k.verified}],
          k.tokens \cup Covered(k, "tokens"))

\* Anchor-height seeding waits for the block backfill to go quiet.
BackfillInFlight(k) == \E kind \in {"header", "logs", "range"} : InFlight(k, kind) # {}

\* Faulty variant: only the pools bootstrap tracked are seeded.
UnseededTracked(k) == Tracked \ (DOMAIN k.snapshot \cup Covered(k, "seeds"))

Unseeded(k) == k.verified \ (DOMAIN k.snapshot \cup Covered(k, "seeds"))

ScheduleSeeds(k) ==
  IF BackfillInFlight(k) \/ Unseeded(k) = {} THEN k
  ELSE LET chunk == CHOOSE S \in SUBSET Unseeded(k) :
                      \/ S = Unseeded(k) /\ Cardinality(S) <= SeedChunk
                      \/ Cardinality(S) = SeedChunk
       IN Issue(k, {Req("seeds", k.graph.anchor, chunk, {})})

\* Faulty variant: header backfill is left to the admission of a head.
ScheduleAllButHeaders(k) ==
  CHOOSE done \in {ScheduleSeeds(d) : d \in {ScheduleTokens(c) : c \in {SchedulePools(b) :
                   b \in {ScheduleLogs(a) : a \in {k}}}}} : TRUE

\* One after the other, each over the state the one before it left.
ScheduleAll(k) ==
  CHOOSE done \in {ScheduleSeeds(e) : e \in {ScheduleTokens(d) : d \in {SchedulePools(c) :
                   c \in {ScheduleLogs(b) : b \in {ScheduleHeaders(a) : a \in {k}}}}}} : TRUE

\* A block that lands pending at or just above the anchor's height cannot
\* descend from the anchor: ask which block is canonical at that height.
ProbeIfOrphaned(k, h, number) ==
  IF /\ number <= k.graph.number + 1
     /\ h \in PendingSet(k.graph)
     /\ InFlight(k, "probe") = {}
  THEN Issue(k, {Req("probe", AnchorRef, {}, {k.graph.number})})
  ELSE k

\* The authoritative check of the holes that stalled a finalization.
ScheduleRanges(k, target) ==
  LET runs == MissingCompleteRanges(k.graph, target, k.verified, CoveredNumbers(k))
  IN Issue(k, {Req("range", AnchorRef, run, {k.graph.nodes[h].number : h \in run}) : run \in runs})

(***************************************************************************)
(* Activation: from the bootstrap seed, and again on an orphaned anchor.   *)
(***************************************************************************)
SeedGraph(anchor, number, window) ==
  LET newest(S) == CHOOSE s \in S : \A t \in S : t.number <= s.number
      from[S \in SUBSET window] ==
        IF S = {} THEN NewGraph(anchor, number)
        ELSE LET s == newest(S)
             IN WithDataCapped(from[S \ {s}], s.hash, s.parent, SeedData(s.number, s.logs), SeedCap)
  IN from[window]

Activated(anchor, number, window, verified, rejected, tokens, ghosts) ==
  LET graph == SeedGraph(anchor, number, window)
  IN Issue([graph |-> graph, snapshot |-> [p \in {} |-> {}], verified |-> verified,
            rejected |-> rejected, tokens |-> tokens, staging |-> [b \in {} |-> {}],
            pending |-> {}, wire |-> {}, ghosts |-> ghosts],
           {Req("header", h, {}, {}) : h \in MissingParents(graph)})

Init ==
  /\ kernel = Activated(StartAnchor, StartNumber, SeedWindow, Tracked, {}, KnownTokens, {})
  /\ faults = MaxFaults

NoFault == UNCHANGED faults
Fault(kind) == kind \in FaultKinds /\ faults > 0 /\ faults' = faults - 1

(***************************************************************************)
(* Heads and headers.                                                      *)
(***************************************************************************)
Streamed(k, h, logs) == [k EXCEPT !.graph = WithStreamedLogs(@, h, logs)]

\* Faulty variant: the staged logs are applied and kept.
DrainedKept(k, h) ==
  IF h \notin Present(k.graph) \cap DOMAIN k.staging THEN k ELSE Streamed(k, h, k.staging[h])

\* A block that entered the tree takes the logs staged for it.
Drained(k, h) ==
  IF h \notin Present(k.graph) \cap DOMAIN k.staging THEN k
  ELSE Streamed([k EXCEPT !.staging = [b \in DOMAIN @ \ {h} |-> @[b]]], h, k.staging[h])

HeadOutcome(k, c) == AdmissionOf(k.graph, c.hash, c.parent, MaxPending)
Admit(k, c) == [k EXCEPT !.graph = WithBlockCapped(@, c.hash, c.parent, c.number, c.bloom, MaxPending)]
WithHead(k, h) == [k EXCEPT !.graph = WithObservedHead(@, h)]

\* TransitionOutcome::Inert: the tip announced again.
Inert(k, c) == HeadOutcome(k, c) = "DuplicateBlock" /\ c.hash = k.graph.head

\* The arm of a head event.  A head that names itself as parent is garbage: ask
\* for the true header.  Nothing is scheduled for the tip announced again.
WithHeadObserved(k, c) ==
  CASE HeadOutcome(k, c) = "SelfParent" ->
         Issue(Drained(k, c.hash), {Req("header", h, {}, {}) : h \in {c.hash} \ Targets(k, "header")})
    [] Inert(k, c) -> Drained(k, c.hash)
    [] OTHER ->
         ProbeIfOrphaned(ScheduleAll(Drained(WithHead(Admit(k, c), c.hash), c.hash)), c.hash, c.number)

SelfParentHead(c) ==
  /\ HeadOutcome(kernel, c) = "SelfParent"
  /\ kernel' = WithHeadObserved(kernel, c)
  /\ Fault("garbage")

TipRedelivered(c) ==
  /\ Inert(kernel, c)
  /\ kernel' = WithHeadObserved(kernel, c)
  /\ NoFault

\* Bound: a feed falls back to an older head only at the price of a fault.
Regresses(c) == c.hash \in Present(kernel.graph) \cup {kernel.graph.anchor} /\ c.hash # CanonTip

HeadObserved(c) ==
  /\ HeadOutcome(kernel, c) # "SelfParent" /\ ~Inert(kernel, c)
  /\ IF Regresses(c) THEN Fault("regress") ELSE NoFault
  /\ kernel' = WithHeadObserved(kernel, c)

\* A header is ancestry, not a tip.  An answer for another block than the one
\* asked for is admitted all the same, and the request is sent again.
HeaderAnswered(m) ==
  /\ m.payload.kind = "header" /\ m.payload.at \in Known
  /\ LET c     == HeaderOf(m.payload.at)
         k     == Taken(Drained(Admit(kernel, c), c.hash), m)
         wrong == {r \in Matching(kernel, m) : r.payload.at # c.hash}
     IN kernel' = ProbeIfOrphaned(ScheduleAll(Issue(k, {r.payload : r \in wrong})), c.hash, c.number)
  /\ NoFault

\* A provider denies a block: for good when it is out of reach, or because it lags.
HeaderNotFound(m) ==
  /\ m.payload.kind = "header"
  /\ IF m.payload.at \in Known THEN Fault("notfound") ELSE NoFault
  /\ kernel' = Taken(kernel, m)

\* Faulty variant: the height guard against stale probes is missing.
ProbeAnsweredAtAnyHeight(m) ==
  /\ m.payload.kind = "probe"
  /\ LET k == Taken(kernel, m)
     IN \E b \in TrueLine(CanonTip) :
          /\ Trunk[b].number \in m.payload.numbers
          /\ kernel' = IF b # k.graph.anchor
                       THEN Activated(b, Trunk[b].number, {}, k.verified, k.rejected, k.tokens, {})
                       ELSE k
  /\ NoFault

\* The canonical block at the anchor's own height differs: the anchor was
\* orphaned, start again there.  Every request in flight is forgotten; what is
\* still answered of them is any MaxGhosts of the answers under way.
ProbeAnswered(m) ==
  /\ m.payload.kind = "probe"
  /\ LET k == Taken(kernel, m)
     IN \E b \in TrueLine(CanonTip) :
          /\ Trunk[b].number \in m.payload.numbers
          /\ IF Trunk[b].number = k.graph.number /\ b # k.graph.anchor
             THEN \E late \in SUBSET (k.wire \cup k.ghosts) :
                    /\ Cardinality(late) <= MaxGhosts
                    /\ kernel' = Activated(b, Trunk[b].number, {}, k.verified, k.rejected, k.tokens, late)
             ELSE kernel' = k
  /\ NoFault

(***************************************************************************)
(* Finality.                                                               *)
(***************************************************************************)
\* After a re-root the requests it made pointless and the staged logs go.
Pruned(k) ==
  [k EXCEPT !.pending = {r \in @ : Retained(r, Present(k.graph))},
            !.staging = [b \in {} |-> {}]]

WithFinalizedBlockObserved(k, target) ==
  LET moved == [k EXCEPT !.graph = FinalizedTo(@, target, k.verified),
                         !.snapshot = FinalizedStates(k.graph, target, @, k.verified)]
      kept  == IF moved.graph.anchor = k.graph.anchor THEN moved ELSE Pruned(moved)
  IN ScheduleRanges(kept, target)

FinalizedBlockObserved(target) ==
  /\ kernel' = WithFinalizedBlockObserved(kernel, target)
  /\ NoFault

(***************************************************************************)
(* Logs.                                                                   *)
(***************************************************************************)
Staged(k, h, logs) ==
  IF h \notin DOMAIN k.staging /\ Cardinality(DOMAIN k.staging) >= MaxStaged THEN k
  ELSE [k EXCEPT !.staging =
          [b \in DOMAIN @ \cup {h} |-> IF b # h THEN @[b]
                                       ELSE Extended(IF h \in DOMAIN @ THEN @[h] ELSE {}, logs)]]

WithLogsObserved(k, h, logs) ==
  IF h \in Present(k.graph) THEN ScheduleAll(Streamed(k, h, logs)) ELSE Staged(k, h, logs)

LogObserved(h, logs) ==
  /\ kernel' = WithLogsObserved(kernel, h, logs)
  /\ NoFault

\* An answer the kernel still waits for is applied, and followed by a scheduling
\* pass; any other only leaves the wire.
Answer(m, apply(_, _)) ==
  /\ kernel' = IF Matching(kernel, m) = {} THEN Taken(kernel, m)
               ELSE ScheduleAll(apply(Taken(kernel, m), (CHOOSE r \in Matching(kernel, m) : TRUE).payload))
  /\ NoFault

CompleteIn(k, h, logs) == [k EXCEPT !.graph = WithCompleteLogs(@, h, logs)]

LogsAnswered(m) ==
  /\ m.payload.kind = "logs"
  /\ Answer(m, LAMBDA k, asked : CompleteIn(k, asked.at, LogsOf[m.payload.at]))

\* What the chain the provider follows has logs for in the range.
Responded(m) == {b \in TrueLine(CanonTip) : Trunk[b].number \in m.payload.numbers /\ LogsOf[b] # {}}

\* The authoritative logs of each of the blocks that is in the tree.
CompletedAll(k, logs) ==
  [k EXCEPT !.graph.nodes =
     [h \in DOMAIN @ |-> IF h \in DOMAIN logs THEN [@[h] EXCEPT !.level = "Complete", !.logs = logs[h]] ELSE @[h]]]

\* Faulty variant: the silence about other blocks is applied to all of them.
CompleteRangeSilent(k, covered, responded) == CompletedAll(k, [h \in covered \cup responded |-> {}])

\* A covered block the answer is silent about has no logs.
CompleteRange(k, covered, responded) ==
  CompletedAll(k, [h \in covered \cup responded |-> IF h \in responded THEN LogsOf[h] ELSE {}])

RangeAnswered(m) ==
  /\ m.payload.kind = "range"
  /\ Answer(m, LAMBDA k, asked : CompleteRange(k, asked.items, Responded(m)))

(***************************************************************************)
(* Pools and tokens.                                                       *)
(***************************************************************************)
\* A result is kept only for what was asked; a failed validation never takes
\* back a verified pool.
PoolsAnswered(m) ==
  /\ m.payload.kind = "pools"
  /\ LET valid   == (m.payload.items \ NoMetadata) \cap ValidPools
         invalid == (m.payload.items \ NoMetadata) \ ValidPools
     IN Answer(m, LAMBDA k, asked :
                    [k EXCEPT !.verified = @ \cup (valid \cap asked.items),
                              !.rejected = (@ \ (valid \cap asked.items))
                                             \cup ((invalid \cap asked.items) \ k.verified)])

TokensAnswered(m) ==
  /\ m.payload.kind = "tokens"
  /\ Answer(m, LAMBDA k, asked : [k EXCEPT !.tokens = @ \cup (m.payload.items \cap asked.items)])

\* The pools that exist at the block read; the other reads fail.
Readings(m) == {p \in m.payload.items : BornIn[p] \in TrueLine(m.payload.at)}

\* with_finalized_pool_seeds: dropped when the anchor has moved since the request.
Seeded(k, at, states) ==
  IF at # k.graph.anchor THEN k
  ELSE [k EXCEPT !.snapshot = [p \in DOMAIN @ \cup DOMAIN states |->
                                 IF p \in DOMAIN states THEN states[p] ELSE @[p]]]

SeedsAnswered(m) ==
  /\ m.payload.kind = "seeds"
  /\ Answer(m, LAMBDA k, asked :
                 Seeded(k, asked.at, [p \in Readings(m) |-> TrueState[m.payload.at][p]]))

(***************************************************************************)
(* Failures and time.                                                      *)
(***************************************************************************)
RequestFailed(m) ==
  /\ Fault("fail")
  /\ kernel' = Retry(Arrived(kernel, m), Matching(kernel, m))

\* An answer that never comes; nothing tells the kernel.
AnswerLost(m) ==
  /\ Fault("lose")
  /\ kernel' = Arrived(kernel, m)

OnWire(r) == [id |-> r.id, payload |-> r.payload] \in kernel.wire

\* Bound: a request grows old while its answer is still to come only at the
\* price of a fault, one at a time; one whose answer was lost always does.
Tick ==
  \E slow \in {S \in SUBSET {r \in kernel.pending : OnWire(r)} : Cardinality(S) <= 1} :
    /\ IF slow = {} THEN NoFault ELSE Fault("timeout")
    /\ LET aged == {IF r \in slow \/ ~OnWire(r) THEN [r EXCEPT !.age = @ + 1] ELSE r : r \in kernel.pending}
       IN kernel' = Retry([kernel EXCEPT !.pending = aged], {r \in aged : r.age >= RequestTTL})

Answered(m) ==
  \/ HeaderAnswered(m)
  \/ ProbeAnswered(m)
  \/ LogsAnswered(m)
  \/ RangeAnswered(m)
  \/ PoolsAnswered(m)
  \/ TokensAnswered(m)
  \/ SeedsAnswered(m)

Next ==
  \/ \E c \in HeadClaims : SelfParentHead(c) \/ TipRedelivered(c) \/ HeadObserved(c)
  \/ \E t \in Finalized : FinalizedBlockObserved(t)
  \/ \E h \in Block : \E logs \in Batch(h) : LogObserved(h, logs)
  \/ \E m \in kernel.wire \cup kernel.ghosts :
       Answered(m) \/ HeaderNotFound(m) \/ RequestFailed(m) \/ AnswerLost(m)
  \/ Tick

Spec == Init /\ [][Next]_vars

(***************************************************************************)
(* Honest providers (HonestChain), as the kernel meets them: bootstrap     *)
(* hands over true numbers, a head that does not name itself as parent is  *)
(* announced with its true header, and no real block is built on a filler. *)
(***************************************************************************)
HonestKernel ==
  /\ HonestChain
  /\ StartNumber = Trunk[StartAnchor].number
  /\ \A s \in SeedWindow : s.hash \notin Fillers => s.number = Trunk[s.hash].number
  /\ \A b \in Known : Trunk[b].parent \notin Fillers
  /\ \A c \in HeadClaims : c.hash # c.parent => c \in {HeaderOf(b) : b \in Known}
  /\ CanonTip \in Served

(***************************************************************************)
(* Fairness.  The requests share a pool of threads of fixed width and have *)
(* no timeout of their own: fewer of them hang than there are threads, so  *)
(* every other one is run and ends in an answer or a failure; one that     *)
(* hangs is a late answer.  The runtime ticks for ever; the feed delivers  *)
(* the tip and goes on delivering logs of it; the finality signal is asked *)
(* for again while the chain grows.  So while one of these is due, one of  *)
(* them happens: weak fairness of Progress, with its ENABLED written out   *)
(* as ProgressDue.  Nothing is assumed of faults, stale heads, logs of     *)
(* other blocks and answers that tell the kernel nothing.                  *)
(***************************************************************************)
Useful(m) ==
  CASE m.payload.kind = "header" ->
         /\ m.payload.at \in Known
         /\ HeadOutcome(kernel, HeaderOf(m.payload.at)) # "PendingBufferFull"
    [] m.payload.kind = "pools"  -> m.payload.items \ NoMetadata # {}
    [] m.payload.kind = "seeds"  -> Readings(m) # {}
    [] OTHER                     -> TRUE

TipHeads == {c \in HeadClaims : c.hash = CanonTip}

ProgressDue ==
  \/ \E m \in kernel.wire : Useful(m)
  \/ \E r \in kernel.pending : ~OnWire(r)
  \/ \E c \in TipHeads :
       kernel.graph.head # CanonTip /\ HeadOutcome(kernel, c) \in {"Admitted", "DuplicateBlock"}
  \/ /\ Streamable[CanonTip] \in Batch(CanonTip)
     /\ WithLogsObserved(kernel, CanonTip, Streamable[CanonTip]) # kernel
  \/ \E t \in Finalized : WithFinalizedBlockObserved(kernel, t) # kernel

Progress ==
  \/ \E m \in kernel.wire : Useful(m) /\ Answered(m)
  \/ Tick
  \/ \E c \in TipHeads : HeadObserved(c)
  \/ Streamable[CanonTip] \in Batch(CanonTip) /\ LogObserved(CanonTip, Streamable[CanonTip])
  \/ \E t \in Finalized : FinalizedBlockObserved(t)

Fairness ==
  /\ WF_vars(Tick)
  /\ []<>~ProgressDue \/ []<><<Progress>>_vars

LiveSpec == Spec /\ Fairness

(***************************************************************************)
(* Safety.                                                                 *)
(***************************************************************************)
Payload ==
  [kind : {"header", "logs"}, at : Block, items : {{}}, numbers : {{}}]
    \cup [kind : {"pools", "seeds"}, at : Block, items : SUBSET Pool, numbers : {{}}]
    \cup [kind : {"tokens"}, at : Block, items : SUBSET Token, numbers : {{}}]
    \cup [kind : {"range"}, at : {AnchorRef}, items : SUBSET Block, numbers : SUBSET Nat]
    \cup [kind : {"probe"}, at : {AnchorRef}, items : {{}}, numbers : SUBSET Nat]
Message == [id : Nat \ {0}, payload : Payload]

\* The state has its type.
KernelTypeOK ==
  /\ IsGraph(kernel.graph) /\ IsSnapshot(kernel.snapshot)
  /\ kernel.verified \subseteq Pool /\ kernel.rejected \subseteq Pool /\ kernel.tokens \subseteq Token
  /\ \E S \in SUBSET Block : kernel.staging \in [S -> LogMap]
  /\ kernel.wire \subseteq Message /\ kernel.ghosts \subseteq Message
  /\ \A r \in kernel.pending : [id |-> r.id, payload |-> r.payload] \in Message /\ r.age \in 0 .. RequestTTL
  /\ faults \in 0 .. MaxFaults

\* Whatever was retried, retired by a re-root or answered late, two requests in
\* flight never ask for the same thing: every scheduler and every retry keeps to
\* the deduplication of pending_requests.rs.
Apart(p, q) ==
  p.kind = q.kind =>
    CASE p.kind \in {"header", "logs"} -> p.at # q.at
      [] p.kind \in {"pools", "tokens", "seeds"} -> p.items \cap q.items = {}
      [] p.kind = "range" -> p.numbers \cap q.numbers = {}
      [] OTHER -> FALSE
InFlightDistinct == \A r, q \in kernel.pending : r # q => Apart(r.payload, q.payload)

\* "Staging invariant" (mod.rs:1095): logs are staged only for blocks outside the
\* tree, so no block enters it with logs left behind and an Inert re-delivery of
\* the tip has nothing to drain.
StagedOnlyAbsent == DOMAIN kernel.staging \cap Present(kernel.graph) = {}

\* Every gap in the ancestry that a provider can fill is being filled, however
\* heads, headers, retries and re-roots interleave: the schedule is derived from
\* the tree, and nothing that drops a header request leaves its gap behind.
GapsRequested == MissingParents(kernel.graph) \cap Known \subseteq Targets(kernel, "header")

\* A Complete block has the logs the block has: no answer is applied to another
\* block, and silence about a covered block is proof that it has none.
CompleteIsAuthoritative ==
  \A h \in Present(kernel.graph) :
    kernel.graph.nodes[h].level = "Complete" => kernel.graph.nodes[h].logs = LogsOf[h]

\* The snapshot holds states at the anchor, whatever reads were under way while
\* the anchor moved ("dropped wholesale rather than written at the wrong height",
\* with_finalized_pool_seeds).
SnapshotAtAnchor ==
  \A p \in DOMAIN kernel.snapshot : kernel.snapshot[p] = TrueState[kernel.graph.anchor][p]

\* The anchor climbs the canonical chain, or is replaced by the canonical block at
\* its own height once it is proved orphaned: a late probe, a fork descending below
\* finality or a lagging finality signal never moves it.
ReinitOnlyOnProof ==
  [][LET old == kernel.graph
         new == kernel'.graph
     IN new.anchor # old.anchor =>
          \/ new.anchor \in CanonicalPath(old)
          \/ /\ new.number = old.number
             /\ new.anchor \in TrueLine(CanonTip)
             /\ old.anchor \notin TrueLine(CanonTip)]_vars

\* The chain kernel is a finalized ledger.
Ledger == INSTANCE FinalizedLedger WITH anchor <- kernel.graph.anchor, snapshot <- kernel.snapshot
ImplementsLedger == Ledger!LedgerSpec

(***************************************************************************)
(* Liveness.                                                               *)
(***************************************************************************)
\* Whatever was lost, failed, timed out, retired or announced late, the anchor
\* reaches every block the finality signal names.
FinalityReached == \A t \in Finalized : <>[](t \in TrueLine(kernel.graph.anchor))

\* A tracked pool gets a state in the snapshot: the idle gate of the seed
\* scheduler, its chunks and the reads that fail for pools not born at the anchor
\* starve no pool.
PoolsSeeded == \A p \in Pool : p \in kernel.verified ~> p \in DOMAIN kernel.snapshot

\* A gap in the ancestry closes: the walk of headers down from an announced head
\* always connects ("a later header re-observation, and ultimately finalization,
\* recover it", Admission::PendingBufferFull).
GapsClose ==
  \A b \in Known : b \in MissingParents(kernel.graph) ~> b \notin MissingParents(kernel.graph)
================================================================================
