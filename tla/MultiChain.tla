------------------------------- MODULE MultiChain -------------------------------
(***************************************************************************)
(* One chain under the multi-chain kernel (client-evm/src/                 *)
(* multi_chain_kernel.rs): it bootstraps while its subscriptions are       *)
(* already on, and what they deliver is buffered; on activation the buffer *)
(* is replayed into the seeded chain kernel.  From then on the wrapper     *)
(* looks at every step of the kernel: when the canonical path has grown it *)
(* asks for the finalized header, and when the frontier of the             *)
(* optimization read has moved it hands the reserves to the optimizer.     *)
(*                                                                         *)
(* Chains meet only in that input, which is read off their kernels anew    *)
(* every time; so one chain is followed here.  Its kernel is the one of    *)
(* ChainKernel, whose finality signal, free there, is here the answer to   *)
(* the refreshes this module asks for.  Until activation `kernel` is what  *)
(* bootstrap is going to hand over.                                        *)
(***************************************************************************)
EXTENDS ChainKernel, PlanReplay

CONSTANTS
  FinalityDepth,   \* approx_finalized_block_age
  Margin,          \* *_FINALIZED_RETENTION_MARGIN
  Stride,          \* *_FINALIZED_REFRESH_RETRY_STRIDE
  FirstHeads,      \* the blocks the feed may start with
  Later,           \* the blocks that come only when all that was asked is answered
  MaxBuffered,     \* bound: deliveries buffered while bootstrapping
  Routes,          \* the trained flows, with their ends: [source, output, flows]
  Bridges,         \* the pairs of tokens passed on one to one
  Decimals,        \* of each token
  BookEntry(_, _), \* the reserves, fee and tick limits of a pool after these logs
  MinWeight,       \* the least weight a step of a plan has
  Entry            \* entry_amount, in raw units

ASSUME MultiChainAssumption ==
  /\ FinalityDepth \in Nat /\ Margin \in Nat /\ Stride \in Nat \ {0} /\ MaxBuffered \in Nat
  /\ FirstHeads \subseteq Block /\ Later \subseteq Block

\* Routes are of tokens and pools that exist, and so is the book.
RoutedFlow ==
  [stage : Nat, from : Token, to : Token, pool : {{}} \cup {{p} : p \in Pool}, weight : Nat]
PoolBook ==
  [token0 : Token, token1 : Token, reserve0 : Nat, reserve1 : Nat, fee : Nat, limit0 : Nat, limit1 : Nat]

ASSUME RouteAssumption ==
  /\ Routes \subseteq [source : Token, output : Token, flows : Seq(RoutedFlow)]
  /\ MinWeight \in Nat /\ Entry \in Nat
  /\ \A p \in Pool, logs \in SUBSET Log : BookEntry(p, logs) \in PoolBook

\* A pool enters the layout once in each direction (with_reserve_values): from a token it
\* leads to one token only.
ASSUME LayoutAssumption ==
  \A route \in Routes : \A i, j \in DOMAIN route.flows :
    LET f == route.flows[i]
        g == route.flows[j]
    IN f.from = g.from /\ f.pool \cap g.pool # {} => f.to = g.to

VARIABLES
  phase,       \* ChainLifecycle; "Dropped" when the chain is no longer in the map
  buffer,      \* the subscription data of a bootstrapping chain
  last,        \* last_optimized_block; AnchorRef for none
  input,       \* the last input handed to the optimizer: block and pool states
  refreshes,   \* finalized headers being fetched: the least height each may answer
  tip          \* the newest block the feed has announced; AnchorRef for none

lifecycle == <<kernel, faults, phase, buffer, last, input, refreshes, tip>>

(***************************************************************************)
(* The refresh of finality (finalized_refresh_policy,                      *)
(* should_fetch_finalized_header).  -1 is the length None.                 *)
(***************************************************************************)
TargetLen == FinalityDepth + Margin
PathLen(k) == DistanceFromHead(k.graph, k.graph.anchor)
Bucket(len) == (len - TargetLen) \div Stride

\* Faulty variant: asked once, when the target is passed.
ShouldFetchOnce(before, after) == after >= TargetLen /\ before < TargetLen

ShouldFetchFinalized(before, after) ==
  /\ after >= TargetLen
  /\ before < TargetLen \/ Bucket(before) < Bucket(after)

(***************************************************************************)
(* The optimizer's input.                                                  *)
(***************************************************************************)
Frontier(k) == ProjectedFrontier(k.graph, k.verified)
States(k) == ProjectedStates(k.graph, k.snapshot, k.verified)

\* projection_metadata: every pool is verified and its tokens are known.
Projectable(k) ==
  \A p \in DOMAIN States(k) : p \in k.verified /\ TokensOf[p] \subseteq k.tokens

HeadNumber(g) == IF g.head = g.anchor THEN g.number ELSE g.nodes[g.head].number

Refreshed(before, after) ==
  IF ShouldFetchFinalized(PathLen(before), PathLen(after))
  THEN refreshes \cup {HeadNumber(after.graph) - FinalityDepth} ELSE refreshes

Dispatched(after) ==
  IF DOMAIN States(after) = {} THEN input
  ELSE [at |-> Frontier(after), states |-> States(after)]

\* Faulty variant: a frontier counts as optimized although its projection waits.
RederiveUngated(before, after) ==
  /\ refreshes' = Refreshed(before, after)
  /\ last' = Frontier(after)
  /\ input' = IF Frontier(after) # last /\ Projectable(after) THEN Dispatched(after) ELSE input

\* What chain_event does around a step of the kernel that is not inert.
Rederive(before, after) ==
  /\ refreshes' = Refreshed(before, after)
  /\ IF Frontier(after) # last /\ Projectable(after)
     THEN last' = Frontier(after) /\ input' = Dispatched(after)
     ELSE UNCHANGED <<last, input>>

(***************************************************************************)
(* A finished step of the optimizer brings a plan, which is judged against *)
(* the kernel of the moment (optimization_step_completed).  The verdict is *)
(* for display: nothing reads it, so it is no variable here.               *)
(***************************************************************************)
VerifiedDecimals(t) == phase = "Active" /\ t \in kernel.tokens

\* Of the first step that fails.
BridgeFailure(steps) ==
  LET fails(step) ==
        IF step.cell.kind # "bridge" THEN ""
        ELSE IF \E t \in {step.cell.from, step.cell.to} : ~VerifiedDecimals(t) THEN "BridgeTokenUnknown"
        ELSE IF Decimals[step.cell.from] # Decimals[step.cell.to] THEN "BridgeDecimalsMismatch" ELSE ""
      first == SelectInSeq(steps, LAMBDA step : fails(step) # "")
  IN IF first = 0 THEN "" ELSE fails(steps[first])

\* The overlay before the snapshot, and only what is verified.
LosslessPools(steps) ==
  LET states == States(kernel)
      found  == {p \in SwappedPools(steps) \cap kernel.verified :
                   phase = "Active" /\ p \in DOMAIN states \cup DOMAIN kernel.snapshot}
  IN [p \in found |-> BookEntry(p, IF p \in DOMAIN states THEN states[p] ELSE kernel.snapshot[p])]

\* The plans the optimizer may emit.
PlansOf == [route \in Routes |-> BuildPlan(route.flows, Bridges, MinWeight)]

\* The verdict, and of a plan that is verified the books before and after.
VerifyPlan(route, steps) ==
  LET pools  == LosslessPools(steps)
      replay == Replay(steps, pools, route.source, Entry)
      failure ==
        IF \E t \in {route.source, route.output} : ~VerifiedDecimals(t) THEN "InitAssetUnknown"
        ELSE IF BridgeFailure(steps) # "" THEN BridgeFailure(steps) ELSE replay.failed
  IN IF failure # "" THEN [verified |-> FALSE, failure |-> failure]
     ELSE [verified |-> TRUE, output |-> Held(replay.balances, route.output), hit |-> replay.hit,
           before |-> pools, after |-> replay.book]

(***************************************************************************)
(* The feed.                                                               *)
(***************************************************************************)
HeadDelivery(c) == [kind |-> "head", claim |-> c]
LogDelivery(h, logs) == [kind |-> "logs", at |-> h, logs |-> logs]
Delivery ==
  {HeadDelivery(c) : c \in HeadClaims}
    \cup UNION {{LogDelivery(h, logs) : logs \in Batch(h)} : h \in Block}

Delivered(k, d) ==
  IF d.kind = "head" THEN WithHeadObserved(k, d.claim) ELSE WithLogsObserved(k, d.at, d.logs)

Quiet == phase = "Active" /\ kernel.pending = {} /\ refreshes = {}

\* Heads come in order, from any of FirstHeads on, a fork after the block it
\* leaves.  Bound: an older head is announced again only at the price of a fault.
Stale(c) == tip # AnchorRef /\ c.hash \in TrueLine(tip) \ {tip}
Announceable(c) ==
  /\ IF tip = AnchorRef THEN c.hash \in FirstHeads ELSE c.parent \in TrueLine(tip)
  /\ c.hash \in Later /\ c.hash # tip => Quiet

Announced(d) ==
  IF d.kind # "head" THEN UNCHANGED <<tip, faults>>
  ELSE /\ Announceable(d.claim)
       /\ tip' = IF Stale(d.claim) THEN tip ELSE d.claim.hash
       /\ IF Stale(d.claim) THEN Fault("regress") ELSE NoFault

(***************************************************************************)
(* Bootstrapping.                                                          *)
(***************************************************************************)
BufferDelivery(d) ==
  /\ phase = "Bootstrapping" /\ Len(buffer) < MaxBuffered
  /\ Announced(d)
  /\ buffer' = Append(buffer, d)
  /\ UNCHANGED <<kernel, phase, last, input, refreshes>>

\* What the kernel makes of these deliveries, one after the other.
ReplayOf(k, deliveries) ==
  LET after[n \in 0 .. Len(deliveries)] ==
        IF n = 0 THEN k ELSE Delivered(after[n - 1], deliveries[n])
  IN after[Len(deliveries)]

\* Faulty variant: the newest delivery comes first.
ReplayedReversed(k) == ReplayOf(k, Reverse(buffer))

Replayed(k) == ReplayOf(k, buffer)

\* The bootstrap is ready.  The replay drives the kernel directly: it neither asks
\* for the finalized header nor for an optimization.
Activate ==
  /\ phase = "Bootstrapping" /\ phase' = "Active"
  /\ kernel' = Replayed(kernel)
  /\ buffer' = <<>>
  /\ UNCHANGED <<faults, last, input, refreshes, tip>>

\* The bootstrap never got an anchor: the chain leaves the map, for good.
Abandon ==
  /\ phase = "Bootstrapping" /\ phase' = "Dropped"
  /\ buffer' = <<>>
  /\ UNCHANGED <<kernel, faults, last, input, refreshes, tip>>

\* An absent chain ignores everything.
IgnoreDelivery(d) ==
  /\ phase = "Dropped"
  /\ Announced(d)
  /\ UNCHANGED <<kernel, phase, buffer, last, input, refreshes>>

(***************************************************************************)
(* Active.                                                                 *)
(***************************************************************************)
LiveDelivery(d) ==
  /\ phase = "Active"
  /\ Announced(d)
  /\ kernel' = Delivered(kernel, d)
  /\ IF d.kind = "head" /\ Inert(kernel, d.claim) THEN UNCHANGED <<last, input, refreshes>>
     ELSE Rederive(kernel, kernel')
  /\ UNCHANGED <<phase, buffer>>

\* The answers, denials and failures of the chain's own requests.
ChainEvent(m) ==
  /\ phase = "Active"
  /\ Answered(m) \/ HeaderNotFound(m) \/ RequestFailed(m)
  /\ Rederive(kernel, kernel')
  /\ UNCHANGED <<phase, buffer, tip>>

\* Neither a tick nor a finality signal is looked at by the wrapper.
ChainTick ==
  /\ phase = "Active"
  /\ Tick
  /\ UNCHANGED <<phase, buffer, last, input, refreshes, tip>>

ChainAnswerLost(m) ==
  /\ phase = "Active"
  /\ AnswerLost(m)
  /\ UNCHANGED <<phase, buffer, last, input, refreshes, tip>>

\* The provider's finalized block is FinalityDepth below its tip: below what the
\* kernel saw when it asked at the least, below what the feed has announced at most.
FinalizedHeaderReceived(n, t) ==
  /\ n \in refreshes
  /\ t \in TrueLine(tip) \cap TrueLine(CanonTip)
  /\ Trunk[t].number \in n .. (Trunk[tip].number - FinalityDepth)
  /\ kernel' = WithFinalizedBlockObserved(kernel, t)
  /\ refreshes' = refreshes \ {n}
  /\ NoFault
  /\ UNCHANGED <<phase, buffer, last, input, tip>>

FinalizedHeaderUnavailable(n) ==
  /\ n \in refreshes
  /\ Fault("fail")
  /\ refreshes' = refreshes \ {n}
  /\ UNCHANGED <<kernel, phase, buffer, last, input, tip>>

LifecycleInit ==
  /\ Init
  /\ phase = "Bootstrapping" /\ buffer = <<>>
  /\ last = AnchorRef /\ input = [at |-> AnchorRef, states |-> [p \in {} |-> {}]]
  /\ refreshes = {} /\ tip = AnchorRef

LifecycleNext ==
  \/ \E d \in Delivery : BufferDelivery(d) \/ LiveDelivery(d) \/ IgnoreDelivery(d)
  \/ Activate
  \/ Abandon
  \/ \E m \in kernel.wire \cup kernel.ghosts : ChainEvent(m) \/ ChainAnswerLost(m)
  \/ ChainTick
  \/ \E n \in refreshes : FinalizedHeaderUnavailable(n) \/ \E t \in Finalized : FinalizedHeaderReceived(n, t)

LifecycleSpec == LifecycleInit /\ [][LifecycleNext]_lifecycle

(***************************************************************************)
(* Fairness, as in ChainKernel: while something useful is due, something   *)
(* useful happens again and again.  A bootstrap ends (Bootstrap); a        *)
(* refresh is answered or fails; the feed announces one block after the    *)
(* other and delivers the logs of the newest.                              *)
(***************************************************************************)
NextHeads ==
  {c \in HeadClaims :
     /\ c.hash \in TrueLine(CanonTip) /\ Announceable(c)
     /\ tip = AnchorRef \/ c.hash \notin TrueLine(tip) \/ (c.hash = tip /\ kernel.graph.head # tip)}
TipLogs ==
  {LogDelivery(tip, Streamable[b]) : b \in {x \in Block : x = tip /\ Streamable[x] \in Batch(x)}}

LifecycleDue ==
  \/ phase = "Bootstrapping"
  \/ /\ phase = "Active"
     /\ \/ \E m \in kernel.wire : Useful(m)
        \/ \E r \in kernel.pending : ~OnWire(r)
        \/ NextHeads # {}
        \/ \E d \in TipLogs : Delivered(kernel, d) # kernel
        \/ \E n \in refreshes, t \in Finalized : Trunk[t].number >= n

LifecycleProgress ==
  \/ Activate
  \/ Abandon
  \/ \E m \in kernel.wire : Useful(m) /\ Answered(m) /\ ChainEvent(m)
  \/ ChainTick
  \/ \E c \in NextHeads : LiveDelivery(HeadDelivery(c))
  \/ \E d \in TipLogs : LiveDelivery(d)
  \/ \E n \in refreshes, t \in Finalized : FinalizedHeaderReceived(n, t)

LifecycleFairness ==
  /\ WF_lifecycle(ChainTick)
  /\ []<>~LifecycleDue \/ []<><<LifecycleProgress>>_lifecycle

LiveLifecycle == LifecycleSpec /\ LifecycleFairness

(***************************************************************************)
(* Properties.                                                             *)
(***************************************************************************)
\* The state has its type; the kernel's own is KernelTypeOK.
LifecycleTypeOK ==
  /\ KernelTypeOK
  /\ phase \in {"Bootstrapping", "Active", "Dropped"}
  /\ buffer \in Seq(Delivery) /\ (phase # "Bootstrapping" => buffer = <<>>)
  /\ {last, input.at, tip} \subseteq Block \cup {AnchorRef} /\ IsSnapshot(input.states)
  /\ refreshes \subseteq Int

\* The blocks the seed window leaves pending: none when it links to the anchor.
SeedPending == Cardinality(PendingSet(SeedGraph(StartAnchor, StartNumber, SeedWindow)))

\* What the buffer may hold at the most for all of it to survive: no head that names itself
\* as parent, no logs that a block of the seed window does not have, and no more than the
\* pending area and the staging have room for.
BufferFits ==
  /\ \A c \in HeadClaims : c.hash # c.parent
  /\ \A s \in SeedWindow : Streamable[s.hash] \subseteq s.logs
  /\ SeedPending + MaxBuffered <= MaxPending
  /\ MaxBuffered <= MaxStaged + 1

\* The logs of a delivery whose place no later one for the same block takes.
Lasting(deliveries, i, n) ==
  {l \in deliveries[i].logs :
     \A j \in i + 1 .. n :
       deliveries[j].kind = "logs" /\ deliveries[j].at = deliveries[i].at
         => LogIndex[l] \notin Indexes(deliveries[j].logs)}

\* "The graph reaches the current tip from the events we already received"
\* (advance_bootstrap): after activation the kernel follows the newest head the
\* buffer holds, and for every block of the tree and every index under which it
\* holds logs of that block the newest of them is in the tree, whether it came
\* before or after its block.
BufferSurvives ==
  [][phase = "Bootstrapping" /\ phase' = "Active" =>
       \A i \in DOMAIN buffer :
         /\ buffer[i].kind = "head" /\ (\A n \in DOMAIN buffer : n > i => buffer[n].kind = "logs") =>
              kernel'.graph.head = buffer[i].claim.hash
         /\ buffer[i].kind = "logs" /\ buffer[i].at \in Present(kernel'.graph) =>
              Lasting(buffer, i, Len(buffer)) \subseteq kernel'.graph.nodes[buffer[i].at].logs]_lifecycle

\* The optimizer ends up with the reserves at the frontier, whatever kept the
\* projection waiting and although a replay dispatches nothing ("an unready chain
\* retries this block next event", chain_event).
OptimizerCatchesUp ==
  <>[](phase = "Active" /\ Projectable(kernel) =>
         input = [at |-> Frontier(kernel), states |-> States(kernel)])

\* "Stage order is the only ordering replay depends on; within a stage steps are
\* independent" (build_plan): whichever order the map yields, a plan is verified or
\* not, with the same output, flag and book, as long as no stage crosses a pool.
OrderIrrelevant ==
  \A route \in Routes :
    \A u, v \in {VerifyPlan(route, s) : s \in {t \in PlansOf[route] : ~Crossed(t)}} :
      u.verified = v.verified /\ (u.verified => u = v)

\* No route draws down a pool, crossed or not: the product of its reserves never
\* shrinks (swap).
NoPoolDrained ==
  \A route \in Routes : \A s \in PlansOf[route] :
    LET v == VerifyPlan(route, s)
    IN v.verified => \A p \in DOMAIN v.before :
         v.after[p].reserve0 * v.after[p].reserve1 >= v.before[p].reserve0 * v.before[p].reserve1

PlanJudgedFairly == OrderIrrelevant /\ NoPoolDrained

\* The canonical window does not outgrow its target for good: lost refreshes and
\* finality signals stalled by holes are made up for by those of later buckets.
WindowBounded == <>[](phase = "Active" => PathLen(kernel) \in 0 .. TargetLen)
================================================================================
