------------------------------- MODULE Bootstrap -------------------------------
(***************************************************************************)
(* The bootstrap of one chain (client-evm/src/bootstrap): it anchors the   *)
(* chain at a finalized block, scans the blocks from there to the tip for  *)
(* pool logs window by window, validates the pools they name, resolves     *)
(* their tokens, and hands over a seed window for the block tree.  A       *)
(* deadline ends it with what it has.                                      *)
(*                                                                         *)
(* While it scans, the chain grows and reorganizes, and each request may   *)
(* be served by a provider that lags or follows a fork.  Providers agree   *)
(* on everything Drift or more blocks below the tip.                       *)
(*                                                                         *)
(* The state is one record: `pending` is what bootstrap remembers of its   *)
(* requests, `wire` the requests whose answer may still come.  An id is    *)
(* the least one nothing outstanding carries; only equality matters.       *)
(***************************************************************************)
EXTENDS Naturals, Sequences, FiniteSets, FiniteSetsExt

CONSTANTS
  Block, Root,     \* block hashes, and the first of them
  Parent, Number,  \* functions on blocks: the header of each
  Pool, PoolsOf,   \* pools, and those the logs of a block name
  ValidPools,      \* the pools whose metadata validates
  CachedPools,     \* the pools of the metadata cache, which join the candidates
  FirstTip,        \* the tip when bootstrap starts
  Drift,           \* how far below the tip providers may disagree
  TipTrim,         \* tip_trim
  Deadline,        \* deadline_ticks
  RequestTTL,      \* REQUEST_TTL
  Chunk            \* pool_candidate_block_range_chunk

\* Hashes have a fixed width, and a filler collides with no block (filler_hash).
ASSUME HashAssumption == IsFiniteSet(Block) /\ Block \cap (Block \X Block) = {}
ASSUME BootstrapAssumption ==
  /\ Root \in Block /\ FirstTip \in Block
  /\ Parent \in [Block \ {Root} -> Block] /\ Number \in [Block -> Nat]
  /\ \A b \in Block \ {Root} : Number[b] = Number[Parent[b]] + 1
  /\ PoolsOf \in [Block -> SUBSET Pool] /\ ValidPools \subseteq Pool /\ CachedPools \subseteq Pool
  /\ {Drift, TipTrim, Deadline} \subseteq Nat /\ Drift <= TipTrim
  /\ {RequestTTL, Chunk} \subseteq Nat \ {0}

VARIABLES
  boot,   \* the state of bootstrap and its outstanding requests
  tip     \* the tip of the chain

vars == <<boot, tip>>

(***************************************************************************)
(* The chain and its providers.                                            *)
(***************************************************************************)
\* A block and its ancestors.
Line ==
  [b \in Block |-> {x \in Block : \A S \in SUBSET Block :
     (b \in S /\ \A c \in S \ {Root} : Parent[c] \in S) => x \in S}]

\* What can no longer be reorganized away when t is the tip.
Settled(t) == {b \in Line[t] : Number[b] + Drift <= Number[t]}

\* The heads a provider may be at.
Views(t) == {v \in Block : Settled(t) \subseteq Line[v] /\ Number[v] <= Number[t]}

\* The chain grows, or switches to another fork.
ChainMoves ==
  /\ \E t \in Block \ {tip} :
       /\ Settled(tip) \subseteq Line[t] /\ Number[t] >= Number[tip]
       /\ tip' = t
  /\ UNCHANGED boot

(***************************************************************************)
(* The seed window (GraphSeed::from_window).                               *)
(***************************************************************************)
Entry(hash, parent, number, logs) == [hash |-> hash, parent |-> parent, number |-> number, logs |-> logs]

\* filler_hash: one hash for each pair of blocks it bridges, and no block's.
Filler(lower, upper) == <<lower, upper>>

\* What was scanned is a sequence of answers, each a set of blocks of one line.
Listed(window) == UNION {window[i] : i \in DOMAIN window}
Heights(blocks) == {Number[b] : b \in blocks}

\* Of the blocks scanned at a height the first one counts.
FirstAt(window, n) ==
  LET i == Min({j \in DOMAIN window : n \in Heights(window[j])})
  IN CHOOSE b \in window[i] : Number[b] = n

Recent(window, anchor) == {n \in Heights(Listed(window)) : n > Number[anchor]}

\* Faulty variant: the blocks near the tip stay in.
RetainedUntrimmed(window, anchor) == Recent(window, anchor)

\* The heights that stay: all but those within TipTrim of the highest block scanned.
Retained(window, anchor) ==
  {n \in Recent(window, anchor) : n + TipTrim <= Max(Recent(window, anchor))}

\* The block the one at height n is linked to: the next lower one that stays.
Below(window, anchor, n) ==
  LET lower == {m \in Retained(window, anchor) : m < n}
  IN IF lower = {} THEN anchor ELSE FirstAt(window, Max(lower))

\* Faulty variant: the block above a gap names a filler that is not there.
FromWindowUnbridged(window, anchor) ==
  {LET b     == FirstAt(window, n)
       lower == Below(window, anchor, n)
   IN Entry(b, IF n = Number[lower] + 1 THEN lower ELSE Filler(lower, b), n, PoolsOf[b]) :
     n \in Retained(window, anchor)}

\* Adjacent blocks are linked directly, a stretch without logs is bridged by one
\* filler.
FromWindow(window, anchor) ==
  UNION {LET b     == FirstAt(window, n)
             lower == Below(window, anchor, n)
             gap   == Filler(lower, b)
         IN IF n = Number[lower] + 1 THEN {Entry(b, lower, n, PoolsOf[b])}
            ELSE {Entry(gap, lower, n - 1, {}), Entry(b, gap, n, PoolsOf[b])} :
           n \in Retained(window, anchor)}

(***************************************************************************)
(* Requests: [id, kind, from, tip, items], where `from` and `tip` bound a  *)
(* scan (tip = {} while no tip is frozen) and `items` are candidates.      *)
(***************************************************************************)
Ask(kind, from, ceiling, items) == [kind |-> kind, from |-> from, tip |-> ceiling, items |-> items]

FreshId(b) ==
  Min((1 .. Cardinality(b.pending \cup b.wire) + 1) \ {r.id : r \in b.pending \cup b.wire})

\* The request goes out; its answer is not known yet.
Issue(b, payload) ==
  LET id == FreshId(b)
  IN [b EXCEPT !.pending = @ \cup {[id |-> id, payload |-> payload, age |-> 0]},
               !.wire    = @ \cup {[id |-> id, payload |-> payload, found |-> {}]}]

Matching(b, m) == {r \in b.pending : r.id = m.id /\ r.payload.kind = m.payload.kind}
Taken(b, m) == [b EXCEPT !.wire = @ \ {m}, !.pending = @ \ Matching(b, m)]

\* retry: forgotten and sent again under a new id.
Retry(b, r) == Issue([b EXCEPT !.pending = @ \ {r}], r.payload)

Init ==
  /\ boot = Issue([stage |-> "AnchoringChain", anchor |-> Root, blocks |-> <<>>, seed |-> {},
                   verified |-> {}, pending |-> {}, wire |-> {}, elapsed |-> 0],
                  Ask("finalized", 0, {}, {}))
  /\ tip = FirstTip

(***************************************************************************)
(* The executor (fetch_pool_candidates_window): first the number of the    *)
(* tip, if none is frozen yet, then the logs of one window; each from a    *)
(* provider of its own.                                                    *)
(***************************************************************************)
Update(m, n) == boot' = [boot EXCEPT !.wire = (@ \ {m}) \cup {n}] /\ UNCHANGED tip

ResolveTip(m) ==
  /\ m.payload.kind = "candidates" /\ m.payload.tip = {}
  /\ \E v \in Views(tip) : Update(m, [m EXCEPT !.payload.tip = {Number[v]}])

Ceiling(m) == CHOOSE n \in m.payload.tip : TRUE
WindowEnd(m) == Min({m.payload.from + Chunk - 1, Ceiling(m)})

\* eth_getLogs: the blocks of the window that have pool logs, one at a height.
Logged(v, from, to) == {b \in Line[v] : Number[b] \in from .. to /\ PoolsOf[b] # {}}

ServeWindow(m) ==
  /\ m.payload.kind = "candidates" /\ m.payload.tip # {} /\ m.found = {}
  /\ \E v \in Views(tip) :
       Update(m, [m EXCEPT !.found = {Logged(v, m.payload.from, WindowEnd(m))}])

(***************************************************************************)
(* Events.  An answer whose request is no longer pending, or that comes in *)
(* another phase, changes nothing.                                         *)
(***************************************************************************)
Terminal(b) == b.stage \in {"Ready", "Abandoned"}

\* Faulty variant: any answer of the kind the phase waits for will do.
ExpectedOfAnyAge(m, kind, stage) == m.payload.kind = kind /\ boot.stage = stage

Expected(m, kind, stage) == m.payload.kind = kind /\ boot.stage = stage /\ Matching(boot, m) # {}

\* The anchor is any block settled by now.
FinalizedHeaderReceived(m) ==
  /\ Expected(m, "finalized", "AnchoringChain")
  /\ \E a \in Settled(tip) :
       boot' = Issue([Taken(boot, m) EXCEPT !.stage = "Discovering", !.anchor = a],
                     Ask("candidates", Number[a], {}, {}))
  /\ UNCHANGED tip

Served(m) == m.payload.kind = "candidates" /\ m.found # {}
Scanned(m) == Append(boot.blocks, CHOOSE w \in m.found : TRUE)
BelowTip(m) == WindowEnd(m) < Ceiling(m)

\* Page on, to the tip frozen by the first window.
NextWindow(m) == Ask("candidates", WindowEnd(m) + 1, m.payload.tip, {})

WindowReceived(m) ==
  /\ Expected(m, "candidates", "Discovering") /\ Served(m) /\ BelowTip(m)
  /\ boot' = Issue([Taken(boot, m) EXCEPT !.blocks = Scanned(m)], NextWindow(m))
  /\ UNCHANGED tip

LastWindowReceived(m) ==
  /\ Expected(m, "candidates", "Discovering") /\ Served(m) /\ ~BelowTip(m)
  /\ boot' = Issue([Taken(boot, m) EXCEPT !.stage = "ValidatingPools", !.blocks = <<>>,
                                          !.seed = FromWindow(Scanned(m), boot.anchor)],
                   Ask("pools", 0, {}, UNION {PoolsOf[b] : b \in Listed(Scanned(m))}))
  /\ UNCHANGED tip

PoolMetadataReceived(m) ==
  /\ Expected(m, "pools", "ValidatingPools")
  /\ boot' = Issue([Taken(boot, m) EXCEPT !.stage = "ResolvingTokens",
                                          !.verified = (m.payload.items \cup CachedPools) \cap ValidPools],
                   Ask("tokens", 0, {}, {}))
  /\ UNCHANGED tip

TokenMetadataReceived(m) ==
  /\ Expected(m, "tokens", "ResolvingTokens")
  /\ boot' = [Taken(boot, m) EXCEPT !.stage = "Ready"]
  /\ UNCHANGED tip

LateAnswer(m) ==
  /\ Matching(boot, m) = {}
  /\ m.payload.kind = "candidates" => Served(m)
  /\ boot' = Taken(boot, m)
  /\ UNCHANGED tip

RequestFailed(m) ==
  /\ m.found = {}
  /\ boot' = (IF Matching(boot, m) = {} THEN Taken(boot, m)
              ELSE Retry([boot EXCEPT !.wire = @ \ {m}], CHOOSE r \in Matching(boot, m) : TRUE))
  /\ UNCHANGED tip

\* An answer that never comes.
AnswerLost(m) ==
  /\ boot' = [boot EXCEPT !.wire = @ \ {m}]
  /\ UNCHANGED tip

\* Faulty variant: without an anchor, start over.
DegradedStartingOver(b) ==
  IF b.stage = "AnchoringChain"
  THEN Issue([b EXCEPT !.pending = {}, !.wire = {}, !.elapsed = 0], Ask("finalized", 0, {}, {}))
  ELSE [b EXCEPT !.stage = "Ready"]

\* degraded: the deadline ends bootstrap with the facts of its phase.
Degraded(b) ==
  CASE b.stage = "AnchoringChain" -> [b EXCEPT !.stage = "Abandoned"]
    [] b.stage = "Discovering"    -> [b EXCEPT !.stage = "Ready", !.blocks = <<>>,
                                               !.seed = FromWindow(b.blocks, b.anchor)]
    [] OTHER                      -> [b EXCEPT !.stage = "Ready"]

Aged(b) == [b EXCEPT !.elapsed = @ + 1, !.pending = {[r EXCEPT !.age = @ + 1] : r \in @}]

\* retry_expired; no more than one request is ever pending.
RetryExpired(b) ==
  LET expired == {r \in b.pending : r.age >= RequestTTL}
  IN IF expired = {} THEN b ELSE Retry(b, CHOOSE r \in expired : TRUE)

Tick ==
  /\ boot' = (IF Aged(boot).elapsed >= Deadline THEN Degraded(Aged(boot)) ELSE RetryExpired(Aged(boot)))
  /\ UNCHANGED tip

Handled(m) ==
  \/ ResolveTip(m)
  \/ ServeWindow(m)
  \/ FinalizedHeaderReceived(m)
  \/ WindowReceived(m)
  \/ LastWindowReceived(m)
  \/ PoolMetadataReceived(m)
  \/ TokenMetadataReceived(m)
  \/ LateAnswer(m)

\* A terminal bootstrap is not driven any more.
Next ==
  \/ ChainMoves
  \/ ~Terminal(boot) /\ Tick
  \/ ~Terminal(boot) /\ \E m \in boot.wire : Handled(m) \/ RequestFailed(m) \/ AnswerLost(m)

Spec == Init /\ [][Next]_vars

\* The runtime ticks for ever.
LiveSpec == Spec /\ WF_vars(~Terminal(boot) /\ Tick)

(***************************************************************************)
(* Safety.                                                                 *)
(***************************************************************************)
Stages == {"AnchoringChain", "Discovering", "ValidatingPools", "ResolvingTokens", "Ready", "Abandoned"}
Awaited == [AnchoringChain |-> "finalized", Discovering |-> "candidates",
            ValidatingPools |-> "pools", ResolvingTokens |-> "tokens"]

\* The state has its type.
TypeOK ==
  /\ boot.stage \in Stages /\ boot.anchor \in Block /\ boot.blocks \in Seq(SUBSET Block)
  /\ \A s \in boot.seed :
       s.hash \in Block \cup Block \X Block /\ s.number \in Nat /\ s.logs \subseteq Pool
  /\ boot.verified \subseteq ValidPools
  /\ \A r \in boot.pending : r.id \in Nat \ {0} /\ r.age \in 0 .. RequestTTL
  /\ boot.elapsed \in 0 .. Deadline
  /\ tip \in Block

RealIn(seed) == {s \in seed : s.hash \in Block}
TopOf(seed) == Max({Number[s.hash] : s \in RealIn(seed)})

\* Whatever fork or lagging head each window was served from, and whatever the
\* chain does afterwards, the seed window holds the chain: its blocks stay
\* canonical, and up to its top no block with logs is missing.  The tree takes the
\* window for Complete, so a wrong block in it is never corrected and a missing
\* one never fetched.
SeedIsTrue ==
  boot.seed # {} =>
    /\ \A s \in RealIn(boot.seed) : s.hash \in Settled(tip)
    /\ \A b \in Line[tip] :
         Number[boot.anchor] < Number[b] /\ Number[b] <= TopOf(boot.seed) /\ PoolsOf[b] # {}
           => b \in {s.hash : s \in boot.seed}

\* Every retained block "therefore links down to the anchor" (from_window): walking
\* the parents named, heights fall strictly, and the walk ends at the anchor.
SeedLinksToAnchor ==
  \A s \in boot.seed :
    \/ s.parent = boot.anchor /\ Number[boot.anchor] < s.number
    \/ \E u \in boot.seed : u.hash = s.parent /\ u.number < s.number

\* "Bootstrap is sequential" (pending_requests.rs): whatever failed, expired or
\* was answered twice, a bootstrap that goes on waits for exactly one answer, of
\* the kind its phase needs; so it neither stalls nor runs two scans.
AwaitsItsAnswer ==
  ~Terminal(boot) =>
    \E r \in boot.pending : boot.pending = {r} /\ r.payload.kind = Awaited[boot.stage]

(***************************************************************************)
(* Liveness.                                                               *)
(***************************************************************************)
\* Bootstrap ends, whatever its requests come to: the chain is activated or
\* dropped.
BootstrapEnds == <>Terminal(boot)
================================================================================
