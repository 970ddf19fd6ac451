------------------------------ MODULE BlocksGraph ------------------------------
(***************************************************************************)
(* The volatile block tree of one chain (client-evm/src/kernel/            *)
(* blocks_graph.rs): recent, non-finalized blocks rooted at the finalized  *)
(* anchor, as a value and the pure operations on it.  The Rust methods     *)
(* take the graph by value and return the next one; so do the operators    *)
(* below, and every module that has such a graph in its state (VolatileTree, *)
(* ChainKernel) composes them.                                             *)
(*                                                                         *)
(* A graph is [anchor, number, nodes, head]: the anchor's hash and height, *)
(* a partial function from block hashes to nodes, and the observed head.   *)
(* A node is [kind, parent, number, bloom, level, logs].  The walks of the *)
(* code (promotion, parent chains, descendants) are least closed sets      *)
(* here, so that no operator is recursive.                                 *)
(***************************************************************************)
EXTENDS Integers, FiniteSets

CONSTANTS
  Block,      \* block hashes
  Pool,       \* tracked-pool identities (PoolRef)
  Emitter,    \* contract addresses that emit pool logs
  EmitterOf,  \* a pool's emitter: its own contract (v3) or the shared manager (v4)
  Log,        \* pool logs: one value per (block, log index) of the real chain
  LogPool,    \* the pool a log belongs to
  LogIndex,   \* its intra-block index
  Absolute,   \* the logs that carry an absolute state (Swap, Initialize)
  AnchorRef   \* the AnchoredRef::Anchor variant of a connected node's parent

ASSUME AnchorRefAssumption == AnchorRef \notin Block
\* Hashes, addresses and log positions have a fixed width.
ASSUME FiniteAssumption == IsFiniteSet(Block) /\ IsFiniteSet(Pool) /\ IsFiniteSet(Log)
ASSUME PoolDataAssumption ==
  /\ EmitterOf \in [Pool -> Emitter]
  /\ LogPool \in [Log -> Pool]
  /\ LogIndex \in [Log -> Nat]
  /\ Absolute \subseteq Log

Kind == {"Connected", "Pending"}
Level == {"Unknown", "Streamed", "Complete"}

\* A logs_bloom is read only through the question which emitters it may have seen.
\* A header-less node (logs_bloom None) cannot clear any of them.
BloomValue == SUBSET Emitter
NoBloom == Emitter

\* A block stores its logs in a map keyed by their index (key_by_log_index).
LogMap == {logs \in SUBSET Log : \A l, m \in logs : LogIndex[l] = LogIndex[m] => l = m}
Indexes(logs) == {LogIndex[l] : l \in logs}

\* BTreeMap::extend: a new log takes the place of a stored one with its index.
Extended(stored, logs) == {l \in stored : LogIndex[l] \notin Indexes(logs)} \cup logs

\* What enters the graph with a block: the number, the bloom and the logs.
BlockData == {d \in [number : Nat, bloom : BloomValue, level : Level, logs : LogMap] :
                d.level = "Unknown" => d.logs = {}}

Node == {n \in [kind : Kind, parent : Block \cup {AnchorRef}, number : Nat,
                bloom : BloomValue, level : Level, logs : LogMap] :
           n.level = "Unknown" => n.logs = {}}

IsGraph(g) ==
  \E N \in SUBSET Block :
    g \in [anchor : Block, number : Nat, head : Block, nodes : [N -> Node]]

(***************************************************************************)
(* Reading the tree.                                                       *)
(***************************************************************************)
Present(g) == DOMAIN g.nodes
ConnectedSet(g) == {h \in Present(g) : g.nodes[h].kind = "Connected"}
PendingSet(g) == {h \in Present(g) : g.nodes[h].kind = "Pending"}

\* The raw hash a node's parent reference points at.
ParentHash(g, h) ==
  IF g.nodes[h].parent = AnchorRef THEN g.anchor ELSE g.nodes[h].parent

\* The members of `within` reached from `top` by child edges: the least set
\* that holds every child (within `within`) of `top` and of its own members.
Descendants(g, within, top) ==
  {x \in within :
     \A S \in SUBSET within :
       (\A c \in within : ParentHash(g, c) \in S \cup {top} => c \in S) => x \in S}

\* The members of `within` on the parent chain from `start`, `start` included:
\* the least set that holds `start` and every parent (within `within`) of its
\* members.
Ancestors(g, within, start) ==
  {x \in within :
     \A S \in SUBSET within :
       (/\ start \in S
        /\ \A c \in S : ParentHash(g, c) \in within => ParentHash(g, c) \in S)
       => x \in S}

\* The connected chain from (but without) the anchor up to `target`; empty
\* when `target` is not connected.
ConnectedPath(g, target) ==
  IF target \in ConnectedSet(g) THEN Ancestors(g, ConnectedSet(g), target) ELSE {}

\* The canonical chain: empty until the observed head connects.
CanonicalPath(g) == ConnectedPath(g, g.head)

\* The present chain from the head toward the anchor, through connected and
\* pending nodes alike; empty when it never leaves itself (a pending cycle).
PresentChain(g) ==
  IF g.head \notin Present(g) THEN {}
  ELSE LET chain == Ancestors(g, Present(g), g.head)
       IN IF \E x \in chain : ParentHash(g, x) \notin chain THEN chain ELSE {}

\* How far below the head a block of the present chain lies (0 for the head).
DepthBelowHead(g, h) ==
  Cardinality(PresentChain(g)) - Cardinality(Ancestors(g, Present(g), h))

\* The absent parents of pending nodes: what header backfill has to fetch.
MissingParents(g) ==
  {p \in {g.nodes[h].parent : h \in PendingSet(g)} :
     p # g.anchor /\ p \notin Present(g)}

\* How many present blocks separate the head from `reference`, -1 for None.
DistanceFromHead(g, reference) ==
  LET chain == PresentChain(g)
  IN CASE reference = g.head -> 0
       [] reference # g.head /\ reference \in chain ->
            Cardinality(chain) - Cardinality(Ancestors(g, Present(g), reference))
       [] reference \notin chain /\ (\E x \in chain : ParentHash(g, x) = reference) ->
            Cardinality(chain)
       [] OTHER -> -1

(***************************************************************************)
(* Well-formed trees (KERNEL_BLOCKS_GRAPH_INVARIANTS.md, part I): what the *)
(* walks above rely on and every transition below keeps.                   *)
(***************************************************************************)
\* T4: the observed head is the anchor or a present block.
HeadKnown(g) == g.head = g.anchor \/ g.head \in Present(g)

\* T5: the anchor is not a node.
AnchorNotNode(g) == g.anchor \notin Present(g)

\* I1 and T2: the parent of a connected node is the anchor or connected.
ParentsConnected(g) ==
  \A h \in ConnectedSet(g) :
    ParentHash(g, h) = g.anchor \/ ParentHash(g, h) \in ConnectedSet(g)

\* T6: no pending node waits on the anchor or on a connected node.
PendingUnreachable(g) ==
  \A h \in PendingSet(g) :
    /\ g.nodes[h].parent # AnchorRef
    /\ g.nodes[h].parent # g.anchor
    /\ g.nodes[h].parent \notin ConnectedSet(g)

\* T3: every non-empty set of connected nodes has a member whose parent lies
\* outside it, so no walk down the parent references goes on for ever.
Grounded(g) ==
  \A S \in SUBSET ConnectedSet(g) : S # {} => \E x \in S : ParentHash(g, x) \notin S

WellFormed(g) ==
  /\ HeadKnown(g)
  /\ AnchorNotNode(g)
  /\ ParentsConnected(g)
  /\ PendingUnreachable(g)
  /\ Grounded(g)

(***************************************************************************)
(* Admission.                                                              *)
(***************************************************************************)
NewGraph(anchor, number) ==
  [anchor |-> anchor, number |-> number, head |-> anchor, nodes |-> [h \in {} |-> {}]]

MkNode(kind, parent, data) ==
  [kind |-> kind, parent |-> parent, number |-> data.number,
   bloom |-> data.bloom, level |-> data.level, logs |-> data.logs]

HeaderData(number, bloom) ==
  [number |-> number, bloom |-> bloom, level |-> "Unknown", logs |-> {}]
SeedData(number, logs) ==
  [number |-> number, bloom |-> NoBloom, level |-> "Complete", logs |-> logs]

WithNode(nodes, h, node) ==
  [x \in DOMAIN nodes \cup {h} |-> IF x = h THEN node ELSE nodes[x]]

\* Whether a block with this parent lands connected.
Connects(g, parent) == parent = g.anchor \/ parent \in ConnectedSet(g)

\* B1: the staging area is full.  Faulty variant: tested one too late.
PendingOverfull(g, maxPending) == Cardinality(PendingSet(g)) > maxPending
PendingFull(g, maxPending) == Cardinality(PendingSet(g)) >= maxPending

\* The outcome of an admission, in the order the code decides it.
AdmissionOf(g, hash, parent, maxPending) ==
  CASE hash = parent -> "SelfParent"
    [] hash # parent /\ hash = g.anchor -> "AnchorReadmit"
    [] hash # parent /\ hash # g.anchor /\ hash \in Present(g) ->
         IF ParentHash(g, hash) = parent THEN "DuplicateBlock" ELSE "ConflictingParent"
    [] OTHER ->
         IF ~Connects(g, parent) /\ PendingFull(g, maxPending)
         THEN "PendingBufferFull" ELSE "Admitted"

\* The pending nodes that connect with `hash`: all it reaches.  Faulty variant:
\* its direct children only.
PromotedChildren(g, hash) == {c \in PendingSet(g) : g.nodes[c].parent = hash}
PromotedBy(g, hash) == Descendants(g, PendingSet(g), hash)

\* A promoted node's raw parent is re-typed, its data untouched.
PromoteReachable(g, hash) ==
  LET promoted == PromotedBy(g, hash)
  IN [g EXCEPT !.nodes =
        [h \in DOMAIN @ |-> IF h \in promoted THEN [@[h] EXCEPT !.kind = "Connected"]
                            ELSE @[h]]]

InsertConnected(g, hash, parent, data) ==
  LET ref == IF parent = g.anchor THEN AnchorRef ELSE parent
  IN PromoteReachable(
       [g EXCEPT !.nodes = WithNode(@, hash, MkNode("Connected", ref, data))], hash)

InsertPending(g, hash, parent, data) ==
  [g EXCEPT !.nodes = WithNode(@, hash, MkNode("Pending", parent, data))]

WithDataCapped(g, hash, parent, data, maxPending) ==
  IF AdmissionOf(g, hash, parent, maxPending) # "Admitted" THEN g
  ELSE IF Connects(g, parent) THEN InsertConnected(g, hash, parent, data)
       ELSE InsertPending(g, hash, parent, data)

WithBlockCapped(g, hash, parent, number, bloom, maxPending) ==
  WithDataCapped(g, hash, parent, HeaderData(number, bloom), maxPending)

\* The head moves only to the anchor or to a present block.  Faulty variant: to
\* whatever is announced, refused or not.
WithObservedHeadAny(g, h) == [g EXCEPT !.head = h]
WithObservedHead(g, h) ==
  IF h = g.anchor \/ h \in Present(g) THEN [g EXCEPT !.head = h] ELSE g

(***************************************************************************)
(* Logs: the ladder Unknown -> Streamed -> Complete.                       *)
(***************************************************************************)
\* Faulty variant: the fragment is stored, the block still counts as unknown.
WithStreamedLogsUnmarked(g, h, logs) ==
  IF h \notin Present(g) \/ g.nodes[h].level = "Complete" THEN g
  ELSE [g EXCEPT !.nodes[h].logs = Extended(@, logs)]

\* Faulty variant: a late stream delivery demotes an authoritative block.
WithStreamedLogsDemoting(g, h, logs) ==
  IF h \notin Present(g) THEN g
  ELSE [g EXCEPT !.nodes[h].level = "Streamed", !.nodes[h].logs = Extended(@, logs)]

WithStreamedLogs(g, h, logs) ==
  IF h \notin Present(g) \/ g.nodes[h].level = "Complete" THEN g
  ELSE [g EXCEPT !.nodes[h].level = "Streamed", !.nodes[h].logs = Extended(@, logs)]

\* Faulty variant: the authoritative set is merged into the streamed one, not put in its place.
WithCompleteLogsMerged(g, h, logs) ==
  IF h \notin Present(g) THEN g
  ELSE [g EXCEPT !.nodes[h].level = "Complete", !.nodes[h].logs = Extended(@, logs)]

WithCompleteLogs(g, h, logs) ==
  IF h \notin Present(g) THEN g
  ELSE [g EXCEPT !.nodes[h].level = "Complete", !.nodes[h].logs = logs]

\* The WS-miss measurement made against the set about to be replaced.
StreamedLogMismatch(g, h, logs) ==
  /\ h \in Present(g)
  /\ g.nodes[h].level = "Streamed"
  /\ Indexes(g.nodes[h].logs) # Indexes(logs)

(***************************************************************************)
(* Which blocks matter to the tracked pools.                               *)
(***************************************************************************)
WatchedAddresses(verified) == {EmitterOf[p] : p \in verified}

\* With nothing watched no block is ever needed, whatever its bloom.
BloomMayTouch(bloom, watched) == bloom \cap watched # {}

\* "RequireComplete" reads authoritative logs only, "AllowStreamed" also the
\* best-effort ones.
Readable(g, h, authority) ==
  \/ g.nodes[h].level = "Complete"
  \/ g.nodes[h].level = "Streamed" /\ authority = "AllowStreamed"

Blocker(g, h, watched, authority) ==
  ~Readable(g, h, authority) /\ BloomMayTouch(g.nodes[h].bloom, watched)

\* Tip-side holes: blocks nothing was streamed for, deep enough below the head.
UnknownLogHoles(g, trusted, exclude, minDepth) ==
  {h \in PresentChain(g) :
     /\ DepthBelowHead(g, h) >= minDepth
     /\ g.nodes[h].level = "Unknown"
     /\ h \notin exclude
     /\ BloomMayTouch(g.nodes[h].bloom, trusted)}

\* Faulty variant: the side-fork half of the guard is missing.
CanonicalTargetAnyFork(g, target) == target \in ConnectedSet(g)

\* A finalization target must be connected and on the canonical chain.
CanonicalTarget(g, target) == target \in CanonicalPath(g)

\* The holes the authoritative backfill has to fill before `target` is final.
\* The code groups them into runs of adjacent numbers; a run is fetched, covered
\* and answered as one request.
MissingCompleteHoles(g, target, verified, excludeNumbers) ==
  IF ~CanonicalTarget(g, target) THEN {}
  ELSE {h \in ConnectedPath(g, target) :
          /\ g.nodes[h].level # "Complete"
          /\ BloomMayTouch(g.nodes[h].bloom, WatchedAddresses(verified))
          /\ g.nodes[h].number \notin excludeNumbers}

\* The runs: maximal sets of holes whose numbers are adjacent.
MissingCompleteRanges(g, target, verified, excludeNumbers) ==
  LET holes == MissingCompleteHoles(g, target, verified, excludeNumbers)
      nums  == {g.nodes[h].number : h \in holes}
      run(n) == {m \in nums : (n .. m) \cup (m .. n) \subseteq nums}
  IN {{h \in holes : g.nodes[h].number \in run(n)} : n \in nums}

(***************************************************************************)
(* Folding logs into pool states.  A pool state is the set of logs it      *)
(* reflects since (and with) the last absolute one; {} is the state the    *)
(* pool had at the origin of the model; a pool without a state is absent.  *)
(***************************************************************************)
IsSnapshot(s) == \E P \in SUBSET Pool : s \in [P -> SUBSET Log]

\* The readable logs of pool p on the path to `target`, each with its block.
PathRun(g, target, authority, p) ==
  {e \in ConnectedPath(g, target) \X Log :
     Readable(g, e[1], authority) /\ e[2] \in g.nodes[e[1]].logs /\ LogPool[e[2]] = p}

\* Fold order: block order on the path, then the intra-block index.
Earlier(g, d, e) ==
  \/ d[1] # e[1] /\ d[1] \in ConnectedPath(g, e[1])
  \/ d[1] = e[1] /\ LogIndex[d[2]] < LogIndex[e[2]]

AbsoluteIn(run) == {e \in run : e[2] \in Absolute}

\* An absolute event sets the state outright, a delta adjusts the running one.
DeriveFrom(g, base, run) ==
  IF AbsoluteIn(run) = {} THEN base \cup {e[2] : e \in run}
  ELSE LET last == CHOOSE e \in AbsoluteIn(run) : \A d \in AbsoluteIn(run) \ {e} : Earlier(g, d, e)
       IN {e[2] : e \in {d \in run : ~Earlier(g, d, last)}}

\* Verified pools without a base are seeded by a run with an absolute event.
SelfSeeded(g, base, verified, target, authority) ==
  {p \in verified \ DOMAIN base : AbsoluteIn(PathRun(g, target, authority, p)) # {}}

FoldedPoolStates(g, base, verified, target, authority) ==
  [p \in DOMAIN base \cup SelfSeeded(g, base, verified, target, authority) |->
     DeriveFrom(g, IF p \in DOMAIN base THEN base[p] ELSE {},
                PathRun(g, target, authority, p))]

\* The blocks of the path that can be reached by folding: nothing up to and
\* including them blocks.  Faulty variant: only the block itself is looked at.
UnblockedBlocks(g, target, watched, authority) ==
  {x \in ConnectedPath(g, target) : ~Blocker(g, x, watched, authority)}
FoldablePart(g, target, watched, authority) ==
  {x \in ConnectedPath(g, target) :
     \A y \in ConnectedPath(g, x) : ~Blocker(g, y, watched, authority)}

\* The last foldable block; the anchor when the first block already blocks.
FoldableFrontier(g, target, watched, authority) ==
  LET part == FoldablePart(g, target, watched, authority)
      last == {x \in part : part \subseteq ConnectedPath(g, x)}
  IN IF last = {} THEN g.anchor ELSE CHOOSE x \in last : TRUE

\* The optimization read: frontier and the full states valid at it.
ProjectedFrontier(g, verified) ==
  IF g.head \notin ConnectedSet(g) THEN g.anchor
  ELSE FoldableFrontier(g, g.head, WatchedAddresses(verified), "AllowStreamed")

ProjectedStates(g, base, verified) ==
  FoldedPoolStates(g, base, verified, ProjectedFrontier(g, verified), "AllowStreamed")

(***************************************************************************)
(* Finalization.                                                           *)
(***************************************************************************)
\* What survives a re-root.  Faulty variant: every node but the new anchor.
SurvivorsUnpruned(g, newAnchor) == Present(g) \ {newAnchor}
Survivors(g, newAnchor) == Descendants(g, ConnectedSet(g) \ {newAnchor}, newAnchor)

\* A direct child of the new anchor refers to the root from now on.
Reclassified(node, newAnchor) ==
  IF node.parent = newAnchor THEN [node EXCEPT !.parent = AnchorRef] ELSE node

ReanchoredTo(g, newAnchor) ==
  IF newAnchor = g.anchor \/ newAnchor \notin ConnectedSet(g) THEN g
  ELSE LET kept == Survivors(g, newAnchor)
       IN [anchor |-> newAnchor,
           number |-> g.nodes[newAnchor].number,
           head   |-> IF g.head = newAnchor \/ g.head \in kept THEN g.head ELSE newAnchor,
           nodes  |-> [h \in kept |-> Reclassified(g.nodes[h], newAnchor)]]

\* Where finalization toward `target` may stop: the anchor itself when the
\* target is absent, pending or off the canonical chain.
FinalizationPoint(g, target, verified) ==
  IF ~CanonicalTarget(g, target) THEN g.anchor
  ELSE FoldableFrontier(g, target, WatchedAddresses(verified), "RequireComplete")

FinalizedTo(g, target, verified) == ReanchoredTo(g, FinalizationPoint(g, target, verified))

FinalizedStates(g, target, base, verified) ==
  LET point == FinalizationPoint(g, target, verified)
  IN IF point = g.anchor THEN base
     ELSE FoldedPoolStates(g, base, verified, point, "RequireComplete")
================================================================================
