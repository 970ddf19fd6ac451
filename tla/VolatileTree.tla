----------------------------- MODULE VolatileTree ------------------------------
(***************************************************************************)
(* The block tree driven through its public transitions in any order: the  *)
(* machine the kernel composes its handlers from, without the scheduling   *)
(* that decides which header or log is fetched when.  Blocks are admitted  *)
(* from headers, heads are observed, logs are streamed in fragments and    *)
(* later replaced by authoritative ones, pools become tracked and are      *)
(* seeded at the anchor, and finalization re-roots the tree.               *)
(*                                                                         *)
(* A header the node is told of is one of HeaderClaims, which may          *)
(* contradict the real chain.                                              *)
(***************************************************************************)
EXTENDS RealChain

CONSTANT HeaderClaims   \* the headers providers may deliver, true or not

ASSUME ClaimsAssumption == HeaderClaims \subseteq Header

VARIABLES
  graph,       \* the tree (BlocksGraph)
  snapshot,    \* finalized_snapshot: pool states at the anchor
  verified,    \* the tracked pools (pool_registry.verified)
  seeds        \* what is left of the seed window; live events wait for its end

vars == <<graph, snapshot, verified, seeds>>

(***************************************************************************)
(* Transitions.                                                            *)
(***************************************************************************)
Init ==
  /\ graph = NewGraph(StartAnchor, StartNumber)
  /\ snapshot = [p \in BasePools |-> TrueState[StartAnchor][p]]
  /\ verified = BasePools
  /\ seeds = SeedWindow

Live == seeds = {}

\* from_seed: the blocks of the seed window enter oldest first and header-less,
\* with their authoritative logs.
AdmitSeed(s) ==
  /\ s \in seeds
  /\ \A other \in seeds : s.number <= other.number
  /\ graph' = WithDataCapped(graph, s.hash, s.parent, SeedData(s.number, s.logs), SeedCap)
  /\ seeds' = seeds \ {s}
  /\ UNCHANGED <<snapshot, verified>>

AdmitHeader(c) ==
  /\ Live
  /\ graph' = WithBlockCapped(graph, c.hash, c.parent, c.number, c.bloom, MaxPending)
  /\ UNCHANGED <<snapshot, verified, seeds>>

ObserveHead(h) ==
  /\ Live
  /\ graph' = WithObservedHead(graph, h)
  /\ UNCHANGED <<snapshot, verified, seeds>>

\* A stream delivery: any fragment of the block's logs, and logs the block does
\* not have when the feed mistags them; those displace logs of the same index.
StreamLogs(h, logs) ==
  /\ Live
  /\ graph' = WithStreamedLogs(graph, h, logs)
  /\ UNCHANGED <<snapshot, verified, seeds>>

\* An authoritative answer: all logs of the block.
CompleteLogs(h) ==
  /\ Live
  /\ graph' = WithCompleteLogs(graph, h, LogsOf[h])
  /\ UNCHANGED <<snapshot, verified, seeds>>

\* Metadata validation tracks one more pool.
VerifyPool(p) ==
  /\ Live
  /\ verified' = verified \cup {p}
  /\ UNCHANGED <<graph, snapshot, seeds>>

\* An anchor-height seed: the state read at the anchor, dropped when the anchor
\* has moved since the read was requested.
SeedPool(p, at) ==
  /\ Live
  /\ p \in verified \ DOMAIN snapshot
  /\ snapshot' = IF at # graph.anchor THEN snapshot
                 ELSE [q \in DOMAIN snapshot \cup {p} |->
                         IF q = p THEN TrueState[at][p] ELSE snapshot[q]]
  /\ UNCHANGED <<graph, verified, seeds>>

Finalize(target) ==
  /\ Live
  /\ graph' = FinalizedTo(graph, target, verified)
  /\ snapshot' = FinalizedStates(graph, target, snapshot, verified)
  /\ UNCHANGED <<verified, seeds>>

Next ==
  \/ \E s \in SeedWindow : AdmitSeed(s)
  \/ \E c \in HeaderClaims : AdmitHeader(c)
  \/ \E h \in Served : ObserveHead(h)
  \/ \E h \in Served : \E logs \in Batch(h) : StreamLogs(h, logs)
  \/ \E h \in Served : CompleteLogs(h)
  \/ \E p \in Pool : VerifyPool(p)
  \/ \E p \in Pool, at \in Block : SeedPool(p, at)
  \/ \E target \in Served : Finalize(target)

Spec == Init /\ [][Next]_vars

\* The headers told are the true ones, and no filler is anyone's parent.
HonestProviders ==
  /\ HonestChain
  /\ \A c \in HeaderClaims : c \in {HeaderOf(b) : b \in Known} /\ c.parent \notin Fillers

(***************************************************************************)
(* Invariants.                                                             *)
(***************************************************************************)

\* The state has its type.
TypeOK ==
  /\ IsGraph(graph)
  /\ IsSnapshot(snapshot)
  /\ verified \subseteq Pool
  /\ seeds \subseteq SeedWindow

\* T2 to T6 of the tree, whatever headers claim and in whatever order they come.
TreeInv == WellFormed(graph)

\* T2 and T6 read together: a present block is connected exactly when its parent
\* chain through present blocks reaches the anchor, whatever the order in which
\* headers arrived and whatever they claimed.
ConnectedIffReachesAnchor ==
  \A h \in Present(graph) :
    h \in ConnectedSet(graph) <=>
      \E x \in Ancestors(graph, Present(graph), h) : ParentHash(graph, x) = graph.anchor

\* B1: the staging area never outgrows its caps.  The seed window has one of its
\* own, which on some chains exceeds the live one; live admission never adds to it.
PendingBounded == Cardinality(PendingSet(graph)) <= PendingCap

\* The optimization read is right at the block it names: when every streamed
\* block below the projected frontier was streamed in full, the states read are
\* the real ones at that block.
ProjectionExact ==
  LET f == ProjectedFrontier(graph, verified)
  IN (\A h \in ConnectedPath(graph, f) :
        graph.nodes[h].level = "Streamed" => graph.nodes[h].logs = LogsOf[h])
     => \A p \in DOMAIN ProjectedStates(graph, snapshot, verified) :
          ProjectedStates(graph, snapshot, verified)[p] = TrueState[f][p]

(***************************************************************************)
(* Action properties.                                                      *)
(***************************************************************************)
\* L5: while a block stays in the tree its logs only climb the ladder: a Complete
\* block keeps its logs, a Streamed one never falls back to Unknown and another
\* stream delivery leaves none of its log indexes empty, though it may put another
\* log in the place of one.
LogLadder ==
  [][\A h \in Present(graph) \cap Present(graph') :
       LET old == graph.nodes[h]
           new == graph'.nodes[h]
       IN /\ old.level = "Complete" => new.level = "Complete" /\ new.logs = old.logs
          /\ old.level = "Streamed" =>
               /\ new.level # "Unknown"
               /\ new.level = "Streamed" => Indexes(old.logs) \subseteq Indexes(new.logs)]_vars

\* A4 and A2: the anchor only moves along the canonical chain, and only across
\* blocks whose logs are authoritative or whose bloom clears every tracked pool.
FinalizationGate ==
  [][graph'.anchor # graph.anchor =>
       /\ graph'.anchor \in CanonicalPath(graph)
       /\ \A h \in ConnectedPath(graph, graph'.anchor) :
            graph.nodes[h].level = "Complete"
            \/ ~BloomMayTouch(graph.nodes[h].bloom, WatchedAddresses(verified))]_vars

\* A3: a re-root removes exactly what does not descend from the new anchor; the
\* head and the canonical chain above the new anchor survive it untouched.
ReanchorKeepsCanonical ==
  [][graph'.anchor # graph.anchor =>
       /\ graph'.head = graph.head
       /\ CanonicalPath(graph') = CanonicalPath(graph) \ ConnectedPath(graph, graph'.anchor)
       /\ Present(graph') =
            {h \in ConnectedSet(graph) \ {graph'.anchor} :
               graph'.anchor \in ConnectedPath(graph, h)}]_vars

\* The finalized side of the tree is a finalized ledger.
Ledger == INSTANCE FinalizedLedger WITH anchor <- graph.anchor
ImplementsLedger == Ledger!LedgerSpec
================================================================================
