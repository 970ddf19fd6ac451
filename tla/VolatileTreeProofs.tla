-------------------------- MODULE VolatileTreeProofs --------------------------
(***************************************************************************)
(* The safety of VolatileTree for every value of its constants: any set of *)
(* hashes and pools, any headers a provider may claim, any pending cap.    *)
(*                                                                         *)
(* The inductive invariant IInv carries, next to what the runs check, that *)
(* the pending area is finite (so that its size is a number) and that a    *)
(* Complete block holds the logs the block really has: without it a second *)
(* authoritative answer could change a Complete block, and LogLadder would *)
(* not follow.                                                             *)
(***************************************************************************)
EXTENDS VolatileTree, BlocksGraphLemmas

\* The part of the invariant that speaks of one graph.
GraphInv(g) ==
  /\ TreeOK(g)
  /\ CompleteIsExact(g)

IInv ==
  /\ GraphInv(graph)
  /\ IsSnapshot(snapshot)
  /\ verified \subseteq Pool
  /\ seeds \subseteq SeedWindow

(***************************************************************************)
(* Each operation keeps GraphInv and lets every log climb the ladder.      *)
(***************************************************************************)

\* A node whose logs an operation leaves alone climbs trivially.
LEMMA KeptClimbs ==
  ASSUME NEW g, NEW g2, NEW h, SameLogs(g2, g, h)
  PROVE  Climbs(g.nodes[h], g2.nodes[h])
BY DEF SameLogs, Climbs

\* with_data_capped: a new block, live or from the seed window.
LEMMA AdmissionStep ==
  ASSUME NEW g, GraphInv(g), NEW hash \in Block, NEW parent \in Block, NEW data \in BlockData,
         data.level = "Complete" => data.logs = LogsOf[hash],
         NEW cap \in {MaxPending, SeedCap}
  PROVE  LET g2 == WithDataCapped(g, hash, parent, data, cap)
         IN GraphInv(g2) /\ Ladder(g, g2) /\ g2.anchor = g.anchor
<1> DEFINE g2 == WithDataCapped(g, hash, parent, data, cap)
<1>0. cap \in Nat /\ PendingCap \in Nat /\ cap <= PendingCap
  BY RealChainAssumption DEF PendingCap
<1>1. /\ IsGraph(g2) /\ WellFormed(g2) /\ LogsKept(g, g2) /\ Brings(g, g2, hash, data)
      /\ AtMostPending(g2, PendingCap)
  BY <1>0, AdmissionWellFormed DEF GraphInv, TreeOK
<1> HIDE DEF g2
<1>2. CompleteIsExact(g2)
  BY <1>1 DEF GraphInv, TreeOK, CompleteIsExact, LogsKept, Brings, SameLogs
<1>3. Ladder(g, g2)
  BY <1>1, KeptClimbs DEF Ladder, LogsKept
<1>. QED
  BY <1>1, <1>2, <1>3 DEF g2, GraphInv, TreeOK, LogsKept

\* with_observed_head.
LEMMA HeadStep ==
  ASSUME NEW g, GraphInv(g), NEW h \in Block
  PROVE  LET g2 == WithObservedHead(g, h)
         IN GraphInv(g2) /\ Ladder(g, g2) /\ g2.anchor = g.anchor
<1> DEFINE g2 == WithObservedHead(g, h)
<1>1. /\ IsGraph(g2) /\ WellFormed(g2) /\ LogsKept(g, g2)
      /\ Present(g2) = Present(g) /\ PendingSet(g2) = PendingSet(g)
  BY HeadWellFormed DEF GraphInv, TreeOK
<1> HIDE DEF g2
<1>2. CompleteIsExact(g2)
  BY <1>1 DEF GraphInv, TreeOK, CompleteIsExact, LogsKept, SameLogs
<1>3. AtMostPending(g2, PendingCap)
  BY <1>1 DEF GraphInv, TreeOK, AtMostPending
<1>4. Ladder(g, g2)
  BY <1>1, KeptClimbs DEF Ladder, LogsKept
<1>. QED
  BY <1>1, <1>2, <1>3, <1>4 DEF g2, GraphInv, TreeOK, LogsKept

\* with_streamed_logs: a fragment extends what was streamed, a Complete block ignores it.
LEMMA StreamStep ==
  ASSUME NEW g, GraphInv(g), NEW h \in Block, NEW logs \in LogMap
  PROVE  LET g2 == WithStreamedLogs(g, h, logs)
         IN GraphInv(g2) /\ Ladder(g, g2) /\ g2.anchor = g.anchor
<1> DEFINE g2 == WithStreamedLogs(g, h, logs)
<1>1. /\ IsGraph(g2) /\ WellFormed(g2) /\ PendingSet(g2) = PendingSet(g)
      /\ g2.anchor = g.anchor
      /\ \A x \in Present(g) : Climbs(g.nodes[x], g2.nodes[x])
  BY StreamedLogsWellFormed DEF GraphInv, TreeOK
<1>2. CompleteIsExact(g2)
  <2>1. CASE h \notin Present(g) \/ g.nodes[h].level = "Complete"
    BY <2>1 DEF GraphInv, TreeOK, WithStreamedLogs
  <2>2. CASE ~(h \notin Present(g) \/ g.nodes[h].level = "Complete")
    <3> DEFINE all == Extended(g.nodes[h].logs, logs)
    <3>1. g.nodes[h] \in Node /\ g.nodes[h].logs \in LogMap
      BY <2>2, GraphParts DEF GraphInv, TreeOK, Node
    <3>2. g2 = Relogged(g, h, "Streamed", all)
      BY <2>2, <3>1, GraphParts DEF GraphInv, TreeOK, WithStreamedLogs, Node, Present, Relogged
    <3>3. all \in LogMap
      BY <3>1, ExtendedMap
    <3> HIDE DEF all, g2
    <3>4. Reloads(g, g2, h, "Streamed", all)
      BY <2>2, <3>2, <3>3, LogsWellFormed DEF GraphInv, TreeOK, Level
    <3>. QED
      BY <3>4 DEF Reloads, SameLogs, GraphInv, TreeOK, CompleteIsExact
  <2>. QED
    BY <2>1, <2>2
<1> HIDE DEF g2
<1>3. AtMostPending(g2, PendingCap)
  BY <1>1 DEF GraphInv, TreeOK, AtMostPending
<1>4. Ladder(g, g2)
  BY <1>1 DEF Ladder
<1>. QED
  BY <1>1, <1>2, <1>3, <1>4 DEF g2, GraphInv, TreeOK

\* with_complete_logs: a Complete block is given the logs it already has.
LEMMA CompleteStep ==
  ASSUME NEW g, GraphInv(g), NEW h \in Block
  PROVE  LET g2 == WithCompleteLogs(g, h, LogsOf[h])
         IN GraphInv(g2) /\ Ladder(g, g2) /\ g2.anchor = g.anchor
<1> DEFINE g2 == WithCompleteLogs(g, h, LogsOf[h])
<1>1. LogsOf[h] \in LogMap
  BY ClaimsAssumption, RealChainAssumption
<1>2. /\ IsGraph(g2) /\ WellFormed(g2) /\ PendingSet(g2) = PendingSet(g)
      /\ h \notin Present(g) => g2 = g
      /\ h \in Present(g) => Reloads(g, g2, h, "Complete", LogsOf[h])
      /\ g2.anchor = g.anchor
  BY <1>1, CompleteLogsWellFormed DEF GraphInv, TreeOK
<1> HIDE DEF g2
<1>3. CompleteIsExact(g2)
  BY <1>2 DEF Reloads, SameLogs, GraphInv, TreeOK, CompleteIsExact
<1>4. AtMostPending(g2, PendingCap)
  BY <1>2 DEF GraphInv, TreeOK, AtMostPending
<1>5. Ladder(g, g2)
  <2> SUFFICES ASSUME NEW x \in Present(g) \cap Present(g2)
               PROVE  Climbs(g.nodes[x], g2.nodes[x])
    BY DEF Ladder
  <2>1. CASE h \notin Present(g)
    BY <1>2, <2>1 DEF Climbs
  <2>2. CASE h \in Present(g) /\ x # h
    BY <1>2, <2>2, KeptClimbs DEF Reloads
  <2>3. CASE h \in Present(g) /\ x = h
    BY <1>2, <2>3 DEF Reloads, Climbs, GraphInv, TreeOK, CompleteIsExact
  <2>. QED
    BY <2>1, <2>2, <2>3
<1>. QED
  BY <1>2, <1>3, <1>4, <1>5 DEF g2, GraphInv, TreeOK

\* finalized_to: the kept nodes keep their logs.
LEMMA FinalizeStep ==
  ASSUME NEW g, GraphInv(g), NEW target, NEW v
  PROVE  LET g2 == FinalizedTo(g, target, v)
         IN /\ GraphInv(g2) /\ Ladder(g, g2)
            /\ g2.anchor \in {FinalizationPoint(g, target, v), g.anchor}
<1> DEFINE a  == FinalizationPoint(g, target, v)
           g2 == FinalizedTo(g, target, v)
<1>1. g2 = ReanchoredTo(g, a)
  BY DEF FinalizedTo
<1> HIDE DEF g2, a
<1>2. /\ IsGraph(g2) /\ WellFormed(g2)
      /\ PendingSet(g2) \subseteq PendingSet(g)
      /\ Present(g2) \subseteq Present(g)
      /\ \A h \in Present(g2) : SameLogs(g2, g, h)
      /\ g2.anchor \in {a, g.anchor}
  BY <1>1, ReanchorWellFormed DEF GraphInv, TreeOK
<1>3. AtMostPending(g2, PendingCap)
  BY <1>2, RealChainAssumption, AtMostSubset DEF GraphInv, TreeOK, PendingCap
<1>4. CompleteIsExact(g2)
  BY <1>2 DEF GraphInv, TreeOK, CompleteIsExact, SameLogs
<1>5. Ladder(g, g2)
  BY <1>2, KeptClimbs DEF Ladder
<1>. QED
  BY <1>2, <1>3, <1>4, <1>5 DEF g2, a, GraphInv, TreeOK

(***************************************************************************)
(* The inductive invariant.                                                *)
(***************************************************************************)

\* A pool's real state is a set of logs.
LEMMA TrueStateType ==
  ASSUME NEW b \in Block, NEW p \in Pool
  PROVE  TrueState[b][p] \in SUBSET Log
<1> DEFINE run  == {e \in TrueLine(b) \X Log : e[2] \in LogsOf[e[1]] /\ LogPool[e[2]] = p}
<1>1. \A e \in run : e[2] \in Log
  OBVIOUS
<1>2. TrueStateAt(b, p) \in SUBSET Log
  BY <1>1 DEF TrueStateAt
<1>. QED
  BY <1>2 DEF TrueState

\* BlocksGraph::new.
LEMMA NewGraphInv ==
  GraphInv(NewGraph(StartAnchor, StartNumber))
<1> DEFINE none == [h \in {} |-> {}]
           g    == NewGraph(StartAnchor, StartNumber)
<1>1. none \in [{} -> Node] /\ DOMAIN none = {}
  OBVIOUS
<1>2. g = [anchor |-> StartAnchor, number |-> StartNumber, head |-> StartAnchor, nodes |-> none]
  BY DEF NewGraph
<1> HIDE DEF none, g
<1>3. IsGraph(g)
  BY <1>1, <1>2, ClaimsAssumption, RealChainAssumption, MakeGraph
<1>4. /\ Present(g) = {} /\ ConnectedSet(g) = {} /\ PendingSet(g) = {}
      /\ g.head = g.anchor
  BY <1>1, <1>2 DEF Present, ConnectedSet, PendingSet
<1>5. WellFormed(g)
  BY <1>4 DEF WellFormed, HeadKnown, AnchorNotNode, ParentsConnected, PendingUnreachable, Grounded
<1>6. AtMostPending(g, PendingCap)
  BY <1>4, FS_EmptySet, RealChainAssumption DEF AtMostPending, PendingCap
<1>7. CompleteIsExact(g)
  BY <1>4 DEF CompleteIsExact
<1>. QED
  BY <1>3, <1>5, <1>6, <1>7 DEF GraphInv, TreeOK, g

\* The state activation starts from.
LEMMA InitIInv == Init => IInv
<1> SUFFICES ASSUME Init PROVE IInv
  OBVIOUS
<1>1. GraphInv(graph)
  BY NewGraphInv DEF Init
<1>2. IsSnapshot(snapshot)
  <2>1. \A p \in BasePools : TrueState[StartAnchor][p] \in SUBSET Log
    BY ClaimsAssumption, RealChainAssumption, TrueStateType
  <2>2. [p \in BasePools |-> TrueState[StartAnchor][p]] \in [BasePools -> SUBSET Log]
    BY <2>1
  <2>. QED
    BY <2>2, ClaimsAssumption, RealChainAssumption DEF Init, IsSnapshot
<1>. QED
  BY <1>1, <1>2, ClaimsAssumption, RealChainAssumption DEF Init, IInv

\* One step: the invariant is kept, every log climbs, and only Finalize moves the anchor.
Step ==
  /\ IInv'
  /\ Ladder(graph, graph')
  /\ graph'.anchor # graph.anchor => \E target \in Block : Finalize(target)

\* A graph left alone.
LEMMA StutterLadder == ASSUME NEW g PROVE Ladder(g, g)
BY DEF Ladder, Climbs

\* Every action keeps the invariant; one case per action of VolatileTree.
LEMMA NextStep == IInv /\ [Next]_vars => Step
<1> SUFFICES ASSUME IInv, [Next]_vars PROVE Step
  OBVIOUS
<1> USE DEF IInv
<1>1. ASSUME NEW s \in SeedWindow, AdmitSeed(s) PROVE Step
  <2> DEFINE data == SeedData(s.number, s.logs)
  <2>1. s \in SeedBlock /\ s.logs = LogsOf[s.hash]
    BY RealChainAssumption
  <2>2. s.hash \in Block /\ s.parent \in Block /\ data \in BlockData /\ data.logs = LogsOf[s.hash]
    BY <2>1, RealChainAssumption DEF SeedBlock, SeedData, BlockData, BloomValue, NoBloom, Level
  <2>3. graph' = WithDataCapped(graph, s.hash, s.parent, data, SeedCap)
    BY <1>1 DEF AdmitSeed
  <2> HIDE DEF data
  <2>4. GraphInv(graph') /\ Ladder(graph, graph') /\ graph'.anchor = graph.anchor
    BY <2>2, <2>3, AdmissionStep
  <2>. QED
    BY <1>1, <2>4 DEF AdmitSeed, Step
<1>2. ASSUME NEW c \in HeaderClaims, AdmitHeader(c) PROVE Step
  <2> DEFINE data == HeaderData(c.number, c.bloom)
  <2>1. c \in Header
    BY ClaimsAssumption, RealChainAssumption
  <2>2. c.hash \in Block /\ c.parent \in Block /\ c.number \in Nat /\ c.bloom \in BloomValue
    BY <2>1 DEF Header
  <2>3. data \in BlockData /\ data.level # "Complete"
    BY <2>2 DEF HeaderData, BlockData, BloomValue, Level, LogMap
  <2>4. graph' = WithDataCapped(graph, c.hash, c.parent, data, MaxPending)
    BY <1>2 DEF AdmitHeader, WithBlockCapped
  <2> HIDE DEF data
  <2>5. GraphInv(graph') /\ Ladder(graph, graph') /\ graph'.anchor = graph.anchor
    BY <2>2, <2>3, <2>4, AdmissionStep
  <2>. QED
    BY <1>2, <2>5 DEF AdmitHeader, Step
<1>3. ASSUME NEW h \in Served, ObserveHead(h) PROVE Step
  <2>1. GraphInv(graph') /\ Ladder(graph, graph') /\ graph'.anchor = graph.anchor
    BY <1>3, HeadStep DEF ObserveHead, Served
  <2>. QED
    BY <1>3, <2>1 DEF ObserveHead, Step
<1>4. ASSUME NEW h \in Served, NEW logs \in Batch(h), StreamLogs(h, logs) PROVE Step
  <2>1. logs \in LogMap
    BY DEF Batch
  <2>2. GraphInv(graph') /\ Ladder(graph, graph') /\ graph'.anchor = graph.anchor
    BY <1>4, <2>1, StreamStep DEF StreamLogs, Served
  <2>. QED
    BY <1>4, <2>2 DEF StreamLogs, Step
<1>5. ASSUME NEW h \in Served, CompleteLogs(h) PROVE Step
  <2>1. GraphInv(graph') /\ Ladder(graph, graph') /\ graph'.anchor = graph.anchor
    BY <1>5, CompleteStep DEF CompleteLogs, Served
  <2>. QED
    BY <1>5, <2>1 DEF CompleteLogs, Step
<1>6. ASSUME NEW p \in Pool, VerifyPool(p) PROVE Step
  BY <1>6, StutterLadder DEF VerifyPool, Step
<1>7. ASSUME NEW p \in Pool, NEW at \in Block, SeedPool(p, at) PROVE Step
  <2>1. PICK Q \in SUBSET Pool : snapshot \in [Q -> SUBSET Log]
    BY DEF IsSnapshot
  <2>2. TrueState[at][p] \in SUBSET Log
    BY TrueStateType
  <2> DEFINE seeded == [q \in Q \cup {p} |-> IF q = p THEN TrueState[at][p] ELSE snapshot[q]]
  <2>3. seeded \in [Q \cup {p} -> SUBSET Log] /\ Q \cup {p} \in SUBSET Pool
    BY <2>1, <2>2
  <2>4. IsSnapshot(seeded)
    BY <2>3 DEF IsSnapshot
  <2>5. snapshot' \in {snapshot, seeded}
    BY <1>7, <2>1 DEF SeedPool
  <2>6. IsSnapshot(snapshot')
    BY <2>4, <2>5
  <2>. QED
    BY <1>7, <2>6, StutterLadder DEF SeedPool, Step
<1>8. ASSUME NEW target \in Served, Finalize(target) PROVE Step
  <2>1. GraphInv(graph') /\ Ladder(graph, graph')
    BY <1>8, FinalizeStep DEF Finalize, Served
  <2>2. IsSnapshot(snapshot')
    BY <1>8, FoldedSnapshot DEF Finalize, FinalizedStates, Served
  <2>. QED
    BY <1>8, <2>1, <2>2 DEF Finalize, Step, Served
<1>9. CASE UNCHANGED vars
  BY <1>9, StutterLadder DEF vars, Step, GraphInv, TreeOK
<1>. QED
  BY <1>1, <1>2, <1>3, <1>4, <1>5, <1>6, <1>7, <1>8, <1>9 DEF Next

(***************************************************************************)
(* The theorems.                                                           *)
(***************************************************************************)

\* The inductive invariant holds.
THEOREM Invariance == Spec => []IInv
<1>1. Init => IInv
  BY InitIInv
<1>2. IInv /\ [Next]_vars => IInv'
  BY NextStep DEF Step
<1>. QED
  BY <1>1, <1>2, PTL DEF Spec

\* The state keeps its type: no transition of blocks_graph.rs leaves a node
\* without a parent reference, or logs on a block of which nothing is known.
THEOREM TypeCorrect == Spec => []TypeOK
<1>1. IInv => TypeOK
  BY DEF IInv, GraphInv, TreeOK, TypeOK
<1>. QED
  BY <1>1, Invariance, PTL

\* T2 to T6: whatever headers claim and in whatever order they come, the tree
\* the admissions and re-roots of blocks_graph.rs leave is well-formed.
THEOREM TreeCorrect == Spec => []TreeInv
<1>1. IInv => TreeInv
  BY DEF IInv, GraphInv, TreeOK, TreeInv
<1>. QED
  BY <1>1, Invariance, PTL

\* B1: with_data_capped never lets the pending area grow beyond its cap.
THEOREM PendingWithinCap == Spec => []PendingBounded
<1>1. IInv => PendingBounded
  BY DEF IInv, GraphInv, TreeOK, AtMostPending, PendingBounded
<1>. QED
  BY <1>1, Invariance, PTL

\* L5: no delivery takes back a level, or empties an index under which a block has a log.
THEOREM LogsOnlyClimb == Spec => LogLadder
<1>1. IInv /\ [Next]_vars => Ladder(graph, graph')
  BY NextStep DEF Step
<1>2. Ladder(graph, graph') =>
        \A h \in Present(graph) \cap Present(graph') :
          LET old == graph.nodes[h]
              new == graph'.nodes[h]
          IN /\ old.level = "Complete" => new.level = "Complete" /\ new.logs = old.logs
             /\ old.level = "Streamed" =>
                  /\ new.level # "Unknown"
                  /\ new.level = "Streamed" => Indexes(old.logs) \subseteq Indexes(new.logs)
  BY DEF Ladder, Climbs
<1>. QED
  BY <1>1, <1>2, Invariance, PTL DEF Spec, LogLadder

\* A2 and A4: finalized_to moves the anchor only up the canonical chain and only
\* across blocks that cannot change a tracked pool any more.
THEOREM FinalizationGated == Spec => FinalizationGate
<1> DEFINE Gated ==
      graph'.anchor # graph.anchor =>
        /\ graph'.anchor \in CanonicalPath(graph)
        /\ \A h \in ConnectedPath(graph, graph'.anchor) :
             graph.nodes[h].level = "Complete"
             \/ ~BloomMayTouch(graph.nodes[h].bloom, WatchedAddresses(verified))
<1>1. IInv /\ [Next]_vars => Gated
  <2> SUFFICES ASSUME IInv, [Next]_vars, graph'.anchor # graph.anchor
               PROVE  /\ graph'.anchor \in CanonicalPath(graph)
                      /\ \A h \in ConnectedPath(graph, graph'.anchor) :
                           graph.nodes[h].level = "Complete"
                           \/ ~BloomMayTouch(graph.nodes[h].bloom, WatchedAddresses(verified))
    OBVIOUS
  <2>1. PICK target \in Block : Finalize(target)
    BY NextStep DEF Step
  <2>2. graph'.anchor \in {FinalizationPoint(graph, target, verified), graph.anchor}
    BY <2>1, FinalizeStep DEF Finalize, IInv
  <2>. QED
    BY <2>2, FinalizationPointGate
<1>. QED
  BY <1>1, Invariance, PTL DEF Spec, FinalizationGate

\* T2 and T6: with_data_capped connects a block, on its own or by promotion,
\* exactly when its parent chain reaches the anchor.
THEOREM ConnectedMeansReachable == Spec => []ConnectedIffReachesAnchor
<1>1. IInv => ConnectedIffReachesAnchor
  BY ConnectedReachesAnchor DEF IInv, GraphInv, TreeOK, ConnectedIffReachesAnchor
<1>. QED
  BY <1>1, Invariance, PTL

\* A3: finalized_to drops exactly what does not descend from the new anchor.
THEOREM CanonicalSurvives == Spec => ReanchorKeepsCanonical
<1> DEFINE Kept ==
      graph'.anchor # graph.anchor =>
        /\ graph'.head = graph.head
        /\ CanonicalPath(graph') = CanonicalPath(graph) \ ConnectedPath(graph, graph'.anchor)
        /\ Present(graph') =
             {h \in ConnectedSet(graph) \ {graph'.anchor} :
                graph'.anchor \in ConnectedPath(graph, h)}
<1>1. IInv /\ [Next]_vars => Kept
  <2> SUFFICES ASSUME IInv, [Next]_vars, graph'.anchor # graph.anchor PROVE Kept
    OBVIOUS
  <2>1. PICK target \in Block : Finalize(target)
    BY NextStep DEF Step
  <2> DEFINE a == FinalizationPoint(graph, target, verified)
  <2>2. graph' = ReanchoredTo(graph, a)
    BY <2>1 DEF Finalize, FinalizedTo
  <2>3. graph'.anchor \in {a, graph.anchor}
    BY <2>1, FinalizeStep DEF Finalize, IInv
  <2>4. a # graph.anchor /\ a \in CanonicalPath(graph)
    BY <2>3, FinalizationPointGate
  <2> HIDE DEF a
  <2>. QED
    BY <2>2, <2>3, <2>4, ReanchorCanonical DEF IInv, GraphInv, TreeOK
<1>. QED
  BY <1>1, Invariance, PTL DEF Spec, ReanchorKeepsCanonical

(***************************************************************************)
(* The finalized side is a ledger.                                         *)
(***************************************************************************)
\* Every tracked state is the real one at the anchor.
SnapshotExact == \A p \in DOMAIN snapshot : snapshot[p] = TrueState[graph.anchor][p]

HInv ==
  /\ Tied(graph, Rep)
  /\ DOMAIN snapshot \subseteq verified
  /\ SnapshotExact

\* What one finalization does to anchor and snapshot.
LEMMA FinalizeExact ==
  ASSUME HonestProviders, IInv, HInv, NEW target \in Served, Finalize(target)
  PROVE  /\ HInv'
         /\ \/ UNCHANGED <<graph.anchor, snapshot>>
            \/ /\ graph'.anchor \in TrueDescendants[graph.anchor]
               /\ DOMAIN snapshot \subseteq DOMAIN snapshot'
<1> DEFINE a == FinalizationPoint(graph, target, verified)
<1>1. /\ graph' = ReanchoredTo(graph, a)
      /\ snapshot' = IF a = graph.anchor THEN snapshot
                     ELSE FoldedPoolStates(graph, snapshot, verified, a, "RequireComplete")
      /\ verified' = verified
  BY DEF Finalize, FinalizedTo, FinalizedStates
<1>2. /\ IsGraph(graph) /\ WellFormed(graph) /\ CompleteIsExact(graph) /\ verified \in SUBSET Pool
      /\ HonestChain /\ StandIn(Rep) /\ Tied(graph, Rep)
  BY RepStandsIn DEF HonestProviders, IInv, GraphInv, TreeOK, HInv
<1>3. CASE a = graph.anchor
  <2>1. graph' = graph /\ snapshot' = snapshot
    BY <1>1, <1>3 DEF ReanchoredTo
  <2>. QED
    BY <1>1, <2>1 DEF HInv, SnapshotExact
<1>4. CASE a # graph.anchor
  <2> HIDE DEF a
  <2>1. /\ a \in ConnectedSet(graph) /\ a \in Served
        /\ \A y \in ConnectedPath(graph, a) :
             ~Blocker(graph, y, WatchedAddresses(verified), "RequireComplete")
        /\ a \in TrueDescendants[graph.anchor] /\ graph'.anchor = a /\ Tied(graph', Rep)
    BY <1>1, <1>2, <1>4, FinalityIsReal DEF a
  <2>2. /\ DOMAIN snapshot \subseteq DOMAIN snapshot' /\ DOMAIN snapshot' \subseteq verified
        /\ \A p \in DOMAIN snapshot' : snapshot'[p] = TrueState[a][p]
    <3> DEFINE s == FoldedPoolStates(graph, snapshot, verified, a, "RequireComplete")
    <3>1. snapshot' = s
      BY <1>1, <1>4
    <3>2. DOMAIN snapshot \subseteq verified /\ \A p \in DOMAIN snapshot : snapshot[p] = TrueState[graph.anchor][p]
      BY DEF HInv, SnapshotExact
    <3>3. /\ DOMAIN snapshot \subseteq DOMAIN s /\ DOMAIN s \subseteq verified
          /\ \A p \in DOMAIN s : s[p] = TrueState[a][p]
      BY <1>2, <2>1, <3>2, CompleteFold
    <3> HIDE DEF s
    <3>. QED
      BY <3>1, <3>3
  <2>. QED
    BY <1>1, <2>1, <2>2 DEF HInv, SnapshotExact
<1>. QED
  BY <1>3, <1>4

\* A step of the tree as a step of the ledger, or none.
LedgerStep == [Ledger!LedgerNext]_(Ledger!ledgerVars)

LEMMA SeedingStep ==
  ASSUME IInv', HInv', UNCHANGED graph.anchor, DOMAIN snapshot \subseteq DOMAIN snapshot'
  PROVE  LedgerStep
<1>1. DOMAIN snapshot' \subseteq Pool
  BY DEF HInv, IInv
<1>2. Ledger!Seed
  BY <1>1 DEF Ledger!Seed, Ledger!Exact, HInv, SnapshotExact
<1>. QED
  BY <1>2 DEF LedgerStep, Ledger!LedgerNext

\* Every step keeps HInv and is a step of the ledger; one case per action.
LEMMA HonestStep ==
  ASSUME HonestProviders, IInv, HInv, [Next]_vars
  PROVE  HInv' /\ LedgerStep
<1>0. HonestChain /\ StandIn(Rep) /\ Step
  BY RepStandsIn, NextStep DEF HonestProviders
<1>1. IInv' /\ Ladder(graph, graph')
  BY <1>0 DEF Step
<1>2. GraphInv(graph) /\ TreeOK(graph) /\ Tied(graph, Rep)
  BY DEF IInv, GraphInv, HInv
<1>3. ASSUME Tied(graph', Rep), graph'.anchor = graph.anchor, UNCHANGED <<snapshot, verified>>
      PROVE  HInv' /\ LedgerStep
  <2>1. HInv'
    BY <1>3 DEF HInv, SnapshotExact
  <2>. QED
    BY <1>1, <1>3, <2>1, SeedingStep
<1>4. ASSUME NEW s \in SeedWindow, AdmitSeed(s) PROVE HInv' /\ LedgerStep
  <2> DEFINE data == SeedData(s.number, s.logs)
  <2>1. s \in SeedBlock /\ s.logs = LogsOf[s.hash]
    BY RealChainAssumption
  <2>2. /\ s.hash \in Block /\ s.parent \in Block /\ data \in BlockData /\ data.level = "Complete"
        /\ \A l \in LogsOf[s.hash] : EmitterOf[LogPool[l]] \in data.bloom
    BY <2>1, RealChainAssumption, PoolDataAssumption
       DEF SeedBlock, SeedData, BlockData, BloomValue, NoBloom, Level
  <2>3. Spans(Rep, s.parent, s.hash)
    BY <1>0 DEF StandIn
  <2>4. graph' = WithDataCapped(graph, s.hash, s.parent, data, SeedCap)
    BY <1>4 DEF AdmitSeed
  <2> HIDE DEF data
  <2>5. Tied(graph', Rep)
    BY <1>2, <2>2, <2>3, <2>4, AdmissionTied
  <2>6. graph'.anchor = graph.anchor
    BY <1>2, <2>2, <2>4, AdmissionHeaders DEF GraphInv, TreeOK
  <2>. QED
    BY <1>3, <1>4, <2>5, <2>6 DEF AdmitSeed
<1>5. ASSUME NEW c \in HeaderClaims, AdmitHeader(c) PROVE HInv' /\ LedgerStep
  <2> DEFINE data == HeaderData(c.number, c.bloom)
  <2>1. c \in Header
    BY ClaimsAssumption, RealChainAssumption
  <2>2. c.hash \in Block /\ c.parent \in Block /\ c.number \in Nat /\ c.bloom \in BloomValue
    BY <2>1 DEF Header
  <2>3. data \in BlockData /\ data.bloom = c.bloom
    BY <2>2 DEF HeaderData, BlockData, BloomValue, Level, LogMap
  <2>4. /\ Spans(Rep, c.parent, c.hash) /\ c.parent \notin Fillers
        /\ \A l \in LogsOf[c.hash] : EmitterOf[LogPool[l]] \in c.bloom
    <3>1. PICK b \in Known : c = HeaderOf(b)
      BY DEF HonestProviders
    <3>2. c.hash = b /\ c.parent = Trunk[b].parent /\ c.bloom = Trunk[b].bloom /\ c.parent \notin Fillers
      BY <3>1 DEF HeaderOf, HonestProviders
    <3>. QED
      BY <1>0, <3>2, HeaderBridges
  <2>5. graph' = WithDataCapped(graph, c.hash, c.parent, data, MaxPending)
    BY <1>5 DEF AdmitHeader, WithBlockCapped
  <2> HIDE DEF data
  <2>6. Tied(graph', Rep)
    BY <1>2, <2>2, <2>3, <2>4, <2>5, AdmissionTied
  <2>7. graph'.anchor = graph.anchor
    BY <1>2, <2>2, <2>3, <2>5, AdmissionHeaders DEF GraphInv, TreeOK
  <2>. QED
    BY <1>3, <1>5, <2>6, <2>7 DEF AdmitHeader
<1>6. ASSUME NEW h \in Served, ObserveHead(h) PROVE HInv' /\ LedgerStep
  <2>1. graph' \in {graph, [graph EXCEPT !.head = h]}
    BY <1>6 DEF ObserveHead, WithObservedHead
  <2>2. graph = [anchor |-> graph.anchor, number |-> graph.number, head |-> graph.head,
                 nodes |-> graph.nodes]
    BY <1>2, GraphParts DEF GraphInv, TreeOK
  <2>3. graph'.anchor = graph.anchor /\ graph'.nodes = graph.nodes /\ graph'.head \in {graph.head, h}
    BY <2>1, <2>2
  <2>4. Tied(graph', Rep)
    BY <1>2, <2>3 DEF Tied, TiedNode, Present, ParentHash
  <2>. QED
    BY <1>3, <1>6, <2>3, <2>4 DEF ObserveHead
<1>7. ASSUME NEW h \in Served, NEW logs \in Batch(h), StreamLogs(h, logs)
      PROVE  HInv' /\ LedgerStep
  <2>1. KeepsHeaders(graph, graph') /\ graph'.head = graph.head
    BY <1>2, <1>7, LogHeaders DEF StreamLogs, GraphInv, TreeOK
  <2>2. Tied(graph', Rep)
    BY <1>1, <1>2, <2>1, TiedKept DEF Tied
  <2>. QED
    BY <1>3, <1>7, <2>1, <2>2 DEF StreamLogs, KeepsHeaders
<1>8. ASSUME NEW h \in Served, CompleteLogs(h) PROVE HInv' /\ LedgerStep
  <2>1. KeepsHeaders(graph, graph') /\ graph'.head = graph.head
    BY <1>2, <1>8, LogHeaders DEF CompleteLogs, GraphInv, TreeOK
  <2>2. Tied(graph', Rep)
    BY <1>1, <1>2, <2>1, TiedKept DEF Tied
  <2>. QED
    BY <1>3, <1>8, <2>1, <2>2 DEF CompleteLogs, KeepsHeaders
<1>9. ASSUME NEW p \in Pool, VerifyPool(p) PROVE HInv' /\ LedgerStep
  <2>1. HInv'
    BY <1>9 DEF VerifyPool, HInv, SnapshotExact
  <2>. QED
    BY <1>1, <1>9, <2>1, SeedingStep DEF VerifyPool
<1>10. ASSUME NEW p \in Pool, NEW at \in Block, SeedPool(p, at) PROVE HInv' /\ LedgerStep
  <2>1. /\ graph' = graph /\ verified' = verified /\ p \in verified \ DOMAIN snapshot
        /\ \/ snapshot' = snapshot
           \/ /\ at = graph.anchor
              /\ snapshot' = [q \in DOMAIN snapshot \cup {p} |->
                                IF q = p THEN TrueState[at][p] ELSE snapshot[q]]
    BY <1>10 DEF SeedPool
  <2>2. HInv'
    BY <2>1 DEF HInv, SnapshotExact
  <2>3. DOMAIN snapshot \subseteq DOMAIN snapshot'
    BY <2>1
  <2>. QED
    BY <1>1, <2>1, <2>2, <2>3, SeedingStep
<1>11. ASSUME NEW target \in Served, Finalize(target) PROVE HInv' /\ LedgerStep
  <2>1. /\ HInv'
        /\ \/ UNCHANGED <<graph.anchor, snapshot>>
           \/ /\ graph'.anchor \in TrueDescendants[graph.anchor]
              /\ DOMAIN snapshot \subseteq DOMAIN snapshot'
    BY <1>11, FinalizeExact
  <2>2. DOMAIN snapshot' \subseteq Pool
    BY <1>1, <2>1 DEF HInv, IInv
  <2>3. CASE UNCHANGED <<graph.anchor, snapshot>>
    BY <1>1, <2>1, <2>3, SeedingStep
  <2>4. CASE /\ graph'.anchor \in TrueDescendants[graph.anchor]
             /\ DOMAIN snapshot \subseteq DOMAIN snapshot'
    BY <2>1, <2>2, <2>4
       DEF HInv, SnapshotExact, LedgerStep, Ledger!LedgerNext, Ledger!Advance, Ledger!Exact
  <2>. QED
    BY <2>1, <2>3, <2>4
<1>12. CASE UNCHANGED vars
  <2>1. HInv'
    BY <1>12 DEF vars, HInv, SnapshotExact
  <2>. QED
    BY <1>1, <1>12, <2>1, SeedingStep DEF vars
<1>. QED
  BY <1>4, <1>5, <1>6, <1>7, <1>8, <1>9, <1>10, <1>11, <1>12 DEF Next

\* Activation starts exact.
LEMMA InitHonest == HonestProviders /\ Init => HInv /\ Ledger!LedgerInit
<1> SUFFICES ASSUME HonestProviders, Init PROVE HInv /\ Ledger!LedgerInit
  OBVIOUS
<1>1. /\ graph.anchor = StartAnchor /\ graph.head = StartAnchor /\ Present(graph) = {}
  BY DEF Init, NewGraph, Present
<1>2. StartAnchor \in Served /\ BasePools \subseteq Pool
  BY ClaimsAssumption, RealChainAssumption DEF HonestProviders, HonestChain, Served
<1>3. DOMAIN snapshot = BasePools /\ verified = BasePools /\ SnapshotExact
  BY <1>1 DEF Init, SnapshotExact
<1>4. Tied(graph, Rep)
  BY <1>1, <1>2 DEF Tied
<1>. QED
  BY <1>1, <1>2, <1>3, <1>4 DEF HInv, SnapshotExact, Ledger!LedgerInit, Ledger!Exact

\* A2: under honest providers whatever finalized_to and the seeds write is a
\* finalized ledger: the anchor moves up the real chain and every state in
\* finalized_snapshot is the real one at the anchor.
THEOREM LedgerImplemented == HonestProviders => (Spec => ImplementsLedger)
<1> SUFFICES ASSUME HonestProviders PROVE Spec => ImplementsLedger
  OBVIOUS
<1>1. Init => HInv /\ Ledger!LedgerInit
  BY InitHonest
<1>2. IInv /\ HInv /\ [Next]_vars => HInv' /\ LedgerStep
  BY HonestStep
<1>. QED
  BY <1>1, <1>2, Invariance, PTL DEF Spec, ImplementsLedger, LedgerStep, Ledger!LedgerSpec

\* Under honest providers the optimization read is exact at the block it names,
\* whenever what was streamed below it was streamed in full.
THEOREM ProjectionIsExact == HonestProviders => (Spec => []ProjectionExact)
<1> SUFFICES ASSUME HonestProviders PROVE Spec => []ProjectionExact
  OBVIOUS
<1>1. Init => HInv
  BY InitHonest
<1>2. IInv /\ HInv /\ [Next]_vars => HInv'
  BY HonestStep
<1>3. IInv /\ HInv => ProjectionExact
  <2> DEFINE f == ProjectedFrontier(graph, verified)
  <2> SUFFICES ASSUME IInv, HInv,
                      \A h \in ConnectedPath(graph, f) :
                        graph.nodes[h].level = "Streamed" => graph.nodes[h].logs = LogsOf[h]
               PROVE  \A p \in DOMAIN ProjectedStates(graph, snapshot, verified) :
                        ProjectedStates(graph, snapshot, verified)[p] = TrueState[f][p]
    BY DEF ProjectionExact
  <2>1. /\ IsGraph(graph) /\ WellFormed(graph) /\ CompleteIsExact(graph) /\ verified \in SUBSET Pool
        /\ HonestChain /\ StandIn(Rep) /\ Tied(graph, Rep)
    BY RepStandsIn DEF HonestProviders, IInv, GraphInv, TreeOK, HInv
  <2>2. ProjectedStates(graph, snapshot, verified) =
          FoldedPoolStates(graph, snapshot, verified, f, "AllowStreamed")
    BY DEF ProjectedStates
  <2>3. f # graph.anchor => f = FoldableFrontier(graph, graph.head, WatchedAddresses(verified), "AllowStreamed")
    BY DEF ProjectedFrontier
  <2> HIDE DEF f
  <2>4. CASE f = graph.anchor
    <3>1. ConnectedPath(graph, f) = {}
      BY <2>1, <2>4 DEF WellFormed, AnchorNotNode, ConnectedPath, ConnectedSet
    <3>2. \A p : PathRun(graph, f, "AllowStreamed", p) = {}
      BY <3>1 DEF PathRun
    <3>3. SelfSeeded(graph, snapshot, verified, f, "AllowStreamed") = {}
      BY <3>2 DEF SelfSeeded, AbsoluteIn
    <3>4. \A b : DeriveFrom(graph, b, {}) = b
      BY DEF DeriveFrom, AbsoluteIn
    <3>5. /\ DOMAIN ProjectedStates(graph, snapshot, verified) = DOMAIN snapshot
          /\ \A p \in DOMAIN snapshot : ProjectedStates(graph, snapshot, verified)[p] = snapshot[p]
      BY <2>2, <3>2, <3>3, <3>4 DEF FoldedPoolStates
    <3>. QED
      BY <2>4, <3>5 DEF HInv, SnapshotExact
  <2>5. CASE f # graph.anchor
    <3>1. /\ f \in ConnectedSet(graph) /\ f \in Served
          /\ \A y \in ConnectedPath(graph, f) :
               ~Blocker(graph, y, WatchedAddresses(verified), "AllowStreamed")
      BY <2>1, <2>3, <2>5, FrontierServed DEF Tied
    <3>2. \A y \in ConnectedPath(graph, f) :
            Readable(graph, y, "AllowStreamed") => graph.nodes[y].logs = LogsOf[y]
      <4>1. ConnectedPath(graph, f) \subseteq Present(graph)
        BY <3>1, AncestorsClosed DEF ConnectedPath, ConnectedSet
      <4>. QED
        BY <2>1, <4>1 DEF Readable, CompleteIsExact
    <3>3. LET s == FoldedPoolStates(graph, snapshot, verified, f, "AllowStreamed")
          IN \A p \in DOMAIN s : s[p] = TrueState[f][p]
      BY <2>1, <3>1, <3>2, FoldIsReal DEF HInv, SnapshotExact
    <3>. QED
      BY <2>2, <3>3
  <2>. QED
    BY <2>4, <2>5
<1>. QED
  BY <1>1, <1>2, <1>3, Invariance, PTL DEF Spec

================================================================================
