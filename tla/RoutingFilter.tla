---------------------------- MODULE RoutingFilter ----------------------------
(***************************************************************************)
(* Which pools may enter the optimizer for a route, and when a snapshot of *)
(* pools can serve it (routing_filter.rs, the checks of execution.rs).     *)
(*                                                                         *)
(* A pool is one edge between its two tokens: both its directions are in   *)
(* every snapshot (`Catalog::project`, `pool_reserves_for_optimization`),  *)
(* so each of them is an input and an output.                              *)
(***************************************************************************)
EXTENDS Naturals, FiniteSets

CONSTANTS
  Pool,
  Token,
  PairOf,      \* [Pool -> the set of the pool's tokens]
  Bridges,     \* pairs of tokens that convert one to one
  Whitelist    \* the tokens allowed, Token when there is no whitelist

ASSUME RoutingAssumption ==
  /\ PairOf \in [Pool -> SUBSET Token]
  /\ Bridges \subseteq SUBSET Token
  /\ Whitelist \subseteq Token

Route == [source : Token, output : Token]

Whitelisted(pools) == {p \in pools : PairOf[p] \subseteq Whitelist}

\* The edges of the token graph: the pools, the bridges, and for an open route the
\* demand edge that closes each of its paths into a cycle.
Links(pools, r) ==
  LET Proper(links) == {l \in links : Cardinality(l.ends) = 2}
  IN Proper({[via |-> <<"pool", p>>, ends |-> PairOf[p]] : p \in pools}
            \cup {[via |-> <<"bridge">>, ends |-> b] : b \in Bridges}
            \cup {[via |-> <<"demand">>, ends |-> {r.source, r.output}]})

Nodes(links) == UNION {l.ends : l \in links}

DegreeIn(links, kept, t) == Cardinality({l \in links : t \in l.ends /\ l.ends \subseteq kept})

\* What is left when the tokens of degree below two are stripped until there is
\* none.  The code strips them one at a time from a stack; the order is immaterial.
TwoCore(links) ==
  LET Stripped[kept \in SUBSET Nodes(links)] ==
        LET weak == {t \in kept : DegreeIn(links, kept, t) < 2}
        IN IF weak = {} THEN kept ELSE Stripped[kept \ weak]
  IN Stripped[Nodes(links)]

\* The tokens of `kept` connected to `source`.
Component(links, kept, source) ==
  LET Neighbours(ts) == UNION {l.ends : l \in {k \in links : k.ends \cap ts # {} /\ k.ends \subseteq kept}}
      Within[n \in 0 .. Cardinality(kept)] ==
        IF n = 0 THEN {source} ELSE Within[n - 1] \cup Neighbours(Within[n - 1])
  IN Within[Cardinality(kept)]

RoutableTokens(pools, r) ==
  LET links == Links(pools, r)
      core  == TwoCore(links)
  IN IF r.source \notin core THEN {} ELSE Component(links, core, r.source)

\* A source that is not routable, or a prune that leaves nothing, prunes nothing.
Routable(pools, r) ==
  LET keep   == RoutableTokens(pools, r)
      pruned == {p \in pools : PairOf[p] \subseteq keep}
  IN IF r.source \notin keep \/ pruned = {} THEN pools ELSE pruned

Admissible(pools, r) == Routable(Whitelisted(pools), r)

Touches(pools, t) == \E p \in pools : t \in PairOf[p]

\* Faulty variant: the gate looks at the output asset only.
ReachesOutput(pools, r) == Touches(Admissible(pools, r), r.output)

\* Whether a snapshot may be handed to a running session.
ReachesRoute(pools, r) ==
  LET admissible == Admissible(pools, r)
  IN Touches(admissible, r.output) /\ Touches(admissible, r.source)

\* What a step makes of a snapshot.
StepOutcome(pools, r) ==
  LET admissible == Admissible(pools, r)
  IN IF admissible = {} THEN "EmptyReserves"
     ELSE IF ~Touches(admissible, r.output) THEN "OutputAssetNotFound"
     ELSE IF ~Touches(admissible, r.source) THEN "SourceAssetNotFound"
     ELSE "Stepped"

\* The snapshots that pass the gate, that a step accepts, and that it refuses for a
\* gap in the route.
Snapshots == {<<pools, r>> : pools \in SUBSET Pool, r \in Route}
Covering  == {s \in Snapshots : ReachesRoute(s[1], s[2])}
Steppable == {s \in Snapshots : StepOutcome(s[1], s[2]) = "Stepped"}
Gapped ==
  {s \in Snapshots : StepOutcome(s[1], s[2]) \in {"OutputAssetNotFound", "SourceAssetNotFound"}}
=============================================================================
