--------------------------- MODULE BlocksGraphLemmas ---------------------------
(***************************************************************************)
(* What the operations of the block tree keep, proved for every set of     *)
(* hashes, every graph and every argument.  The first lemma of each        *)
(* operation says what it does to the node set, to the connected and       *)
(* pending sets, to the parent hashes and to the logs; well-formedness     *)
(* follows from that by set reasoning.                                     *)
(*                                                                         *)
(* The second half ties the tree to the chain honest providers follow      *)
(* (RealChain): every operation keeps the ancestry of a block an image of  *)
(* its real one (Tied), and where finality stops no unseen log lies below, *)
(* so that the state folded from the tree is the real one (CompleteFold).  *)
(***************************************************************************)
EXTENDS RealChain, FiniteSetTheorems, TLAPS

(***************************************************************************)
(* Finite sets.  The induction theorems of the library take a predicate,   *)
(* which the provers cannot instantiate; the existence of a least          *)
(* counterexample can be cited instead.                                    *)
(***************************************************************************)

\* A set of subsets of a finite set has a least member.
LEMMA SmallestSubset ==
  ASSUME NEW W, IsFiniteSet(W), NEW T, T \subseteq SUBSET W, T # {}
  PROVE  \E s \in T : \A t \in T : t \subseteq s => t = s
<1>1. T \subseteq FiniteSubsetsOf(W)
  BY FS_FiniteSubsetsOfFinite
<1>2. PICK s \in T : \A t \in T : ~ (<<t, s>> \in StrictSubsetOrdering(W))
  BY <1>1, FS_StrictSubsetOrderingWellFounded, WFMin
<1>. QED
  BY <1>2 DEF StrictSubsetOrdering

\* A finite set of numbers has a greatest one: a member of a finite set that a
\* number is assigned to ranks highest.
LEMMA HighestMember ==
  ASSUME NEW W, IsFiniteSet(W), W # {}, NEW rank \in [W -> Int]
  PROVE  \E s \in W : \A t \in W : rank[t] <= rank[s]
<1> DEFINE Top(S) == \E s \in S : \A t \in S : rank[t] <= rank[s]
           T == {S \in SUBSET W : S # {} /\ ~Top(S)}
<1> SUFFICES ASSUME T # {} PROVE FALSE
  OBVIOUS
<1>1. T \subseteq SUBSET W
  OBVIOUS
<1>2. PICK S \in T : \A U \in T : U \subseteq S => U = S
  <2> HIDE DEF T
  <2>. QED
    BY <1>1, SmallestSubset
<1>3. PICK x \in S : TRUE
  OBVIOUS
<1>4. S \ {x} # {}
  BY <1>3
<1>5. Top(S \ {x})
  <2>1. S \ {x} \in SUBSET W /\ S \ {x} \subseteq S /\ S \ {x} # S
    BY <1>3
  <2> HIDE DEF Top
  <2>. QED
    BY <1>2, <1>4, <2>1
<1>6. PICK s \in S \ {x} : \A t \in S \ {x} : rank[t] <= rank[s]
  BY <1>5
<1>7. rank[x] \in Int /\ rank[s] \in Int /\ \A t \in S : rank[t] \in Int
  OBVIOUS
<1>8. CASE rank[x] <= rank[s]
  BY <1>6, <1>8
<1>9. CASE rank[s] < rank[x]
  BY <1>6, <1>7, <1>9
<1>. QED
  BY <1>7, <1>8, <1>9

\* The image of a finite set is finite.
LEMMA FiniteImage ==
  ASSUME NEW W, IsFiniteSet(W), NEW f, DOMAIN f = W
  PROVE  IsFiniteSet({f[x] : x \in W})
<1> DEFINE T == {f[x] : x \in W}
           F == [x \in W |-> f[x]]
<1>1. F \in Surjection(W, T)
  BY DEF Surjection
<1>. QED
  BY <1>1, FS_Surjection

(***************************************************************************)
(* Folds: a recursive function over the subsets of a finite set.           *)
(***************************************************************************)
\* f folds the subsets of W: from `base`, by `next` of the picked element and of the
\* value without it.
IsFold(f, W, base, pick, next) ==
  f = [s \in SUBSET W |-> IF s = {} THEN base ELSE next[<<pick[s], f[s \ {pick[s]}]>>]]

\* A fold is determined on the subsets it is defined on.
LEMMA FoldUnique ==
  ASSUME NEW W, IsFiniteSet(W), NEW base, NEW next, NEW pick, \A s \in SUBSET W : s # {} => pick[s] \in s,
         NEW f, NEW g, NEW U \in SUBSET W, NEW V \in SUBSET U,
         IsFold(f, U, base, pick, next), IsFold(g, V, base, pick, next)
  PROVE  \A s \in SUBSET V : f[s] = g[s]
<1> DEFINE T == {s \in SUBSET V : f[s] # g[s]}
<1> SUFFICES ASSUME T # {} PROVE FALSE
  OBVIOUS
<1>0. T \subseteq SUBSET W
  OBVIOUS
<1>1. PICK s \in T : \A t \in T : t \subseteq s => t = s
  <2> HIDE DEF T
  <2>. QED
    BY <1>0, SmallestSubset
<1>2. f[s] = IF s = {} THEN base ELSE next[<<pick[s], f[s \ {pick[s]}]>>]
  BY DEF IsFold
<1>3. g[s] = IF s = {} THEN base ELSE next[<<pick[s], g[s \ {pick[s]}]>>]
  BY DEF IsFold
<1>4. s # {} => f[s \ {pick[s]}] = g[s \ {pick[s]}]
  <2>1. s # {} => s \ {pick[s]} # s /\ s \ {pick[s]} \in SUBSET V
    OBVIOUS
  <2>. QED
    BY <1>1, <2>1
<1>. QED
  BY <1>2, <1>3, <1>4

\* A fold over a finite set exists: glue together those of the smaller subsets.
LEMMA FoldExists ==
  ASSUME NEW W, IsFiniteSet(W), NEW base, NEW next, NEW pick, \A s \in SUBSET W : s # {} => pick[s] \in s
  PROVE  \E f : IsFold(f, W, base, pick, next)
<1> DEFINE Has(s) == \E f : IsFold(f, s, base, pick, next)
           F(s) == CHOOSE f : IsFold(f, s, base, pick, next)
           T == {s \in SUBSET W : ~Has(s)}
<1> SUFFICES ASSUME T # {} PROVE FALSE
  OBVIOUS
<1>0. T \subseteq SUBSET W
  OBVIOUS
<1>1. PICK s \in T : \A t \in T : t \subseteq s => t = s
  <2> HIDE DEF T
  <2>. QED
    BY <1>0, SmallestSubset
<1>2. ASSUME NEW t \in SUBSET s, t # s
      PROVE  IsFold(F(t), t, base, pick, next)
  BY <1>1, <1>2
<1> DEFINE less(t) == t \ {pick[t]}
           G == [t \in SUBSET s |-> IF t = {} THEN base ELSE next[<<pick[t], F(less(t))[less(t)]>>]]
<1>3. ASSUME NEW t \in SUBSET s, t # {}
      PROVE  less(t) \in SUBSET s /\ less(t) # s
  BY <1>3
<1>4. ASSUME NEW t \in SUBSET s, t # s
      PROVE  G[t] = F(t)[t]
  <2>1. IsFold(F(t), t, base, pick, next)
    BY <1>2, <1>4
  <2>2. F(t)[t] = IF t = {} THEN base ELSE next[<<pick[t], F(t)[less(t)]>>]
    <3> DEFINE h == F(t)
    <3> HIDE DEF h
    <3>1. IsFold(h, t, base, pick, next)
      BY <2>1 DEF h
    <3>. QED
      BY <3>1 DEF IsFold, h
  <2>3. t # {} => F(t)[less(t)] = F(less(t))[less(t)]
    <3> SUFFICES ASSUME t # {} PROVE F(t)[less(t)] = F(less(t))[less(t)]
      OBVIOUS
    <3>1. IsFold(F(less(t)), less(t), base, pick, next)
      BY <1>2, <1>3
    <3>2. less(t) \in SUBSET t /\ t \in SUBSET W
      OBVIOUS
    <3> HIDE DEF F, less
    <3>. QED
      BY <2>1, <3>1, <3>2, FoldUnique
  <2>. QED
    BY <2>2, <2>3
<1>5. IsFold(G, s, base, pick, next)
  <2>1. ASSUME NEW t \in SUBSET s, t # {}
        PROVE  F(less(t))[less(t)] = G[less(t)]
    <3> HIDE DEF G, F
    <3>. QED
      BY <1>3, <1>4, <2>1
  <2>2. G = [t \in SUBSET s |-> IF t = {} THEN base ELSE next[<<pick[t], G[less(t)]>>]]
    <3> DEFINE H == [t \in SUBSET s |-> IF t = {} THEN base ELSE next[<<pick[t], G[less(t)]>>]]
    <3>1. ASSUME NEW t \in SUBSET s PROVE G[t] = H[t]
      <4>1. CASE t = {}
        BY <4>1
      <4>2. CASE t # {}
        <5>1. F(less(t))[less(t)] = G[less(t)]
          BY <2>1, <4>2
        <5> DEFINE v == F(less(t))[less(t)]
                   w == G[less(t)]
        <5>2. G[t] = next[<<pick[t], v>>]
          BY <4>2
        <5>3. H[t] = next[<<pick[t], w>>]
          <6> HIDE DEF G
          <6>. QED
            BY <4>2
        <5> HIDE DEF v, w, G, H
        <5>. QED
          BY <5>1, <5>2, <5>3 DEF v, w
      <4>. QED
        BY <4>1, <4>2
    <3>. QED
      BY <3>1
  <2>. QED
    BY <2>2 DEF IsFold
<1>. QED
  BY <1>1, <1>5

\* What holds of the base and is kept by every step holds of every fold.
LEMMA FoldKeeps ==
  ASSUME NEW W, IsFiniteSet(W), NEW base, NEW next, NEW pick, \A s \in SUBSET W : s # {} => pick[s] \in s,
         NEW f, IsFold(f, W, base, pick, next),
         NEW X, base \in X, \A e \in W, x \in X : next[<<e, x>>] \in X
  PROVE  \A s \in SUBSET W : f[s] \in X
<1> DEFINE T == {s \in SUBSET W : f[s] \notin X}
<1> SUFFICES ASSUME T # {} PROVE FALSE
  OBVIOUS
<1>1. T \subseteq SUBSET W
  OBVIOUS
<1>2. PICK s \in T : \A t \in T : t \subseteq s => t = s
  <2> HIDE DEF T
  <2>. QED
    BY <1>1, SmallestSubset
<1>3. f[s] = IF s = {} THEN base ELSE next[<<pick[s], f[s \ {pick[s]}]>>]
  BY DEF IsFold
<1>4. s # {} => pick[s] \in W /\ f[s \ {pick[s]}] \in X
  <2>1. s # {} => s \ {pick[s]} # s /\ s \ {pick[s]} \in SUBSET W /\ pick[s] \in W
    OBVIOUS
  <2>. QED
    BY <1>2, <2>1
<1>. QED
  BY <1>3, <1>4

\* So a fold that stays within X exists.
FoldsWithin(X, W, base, pick, next) ==
  /\ IsFiniteSet(W) /\ base \in X
  /\ \A s \in SUBSET W : s # {} => pick[s] \in s
  /\ \A e \in W, x \in X : next[<<e, x>>] \in X

LEMMA FoldWithin ==
  ASSUME NEW X, NEW W, NEW base, NEW pick, NEW next, FoldsWithin(X, W, base, pick, next)
  PROVE  \E f : IsFold(f, W, base, pick, next) /\ \A s \in SUBSET W : f[s] \in X
<1> USE DEF FoldsWithin
<1>1. PICK f : IsFold(f, W, base, pick, next)
  BY FoldExists
<1>2. \A s \in SUBSET W : f[s] \in X
  BY <1>1, FoldKeeps
<1>. QED
  BY <1>1, <1>2

(***************************************************************************)
(* Reachability by child edges.                                            *)
(***************************************************************************)

\* The reached set lies within its universe, holds every child of the top and of
\* its own members, and each of its members is such a child.
LEMMA DescendantsClosed ==
  ASSUME NEW g, NEW within, NEW top
  PROVE  LET D == Descendants(g, within, top)
         IN /\ D \subseteq within
            /\ \A c \in within : ParentHash(g, c) \in D \cup {top} => c \in D
            /\ \A c \in D : ParentHash(g, c) \in D \cup {top}
<1> DEFINE D == Descendants(g, within, top)
           Closed(S) == \A c \in within : ParentHash(g, c) \in S \cup {top} => c \in S
<1>1. D \subseteq within
  BY DEF Descendants
<1>2. ASSUME NEW S \in SUBSET within, Closed(S)
      PROVE  D \subseteq S
  BY <1>2 DEF Descendants
<1>3. ASSUME NEW c \in within, ParentHash(g, c) \in D \cup {top}
      PROVE  c \in D
  <2>1. SUFFICES ASSUME NEW S \in SUBSET within, Closed(S)
                 PROVE  c \in S
    BY DEF Descendants
  <2>2. D \subseteq S
    BY <1>2, <2>1
  <2>. QED
    BY <1>3, <2>1, <2>2
<1>4. ASSUME NEW c \in D, ParentHash(g, c) \notin D \cup {top}
      PROVE  FALSE
  <2>1. D \ {c} \in SUBSET within
    BY <1>1
  <2>2. Closed(D \ {c})
    BY <1>3, <1>4
  <2>3. D \subseteq D \ {c}
    BY <1>2, <2>1, <2>2
  <2>. QED
    BY <2>3
<1>. QED
  BY <1>1, <1>3, <1>4

\* It is the least such set.
LEMMA DescendantsLeast ==
  ASSUME NEW g, NEW within, NEW top, NEW S \in SUBSET within,
         \A c \in within : ParentHash(g, c) \in S \cup {top} => c \in S
  PROVE  Descendants(g, within, top) \subseteq S
BY DEF Descendants

\* No member of the reached set lies on a cycle of parent hashes that stays
\* clear of the top.
LEMMA DescendantsGrounded ==
  ASSUME NEW g, NEW within, NEW top, NEW S \in SUBSET Descendants(g, within, top),
         top \notin within, S # {}
  PROVE  \E x \in S : ParentHash(g, x) \notin S
<1> DEFINE D == Descendants(g, within, top)
<1> SUFFICES ASSUME \A x \in S : ParentHash(g, x) \in S
             PROVE  FALSE
  OBVIOUS
<1>1. /\ D \subseteq within
      /\ \A c \in within : ParentHash(g, c) \in D \cup {top} => c \in D
  BY DescendantsClosed
<1>2. top \notin S
  BY <1>1
<1>3. ASSUME NEW c \in within, ParentHash(g, c) \in (D \ S) \cup {top}
      PROVE  c \in D \ S
  BY <1>1, <1>2, <1>3
<1>4. D \ S \in SUBSET within
  BY <1>1
<1>5. ASSUME NEW T \in SUBSET within,
             \A c \in within : ParentHash(g, c) \in T \cup {top} => c \in T
      PROVE  D \subseteq T
  BY <1>5, DescendantsLeast
<1>6. D \subseteq D \ S
  <2> HIDE DEF D
  <2>. QED
    BY <1>3, <1>4, <1>5
<1>. QED
  BY <1>6

(***************************************************************************)
(* Reachability by parent references.                                      *)
(***************************************************************************)

\* The walk up from `start` holds `start`, stays in its universe and takes every
\* parent that lies in it.
LEMMA AncestorsClosed ==
  ASSUME NEW g, NEW within, NEW start \in within
  PROVE  LET A == Ancestors(g, within, start)
         IN /\ A \subseteq within /\ start \in A
            /\ \A c \in A : ParentHash(g, c) \in within => ParentHash(g, c) \in A
BY DEF Ancestors

\* It is the least such set.
LEMMA AncestorsLeast ==
  ASSUME NEW g, NEW within, NEW start, NEW S \in SUBSET within, start \in S,
         \A c \in S : ParentHash(g, c) \in within => ParentHash(g, c) \in S
  PROVE  Ancestors(g, within, start) \subseteq S
BY DEF Ancestors

\* A chain walk within a walk: what leads to a member of the chain is on the chain.
LEMMA AncestorsTransitive ==
  ASSUME NEW g, NEW within, NEW top \in within, NEW mid \in Ancestors(g, within, top)
  PROVE  Ancestors(g, within, mid) \subseteq Ancestors(g, within, top)
BY DEF Ancestors

\* Whatever a walk reaches beyond its start it reaches through the start's parent.
LEMMA AncestorsStep ==
  ASSUME NEW g, NEW within, NEW start \in within,
         NEW x \in Ancestors(g, within, start), x # start
  PROVE  /\ ParentHash(g, start) \in within
         /\ x \in Ancestors(g, within, ParentHash(g, start))
<1> DEFINE p == ParentHash(g, start)
<1>1. p \in within
  <2> SUFFICES ASSUME p \notin within PROVE FALSE
    OBVIOUS
  <2>1. {start} \in SUBSET within /\ start \in {start}
    OBVIOUS
  <2>2. \A c \in {start} : ParentHash(g, c) \in within => ParentHash(g, c) \in {start}
    OBVIOUS
  <2>3. Ancestors(g, within, start) \subseteq {start}
    BY <2>1, <2>2, AncestorsLeast
  <2>. QED
    BY <2>3
<1>2. x \in Ancestors(g, within, p)
  <2> DEFINE A == Ancestors(g, within, p)
             S == A \cup {start}
  <2>1. /\ A \subseteq within /\ p \in A
        /\ \A c \in A : ParentHash(g, c) \in within => ParentHash(g, c) \in A
    BY <1>1, AncestorsClosed
  <2> HIDE DEF A
  <2>2. S \in SUBSET within /\ start \in S
    BY <2>1
  <2>3. \A c \in S : ParentHash(g, c) \in within => ParentHash(g, c) \in S
    BY <2>1
  <2> HIDE DEF S
  <2>4. Ancestors(g, within, start) \subseteq S
    BY <2>2, <2>3, AncestorsLeast
  <2>. QED
    BY <2>4 DEF A, S
<1>. QED
  BY <1>1, <1>2

\* Two blocks of a grounded tree do not lie on each other's chains.
LEMMA AncestorsAntisymmetric ==
  ASSUME NEW g, Grounded(g), NEW a \in ConnectedSet(g),
         NEW b \in Ancestors(g, ConnectedSet(g), a),
         a \in Ancestors(g, ConnectedSet(g), b)
  PROVE  a = b
<1> DEFINE C    == ConnectedSet(g)
           A(y) == Ancestors(g, C, y)
           S    == {z \in A(a) : a \in A(z)}
<1> SUFFICES ASSUME a # b PROVE FALSE
  OBVIOUS
<1>1. \A y \in C : A(y) \subseteq C /\ y \in A(y)
  BY AncestorsClosed
<1>2. \A y \in C : \A x \in A(y) : A(x) \subseteq A(y)
  BY AncestorsTransitive
<1>3. \A y \in C : \A x \in A(y) : x # y => ParentHash(g, y) \in C /\ x \in A(ParentHash(g, y))
  BY AncestorsStep
<1>4. \A y \in C : \A c \in A(y) : ParentHash(g, c) \in C => ParentHash(g, c) \in A(y)
  BY AncestorsClosed
<1>5. b \in A(a) /\ a \in A(b)
  OBVIOUS
<1> HIDE DEF A
<1>6. S \in SUBSET C /\ S # {}
  BY <1>1, <1>5
<1>7. ASSUME NEW z \in S PROVE ParentHash(g, z) \in S
  <2>1. CASE z = a
    <3>1. ParentHash(g, a) \in C /\ b \in A(ParentHash(g, a))
      BY <1>3, <1>5
    <3>2. a \in A(ParentHash(g, a))
      BY <1>2, <1>5, <3>1
    <3>. QED
      BY <1>1, <1>4, <2>1, <3>1, <3>2
  <2>2. CASE z # a
    <3>1. z \in C /\ ParentHash(g, z) \in C /\ a \in A(ParentHash(g, z))
      BY <1>1, <1>3, <2>2
    <3>. QED
      BY <1>4, <3>1
  <2>. QED
    BY <2>1, <2>2
<1> HIDE DEF S
<1>. QED
  BY <1>6, <1>7 DEF Grounded

\* The chain below a block is a line: of two of its members one is below the other.
LEMMA AncestorsLinear ==
  ASSUME NEW g, NEW within, NEW top \in within,
         NEW x \in Ancestors(g, within, top), NEW y \in Ancestors(g, within, top)
  PROVE  x \in Ancestors(g, within, y) \/ y \in Ancestors(g, within, x)
<1> DEFINE A(z) == Ancestors(g, within, z)
           T    == {z \in A(top) : x \in A(z) \/ z \in A(x)}
<1>1. \A z \in within : /\ A(z) \subseteq within /\ z \in A(z)
                        /\ \A c \in A(z) : ParentHash(g, c) \in within => ParentHash(g, c) \in A(z)
  BY AncestorsClosed
<1>2. \A z \in within : x \in A(z) /\ x # z => x \in A(ParentHash(g, z))
  BY AncestorsStep
<1>3. T \in SUBSET within /\ top \in T
  BY <1>1
<1>4. ASSUME NEW c \in T, ParentHash(g, c) \in within PROVE ParentHash(g, c) \in T
  <2> DEFINE p == ParentHash(g, c)
  <2>1. c \in within /\ x \in within /\ top \in within /\ c \in A(top) /\ (x \in A(c) \/ c \in A(x))
    BY <1>1
  <2> HIDE DEF A
  <2>2. p \in A(top)
    BY <1>1, <1>4, <2>1
  <2>3. x \in A(p) \/ p \in A(x)
    BY <1>1, <1>2, <1>4, <2>1
  <2>. QED
    BY <2>2, <2>3
<1> HIDE DEF T
<1>5. A(top) \subseteq T
  BY <1>3, <1>4, AncestorsLeast
<1>. QED
  BY <1>5 DEF T

\* Between a block and a member of its chain lies a child of the member.
LEMMA AncestorsChild ==
  ASSUME NEW g, NEW within, NEW top \in within, NEW x \in Ancestors(g, within, top), x # top
  PROVE  \E c \in Ancestors(g, within, top) : ParentHash(g, c) = x
<1> SUFFICES ASSUME \A c \in Ancestors(g, within, top) : ParentHash(g, c) # x PROVE FALSE
  OBVIOUS
<1> DEFINE S == Ancestors(g, within, top) \ {x}
<1>1. /\ S \in SUBSET within /\ top \in S
      /\ \A c \in S : ParentHash(g, c) \in within => ParentHash(g, c) \in S
  BY AncestorsClosed
<1> HIDE DEF S
<1>2. Ancestors(g, within, top) \subseteq S
  BY <1>1, AncestorsLeast
<1>. QED
  BY <1>2 DEF S

(***************************************************************************)
(* Admission.                                                              *)
(***************************************************************************)

\* A graph is a record whose nodes are a function into Node.
LEMMA GraphParts ==
  ASSUME NEW g, IsGraph(g)
  PROVE  /\ g = [anchor |-> g.anchor, number |-> g.number, head |-> g.head, nodes |-> g.nodes]
         /\ g.anchor \in Block /\ g.number \in Nat /\ g.head \in Block
         /\ Present(g) \in SUBSET Block
         /\ g.nodes \in [Present(g) -> Node]
BY DEF IsGraph, Present

\* T2 and T6 together: connected is the same as reaching the anchor.
LEMMA ConnectedReachesAnchor ==
  ASSUME NEW g, IsGraph(g), WellFormed(g), NEW h \in Present(g)
  PROVE  h \in ConnectedSet(g) <=>
           \E x \in Ancestors(g, Present(g), h) : ParentHash(g, x) = g.anchor
<1> DEFINE P == Present(g)
           C == ConnectedSet(g)
           A == Ancestors(g, P, h)
<1>1. /\ A \subseteq P /\ h \in A
      /\ \A c \in A : ParentHash(g, c) \in P => ParentHash(g, c) \in A
  BY AncestorsClosed
<1>2. C \subseteq P /\ PendingSet(g) \subseteq P /\ C \cap PendingSet(g) = {}
  BY DEF ConnectedSet, PendingSet
<1>3. CASE h \in C
  <2>1. \A c \in C : ParentHash(g, c) \in P => ParentHash(g, c) \in C
    BY DEF WellFormed, ParentsConnected, AnchorNotNode
  <2>2. A \subseteq C
    BY <1>2, <1>3, <2>1, AncestorsLeast
  <2> HIDE DEF A
  <2>3. PICK x \in A : ParentHash(g, x) \notin A
    BY <1>1, <2>2 DEF WellFormed, Grounded
  <2>4. ParentHash(g, x) = g.anchor
    BY <1>1, <1>2, <2>2, <2>3 DEF WellFormed, ParentsConnected
  <2>. QED
    BY <1>3, <2>4 DEF A
<1>4. CASE h \notin C /\ \E x \in A : ParentHash(g, x) = g.anchor
  <2>0. \A c \in P : g.nodes[c].kind \in Kind
    BY GraphParts DEF Node
  <2>1. \A c \in PendingSet(g) :
          /\ ParentHash(g, c) # g.anchor
          /\ ParentHash(g, c) \notin C
    BY DEF WellFormed, PendingUnreachable, ParentHash
  <2>2. \A c \in P \ C : c \in PendingSet(g)
    BY <2>0 DEF ConnectedSet, PendingSet, Kind
  <2>3. A \subseteq PendingSet(g)
    BY <1>2, <1>4, <2>1, <2>2, AncestorsLeast
  <2>. QED
    BY <1>4, <2>1, <2>3
<1>. QED
  BY <1>3, <1>4 DEF A

LEMMA MakeGraph ==
  ASSUME NEW a \in Block, NEW n \in Nat, NEW h \in Block,
         NEW N \in SUBSET Block, NEW f \in [N -> Node]
  PROVE  IsGraph([anchor |-> a, number |-> n, head |-> h, nodes |-> f])
BY DEF IsGraph

LEMMA NodeParts ==
  ASSUME NEW n \in Node
  PROVE  /\ n = [kind |-> n.kind, parent |-> n.parent, number |-> n.number,
                 bloom |-> n.bloom, level |-> n.level, logs |-> n.logs]
         /\ n.kind \in Kind /\ n.parent \in Block \cup {AnchorRef}
         /\ \A k \in Kind : /\ [n EXCEPT !.kind = k] \in Node
                            /\ [n EXCEPT !.kind = k].kind = k
                            /\ [n EXCEPT !.kind = k].parent = n.parent
                            /\ [n EXCEPT !.kind = k].level = n.level
                            /\ [n EXCEPT !.kind = k].logs = n.logs
         /\ /\ [n EXCEPT !.parent = AnchorRef] \in Node
            /\ [n EXCEPT !.parent = AnchorRef].kind = n.kind
            /\ [n EXCEPT !.parent = AnchorRef].parent = AnchorRef
            /\ [n EXCEPT !.parent = AnchorRef].level = n.level
            /\ [n EXCEPT !.parent = AnchorRef].logs = n.logs
BY DEF Node

\* What the insertion of one node changes.
LEMMA InsertedNode ==
  ASSUME NEW g, IsGraph(g), NEW hash \in Block, NEW node \in Node, hash \notin Present(g)
  PROVE  LET g1 == [g EXCEPT !.nodes = WithNode(@, hash, node)]
         IN /\ IsGraph(g1)
            /\ g1.anchor = g.anchor /\ g1.number = g.number /\ g1.head = g.head
            /\ Present(g1) = Present(g) \cup {hash}
            /\ g1.nodes[hash] = node
            /\ \A h \in Present(g) : g1.nodes[h] = g.nodes[h]
            /\ \A h \in Present(g) : ParentHash(g1, h) = ParentHash(g, h)
<1> DEFINE f  == WithNode(g.nodes, hash, node)
           g1 == [g EXCEPT !.nodes = WithNode(@, hash, node)]
<1>1. g1 = [anchor |-> g.anchor, number |-> g.number, head |-> g.head, nodes |-> f]
  BY GraphParts
<1>2. /\ Present(g) \cup {hash} \in SUBSET Block
      /\ f \in [Present(g) \cup {hash} -> Node]
  BY GraphParts DEF WithNode, Present
<1>3. IsGraph(g1)
  BY <1>1, <1>2, GraphParts, MakeGraph
<1>4. /\ Present(g1) = Present(g) \cup {hash}
      /\ g1.nodes[hash] = node
      /\ \A h \in Present(g) : g1.nodes[h] = g.nodes[h]
      /\ g1.anchor = g.anchor /\ g1.number = g.number /\ g1.head = g.head
  BY <1>1 DEF WithNode, Present
<1>5. \A h \in Present(g) : ParentHash(g1, h) = ParentHash(g, h)
  BY <1>4 DEF ParentHash
<1>. QED
  BY <1>3, <1>4, <1>5

\* A block's logs and what is known of them.
SameLogs(g2, g, h) == g2.nodes[h].level = g.nodes[h].level /\ g2.nodes[h].logs = g.nodes[h].logs

\* An operation that brings in one block at most, with these logs.
Brings(g, g2, hash, data) ==
  \A h \in Present(g2) \ Present(g) :
    h = hash /\ g2.nodes[h].level = data.level /\ g2.nodes[h].logs = data.logs

\* An operation that keeps the anchor, every block and every block's logs.
LogsKept(g, g2) ==
  /\ g2.anchor = g.anchor
  /\ Present(g) \subseteq Present(g2)
  /\ \A h \in Present(g) : SameLogs(g2, g, h)

\* What promotion changes: the kind of the promoted nodes, nothing else.
LEMMA PromotedNodes ==
  ASSUME NEW g, IsGraph(g), NEW hash
  PROVE  LET g2 == PromoteReachable(g, hash)
             D  == PromotedBy(g, hash)
         IN /\ IsGraph(g2)
            /\ g2.anchor = g.anchor /\ g2.head = g.head
            /\ Present(g2) = Present(g)
            /\ ConnectedSet(g2) = ConnectedSet(g) \cup D
            /\ PendingSet(g2) = PendingSet(g) \ D
            /\ \A h \in Present(g) : g2.nodes[h].parent = g.nodes[h].parent
            /\ \A h \in Present(g) : SameLogs(g2, g, h)
            /\ \A h \in Present(g) : ParentHash(g2, h) = ParentHash(g, h)
<1> DEFINE D  == PromotedBy(g, hash)
           f  == [h \in DOMAIN g.nodes |->
                    IF h \in D THEN [g.nodes[h] EXCEPT !.kind = "Connected"] ELSE g.nodes[h]]
           g2 == PromoteReachable(g, hash)
<1>1. g2 = [anchor |-> g.anchor, number |-> g.number, head |-> g.head, nodes |-> f]
  BY GraphParts DEF PromoteReachable
<1>2. f \in [Present(g) -> Node]
  <2>1. \A h \in Present(g) : g.nodes[h] \in Node
    BY GraphParts
  <2>2. \A h \in Present(g) : [g.nodes[h] EXCEPT !.kind = "Connected"] \in Node
    BY <2>1, NodeParts DEF Kind
  <2> HIDE DEF D
  <2>. QED
    BY <2>1, <2>2 DEF Present
<1>3. IsGraph(g2)
  <2> HIDE DEF f, g2
  <2>. QED
    BY <1>1, <1>2, GraphParts, MakeGraph
<1>4. D \subseteq PendingSet(g)
  BY DescendantsClosed DEF PromotedBy
<1>5. /\ Present(g2) = Present(g) /\ g2.anchor = g.anchor /\ g2.head = g.head
      /\ \A h \in Present(g) : g2.nodes[h] = f[h]
  BY <1>1 DEF Present
<1>6. ASSUME NEW h \in Present(g)
      PROVE  /\ g2.nodes[h].parent = g.nodes[h].parent
             /\ SameLogs(g2, g, h)
             /\ g2.nodes[h].kind = IF h \in D THEN "Connected" ELSE g.nodes[h].kind
  <2>1. g.nodes[h] \in Node
    BY GraphParts
  <2>2. g2.nodes[h] = IF h \in D THEN [g.nodes[h] EXCEPT !.kind = "Connected"] ELSE g.nodes[h]
    BY <1>5 DEF Present
  <2> HIDE DEF D, g2
  <2>. QED
    BY <2>1, <2>2, NodeParts DEF Kind, SameLogs
<1>7. ConnectedSet(g2) = ConnectedSet(g) \cup D
  BY <1>4, <1>5, <1>6 DEF ConnectedSet, PendingSet
<1>8. PendingSet(g2) = PendingSet(g) \ D
  BY <1>4, <1>5, <1>6 DEF PendingSet
<1>9. \A h \in Present(g) : ParentHash(g2, h) = ParentHash(g, h)
  BY <1>5, <1>6 DEF ParentHash
<1>. QED
  BY <1>3, <1>5, <1>6, <1>7, <1>8, <1>9

\* What a connected insertion of `hash` that promotes D makes of g.
ConnectedInsertion(g, g2, hash, parent, data, D) ==
  /\ IsGraph(g2)
  /\ g2.anchor = g.anchor /\ g2.head = g.head
  /\ Present(g2) = Present(g) \cup {hash}
  /\ ConnectedSet(g2) = ConnectedSet(g) \cup {hash} \cup D
  /\ PendingSet(g2) = PendingSet(g) \ D
  /\ \A h \in Present(g) : g2.nodes[h].parent = g.nodes[h].parent
  /\ \A h \in Present(g) : SameLogs(g2, g, h)
  /\ \A h \in Present(g) : ParentHash(g2, h) = ParentHash(g, h)
  /\ ParentHash(g2, hash) = parent
  /\ Brings(g, g2, hash, data)
  /\ \A c \in PendingSet(g) : ParentHash(g, c) \in D \cup {hash} => c \in D
  /\ \A c \in D : ParentHash(g, c) \in D \cup {hash}
  /\ \A S \in SUBSET D : S # {} => \E x \in S : ParentHash(g, x) \notin S

\* The promoted nodes are pending ones; they and the new node join the connected set.
LEMMA InsertConnectedParts ==
  ASSUME NEW g, IsGraph(g), NEW hash \in Block, NEW parent \in Block, NEW data \in BlockData,
         hash \notin Present(g)
  PROVE  \E D \in SUBSET PendingSet(g) :
           ConnectedInsertion(g, InsertConnected(g, hash, parent, data), hash, parent, data, D)
<1> DEFINE ref  == IF parent = g.anchor THEN AnchorRef ELSE parent
           node == MkNode("Connected", ref, data)
           g1   == [g EXCEPT !.nodes = WithNode(@, hash, node)]
           g2   == InsertConnected(g, hash, parent, data)
           D    == PromotedBy(g1, hash)
<1>1. /\ node \in Node /\ node.kind = "Connected" /\ node.parent = ref
      /\ node.level = data.level /\ node.logs = data.logs
  BY DEF MkNode, Node, BlockData, Kind
<1> HIDE DEF node
<1>2. /\ IsGraph(g1)
      /\ g1.anchor = g.anchor /\ g1.head = g.head
      /\ Present(g1) = Present(g) \cup {hash}
      /\ g1.nodes[hash] = node
      /\ \A h \in Present(g) : g1.nodes[h] = g.nodes[h]
      /\ \A h \in Present(g) : ParentHash(g1, h) = ParentHash(g, h)
  BY <1>1, InsertedNode
<1>3. g2 = PromoteReachable(g1, hash)
  BY DEF InsertConnected, node
<1> HIDE DEF g1, g2
<1>4. ConnectedSet(g1) = ConnectedSet(g) \cup {hash} /\ PendingSet(g1) = PendingSet(g)
  BY <1>1, <1>2 DEF ConnectedSet, PendingSet
<1>5. ParentHash(g1, hash) = parent
  BY <1>1, <1>2, AnchorRefAssumption DEF ParentHash
<1>6. /\ IsGraph(g2)
      /\ g2.anchor = g1.anchor /\ g2.head = g1.head
      /\ Present(g2) = Present(g1)
      /\ ConnectedSet(g2) = ConnectedSet(g1) \cup D
      /\ PendingSet(g2) = PendingSet(g1) \ D
      /\ \A h \in Present(g1) : g2.nodes[h].parent = g1.nodes[h].parent
      /\ \A h \in Present(g1) : SameLogs(g2, g1, h)
      /\ \A h \in Present(g1) : ParentHash(g2, h) = ParentHash(g1, h)
  BY <1>2, <1>3, PromotedNodes
<1>7. PendingSet(g) \subseteq Present(g) /\ hash \notin PendingSet(g)
  BY DEF PendingSet
<1>8. /\ D \subseteq PendingSet(g)
      /\ \A c \in PendingSet(g) : ParentHash(g1, c) \in D \cup {hash} => c \in D
      /\ \A c \in D : ParentHash(g1, c) \in D \cup {hash}
  BY <1>4, DescendantsClosed DEF PromotedBy
<1>9. \A S \in SUBSET D : S # {} => \E x \in S : ParentHash(g1, x) \notin S
  BY <1>4, <1>7, DescendantsGrounded DEF PromotedBy
<1> HIDE DEF D
<1>10. \A c \in PendingSet(g) : ParentHash(g1, c) = ParentHash(g, c)
  BY <1>2, <1>7
<1>11. \A S \in SUBSET D : S # {} => \E x \in S : ParentHash(g, x) \notin S
  BY <1>8, <1>9, <1>10
<1>12. Brings(g, g2, hash, data)
  BY <1>1, <1>2, <1>6 DEF Brings, SameLogs
<1>13. ConnectedInsertion(g, g2, hash, parent, data, D)
  BY <1>2, <1>4, <1>5, <1>6, <1>8, <1>10, <1>11, <1>12 DEF ConnectedInsertion, SameLogs
<1>. QED
  BY <1>8, <1>13 DEF g2

\* Kept by an admission that connects: promotion is exhaustive (T6), no cycle of
\* pending blocks is connected (T3).
LEMMA InsertConnectedWellFormed ==
  ASSUME NEW g, IsGraph(g), WellFormed(g),
         NEW hash \in Block, NEW parent \in Block, NEW data \in BlockData,
         hash # parent, hash # g.anchor, hash \notin Present(g), Connects(g, parent)
  PROVE  /\ IsGraph(InsertConnected(g, hash, parent, data))
         /\ WellFormed(InsertConnected(g, hash, parent, data))
         /\ LogsKept(g, InsertConnected(g, hash, parent, data))
         /\ Brings(g, InsertConnected(g, hash, parent, data), hash, data)
         /\ PendingSet(InsertConnected(g, hash, parent, data)) \subseteq PendingSet(g)
<1> DEFINE g2 == InsertConnected(g, hash, parent, data)
           C  == ConnectedSet(g)
<1>0. PICK D \in SUBSET PendingSet(g) : ConnectedInsertion(g, g2, hash, parent, data, D)
  BY InsertConnectedParts
<1>1. /\ IsGraph(g2)
      /\ g2.anchor = g.anchor /\ g2.head = g.head
      /\ Present(g2) = Present(g) \cup {hash}
      /\ ConnectedSet(g2) = C \cup {hash} \cup D
      /\ PendingSet(g2) = PendingSet(g) \ D
      /\ \A h \in Present(g) : g2.nodes[h].parent = g.nodes[h].parent
      /\ \A h \in Present(g) : SameLogs(g2, g, h)
      /\ \A h \in Present(g) : ParentHash(g2, h) = ParentHash(g, h)
      /\ ParentHash(g2, hash) = parent
      /\ Brings(g, g2, hash, data)
      /\ \A c \in PendingSet(g) : ParentHash(g, c) \in D \cup {hash} => c \in D
      /\ \A c \in D : ParentHash(g, c) \in D \cup {hash}
      /\ \A S \in SUBSET D : S # {} => \E x \in S : ParentHash(g, x) \notin S
  BY <1>0 DEF ConnectedInsertion
<1>2. C \subseteq Present(g) /\ PendingSet(g) \subseteq Present(g)
  BY DEF ConnectedSet, PendingSet
<1> HIDE DEF g2, C
<1>3. HeadKnown(g2)
  BY <1>1 DEF WellFormed, HeadKnown
<1>4. AnchorNotNode(g2)
  BY <1>1 DEF WellFormed, AnchorNotNode
<1>5. ParentsConnected(g2)
  <2> SUFFICES ASSUME NEW h \in ConnectedSet(g2)
               PROVE  ParentHash(g2, h) = g2.anchor \/ ParentHash(g2, h) \in ConnectedSet(g2)
    BY DEF ParentsConnected
  <2>1. CASE h \in C
    BY <1>1, <1>2, <2>1 DEF WellFormed, ParentsConnected, C
  <2>2. CASE h = hash
    BY <1>1, <2>2 DEF Connects, C
  <2>3. CASE h \in D
    BY <1>1, <1>2, <2>3
  <2>. QED
    BY <1>1, <2>1, <2>2, <2>3
<1>6. PendingUnreachable(g2)
  <2> SUFFICES ASSUME NEW h \in PendingSet(g2)
               PROVE  /\ g2.nodes[h].parent # AnchorRef
                      /\ g2.nodes[h].parent # g2.anchor
                      /\ g2.nodes[h].parent \notin ConnectedSet(g2)
    BY DEF PendingUnreachable
  <2>1. h \in PendingSet(g) /\ h \notin D
    BY <1>1
  <2>2. /\ g.nodes[h].parent # AnchorRef
        /\ g.nodes[h].parent # g.anchor
        /\ g.nodes[h].parent \notin C
    BY <2>1 DEF WellFormed, PendingUnreachable, C
  <2>3. ParentHash(g, h) = g.nodes[h].parent
    BY <2>2 DEF ParentHash
  <2>4. g.nodes[h].parent \notin D \cup {hash}
    BY <1>1, <2>1, <2>3
  <2>. QED
    BY <1>1, <1>2, <2>1, <2>2, <2>4
<1>7. Grounded(g2)
  <2> SUFFICES ASSUME NEW S \in SUBSET ConnectedSet(g2), S # {},
                      \A x \in S : ParentHash(g2, x) \in S
               PROVE  FALSE
    BY DEF Grounded
  <2>1. g.anchor \notin S
    BY <1>1, <1>4 DEF AnchorNotNode, ConnectedSet
  <2>2. S \cap C = {}
    <3> SUFFICES ASSUME S \cap C # {} PROVE FALSE
      OBVIOUS
    <3>1. \A x \in S \cap C : ParentHash(g, x) \in S \cap C
      BY <1>1, <1>2, <2>1 DEF WellFormed, ParentsConnected, C
    <3>. QED
      BY <3>1 DEF WellFormed, Grounded, C
  <2>3. hash \notin S
    BY <1>1, <2>1, <2>2 DEF Connects, C
  <2>4. S \in SUBSET D
    BY <1>1, <2>2, <2>3
  <2>5. \A x \in S : ParentHash(g, x) \in S
    BY <1>1, <1>2, <2>4
  <2>. QED
    BY <1>1, <2>4, <2>5
<1>. QED
  BY <1>1, <1>3, <1>4, <1>5, <1>6, <1>7 DEF WellFormed, LogsKept, g2

\* Kept by an admission that lands pending.
LEMMA InsertPendingWellFormed ==
  ASSUME NEW g, IsGraph(g), WellFormed(g),
         NEW hash \in Block, NEW parent \in Block, NEW data \in BlockData,
         hash # parent, hash # g.anchor, hash \notin Present(g), ~Connects(g, parent)
  PROVE  /\ IsGraph(InsertPending(g, hash, parent, data))
         /\ WellFormed(InsertPending(g, hash, parent, data))
         /\ LogsKept(g, InsertPending(g, hash, parent, data))
         /\ Brings(g, InsertPending(g, hash, parent, data), hash, data)
         /\ PendingSet(InsertPending(g, hash, parent, data)) = PendingSet(g) \cup {hash}
<1> DEFINE node == MkNode("Pending", parent, data)
           g1   == [g EXCEPT !.nodes = WithNode(@, hash, node)]
<1>1. /\ node \in Node /\ node.kind = "Pending" /\ node.parent = parent
      /\ node.level = data.level /\ node.logs = data.logs
  BY DEF MkNode, Node, BlockData, Kind
<1>2. g1 = InsertPending(g, hash, parent, data)
  BY DEF InsertPending
<1> HIDE DEF node
<1>3. /\ IsGraph(g1)
      /\ g1.anchor = g.anchor /\ g1.head = g.head
      /\ Present(g1) = Present(g) \cup {hash}
      /\ g1.nodes[hash] = node
      /\ \A h \in Present(g) : g1.nodes[h] = g.nodes[h]
      /\ \A h \in Present(g) : ParentHash(g1, h) = ParentHash(g, h)
  BY <1>1, InsertedNode
<1> HIDE DEF g1
<1>4. ConnectedSet(g1) = ConnectedSet(g) /\ PendingSet(g1) = PendingSet(g) \cup {hash}
  BY <1>1, <1>3 DEF ConnectedSet, PendingSet
<1>5. ConnectedSet(g) \subseteq Present(g) /\ PendingSet(g) \subseteq Present(g)
  BY DEF ConnectedSet, PendingSet
<1>6. HeadKnown(g1) /\ AnchorNotNode(g1)
  BY <1>3 DEF WellFormed, HeadKnown, AnchorNotNode
<1>7. ParentsConnected(g1)
  BY <1>3, <1>4, <1>5 DEF WellFormed, ParentsConnected
<1>8. PendingUnreachable(g1)
  BY <1>1, <1>3, <1>4, <1>5, AnchorRefAssumption DEF WellFormed, PendingUnreachable, Connects
<1>9. Grounded(g1)
  BY <1>3, <1>4, <1>5 DEF WellFormed, Grounded
<1>10. LogsKept(g, g1) /\ Brings(g, g1, hash, data)
  BY <1>1, <1>3 DEF LogsKept, SameLogs, Brings
<1>. QED
  BY <1>2, <1>3, <1>4, <1>6, <1>7, <1>8, <1>9, <1>10 DEF WellFormed

\* B1: the pending area holds at most `bound` nodes.
AtMostPending(g, bound) ==
  IsFiniteSet(PendingSet(g)) /\ Cardinality(PendingSet(g)) <= bound

\* A pending area that only loses nodes stays within its bound.
LEMMA AtMostSubset ==
  ASSUME NEW g, NEW g2, NEW bound \in Nat, AtMostPending(g, bound),
         PendingSet(g2) \subseteq PendingSet(g)
  PROVE  AtMostPending(g2, bound)
<1>1. /\ IsFiniteSet(PendingSet(g2))
      /\ Cardinality(PendingSet(g2)) <= Cardinality(PendingSet(g))
  BY FS_Subset DEF AtMostPending
<1>2. Cardinality(PendingSet(g)) \in Nat /\ Cardinality(PendingSet(g2)) \in Nat
  BY <1>1, FS_CardinalityType DEF AtMostPending
<1>. QED
  BY <1>1, <1>2 DEF AtMostPending

\* A node lands pending only below the cap.
LEMMA AtMostAdded ==
  ASSUME NEW g, NEW g2, NEW maxPending \in Nat, NEW bound \in Nat, maxPending <= bound,
         AtMostPending(g, bound), NEW hash,
         PendingSet(g2) = PendingSet(g) \cup {hash}, ~PendingFull(g, maxPending)
  PROVE  AtMostPending(g2, bound)
<1>1. /\ IsFiniteSet(PendingSet(g2))
      /\ \/ Cardinality(PendingSet(g2)) = Cardinality(PendingSet(g)) + 1
         \/ Cardinality(PendingSet(g2)) = Cardinality(PendingSet(g))
  BY FS_AddElement DEF AtMostPending
<1>2. Cardinality(PendingSet(g)) \in Nat
  BY FS_CardinalityType DEF AtMostPending
<1>. QED
  BY <1>1, <1>2 DEF AtMostPending, PendingFull

\* Kept by every admission, refused or not.
LEMMA AdmissionWellFormed ==
  ASSUME NEW g, IsGraph(g), WellFormed(g),
         NEW hash \in Block, NEW parent \in Block, NEW data \in BlockData,
         NEW maxPending \in Nat, NEW bound \in Nat, maxPending <= bound
  PROVE  /\ IsGraph(WithDataCapped(g, hash, parent, data, maxPending))
         /\ WellFormed(WithDataCapped(g, hash, parent, data, maxPending))
         /\ LogsKept(g, WithDataCapped(g, hash, parent, data, maxPending))
         /\ Brings(g, WithDataCapped(g, hash, parent, data, maxPending), hash, data)
         /\ AtMostPending(g, bound) =>
              AtMostPending(WithDataCapped(g, hash, parent, data, maxPending), bound)
<1> DEFINE g2 == WithDataCapped(g, hash, parent, data, maxPending)
<1>1. CASE AdmissionOf(g, hash, parent, maxPending) # "Admitted"
  BY <1>1 DEF WithDataCapped, LogsKept, SameLogs, Brings
<1>2. CASE AdmissionOf(g, hash, parent, maxPending) = "Admitted"
  <2>1. hash # parent
    BY <1>2 DEF AdmissionOf
  <2>2. hash # g.anchor
    BY <1>2, <2>1 DEF AdmissionOf
  <2>3. hash \notin Present(g)
    BY <1>2, <2>1, <2>2 DEF AdmissionOf
  <2>4. CASE Connects(g, parent)
    <3>1. g2 = InsertConnected(g, hash, parent, data)
      BY <1>2, <2>4 DEF WithDataCapped
    <3> HIDE DEF g2
    <3>2. /\ IsGraph(g2) /\ WellFormed(g2) /\ LogsKept(g, g2) /\ Brings(g, g2, hash, data)
          /\ PendingSet(g2) \subseteq PendingSet(g)
      BY <2>1, <2>2, <2>3, <2>4, <3>1, InsertConnectedWellFormed
    <3>3. AtMostPending(g, bound) => AtMostPending(g2, bound)
      BY <3>2, AtMostSubset
    <3>. QED
      BY <3>2, <3>3 DEF g2
  <2>5. CASE ~Connects(g, parent)
    <3>1. g2 = InsertPending(g, hash, parent, data)
      BY <1>2, <2>5 DEF WithDataCapped
    <3>2. ~PendingFull(g, maxPending)
      BY <1>2, <2>1, <2>2, <2>3, <2>5 DEF AdmissionOf
    <3> HIDE DEF g2
    <3>3. /\ IsGraph(g2) /\ WellFormed(g2) /\ LogsKept(g, g2) /\ Brings(g, g2, hash, data)
          /\ PendingSet(g2) = PendingSet(g) \cup {hash}
      BY <2>1, <2>2, <2>3, <2>5, <3>1, InsertPendingWellFormed
    <3>4. AtMostPending(g, bound) => AtMostPending(g2, bound)
      BY <3>2, <3>3, AtMostAdded
    <3>. QED
      BY <3>3, <3>4 DEF g2
  <2>. QED
    BY <2>4, <2>5
<1>. QED
  BY <1>1, <1>2

(***************************************************************************)
(* Heads and logs.                                                         *)
(***************************************************************************)

\* Structure reads only the anchor, the head, and every node's kind and parent.
LEMMA SameShapeWellFormed ==
  ASSUME NEW g, NEW g2, WellFormed(g), g2.anchor = g.anchor, HeadKnown(g2),
         Present(g2) = Present(g),
         \A x \in Present(g) : /\ g2.nodes[x].kind = g.nodes[x].kind
                               /\ g2.nodes[x].parent = g.nodes[x].parent
  PROVE  /\ WellFormed(g2)
         /\ ConnectedSet(g2) = ConnectedSet(g) /\ PendingSet(g2) = PendingSet(g)
<1>1. ConnectedSet(g2) = ConnectedSet(g) /\ PendingSet(g2) = PendingSet(g)
  BY DEF ConnectedSet, PendingSet
<1>2. ConnectedSet(g) \subseteq Present(g) /\ PendingSet(g) \subseteq Present(g)
  BY DEF ConnectedSet, PendingSet
<1>3. \A x \in Present(g) : ParentHash(g2, x) = ParentHash(g, x)
  BY DEF ParentHash
<1>4. AnchorNotNode(g2) /\ PendingUnreachable(g2)
  BY <1>1, <1>2 DEF WellFormed, AnchorNotNode, PendingUnreachable
<1>5. ParentsConnected(g2)
  BY <1>1, <1>2, <1>3 DEF WellFormed, ParentsConnected
<1>6. Grounded(g2)
  BY <1>1, <1>2, <1>3 DEF WellFormed, Grounded
<1>. QED
  BY <1>1, <1>4, <1>5, <1>6 DEF WellFormed

\* Kept by a head observation, which never names an unknown block (T4).
LEMMA HeadWellFormed ==
  ASSUME NEW g, IsGraph(g), WellFormed(g), NEW h \in Block
  PROVE  /\ IsGraph(WithObservedHead(g, h)) /\ WellFormed(WithObservedHead(g, h))
         /\ LogsKept(g, WithObservedHead(g, h))
         /\ Present(WithObservedHead(g, h)) = Present(g)
         /\ PendingSet(WithObservedHead(g, h)) = PendingSet(g)
<1>1. CASE ~(h = g.anchor \/ h \in Present(g))
  BY <1>1 DEF WithObservedHead, LogsKept, SameLogs
<1>2. CASE h = g.anchor \/ h \in Present(g)
  <2> DEFINE g2 == WithObservedHead(g, h)
  <2>1. g2 = [anchor |-> g.anchor, number |-> g.number, head |-> h, nodes |-> g.nodes]
    BY <1>2, GraphParts DEF WithObservedHead
  <2>2. IsGraph(g2)
    BY <2>1, GraphParts, MakeGraph
  <2>3. HeadKnown(g2)
    BY <1>2, <2>1 DEF HeadKnown, Present
  <2>4. /\ g2.anchor = g.anchor /\ Present(g2) = Present(g)
        /\ \A x \in Present(g) : /\ g2.nodes[x].kind = g.nodes[x].kind
                                 /\ g2.nodes[x].parent = g.nodes[x].parent
        /\ LogsKept(g, g2)
    BY <2>1 DEF Present, LogsKept, SameLogs
  <2> HIDE DEF g2
  <2>5. WellFormed(g2) /\ PendingSet(g2) = PendingSet(g)
    BY <2>3, <2>4, SameShapeWellFormed
  <2>. QED
    BY <2>2, <2>4, <2>5 DEF g2
<1>. QED
  BY <1>1, <1>2

\* Extending a keyed map: the new logs are in it, the old ones whose index none of
\* them has stay, and no index is lost.
LEMMA ExtendedMap ==
  ASSUME NEW stored \in LogMap, NEW logs \in LogMap
  PROVE  /\ Extended(stored, logs) \in LogMap
         /\ logs \subseteq Extended(stored, logs)
         /\ {l \in stored : LogIndex[l] \notin Indexes(logs)} \subseteq Extended(stored, logs)
         /\ Indexes(stored) \subseteq Indexes(Extended(stored, logs))
<1> DEFINE all == Extended(stored, logs)
<1>1. stored \subseteq Log /\ logs \subseteq Log
  BY DEF LogMap
<1>2. /\ all \subseteq Log /\ logs \subseteq all
      /\ {l \in stored : LogIndex[l] \notin Indexes(logs)} \subseteq all
  BY <1>1 DEF Extended
<1>3. ASSUME NEW l \in all, NEW m \in all, LogIndex[l] = LogIndex[m]
      PROVE  l = m
  <2>1. \A x \in logs : LogIndex[x] \in Indexes(logs)
    BY DEF Indexes
  <2>2. /\ l \in logs \/ (l \in stored /\ LogIndex[l] \notin Indexes(logs))
        /\ m \in logs \/ (m \in stored /\ LogIndex[m] \notin Indexes(logs))
    BY DEF Extended
  <2>. QED
    BY <1>3, <2>1, <2>2 DEF LogMap
<1>4. ASSUME NEW i \in Indexes(stored)
      PROVE  i \in Indexes(all)
  <2>1. PICK l \in stored : i = LogIndex[l]
    BY DEF Indexes
  <2>2. CASE i \in Indexes(logs)
    BY <1>2, <2>2 DEF Indexes
  <2>3. CASE i \notin Indexes(logs)
    <3>1. l \in all
      BY <1>2, <2>1, <2>3
    <3>. QED
      BY <2>1, <3>1 DEF Indexes
  <2>. QED
    BY <2>2, <2>3
<1> HIDE DEF all
<1>. QED
  BY <1>2, <1>3, <1>4 DEF LogMap, all

\* A node's level and logs replaced.
Relogged(g, h, level, logs) == [g EXCEPT !.nodes[h].level = level, !.nodes[h].logs = logs]

\* What such a replacement changes and what not.
Reloads(g, g2, h, level, logs) ==
  /\ g2.anchor = g.anchor
  /\ Present(g2) = Present(g)
  /\ g2.nodes[h].level = level /\ g2.nodes[h].logs = logs
  /\ \A x \in Present(g) \ {h} : SameLogs(g2, g, x)

\* It keeps the tree well-formed.
LEMMA LogsWellFormed ==
  ASSUME NEW g, IsGraph(g), WellFormed(g), NEW h \in Present(g),
         NEW level \in Level \ {"Unknown"}, NEW logs \in LogMap
  PROVE  /\ IsGraph(Relogged(g, h, level, logs)) /\ WellFormed(Relogged(g, h, level, logs))
         /\ PendingSet(Relogged(g, h, level, logs)) = PendingSet(g)
         /\ Reloads(g, Relogged(g, h, level, logs), h, level, logs)
<1> DEFINE node == [g.nodes[h] EXCEPT !.level = level, !.logs = logs]
           f    == [g.nodes EXCEPT ![h] = node]
           g2   == Relogged(g, h, level, logs)
<1>1. g.nodes \in [Present(g) -> Node] /\ Present(g) \subseteq Block
  BY GraphParts
<1>2. g.nodes[h] \in Node
  BY <1>1
<1>3. /\ node \in Node /\ node.kind = g.nodes[h].kind /\ node.parent = g.nodes[h].parent
      /\ node.level = level /\ node.logs = logs
  BY <1>2 DEF Node
<1>4. f = [[g.nodes EXCEPT ![h].level = level] EXCEPT ![h].logs = logs]
  BY <1>1, <1>2, <1>3
<1>5. g2 = [anchor |-> g.anchor, number |-> g.number, head |-> g.head, nodes |-> f]
  <2>1. g2 = [g EXCEPT !.nodes = [[g.nodes EXCEPT ![h].level = level] EXCEPT ![h].logs = logs]]
    BY GraphParts DEF Relogged
  <2> HIDE DEF f, g2
  <2>. QED
    BY <1>4, <2>1, GraphParts
<1> HIDE DEF node
<1>6. /\ f[h].level = level /\ f[h].logs = logs
      /\ \A x \in Present(g) \ {h} : f[x] = g.nodes[x]
      /\ f \in [Present(g) -> Node]
      /\ \A x \in Present(g) : f[x].kind = g.nodes[x].kind /\ f[x].parent = g.nodes[x].parent
  BY <1>1, <1>3
<1> HIDE DEF f, g2
<1>7. IsGraph(g2)
  BY <1>5, <1>6, GraphParts, MakeGraph
<1>8. /\ g2.anchor = g.anchor /\ g2.head = g.head /\ Present(g2) = Present(g)
      /\ \A x \in Present(g) : /\ g2.nodes[x].kind = g.nodes[x].kind
                               /\ g2.nodes[x].parent = g.nodes[x].parent
  BY <1>5, <1>6 DEF Present
<1>9. HeadKnown(g2)
  BY <1>8 DEF WellFormed, HeadKnown
<1>10. WellFormed(g2) /\ PendingSet(g2) = PendingSet(g)
  BY <1>8, <1>9, SameShapeWellFormed
<1>11. Reloads(g, g2, h, level, logs)
  BY <1>5, <1>6, <1>8 DEF Reloads, SameLogs, Present
<1>. QED
  BY <1>7, <1>10, <1>11 DEF g2

\* L5 for one block: its logs only climb the ladder.
Climbs(old, new) ==
  /\ old.level = "Complete" => new.level = "Complete" /\ new.logs = old.logs
  /\ old.level = "Streamed" =>
       /\ new.level # "Unknown"
       /\ new.level = "Streamed" => Indexes(old.logs) \subseteq Indexes(new.logs)

\* A stream delivery keeps the structure, and every block climbs.
LEMMA StreamedLogsWellFormed ==
  ASSUME NEW g, IsGraph(g), WellFormed(g), NEW h \in Block, NEW logs \in LogMap
  PROVE  LET g2 == WithStreamedLogs(g, h, logs)
         IN /\ IsGraph(g2) /\ WellFormed(g2)
            /\ PendingSet(g2) = PendingSet(g)
            /\ g2.anchor = g.anchor
            /\ \A x \in Present(g) : Climbs(g.nodes[x], g2.nodes[x])
<1>1. CASE h \notin Present(g) \/ g.nodes[h].level = "Complete"
  BY <1>1 DEF WithStreamedLogs, Climbs
<1>2. CASE ~(h \notin Present(g) \/ g.nodes[h].level = "Complete")
  <2> DEFINE all == Extended(g.nodes[h].logs, logs)
             g2  == WithStreamedLogs(g, h, logs)
  <2>1. g.nodes[h] \in Node /\ g.nodes[h].logs \in LogMap
    BY <1>2, GraphParts DEF Node
  <2>2. all \in LogMap /\ Indexes(g.nodes[h].logs) \subseteq Indexes(all)
    BY <2>1, ExtendedMap
  <2>3. g2 = Relogged(g, h, "Streamed", all)
    BY <1>2, <2>1, GraphParts DEF WithStreamedLogs, Node, Present, Relogged
  <2> HIDE DEF all, g2
  <2>4. /\ IsGraph(g2) /\ WellFormed(g2) /\ PendingSet(g2) = PendingSet(g)
        /\ Reloads(g, g2, h, "Streamed", all)
    BY <1>2, <2>2, <2>3, LogsWellFormed DEF Level
  <2>5. \A x \in Present(g) : Climbs(g.nodes[x], g2.nodes[x])
    BY <1>2, <2>2, <2>4 DEF Climbs, Reloads, SameLogs
  <2>. QED
    BY <2>4, <2>5 DEF g2, Reloads
<1>. QED
  BY <1>1, <1>2

\* An authoritative answer keeps the structure, and replaces the logs of one block.
LEMMA CompleteLogsWellFormed ==
  ASSUME NEW g, IsGraph(g), WellFormed(g), NEW h \in Block, NEW logs \in LogMap
  PROVE  LET g2 == WithCompleteLogs(g, h, logs)
         IN /\ IsGraph(g2) /\ WellFormed(g2)
            /\ PendingSet(g2) = PendingSet(g)
            /\ h \notin Present(g) => g2 = g
            /\ h \in Present(g) => Reloads(g, g2, h, "Complete", logs)
            /\ g2.anchor = g.anchor
<1>1. CASE h \notin Present(g)
  BY <1>1 DEF WithCompleteLogs
<1>2. CASE h \in Present(g)
  <2>1. WithCompleteLogs(g, h, logs) = Relogged(g, h, "Complete", logs)
    BY <1>2 DEF WithCompleteLogs, Relogged
  <2>. QED
    BY <1>2, <2>1, LogsWellFormed DEF Level, Reloads
<1>. QED
  BY <1>1, <1>2

(***************************************************************************)
(* Finalization.                                                           *)
(***************************************************************************)

\* What a re-root at another connected block leaves: its descendants, with their
\* parent hashes and logs.
LEMMA ReanchorParts ==
  ASSUME NEW g, IsGraph(g), WellFormed(g), NEW a \in ConnectedSet(g), a # g.anchor
  PROVE  LET g2 == ReanchoredTo(g, a)
             K  == Survivors(g, a)
         IN /\ IsGraph(g2)
            /\ g2.anchor = a
            /\ g2.head = IF g.head = a \/ g.head \in K THEN g.head ELSE a
            /\ Present(g2) = K /\ ConnectedSet(g2) = K /\ PendingSet(g2) = {}
            /\ \A h \in K : ParentHash(g2, h) = ParentHash(g, h)
            /\ \A h \in K : SameLogs(g2, g, h)
            /\ K \subseteq ConnectedSet(g) \ {a}
            /\ \A c \in K : ParentHash(g, c) \in K \cup {a}
            /\ ConnectedSet(g) \subseteq Present(g) /\ Present(g) \subseteq Block
<1> DEFINE K  == Survivors(g, a)
           f  == [h \in K |-> Reclassified(g.nodes[h], a)]
           hd == IF g.head = a \/ g.head \in K THEN g.head ELSE a
           g2 == ReanchoredTo(g, a)
<1>1. g2 = [anchor |-> a, number |-> g.nodes[a].number, head |-> hd, nodes |-> f]
  BY DEF ReanchoredTo
<1>2. /\ K \subseteq ConnectedSet(g) \ {a}
      /\ \A c \in K : ParentHash(g, c) \in K \cup {a}
  BY DescendantsClosed DEF Survivors
<1>3. ConnectedSet(g) \subseteq Present(g) /\ Present(g) \subseteq Block
  BY GraphParts DEF ConnectedSet
<1> HIDE DEF K
<1>4. g.nodes[a] \in Node /\ a \in Block
  BY <1>3, GraphParts
<1>5. ASSUME NEW h \in K
      PROVE  /\ f[h] \in Node /\ f[h].kind = "Connected"
             /\ f[h].parent = IF g.nodes[h].parent = a THEN AnchorRef ELSE g.nodes[h].parent
             /\ g.nodes[h].parent # AnchorRef
             /\ f[h].level = g.nodes[h].level /\ f[h].logs = g.nodes[h].logs
  <2>1. g.nodes[h] \in Node /\ g.nodes[h].kind = "Connected"
    BY <1>2, <1>3, GraphParts DEF ConnectedSet
  <2>2. g.nodes[h].parent # AnchorRef
    BY <1>2, <1>3 DEF ParentHash, WellFormed, AnchorNotNode
  <2>. QED
    BY <2>1, <2>2, NodeParts DEF Reclassified
<1>6. f \in [K -> Node]
  BY <1>5
<1>7. hd \in Block /\ g.nodes[a].number \in Nat
  BY <1>4, GraphParts DEF Node
<1>8. /\ g2.anchor = a /\ g2.head = hd /\ Present(g2) = K
      /\ \A h \in K : g2.nodes[h] = f[h]
  BY <1>1 DEF Present
<1>9. IsGraph(g2)
  <2> HIDE DEF f, hd, g2
  <2>. QED
    BY <1>1, <1>2, <1>3, <1>4, <1>6, <1>7, MakeGraph
<1> HIDE DEF f, g2
<1>10. ConnectedSet(g2) = K /\ PendingSet(g2) = {}
  BY <1>5, <1>8 DEF ConnectedSet, PendingSet
<1>11. \A h \in K : ParentHash(g2, h) = ParentHash(g, h)
  BY <1>4, <1>5, <1>8, AnchorRefAssumption DEF ParentHash
<1>12. \A h \in K : SameLogs(g2, g, h)
  BY <1>5, <1>8 DEF SameLogs
<1>. QED
  BY <1>2, <1>3, <1>8, <1>9, <1>10, <1>11, <1>12 DEF g2, K

\* A re-root at a connected block keeps well-formed what descends from it.
LEMMA ReanchorWellFormed ==
  ASSUME NEW g, IsGraph(g), WellFormed(g), NEW a
  PROVE  LET g2 == ReanchoredTo(g, a)
         IN /\ IsGraph(g2) /\ WellFormed(g2)
            /\ PendingSet(g2) \subseteq PendingSet(g)
            /\ Present(g2) \subseteq Present(g)
            /\ \A h \in Present(g2) : SameLogs(g2, g, h)
            /\ g2.anchor \in {a, g.anchor}
<1>1. CASE a = g.anchor \/ a \notin ConnectedSet(g)
  BY <1>1 DEF ReanchoredTo, SameLogs
<1>2. CASE a # g.anchor /\ a \in ConnectedSet(g)
  <2> DEFINE K  == Survivors(g, a)
             g2 == ReanchoredTo(g, a)
  <2>1. /\ IsGraph(g2)
        /\ g2.anchor = a
        /\ g2.head = IF g.head = a \/ g.head \in K THEN g.head ELSE a
        /\ Present(g2) = K /\ ConnectedSet(g2) = K /\ PendingSet(g2) = {}
        /\ \A h \in K : ParentHash(g2, h) = ParentHash(g, h)
        /\ \A h \in K : SameLogs(g2, g, h)
        /\ K \subseteq ConnectedSet(g) \ {a}
        /\ \A c \in K : ParentHash(g, c) \in K \cup {a}
        /\ ConnectedSet(g) \subseteq Present(g)
    BY <1>2, ReanchorParts
  <2> HIDE DEF K, g2
  <2>2. HeadKnown(g2)
    BY <2>1 DEF HeadKnown
  <2>3. AnchorNotNode(g2)
    BY <2>1 DEF AnchorNotNode
  <2>4. ParentsConnected(g2)
    BY <2>1 DEF ParentsConnected
  <2>5. PendingUnreachable(g2)
    BY <2>1 DEF PendingUnreachable
  <2>6. Grounded(g2)
    BY <2>1 DEF WellFormed, Grounded
  <2>. QED
    BY <2>1, <2>2, <2>3, <2>4, <2>5, <2>6 DEF WellFormed, g2
<1>. QED
  BY <1>1, <1>2

\* The blocks a re-root keeps are those with the new anchor on their chain.
LEMMA SurvivorsAbove ==
  ASSUME NEW g, NEW a \in ConnectedSet(g)
  PROVE  Survivors(g, a) =
           {h \in ConnectedSet(g) \ {a} : a \in Ancestors(g, ConnectedSet(g), h)}
<1> DEFINE C     == ConnectedSet(g)
           A(h)  == Ancestors(g, C, h)
           K     == Survivors(g, a)
           above == {h \in C \ {a} : a \in A(h)}
<1>1. /\ K \subseteq C \ {a}
      /\ \A c \in C \ {a} : ParentHash(g, c) \in K \cup {a} => c \in K
  BY DescendantsClosed DEF Survivors
<1>2. \A h \in C : /\ A(h) \subseteq C /\ h \in A(h)
                   /\ \A c \in A(h) : ParentHash(g, c) \in C => ParentHash(g, c) \in A(h)
  BY AncestorsClosed
<1>3. \A h \in C : \A x \in A(h) : A(x) \subseteq A(h)
  BY AncestorsTransitive
<1>4. K \subseteq above
  <2>1. ASSUME NEW c \in C \ {a}, ParentHash(g, c) \in above \cup {a}
        PROVE  c \in above
    <3>1. ParentHash(g, c) \in C /\ a \in A(ParentHash(g, c))
      BY <1>2, <2>1
    <3> HIDE DEF A
    <3>. QED
      BY <1>2, <1>3, <3>1
  <2>2. above \in SUBSET (C \ {a})
    OBVIOUS
  <2> HIDE DEF above, C
  <2>. QED
    BY <2>1, <2>2, DescendantsLeast DEF Survivors, C
<1>5. above \subseteq K
  <2> SUFFICES ASSUME NEW h \in above, h \notin K PROVE FALSE
    OBVIOUS
  <2> DEFINE T == C \ (K \cup {a})
  <2>1. T \in SUBSET C /\ h \in T
    OBVIOUS
  <2>2. \A c \in T : ParentHash(g, c) \in C => ParentHash(g, c) \in T
    BY <1>1
  <2> HIDE DEF K, T
  <2>3. A(h) \subseteq T
    BY <2>1, <2>2, AncestorsLeast
  <2>. QED
    BY <2>3 DEF T
<1>. QED
  BY <1>4, <1>5

\* A3: a re-root along the canonical chain keeps exactly what descends from the
\* new anchor; the head and the chain above the new anchor survive it.
LEMMA ReanchorCanonical ==
  ASSUME NEW g, IsGraph(g), WellFormed(g), NEW a \in CanonicalPath(g), a # g.anchor
  PROVE  LET g2 == ReanchoredTo(g, a)
         IN /\ g2.head = g.head
            /\ CanonicalPath(g2) = CanonicalPath(g) \ ConnectedPath(g, a)
            /\ Present(g2) = {h \in ConnectedSet(g) \ {a} : a \in ConnectedPath(g, h)}
<1> DEFINE C    == ConnectedSet(g)
           K    == Survivors(g, a)
           g2   == ReanchoredTo(g, a)
           A(h) == Ancestors(g, C, h)
<1>1. g.head \in C /\ a \in A(g.head) /\ a \in C
  BY AncestorsClosed DEF CanonicalPath, ConnectedPath
<1>2. K = {h \in C \ {a} : a \in A(h)}
  BY <1>1, SurvivorsAbove
<1>3. /\ g2.anchor = a
      /\ g2.head = IF g.head = a \/ g.head \in K THEN g.head ELSE a
      /\ Present(g2) = K /\ ConnectedSet(g2) = K
      /\ \A h \in K : ParentHash(g2, h) = ParentHash(g, h)
      /\ \A c \in K : ParentHash(g, c) \in K \cup {a}
  BY <1>1, ReanchorParts
<1>4. g2.head = g.head
  BY <1>1, <1>2, <1>3
<1>5. Present(g2) = {h \in C \ {a} : a \in ConnectedPath(g, h)}
  BY <1>2, <1>3 DEF ConnectedPath
<1>6. CanonicalPath(g) = A(g.head) /\ ConnectedPath(g, a) = A(a)
  BY <1>1 DEF CanonicalPath, ConnectedPath
<1>7. /\ \A h \in C : A(h) \subseteq C /\ h \in A(h)
      /\ \A h \in C : \A c \in A(h) : ParentHash(g, c) \in C => ParentHash(g, c) \in A(h)
      /\ \A h \in C : \A x \in A(h) : A(x) \subseteq A(h)
  BY AncestorsClosed, AncestorsTransitive
<1>8. K \cap A(a) = {}
  BY <1>1, <1>2, AncestorsAntisymmetric DEF WellFormed
<1>9. CASE g.head = a
  <2>1. CanonicalPath(g2) = {}
    BY <1>2, <1>3, <1>9 DEF CanonicalPath, ConnectedPath
  <2>. QED
    BY <1>4, <1>5, <1>6, <1>9, <2>1
<1>10. CASE g.head # a
  <2> DEFINE B == Ancestors(g2, K, g.head)
             R == K \cap A(g.head)
  <2>1. g.head \in K /\ CanonicalPath(g2) = B
    BY <1>1, <1>2, <1>3, <1>4, <1>10 DEF CanonicalPath, ConnectedPath
  <2>2. /\ B \subseteq K /\ g.head \in B
        /\ \A c \in B : ParentHash(g2, c) \in K => ParentHash(g2, c) \in B
    BY <2>1, AncestorsClosed
  <2>3. B \subseteq A(g.head)
    <3>1. R \in SUBSET K /\ g.head \in R
      BY <1>1, <1>7, <2>1
    <3>2. \A c \in R : ParentHash(g2, c) \in K => ParentHash(g2, c) \in R
      BY <1>1, <1>2, <1>3, <1>7
    <3>3. B \subseteq R
      <4> HIDE DEF R, K, g2
      <4>. QED
        BY <3>1, <3>2, AncestorsLeast
    <3>. QED
      BY <3>3
  <2> HIDE DEF B
  <2>4. A(g.head) \subseteq B \cup A(a)
    <3> DEFINE T == B \cup A(a)
    <3>1. T \in SUBSET C /\ g.head \in T
      BY <1>1, <1>2, <1>7, <2>2
    <3>2. \A c \in T : ParentHash(g, c) \in C => ParentHash(g, c) \in T
      <4> HIDE DEF A, K
      <4>. QED
        BY <1>1, <1>3, <1>7, <2>2
    <3> HIDE DEF T
    <3>3. A(g.head) \subseteq T
      BY <3>1, <3>2, AncestorsLeast
    <3>. QED
      BY <3>3 DEF T
  <2>5. CanonicalPath(g2) = A(g.head) \ A(a)
    <3> HIDE DEF A, K
    <3>. QED
      BY <1>8, <2>1, <2>2, <2>3, <2>4
  <2>. QED
    BY <1>4, <1>5, <1>6, <2>5
<1>. QED
  BY <1>9, <1>10

\* The frontier of a fold is the anchor or the last foldable block.
LEMMA FrontierFoldable ==
  ASSUME NEW g, NEW target, NEW watched, NEW authority
  PROVE  LET x    == FoldableFrontier(g, target, watched, authority)
             part == FoldablePart(g, target, watched, authority)
         IN x = g.anchor \/ (x \in part /\ part \subseteq ConnectedPath(g, x))
<1> DEFINE part == FoldablePart(g, target, watched, authority)
           last == {x \in part : part \subseteq ConnectedPath(g, x)}
<1>1. CASE last = {}
  BY <1>1 DEF FoldableFrontier
<1>2. CASE last # {}
  <2> HIDE DEF last
  <2>1. (CHOOSE x \in last : TRUE) \in last
    BY <1>2
  <2>2. FoldableFrontier(g, target, watched, authority) = CHOOSE x \in last : TRUE
    BY <1>2 DEF FoldableFrontier, last
  <2>. QED
    BY <2>1, <2>2 DEF last
<1>. QED
  BY <1>1, <1>2

\* A4: where finalization stops is canonical, with nothing unsettled below it.
LEMMA FinalizationPointGate ==
  ASSUME NEW g, NEW target, NEW verified
  PROVE  LET a == FinalizationPoint(g, target, verified)
         IN a # g.anchor =>
              /\ a \in CanonicalPath(g)
              /\ \A h \in ConnectedPath(g, a) :
                   \/ g.nodes[h].level = "Complete"
                   \/ ~BloomMayTouch(g.nodes[h].bloom, WatchedAddresses(verified))
<1> DEFINE a == FinalizationPoint(g, target, verified)
           watched == WatchedAddresses(verified)
<1> SUFFICES ASSUME a # g.anchor
             PROVE  /\ a \in CanonicalPath(g)
                    /\ \A h \in ConnectedPath(g, a) :
                         \/ g.nodes[h].level = "Complete"
                         \/ ~BloomMayTouch(g.nodes[h].bloom, watched)
  OBVIOUS
<1>1. CanonicalTarget(g, target) /\ a = FoldableFrontier(g, target, watched, "RequireComplete")
  BY DEF FinalizationPoint
<1>2. a \in FoldablePart(g, target, watched, "RequireComplete")
  BY <1>1, FrontierFoldable
<1> HIDE DEF a, watched
<1>3. /\ a \in ConnectedPath(g, target)
      /\ \A y \in ConnectedPath(g, a) : ~Blocker(g, y, watched, "RequireComplete")
  BY <1>2 DEF FoldablePart
<1>4. \A y \in ConnectedPath(g, a) :
        g.nodes[y].level = "Complete" \/ ~BloomMayTouch(g.nodes[y].bloom, watched)
  BY <1>3 DEF Blocker, Readable
<1>5. a \in CanonicalPath(g)
  <2> DEFINE C == ConnectedSet(g)
  <2>1. /\ target \in Ancestors(g, C, g.head) /\ g.head \in C
    BY <1>1 DEF CanonicalTarget, CanonicalPath, ConnectedPath
  <2>2. a \in Ancestors(g, C, target)
    BY <1>3 DEF ConnectedPath
  <2> HIDE DEF C
  <2>3. a \in Ancestors(g, C, g.head)
    BY <2>1, <2>2, AncestorsTransitive
  <2>. QED
    BY <2>1, <2>3 DEF CanonicalPath, ConnectedPath, C
<1>. QED
  BY <1>4, <1>5

\* Folding yields a snapshot.
LEMMA FoldedSnapshot ==
  ASSUME NEW g, NEW base, IsSnapshot(base), NEW verified \in SUBSET Pool,
         NEW target, NEW authority
  PROVE  IsSnapshot(FoldedPoolStates(g, base, verified, target, authority))
<1>1. PICK Q \in SUBSET Pool : base \in [Q -> SUBSET Log]
  BY DEF IsSnapshot
<1> DEFINE D == DOMAIN base \cup SelfSeeded(g, base, verified, target, authority)
           st(p) == DeriveFrom(g, IF p \in DOMAIN base THEN base[p] ELSE {},
                               PathRun(g, target, authority, p))
<1>2. D \in SUBSET Pool
  BY <1>1 DEF SelfSeeded
<1>3. ASSUME NEW p \in D
      PROVE  st(p) \in SUBSET Log
  <2> DEFINE b   == IF p \in DOMAIN base THEN base[p] ELSE {}
             run == PathRun(g, target, authority, p)
  <2>1. b \in SUBSET Log
    BY <1>1
  <2>2. run \subseteq ConnectedPath(g, target) \X Log
    BY DEF PathRun
  <2> HIDE DEF b, run
  <2>3. \A e \in run : e[2] \in Log
    BY <2>2
  <2>4. DeriveFrom(g, b, run) \in SUBSET Log
    BY <2>1, <2>3 DEF DeriveFrom
  <2>. QED
    BY <2>4 DEF b, run
<1> HIDE DEF st, D
<1>4. [p \in D |-> st(p)] \in [D -> SUBSET Log]
  BY <1>3
<1>. QED
  BY <1>2, <1>4 DEF IsSnapshot, FoldedPoolStates, D, st

(***************************************************************************)
(* Headers: what the operations leave of a block's header.                 *)
(***************************************************************************)
SameHeader(g2, g, h) ==
  /\ ParentHash(g2, h) = ParentHash(g, h)
  /\ g2.nodes[h].bloom = g.nodes[h].bloom /\ g2.nodes[h].number = g.nodes[h].number

\* An operation that keeps the anchor, the blocks and their headers.
KeepsHeaders(g, g2) ==
  /\ g2.anchor = g.anchor /\ g2.number = g.number
  /\ Present(g2) = Present(g)
  /\ \A h \in Present(g) : SameHeader(g2, g, h)

\* Promotion re-types parents and touches no header.
LEMMA PromotionHeaders ==
  ASSUME NEW g, IsGraph(g), NEW hash
  PROVE  KeepsHeaders(g, PromoteReachable(g, hash)) /\ PromoteReachable(g, hash).head = g.head
<1> DEFINE D  == PromotedBy(g, hash)
           f  == [h \in DOMAIN g.nodes |->
                    IF h \in D THEN [g.nodes[h] EXCEPT !.kind = "Connected"] ELSE g.nodes[h]]
           g2 == PromoteReachable(g, hash)
<1>1. g2 = [anchor |-> g.anchor, number |-> g.number, head |-> g.head, nodes |-> f]
  BY GraphParts DEF PromoteReachable
<1>2. /\ g2.anchor = g.anchor /\ g2.number = g.number /\ g2.head = g.head /\ Present(g2) = Present(g)
      /\ \A h \in Present(g) :
           g2.nodes[h] = IF h \in D THEN [g.nodes[h] EXCEPT !.kind = "Connected"] ELSE g.nodes[h]
  BY <1>1 DEF Present
<1> HIDE DEF D, f, g2
<1>3. \A h \in Present(g) : /\ g2.nodes[h].parent = g.nodes[h].parent
                            /\ g2.nodes[h].bloom = g.nodes[h].bloom
                            /\ g2.nodes[h].number = g.nodes[h].number
  <2>1. \A n \in Node : /\ [n EXCEPT !.kind = "Connected"].parent = n.parent
                        /\ [n EXCEPT !.kind = "Connected"].bloom = n.bloom
                        /\ [n EXCEPT !.kind = "Connected"].number = n.number
    BY DEF Node
  <2>2. \A h \in Present(g) : g.nodes[h] \in Node
    BY GraphParts
  <2>. QED
    BY <1>2, <2>1, <2>2
<1>. QED
  BY <1>2, <1>3 DEF KeepsHeaders, SameHeader, ParentHash, g2

\* Admission brings in one block at most, with the header it came with.
LEMMA AdmissionHeaders ==
  ASSUME NEW g, IsGraph(g), NEW hash \in Block, NEW parent \in Block, NEW data \in BlockData, NEW cap
  PROVE  LET g2 == WithDataCapped(g, hash, parent, data, cap)
         IN /\ g2.anchor = g.anchor /\ g2.number = g.number /\ g2.head = g.head
            /\ \A h \in Present(g2) :
                 \/ h \in Present(g) /\ SameHeader(g2, g, h)
                 \/ h = hash /\ h \notin Present(g) /\ ParentHash(g2, h) = parent
                    /\ g2.nodes[h].bloom = data.bloom /\ g2.nodes[h].number = data.number
<1>1. CASE AdmissionOf(g, hash, parent, cap) # "Admitted"
  BY <1>1 DEF WithDataCapped, SameHeader
<1>2. ASSUME AdmissionOf(g, hash, parent, cap) = "Admitted" PROVE hash \notin Present(g)
  BY <1>2 DEF AdmissionOf
<1>3. CASE AdmissionOf(g, hash, parent, cap) = "Admitted" /\ Connects(g, parent)
  <2> DEFINE ref  == IF parent = g.anchor THEN AnchorRef ELSE parent
             node == MkNode("Connected", ref, data)
             g1   == [g EXCEPT !.nodes = WithNode(@, hash, node)]
             g2   == PromoteReachable(g1, hash)
  <2>1. node \in Node /\ node.parent = ref /\ node.bloom = data.bloom /\ node.number = data.number
    BY DEF MkNode, Node, BlockData, Kind
  <2> HIDE DEF node
  <2>2. /\ IsGraph(g1)
        /\ g1.anchor = g.anchor /\ g1.number = g.number /\ g1.head = g.head
        /\ Present(g1) = Present(g) \cup {hash}
        /\ g1.nodes[hash] = node
        /\ \A h \in Present(g) : g1.nodes[h] = g.nodes[h]
        /\ \A h \in Present(g) : ParentHash(g1, h) = ParentHash(g, h)
    BY <1>2, <1>3, <2>1, InsertedNode
  <2>3. WithDataCapped(g, hash, parent, data, cap) = g2
    BY <1>3 DEF WithDataCapped, InsertConnected, node
  <2> HIDE DEF g1
  <2>4. KeepsHeaders(g1, g2) /\ g2.head = g1.head
    BY <2>2, PromotionHeaders
  <2> HIDE DEF g2
  <2>5. ParentHash(g1, hash) = parent /\ g1.nodes[hash].bloom = data.bloom /\ g1.nodes[hash].number = data.number
    BY <2>1, <2>2, AnchorRefAssumption DEF ParentHash
  <2>. QED
    BY <1>2, <1>3, <2>2, <2>3, <2>4, <2>5 DEF KeepsHeaders, SameHeader
<1>4. CASE AdmissionOf(g, hash, parent, cap) = "Admitted" /\ ~Connects(g, parent)
  <2> DEFINE node == MkNode("Pending", parent, data)
             g1   == [g EXCEPT !.nodes = WithNode(@, hash, node)]
  <2>1. node \in Node /\ node.parent = parent /\ node.bloom = data.bloom /\ node.number = data.number
    BY DEF MkNode, Node, BlockData, Kind
  <2> HIDE DEF node
  <2>2. /\ g1.anchor = g.anchor /\ g1.number = g.number /\ g1.head = g.head
        /\ Present(g1) = Present(g) \cup {hash}
        /\ g1.nodes[hash] = node
        /\ \A h \in Present(g) : g1.nodes[h] = g.nodes[h]
        /\ \A h \in Present(g) : ParentHash(g1, h) = ParentHash(g, h)
    BY <1>2, <1>4, <2>1, InsertedNode
  <2>3. WithDataCapped(g, hash, parent, data, cap) = g1
    BY <1>4 DEF WithDataCapped, InsertPending, node
  <2> HIDE DEF g1
  <2>4. ParentHash(g1, hash) = parent
    BY <2>1, <2>2, AnchorRefAssumption DEF ParentHash
  <2>. QED
    BY <1>2, <1>4, <2>1, <2>2, <2>3, <2>4 DEF SameHeader
<1>. QED
  BY <1>1, <1>3, <1>4

\* New logs change no header.
LEMMA RelogHeaders ==
  ASSUME NEW g, IsGraph(g), NEW h \in Present(g), NEW level, NEW logs
  PROVE  KeepsHeaders(g, Relogged(g, h, level, logs)) /\ Relogged(g, h, level, logs).head = g.head
<1> DEFINE f  == [[g.nodes EXCEPT ![h].level = level] EXCEPT ![h].logs = logs]
           g2 == Relogged(g, h, level, logs)
<1>1. g2 = [g EXCEPT !.nodes = f]
  BY GraphParts DEF Relogged
<1>2. /\ DOMAIN f = Present(g)
      /\ \A x \in Present(g) : f[x].parent = g.nodes[x].parent /\ f[x].bloom = g.nodes[x].bloom
                               /\ f[x].number = g.nodes[x].number
  BY GraphParts DEF Node, Present
<1> HIDE DEF f, g2
<1>3. g2.anchor = g.anchor /\ g2.number = g.number /\ g2.head = g.head /\ g2.nodes = f
  BY <1>1, GraphParts
<1>. QED
  BY <1>2, <1>3 DEF KeepsHeaders, SameHeader, ParentHash, Present, g2

\* Neither delivery of logs changes a header.
LEMMA LogHeaders ==
  ASSUME NEW g, IsGraph(g), NEW h, NEW logs
  PROVE  /\ KeepsHeaders(g, WithStreamedLogs(g, h, logs)) /\ WithStreamedLogs(g, h, logs).head = g.head
         /\ KeepsHeaders(g, WithCompleteLogs(g, h, logs)) /\ WithCompleteLogs(g, h, logs).head = g.head
<1>1. KeepsHeaders(g, g)
  BY DEF KeepsHeaders, SameHeader
<1>2. CASE h \notin Present(g)
  BY <1>1, <1>2 DEF WithStreamedLogs, WithCompleteLogs
<1>3. CASE h \in Present(g)
  <2>1. g.nodes[h] \in Node
    BY <1>3, GraphParts
  <2>2. WithCompleteLogs(g, h, logs) = Relogged(g, h, "Complete", logs)
    BY <1>3 DEF WithCompleteLogs, Relogged
  <2>3. WithStreamedLogs(g, h, logs) \in {g, Relogged(g, h, "Streamed", Extended(g.nodes[h].logs, logs))}
    BY <1>3, <2>1, GraphParts DEF WithStreamedLogs, Node, Present, Relogged
  <2>. QED
    BY <1>1, <1>3, <2>2, <2>3, RelogHeaders
<1>. QED
  BY <1>2, <1>3

\* A re-root keeps the headers of the blocks it keeps.
LEMMA ReanchorHeaders ==
  ASSUME NEW g, IsGraph(g), WellFormed(g), NEW a \in ConnectedSet(g), a # g.anchor
  PROVE  LET g2 == ReanchoredTo(g, a)
         IN /\ g2.anchor = a /\ g2.number = g.nodes[a].number /\ g2.head \in {a, g.head} /\ Present(g2) \subseteq Present(g)
            /\ \A h \in Present(g2) : SameHeader(g2, g, h)
<1> DEFINE g2 == ReanchoredTo(g, a)
           K  == Survivors(g, a)
<1>1. /\ g2.anchor = a
      /\ g2.head = IF g.head = a \/ g.head \in K THEN g.head ELSE a
      /\ Present(g2) = K
      /\ \A h \in K : ParentHash(g2, h) = ParentHash(g, h)
      /\ K \subseteq ConnectedSet(g) \ {a}
      /\ ConnectedSet(g) \subseteq Present(g)
  BY ReanchorParts
<1>2. g2.nodes = [h \in K |-> Reclassified(g.nodes[h], a)] /\ g2.number = g.nodes[a].number
  BY DEF ReanchoredTo
<1> HIDE DEF g2, K
<1>3. \A h \in K : g2.nodes[h].bloom = g.nodes[h].bloom /\ g2.nodes[h].number = g.nodes[h].number
  BY <1>1, <1>2, GraphParts DEF Reclassified, Node
<1>. QED
  BY <1>1, <1>2, <1>3 DEF SameHeader, g2

(***************************************************************************)
(* What the proofs about the tree and about the kernel assume of a tree.   *)
(***************************************************************************)
TreeOK(g) == IsGraph(g) /\ WellFormed(g) /\ AtMostPending(g, PendingCap)

\* A Complete block has the logs the block really has.
CompleteIsExact(g) == \A h \in Present(g) : g.nodes[h].level = "Complete" => g.nodes[h].logs = LogsOf[h]

(***************************************************************************)
(* The real chain.                                                         *)
(***************************************************************************)

\* The line of a block holds the block and, with every member, its parent.
LEMMA LineClosed ==
  ASSUME NEW b \in Block
  PROVE  /\ TrueLine(b) \subseteq Block /\ b \in TrueLine(b)
         /\ \A c \in TrueLine(b) : Trunk[c].parent \in Block => Trunk[c].parent \in TrueLine(b)
BY DEF TrueLine

\* It is the least such set.
LEMMA LineLeast ==
  ASSUME NEW b, NEW S \in SUBSET Block, b \in S,
         \A c \in S : Trunk[c].parent \in Block => Trunk[c].parent \in S
  PROVE  TrueLine(b) \subseteq S
BY DEF TrueLine

\* The line of an ancestor is part of the line.
LEMMA LineTransitive ==
  ASSUME NEW b \in Block, NEW m \in TrueLine(b)
  PROVE  TrueLine(m) \subseteq TrueLine(b)
BY DEF TrueLine

\* A line is its block and the line of the parent.
LEMMA LineStep ==
  ASSUME NEW b \in Block, NEW x \in TrueLine(b), x # b
  PROVE  Trunk[b].parent \in Block /\ x \in TrueLine(Trunk[b].parent)
<1> DEFINE p == Trunk[b].parent
<1>1. p \in Block
  <2> SUFFICES ASSUME p \notin Block PROVE FALSE
    OBVIOUS
  <2>1. {b} \in SUBSET Block /\ b \in {b}
    OBVIOUS
  <2>2. \A c \in {b} : Trunk[c].parent \in Block => Trunk[c].parent \in {b}
    OBVIOUS
  <2>3. TrueLine(b) \subseteq {b}
    BY <2>1, <2>2, LineLeast
  <2>. QED
    BY <2>3
<1>2. x \in TrueLine(p)
  <2> DEFINE S == TrueLine(p) \cup {b}
  <2>1. S \in SUBSET Block /\ b \in S
    BY <1>1, LineClosed
  <2>2. \A c \in S : Trunk[c].parent \in Block => Trunk[c].parent \in S
    BY <1>1, LineClosed
  <2> HIDE DEF S
  <2>3. TrueLine(b) \subseteq S
    BY <2>1, <2>2, LineLeast
  <2>. QED
    BY <2>3 DEF S
<1>. QED
  BY <1>1, <1>2

\* No block is its own ancestor.
TrunkGrounded == \A S \in SUBSET Block : S # {} => \E x \in S : Trunk[x].parent \notin S

\* Two blocks of the real chain are not each other's ancestors.
LEMMA LineAntisymmetric ==
  ASSUME TrunkGrounded, NEW a \in Block, NEW b \in TrueLine(a), a \in TrueLine(b)
  PROVE  a = b
<1> DEFINE S == {z \in TrueLine(a) : a \in TrueLine(z)}
<1> SUFFICES ASSUME a # b PROVE FALSE
  OBVIOUS
<1>1. S \in SUBSET Block /\ S # {}
  BY LineClosed
<1>2. ASSUME NEW z \in S PROVE Trunk[z].parent \in S
  <2>1. CASE z = a
    <3>1. Trunk[a].parent \in Block /\ b \in TrueLine(Trunk[a].parent)
      BY LineStep
    <3>2. a \in TrueLine(Trunk[a].parent)
      BY <3>1, LineTransitive
    <3>. QED
      BY <2>1, <3>1, <3>2, LineClosed
  <2>2. CASE z # a
    <3>1. z \in Block /\ Trunk[z].parent \in Block /\ a \in TrueLine(Trunk[z].parent)
      BY <2>2, LineClosed, LineStep
    <3>. QED
      BY <3>1, LineClosed
  <2>. QED
    BY <2>1, <2>2
<1> HIDE DEF S
<1>. QED
  BY <1>1, <1>2 DEF TrunkGrounded

(***************************************************************************)
(* Honest providers (HonestChain).                                         *)
(***************************************************************************)

\* Numbers fall along a line.
LEMMA LineNumbers ==
  ASSUME HonestChain, NEW b \in Block, NEW x \in TrueLine(b), x # b
  PROVE  Trunk[x].number < Trunk[b].number
<1> DEFINE S == {z \in TrueLine(b) : z = b \/ Trunk[z].number < Trunk[b].number}
<1>1. S \in SUBSET Block /\ b \in S
  BY LineClosed
<1>2. ASSUME NEW c \in S, Trunk[c].parent \in Block PROVE Trunk[c].parent \in S
  <2>1. c \in Block /\ c \in Known /\ Trunk[c].parent \in TrueLine(b)
    BY <1>2, LineClosed DEF Known
  <2>2. Trunk[c].number = Trunk[Trunk[c].parent].number + 1
    BY <2>1 DEF HonestChain
  <2>3. Trunk[c].number \in Nat /\ Trunk[Trunk[c].parent].number \in Nat /\ Trunk[b].number \in Nat
    BY <1>2, <2>1, RealChainAssumption
  <2>. QED
    BY <2>1, <2>2, <2>3
<1> HIDE DEF S
<1>3. x \in S
  BY <1>1, <1>2, LineLeast
<1>. QED
  BY <1>3 DEF S

\* So no block is its own ancestor: the lowest block of a set has no parent in it.
LEMMA HonestGrounded == HonestChain => TrunkGrounded
<1> SUFFICES ASSUME HonestChain, NEW S \in SUBSET Block, S # {}
             PROVE  \E x \in S : Trunk[x].parent \notin S
  BY DEF TrunkGrounded
<1> DEFINE depth == [x \in S |-> 0 - Trunk[x].number]
<1>1. \A x \in S : Trunk[x].number \in Nat
  BY RealChainAssumption
<1>2. depth \in [S -> Int] /\ IsFiniteSet(S)
  BY <1>1, FiniteAssumption, FS_Subset
<1>3. \A x \in S : depth[x] = 0 - Trunk[x].number
  OBVIOUS
<1> HIDE DEF depth
<1>4. PICK x \in S : \A y \in S : depth[y] <= depth[x]
  BY <1>2, HighestMember
<1>5. Trunk[x].parent \in S => Trunk[Trunk[x].parent].number < Trunk[x].number
  BY <1>1 DEF HonestChain, Known
<1>. QED
  BY <1>1, <1>3, <1>4, <1>5

\* Of two blocks of a line one is an ancestor of the other.
LEMMA LineLinear ==
  ASSUME NEW b \in Block, NEW x \in TrueLine(b), NEW y \in TrueLine(b)
  PROVE  x \in TrueLine(y) \/ y \in TrueLine(x)
<1> DEFINE S == {z \in TrueLine(b) : x \in TrueLine(z) \/ z \in TrueLine(x)}
<1>1. S \in SUBSET Block /\ b \in S
  BY LineClosed
<1>2. ASSUME NEW c \in S, Trunk[c].parent \in Block PROVE Trunk[c].parent \in S
  <2>1. c \in Block /\ x \in Block /\ Trunk[c].parent \in TrueLine(b)
    BY <1>2, LineClosed
  <2>2. CASE c \in TrueLine(x)
    BY <1>2, <2>1, <2>2, LineClosed
  <2>3. CASE x \in TrueLine(c) /\ x # c
    BY <2>1, <2>3, LineStep
  <2>4. CASE x = c
    BY <1>2, <2>1, <2>4, LineClosed
  <2>. QED
    BY <2>2, <2>3, <2>4
<1> HIDE DEF S
<1>3. y \in S
  BY <1>1, <1>2, LineLeast
<1>. QED
  BY <1>3 DEF S

\* Two blocks of a line at one height are one.
LEMMA LineHeights ==
  ASSUME HonestChain, NEW b \in Block, NEW x \in TrueLine(b), NEW y \in TrueLine(b),
         Trunk[x].number = Trunk[y].number
  PROVE  x = y
<1>1. x \in Block /\ y \in Block
  BY LineClosed
<1>2. Trunk[x].number \in Nat /\ Trunk[y].number \in Nat
  BY <1>1, RealChainAssumption
<1>3. x \in TrueLine(y) \/ y \in TrueLine(x)
  BY LineLinear
<1>4. x # y /\ x \in TrueLine(y) => Trunk[x].number < Trunk[y].number
  BY <1>1, LineNumbers
<1>5. x # y /\ y \in TrueLine(x) => Trunk[y].number < Trunk[x].number
  BY <1>1, LineNumbers
<1>. QED
  BY <1>2, <1>3, <1>4, <1>5

\* The pool logs of the real chain up to a block.
TrueRun(b, p) == {e \in TrueLine(b) \X Log : e[2] \in LogsOf[e[1]] /\ LogPool[e[2]] = p}

\* The last absolute log of a run: the runs of the real chain are finite.
LastAbsolute(b, p) ==
  AbsoluteIn(TrueRun(b, p)) # {} =>
    \E e \in AbsoluteIn(TrueRun(b, p)) : \A d \in AbsoluteIn(TrueRun(b, p)) \ {e} : TrueEarlier(d, e)

\* The logs of a line come one after the other.
LEMMA RunLinear ==
  ASSUME HonestChain, NEW b \in Block, NEW p, NEW d \in TrueRun(b, p), NEW e \in TrueRun(b, p), d # e
  PROVE  TrueEarlier(d, e) \/ TrueEarlier(e, d)
<1>1. /\ d[1] \in TrueLine(b) /\ d[2] \in LogsOf[d[1]] /\ d[2] \in Log /\ d = <<d[1], d[2]>>
      /\ e[1] \in TrueLine(b) /\ e[2] \in LogsOf[e[1]] /\ e[2] \in Log /\ e = <<e[1], e[2]>>
  BY DEF TrueRun
<1>2. CASE d[1] # e[1]
  BY <1>1, <1>2, LineLinear DEF TrueEarlier
<1>3. CASE d[1] = e[1]
  <2>1. d[2] # e[2] /\ d[1] \in Block
    BY <1>1, <1>3, LineClosed
  <2>2. LogIndex[d[2]] # LogIndex[e[2]]
    BY <1>1, <1>3, <2>1, RealChainAssumption DEF LogMap
  <2>3. LogIndex[d[2]] \in Nat /\ LogIndex[e[2]] \in Nat
    BY <1>1, PoolDataAssumption
  <2>. QED
    BY <1>3, <2>2, <2>3 DEF TrueEarlier
<1>. QED
  BY <1>2, <1>3

LEMMA EarlierTransitive ==
  ASSUME HonestChain, NEW b \in Block, NEW p, NEW d \in TrueRun(b, p), NEW e \in TrueRun(b, p),
         NEW f \in TrueRun(b, p), TrueEarlier(d, e), TrueEarlier(e, f)
  PROVE  TrueEarlier(d, f)
<1>1. /\ d[1] \in Block /\ e[1] \in Block /\ f[1] \in Block
      /\ d[2] \in Log /\ e[2] \in Log /\ f[2] \in Log
  BY LineClosed DEF TrueRun
<1>2. d[1] \in TrueLine(e[1]) /\ e[1] \in TrueLine(f[1])
  BY <1>1, LineClosed DEF TrueEarlier
<1>3. d[1] \in TrueLine(f[1])
  BY <1>1, <1>2, LineTransitive
<1>4. CASE d[1] = f[1]
  <2>1. d[1] = e[1] /\ e[1] = f[1]
    BY <1>1, <1>2, <1>4, LineAntisymmetric, HonestGrounded
  <2>2. LogIndex[d[2]] \in Nat /\ LogIndex[e[2]] \in Nat /\ LogIndex[f[2]] \in Nat
    BY <1>1, PoolDataAssumption
  <2>. QED
    BY <2>1, <2>2 DEF TrueEarlier
<1>5. CASE d[1] # f[1]
  BY <1>3, <1>5 DEF TrueEarlier
<1>. QED
  BY <1>4, <1>5

\* So the last absolute log of a run exists, blocks and logs being finitely many.
LEMMA HonestLast ==
  ASSUME HonestChain, NEW b \in Block, NEW p
  PROVE  LastAbsolute(b, p)
<1> DEFINE A == AbsoluteIn(TrueRun(b, p))
           HasLast(S) == \E e \in S : \A d \in S \ {e} : TrueEarlier(d, e)
           T == {S \in SUBSET A : S # {} /\ ~HasLast(S)}
<1> SUFFICES ASSUME T # {} PROVE FALSE
  BY DEF LastAbsolute
<1>1. A \subseteq TrueRun(b, p)
  BY DEF AbsoluteIn
<1>2. IsFiniteSet(A)
  <2>1. A \subseteq Block \X Log
    BY <1>1, LineClosed DEF TrueRun
  <2>. QED
    BY <2>1, FiniteAssumption, FS_Product, FS_Subset
<1> HIDE DEF A
<1>3. T \subseteq SUBSET A
  OBVIOUS
<1>4. PICK S \in T : \A U \in T : U \subseteq S => U = S
  <2> HIDE DEF T
  <2>. QED
    BY <1>2, <1>3, SmallestSubset
<1>5. PICK x \in S : TRUE
  OBVIOUS
<1>6. S \ {x} # {}
  BY <1>5
<1>7. HasLast(S \ {x})
  <2>1. S \ {x} \in SUBSET A /\ S \ {x} \subseteq S /\ S \ {x} # S
    BY <1>5
  <2> HIDE DEF HasLast
  <2>. QED
    BY <1>4, <1>6, <2>1
<1>8. PICK e \in S \ {x} : \A d \in (S \ {x}) \ {e} : TrueEarlier(d, e)
  BY <1>7
<1>9. S \subseteq TrueRun(b, p) /\ ~HasLast(S)
  BY <1>1
<1>10. CASE TrueEarlier(x, e)
  BY <1>8, <1>9, <1>10
<1>11. CASE TrueEarlier(e, x)
  <2>1. ASSUME NEW d \in S \ {x} PROVE TrueEarlier(d, x)
    <3>1. CASE d = e
      BY <1>11, <3>1
    <3>2. CASE d # e
      <4>1. TrueEarlier(d, e)
        BY <1>8, <3>2
      <4>2. d \in TrueRun(b, p) /\ e \in TrueRun(b, p) /\ x \in TrueRun(b, p)
        BY <1>9
      <4>. QED
        BY <1>11, <4>1, <4>2, EarlierTransitive
    <3>. QED
      BY <3>1, <3>2
  <2>. QED
    BY <1>9, <2>1
<1>12. x \in TrueRun(b, p) /\ e \in TrueRun(b, p) /\ x # e
  BY <1>9
<1>. QED
  BY <1>10, <1>11, <1>12, RunLinear

\* Every block of the tree is tied to the real chain: by its parent and its bloom,
\* and a block above a filler is one of the seed window.
TiedNode(g, rep, h) ==
  /\ Spans(rep, ParentHash(g, h), h)
  /\ \A l \in LogsOf[h] : EmitterOf[LogPool[l]] \in g.nodes[h].bloom
  /\ ParentHash(g, h) \in Fillers => g.nodes[h].level = "Complete"

Tied(g, rep) ==
  /\ g.anchor \in Served /\ g.head \in Served
  /\ \A h \in Present(g) : TiedNode(g, rep, h)

\* Up the tree means up the real chain, and what the path to a block leaves out
\* of the real chain above the anchor has no logs.
OnRealChain(g, rep, h) ==
  /\ rep[h] \notin TrueLine(g.anchor)
  /\ g.anchor \in TrueLine(rep[h])
  /\ \A x \in TrueLine(rep[h]) :
       x \in TrueLine(g.anchor) \/ LogsOf[x] = {} \/ x \in ConnectedPath(g, h)

LEMMA ConnectedOnRealChain ==
  ASSUME NEW rep, StandIn(rep), TrunkGrounded, NEW g, IsGraph(g), WellFormed(g), Tied(g, rep),
         NEW h \in ConnectedSet(g)
  PROVE  OnRealChain(g, rep, h)
<1> DEFINE C == ConnectedSet(g)
           bad == {x \in C : ~OnRealChain(g, rep, x)}
<1> SUFFICES ASSUME bad # {} PROVE FALSE
  OBVIOUS
<1>1. PICK x \in bad : ParentHash(g, x) \notin bad
  BY DEF WellFormed, Grounded
<1> DEFINE q == ParentHash(g, x)
<1>2. x \in Present(g) /\ Present(g) \subseteq Block /\ C \subseteq Present(g)
  BY GraphParts DEF ConnectedSet
<1>3. rep[q] \in TrueLine(rep[x]) /\ rep[q] # rep[x]
      /\ \A y \in TrueLine(rep[x]) \ TrueLine(rep[q]) : y = rep[x] \/ LogsOf[y] = {}
  BY <1>2 DEF Tied, TiedNode, Spans
<1>4. g.anchor \in Block /\ rep[g.anchor] = g.anchor
  BY DEF Tied, StandIn, Served
<1>5. rep[x] \in Block
  BY <1>2 DEF StandIn
<1>6. rep[q] \in Block /\ TrueLine(rep[q]) \subseteq TrueLine(rep[x]) /\ rep[q] \in TrueLine(rep[q])
  BY <1>3, <1>5, LineClosed, LineTransitive
<1>7. rep[x] \notin TrueLine(rep[q])
  BY <1>3, <1>5, LineAntisymmetric
<1>8. LogsOf[rep[x]] = {} \/ rep[x] \in ConnectedPath(g, x)
  <2>1. CASE x \in Fillers
    BY <2>1 DEF StandIn
  <2>2. CASE x \notin Fillers
    BY <1>2, <2>2, AncestorsClosed DEF StandIn, Served, ConnectedPath
  <2>. QED
    BY <2>1, <2>2
<1>9. \A y \in TrueLine(rep[x]) :
        y \in TrueLine(rep[q]) \/ LogsOf[y] = {} \/ y \in ConnectedPath(g, x)
  BY <1>3, <1>8
<1>10. CASE q = g.anchor
  <2>1. OnRealChain(g, rep, x)
    BY <1>3, <1>4, <1>7, <1>9, <1>10 DEF OnRealChain
  <2>. QED
    BY <2>1
<1>11. CASE q # g.anchor
  <2>1. q \in C
    BY <1>11 DEF WellFormed, ParentsConnected
  <2>2. OnRealChain(g, rep, q)
    BY <1>1, <2>1
  <2>3. ConnectedPath(g, q) \subseteq ConnectedPath(g, x)
    <3>1. q \in Ancestors(g, C, x)
      BY <2>1, AncestorsClosed
    <3>. QED
      BY <2>1, <3>1, AncestorsTransitive DEF ConnectedPath
  <2>4. TrueLine(g.anchor) \subseteq TrueLine(rep[q])
    BY <1>6, <2>2, LineTransitive DEF OnRealChain
  <2> HIDE DEF q
  <2>5. /\ g.anchor \in TrueLine(rep[q])
        /\ \A y \in TrueLine(rep[q]) :
             y \in TrueLine(g.anchor) \/ LogsOf[y] = {} \/ y \in ConnectedPath(g, q)
    BY <2>2 DEF OnRealChain
  <2>6. OnRealChain(g, rep, x)
    BY <1>6, <1>7, <1>9, <2>3, <2>4, <2>5 DEF OnRealChain
  <2>. QED
    BY <2>6
<1>. QED
  BY <1>10, <1>11

\* The blocks of the path stand for blocks of the real chain, in the same order.
LEMMA PathOnLine ==
  ASSUME NEW rep, StandIn(rep), NEW g, IsGraph(g), WellFormed(g), Tied(g, rep),
         NEW h \in ConnectedSet(g), NEW y \in ConnectedPath(g, h)
  PROVE  rep[y] \in TrueLine(rep[h])
<1> DEFINE C == ConnectedSet(g)
           T == {z \in Ancestors(g, C, h) : rep[z] \in TrueLine(rep[h])}
<1>1. C \subseteq Present(g) /\ Present(g) \subseteq Block
  BY GraphParts DEF ConnectedSet
<1>2. rep[h] \in Block
  BY <1>1 DEF StandIn
<1>3. T \in SUBSET C /\ h \in T
  BY <1>2, AncestorsClosed, LineClosed
<1>4. ASSUME NEW c \in T, ParentHash(g, c) \in C PROVE ParentHash(g, c) \in T
  <2>1. ParentHash(g, c) \in Ancestors(g, C, h) /\ c \in C
    BY <1>4, AncestorsClosed
  <2>2. rep[ParentHash(g, c)] \in TrueLine(rep[c])
    BY <1>1, <2>1 DEF Tied, TiedNode, Spans
  <2>3. rep[ParentHash(g, c)] \in TrueLine(rep[h])
    BY <1>2, <2>2, LineTransitive
  <2>. QED
    BY <2>1, <2>3
<1> HIDE DEF T
<1>5. Ancestors(g, C, h) \subseteq T
  BY <1>3, <1>4, AncestorsLeast
<1>. QED
  BY <1>5 DEF ConnectedPath, T

(***************************************************************************)
(* Folding along an honest path gives the real states.                     *)
(***************************************************************************)

\* What can be read of pool p on the path to h is what the chain has there.
Settled(g, h, authority, p) ==
  \A y \in ConnectedPath(g, h) : \A l \in Log :
    Readable(g, y, authority) /\ l \in g.nodes[y].logs /\ LogPool[l] = p
      <=> l \in LogsOf[y] /\ LogPool[l] = p

\* The run up to h is the run up to the anchor and, later in every order, the
\* run read from the path.
RunOf(g, h, p, R) ==
  /\ TrueRun(h, p) = TrueRun(g.anchor, p) \cup R
  /\ \A d \in TrueRun(g.anchor, p), e \in R : TrueEarlier(d, e) /\ ~TrueEarlier(e, d) /\ d # e
  /\ \A d, e \in R : Earlier(g, d, e) <=> TrueEarlier(d, e)
  /\ \A d, e \in TrueRun(h, p) : TrueEarlier(d, e) => ~TrueEarlier(e, d)

LEMMA PathRunIsReal ==
  ASSUME NEW rep, StandIn(rep), TrunkGrounded, NEW g, IsGraph(g), WellFormed(g), Tied(g, rep),
         NEW h \in ConnectedSet(g), h \in Served, NEW p, NEW authority, Settled(g, h, authority, p)
  PROVE  RunOf(g, h, p, PathRun(g, h, authority, p))
<1> DEFINE R == PathRun(g, h, authority, p)
           P == ConnectedPath(g, h)
           a == g.anchor
           C == ConnectedSet(g)
<1>1. C \subseteq Present(g) /\ Present(g) \subseteq Block
  BY GraphParts DEF ConnectedSet
<1>2. P \subseteq C /\ h \in P
  BY AncestorsClosed DEF ConnectedPath
<1>3. rep[h] = h /\ h \in Block /\ a \in Block
  BY DEF StandIn, Served, Tied
<1>4. \A y \in P : OnRealChain(g, rep, y) /\ rep[y] \in TrueLine(h)
  BY <1>2, <1>3, ConnectedOnRealChain, PathOnLine
<1>5. OnRealChain(g, rep, h)
  BY ConnectedOnRealChain
<1>6. TrueLine(a) \subseteq TrueLine(h) /\ TrueLine(h) \subseteq Block
  BY <1>3, <1>5, LineTransitive, LineClosed DEF OnRealChain
<1>7. \A e : e \in R <=> /\ e \in P \X Log /\ Readable(g, e[1], authority)
                         /\ e[2] \in g.nodes[e[1]].logs /\ LogPool[e[2]] = p
  BY DEF PathRun
<1>8. \A e : e \in R <=> e \in P \X Log /\ e[2] \in LogsOf[e[1]] /\ LogPool[e[2]] = p
  <2> HIDE DEF R, P
  <2>1. \A e \in P \X Log : e[1] \in P /\ e[2] \in Log
    OBVIOUS
  <2>2. \A e \in P \X Log : e \in R <=> e[2] \in LogsOf[e[1]] /\ LogPool[e[2]] = p
    BY <1>7, <2>1 DEF Settled, P
  <2>. QED
    BY <1>7, <2>2
<1>9. \A y \in P : LogsOf[y] # {} => /\ rep[y] = y /\ y \in TrueLine(h) /\ y \notin TrueLine(a)
                                    /\ a \in TrueLine(y) /\ y \in Block
  BY <1>1, <1>2, <1>4 DEF StandIn, Served, OnRealChain
<1>10. \A y \in TrueLine(h) : y \in TrueLine(a) \/ LogsOf[y] = {} \/ y \in P
  BY <1>3, <1>5 DEF OnRealChain
<1>11. \A b : \A e : e \in TrueRun(b, p) <=>
          e \in TrueLine(b) \X Log /\ e[2] \in LogsOf[e[1]] /\ LogPool[e[2]] = p
  BY DEF TrueRun
<1> HIDE DEF R, P
<1>12. TrueRun(h, p) = TrueRun(a, p) \cup R
  <2>1. ASSUME NEW e \in TrueRun(h, p) PROVE e \in TrueRun(a, p) \cup R
    <3>1. e \in TrueLine(h) \X Log /\ e[2] \in LogsOf[e[1]] /\ LogPool[e[2]] = p
      BY <1>11, <2>1
    <3>2. e[1] \in TrueLine(h) /\ e = <<e[1], e[2]>> /\ e[2] \in Log
      BY <3>1
    <3>3. e[1] \in TrueLine(a) \/ e[1] \in P
      BY <1>10, <3>1, <3>2
    <3>4. e \in TrueLine(a) \X Log \/ e \in P \X Log
      BY <3>2, <3>3
    <3>. QED
      BY <1>8, <1>11, <3>1, <3>4
  <2>2. ASSUME NEW e \in TrueRun(a, p) PROVE e \in TrueRun(h, p)
    <3>1. e \in TrueLine(a) \X Log /\ e[2] \in LogsOf[e[1]] /\ LogPool[e[2]] = p
      BY <1>11, <2>2
    <3>2. e \in TrueLine(h) \X Log
      BY <1>6, <3>1
    <3>. QED
      BY <1>11, <3>1, <3>2
  <2>3. ASSUME NEW e \in R PROVE e \in TrueRun(h, p)
    <3>1. e \in P \X Log /\ e[2] \in LogsOf[e[1]] /\ LogPool[e[2]] = p
      BY <1>8, <2>3
    <3>2. e \in TrueLine(h) \X Log
      BY <1>9, <3>1
    <3>. QED
      BY <1>11, <3>1, <3>2
  <2>. QED
    BY <2>1, <2>2, <2>3
<1>13. \A e \in R : /\ e[1] \in P /\ e[1] \in Block /\ rep[e[1]] = e[1]
                    /\ e[1] \in TrueLine(h) /\ e[1] \notin TrueLine(a) /\ a \in TrueLine(e[1])
  <2>1. \A e \in R : e[1] \in P /\ LogsOf[e[1]] # {}
    BY <1>8
  <2>. QED
    BY <1>9, <2>1
<1>14. ASSUME NEW d \in TrueRun(a, p), NEW e \in R
       PROVE  TrueEarlier(d, e) /\ ~TrueEarlier(e, d) /\ d # e
  <2>1. d[1] \in TrueLine(a)
    BY <1>11
  <2>2. /\ e[1] \in Block /\ a \in TrueLine(e[1])
        /\ e[1] \notin TrueLine(a) /\ e[1] \in P
    BY <1>13
  <2>3. TrueLine(a) \subseteq TrueLine(e[1]) /\ TrueLine(d[1]) \subseteq TrueLine(a)
    BY <1>3, <2>1, <2>2, LineTransitive
  <2>. QED
    BY <2>1, <2>2, <2>3 DEF TrueEarlier
<1>15. ASSUME NEW x \in P, NEW y \in P, x # y, rep[x] = x, rep[y] = y, x \in Block, y \in Block
       PROVE  x \in ConnectedPath(g, y) <=> x \in TrueLine(y)
  <2>1. x \in ConnectedPath(g, y) => x \in TrueLine(y)
    BY <1>2, <1>15, PathOnLine
  <2>2. y \in ConnectedPath(g, x) => y \in TrueLine(x)
    BY <1>2, <1>15, PathOnLine
  <2>3. x \in ConnectedPath(g, y) \/ y \in ConnectedPath(g, x)
    BY <1>2, AncestorsLinear DEF ConnectedPath, P
  <2>4. ~(x \in TrueLine(y) /\ y \in TrueLine(x))
    BY <1>15, LineAntisymmetric
  <2>. QED
    BY <2>1, <2>2, <2>3, <2>4
<1>16. ASSUME NEW d \in R, NEW e \in R PROVE Earlier(g, d, e) <=> TrueEarlier(d, e)
  BY <1>13, <1>15 DEF Earlier, TrueEarlier
<1>17. ASSUME NEW d \in TrueRun(h, p), NEW e \in TrueRun(h, p), TrueEarlier(d, e), TrueEarlier(e, d)
       PROVE  FALSE
  <2>1. d[1] \in Block /\ e[1] \in Block /\ d[2] \in Log /\ e[2] \in Log
    BY <1>6, <1>11
  <2>2. d[1] = e[1]
    BY <1>17, <2>1, LineAntisymmetric DEF TrueEarlier
  <2>3. LogIndex[d[2]] \in Nat /\ LogIndex[e[2]] \in Nat
    BY <2>1, PoolDataAssumption
  <2>. QED
    BY <1>17, <2>2, <2>3 DEF TrueEarlier
<1>. QED
  BY <1>12, <1>14, <1>16, <1>17 DEF RunOf, R

\* The last absolute log of a set is the one every other precedes.
LastOf(S, e) == e \in S /\ \A d \in S \ {e} : TrueEarlier(d, e)

\* derive_pool_state: from the state at the anchor, or from any state when the
\* path has an absolute log, the fold arrives at the real state.
LEMMA DerivedIsReal ==
  ASSUME NEW g, NEW h \in Block, NEW p \in Pool, NEW R, RunOf(g, h, p, R), LastAbsolute(h, p),
         LastAbsolute(g.anchor, p), g.anchor \in Block, NEW base,
         base = TrueStateAt(g.anchor, p) \/ AbsoluteIn(R) # {}
  PROVE  DeriveFrom(g, base, R) = TrueStateAt(h, p)
<1> DEFINE H == TrueRun(h, p)
           B == TrueRun(g.anchor, p)
<1>1. /\ H = B \cup R
      /\ \A d \in B, e \in R : TrueEarlier(d, e) /\ ~TrueEarlier(e, d) /\ d # e
      /\ \A d, e \in R : Earlier(g, d, e) <=> TrueEarlier(d, e)
      /\ \A d, e \in H : TrueEarlier(d, e) => ~TrueEarlier(e, d)
  BY DEF RunOf
<1>2. \A b : TrueStateAt(b, p) =
        IF AbsoluteIn(TrueRun(b, p)) = {} THEN {e[2] : e \in TrueRun(b, p)}
        ELSE {e[2] : e \in {d \in TrueRun(b, p) :
                ~TrueEarlier(d, CHOOSE e \in AbsoluteIn(TrueRun(b, p)) :
                                  \A x \in AbsoluteIn(TrueRun(b, p)) \ {e} : TrueEarlier(x, e))}}
  BY DEF TrueStateAt, TrueRun, AbsoluteIn
<1>3. AbsoluteIn(H) # {} => \E e : LastOf(AbsoluteIn(H), e)
  BY DEF LastAbsolute, LastOf
<1>4. AbsoluteIn(H) = AbsoluteIn(B) \cup AbsoluteIn(R) /\ AbsoluteIn(R) \subseteq R /\ AbsoluteIn(B) \subseteq B
  BY <1>1 DEF AbsoluteIn
<1>5. CASE AbsoluteIn(R) = {}
  <2>1. base = TrueStateAt(g.anchor, p) /\ AbsoluteIn(H) = AbsoluteIn(B)
    BY <1>4, <1>5
  <2>2. DeriveFrom(g, base, R) = base \cup {e[2] : e \in R}
    BY <1>5 DEF DeriveFrom
  <2>3. CASE AbsoluteIn(B) = {}
    <3>1. base = {e[2] : e \in B} /\ TrueStateAt(h, p) = {e[2] : e \in H}
      BY <1>2, <2>1, <2>3
    <3> HIDE DEF H, B
    <3>. QED
      BY <1>1, <2>2, <3>1
  <2>4. CASE AbsoluteIn(B) # {}
    <3> DEFINE last == CHOOSE e \in AbsoluteIn(B) : \A x \in AbsoluteIn(B) \ {e} : TrueEarlier(x, e)
    <3>1. last \in B
      <4>1. \E e \in AbsoluteIn(B) : \A x \in AbsoluteIn(B) \ {e} : TrueEarlier(x, e)
        BY <2>4 DEF LastAbsolute
      <4>2. last \in AbsoluteIn(B)
        BY <4>1
      <4>. QED
        BY <1>4, <4>2
    <3>2. TrueStateAt(g.anchor, p) = {e[2] : e \in {d \in B : ~TrueEarlier(d, last)}}
      BY <1>2, <2>4
    <3>3. TrueStateAt(h, p) = {e[2] : e \in {d \in H : ~TrueEarlier(d, last)}}
      BY <1>2, <2>1, <2>4
    <3> HIDE DEF last, H, B
    <3>4. {d \in H : ~TrueEarlier(d, last)} = {d \in B : ~TrueEarlier(d, last)} \cup R
      BY <1>1, <3>1
    <3>. QED
      BY <2>1, <2>2, <3>2, <3>3, <3>4
  <2>. QED
    BY <2>3, <2>4
<1>6. CASE AbsoluteIn(R) # {}
  <2> DEFINE lastH == CHOOSE e \in AbsoluteIn(H) : \A x \in AbsoluteIn(H) \ {e} : TrueEarlier(x, e)
             lastR == CHOOSE e \in AbsoluteIn(R) : \A x \in AbsoluteIn(R) \ {e} : Earlier(g, x, e)
  <2>1. PICK e : LastOf(AbsoluteIn(H), e)
    BY <1>3, <1>4, <1>6
  <2>2. e \in AbsoluteIn(R)
    <3> HIDE DEF H, B
    <3>. QED
      BY <1>1, <1>4, <1>6, <2>1 DEF LastOf
  <2>3. \A f : LastOf(AbsoluteIn(H), f) => f = e
    <3> HIDE DEF H, B
    <3>. QED
      BY <1>1, <1>4, <2>1 DEF LastOf
  <2>4. lastH = e
    <3>1. LastOf(AbsoluteIn(H), lastH)
      BY <2>1 DEF LastOf
    <3>. QED
      BY <2>3, <3>1
  <2>5. \A f \in AbsoluteIn(R) : (\A x \in AbsoluteIn(R) \ {f} : Earlier(g, x, f)) => f = e
    <3> HIDE DEF H, B
    <3>. QED
      BY <1>1, <1>4, <2>1, <2>2 DEF LastOf
  <2>6. lastR = e
    <3>1. \A x \in AbsoluteIn(R) \ {e} : Earlier(g, x, e)
      <4> HIDE DEF H, B
      <4>. QED
        BY <1>1, <1>4, <2>1, <2>2 DEF LastOf
    <3>2. lastR \in AbsoluteIn(R) /\ \A x \in AbsoluteIn(R) \ {lastR} : Earlier(g, x, lastR)
      BY <2>2, <3>1
    <3> HIDE DEF lastR
    <3>. QED
      BY <2>5, <3>2
  <2>7. DeriveFrom(g, base, R) = {d[2] : d \in {x \in R : ~Earlier(g, x, e)}}
    BY <1>6, <2>6 DEF DeriveFrom
  <2>8. TrueStateAt(h, p) = {d[2] : d \in {x \in H : ~TrueEarlier(x, e)}}
    BY <1>2, <1>4, <1>6, <2>4
  <2> HIDE DEF H, B
  <2>9. {x \in H : ~TrueEarlier(x, e)} = {x \in R : ~Earlier(g, x, e)}
    BY <1>1, <1>4, <2>2
  <2>. QED
    BY <2>7, <2>8, <2>9
<1>. QED
  BY <1>5, <1>6

\* Nothing on the path blocks: the fold is exact at h for every pool it lists.
LEMMA FoldIsReal ==
  ASSUME HonestChain, NEW rep, StandIn(rep), NEW g, IsGraph(g), WellFormed(g), Tied(g, rep),
         NEW h \in ConnectedSet(g), h \in Served, NEW authority, NEW v \in SUBSET Pool,
         NEW base, DOMAIN base \subseteq v, \A p \in DOMAIN base : base[p] = TrueState[g.anchor][p],
         \A y \in ConnectedPath(g, h) :
           /\ ~Blocker(g, y, WatchedAddresses(v), authority)
           /\ Readable(g, y, authority) => g.nodes[y].logs = LogsOf[y]
  PROVE  LET s == FoldedPoolStates(g, base, v, h, authority)
         IN /\ DOMAIN base \subseteq DOMAIN s /\ DOMAIN s \subseteq v
            /\ \A p \in DOMAIN s : s[p] = TrueState[h][p]
<1> DEFINE D == DOMAIN base \cup SelfSeeded(g, base, v, h, authority)
           R(p) == PathRun(g, h, authority, p)
<1>1. h \in Block /\ g.anchor \in Block
  BY DEF Served, Tied
<1>2. ASSUME NEW p \in v PROVE Settled(g, h, authority, p)
  <2> SUFFICES ASSUME NEW y \in ConnectedPath(g, h), NEW l \in Log, LogPool[l] = p
               PROVE  Readable(g, y, authority) /\ l \in g.nodes[y].logs <=> l \in LogsOf[y]
    BY DEF Settled
  <2>1. CASE Readable(g, y, authority)
    BY <2>1
  <2>2. CASE ~Readable(g, y, authority)
    <3>1. y \in Present(g)
      BY AncestorsClosed DEF ConnectedPath, ConnectedSet
    <3>2. g.nodes[y].bloom \cap WatchedAddresses(v) = {}
      BY <2>2 DEF Blocker, BloomMayTouch
    <3>3. EmitterOf[p] \in WatchedAddresses(v)
      BY DEF WatchedAddresses
    <3>4. l \in LogsOf[y] => EmitterOf[p] \in g.nodes[y].bloom
      BY <3>1 DEF Tied, TiedNode
    <3>. QED
      BY <2>2, <3>2, <3>3, <3>4
  <2>. QED
    BY <2>1, <2>2
<1>3. ASSUME NEW p \in v PROVE RunOf(g, h, p, R(p))
  BY <1>2, <1>3, PathRunIsReal, HonestGrounded
<1>4. D \subseteq v
  BY DEF SelfSeeded
<1>5. ASSUME NEW p \in D
      PROVE  DeriveFrom(g, IF p \in DOMAIN base THEN base[p] ELSE {}, R(p)) = TrueState[h][p]
  <2> DEFINE b == IF p \in DOMAIN base THEN base[p] ELSE {}
  <2>1. p \in v /\ p \in Pool
    BY <1>4
  <2>2. b = TrueStateAt(g.anchor, p) \/ AbsoluteIn(R(p)) # {}
    <3>1. CASE p \in DOMAIN base
      BY <1>1, <2>1, <3>1 DEF TrueState
    <3>2. CASE p \notin DOMAIN base
      BY <3>2 DEF SelfSeeded
    <3>. QED
      BY <3>1, <3>2
  <2>3. RunOf(g, h, p, R(p))
    BY <1>3, <2>1
  <2>4. LastAbsolute(h, p) /\ LastAbsolute(g.anchor, p)
    BY <1>1, <2>1, HonestLast
  <2> HIDE DEF b, R
  <2>5. DeriveFrom(g, b, R(p)) = TrueStateAt(h, p)
    BY <1>1, <2>1, <2>2, <2>3, <2>4, DerivedIsReal
  <2>6. TrueStateAt(h, p) = TrueState[h][p]
    BY <1>1, <2>1 DEF TrueState
  <2>. QED
    BY <2>5, <2>6 DEF b
<1>6. FoldedPoolStates(g, base, v, h, authority) =
        [p \in D |-> DeriveFrom(g, IF p \in DOMAIN base THEN base[p] ELSE {}, R(p))]
  BY DEF FoldedPoolStates
<1> HIDE DEF D, R
<1>7. DOMAIN base \subseteq D
  BY DEF D
<1>. QED
  BY <1>4, <1>5, <1>6, <1>7

\* A fold never stops at a filler: the block above it is one of the seed window,
\* and those come with their logs.
LEMMA FrontierServed ==
  ASSUME NEW rep, StandIn(rep), NEW g, IsGraph(g), WellFormed(g), Tied(g, rep),
         NEW target \in Served, NEW watched, NEW authority,
         NEW x, x = FoldableFrontier(g, target, watched, authority), x # g.anchor
  PROVE  /\ x \in ConnectedSet(g) /\ x \in Served
         /\ \A y \in ConnectedPath(g, x) : ~Blocker(g, y, watched, authority)
<1> DEFINE part == FoldablePart(g, target, watched, authority)
           C    == ConnectedSet(g)
<1>1. x \in part /\ part \subseteq ConnectedPath(g, x)
  BY FrontierFoldable
<1>2. /\ x \in ConnectedPath(g, target)
      /\ \A y \in ConnectedPath(g, x) : ~Blocker(g, y, watched, authority)
  BY <1>1 DEF FoldablePart
<1>3. target \in C /\ x \in Ancestors(g, C, target) /\ x \in C
  BY <1>2, AncestorsClosed DEF ConnectedPath
<1>4. C \subseteq Present(g) /\ Present(g) \subseteq Block
  BY GraphParts DEF ConnectedSet
<1>5. x \notin Fillers
  <2> SUFFICES ASSUME x \in Fillers PROVE FALSE
    OBVIOUS
  <2>1. x # target
    BY DEF Served
  <2>2. PICK c \in Ancestors(g, C, target) : ParentHash(g, c) = x
    BY <1>3, <2>1, AncestorsChild
  <2>3. c \in C
    BY <1>3, <2>2, AncestorsClosed
  <2>4. ~Blocker(g, c, watched, authority)
    BY <1>4, <2>2, <2>3 DEF Tied, TiedNode, Blocker, Readable
  <2>5. \A y \in Ancestors(g, C, c) : y = c \/ y \in Ancestors(g, C, x)
    BY <2>2, <2>3, AncestorsStep
  <2>6. c \in part
    BY <1>2, <1>3, <2>2, <2>3, <2>4, <2>5 DEF FoldablePart, ConnectedPath
  <2>7. c \in Ancestors(g, C, x)
    BY <1>1, <1>3, <2>6 DEF ConnectedPath
  <2>8. x \in Ancestors(g, C, c)
    BY <1>3, <2>2, <2>3, AncestorsClosed
  <2>9. c = x
    BY <1>3, <2>7, <2>8, AncestorsAntisymmetric DEF WellFormed
  <2>10. {x} \in SUBSET C /\ {x} # {}
    BY <1>3
  <2>. QED
    BY <2>2, <2>9, <2>10 DEF WellFormed, Grounded
<1>. QED
  BY <1>2, <1>3, <1>4, <1>5 DEF Served

(***************************************************************************)
(* Every operation keeps the tree tied to the real chain.                  *)
(***************************************************************************)
\* The ladder over a whole step of the graph.
Ladder(g, g2) == \A h \in Present(g) \cap Present(g2) : Climbs(g.nodes[h], g2.nodes[h])

LEMMA TiedKept ==
  ASSUME NEW rep, NEW g, Tied(g, rep), NEW g2, KeepsHeaders(g, g2), Ladder(g, g2), g2.head \in Served
  PROVE  Tied(g2, rep)
BY DEF Tied, TiedNode, KeepsHeaders, SameHeader, Ladder, Climbs

LEMMA AdmissionTied ==
  ASSUME NEW rep, NEW g, TreeOK(g), Tied(g, rep),
         NEW hash \in Block, NEW parent \in Block, NEW data \in BlockData, NEW cap \in {MaxPending, SeedCap},
         Spans(rep, parent, hash), \A l \in LogsOf[hash] : EmitterOf[LogPool[l]] \in data.bloom,
         parent \in Fillers => data.level = "Complete"
  PROVE  Tied(WithDataCapped(g, hash, parent, data, cap), rep)
<1> DEFINE g2 == WithDataCapped(g, hash, parent, data, cap)
<1>0. cap \in Nat /\ PendingCap \in Nat /\ cap <= PendingCap
  BY RealChainAssumption DEF PendingCap
<1>1. LogsKept(g, g2) /\ Brings(g, g2, hash, data)
  BY <1>0, AdmissionWellFormed DEF TreeOK
<1>2. /\ g2.anchor = g.anchor /\ g2.head = g.head
      /\ \A h \in Present(g2) :
           \/ h \in Present(g) /\ SameHeader(g2, g, h)
           \/ h = hash /\ h \notin Present(g) /\ ParentHash(g2, h) = parent
              /\ g2.nodes[h].bloom = data.bloom
  BY AdmissionHeaders DEF TreeOK
<1> HIDE DEF g2
<1>3. ASSUME NEW h \in Present(g2) PROVE TiedNode(g2, rep, h)
  <2>1. CASE h \in Present(g) /\ SameHeader(g2, g, h)
    BY <1>1, <2>1 DEF Tied, TiedNode, SameHeader, LogsKept, SameLogs
  <2>2. CASE h = hash /\ h \notin Present(g) /\ ParentHash(g2, h) = parent
             /\ g2.nodes[h].bloom = data.bloom
    BY <1>1, <2>2 DEF TiedNode, Brings
  <2>. QED
    BY <1>2, <2>1, <2>2
<1>. QED
  BY <1>2, <1>3 DEF Tied, g2

\* A header as its hash commits to it bridges nothing.
LEMMA HeaderBridges ==
  ASSUME HonestChain, NEW rep, StandIn(rep), NEW b \in Known, Trunk[b].parent \notin Fillers
  PROVE  /\ Spans(rep, Trunk[b].parent, b)
         /\ \A l \in LogsOf[b] : EmitterOf[LogPool[l]] \in Trunk[b].bloom
<1> DEFINE q == Trunk[b].parent
<1>1. b \in Block /\ q \in Block /\ b \notin Fillers
  BY DEF Known, Fillers
<1>2. rep[b] = b /\ rep[q] = q
  BY <1>1 DEF StandIn, Served
<1>3. q \in TrueLine(b)
  BY <1>1, LineClosed
<1>4. q # b
  <2>1. {b} \in SUBSET Block /\ {b} # {}
    BY <1>1
  <2>. QED
    BY <2>1, HonestGrounded DEF TrunkGrounded
<1>5. \A x \in TrueLine(b) : x = b \/ x \in TrueLine(q)
  BY <1>1, LineStep
<1>6. Spans(rep, q, b)
  BY <1>2, <1>3, <1>4, <1>5 DEF Spans
<1>7. \A l \in LogsOf[b] : EmitterOf[LogPool[l]] \in Trunk[b].bloom
  BY <1>1 DEF HonestChain
<1>. QED
  BY <1>6, <1>7

Rep == CHOOSE rep \in [Block -> Block] : StandIn(rep)

LEMMA RepStandsIn == HonestChain => StandIn(Rep)
BY DEF HonestChain, Rep

(***************************************************************************)
(* Finality on the real chain.                                             *)
(***************************************************************************)

\* finalized_to stops at a block of the real chain below the target, and the tree it
\* leaves is tied to the real chain as before.
LEMMA FinalityIsReal ==
  ASSUME HonestChain, NEW rep, StandIn(rep), NEW g, IsGraph(g), WellFormed(g), Tied(g, rep),
         NEW target \in Served, NEW v, NEW a, a = FinalizationPoint(g, target, v), a # g.anchor
  PROVE  /\ a \in ConnectedSet(g) /\ a \in Served
         /\ \A y \in ConnectedPath(g, a) : ~Blocker(g, y, WatchedAddresses(v), "RequireComplete")
         /\ a \in TrueDescendants[g.anchor] /\ a \in TrueLine(target)
         /\ ReanchoredTo(g, a).anchor = a /\ Tied(ReanchoredTo(g, a), rep)
<1>1. /\ target \in CanonicalPath(g)
      /\ a = FoldableFrontier(g, target, WatchedAddresses(v), "RequireComplete")
  BY DEF FinalizationPoint, CanonicalTarget
<1>2. /\ a \in ConnectedSet(g) /\ a \in Served
      /\ \A y \in ConnectedPath(g, a) : ~Blocker(g, y, WatchedAddresses(v), "RequireComplete")
  BY <1>1, FrontierServed
<1>3. a \in TrueDescendants[g.anchor]
  <2>1. OnRealChain(g, rep, a) /\ rep[a] = a /\ a \in Block /\ g.anchor \in Block
    BY <1>2, ConnectedOnRealChain, HonestGrounded DEF StandIn, Served, Tied
  <2>. QED
    BY <2>1 DEF OnRealChain, TrueDescendants
<1>4. a \in TrueLine(target)
  <2>1. a \in ConnectedPath(g, target)
    BY <1>1, FrontierFoldable DEF FoldablePart
  <2>2. target \in ConnectedSet(g)
    BY <2>1 DEF ConnectedPath
  <2>3. rep[a] \in TrueLine(rep[target])
    BY <2>1, <2>2, PathOnLine
  <2>. QED
    BY <1>2, <2>3 DEF StandIn
<1>5. ReanchoredTo(g, a).anchor = a /\ Tied(ReanchoredTo(g, a), rep)
  <2> DEFINE g2 == ReanchoredTo(g, a)
  <2>1. /\ g2.anchor = a /\ g2.head \in {a, g.head}
        /\ Present(g2) \subseteq Present(g)
        /\ \A h \in Present(g2) : SameHeader(g2, g, h)
    BY <1>2, ReanchorHeaders
  <2>2. \A h \in Present(g2) : SameLogs(g2, g, h)
    BY <1>2, ReanchorWellFormed
  <2> HIDE DEF g2
  <2>3. Tied(g2, rep)
    BY <1>2, <2>1, <2>2 DEF Tied, TiedNode, SameHeader, SameLogs
  <2>. QED
    BY <2>1, <2>3 DEF g2
<1>. QED
  BY <1>2, <1>3, <1>4, <1>5

\* What an authoritative fold reads of a tree of authoritative logs are the real states.
LEMMA CompleteFold ==
  ASSUME HonestChain, NEW rep, StandIn(rep), NEW g, IsGraph(g), WellFormed(g), Tied(g, rep),
         CompleteIsExact(g), NEW h \in ConnectedSet(g), h \in Served, NEW v \in SUBSET Pool,
         NEW base, DOMAIN base \subseteq v, \A p \in DOMAIN base : base[p] = TrueState[g.anchor][p],
         \A y \in ConnectedPath(g, h) : ~Blocker(g, y, WatchedAddresses(v), "RequireComplete")
  PROVE  LET s == FoldedPoolStates(g, base, v, h, "RequireComplete")
         IN /\ DOMAIN base \subseteq DOMAIN s /\ DOMAIN s \subseteq v
            /\ \A p \in DOMAIN s : s[p] = TrueState[h][p]
<1>1. ConnectedPath(g, h) \subseteq Present(g)
  BY AncestorsClosed DEF ConnectedPath, ConnectedSet
<1>2. \A y \in ConnectedPath(g, h) :
        /\ ~Blocker(g, y, WatchedAddresses(v), "RequireComplete")
        /\ Readable(g, y, "RequireComplete") => g.nodes[y].logs = LogsOf[y]
  BY <1>1 DEF Readable, CompleteIsExact
<1>. QED
  BY <1>2, FoldIsReal
================================================================================
