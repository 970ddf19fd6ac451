---------------------------- MODULE BootstrapProofs ----------------------------
(***************************************************************************)
(* For any chain, any deadline, time to live and window, and whatever      *)
(* becomes of its requests: a bootstrap that goes on waits for exactly one *)
(* answer; and the seed it hands over is linked to its anchor and is what  *)
(* the chain has, whatever fork each window was served from and wherever   *)
(* the chain goes.                                                         *)
(*                                                                         *)
(* One request (AwaitInv).  Ids play no part in it: a request is taken by  *)
(* any answer that matches it, and the one request there is leaves none    *)
(* when it is taken.                                                       *)
(*                                                                         *)
(* The seed (SeedInv).  What was scanned agrees with the chain from the    *)
(* anchor to where the next window starts and Drift below the frozen tip,  *)
(* which no move of the chain can change, and so does every answer that    *)
(* is under way; an answer and the request it is for agree on the window.  *)
(* Cut TipTrim >= Drift below its top, the scan is then the chain.         *)
(***************************************************************************)
EXTENDS Bootstrap, FiniteSetTheorems, TLAPS

(***************************************************************************)
(* Finite sets of numbers.                                                 *)
(***************************************************************************)
\* A set of subsets of a finite set has a least member: what an induction on its size
\* would give.
LEMMA SmallestSubset ==
  ASSUME NEW W, IsFiniteSet(W), NEW T, T \subseteq SUBSET W, T # {}
  PROVE  \E s \in T : \A t \in T : t \subseteq s => t = s
<1>1. T \subseteq FiniteSubsetsOf(W)
  BY FS_FiniteSubsetsOfFinite
<1>2. PICK s \in T : \A t \in T : ~ (<<t, s>> \in StrictSubsetOrdering(W))
  BY <1>1, FS_StrictSubsetOrderingWellFounded, WFMin
<1>. QED
  BY <1>2 DEF StrictSubsetOrdering

\* A finite set of numbers has a lowest and a highest one.
LEMMA Extremes ==
  ASSUME NEW W, IsFiniteSet(W), W # {}, \A n \in W : n \in Nat
  PROVE  /\ Min(W) \in W /\ \A n \in W : Min(W) <= n
         /\ Max(W) \in W /\ \A n \in W : n <= Max(W)
<1> DEFINE Bounded(S) == /\ \E s \in S : \A t \in S : s <= t
                         /\ \E s \in S : \A t \in S : t <= s
           T == {S \in SUBSET W : S # {} /\ ~Bounded(S)}
<1>1. T = {}
  <2> SUFFICES ASSUME T # {} PROVE FALSE
    OBVIOUS
  <2>1. T \subseteq SUBSET W /\ T # {} /\ IsFiniteSet(W)
    OBVIOUS
  <2>2. PICK S \in T : \A U \in T : U \subseteq S => U = S
    <3> HIDE DEF T
    <3>1. \E s \in T : \A t \in T : t \subseteq s => t = s
      BY <2>1, SmallestSubset
    <3>. QED
      BY <3>1
  <2>3. PICK x \in S : TRUE
    OBVIOUS
  <2>4. S \subseteq Nat /\ S \ {x} # {} /\ S \ {x} \in SUBSET W /\ S \ {x} # S
    BY <2>3
  <2>5. Bounded(S \ {x})
    <3> HIDE DEF Bounded
    <3>. QED
      BY <2>2, <2>4
  <2>6. PICK lo \in S \ {x} : \A t \in S \ {x} : lo <= t
    BY <2>5
  <2>7. PICK hi \in S \ {x} : \A t \in S \ {x} : t <= hi
    BY <2>5
  <2>8. \E s \in S : \A t \in S : s <= t
    <3>1. CASE x <= lo
      BY <2>4, <2>6, <3>1
    <3>2. CASE lo <= x
      BY <2>4, <2>6, <3>2
    <3>. QED
      BY <2>4, <3>1, <3>2
  <2>9. \E s \in S : \A t \in S : t <= s
    <3>1. CASE x <= hi
      BY <2>4, <2>7, <3>1
    <3>2. CASE hi <= x
      BY <2>4, <2>7, <3>2
    <3>. QED
      BY <2>4, <3>1, <3>2
  <2>. QED
    BY <2>8, <2>9
<1>2. Bounded(W)
  BY <1>1
<1>. QED
  BY <1>2 DEF Min, Max

(***************************************************************************)
(* The lines of the chain.                                                 *)
(***************************************************************************)
\* A line holds its block and, with every member, the parent.
LEMMA LineClosed ==
  ASSUME NEW b \in Block
  PROVE  Line[b] \subseteq Block /\ b \in Line[b] /\ \A c \in Line[b] \ {Root} : Parent[c] \in Line[b]
<1>1. Line[b] = {x \in Block : \A S \in SUBSET Block :
                   (b \in S /\ \A c \in S \ {Root} : Parent[c] \in S) => x \in S}
  BY DEF Line
<1>. QED
  BY <1>1, BootstrapAssumption

\* It is the least such set.
LEMMA LineLeast ==
  ASSUME NEW b \in Block, NEW S \in SUBSET Block, b \in S, \A c \in S \ {Root} : Parent[c] \in S
  PROVE  Line[b] \subseteq S
BY DEF Line

\* The line of an ancestor is part of the line.
LEMMA LineTransitive ==
  ASSUME NEW b \in Block, NEW m \in Line[b]
  PROVE  Line[m] \subseteq Line[b]
BY LineClosed, LineLeast

\* Below a block its line is that of the parent.
LEMMA LineStep ==
  ASSUME NEW b \in Block, NEW x \in Line[b], x # b
  PROVE  b # Root /\ x \in Line[Parent[b]]
<1>1. CASE b = Root
  <2>1. Line[b] \subseteq {b}
    BY <1>1, LineLeast
  <2>. QED
    BY <2>1
<1>2. CASE b # Root
  <2> DEFINE S == {b} \cup Line[Parent[b]]
  <2>1. Parent[b] \in Block
    BY <1>2, BootstrapAssumption
  <2>2. S \in SUBSET Block /\ b \in S /\ \A c \in S \ {Root} : Parent[c] \in S
    BY <1>2, <2>1, LineClosed
  <2> HIDE DEF S
  <2>3. Line[b] \subseteq S
    BY <2>2, LineLeast
  <2>. QED
    BY <1>2, <2>3 DEF S
<1>. QED
  BY <1>1, <1>2

\* Heights fall along a line.
LEMMA LineFalls ==
  ASSUME NEW b \in Block, NEW x \in Line[b]
  PROVE  x = b \/ Number[x] < Number[b]
<1> DEFINE S == {c \in Block : c = b \/ Number[c] < Number[b]}
<1>1. \A c \in S \ {Root} : Parent[c] \in S
  BY BootstrapAssumption
<1>2. S \in SUBSET Block /\ b \in S
  OBVIOUS
<1> HIDE DEF S
<1>3. Line[b] \subseteq S
  BY <1>1, <1>2, LineLeast
<1>. QED
  BY <1>3 DEF S

\* Of two members of a line one is on the line of the other.
LEMMA LineLinear ==
  ASSUME NEW b \in Block, NEW x \in Line[b], NEW y \in Line[b]
  PROVE  x \in Line[y] \/ y \in Line[x]
<1> DEFINE S == {c \in Block : c \in Line[y] \/ y \in Line[c]}
<1>1. y \in Block
  BY LineClosed
<1>2. ASSUME NEW c \in S \ {Root} PROVE Parent[c] \in S
  <2>1. Parent[c] \in Block
    BY BootstrapAssumption
  <2>2. c \in Line[y] => Parent[c] \in Line[y]
    BY <1>1, LineClosed
  <2>3. y \in Line[c] /\ y # c => y \in Line[Parent[c]]
    BY LineStep
  <2>. QED
    BY <1>1, <2>1, <2>2, <2>3, LineClosed
<1>3. S \in SUBSET Block /\ b \in S
  OBVIOUS
<1> HIDE DEF S
<1>4. Line[b] \subseteq S
  BY <1>2, <1>3, LineLeast
<1>. QED
  BY <1>4 DEF S

\* A height occurs once on a line.
LEMMA LineHeights ==
  ASSUME NEW b \in Block, NEW x \in Line[b], NEW y \in Line[b], Number[x] = Number[y]
  PROVE  x = y
<1>1. x \in Block /\ y \in Block /\ Number[x] \in Nat
  BY LineClosed, BootstrapAssumption
<1>. QED
  BY <1>1, LineLinear, LineFalls

\* Every line comes down to the first block.
LEMMA LineRooted ==
  ASSUME NEW b \in Block
  PROVE  Root \in Line[b]
<1> SUFFICES ASSUME Root \notin Line[b] PROVE FALSE
  OBVIOUS
<1> DEFINE H == {Number[x] : x \in Line[b]}
<1>1. Line[b] \subseteq Block /\ b \in Line[b] /\ \A c \in Line[b] : Parent[c] \in Line[b]
  BY LineClosed
<1>2. H \in SUBSET Nat /\ H # {}
  BY <1>1, BootstrapAssumption
<1>3. IsFiniteSet(H)
  <2> DEFINE F == [x \in Line[b] |-> Number[x]]
  <2>1. F \in Surjection(Line[b], H)
    BY DEF Surjection
  <2>2. IsFiniteSet(Line[b])
    BY <1>1, HashAssumption, FS_Subset
  <2> HIDE DEF F, H
  <2>. QED
    BY <2>1, <2>2, FS_Surjection
<1> HIDE DEF H
<1>4. Min(H) \in H /\ \A n \in H : Min(H) <= n
  BY <1>2, <1>3, Extremes
<1>5. PICK x \in Line[b] : Number[x] = Min(H)
  BY <1>4 DEF H
<1>6. Parent[x] \in Line[b] /\ Number[x] = Number[Parent[x]] + 1
  BY <1>1, <1>5, BootstrapAssumption
<1>7. Number[Parent[x]] \in H /\ Number[Parent[x]] \in Nat
  BY <1>1, <1>6, BootstrapAssumption DEF H
<1>. QED
  BY <1>4, <1>5, <1>6, <1>7

\* A line has a block at every height between the first block's and its own.
LEMMA LineFull ==
  ASSUME NEW b \in Block, NEW n \in Nat, Number[Root] <= n, n <= Number[b]
  PROVE  \E x \in Line[b] : Number[x] = n
<1> SUFFICES ASSUME \A x \in Line[b] : Number[x] # n PROVE FALSE
  OBVIOUS
<1> DEFINE S == {x \in Line[b] : n < Number[x]}
<1>1. Line[b] \subseteq Block /\ b \in Line[b] /\ \A c \in Line[b] \ {Root} : Parent[c] \in Line[b]
  BY LineClosed
<1>2. S \in SUBSET Block /\ b \in S
  BY <1>1, BootstrapAssumption
<1>3. ASSUME NEW c \in S \ {Root} PROVE Parent[c] \in S
  <2>1. Parent[c] \in Line[b] /\ Number[c] = Number[Parent[c]] + 1
    BY <1>1, BootstrapAssumption
  <2>2. Number[Parent[c]] \in Nat /\ Number[Parent[c]] # n /\ n < Number[c]
    BY <1>1, <2>1, BootstrapAssumption
  <2>. QED
    BY <2>1, <2>2
<1>4. Root \in Line[b]
  BY LineRooted
<1> HIDE DEF S
<1>5. Line[b] \subseteq S
  BY <1>2, <1>3, LineLeast
<1>6. Number[Root] \in Nat
  BY BootstrapAssumption
<1>. QED
  BY <1>4, <1>5, <1>6 DEF S

\* Where the settled blocks of t are on the line of u, the two lines agree as deep as that.
LEMMA LinesAgree ==
  ASSUME NEW t \in Block, NEW u \in Block, Settled(t) \subseteq Line[u],
         NEW b \in Block, Number[b] + Drift <= Number[t]
  PROVE  b \in Line[t] <=> b \in Line[u]
<1>1. Drift \in Nat /\ Number[b] \in Nat /\ Number[t] \in Nat /\ Number[Root] \in Nat /\ Root \in Block
  BY BootstrapAssumption
<1>2. b \in Line[t] => b \in Line[u]
  BY DEF Settled
<1>3. ASSUME b \in Line[u] PROVE b \in Line[t]
  <2>1. Number[Root] <= Number[b]
    <3>1. Root \in Line[b]
      BY LineRooted
    <3>. QED
      BY <1>1, <3>1, LineFalls
  <2>2. PICK x \in Line[t] : Number[x] = Number[b]
    BY <1>1, <2>1, LineFull
  <2>3. x \in Line[u]
    BY <2>2 DEF Settled
  <2>4. x = b
    BY <1>3, <2>2, <2>3, LineHeights
  <2>. QED
    BY <2>4
<1>. QED
  BY <1>2, <1>3

\* What is settled stays settled when the chain moves.
LEMMA SettledStays ==
  ASSUME NEW t \in Block, NEW u \in Block, Settled(t) \subseteq Line[u], Number[t] <= Number[u]
  PROVE  Settled(t) \subseteq Settled(u)
<1>1. Drift \in Nat /\ Number[t] \in Nat /\ Number[u] \in Nat /\ Line[t] \subseteq Block
  BY BootstrapAssumption, LineClosed
<1>2. \A b \in Line[t] : Number[b] \in Nat
  BY <1>1, BootstrapAssumption
<1>. QED
  BY <1>1, <1>2 DEF Settled

(***************************************************************************)
(* What was scanned.                                                       *)
(***************************************************************************)
\* The blocks of W are what the line of t has from height lo to hi and Drift or more
\* below the ceiling; nearer to it they may be another fork's.
Agrees(W, lo, hi, ceiling, t) ==
  /\ \A b \in W : /\ b \in Block /\ PoolsOf[b] # {}
                  /\ lo <= Number[b] /\ Number[b] <= hi /\ Number[b] <= ceiling
  /\ \A b \in Block :
       lo <= Number[b] /\ Number[b] <= hi /\ Number[b] + Drift <= ceiling /\ PoolsOf[b] # {}
         => (b \in W <=> b \in Line[t])

\* The chain moves, or is seen by another provider: as deep as the ceiling it is the same.
LEMMA AgreesStays ==
  ASSUME NEW t \in Block, NEW u \in Block, Settled(t) \subseteq Line[u],
         NEW W, NEW lo \in Nat, NEW hi \in Nat, NEW ceiling \in Nat, ceiling <= Number[t], Agrees(W, lo, hi, ceiling, t)
  PROVE  Agrees(W, lo, hi, ceiling, u)
<1>1. Drift \in Nat /\ Number[t] \in Nat /\ \A b \in Block : Number[b] \in Nat
  BY BootstrapAssumption
<1>2. \A b \in Block : Number[b] + Drift <= ceiling => (b \in Line[t] <=> b \in Line[u])
  <2> SUFFICES ASSUME NEW b \in Block, Number[b] + Drift <= ceiling PROVE b \in Line[t] <=> b \in Line[u]
    OBVIOUS
  <2>1. Number[b] + Drift <= Number[t]
    BY <1>1
  <2>. QED
    BY <2>1, LinesAgree
<1>. QED
  BY <1>2 DEF Agrees

\* A provider that is at v answers for the chain at t.
LEMMA LoggedAgrees ==
  ASSUME NEW t \in Block, NEW v \in Views(t), NEW lo \in Nat, NEW hi \in Nat,
         NEW ceiling \in Nat, hi <= ceiling, ceiling <= Number[t]
  PROVE  Agrees(Logged(v, lo, hi), lo, hi, ceiling, t)
<1>1. v \in Block /\ Settled(t) \subseteq Line[v]
  BY DEF Views
<1>2. Drift \in Nat /\ Number[t] \in Nat /\ \A b \in Block : Number[b] \in Nat
  BY BootstrapAssumption
<1>3. \A b \in Block : Number[b] + Drift <= ceiling => (b \in Line[t] <=> b \in Line[v])
  <2> SUFFICES ASSUME NEW b \in Block, Number[b] + Drift <= ceiling PROVE b \in Line[t] <=> b \in Line[v]
    OBVIOUS
  <2>1. Number[b] + Drift <= Number[t]
    BY <1>2
  <2>. QED
    BY <1>1, <2>1, LinesAgree
<1>4. Line[v] \subseteq Block
  BY <1>1, LineClosed
<1>. QED
  BY <1>2, <1>3, <1>4 DEF Agrees, Logged

\* Windows side by side are one window.
LEMMA AgreesJoined ==
  ASSUME NEW W, NEW V, NEW t, NEW lo \in Nat, NEW mid \in Nat, NEW hi \in Nat, NEW ceiling \in Nat,
         lo < mid, mid <= hi + 1,
         Agrees(W, lo, mid - 1, ceiling, t), Agrees(V, mid, hi, ceiling, t)
  PROVE  Agrees(W \cup V, lo, hi, ceiling, t)
<1>1. Drift \in Nat /\ \A b \in Block : Number[b] \in Nat
  BY BootstrapAssumption
<1>2. \A b \in W \cup V : /\ b \in Block /\ PoolsOf[b] # {}
                          /\ lo <= Number[b] /\ Number[b] <= hi /\ Number[b] <= ceiling
  <2>1. \A b \in W : /\ b \in Block /\ PoolsOf[b] # {}
                     /\ lo <= Number[b] /\ Number[b] <= mid - 1 /\ Number[b] <= ceiling
    BY DEF Agrees
  <2>2. \A b \in V : /\ b \in Block /\ PoolsOf[b] # {}
                     /\ mid <= Number[b] /\ Number[b] <= hi /\ Number[b] <= ceiling
    BY DEF Agrees
  <2>. QED
    BY <1>1, <2>1, <2>2
<1>3. ASSUME NEW b \in Block, lo <= Number[b], Number[b] <= hi, Number[b] + Drift <= ceiling, PoolsOf[b] # {}
      PROVE  b \in W \cup V <=> b \in Line[t]
  <2>1. CASE Number[b] <= mid - 1
    <3>1. b \notin V
      BY <1>1, <2>1 DEF Agrees
    <3>2. b \in W <=> b \in Line[t]
      BY <1>3, <2>1 DEF Agrees
    <3>. QED
      BY <3>1, <3>2
  <2>2. CASE mid <= Number[b]
    <3>1. b \notin W
      BY <1>1, <2>2 DEF Agrees
    <3>2. b \in V <=> b \in Line[t]
      BY <1>3, <2>2 DEF Agrees
    <3>. QED
      BY <3>1, <3>2
  <2>. QED
    BY <1>1, <2>1, <2>2
<1>. QED
  BY <1>2, <1>3 DEF Agrees

\* The answers scanned so far.
LEMMA ListedParts ==
  ASSUME NEW w \in Seq(SUBSET Block), NEW W \in SUBSET Block
  PROVE  /\ Listed(<<>>) = {} /\ Listed(w) \in SUBSET Block
         /\ Append(w, W) \in Seq(SUBSET Block) /\ Listed(Append(w, W)) = Listed(w) \cup W
<1>1. Listed(<<>>) = {} /\ Listed(w) \in SUBSET Block
  BY DEF Listed
<1>2. /\ Append(w, W) \in Seq(SUBSET Block)
      /\ DOMAIN Append(w, W) = 1 .. Len(w) + 1 /\ DOMAIN w = 1 .. Len(w) /\ Len(w) \in Nat
      /\ Append(w, W)[Len(w) + 1] = W /\ \A i \in 1 .. Len(w) : Append(w, W)[i] = w[i]
  OBVIOUS
<1> DEFINE v == Append(w, W)
<1> HIDE DEF v
<1>3. \A i \in DOMAIN v : (i \in DOMAIN w /\ v[i] = w[i]) \/ v[i] = W
  BY <1>2 DEF v
<1>4. \A i \in DOMAIN w : i \in DOMAIN v /\ v[i] = w[i]
  BY <1>2 DEF v
<1>5. \E i \in DOMAIN v : v[i] = W
  <2>1. Len(w) + 1 \in DOMAIN v /\ v[Len(w) + 1] = W
    BY <1>2 DEF v
  <2>. QED
    BY <2>1
<1>6. Listed(v) = Listed(w) \cup W
  BY <1>3, <1>4, <1>5 DEF Listed
<1>. QED
  BY <1>1, <1>2, <1>6 DEF v

\* The block taken at a height is one that was scanned there.
LEMMA FirstAtListed ==
  ASSUME NEW w \in Seq(SUBSET Block), NEW n \in Heights(Listed(w))
  PROVE  FirstAt(w, n) \in Listed(w) /\ Number[FirstAt(w, n)] = n
<1> DEFINE J == {j \in DOMAIN w : n \in Heights(w[j])}
           i == Min(J)
<1>1. DOMAIN w = 1 .. Len(w) /\ Len(w) \in Nat
  OBVIOUS
<1>2. J # {}
  BY DEF Heights, Listed
<1>3. IsFiniteSet(J) /\ \A j \in J : j \in Nat
  <2>1. IsFiniteSet(1 .. Len(w))
    BY <1>1, FS_Interval
  <2>. QED
    BY <1>1, <2>1, FS_Subset
<1>4. i \in J
  <2> HIDE DEF J
  <2>. QED
    BY <1>2, <1>3, Extremes
<1>5. FirstAt(w, n) = CHOOSE b \in w[i] : Number[b] = n
  BY DEF FirstAt
<1>6. i \in DOMAIN w /\ \E b \in w[i] : Number[b] = n
  BY <1>4 DEF Heights
<1> HIDE DEF i
<1>. QED
  BY <1>5, <1>6 DEF Listed

(***************************************************************************)
(* The seed window.                                                        *)
(***************************************************************************)
\* The heights of a window are finitely many numbers, and so are those that stay.
LEMMA HeightParts ==
  ASSUME NEW w \in Seq(SUBSET Block), NEW a \in Block
  PROVE  /\ IsFiniteSet(Recent(w, a)) /\ Retained(w, a) \subseteq Recent(w, a) /\ IsFiniteSet(Retained(w, a))
         /\ \A n \in Recent(w, a) : n \in Nat /\ Number[a] < n /\ n \in Heights(Listed(w))
<1>1. Listed(w) \subseteq Block
  BY DEF Listed
<1>2. \A n \in Recent(w, a) : n \in Nat /\ Number[a] < n /\ n \in Heights(Listed(w))
  BY <1>1, BootstrapAssumption DEF Recent, Heights
<1>3. IsFiniteSet(Heights(Listed(w)))
  <2> DEFINE F == [x \in Listed(w) |-> Number[x]]
  <2>1. F \in Surjection(Listed(w), Heights(Listed(w)))
    BY DEF Surjection, Heights
  <2>2. IsFiniteSet(Listed(w))
    BY <1>1, HashAssumption, FS_Subset
  <2> HIDE DEF F
  <2>. QED
    BY <2>1, <2>2, FS_Surjection
<1>4. Recent(w, a) \subseteq Heights(Listed(w)) /\ Retained(w, a) \subseteq Recent(w, a)
  BY DEF Recent, Retained
<1>5. IsFiniteSet(Recent(w, a))
  BY <1>3, <1>4, FS_Subset
<1>. QED
  BY <1>2, <1>4, <1>5, FS_Subset

\* What a block that stays is linked to lies below it, and is the anchor or a block that
\* stays.
LEMMA BelowParts ==
  ASSUME NEW w \in Seq(SUBSET Block), NEW a \in Block, NEW n \in Retained(w, a)
  PROVE  LET lower == Below(w, a, n)
         IN /\ lower \in Block /\ Number[lower] < n
            /\ lower = a \/ (Number[lower] \in Retained(w, a) /\ lower = FirstAt(w, Number[lower]))
<1> DEFINE L == {m \in Retained(w, a) : m < n}
<1>1. /\ n \in Nat /\ Number[a] < n /\ IsFiniteSet(Retained(w, a))
      /\ \A m \in Retained(w, a) : m \in Nat /\ m \in Heights(Listed(w))
  BY HeightParts
<1>2. Below(w, a, n) = IF L = {} THEN a ELSE FirstAt(w, Max(L))
  BY DEF Below
<1>3. CASE L = {}
  BY <1>1, <1>2, <1>3
<1>4. CASE L # {}
  <2>1. IsFiniteSet(L) /\ \A m \in L : m \in Nat
    BY <1>1, FS_Subset
  <2> HIDE DEF L
  <2>2. Max(L) \in L
    BY <1>4, <2>1, Extremes
  <2> DEFINE k == Max(L)
  <2>3. k \in Retained(w, a) /\ k < n /\ k \in Heights(Listed(w))
    BY <1>1, <2>2 DEF L
  <2>4. FirstAt(w, k) \in Listed(w) /\ Number[FirstAt(w, k)] = k
    BY <2>3, FirstAtListed
  <2>5. Listed(w) \subseteq Block
    BY DEF Listed
  <2>6. Below(w, a, n) = FirstAt(w, k)
    BY <1>2, <1>4
  <2> HIDE DEF k
  <2>. QED
    BY <2>3, <2>4, <2>5, <2>6
<1>. QED
  BY <1>3, <1>4

\* What from_window makes of the block at height n.
EntriesAt(w, a, n) ==
  LET b     == FirstAt(w, n)
      lower == Below(w, a, n)
      gap   == Filler(lower, b)
  IN IF n = Number[lower] + 1 THEN {Entry(b, lower, n, PoolsOf[b])}
     ELSE {Entry(gap, lower, n - 1, {}), Entry(b, gap, n, PoolsOf[b])}

\* The entries of the seed, by the height they are made for.
LEMMA SeedEntries ==
  ASSUME NEW w \in Seq(SUBSET Block), NEW a \in Block
  PROVE  /\ \A n \in Retained(w, a) : EntriesAt(w, a, n) \subseteq FromWindow(w, a)
         /\ \A s \in FromWindow(w, a) : \E n \in Retained(w, a) : s \in EntriesAt(w, a, n)
<1>1. FromWindow(w, a) = UNION {EntriesAt(w, a, n) : n \in Retained(w, a)}
  BY DEF FromWindow, EntriesAt
<1>. QED
  BY <1>1

\* The block that stays is in the seed; the entries made for it are its own and, above a
\* gap, the filler's, whose hash is no block's.
LEMMA EntryParts ==
  ASSUME NEW w \in Seq(SUBSET Block), NEW a \in Block, NEW n \in Retained(w, a)
  PROVE  /\ FirstAt(w, n) \in Listed(w) /\ FirstAt(w, n) \in Block /\ Number[FirstAt(w, n)] = n
         /\ n \in Nat /\ Number[a] < n
         /\ \E s \in EntriesAt(w, a, n) : s.hash = FirstAt(w, n) /\ s.number = n
         /\ \A s \in EntriesAt(w, a, n) :
              /\ s.hash = FirstAt(w, n) \/ s.hash \in Block \X Block
              /\ s.number \in Nat /\ s.logs \in SUBSET Pool
              /\ \/ s.parent = Below(w, a, n) /\ Number[Below(w, a, n)] < s.number
                 \/ \E u \in EntriesAt(w, a, n) : u.hash = s.parent /\ u.number < s.number
<1> DEFINE b == FirstAt(w, n)
           lower == Below(w, a, n)
           gap == Filler(lower, b)
<1>1. n \in Nat /\ Number[a] < n /\ n \in Heights(Listed(w))
  BY HeightParts
<1>2. b \in Listed(w) /\ Number[b] = n
  BY <1>1, FirstAtListed
<1>3. b \in Block
  BY <1>2 DEF Listed
<1>4. lower \in Block /\ Number[lower] < n
  BY BelowParts
<1>5. PoolsOf[b] \in SUBSET Pool /\ Number[lower] \in Nat
  BY <1>3, <1>4, BootstrapAssumption
<1>6. gap \in Block \X Block
  BY <1>3, <1>4 DEF Filler
<1>7. EntriesAt(w, a, n) = IF n = Number[lower] + 1 THEN {Entry(b, lower, n, PoolsOf[b])}
                           ELSE {Entry(gap, lower, n - 1, {}), Entry(b, gap, n, PoolsOf[b])}
  BY DEF EntriesAt
<1> HIDE DEF b, lower, gap
<1>8. CASE n = Number[lower] + 1
  <2> DEFINE e == Entry(b, lower, n, PoolsOf[b])
  <2>1. e.hash = b /\ e.parent = lower /\ e.number = n /\ e.logs = PoolsOf[b]
    BY DEF Entry
  <2>2. EntriesAt(w, a, n) = {e}
    BY <1>7, <1>8
  <2> HIDE DEF e
  <2>3. /\ \E s \in EntriesAt(w, a, n) : s.hash = b /\ s.number = n
        /\ \A s \in EntriesAt(w, a, n) :
             /\ s.hash = b
             /\ s.number \in Nat /\ s.logs \in SUBSET Pool
             /\ s.parent = lower /\ Number[lower] < s.number
    BY <1>1, <1>4, <1>5, <2>1, <2>2
  <2>. QED
    BY <1>1, <1>2, <1>3, <2>3 DEF b, lower
<1>9. CASE n # Number[lower] + 1
  <2> DEFINE e == Entry(gap, lower, n - 1, {})
             f == Entry(b, gap, n, PoolsOf[b])
  <2>1. /\ e.hash = gap /\ e.parent = lower /\ e.number = n - 1 /\ e.logs = {}
        /\ f.hash = b /\ f.parent = gap /\ f.number = n /\ f.logs = PoolsOf[b]
    BY DEF Entry
  <2>2. EntriesAt(w, a, n) = {e, f}
    BY <1>7, <1>9
  <2>3. n - 1 \in Nat /\ Number[lower] < n - 1 /\ n - 1 < n
    BY <1>1, <1>4, <1>5, <1>9
  <2> HIDE DEF e, f
  <2>4. \E s \in EntriesAt(w, a, n) : s.hash = b /\ s.number = n
    BY <2>1, <2>2
  <2>5. /\ e.hash \in Block \X Block /\ e.number \in Nat /\ e.logs \in SUBSET Pool
        /\ e.parent = lower /\ Number[lower] < e.number
    BY <1>6, <2>1, <2>3
  <2>6. /\ f.hash = b /\ f.number \in Nat /\ f.logs \in SUBSET Pool
        /\ \E u \in EntriesAt(w, a, n) : u.hash = f.parent /\ u.number < f.number
    BY <1>1, <1>5, <2>1, <2>2, <2>3
  <2>7. \A s \in EntriesAt(w, a, n) :
             /\ s.hash = b \/ s.hash \in Block \X Block
             /\ s.number \in Nat /\ s.logs \in SUBSET Pool
             /\ \/ s.parent = lower /\ Number[lower] < s.number
                \/ \E u \in EntriesAt(w, a, n) : u.hash = s.parent /\ u.number < s.number
    BY <2>2, <2>5, <2>6
  <2>. QED
    BY <1>1, <1>2, <1>3, <2>4, <2>7 DEF b, lower
<1>. QED
  BY <1>8, <1>9

\* SeedLinksToAnchor, of any seed and anchor.
Linked(seed, anchor) ==
  \A s \in seed :
    \/ s.parent = anchor /\ Number[anchor] < s.number
    \/ \E u \in seed : u.hash = s.parent /\ u.number < s.number

\* Walking the parents down a seed window ends at the anchor.
LEMMA WindowLinked ==
  ASSUME NEW w \in Seq(SUBSET Block), NEW a \in Block
  PROVE  Linked(FromWindow(w, a), a)
<1> SUFFICES ASSUME NEW s \in FromWindow(w, a)
             PROVE  \/ s.parent = a /\ Number[a] < s.number
                    \/ \E u \in FromWindow(w, a) : u.hash = s.parent /\ u.number < s.number
  BY DEF Linked
<1>1. PICK n \in Retained(w, a) : s \in EntriesAt(w, a, n)
  BY SeedEntries
<1>2. CASE \E u \in EntriesAt(w, a, n) : u.hash = s.parent /\ u.number < s.number
  BY <1>2, SeedEntries
<1>3. CASE s.parent = Below(w, a, n) /\ Number[Below(w, a, n)] < s.number
  <2> DEFINE lower == Below(w, a, n)
             k == Number[lower]
  <2>1. lower = a \/ (k \in Retained(w, a) /\ lower = FirstAt(w, k))
    BY BelowParts
  <2>2. CASE lower = a
    BY <1>3, <2>2
  <2>3. CASE k \in Retained(w, a) /\ lower = FirstAt(w, k)
    <3>1. s.parent = FirstAt(w, k) /\ k < s.number
      BY <1>3, <2>3
    <3> HIDE DEF k, lower
    <3>2. \E u \in EntriesAt(w, a, k) : u.hash = FirstAt(w, k) /\ u.number = k
      BY <2>3, EntryParts
    <3>3. EntriesAt(w, a, k) \subseteq FromWindow(w, a)
      BY <2>3, SeedEntries
    <3>. QED
      BY <3>1, <3>2, <3>3
  <2>. QED
    BY <2>1, <2>2, <2>3
<1>. QED
  BY <1>1, <1>2, <1>3, EntryParts

\* The blocks of a seed window are those taken at the heights that stay.
LEMMA RealParts ==
  ASSUME NEW w \in Seq(SUBSET Block), NEW a \in Block
  PROVE  /\ \A s \in RealIn(FromWindow(w, a)) :
              \E n \in Retained(w, a) : s.hash = FirstAt(w, n) /\ Number[s.hash] = n
         /\ \A n \in Retained(w, a) :
              \E s \in RealIn(FromWindow(w, a)) : s.hash = FirstAt(w, n) /\ Number[s.hash] = n
<1>1. ASSUME NEW s \in RealIn(FromWindow(w, a))
      PROVE  \E n \in Retained(w, a) : s.hash = FirstAt(w, n) /\ Number[s.hash] = n
  <2>1. s \in FromWindow(w, a) /\ s.hash \in Block
    BY DEF RealIn
  <2>2. PICK n \in Retained(w, a) : s \in EntriesAt(w, a, n)
    BY <2>1, SeedEntries
  <2>3. s.hash = FirstAt(w, n) \/ s.hash \in Block \X Block
    BY <2>2, EntryParts
  <2>4. s.hash \notin Block \X Block
    BY <2>1, HashAssumption
  <2>5. Number[FirstAt(w, n)] = n
    BY EntryParts
  <2>. QED
    BY <2>3, <2>4, <2>5
<1>2. ASSUME NEW n \in Retained(w, a)
      PROVE  \E s \in RealIn(FromWindow(w, a)) : s.hash = FirstAt(w, n) /\ Number[s.hash] = n
  <2>1. PICK s \in EntriesAt(w, a, n) : s.hash = FirstAt(w, n)
    BY EntryParts
  <2>2. s \in FromWindow(w, a)
    BY SeedEntries
  <2>3. FirstAt(w, n) \in Block /\ Number[FirstAt(w, n)] = n
    BY EntryParts
  <2>. QED
    BY <2>1, <2>2, <2>3 DEF RealIn
<1>. QED
  BY <1>1, <1>2

\* SeedIsTrue of any seed, anchor and tip; a seed that is not empty holds a block.
TrueSeed(seed, anchor, t) ==
  /\ \A s \in RealIn(seed) : s.hash \in Settled(t)
  /\ seed # {} => \E s \in RealIn(seed) : Number[s.hash] = TopOf(seed)
  /\ \A b \in Line[t] :
       seed # {} /\ Number[anchor] < Number[b] /\ Number[b] <= TopOf(seed) /\ PoolsOf[b] # {}
         => b \in {s.hash : s \in seed}

\* What was scanned as far as some height and cut TipTrim below its top is the chain.
LEMMA WindowTrue ==
  ASSUME NEW w \in Seq(SUBSET Block), NEW a \in Block, NEW t \in Block,
         NEW hi \in Nat, NEW N \in Nat, N <= Number[t],
         Agrees(Listed(w), Number[a], hi, N, t)
  PROVE  TrueSeed(FromWindow(w, a), a, t)
<1> DEFINE seed == FromWindow(w, a)
           top  == Max(Recent(w, a))
<1>1. /\ Drift \in Nat /\ TipTrim \in Nat /\ Drift <= TipTrim /\ \A b \in Block : Number[b] \in Nat
      /\ Line[t] \subseteq Block
  BY BootstrapAssumption, LineClosed
<1>2. CASE Retained(w, a) = {}
  <2>1. seed = {}
    BY <1>2, SeedEntries
  <2>. QED
    BY <2>1 DEF TrueSeed, RealIn
<1>3. CASE Retained(w, a) # {}
  <2>1. Recent(w, a) # {} /\ IsFiniteSet(Recent(w, a)) /\ \A n \in Recent(w, a) : n \in Nat
    BY <1>3, HeightParts
  <2>2. top \in Recent(w, a)
    BY <2>1, Extremes
  <2>3. top \in Nat /\ top <= N
    <3>1. PICK b \in Listed(w) : Number[b] = top
      BY <2>2 DEF Recent, Heights
    <3>. QED
      BY <2>1, <2>2, <3>1 DEF Agrees
  <2>4. Retained(w, a) = {n \in Recent(w, a) : n + TipTrim <= top}
    BY DEF Retained
  <2> HIDE DEF top
  <2>5. ASSUME NEW n \in Retained(w, a)
        PROVE  /\ FirstAt(w, n) \in Listed(w) /\ FirstAt(w, n) \in Block /\ Number[FirstAt(w, n)] = n
               /\ n \in Nat /\ n <= hi /\ n + Drift <= N
               /\ FirstAt(w, n) \in Settled(t)
    <3> DEFINE b == FirstAt(w, n)
    <3>1. b \in Listed(w) /\ b \in Block /\ Number[b] = n /\ n \in Nat
      BY EntryParts
    <3> HIDE DEF b
    <3>2. n + Drift <= N
      BY <1>1, <2>3, <2>4, <3>1
    <3>3. Number[a] <= Number[b] /\ Number[b] <= hi /\ PoolsOf[b] # {}
      BY <3>1 DEF Agrees
    <3>4. b \in Line[t]
      BY <3>1, <3>2, <3>3 DEF Agrees
    <3>5. Number[b] + Drift <= Number[t]
      BY <1>1, <3>1, <3>2
    <3>6. b \in Settled(t)
      BY <3>4, <3>5 DEF Settled
    <3>. QED
      BY <3>1, <3>2, <3>3, <3>6 DEF b
  <2>6. /\ \A s \in RealIn(seed) : \E n \in Retained(w, a) : s.hash = FirstAt(w, n) /\ Number[s.hash] = n
        /\ \A n \in Retained(w, a) : \E s \in RealIn(seed) : s.hash = FirstAt(w, n) /\ Number[s.hash] = n
    BY RealParts
  <2> HIDE DEF seed
  <2>7. \A s \in RealIn(seed) : s.hash \in Settled(t)
    <3> SUFFICES ASSUME NEW s \in RealIn(seed) PROVE s.hash \in Settled(t)
      OBVIOUS
    <3>1. PICK n \in Retained(w, a) : s.hash = FirstAt(w, n)
      BY <2>6
    <3>. QED
      BY <2>5, <3>1
  <2>8. TopOf(seed) \in Retained(w, a)
    <3> DEFINE H == {Number[s.hash] : s \in RealIn(seed)}
    <3>1. H = Retained(w, a)
      <4>1. \A n \in H : n \in Retained(w, a)
        BY <2>6
      <4>2. \A n \in Retained(w, a) : n \in H
        BY <2>6
      <4>. QED
        BY <4>1, <4>2
    <3>2. IsFiniteSet(H) /\ H # {} /\ \A n \in H : n \in Nat
      BY <1>3, <2>5, <3>1, HeightParts
    <3> HIDE DEF H
    <3>3. Max(H) \in H
      BY <3>2, Extremes
    <3>. QED
      BY <3>1, <3>3 DEF TopOf, H
  <2>9. \E s \in RealIn(seed) : Number[s.hash] = TopOf(seed)
    BY <2>6, <2>8
  <2>10. ASSUME NEW b \in Line[t], Number[a] < Number[b], Number[b] <= TopOf(seed), PoolsOf[b] # {}
        PROVE  b \in {s.hash : s \in seed}
    <3> DEFINE n == Number[b]
               m == TopOf(seed)
    <3>1. b \in Block /\ n \in Nat /\ Number[a] \in Nat
      BY <1>1
    <3>2. m \in Nat /\ m <= hi /\ m + Drift <= N /\ m + TipTrim <= top
      BY <2>4, <2>5, <2>8
    <3>3. n <= m /\ Number[a] < n
      BY <2>10
    <3> HIDE DEF m, n
    <3>4. /\ Number[a] <= n /\ n <= hi /\ n + Drift <= N
          /\ n + TipTrim <= top
      <4>1. n \in Nat /\ m \in Nat /\ Number[a] \in Nat /\ Drift \in Nat /\ TipTrim \in Nat /\ top \in Nat
        BY <1>1, <2>3, <3>1, <3>2
      <4>. QED
        BY <3>2, <3>3, <4>1
    <3>5. b \in Listed(w)
      BY <2>10, <3>1, <3>4 DEF Agrees, n
    <3>6. n \in Retained(w, a)
      BY <2>4, <3>3, <3>4, <3>5 DEF Recent, Heights, n
    <3>7. FirstAt(w, n) \in Line[t] /\ Number[FirstAt(w, n)] = n
      BY <2>5, <3>6 DEF Settled
    <3>8. FirstAt(w, n) = b
      BY <3>7, LineHeights DEF n
    <3>9. \E s \in RealIn(seed) : s.hash = FirstAt(w, n)
      BY <2>6, <3>6
    <3>. QED
      BY <3>8, <3>9 DEF RealIn
  <2>. QED
    BY <2>7, <2>9, <2>10 DEF TrueSeed, seed
<1>. QED
  BY <1>2, <1>3

\* A seed that is true stays so when the chain moves.
LEMMA TrueSeedStays ==
  ASSUME NEW t \in Block, NEW u \in Block, Settled(t) \subseteq Line[u], Number[t] <= Number[u],
         NEW seed, NEW a \in Block, TrueSeed(seed, a, t)
  PROVE  TrueSeed(seed, a, u)
<1>1. Drift \in Nat /\ (\A b \in Block : Number[b] \in Nat) /\ Line[u] \subseteq Block /\ Line[t] \subseteq Block
  BY BootstrapAssumption, LineClosed
<1>2. \A s \in RealIn(seed) : s.hash \in Settled(u)
  BY SettledStays DEF TrueSeed
<1>3. ASSUME NEW b \in Line[u], seed # {}, Number[a] < Number[b], Number[b] <= TopOf(seed), PoolsOf[b] # {}
      PROVE  b \in {s.hash : s \in seed}
  <2>1. PICK s \in RealIn(seed) : Number[s.hash] = TopOf(seed)
    BY <1>3 DEF TrueSeed
  <2>2. s.hash \in Line[t] /\ Number[s.hash] + Drift <= Number[t]
    BY <2>1 DEF TrueSeed, Settled
  <2>3. Number[b] + Drift <= Number[t]
    BY <1>1, <1>3, <2>1, <2>2
  <2>4. b \in Line[t]
    BY <1>1, <2>3, LinesAgree
  <2>. QED
    BY <1>3, <2>4 DEF TrueSeed
<1>. QED
  BY <1>2, <1>3 DEF TrueSeed

(***************************************************************************)
(* One request at a time.                                                  *)
(***************************************************************************)
BootFields == {"stage", "anchor", "blocks", "seed", "verified", "pending", "wire", "elapsed"}

\* What a request that is remembered looks like.
Remembered(r, kind) == DOMAIN r = {"id", "payload", "age"} /\ r.payload.kind = kind

\* One request is outstanding, of the kind that a phase waits for.
AwaitsOne(b, kind) == \E r : b.pending = {r} /\ Remembered(r, kind)

AwaitInv ==
  /\ DOMAIN boot = BootFields
  /\ boot.stage \in Stages
  /\ ~Terminal(boot) => AwaitsOne(boot, Awaited[boot.stage])

\* A request that is issued while none is outstanding is the one awaited.
LEMMA IssuedAlone ==
  ASSUME NEW b, DOMAIN b = BootFields, b.pending = {},
         NEW kind, NEW from, NEW ceiling, NEW items
  PROVE  LET i == Issue(b, Ask(kind, from, ceiling, items))
         IN DOMAIN i = BootFields /\ i.stage = b.stage /\ AwaitsOne(i, kind)
<1> DEFINE payload == Ask(kind, from, ceiling, items)
           r       == [id |-> FreshId(b), payload |-> payload, age |-> 0]
           i       == Issue(b, payload)
<1>1. payload.kind = kind
  BY DEF Ask
<1>2. DOMAIN i = BootFields /\ i.stage = b.stage /\ i.pending = b.pending \cup {r}
  BY DEF Issue, BootFields
<1>3. DOMAIN r = {"id", "payload", "age"} /\ r.payload = payload
  OBVIOUS
<1> HIDE DEF r, payload, i
<1>4. i.pending = {r} /\ Remembered(r, kind)
  BY <1>1, <1>2, <1>3 DEF Remembered
<1>. QED
  BY <1>2, <1>4 DEF AwaitsOne, i, payload

\* Of the answers that come only one that matches takes the request there is.
LEMMA TakenLeavesNone ==
  ASSUME NEW b, DOMAIN b = BootFields, NEW kind, AwaitsOne(b, kind), NEW m, Matching(b, m) # {}
  PROVE  Taken(b, m).pending = {} /\ DOMAIN Taken(b, m) = BootFields
BY DEF AwaitsOne, Matching, Taken, BootFields

\* A request that is sent again is the one awaited, with another id.
LEMMA RetriedAlone ==
  ASSUME NEW b, DOMAIN b = BootFields, NEW kind, AwaitsOne(b, kind), NEW q \in b.pending
  PROVE  DOMAIN Retry(b, q) = BootFields /\ Retry(b, q).stage = b.stage /\ AwaitsOne(Retry(b, q), kind)
<1> DEFINE without == [b EXCEPT !.pending = @ \ {q}]
           r       == [id |-> FreshId(without), payload |-> q.payload, age |-> 0]
<1>1. b.pending = {q} /\ q.payload.kind = kind
  BY DEF AwaitsOne, Remembered
<1>2. DOMAIN without = BootFields /\ without.pending = {} /\ without.stage = b.stage
  BY <1>1 DEF BootFields
<1>3. Retry(b, q) = Issue(without, q.payload)
  BY DEF Retry
<1> HIDE DEF without
<1>4. /\ DOMAIN Retry(b, q) = BootFields /\ Retry(b, q).stage = b.stage
      /\ Retry(b, q).pending = {r}
  BY <1>2, <1>3 DEF Issue, BootFields
<1>5. DOMAIN r = {"id", "payload", "age"} /\ r.payload = q.payload
  OBVIOUS
<1> HIDE DEF r
<1>. QED
  BY <1>1, <1>4, <1>5 DEF AwaitsOne, Remembered

\* In each phase an answer asks for what the next one needs.
LEMMA AnswerStep ==
  ASSUME AwaitInv, ~Terminal(boot), NEW m, Handled(m)
  PROVE  AwaitInv'
<1>1. /\ DOMAIN boot = BootFields /\ boot.stage \in Stages
      /\ AwaitsOne(boot, Awaited[boot.stage])
  BY DEF AwaitInv
<1>2. CASE ResolveTip(m) \/ ServeWindow(m)
  <2>1. PICK w : boot' = [boot EXCEPT !.wire = w]
    BY <1>2 DEF ResolveTip, ServeWindow, Update
  <2>2. boot'.stage = boot.stage /\ boot'.pending = boot.pending /\ DOMAIN boot' = BootFields
    BY <1>1, <2>1 DEF BootFields
  <2>. QED
    BY <1>1, <2>2 DEF AwaitInv, AwaitsOne
<1>3. CASE FinalizedHeaderReceived(m)
  <2>1. PICK a : boot' = Issue([Taken(boot, m) EXCEPT !.stage = "Discovering", !.anchor = a],
                               Ask("candidates", Number[a], {}, {}))
    BY <1>3 DEF FinalizedHeaderReceived
  <2> DEFINE b == [Taken(boot, m) EXCEPT !.stage = "Discovering", !.anchor = a]
  <2>2. Taken(boot, m).pending = {} /\ DOMAIN Taken(boot, m) = BootFields
    BY <1>1, <1>3, TakenLeavesNone DEF FinalizedHeaderReceived, Expected
  <2>3. DOMAIN b = BootFields /\ b.pending = {} /\ b.stage = "Discovering"
    BY <2>2 DEF BootFields
  <2>4. boot' = Issue(b, Ask("candidates", Number[a], {}, {}))
    BY <2>1
  <2> HIDE DEF b
  <2>5. DOMAIN boot' = BootFields /\ boot'.stage = "Discovering" /\ AwaitsOne(boot', "candidates")
    BY <2>3, <2>4, IssuedAlone
  <2>. QED
    BY <2>5 DEF AwaitInv, Awaited, Stages, AwaitsOne
<1>4. CASE WindowReceived(m)
  <2> DEFINE b == [Taken(boot, m) EXCEPT !.blocks = Scanned(m)]
  <2>1. boot' = Issue(b, Ask("candidates", WindowEnd(m) + 1, m.payload.tip, {}))
    BY <1>4 DEF WindowReceived, NextWindow
  <2>2. Taken(boot, m).pending = {} /\ DOMAIN Taken(boot, m) = BootFields
    BY <1>1, <1>4, TakenLeavesNone DEF WindowReceived, Expected
  <2>3. DOMAIN b = BootFields /\ b.pending = {} /\ b.stage = "Discovering"
    BY <1>1, <1>4, <2>2 DEF BootFields, WindowReceived, Expected, Taken
  <2> HIDE DEF b
  <2>4. DOMAIN boot' = BootFields /\ boot'.stage = "Discovering" /\ AwaitsOne(boot', "candidates")
    BY <2>1, <2>3, IssuedAlone
  <2>. QED
    BY <2>4 DEF AwaitInv, Awaited, Stages, AwaitsOne
<1>5. CASE LastWindowReceived(m)
  <2> DEFINE b == [Taken(boot, m) EXCEPT !.stage = "ValidatingPools", !.blocks = <<>>,
                                         !.seed = FromWindow(Scanned(m), boot.anchor)]
  <2>1. boot' = Issue(b, Ask("pools", 0, {}, UNION {PoolsOf[x] : x \in Listed(Scanned(m))}))
    BY <1>5 DEF LastWindowReceived
  <2>2. Taken(boot, m).pending = {} /\ DOMAIN Taken(boot, m) = BootFields
    BY <1>1, <1>5, TakenLeavesNone DEF LastWindowReceived, Expected
  <2>3. DOMAIN b = BootFields /\ b.pending = {} /\ b.stage = "ValidatingPools"
    BY <2>2 DEF BootFields
  <2> HIDE DEF b
  <2>4. DOMAIN boot' = BootFields /\ boot'.stage = "ValidatingPools" /\ AwaitsOne(boot', "pools")
    BY <2>1, <2>3, IssuedAlone
  <2>. QED
    BY <2>4 DEF AwaitInv, Awaited, Stages, AwaitsOne
<1>6. CASE PoolMetadataReceived(m)
  <2> DEFINE b == [Taken(boot, m) EXCEPT !.stage = "ResolvingTokens",
                     !.verified = (m.payload.items \cup CachedPools) \cap ValidPools]
  <2>1. boot' = Issue(b, Ask("tokens", 0, {}, {}))
    BY <1>6 DEF PoolMetadataReceived
  <2>2. Taken(boot, m).pending = {} /\ DOMAIN Taken(boot, m) = BootFields
    BY <1>1, <1>6, TakenLeavesNone DEF PoolMetadataReceived, Expected
  <2>3. DOMAIN b = BootFields /\ b.pending = {} /\ b.stage = "ResolvingTokens"
    BY <2>2 DEF BootFields
  <2> HIDE DEF b
  <2>4. DOMAIN boot' = BootFields /\ boot'.stage = "ResolvingTokens" /\ AwaitsOne(boot', "tokens")
    BY <2>1, <2>3, IssuedAlone
  <2>. QED
    BY <2>4 DEF AwaitInv, Awaited, Stages, AwaitsOne
<1>7. CASE TokenMetadataReceived(m)
  <2>1. DOMAIN boot' = BootFields /\ boot'.stage = "Ready"
    BY <1>1, <1>7, TakenLeavesNone DEF TokenMetadataReceived, Expected, BootFields
  <2>. QED
    BY <2>1 DEF AwaitInv, Terminal, Stages
<1>8. CASE LateAnswer(m)
  <2>1. boot' = Taken(boot, m) /\ Matching(boot, m) = {}
    BY <1>8 DEF LateAnswer
  <2>2. boot'.stage = boot.stage /\ boot'.pending = boot.pending /\ DOMAIN boot' = BootFields
    BY <1>1, <2>1 DEF BootFields, Taken
  <2>. QED
    BY <1>1, <2>2 DEF AwaitInv, AwaitsOne
<1>. QED
  BY <1>2, <1>3, <1>4, <1>5, <1>6, <1>7, <1>8 DEF Handled

\* A failure sends the request again, unless it is no longer awaited.
LEMMA FailedStep ==
  ASSUME AwaitInv, ~Terminal(boot), NEW m, RequestFailed(m) \/ AnswerLost(m)
  PROVE  AwaitInv'
<1> DEFINE b == [boot EXCEPT !.wire = @ \ {m}]
<1>1. /\ DOMAIN b = BootFields /\ b.stage = boot.stage /\ b.pending = boot.pending
      /\ boot.stage \in Stages /\ AwaitsOne(boot, Awaited[boot.stage])
  BY DEF AwaitInv, BootFields
<1> HIDE DEF b
<1>2. AwaitsOne(b, Awaited[boot.stage])
  BY <1>1 DEF AwaitsOne
<1>3. CASE boot' = b
  BY <1>1, <1>2, <1>3 DEF AwaitInv
<1>4. CASE Matching(boot, m) = {} /\ boot' = Taken(boot, m)
  <2>1. DOMAIN boot' = BootFields /\ boot'.stage = boot.stage /\ boot'.pending = boot.pending
    BY <1>4 DEF AwaitInv, Taken, BootFields
  <2>. QED
    BY <1>1, <2>1 DEF AwaitInv, AwaitsOne
<1>5. CASE Matching(boot, m) # {} /\ boot' = Retry(b, CHOOSE r \in Matching(boot, m) : TRUE)
  <2> DEFINE q == CHOOSE r \in Matching(boot, m) : TRUE
  <2>1. q \in b.pending
    BY <1>1, <1>5 DEF Matching
  <2> HIDE DEF q
  <2>2. DOMAIN Retry(b, q) = BootFields /\ Retry(b, q).stage = b.stage /\ AwaitsOne(Retry(b, q), Awaited[boot.stage])
    BY <1>1, <1>2, <2>1, RetriedAlone
  <2>3. boot' = Retry(b, q)
    BY <1>5 DEF q
  <2>. QED
    BY <1>1, <2>2, <2>3 DEF AwaitInv
<1>. QED
  BY <1>3, <1>4, <1>5 DEF RequestFailed, AnswerLost, b

\* A request grows older and is sent again when it is too old; the deadline ends it all.
LEMMA TickStep ==
  ASSUME AwaitInv, ~Terminal(boot), Tick
  PROVE  AwaitInv'
<1> DEFINE b == Aged(boot)
<1>1. boot.stage \in Stages /\ AwaitsOne(boot, Awaited[boot.stage])
  BY DEF AwaitInv
<1>2. DOMAIN b = BootFields /\ b.stage = boot.stage /\ b.pending = {[r EXCEPT !.age = @ + 1] : r \in boot.pending}
  BY DEF AwaitInv, Aged, BootFields
<1> HIDE DEF b
<1>3. AwaitsOne(b, Awaited[boot.stage])
  <2>1. PICK r : boot.pending = {r} /\ Remembered(r, Awaited[boot.stage])
    BY <1>1 DEF AwaitsOne
  <2> DEFINE q == [r EXCEPT !.age = @ + 1]
  <2>2. b.pending = {q}
    BY <1>2, <2>1
  <2>3. DOMAIN q = {"id", "payload", "age"} /\ q.payload = r.payload
    BY <2>1 DEF Remembered
  <2> HIDE DEF q
  <2>. QED
    BY <2>1, <2>2, <2>3 DEF AwaitsOne, Remembered
<1>4. CASE boot' = Degraded(b)
  <2>1. DOMAIN boot' = BootFields /\ boot'.stage \in {"Ready", "Abandoned"}
    BY <1>2, <1>4 DEF Degraded, BootFields
  <2>. QED
    BY <2>1 DEF AwaitInv, Terminal, Stages
<1>5. CASE boot' = RetryExpired(b)
  <2> DEFINE expired == {r \in b.pending : r.age >= RequestTTL}
             q       == CHOOSE r \in expired : TRUE
  <2>1. CASE expired = {}
    BY <1>1, <1>2, <1>3, <1>5, <2>1 DEF RetryExpired, AwaitInv
  <2>2. CASE expired # {}
    <3>1. q \in b.pending /\ boot' = Retry(b, q)
      BY <1>5, <2>2 DEF RetryExpired
    <3> HIDE DEF q
    <3>2. DOMAIN Retry(b, q) = BootFields /\ Retry(b, q).stage = b.stage /\ AwaitsOne(Retry(b, q), Awaited[boot.stage])
      BY <1>2, <1>3, <3>1, RetriedAlone
    <3>. QED
      BY <1>1, <1>2, <3>1, <3>2 DEF AwaitInv
  <2>. QED
    BY <2>1, <2>2
<1>. QED
  BY <1>4, <1>5 DEF Tick, b

\* A bootstrap starts with the request for its anchor.
LEMMA AwaitInit ==
  ASSUME Init
  PROVE  AwaitInv
<1> DEFINE b == [stage |-> "AnchoringChain", anchor |-> Root, blocks |-> <<>>, seed |-> {},
                 verified |-> {}, pending |-> {}, wire |-> {}, elapsed |-> 0]
<1>1. boot = Issue(b, Ask("finalized", 0, {}, {}))
  BY DEF Init
<1>2. DOMAIN b = BootFields /\ b.pending = {} /\ b.stage = "AnchoringChain"
  BY DEF BootFields
<1> HIDE DEF b
<1>3. DOMAIN boot = BootFields /\ boot.stage = "AnchoringChain" /\ AwaitsOne(boot, "finalized")
  BY <1>1, <1>2, IssuedAlone
<1>. QED
  BY <1>3 DEF AwaitInv, Awaited, Stages

\* And whatever happens waits for one.
LEMMA AwaitNext ==
  ASSUME AwaitInv, [Next]_vars
  PROVE  AwaitInv'
<1>1. CASE ChainMoves \/ UNCHANGED vars
  <2>1. boot' = boot
    BY <1>1 DEF ChainMoves, vars
  <2>. QED
    BY <2>1 DEF AwaitInv
<1>2. CASE ~Terminal(boot) /\ Tick
  BY <1>2, TickStep
<1>3. ASSUME NEW m \in boot.wire, ~Terminal(boot), Handled(m) \/ RequestFailed(m) \/ AnswerLost(m)
      PROVE  AwaitInv'
  BY <1>3, AnswerStep, FailedStep
<1>. QED
  BY <1>1, <1>2, <1>3 DEF Next

(***************************************************************************)
(* Requests and their answers.                                             *)
(***************************************************************************)
Kinds == {"finalized", "candidates", "pools", "tokens"}
Payload == [kind : Kinds, from : Nat, tip : SUBSET Nat, items : SUBSET Pool]

\* The tip a scan goes to was the number of one that providers agree on.
Frozen(p, t) == p.tip = {} \/ \E N \in Nat : p.tip = {N} /\ N <= Number[t]

RequestOK(r, t) == r.id \in Nat /\ r.payload \in Payload /\ Frozen(r.payload, t)

\* A window that was answered holds what the chain has there, as deep as providers agree.
MessageOK(m, t) ==
  /\ m \in [id : Nat, payload : Payload, found : SUBSET SUBSET Block]
  /\ Frozen(m.payload, t)
  /\ m.found # {} =>
       \E N \in Nat, W \in SUBSET Block :
         /\ m.payload.tip = {N} /\ m.found = {W}
         /\ Agrees(W, m.payload.from, WindowEnd(m), N, t)

WireOK(b, t) == IsFiniteSet(b.wire) /\ \A m \in b.wire : MessageOK(m, t)

\* An answer and the request it is for: only the tip may have been frozen meanwhile.
Answers(m, r) ==
  /\ m.payload.kind = r.payload.kind /\ m.payload.from = r.payload.from
  /\ r.payload.tip # {} => m.payload.tip = r.payload.tip

Paired(b) == \A m \in b.wire, r \in b.pending : m.id = r.id => Answers(m, r)

\* What a request asks for is what it was given.
LEMMA AskParts ==
  ASSUME NEW kind \in Kinds, NEW from \in Nat, NEW ceiling \in SUBSET Nat, NEW items \in SUBSET Pool
  PROVE  LET p == Ask(kind, from, ceiling, items)
         IN p \in Payload /\ p.kind = kind /\ p.from = from /\ p.tip = ceiling /\ p.items = items
BY DEF Ask, Payload

\* An id given to a request is one that no answer under way carries.
LEMMA FreshIdIsFree ==
  ASSUME NEW b, b.pending = {}, IsFiniteSet(b.wire)
  PROVE  FreshId(b) \in Nat /\ \A m \in b.wire : m.id # FreshId(b)
<1> DEFINE X    == b.pending \cup b.wire
           ids  == {r.id : r \in X}
           top  == Cardinality(X) + 1
           free == (1 .. top) \ ids
<1>1. FreshId(b) = Min(free)
  BY DEF FreshId
<1>2. IsFiniteSet(X) /\ Cardinality(X) \in Nat /\ X = b.wire
  BY FS_CardinalityType
<1>3. IsFiniteSet(ids) /\ Cardinality(ids) <= Cardinality(X) /\ Cardinality(ids) \in Nat
  <2> DEFINE F == [r \in X |-> r.id]
  <2>1. F \in Surjection(X, ids)
    BY DEF Surjection
  <2> HIDE DEF F, X, ids
  <2>2. IsFiniteSet(ids) /\ Cardinality(ids) <= Cardinality(X)
    BY <1>2, <2>1, FS_Surjection
  <2>. QED
    BY <2>2, FS_CardinalityType
<1> HIDE DEF X, ids
<1>4. IsFiniteSet(1 .. top) /\ Cardinality(1 .. top) = top /\ top \in Nat
  <2>1. top \in Nat /\ 1 <= top
    BY <1>2
  <2> HIDE DEF top
  <2>2. IsFiniteSet(1 .. top) /\ Cardinality(1 .. top) = IF 1 > top THEN 0 ELSE top - 1 + 1
    BY <2>1, FS_Interval
  <2>. QED
    BY <2>1, <2>2
<1>5. IsFiniteSet(free) /\ Cardinality(free) \in Nat /\ Cardinality(free) # 0
  <2>1. IsFiniteSet(free) /\ Cardinality(free) = top - Cardinality((1 .. top) \cap ids)
    <3> HIDE DEF top
    <3>. QED
      BY <1>4, FS_Difference
  <2>2. Cardinality((1 .. top) \cap ids) <= Cardinality(ids) /\ IsFiniteSet((1 .. top) \cap ids)
    <3> HIDE DEF top
    <3>. QED
      BY <1>3, <1>4, FS_Intersection
  <2>3. Cardinality((1 .. top) \cap ids) \in Nat
    <3> HIDE DEF top
    <3>. QED
      BY <2>2, FS_CardinalityType
  <2> HIDE DEF free
  <2>4. Cardinality(free) \in Nat
    BY <2>1, FS_CardinalityType
  <2>. QED
    BY <1>2, <1>3, <2>1, <2>2, <2>3, <2>4
<1>6. free # {} /\ \A n \in free : n \in Nat
  <2>1. free # {}
    <3> HIDE DEF free
    <3>. QED
      BY <1>5, FS_EmptySet
  <2>. QED
    BY <1>4, <2>1
<1>7. free \cap ids = {}
  OBVIOUS
<1> HIDE DEF free
<1>8. Min(free) \in free
  BY <1>5, <1>6, Extremes
<1>. QED
  BY <1>1, <1>2, <1>6, <1>7, <1>8 DEF ids

\* A request that is issued while none is outstanding, and the question that goes out.
LEMMA IssueParts ==
  ASSUME NEW b, DOMAIN b = BootFields, b.pending = {}, NEW t, WireOK(b, t),
         NEW p \in Payload, Frozen(p, t)
  PROVE  LET i == Issue(b, p)
         IN /\ DOMAIN i = BootFields /\ i.stage = b.stage /\ i.anchor = b.anchor
            /\ i.blocks = b.blocks /\ i.seed = b.seed
            /\ \E q : i.pending = {q} /\ q.payload = p /\ RequestOK(q, t)
            /\ WireOK(i, t) /\ Paired(i)
<1> DEFINE i == Issue(b, p)
           q == [id |-> FreshId(b), payload |-> p, age |-> 0]
           m == [id |-> FreshId(b), payload |-> p, found |-> {}]
<1>1. FreshId(b) \in Nat /\ \A n \in b.wire : n.id # FreshId(b)
  BY FreshIdIsFree DEF WireOK
<1>2. /\ DOMAIN i = BootFields /\ i.stage = b.stage /\ i.anchor = b.anchor
      /\ i.blocks = b.blocks /\ i.seed = b.seed
      /\ i.pending = {q} /\ i.wire = b.wire \cup {m}
  BY DEF Issue, BootFields
<1>3. q.payload = p /\ RequestOK(q, t) /\ q.id = FreshId(b)
  BY <1>1 DEF RequestOK
<1>4. /\ m \in [id : Nat, payload : Payload, found : SUBSET SUBSET Block]
      /\ m.payload = p /\ m.found = {} /\ m.id = FreshId(b)
  BY <1>1
<1> HIDE DEF m, q, i
<1>5. MessageOK(m, t)
  BY <1>4 DEF MessageOK
<1>6. WireOK(i, t)
  <2>1. IsFiniteSet(b.wire \cup {m})
    BY FS_AddElement DEF WireOK
  <2>. QED
    BY <1>2, <1>5, <2>1 DEF WireOK
<1>7. Paired(i)
  BY <1>1, <1>2, <1>3, <1>4 DEF Paired, Answers
<1>. QED
  BY <1>2, <1>3, <1>6, <1>7 DEF i

\* What was scanned when the request p is out: nothing, or what the chain has from the
\* anchor to where p goes on.
ScanOK(blocks, anchor, p, t) ==
  IF p.tip = {} THEN blocks = <<>> /\ p.from = Number[anchor]
  ELSE \E N \in Nat :
         /\ p.tip = {N} /\ Number[anchor] < p.from /\ p.from <= N
         /\ Agrees(Listed(blocks), Number[anchor], p.from - 1, N, t)

\* The end of the window of a request whose tip is frozen.
LEMMA WindowEndParts ==
  ASSUME NEW m, m.payload.from \in Nat, NEW N \in Nat, m.payload.tip = {N}
  PROVE  /\ Ceiling(m) = N /\ WindowEnd(m) \in Nat /\ WindowEnd(m) <= N
         /\ WindowEnd(m) = m.payload.from + Chunk - 1 \/ WindowEnd(m) = N
         /\ m.payload.from <= N => m.payload.from <= WindowEnd(m)
<1> DEFINE last == m.payload.from + Chunk - 1
           W    == {last, N}
<1>1. last \in Nat /\ m.payload.from <= last
  BY BootstrapAssumption
<1>2. Ceiling(m) = N
  BY DEF Ceiling
<1>3. WindowEnd(m) = Min(W)
  BY <1>2 DEF WindowEnd
<1> HIDE DEF last
<1>4. IsFiniteSet(W) /\ W # {} /\ \A n \in W : n \in Nat
  <2>1. W = {last} \cup {N} /\ IsFiniteSet({last})
    BY FS_Singleton
  <2>2. IsFiniteSet({last} \cup {N})
    BY <2>1, FS_AddElement
  <2>. QED
    BY <1>1, <2>1, <2>2
<1> HIDE DEF W
<1>5. Min(W) \in W /\ \A n \in W : Min(W) <= n
  BY <1>4, Extremes
<1>. QED
  BY <1>1, <1>2, <1>3, <1>5 DEF W, last

\* With the answer to its request, what was scanned reaches to the end of the window.
LEMMA ScannedAgrees ==
  ASSUME NEW b, NEW t \in Block, b.anchor \in Block, b.blocks \in Seq(SUBSET Block),
         NEW m, MessageOK(m, t), m.found # {}, NEW r, Answers(m, r),
         ScanOK(b.blocks, b.anchor, r.payload, t)
  PROVE  LET blocks == Append(b.blocks, CHOOSE w \in m.found : TRUE)
         IN /\ blocks \in Seq(SUBSET Block)
            /\ \E N \in Nat :
                 /\ m.payload.tip = {N} /\ N <= Number[t] /\ Ceiling(m) = N
                 /\ WindowEnd(m) \in Nat
                 /\ WindowEnd(m) < N => Number[b.anchor] <= WindowEnd(m)
                 /\ Agrees(Listed(blocks), Number[b.anchor], WindowEnd(m), N, t)
<1> DEFINE from == m.payload.from
           hi   == WindowEnd(m)
           lo   == Number[b.anchor]
<1>1. /\ from \in Nat /\ lo \in Nat /\ Number[t] \in Nat /\ Chunk \in Nat /\ Chunk # 0
      /\ r.payload.from = from /\ (r.payload.tip # {} => m.payload.tip = r.payload.tip)
  BY BootstrapAssumption DEF MessageOK, Payload, Answers
<1>2. PICK N \in Nat : \E V \in SUBSET Block :
        m.payload.tip = {N} /\ m.found = {V} /\ Agrees(V, from, hi, N, t)
  BY DEF MessageOK
<1>3. PICK W \in SUBSET Block : m.payload.tip = {N} /\ m.found = {W} /\ Agrees(W, from, hi, N, t)
  BY <1>2
<1>4. N <= Number[t]
  BY <1>3 DEF MessageOK, Frozen
<1>5. /\ Ceiling(m) = N /\ hi \in Nat /\ hi <= N
      /\ hi = from + Chunk - 1 \/ hi = N
      /\ from <= N => from <= hi
  BY <1>1, <1>3, WindowEndParts
<1>6. (CHOOSE w \in m.found : TRUE) = W
  BY <1>3
<1> DEFINE blocks == Append(b.blocks, W)
<1>7. blocks \in Seq(SUBSET Block) /\ Listed(blocks) = Listed(b.blocks) \cup W /\ Listed(<<>>) = {}
  BY ListedParts
<1> HIDE DEF blocks, from, hi, lo
<1>8. CASE r.payload.tip = {}
  <2>1. b.blocks = <<>> /\ from = lo
    BY <1>1, <1>8 DEF ScanOK, lo
  <2>2. Listed(blocks) = W
    BY <1>7, <2>1
  <2>3. Agrees(Listed(blocks), lo, hi, N, t)
    BY <1>3, <2>1, <2>2
  <2>4. hi < N => lo <= hi
    BY <1>1, <1>5, <2>1
  <2>. QED
    BY <1>3, <1>4, <1>5, <1>6, <1>7, <2>3, <2>4 DEF blocks, hi, lo
<1>9. CASE r.payload.tip # {}
  <2>1. lo < from /\ from <= N /\ Agrees(Listed(b.blocks), lo, from - 1, N, t)
    BY <1>1, <1>3, <1>9 DEF ScanOK, lo
  <2>2. from <= hi + 1
    BY <1>1, <1>5, <2>1
  <2>3. Agrees(Listed(b.blocks) \cup W, lo, hi, N, t)
    <3> DEFINE L == Listed(b.blocks)
    <3>1. Agrees(L, lo, from - 1, N, t)
      BY <2>1
    <3> HIDE DEF L
    <3>2. Agrees(L \cup W, lo, hi, N, t)
      BY <1>1, <1>3, <1>5, <2>1, <2>2, <3>1, AgreesJoined
    <3>. QED
      BY <3>2 DEF L
  <2>4. lo <= hi
    BY <1>1, <1>5, <2>1
  <2>. QED
    BY <1>3, <1>4, <1>5, <1>6, <1>7, <2>3, <2>4 DEF blocks, hi, lo
<1>. QED
  BY <1>8, <1>9

\* A window without answers seeds nothing.
LEMMA NothingScanned ==
  ASSUME NEW a
  PROVE  FromWindow(<<>>, a) = {}
<1>1. Listed(<<>>) = {}
  BY DEF Listed
<1>. QED
  BY <1>1 DEF FromWindow, Retained, Recent, Heights

(***************************************************************************)
(* The seed invariant, of any state of bootstrap and any tip.              *)
(***************************************************************************)
\* What bootstrap holds: nothing scanned before it has an anchor, no seed before the scan
\* has ended, and the seed of the chain after that.
HeldOK(b, t) ==
  /\ DOMAIN b = BootFields /\ b.anchor \in Block /\ t \in Block /\ b.blocks \in Seq(SUBSET Block)
  /\ b.stage = "AnchoringChain" => b.blocks = <<>>
  /\ b.stage \in {"AnchoringChain", "Discovering"} => b.seed = {}
  /\ Linked(b.seed, b.anchor) /\ TrueSeed(b.seed, b.anchor, t)

RequestsOK(b, t) == (\A r \in b.pending : RequestOK(r, t)) /\ WireOK(b, t) /\ Paired(b)

SeedInv(b, t) ==
  /\ HeldOK(b, t) /\ RequestsOK(b, t)
  /\ b.stage = "Discovering" => \A r \in b.pending : ScanOK(b.blocks, b.anchor, r.payload, t)

\* A request that goes on with the scan keeps the invariant.
LEMMA IssueKeepsSeed ==
  ASSUME NEW b, NEW t, HeldOK(b, t), b.pending = {}, WireOK(b, t), NEW p \in Payload, Frozen(p, t),
         b.stage = "Discovering" => ScanOK(b.blocks, b.anchor, p, t)
  PROVE  SeedInv(Issue(b, p), t)
<1> DEFINE i == Issue(b, p)
<1>1. DOMAIN b = BootFields
  BY DEF HeldOK
<1>2. /\ DOMAIN i = BootFields /\ i.stage = b.stage /\ i.anchor = b.anchor
      /\ i.blocks = b.blocks /\ i.seed = b.seed
      /\ \E q : i.pending = {q} /\ q.payload = p /\ RequestOK(q, t)
      /\ WireOK(i, t) /\ Paired(i)
  BY <1>1, IssueParts
<1> HIDE DEF i
<1>3. HeldOK(i, t)
  BY <1>2 DEF HeldOK
<1>4. RequestsOK(i, t) /\ (i.stage = "Discovering" => \A r \in i.pending : ScanOK(i.blocks, i.anchor, r.payload, t))
  BY <1>2 DEF RequestsOK
<1>5. SeedInv(i, t)
  BY <1>3, <1>4 DEF SeedInv
<1>. QED
  BY <1>5 DEF i

\* An answer that is taken was for the one request there is, and leaves none.
LEMMA TakenParts ==
  ASSUME NEW b, NEW t, SeedInv(b, t), NEW kind, AwaitsOne(b, kind), NEW m \in b.wire, Matching(b, m) # {}
  PROVE  LET c == Taken(b, m)
         IN /\ DOMAIN c = BootFields /\ c.pending = {} /\ WireOK(c, t)
            /\ c.stage = b.stage /\ c.anchor = b.anchor /\ c.blocks = b.blocks /\ c.seed = b.seed
            /\ \E r \in b.pending : RequestOK(r, t) /\ Answers(m, r)
<1> DEFINE c == Taken(b, m)
<1>1. PICK r : b.pending = {r} /\ Remembered(r, kind)
  BY DEF AwaitsOne
<1>2. Matching(b, m) = {r} /\ r.id = m.id
  BY <1>1 DEF Matching
<1>3. /\ DOMAIN c = BootFields /\ c.pending = b.pending \ Matching(b, m) /\ c.wire = b.wire \ {m}
      /\ c.stage = b.stage /\ c.anchor = b.anchor /\ c.blocks = b.blocks /\ c.seed = b.seed
  BY DEF SeedInv, HeldOK, Taken, BootFields
<1> HIDE DEF c
<1>4. WireOK(c, t)
  <2>1. IsFiniteSet(b.wire \ {m})
    BY FS_Subset DEF SeedInv, RequestsOK, WireOK
  <2>. QED
    BY <1>3, <2>1 DEF SeedInv, RequestsOK, WireOK
<1>5. RequestOK(r, t) /\ Answers(m, r)
  BY <1>1, <1>2 DEF SeedInv, RequestsOK, Paired
<1>. QED
  BY <1>1, <1>2, <1>3, <1>4, <1>5 DEF c

\* An answer that will not come any more.
LEMMA LostKeepsSeed ==
  ASSUME NEW b, NEW t, SeedInv(b, t), NEW m
  PROVE  SeedInv([b EXCEPT !.wire = @ \ {m}], t)
<1> DEFINE c == [b EXCEPT !.wire = @ \ {m}]
<1>1. /\ DOMAIN c = BootFields /\ c.pending = b.pending /\ c.wire = b.wire \ {m}
      /\ c.stage = b.stage /\ c.anchor = b.anchor /\ c.blocks = b.blocks /\ c.seed = b.seed
  BY DEF SeedInv, HeldOK, BootFields
<1> HIDE DEF c
<1>2. HeldOK(c, t)
  BY <1>1 DEF SeedInv, HeldOK
<1>3. IsFiniteSet(b.wire \ {m})
  BY FS_Subset DEF SeedInv, RequestsOK, WireOK
<1>4. RequestsOK(c, t)
  BY <1>1, <1>3 DEF SeedInv, RequestsOK, WireOK, Paired
<1>5. SeedInv(c, t)
  BY <1>1, <1>2, <1>4 DEF SeedInv
<1>. QED
  BY <1>5 DEF c

\* A request that is sent again asks for what it asked for.
LEMMA RetryKeepsSeed ==
  ASSUME NEW b, NEW t, SeedInv(b, t), NEW kind, AwaitsOne(b, kind), NEW q \in b.pending
  PROVE  SeedInv(Retry(b, q), t)
<1> DEFINE c == [b EXCEPT !.pending = @ \ {q}]
           p == q.payload
<1>1. b.pending = {q}
  BY DEF AwaitsOne
<1>2. /\ DOMAIN c = BootFields /\ c.pending = b.pending \ {q} /\ c.wire = b.wire
      /\ c.stage = b.stage /\ c.anchor = b.anchor /\ c.blocks = b.blocks /\ c.seed = b.seed
  BY DEF SeedInv, HeldOK, BootFields
<1>3. Retry(b, q) = Issue(c, p)
  BY DEF Retry
<1>4. p \in Payload /\ Frozen(p, t)
  BY DEF SeedInv, RequestsOK, RequestOK
<1>5. b.stage = "Discovering" => ScanOK(b.blocks, b.anchor, p, t)
  BY DEF SeedInv
<1> HIDE DEF c, p
<1>6. HeldOK(c, t) /\ c.pending = {} /\ WireOK(c, t)
  BY <1>1, <1>2 DEF SeedInv, HeldOK, RequestsOK, WireOK
<1>7. c.stage = "Discovering" => ScanOK(c.blocks, c.anchor, p, t)
  BY <1>2, <1>5
<1>. QED
  BY <1>3, <1>4, <1>6, <1>7, IssueKeepsSeed

\* The chain moves; what was scanned and seeded is as true of the new one.
LEMMA MoveKeepsSeed ==
  ASSUME NEW b, NEW t, SeedInv(b, t), NEW u \in Block, Settled(t) \subseteq Line[u], Number[t] <= Number[u]
  PROVE  SeedInv(b, u)
<1>1. t \in Block /\ Number[t] \in Nat /\ Number[u] \in Nat /\ b.anchor \in Block /\ Number[b.anchor] \in Nat
  BY BootstrapAssumption DEF SeedInv, HeldOK
<1>2. ASSUME NEW p, Frozen(p, t) PROVE Frozen(p, u)
  BY <1>1, <1>2 DEF Frozen
<1>3. HeldOK(b, u)
  <2>1. TrueSeed(b.seed, b.anchor, u)
    <3> DEFINE seed == b.seed
               a    == b.anchor
    <3>1. TrueSeed(seed, a, t) /\ a \in Block
      BY <1>1 DEF SeedInv, HeldOK
    <3> HIDE DEF seed, a
    <3>2. TrueSeed(seed, a, u)
      BY <1>1, <3>1, TrueSeedStays
    <3>. QED
      BY <3>2 DEF seed, a
  <2>. QED
    BY <2>1 DEF SeedInv, HeldOK
<1>4. ASSUME NEW m \in b.wire PROVE MessageOK(m, u)
  <2>1. MessageOK(m, t)
    BY DEF SeedInv, RequestsOK, WireOK
  <2>2. ASSUME m.found # {}
        PROVE  \E N \in Nat, W \in SUBSET Block :
                 /\ m.payload.tip = {N} /\ m.found = {W}
                 /\ Agrees(W, m.payload.from, WindowEnd(m), N, u)
    <3>1. PICK N \in Nat : \E V \in SUBSET Block :
            m.payload.tip = {N} /\ m.found = {V} /\ Agrees(V, m.payload.from, WindowEnd(m), N, t)
      BY <2>1, <2>2 DEF MessageOK
    <3>2. PICK W \in SUBSET Block :
            m.payload.tip = {N} /\ m.found = {W} /\ Agrees(W, m.payload.from, WindowEnd(m), N, t)
      BY <3>1
    <3> DEFINE lo == m.payload.from
               hi == WindowEnd(m)
    <3>3. lo \in Nat /\ N <= Number[t]
      BY <2>1, <3>2 DEF MessageOK, Payload, Frozen
    <3>4. hi \in Nat
      BY <3>2, <3>3, WindowEndParts
    <3>5. Agrees(W, lo, hi, N, t)
      BY <3>2
    <3> HIDE DEF lo, hi
    <3>6. Agrees(W, lo, hi, N, u)
      BY <1>1, <3>3, <3>4, <3>5, AgreesStays
    <3>. QED
      BY <3>2, <3>6 DEF lo, hi
  <2>3. Frozen(m.payload, u)
    BY <1>2, <2>1 DEF MessageOK
  <2>. QED
    BY <2>1, <2>2, <2>3 DEF MessageOK
<1>5. RequestsOK(b, u)
  BY <1>2, <1>4 DEF SeedInv, RequestsOK, RequestOK, WireOK
<1>6. ASSUME NEW r \in b.pending, b.stage = "Discovering" PROVE ScanOK(b.blocks, b.anchor, r.payload, u)
  <2> DEFINE p == r.payload
             L == Listed(b.blocks)
             lo == Number[b.anchor]
  <2>1. ScanOK(b.blocks, b.anchor, p, t) /\ Frozen(p, t) /\ p.from \in Nat
    BY <1>6 DEF SeedInv, RequestsOK, RequestOK, Payload
  <2>2. CASE p.tip = {}
    BY <2>1, <2>2 DEF ScanOK
  <2>3. CASE p.tip # {}
    <3>1. PICK N \in Nat : p.tip = {N} /\ lo < p.from /\ p.from <= N /\ Agrees(L, lo, p.from - 1, N, t)
      BY <2>1, <2>3 DEF ScanOK
    <3> DEFINE hi == p.from - 1
    <3>2. N <= Number[t]
      BY <2>1, <3>1 DEF Frozen
    <3>3. lo \in Nat /\ hi \in Nat
      BY <1>1, <2>1, <3>1
    <3>4. Agrees(L, lo, hi, N, t)
      BY <3>1
    <3> HIDE DEF L, lo, hi, p
    <3>5. Agrees(L, lo, hi, N, u)
      BY <1>1, <3>2, <3>3, <3>4, AgreesStays
    <3>. QED
      BY <2>3, <3>1, <3>5 DEF ScanOK, L, lo, hi, p
  <2>. QED
    BY <2>2, <2>3
<1>. QED
  BY <1>3, <1>5, <1>6 DEF SeedInv

(***************************************************************************)
(* What each step does to the seed.                                        *)
(***************************************************************************)
\* A request that is served step by step: the tip, then its window.
LEMMA ServedKeepsSeed ==
  ASSUME SeedInv(boot, tip), NEW m \in boot.wire, ResolveTip(m) \/ ServeWindow(m)
  PROVE  SeedInv(boot, tip)'
<1>1. MessageOK(m, tip) /\ tip \in Block /\ IsFiniteSet(boot.wire) /\ DOMAIN boot = BootFields
  BY DEF SeedInv, RequestsOK, WireOK, HeldOK
<1>2. /\ m \in [id : Nat, payload : Payload, found : SUBSET SUBSET Block] /\ Frozen(m.payload, tip)
      /\ m.payload.from \in Nat
  BY <1>1 DEF MessageOK, Payload
\* it is enough that the request stays sound and asks what it asked
<1>3. ASSUME NEW n, Update(m, n), MessageOK(n, tip), n.id = m.id,
             \A r \in boot.pending : Answers(m, r) => Answers(n, r)
      PROVE  SeedInv(boot, tip)'
  <2> DEFINE c == [boot EXCEPT !.wire = (@ \ {m}) \cup {n}]
  <2>1. boot' = c /\ tip' = tip
    BY <1>3 DEF Update
  <2>2. /\ DOMAIN c = BootFields /\ c.pending = boot.pending /\ c.wire = (boot.wire \ {m}) \cup {n}
        /\ c.stage = boot.stage /\ c.anchor = boot.anchor /\ c.blocks = boot.blocks /\ c.seed = boot.seed
    BY <1>1 DEF BootFields
  <2> HIDE DEF c
  <2>3. IsFiniteSet((boot.wire \ {m}) \cup {n})
    <3>1. IsFiniteSet(boot.wire \ {m})
      BY <1>1, FS_Subset
    <3>. QED
      BY <3>1, FS_AddElement
  <2>4. WireOK(c, tip)
    BY <1>3, <2>2, <2>3 DEF SeedInv, RequestsOK, WireOK
  <2>5. Paired(c)
    BY <1>3, <2>2 DEF SeedInv, RequestsOK, Paired
  <2>6. HeldOK(c, tip)
    BY <2>2 DEF SeedInv, HeldOK
  <2>7. SeedInv(c, tip)
    BY <2>2, <2>4, <2>5, <2>6 DEF SeedInv, RequestsOK
  <2>. QED
    BY <2>1, <2>7
<1>4. CASE ResolveTip(m)
  <2>1. PICK v \in Views(tip) : Update(m, [m EXCEPT !.payload.tip = {Number[v]}])
    BY <1>4 DEF ResolveTip
  <2> DEFINE n == [m EXCEPT !.payload.tip = {Number[v]}]
  <2>2. Number[v] \in Nat /\ Number[v] <= Number[tip]
    BY BootstrapAssumption DEF Views
  <2>3. m.payload.tip = {} /\ m.found = {}
    BY <1>1, <1>4 DEF ResolveTip, MessageOK
  <2>4. m.payload \in Payload
    BY <1>2
  <2>5. /\ n \in [id : Nat, payload : Payload, found : SUBSET SUBSET Block]
        /\ n.id = m.id /\ n.found = m.found /\ n.payload.tip = {Number[v]}
        /\ n.payload.kind = m.payload.kind /\ n.payload.from = m.payload.from
    BY <1>2, <2>2, <2>4 DEF Payload
  <2>6. Update(m, n)
    BY <2>1
  <2> HIDE DEF n
  <2>7. MessageOK(n, tip)
    BY <2>2, <2>3, <2>5 DEF MessageOK, Frozen
  <2>8. \A r \in boot.pending : Answers(m, r) => Answers(n, r)
    BY <2>3, <2>5 DEF Answers
  <2>. QED
    BY <1>3, <2>5, <2>6, <2>7, <2>8
<1>5. CASE ServeWindow(m)
  <2>1. PICK v \in Views(tip) :
          Update(m, [m EXCEPT !.found = {Logged(v, m.payload.from, WindowEnd(m))}])
    BY <1>5 DEF ServeWindow
  <2> DEFINE W == Logged(v, m.payload.from, WindowEnd(m))
             n == [m EXCEPT !.found = {W}]
  <2>2. PICK N \in Nat : m.payload.tip = {N} /\ N <= Number[tip]
    BY <1>2, <1>5 DEF ServeWindow, Frozen
  <2>3. WindowEnd(m) \in Nat /\ WindowEnd(m) <= N
    BY <1>2, <2>2, WindowEndParts
  <2>4. Agrees(W, m.payload.from, WindowEnd(m), N, tip)
    <3> DEFINE lo == m.payload.from
               hi == WindowEnd(m)
    <3>1. lo \in Nat /\ hi \in Nat /\ hi <= N
      BY <1>2, <2>3
    <3> HIDE DEF lo, hi
    <3>2. Agrees(Logged(v, lo, hi), lo, hi, N, tip)
      BY <1>1, <2>2, <3>1, LoggedAgrees
    <3>. QED
      BY <3>2 DEF lo, hi
  <2>5. W \in SUBSET Block
    <3>1. v \in Block
      BY DEF Views
    <3>. QED
      BY <3>1, LineClosed DEF Logged
  <2> HIDE DEF W
  <2>6. /\ n \in [id : Nat, payload : Payload, found : SUBSET SUBSET Block]
        /\ n.id = m.id /\ n.payload = m.payload /\ n.found = {W}
    BY <1>2, <2>5
  <2>7. Update(m, n)
    BY <2>1 DEF W
  <2> HIDE DEF n
  <2>8. WindowEnd(n) = WindowEnd(m)
    BY <2>6 DEF WindowEnd, Ceiling
  <2>9. MessageOK(n, tip)
    BY <1>2, <2>2, <2>4, <2>5, <2>6, <2>8 DEF MessageOK
  <2>10. \A r \in boot.pending : Answers(m, r) => Answers(n, r)
    BY <2>6 DEF Answers
  <2>. QED
    BY <1>3, <2>6, <2>7, <2>9, <2>10
<1>. QED
  BY <1>4, <1>5

\* The anchor that arrives starts the scan at its height.
LEMMA AnchorKeepsSeed ==
  ASSUME SeedInv(boot, tip), AwaitInv, ~Terminal(boot), NEW m \in boot.wire, FinalizedHeaderReceived(m)
  PROVE  SeedInv(boot, tip)'
<1> DEFINE c == Taken(boot, m)
<1>1. PICK a \in Settled(tip) : boot' = Issue([c EXCEPT !.stage = "Discovering", !.anchor = a],
                                              Ask("candidates", Number[a], {}, {}))
  BY DEF FinalizedHeaderReceived
<1> DEFINE d == [c EXCEPT !.stage = "Discovering", !.anchor = a]
           p == Ask("candidates", Number[a], {}, {})
<1>2. AwaitsOne(boot, Awaited[boot.stage]) /\ Matching(boot, m) # {} /\ boot.stage = "AnchoringChain" /\ tip' = tip
  BY DEF AwaitInv, FinalizedHeaderReceived, Expected
<1>3. /\ DOMAIN c = BootFields /\ c.pending = {} /\ WireOK(c, tip)
      /\ c.stage = boot.stage /\ c.anchor = boot.anchor /\ c.blocks = boot.blocks /\ c.seed = boot.seed
  BY <1>2, TakenParts
<1>4. tip \in Block /\ a \in Block /\ Number[a] \in Nat
  <2>1. tip \in Block
    BY DEF SeedInv, HeldOK
  <2>. QED
    BY <2>1, LineClosed, BootstrapAssumption DEF Settled
<1>5. /\ DOMAIN d = BootFields /\ d.pending = {} /\ d.wire = c.wire
      /\ d.stage = "Discovering" /\ d.anchor = a /\ d.blocks = c.blocks /\ d.seed = c.seed
  BY <1>3 DEF BootFields
<1>6. p \in Payload /\ p.tip = {} /\ p.from = Number[a]
  <2>1. "candidates" \in Kinds /\ {} \in SUBSET Nat /\ {} \in SUBSET Pool
    BY DEF Kinds
  <2> HIDE DEF p
  <2>2. p = Ask("candidates", Number[a], {}, {})
    BY DEF p
  <2>. QED
    BY <1>4, <2>1, <2>2, AskParts
<1>7. boot' = Issue(d, p)
  BY <1>1
<1> HIDE DEF c, d, p
<1>8. boot.blocks = <<>> /\ boot.seed = {}
  BY <1>2 DEF SeedInv, HeldOK
<1>9. HeldOK(d, tip)
  BY <1>3, <1>4, <1>5, <1>8 DEF SeedInv, HeldOK, Linked, TrueSeed, RealIn
<1>10. WireOK(d, tip) /\ Frozen(p, tip) /\ ScanOK(d.blocks, d.anchor, p, tip)
  BY <1>3, <1>5, <1>6, <1>8 DEF WireOK, Frozen, ScanOK
<1>11. SeedInv(Issue(d, p), tip)
  BY <1>5, <1>6, <1>9, <1>10, IssueKeepsSeed
<1>. QED
  BY <1>2, <1>7, <1>11

\* The facts about a window that is expected.
LEMMA WindowParts ==
  ASSUME SeedInv(boot, tip), AwaitInv, ~Terminal(boot), NEW m \in boot.wire,
         Expected(m, "candidates", "Discovering"), Served(m)
  PROVE  /\ Scanned(m) \in Seq(SUBSET Block)
         /\ \E N \in Nat :
              /\ m.payload.tip = {N} /\ N <= Number[tip] /\ Ceiling(m) = N
              /\ WindowEnd(m) \in Nat
              /\ WindowEnd(m) < N => Number[boot.anchor] <= WindowEnd(m)
              /\ Agrees(Listed(Scanned(m)), Number[boot.anchor], WindowEnd(m), N, tip)
         /\ LET c == Taken(boot, m)
            IN /\ DOMAIN c = BootFields /\ c.pending = {} /\ WireOK(c, tip)
               /\ c.stage = "Discovering" /\ c.anchor = boot.anchor /\ c.blocks = boot.blocks /\ c.seed = {}
<1>1. /\ AwaitsOne(boot, Awaited[boot.stage]) /\ Matching(boot, m) # {} /\ boot.stage = "Discovering"
      /\ m.found # {}
  BY DEF AwaitInv, Expected, Served
<1>2. /\ tip \in Block /\ boot.anchor \in Block /\ boot.blocks \in Seq(SUBSET Block) /\ boot.seed = {}
      /\ MessageOK(m, tip)
  BY <1>1 DEF SeedInv, HeldOK, RequestsOK, WireOK
<1>3. LET c == Taken(boot, m)
      IN /\ DOMAIN c = BootFields /\ c.pending = {} /\ WireOK(c, tip)
         /\ c.stage = boot.stage /\ c.anchor = boot.anchor /\ c.blocks = boot.blocks /\ c.seed = boot.seed
         /\ \E r \in boot.pending : RequestOK(r, tip) /\ Answers(m, r)
  BY <1>1, TakenParts
<1>4. PICK r \in boot.pending : RequestOK(r, tip) /\ Answers(m, r)
  BY <1>3
<1>5. ScanOK(boot.blocks, boot.anchor, r.payload, tip)
  BY <1>1 DEF SeedInv
<1>6. Scanned(m) = Append(boot.blocks, CHOOSE w \in m.found : TRUE)
  BY DEF Scanned
<1>7. /\ Scanned(m) \in Seq(SUBSET Block)
      /\ \E N \in Nat :
           /\ m.payload.tip = {N} /\ N <= Number[tip] /\ Ceiling(m) = N
           /\ WindowEnd(m) \in Nat
           /\ WindowEnd(m) < N => Number[boot.anchor] <= WindowEnd(m)
           /\ Agrees(Listed(Scanned(m)), Number[boot.anchor], WindowEnd(m), N, tip)
  BY <1>1, <1>2, <1>4, <1>5, <1>6, ScannedAgrees
<1>. QED
  BY <1>1, <1>2, <1>3, <1>7

\* A window that is not the last one adds to what was scanned.
LEMMA WindowKeepsSeed ==
  ASSUME SeedInv(boot, tip), AwaitInv, ~Terminal(boot), NEW m \in boot.wire, WindowReceived(m)
  PROVE  SeedInv(boot, tip)'
<1> DEFINE c == Taken(boot, m)
           d == [c EXCEPT !.blocks = Scanned(m)]
           p == NextWindow(m)
<1>1. boot' = Issue(d, p) /\ tip' = tip /\ BelowTip(m)
      /\ Expected(m, "candidates", "Discovering") /\ Served(m)
  BY DEF WindowReceived
<1>2. /\ Scanned(m) \in Seq(SUBSET Block)
      /\ DOMAIN c = BootFields /\ c.pending = {} /\ WireOK(c, tip)
      /\ c.stage = "Discovering" /\ c.anchor = boot.anchor /\ c.blocks = boot.blocks /\ c.seed = {}
  BY <1>1, WindowParts
<1>3. PICK N \in Nat :
        /\ m.payload.tip = {N} /\ N <= Number[tip] /\ Ceiling(m) = N
        /\ WindowEnd(m) \in Nat
        /\ WindowEnd(m) < N => Number[boot.anchor] <= WindowEnd(m)
        /\ Agrees(Listed(Scanned(m)), Number[boot.anchor], WindowEnd(m), N, tip)
  BY <1>1, WindowParts
<1>4. /\ DOMAIN d = BootFields /\ d.pending = {} /\ d.wire = c.wire
      /\ d.stage = "Discovering" /\ d.anchor = boot.anchor /\ d.blocks = Scanned(m) /\ d.seed = {}
  BY <1>2 DEF BootFields
<1> DEFINE hi == WindowEnd(m)
           lo == Number[boot.anchor]
<1>5. boot.anchor \in Block /\ lo \in Nat /\ hi < N /\ hi \in Nat
  BY <1>1, <1>3, BootstrapAssumption DEF SeedInv, HeldOK, BelowTip
<1>6. p \in Payload /\ p.tip = {N} /\ p.from = hi + 1
  <2> DEFINE n == hi + 1
             T == m.payload.tip
  <2>1. "candidates" \in Kinds /\ T \in SUBSET Nat /\ {} \in SUBSET Pool /\ n \in Nat /\ T = {N}
    BY <1>3, <1>5 DEF Kinds
  <2>2. p = Ask("candidates", n, T, {})
    BY DEF NextWindow
  <2> HIDE DEF n, T, p
  <2>3. p \in Payload /\ p.tip = T /\ p.from = n
    BY <2>1, <2>2, AskParts
  <2>. QED
    BY <2>1, <2>3 DEF n
<1> HIDE DEF c, d, p, hi
<1>7. HeldOK(d, tip)
  BY <1>2, <1>4, <1>5 DEF SeedInv, HeldOK, Linked, TrueSeed, RealIn
<1>8. WireOK(d, tip) /\ Frozen(p, tip)
  BY <1>2, <1>3, <1>4, <1>6 DEF WireOK, Frozen
<1>9. ScanOK(d.blocks, d.anchor, p, tip)
  <2>1. lo < p.from /\ p.from <= N /\ p.from - 1 = hi
    BY <1>3, <1>5, <1>6 DEF hi
  <2>2. Agrees(Listed(d.blocks), lo, p.from - 1, N, tip)
    BY <1>3, <1>4, <2>1 DEF hi
  <2>. QED
    BY <1>4, <1>6, <2>1, <2>2 DEF ScanOK
<1>10. SeedInv(Issue(d, p), tip)
  BY <1>4, <1>6, <1>7, <1>8, <1>9, IssueKeepsSeed
<1>. QED
  BY <1>1, <1>10 DEF c, d, p

\* The last window makes the seed.
LEMMA LastWindowKeepsSeed ==
  ASSUME SeedInv(boot, tip), AwaitInv, ~Terminal(boot), NEW m \in boot.wire, LastWindowReceived(m)
  PROVE  SeedInv(boot, tip)'
<1> DEFINE c    == Taken(boot, m)
           seed == FromWindow(Scanned(m), boot.anchor)
           pools == UNION {PoolsOf[x] : x \in Listed(Scanned(m))}
           d    == [c EXCEPT !.stage = "ValidatingPools", !.blocks = <<>>, !.seed = seed]
           p    == Ask("pools", 0, {}, pools)
<1>1. boot' = Issue(d, p) /\ tip' = tip /\ Expected(m, "candidates", "Discovering") /\ Served(m)
  BY DEF LastWindowReceived
<1>2. /\ Scanned(m) \in Seq(SUBSET Block)
      /\ DOMAIN c = BootFields /\ c.pending = {} /\ WireOK(c, tip)
      /\ c.stage = "Discovering" /\ c.anchor = boot.anchor /\ c.blocks = boot.blocks /\ c.seed = {}
  BY <1>1, WindowParts
<1>3. PICK N \in Nat :
        /\ m.payload.tip = {N} /\ N <= Number[tip] /\ WindowEnd(m) \in Nat
        /\ Agrees(Listed(Scanned(m)), Number[boot.anchor], WindowEnd(m), N, tip)
  BY <1>1, WindowParts
<1>4. boot.anchor \in Block /\ tip \in Block
  BY DEF SeedInv, HeldOK
<1>5. Linked(seed, boot.anchor) /\ TrueSeed(seed, boot.anchor, tip)
  <2> DEFINE w  == Scanned(m)
             a  == boot.anchor
             hi == WindowEnd(m)
  <2>1. w \in Seq(SUBSET Block) /\ a \in Block /\ hi \in Nat /\ Agrees(Listed(w), Number[a], hi, N, tip)
    BY <1>2, <1>3, <1>4
  <2>2. seed = FromWindow(w, a)
    OBVIOUS
  <2> HIDE DEF w, hi, seed
  <2>3. Linked(FromWindow(w, a), a) /\ TrueSeed(FromWindow(w, a), a, tip)
    <3> HIDE DEF a
    <3>. QED
      BY <1>3, <1>4, <2>1, WindowLinked, WindowTrue
  <2>. QED
    BY <2>2, <2>3
<1>6. pools \in SUBSET Pool
  <2>1. \A x \in Listed(Scanned(m)) : PoolsOf[x] \in SUBSET Pool
    BY <1>2, BootstrapAssumption DEF Listed
  <2>. QED
    BY <2>1
<1> HIDE DEF seed, pools, c
<1>7. /\ DOMAIN d = BootFields /\ d.pending = {} /\ d.wire = c.wire
      /\ d.stage = "ValidatingPools" /\ d.anchor = boot.anchor /\ d.blocks = <<>> /\ d.seed = seed
  BY <1>2 DEF BootFields
<1>8. p \in Payload /\ p.tip = {}
  <2>1. "pools" \in Kinds /\ {} \in SUBSET Nat /\ 0 \in Nat
    BY DEF Kinds
  <2>. QED
    BY <1>6, <2>1, AskParts
<1>9. boot' = Issue(d, p)
  BY <1>1 DEF seed, pools, c
<1> HIDE DEF d, p
<1>10. <<>> \in Seq(SUBSET Block)
  OBVIOUS
<1>11. HeldOK(d, tip)
  BY <1>4, <1>5, <1>7, <1>10 DEF HeldOK
<1>12. WireOK(d, tip) /\ Frozen(p, tip)
  BY <1>2, <1>7, <1>8 DEF WireOK, Frozen
<1>13. SeedInv(Issue(d, p), tip)
  BY <1>7, <1>8, <1>11, <1>12, IssueKeepsSeed
<1>. QED
  BY <1>1, <1>9, <1>13

\* After the scan the seed is not touched.
LEMMA LaterAnswerKeepsSeed ==
  ASSUME SeedInv(boot, tip), AwaitInv, ~Terminal(boot), NEW m \in boot.wire,
         PoolMetadataReceived(m) \/ TokenMetadataReceived(m) \/ LateAnswer(m)
  PROVE  SeedInv(boot, tip)'
<1> DEFINE c == Taken(boot, m)
<1>1. AwaitsOne(boot, Awaited[boot.stage]) /\ tip' = tip /\ DOMAIN boot = BootFields
  BY DEF AwaitInv, PoolMetadataReceived, TokenMetadataReceived, LateAnswer
<1>2. ASSUME Matching(boot, m) # {}
      PROVE  /\ DOMAIN c = BootFields /\ c.pending = {} /\ WireOK(c, tip)
             /\ c.stage = boot.stage /\ c.anchor = boot.anchor /\ c.blocks = boot.blocks /\ c.seed = boot.seed
  BY <1>1, <1>2, TakenParts
<1>3. CASE PoolMetadataReceived(m)
  <2> DEFINE v == (m.payload.items \cup CachedPools) \cap ValidPools
             d == [c EXCEPT !.stage = "ResolvingTokens", !.verified = v]
             p == Ask("tokens", 0, {}, {})
  <2>1. boot' = Issue(d, p) /\ Matching(boot, m) # {} /\ boot.stage = "ValidatingPools"
    BY <1>3 DEF PoolMetadataReceived, Expected
  <2>2. /\ DOMAIN d = BootFields /\ d.pending = {} /\ d.wire = c.wire
        /\ d.stage = "ResolvingTokens" /\ d.anchor = boot.anchor /\ d.blocks = boot.blocks /\ d.seed = boot.seed
    <3> HIDE DEF c
    <3>. QED
      BY <1>2, <2>1 DEF BootFields
  <2>3. p \in Payload /\ p.tip = {}
    <3>1. "tokens" \in Kinds /\ {} \in SUBSET Nat /\ 0 \in Nat /\ {} \in SUBSET Pool
      BY DEF Kinds
    <3>. QED
      BY <3>1, AskParts
  <2> HIDE DEF c, d, p
  <2>4. HeldOK(d, tip)
    BY <2>1, <2>2 DEF SeedInv, HeldOK
  <2>5. WireOK(d, tip) /\ Frozen(p, tip)
    BY <1>2, <2>1, <2>2, <2>3 DEF WireOK, Frozen
  <2>6. SeedInv(Issue(d, p), tip)
    BY <2>2, <2>3, <2>4, <2>5, IssueKeepsSeed
  <2>. QED
    BY <1>1, <2>1, <2>6
<1>4. CASE TokenMetadataReceived(m)
  <2> DEFINE d == [c EXCEPT !.stage = "Ready"]
  <2>1. boot' = d /\ Matching(boot, m) # {}
    BY <1>4 DEF TokenMetadataReceived, Expected
  <2>2. /\ DOMAIN d = BootFields /\ d.pending = {} /\ d.wire = c.wire
        /\ d.stage = "Ready" /\ d.anchor = boot.anchor /\ d.blocks = boot.blocks /\ d.seed = boot.seed
    <3> HIDE DEF c
    <3>. QED
      BY <1>2, <2>1 DEF BootFields
  <2> HIDE DEF c, d
  <2>3. HeldOK(d, tip)
    BY <2>2 DEF SeedInv, HeldOK
  <2>4. RequestsOK(d, tip)
    BY <1>2, <2>1, <2>2 DEF RequestsOK, WireOK, Paired
  <2>5. SeedInv(d, tip)
    BY <2>2, <2>3, <2>4 DEF SeedInv
  <2>. QED
    BY <1>1, <2>1, <2>5
<1>5. CASE LateAnswer(m)
  <2> DEFINE e == [boot EXCEPT !.wire = @ \ {m}]
  <2>1. boot' = e
    <3>1. boot' = [boot EXCEPT !.wire = @ \ {m}, !.pending = @ \ {}]
      BY <1>5 DEF LateAnswer, Taken
    <3>2. boot.pending \ {} = boot.pending
      OBVIOUS
    <3>. QED
      BY <1>1, <3>1, <3>2 DEF BootFields
  <2>2. SeedInv(e, tip)
    BY LostKeepsSeed
  <2> HIDE DEF e
  <2>. QED
    BY <1>1, <2>1, <2>2
<1>. QED
  BY <1>3, <1>4, <1>5

\* A request that fails is sent again or forgotten.
LEMMA FailureKeepsSeed ==
  ASSUME SeedInv(boot, tip), AwaitInv, ~Terminal(boot), NEW m \in boot.wire, RequestFailed(m) \/ AnswerLost(m)
  PROVE  SeedInv(boot, tip)'
<1> DEFINE e == [boot EXCEPT !.wire = @ \ {m}]
           q == CHOOSE r \in Matching(boot, m) : TRUE
<1>1. AwaitsOne(boot, Awaited[boot.stage]) /\ tip' = tip /\ DOMAIN boot = BootFields
  BY DEF AwaitInv, RequestFailed, AnswerLost
<1>2. SeedInv(e, tip)
  BY LostKeepsSeed
<1>3. DOMAIN e = BootFields /\ e.pending = boot.pending
  BY <1>1 DEF BootFields
<1>4. \/ boot' = e
      \/ Matching(boot, m) = {} /\ boot' = Taken(boot, m)
      \/ Matching(boot, m) # {} /\ boot' = Retry(e, q)
  BY DEF RequestFailed, AnswerLost
<1>5. CASE Matching(boot, m) = {} /\ boot' = Taken(boot, m)
  <2>1. boot' = [boot EXCEPT !.wire = @ \ {m}, !.pending = @ \ {}]
    BY <1>5 DEF Taken
  <2>2. boot.pending \ {} = boot.pending
    OBVIOUS
  <2>3. boot' = e
    BY <1>1, <2>1, <2>2 DEF BootFields
  <2> HIDE DEF e
  <2>. QED
    BY <1>1, <1>2, <2>3
<1>6. CASE Matching(boot, m) # {} /\ boot' = Retry(e, q)
  <2>1. q \in e.pending
    BY <1>3, <1>6 DEF Matching
  <2> HIDE DEF e, q
  <2>2. AwaitsOne(e, Awaited[boot.stage])
    BY <1>1, <1>3 DEF AwaitsOne
  <2>3. SeedInv(Retry(e, q), tip)
    BY <1>2, <2>1, <2>2, RetryKeepsSeed
  <2>. QED
    BY <1>1, <1>6, <2>3
<1> HIDE DEF e, q
<1>. QED
  BY <1>1, <1>2, <1>4, <1>5, <1>6

\* A request grows older.
LEMMA AgedKeepsSeed ==
  ASSUME NEW b, NEW t, SeedInv(b, t), NEW kind, AwaitsOne(b, kind)
  PROVE  SeedInv(Aged(b), t) /\ AwaitsOne(Aged(b), kind) /\ Aged(b).stage = b.stage
<1> DEFINE c == Aged(b)
<1>1. PICK r : b.pending = {r} /\ Remembered(r, kind)
  BY DEF AwaitsOne
<1> DEFINE q == [r EXCEPT !.age = @ + 1]
<1>2. /\ DOMAIN c = BootFields /\ c.wire = b.wire /\ c.pending = {q}
      /\ c.stage = b.stage /\ c.anchor = b.anchor /\ c.blocks = b.blocks /\ c.seed = b.seed
  BY <1>1 DEF SeedInv, HeldOK, Aged, BootFields
<1>3. DOMAIN q = {"id", "payload", "age"} /\ q.payload = r.payload /\ q.id = r.id
  BY <1>1 DEF Remembered
<1> HIDE DEF c, q
<1>4. AwaitsOne(c, kind)
  BY <1>1, <1>2, <1>3 DEF AwaitsOne, Remembered
<1>5. HeldOK(c, t)
  BY <1>2 DEF SeedInv, HeldOK
<1>6. RequestsOK(c, t)
  BY <1>1, <1>2, <1>3 DEF SeedInv, RequestsOK, RequestOK, WireOK, Paired, Answers
<1>7. c.stage = "Discovering" => \A s \in c.pending : ScanOK(c.blocks, c.anchor, s.payload, t)
  BY <1>1, <1>2, <1>3 DEF SeedInv
<1>8. SeedInv(c, t)
  BY <1>5, <1>6, <1>7 DEF SeedInv
<1>. QED
  BY <1>2, <1>4, <1>8 DEF c

\* The deadline makes the seed of what was scanned so far.
LEMMA DegradedKeepsSeed ==
  ASSUME NEW b, NEW t, SeedInv(b, t), b.stage \in Stages, NEW kind, AwaitsOne(b, kind)
  PROVE  SeedInv(Degraded(b), t)
<1> DEFINE d == Degraded(b)
<1>1. /\ DOMAIN b = BootFields /\ b.anchor \in Block /\ t \in Block /\ b.blocks \in Seq(SUBSET Block)
      /\ Linked(b.seed, b.anchor) /\ TrueSeed(b.seed, b.anchor, t) /\ RequestsOK(b, t)
  BY DEF SeedInv, HeldOK
<1>2. CASE b.stage = "Discovering"
  <2> DEFINE seed == FromWindow(b.blocks, b.anchor)
             a    == b.anchor
             w    == b.blocks
  <2>1. Linked(seed, a) /\ TrueSeed(seed, a, t)
    <3>1. PICK r \in b.pending : TRUE
      BY DEF AwaitsOne
    <3>2. ScanOK(w, a, r.payload, t) /\ RequestOK(r, t) /\ w \in Seq(SUBSET Block) /\ a \in Block
      BY <1>1, <1>2 DEF SeedInv, RequestsOK
    <3>3. CASE r.payload.tip = {}
      <4>1. w = <<>>
        BY <3>2, <3>3 DEF ScanOK
      <4>2. seed = {}
        BY <4>1, NothingScanned
      <4>. QED
        BY <4>2 DEF Linked, TrueSeed, RealIn
    <3>4. CASE r.payload.tip # {}
      <4>1. PICK N \in Nat : /\ r.payload.tip = {N} /\ Number[a] < r.payload.from
                             /\ Agrees(Listed(w), Number[a], r.payload.from - 1, N, t)
        BY <3>2, <3>4 DEF ScanOK
      <4> DEFINE hi == r.payload.from - 1
      <4>2. hi \in Nat /\ N <= Number[t]
        <5>1. r.payload.from \in Nat /\ Number[a] \in Nat
          BY <1>1, <3>2, BootstrapAssumption DEF RequestOK, Payload
        <5>2. N <= Number[t]
          BY <3>2, <4>1 DEF RequestOK, Frozen
        <5>. QED
          BY <4>1, <5>1, <5>2
      <4>3. Agrees(Listed(w), Number[a], hi, N, t)
        BY <4>1
      <4> HIDE DEF hi, w, a
      <4>4. Linked(FromWindow(w, a), a) /\ TrueSeed(FromWindow(w, a), a, t)
        BY <1>1, <3>2, <4>2, <4>3, WindowLinked, WindowTrue
      <4>. QED
        BY <4>4 DEF w, a
    <3>. QED
      BY <3>3, <3>4
  <2> HIDE DEF seed
  <2>2. d = [b EXCEPT !.stage = "Ready", !.blocks = <<>>, !.seed = seed]
    BY <1>2 DEF Degraded, seed
  <2>3. /\ DOMAIN d = BootFields /\ d.pending = b.pending /\ d.wire = b.wire
        /\ d.stage = "Ready" /\ d.anchor = a /\ d.blocks = <<>> /\ d.seed = seed
    BY <1>1, <2>2 DEF BootFields
  <2> HIDE DEF d
  <2>4. <<>> \in Seq(SUBSET Block)
    OBVIOUS
  <2>5. HeldOK(d, t)
    BY <1>1, <2>1, <2>3, <2>4 DEF HeldOK
  <2>6. SeedInv(d, t)
    BY <1>1, <2>3, <2>5 DEF SeedInv, RequestsOK, WireOK, Paired
  <2>. QED
    BY <2>6 DEF d
<1>3. CASE b.stage # "Discovering"
  <2>1. PICK stage \in {"Ready", "Abandoned"} : d = [b EXCEPT !.stage = stage]
    BY <1>3 DEF Degraded
  <2>2. /\ DOMAIN d = BootFields /\ d.pending = b.pending /\ d.wire = b.wire
        /\ d.stage = stage /\ d.anchor = b.anchor /\ d.blocks = b.blocks /\ d.seed = b.seed
    BY <1>1, <2>1 DEF BootFields
  <2> HIDE DEF d
  <2>3. HeldOK(d, t)
    BY <1>1, <2>2 DEF HeldOK
  <2>4. SeedInv(d, t)
    BY <1>1, <2>2, <2>3 DEF SeedInv, RequestsOK, WireOK, Paired
  <2>. QED
    BY <2>4 DEF d
<1>. QED
  BY <1>2, <1>3

\* The clock: the request grows older, expires, or the deadline is there.
LEMMA TickKeepsSeed ==
  ASSUME SeedInv(boot, tip), AwaitInv, ~Terminal(boot), Tick
  PROVE  SeedInv(boot, tip)'
<1> DEFINE b    == Aged(boot)
           kind == Awaited[boot.stage]
<1>1. boot.stage \in Stages /\ AwaitsOne(boot, kind) /\ tip' = tip
  BY DEF AwaitInv, Tick
<1>2. boot' = Degraded(b) \/ boot' = RetryExpired(b)
  BY DEF Tick
<1> HIDE DEF kind
<1>3. SeedInv(b, tip) /\ AwaitsOne(b, kind) /\ b.stage \in Stages
  BY <1>1, AgedKeepsSeed
<1> HIDE DEF b
<1>4. CASE boot' = Degraded(b)
  BY <1>1, <1>3, <1>4, DegradedKeepsSeed
<1>5. CASE boot' = RetryExpired(b)
  <2> DEFINE expired == {r \in b.pending : r.age >= RequestTTL}
             q       == CHOOSE r \in expired : TRUE
  <2>1. CASE expired = {}
    <3>1. boot' = b
      BY <1>5, <2>1 DEF RetryExpired
    <3>. QED
      BY <1>1, <1>3, <3>1
  <2>2. CASE expired # {}
    <3>1. q \in b.pending /\ boot' = Retry(b, q)
      BY <1>5, <2>2 DEF RetryExpired
    <3> HIDE DEF q
    <3>2. SeedInv(Retry(b, q), tip)
      BY <1>3, <3>1, RetryKeepsSeed
    <3>. QED
      BY <1>1, <3>1, <3>2
  <2>. QED
    BY <2>1, <2>2
<1>. QED
  BY <1>2, <1>4, <1>5

\* Every answer keeps the seed as it should be.
LEMMA HandledKeepsSeed ==
  ASSUME SeedInv(boot, tip), AwaitInv, ~Terminal(boot), NEW m \in boot.wire, Handled(m)
  PROVE  SeedInv(boot, tip)'
BY ServedKeepsSeed, AnchorKeepsSeed, WindowKeepsSeed, LastWindowKeepsSeed, LaterAnswerKeepsSeed DEF Handled

\* At first there is no seed, and one request out.
LEMMA InitSeed ==
  ASSUME Init
  PROVE  SeedInv(boot, tip)
<1> DEFINE b == [stage |-> "AnchoringChain", anchor |-> Root, blocks |-> <<>>, seed |-> {},
                 verified |-> {}, pending |-> {}, wire |-> {}, elapsed |-> 0]
           p == Ask("finalized", 0, {}, {})
<1>1. boot = Issue(b, p) /\ tip = FirstTip /\ FirstTip \in Block /\ Root \in Block
  BY BootstrapAssumption DEF Init
<1>2. /\ DOMAIN b = BootFields /\ b.pending = {} /\ b.wire = {} /\ b.stage = "AnchoringChain"
      /\ b.anchor = Root /\ b.blocks = <<>> /\ b.seed = {}
  BY DEF BootFields
<1>3. p \in Payload /\ p.tip = {}
  <2>1. "finalized" \in Kinds /\ {} \in SUBSET Nat /\ 0 \in Nat /\ {} \in SUBSET Pool
    BY DEF Kinds
  <2>. QED
    BY <2>1, AskParts
<1> HIDE DEF b, p
<1>4. <<>> \in Seq(SUBSET Block)
  OBVIOUS
<1>5. HeldOK(b, tip)
  BY <1>1, <1>2, <1>4 DEF HeldOK, Linked, TrueSeed, RealIn
<1>6. WireOK(b, tip) /\ Frozen(p, tip)
  BY <1>2, <1>3, FS_EmptySet DEF WireOK, Frozen
<1>7. SeedInv(Issue(b, p), tip)
  BY <1>2, <1>3, <1>5, <1>6, IssueKeepsSeed
<1>. QED
  BY <1>1, <1>7

\* Every step keeps both invariants.
LEMMA SeedNext ==
  ASSUME SeedInv(boot, tip), AwaitInv, [Next]_vars
  PROVE  SeedInv(boot, tip)'
<1>1. CASE ChainMoves
  <2>1. tip' \in Block /\ boot' = boot /\ Settled(tip) \subseteq Line[tip'] /\ Number[tip] <= Number[tip']
    <3>1. PICK u \in Block : Settled(tip) \subseteq Line[u] /\ Number[u] >= Number[tip] /\ tip' = u
      BY <1>1 DEF ChainMoves
    <3>2. Number[u] \in Nat /\ Number[tip] \in Nat
      BY BootstrapAssumption DEF SeedInv, HeldOK
    <3>. QED
      BY <1>1, <3>1, <3>2 DEF ChainMoves
  <2> DEFINE u == tip'
  <2>2. u \in Block /\ Settled(tip) \subseteq Line[u] /\ Number[tip] <= Number[u]
    BY <2>1
  <2> HIDE DEF u
  <2>3. SeedInv(boot, u)
    BY <2>2, MoveKeepsSeed
  <2>. QED
    BY <2>1, <2>3 DEF u
<1>2. CASE UNCHANGED vars
  <2>1. boot' = boot /\ tip' = tip
    BY <1>2 DEF vars
  <2>. QED
    BY <2>1
<1>3. CASE ~Terminal(boot) /\ Tick
  BY <1>3, TickKeepsSeed
<1>4. ASSUME NEW m \in boot.wire, ~Terminal(boot), Handled(m) \/ RequestFailed(m) \/ AnswerLost(m)
      PROVE  SeedInv(boot, tip)'
  BY <1>4, HandledKeepsSeed, FailureKeepsSeed
<1>. QED
  BY <1>1, <1>2, <1>3, <1>4 DEF Next

(***************************************************************************)
(* The theorems.                                                           *)
(***************************************************************************)
\* Bootstrap is sequential (client-evm/src/bootstrap): failures, expiries and late or
\* double answers leave exactly one request outstanding, the one the phase waits for.
THEOREM OneRequestOutstanding == Spec => []AwaitsItsAnswer
<1>1. Init => AwaitInv
  BY AwaitInit
<1>2. AwaitInv /\ [Next]_vars => AwaitInv'
  BY AwaitNext
<1>3. AwaitInv => AwaitsItsAnswer
  BY DEF AwaitInv, AwaitsOne, Remembered, AwaitsItsAnswer
<1>. QED
  BY <1>1, <1>2, <1>3, PTL DEF Spec

\* What bootstrap holds is sound in every reachable state.
THEOREM SeedInvariance == Spec => [](AwaitInv /\ SeedInv(boot, tip))
<1>1. Init => AwaitInv /\ SeedInv(boot, tip)
  BY AwaitInit, InitSeed
<1>2. AwaitInv /\ SeedInv(boot, tip) /\ [Next]_vars => (AwaitInv /\ SeedInv(boot, tip))'
  BY AwaitNext, SeedNext
<1>. QED
  BY <1>1, <1>2, PTL DEF Spec

\* GraphSeed::from_window: from every block of the seed window the parents named lead
\* down to the anchor, over the fillers that bridge the stretches without logs.
THEOREM SeedLinked == Spec => []SeedLinksToAnchor
<1>1. AwaitInv /\ SeedInv(boot, tip) => SeedLinksToAnchor
  BY DEF SeedInv, HeldOK, Linked, SeedLinksToAnchor
<1>. QED
  BY <1>1, SeedInvariance, PTL

\* Bootstrap's pages (fetch_pool_candidates_window) may come from lagging heads and from
\* forks, and the chain moves on: the blocks of the seed are settled, and none with pool
\* logs is missing up to its top.
THEOREM SeedTrue == Spec => []SeedIsTrue
<1>1. AwaitInv /\ SeedInv(boot, tip) => SeedIsTrue
  BY DEF SeedInv, HeldOK, TrueSeed, SeedIsTrue
<1>. QED
  BY <1>1, SeedInvariance, PTL
================================================================================
