--------------------------- MODULE EndpointPoolProofs ---------------------------
(***************************************************************************)
(* The rotation is fair, and no request fails needlessly, for any number   *)
(* of endpoints and threads, any weights, cooldowns and outages.           *)
(*                                                                         *)
(* First the rotation.  After n rounds an endpoint of weight x picked p    *)
(* times holds n * x - total * p.  All hold nothing together, so the one   *)
(* taken holds more than nothing once every weight is added, and more than *)
(* -total after it has paid: none is ever a whole pick ahead of its share. *)
(* After total rounds each holds a multiple of total, hence nothing: it    *)
(* was picked as often as it weighs.  Of up to three endpoints none is a   *)
(* whole pick behind either.                                               *)
(*                                                                         *)
(* So the rotation holds every endpoint, and a request picks one it has    *)
(* not tried as long as there is one: after as many failures as there are  *)
(* endpoints it has tried them all, and each it tried was down at the time.*)
(***************************************************************************)
EXTENDS EndpointPool, FiniteSetTheorems, SequenceTheorems, WellFoundedInduction, TLAPS

(***************************************************************************)
(* Least subsets, least numbers, highest members, sums.                    *)
(***************************************************************************)
\* Of any sets of members of a finite set one is smallest.
LEMMA SmallestSubset ==
  ASSUME NEW W, IsFiniteSet(W), NEW T, T \subseteq SUBSET W, T # {}
  PROVE  \E s \in T : \A t \in T : t \subseteq s => t = s
<1>1. T \subseteq FiniteSubsetsOf(W)
  BY FS_FiniteSubsetsOfFinite
<1>2. PICK s \in T : \A t \in T : ~ (<<t, s>> \in StrictSubsetOrdering(W))
  BY <1>1, FS_StrictSubsetOrderingWellFounded, WFMin
<1>. QED
  BY <1>2 DEF StrictSubsetOrdering

\* s holds the sum of f over every subset of D.
IsSum(s, D, f) ==
  /\ s \in [SUBSET D -> Int] /\ s[{}] = 0
  /\ \A S \in SUBSET D : \A x \in S : s[S] = f[x] + s[S \ {x}]

\* There is such a function: what each further member adds to the sums without it.
LEMMA SumExists ==
  ASSUME NEW D, IsFiniteSet(D), NEW f \in [D -> Int]
  PROVE  \E s : IsSum(s, D, f)
<1> DEFINE Bad == {E \in SUBSET D : ~\E s : IsSum(s, E, f)}
<1> SUFFICES ASSUME Bad # {} PROVE FALSE
  <2>1. D \in SUBSET D
    OBVIOUS
  <2>. QED
    BY <2>1
<1>1. PICK E \in Bad : \A F \in Bad : F \subseteq E => F = E
  <2>1. Bad \subseteq SUBSET D
    OBVIOUS
  <2> HIDE DEF Bad
  <2>. QED
    BY <2>1, SmallestSubset
<1>2. CASE E = {}
  <2>1. IsSum([S \in SUBSET E |-> 0], E, f)
    BY <1>2 DEF IsSum
  <2>. QED
    BY <2>1
<1>3. CASE E # {}
  <2>1. PICK e \in E : TRUE
    BY <1>3
  <2>2. PICK s : IsSum(s, E \ {e}, f)
    BY <1>1, <2>1
  <2> DEFINE t == [S \in SUBSET E |-> IF e \in S THEN f[e] + s[S \ {e}] ELSE s[S]]
  <2>3. t \in [SUBSET E -> Int]
    <3>1. ASSUME NEW S \in SUBSET E PROVE S \ {e} \in SUBSET (E \ {e}) /\ (e \notin S => S \in SUBSET (E \ {e}))
      OBVIOUS
    <3>2. f[e] \in Int
      OBVIOUS
    <3>. QED
      BY <2>2, <3>1, <3>2 DEF IsSum
  <2>4. t[{}] = 0
    BY <2>2 DEF IsSum
  <2>5. ASSUME NEW S \in SUBSET E, NEW x \in S
        PROVE  t[S] = f[x] + t[S \ {x}]
    <3>1. S \ {x} \in SUBSET E /\ S \ {e} \in SUBSET (E \ {e}) /\ f[x] \in Int /\ f[e] \in Int
      OBVIOUS
    <3>2. CASE x = e
      <4>1. e \notin S \ {x}
        BY <3>2
      <4>. QED
        BY <3>1, <3>2, <4>1
    <3>3. CASE x # e /\ e \in S
      <4>1. s[S \ {e}] = f[x] + s[(S \ {e}) \ {x}]
        BY <2>2, <3>1, <3>3 DEF IsSum
      <4>2. (S \ {e}) \ {x} = (S \ {x}) \ {e} /\ e \in S \ {x} /\ (S \ {x}) \ {e} \in SUBSET (E \ {e})
        BY <3>3
      <4>3. s[(S \ {x}) \ {e}] \in Int
        BY <2>2, <4>2 DEF IsSum
      <4>4. t[S] = f[e] + s[S \ {e}] /\ t[S \ {x}] = f[e] + s[(S \ {x}) \ {e}]
        BY <3>1, <3>3, <4>2
      <4> DEFINE a == s[S \ {e}]
                 b == s[(S \ {x}) \ {e}]
      <4>5. a = f[x] + b /\ b \in Int
        BY <4>1, <4>2, <4>3
      <4>6. t[S] = f[e] + a /\ t[S \ {x}] = f[e] + b
        BY <4>4
      <4> HIDE DEF t, a, b
      <4>. QED
        BY <3>1, <4>5, <4>6
    <3>4. CASE e \notin S
      <4>1. S \in SUBSET (E \ {e}) /\ e \notin S \ {x}
        BY <3>4
      <4>. QED
        BY <2>2, <3>1, <3>4, <4>1 DEF IsSum
    <3>. QED
      BY <3>2, <3>3, <3>4
  <2> HIDE DEF t
  <2>6. IsSum(t, E, f)
    BY <2>3, <2>4, <2>5 DEF IsSum
  <2>. QED
    BY <2>6
<1>. QED
  BY <1>2, <1>3

\* SumFunction is the sum over the whole domain, whatever order it takes.
LEMMA SumIs ==
  ASSUME NEW D, IsFiniteSet(D), NEW f, DOMAIN f = D, NEW s, IsSum(s, D, f)
  PROVE  SumFunction(f) = s[D]
<1> DEFINE step(g) == [S \in SUBSET D |-> IF S = {} THEN 0
                                          ELSE LET x == CHOOSE x \in S : TRUE IN f[x] + g[S \ {x}]]
           iter == CHOOSE g : g = step(g)
<1>1. SumFunction(f) = iter[D]
  BY DEF SumFunction, SumFunctionOnSet, FoldFunctionOnSet, MapThenFoldSet
<1>2. s = step(s)
  <2>1. ASSUME NEW S \in SUBSET D
        PROVE  s[S] = IF S = {} THEN 0 ELSE LET x == CHOOSE x \in S : TRUE IN f[x] + s[S \ {x}]
    <3>1. S # {} => (CHOOSE x \in S : TRUE) \in S
      OBVIOUS
    <3>. QED
      BY <3>1 DEF IsSum
  <2>2. s = [S \in SUBSET D |-> s[S]]
    BY DEF IsSum
  <2>. QED
    BY <2>1, <2>2
<1>3. iter = step(iter)
  <2> HIDE DEF step
  <2>. QED
    BY <1>2
<1> HIDE DEF iter
<1>4. \A S \in SUBSET D : iter[S] = IF S = {} THEN 0 ELSE LET x == CHOOSE x \in S : TRUE IN f[x] + iter[S \ {x}]
  BY <1>3
<1> HIDE DEF step
<1> DEFINE Bad == {S \in SUBSET D : iter[S] # s[S]}
<1>5. SUFFICES ASSUME Bad # {} PROVE FALSE
  <2>1. D \in SUBSET D
    OBVIOUS
  <2>. QED
    BY <1>1, <2>1
<1>6. PICK S \in Bad : \A T \in Bad : T \subseteq S => T = S
  <2>1. Bad \subseteq SUBSET D
    OBVIOUS
  <2> HIDE DEF Bad
  <2>. QED
    BY <1>5, <2>1, SmallestSubset
<1>7. S # {}
  BY <1>4 DEF IsSum
<1>8. PICK x \in S : x = CHOOSE y \in S : TRUE
  BY <1>7
<1>9. iter[S] = f[x] + iter[S \ {x}] /\ s[S] = f[x] + s[S \ {x}]
  BY <1>4, <1>7, <1>8 DEF IsSum
<1>10. S \ {x} \in SUBSET D /\ S \ {x} # S
  OBVIOUS
<1>11. iter[S \ {x}] = s[S \ {x}]
  BY <1>6, <1>10
<1>. QED
  BY <1>9, <1>11

\* Of the slots of a rotation one has the least of any measure.
LEMMA SoonestExists ==
  ASSUME NEW S, S # {}, NEW f, \A s \in S : f[s] \in Nat
  PROVE  \E s \in S : \A r \in S : f[s] <= f[r]
<1> DEFINE T == {f[s] : s \in S}
<1>1. T \subseteq Nat /\ T # {}
  OBVIOUS
<1>2. PICK x \in T : \A y \in T : <<y, x>> \notin OpToRel(<, Nat)
  BY <1>1, NatLessThanWellFounded, WFMin
<1>3. \A y \in T : ~(y < x)
  BY <1>1, <1>2 DEF OpToRel
<1>4. PICK s \in S : f[s] = x
  OBVIOUS
<1>. QED
  BY <1>3, <1>4

\* The least of a set of naturals.
LEMMA MinOfNaturals ==
  ASSUME NEW S \in SUBSET Nat, S # {}
  PROVE  Min(S) \in S /\ \A x \in S : Min(S) <= x
<1>1. \E s \in S : \A r \in S : s <= r
  <2> DEFINE f == [s \in S |-> s]
  <2>1. \E s \in S : \A r \in S : f[s] <= f[r]
    BY SoonestExists
  <2>. QED
    BY <2>1
<1>. QED
  BY <1>1 DEF Min

\* Some member of a finite set has the highest rank.
LEMMA HighestMember ==
  ASSUME NEW W, IsFiniteSet(W), W # {}, NEW rank \in [W -> Int]
  PROVE  \E s \in W : \A t \in W : rank[t] <= rank[s]
<1> DEFINE Top(S) == \E s \in S : \A t \in S : rank[t] <= rank[s]
           T == {S \in SUBSET W : S # {} /\ ~Top(S)}
<1> SUFFICES ASSUME T # {} PROVE FALSE
  OBVIOUS
<1>1. T \subseteq SUBSET W
  OBVIOUS
<1>2. PICK S \in T : \A U \in T : U \subseteq S => U = S
  <2> HIDE DEF T
  <2>. QED
    BY <1>1, SmallestSubset
<1>3. PICK x \in S : TRUE
  OBVIOUS
<1>4. S \ {x} # {}
  BY <1>3
<1>5. Top(S \ {x})
  <2>1. S \ {x} \in SUBSET W /\ S \ {x} \subseteq S /\ S \ {x} # S
    BY <1>3
  <2> HIDE DEF Top
  <2>. QED
    BY <1>2, <1>4, <2>1
<1>6. PICK s \in S \ {x} : \A t \in S \ {x} : rank[t] <= rank[s]
  BY <1>5
<1>7. rank[x] \in Int /\ rank[s] \in Int /\ \A t \in S : rank[t] \in Int
  OBVIOUS
<1>8. CASE rank[x] <= rank[s]
  BY <1>6, <1>8
<1>9. CASE rank[s] < rank[x]
  BY <1>6, <1>7, <1>9
<1>. QED
  BY <1>7, <1>8, <1>9

\* Pointwise sums, and what is left when d is taken from j.
Adds(g, D, f, h) == \A x \in D : g[x] = f[x] + h[x]
Lowers(g, D, f, j, d) == \A x \in D : g[x] = IF x = j THEN f[x] - d ELSE f[x]

\* Sums add up.
LEMMA SumPlus ==
  ASSUME NEW D, NEW f \in [D -> Int], NEW h \in [D -> Int], NEW s, NEW t, IsSum(s, D, f), IsSum(t, D, h),
         NEW u \in [SUBSET D -> Int], Adds(u, SUBSET D, s, t), NEW g, Adds(g, D, f, h)
  PROVE  IsSum(u, D, g)
<1> USE DEF Adds
<1>1. s \in [SUBSET D -> Int] /\ t \in [SUBSET D -> Int] /\ s[{}] = 0 /\ t[{}] = 0
  BY DEF IsSum
<1>2. u[{}] = 0
  BY <1>1
<1>3. ASSUME NEW S \in SUBSET D, NEW x \in S
      PROVE  u[S] = g[x] + u[S \ {x}]
  <2> DEFINE R == S \ {x}
             a == f[x]
             b == h[x]
             p == s[R]
             q == t[R]
  <2>1. R \in SUBSET D /\ x \in D
    OBVIOUS
  <2>2. a \in Int /\ b \in Int /\ p \in Int /\ q \in Int
    BY <1>1, <2>1
  <2>3. s[S] = a + p /\ t[S] = b + q
    BY DEF IsSum
  <2>4. u[S] = s[S] + t[S] /\ u[R] = p + q /\ g[x] = a + b
    BY <2>1
  <2> HIDE DEF a, b, p, q
  <2>. QED
    BY <2>2, <2>3, <2>4 DEF R
<1>. QED
  BY <1>2, <1>3 DEF IsSum

\* Taking d from one member takes d from the sum.
LEMMA SumReduced ==
  ASSUME NEW D, NEW f \in [D -> Int], NEW s, IsSum(s, D, f), NEW j \in D, NEW d \in Int,
         NEW u \in [SUBSET D -> Int], \A S \in SUBSET D : u[S] = IF j \in S THEN s[S] - d ELSE s[S],
         NEW g, Lowers(g, D, f, j, d)
  PROVE  IsSum(u, D, g)
<1> USE DEF Lowers
<1>1. s \in [SUBSET D -> Int] /\ s[{}] = 0
  BY DEF IsSum
<1>2. u[{}] = 0
  BY <1>1
<1>3. ASSUME NEW S \in SUBSET D, NEW x \in S
      PROVE  u[S] = g[x] + u[S \ {x}]
  <2> DEFINE R == S \ {x}
             a == f[x]
             p == s[R]
  <2>1. R \in SUBSET D /\ x \in D
    OBVIOUS
  <2>2. a \in Int /\ p \in Int
    BY <1>1, <2>1
  <2>3. s[S] = a + p
    BY DEF IsSum
  <2>4. /\ u[S] = IF j \in S THEN s[S] - d ELSE s[S]
        /\ u[R] = IF j \in R THEN p - d ELSE p
        /\ g[x] = IF x = j THEN a - d ELSE a
    BY <2>1
  <2>5. j \in R <=> j \in S /\ j # x
    OBVIOUS
  <2> HIDE DEF a, p, R
  <2>6. u[S] = g[x] + u[R]
    BY <2>2, <2>3, <2>4, <2>5
  <2>. QED
    BY <2>6 DEF R
<1>. QED
  BY <1>2, <1>3 DEF IsSum

\* A function nowhere above another has no sum above the other's.
LEMMA SumMonotone ==
  ASSUME NEW D, IsFiniteSet(D), NEW f \in [D -> Int], NEW h \in [D -> Int],
         NEW s, NEW t, IsSum(s, D, f), IsSum(t, D, h), \A i \in D : f[i] <= h[i]
  PROVE  \A S \in SUBSET D : s[S] <= t[S]
<1> DEFINE Bad == {S \in SUBSET D : ~(s[S] <= t[S])}
<1> SUFFICES ASSUME Bad # {} PROVE FALSE
  OBVIOUS
<1>1. PICK S \in Bad : \A T \in Bad : T \subseteq S => T = S
  <2>1. Bad \subseteq SUBSET D
    OBVIOUS
  <2> HIDE DEF Bad
  <2>. QED
    BY <2>1, SmallestSubset
<1>2. s \in [SUBSET D -> Int] /\ t \in [SUBSET D -> Int]
  BY DEF IsSum
<1>3. S # {}
  <2>1. s[{}] = 0 /\ t[{}] = 0
    BY DEF IsSum
  <2>2. s[{}] <= t[{}]
    BY <2>1
  <2>. QED
    BY <2>2
<1>4. PICK x \in S : TRUE
  BY <1>3
<1> DEFINE R == S \ {x}
<1>5. R \in SUBSET D /\ R # S
  BY <1>4
<1>6. s[R] <= t[R]
  BY <1>1, <1>5
<1>7. s[S] = f[x] + s[R] /\ t[S] = h[x] + t[R] /\ f[x] <= h[x] /\ f[x] \in Int /\ h[x] \in Int
  BY <1>4 DEF IsSum
<1>8. s[R] \in Int /\ t[R] \in Int
  BY <1>2, <1>5
<1> HIDE DEF R
<1>9. s[S] <= t[S]
  BY <1>6, <1>7, <1>8
<1>. QED
  BY <1>9

\* Nothing adds up to nothing.
LEMMA NothingSums ==
  ASSUME NEW D
  PROVE  IsSum([S \in SUBSET D |-> 0], D, [i \in D |-> 0])
BY DEF IsSum

\* A sum over integers that are not all positive is not positive; one over naturals is
\* zero only if each is.
LEMMA SumSigns ==
  ASSUME NEW D, IsFiniteSet(D), NEW f \in [D -> Int], NEW s, IsSum(s, D, f)
  PROVE  /\ s[D] > 0 => \E i \in D : f[i] > 0
         /\ (\A i \in D : f[i] >= 0) => \A S \in SUBSET D : s[S] >= 0
         /\ (\A i \in D : f[i] >= 0) /\ s[D] = 0 => \A i \in D : f[i] = 0
<1> DEFINE zero == [i \in D |-> 0]
           none == [S \in SUBSET D |-> 0]
<1>1. IsSum(none, D, zero) /\ zero \in [D -> Int]
  BY NothingSums
<1>2. \A S \in SUBSET D : none[S] = 0
  OBVIOUS
<1>3. \A i \in D : zero[i] = 0
  OBVIOUS
<1> HIDE DEF none, zero
<1>4. ASSUME s[D] > 0, \A i \in D : ~(f[i] > 0)
      PROVE  FALSE
  <2>1. \A i \in D : f[i] <= zero[i]
    BY <1>3, <1>4
  <2>2. s[D] <= none[D]
    BY <1>1, <2>1, SumMonotone
  <2>3. s[D] \in Int
    BY DEF IsSum
  <2>. QED
    BY <1>2, <1>4, <2>2, <2>3
<1>5. ASSUME \A i \in D : f[i] >= 0, NEW S \in SUBSET D
      PROVE  s[S] >= 0
  <2>1. \A x \in D : zero[x] <= f[x]
    BY <1>3, <1>5
  <2>2. none[S] <= s[S]
    BY <1>1, <2>1, SumMonotone
  <2>3. s[S] \in Int
    BY DEF IsSum
  <2>. QED
    BY <1>2, <2>2, <2>3
<1>6. ASSUME \A i \in D : f[i] >= 0, s[D] = 0, NEW i \in D
      PROVE  f[i] = 0
  <2>1. s[D \ {i}] \in Int /\ s[D] = f[i] + s[D \ {i}] /\ f[i] \in Int
    BY DEF IsSum
  <2>. QED
    BY <1>5, <1>6, <2>1
<1>. QED
  BY <1>4, <1>5, <1>6

(***************************************************************************)
(* The rotation (smooth_weighted_order).                                   *)
(***************************************************************************)
\* A recursion over the first N numbers defines a function.
IsRecursion(f, X, base, next, N) ==
  f \in [0 .. N -> X] /\ f[0] = base /\ \A n \in 1 .. N : f[n] = next[f[n - 1]]

\* Such a function exists whatever it starts from and goes on with.
LEMMA RecursionExists ==
  ASSUME NEW X, NEW base \in X, NEW next \in [X -> X], NEW N \in Nat
  PROVE  \E f : IsRecursion(f, X, base, next, N)
<1> USE DEF IsRecursion
<1> DEFINE Good(n) == \E f \in [0 .. n -> X] : f[0] = base /\ \A m \in 1 .. n : f[m] = next[f[m - 1]]
           Bad == {n \in Nat : ~Good(n)}
<1> SUFFICES ASSUME Bad # {} PROVE FALSE
  OBVIOUS
<1>1. PICK n \in Bad : \A m \in Bad : n <= m
  <2>1. Bad \in SUBSET Nat
    OBVIOUS
  <2> HIDE DEF Bad
  <2>. QED
    BY <2>1, MinOfNaturals
<1>2. n # 0
  <2> DEFINE f == [m \in 0 .. 0 |-> base]
  <2>1. f \in [0 .. 0 -> X] /\ f[0] = base
    OBVIOUS
  <2>3. \A m \in 1 .. 0 : f[m] = next[f[m - 1]]
    OBVIOUS
  <2> HIDE DEF f
  <2>2. Good(0)
    BY <2>1, <2>3
  <2>. QED
    BY <1>1, <2>2
<1>3. n \in Nat /\ n - 1 \in Nat /\ n - 1 < n
  BY <1>2
<1>4. Good(n - 1)
  <2> HIDE DEF Good
  <2>. QED
    BY <1>1, <1>3
<1>5. PICK f \in [0 .. n - 1 -> X] : f[0] = base /\ \A m \in 1 .. n - 1 : f[m] = next[f[m - 1]]
  BY <1>4
<1> DEFINE g == [m \in 0 .. n |-> IF m = n THEN next[f[n - 1]] ELSE f[m]]
<1>6. g \in [0 .. n -> X]
  <2>1. n - 1 \in 0 .. n - 1
    BY <1>3
  <2>2. \A m \in 0 .. n : m # n => m \in 0 .. n - 1
    BY <1>3
  <2>. QED
    BY <2>1, <2>2
<1>7. g[0] = base
  BY <1>3, <1>5
<1>8. ASSUME NEW m \in 1 .. n
      PROVE  g[m] = next[g[m - 1]]
  <2>1. m - 1 \in 0 .. n /\ m \in 0 .. n /\ m - 1 # n
    BY <1>3
  <2>2. g[m - 1] = f[m - 1]
    BY <2>1
  <2>3. CASE m = n
    BY <2>1, <2>2, <2>3
  <2>4. CASE m # n
    <3>1. m \in 1 .. n - 1
      BY <1>3, <2>4
    <3>. QED
      BY <1>5, <2>1, <2>2, <2>4, <3>1
  <2>. QED
    BY <2>3, <2>4
<1> HIDE DEF g
<1>9. Good(n)
  BY <1>6, <1>7, <1>8
<1>. QED
  BY <1>1, <1>9

\* The weights of a rotation: as configured, but none is zero.
Weights(D) == [D -> Nat \ {0}]

\* One round.
Raised(w, current) == [i \in DOMAIN w |-> current[i] + w[i]]
TakenFrom(w, current) ==
  Max({i \in DOMAIN w : Raised(w, current)[i] = Max({Raised(w, current)[j] : j \in DOMAIN w})})
AfterRound(w, total, st) ==
  [current |-> Reduced(Raised(w, st.current), TakenFrom(w, st.current), total),
   order   |-> Append(st.order, TakenFrom(w, st.current))]

RoundState(D) == [current : [D -> Int], order : Seq(D)]
FirstRound(w) == [current |-> [i \in DOMAIN w |-> 0], order |-> <<>>]

\* A round takes an endpoint, and none has more than the one it takes.
LEMMA TakenHighest ==
  ASSUME NEW D \in SUBSET Int, IsFiniteSet(D), D # {}, NEW w \in Weights(D), NEW current \in [D -> Int]
  PROVE  /\ TakenFrom(w, current) \in D
         /\ \A i \in D : Raised(w, current)[i] <= Raised(w, current)[TakenFrom(w, current)]
<1> DEFINE raised == Raised(w, current)
           Values == {raised[j] : j \in D}
           highest == Max(Values)
           Top == {i \in D : raised[i] = highest}
<1>1. DOMAIN w = D /\ raised \in [D -> Int]
  BY DEF Raised, Weights
<1> HIDE DEF raised
<1>2. highest \in Values /\ \A v \in Values : highest >= v
  <2>1. PICK t \in D : \A i \in D : raised[i] <= raised[t]
    BY <1>1, HighestMember
  <2>2. \E v \in Values : \A u \in Values : v >= u
    <3>1. raised[t] \in Values /\ \A u \in Values : raised[t] >= u
      BY <1>1, <2>1
    <3>. QED
      BY <3>1
  <2> HIDE DEF Values
  <2>. QED
    BY <2>2 DEF Max
<1> HIDE DEF highest
<1>3. Max(Top) \in Top
  <2>1. Top # {} /\ Top \subseteq D /\ IsFiniteSet(Top)
    BY <1>2, FS_Subset
  <2> HIDE DEF Top
  <2> DEFINE rank == [i \in Top |-> i]
  <2>2. rank \in [Top -> Int]
    BY <2>1
  <2>3. PICK t \in Top : \A i \in Top : rank[i] <= rank[t]
    <3> HIDE DEF rank
    <3>. QED
      BY <2>1, <2>2, HighestMember
  <2>4. \A i \in Top : t >= i
    BY <2>1, <2>3
  <2>. QED
    BY <2>4 DEF Max
<1>4. TakenFrom(w, current) = Max(Top)
  BY <1>1 DEF TakenFrom, raised, highest
<1>5. \A i \in D : raised[i] <= highest
  BY <1>1, <1>2
<1>. QED
  BY <1>3, <1>4, <1>5 DEF raised

\* A round leaves numbers and one more pick.
LEMMA RoundTypes ==
  ASSUME NEW D \in SUBSET Int, IsFiniteSet(D), D # {}, NEW w \in Weights(D), NEW total \in Int,
         NEW st \in RoundState(D)
  PROVE  AfterRound(w, total, st) \in RoundState(D)
<1> DEFINE raised == Raised(w, st.current)
           taken == TakenFrom(w, st.current)
<1>1. st.current \in [D -> Int] /\ st.order \in Seq(D)
  BY DEF RoundState
<1>2. taken \in D
  BY <1>1, TakenHighest
<1>3. raised \in [D -> Int]
  BY <1>1 DEF Raised, Weights
<1> HIDE DEF raised, taken
<1>4. Reduced(raised, taken, total) \in [D -> Int]
  BY <1>2, <1>3 DEF Reduced
<1>5. Append(st.order, taken) \in Seq(D)
  BY <1>1, <1>2
<1>. QED
  BY <1>4, <1>5 DEF AfterRound, RoundState, raised, taken

\* The rounds of a rotation.
IsRounds(R, w, total) ==
  /\ R[0] = FirstRound(w)
  /\ \A n \in 1 .. total : R[n] = AfterRound(w, total, R[n - 1])

\* The rotation is what its rounds picked.
LEMMA RotationRounds ==
  ASSUME NEW D \in SUBSET Int, IsFiniteSet(D), D # {}, NEW w \in Weights(D), SumFunction(w) \in Nat
  PROVE  \E R : /\ IsRounds(R, w, SumFunction(w)) /\ \A n \in 0 .. SumFunction(w) : R[n] \in RoundState(D)
                /\ SmoothWeightedOrder(w) = R[SumFunction(w)].order
<1> DEFINE total == SumFunction(w)
           step(R) ==
             [n \in 0 .. total |->
                IF n = 0 THEN [current |-> [i \in DOMAIN w |-> 0], order |-> <<>>]
                ELSE LET before  == R[n - 1]
                         raised  == [i \in DOMAIN w |-> before.current[i] + w[i]]
                         highest == Max({raised[i] : i \in DOMAIN w})
                         taken   == Max({i \in DOMAIN w : raised[i] = highest})
                     IN [current |-> Reduced(raised, taken, total), order |-> Append(before.order, taken)]]
           R == CHOOSE f : f = step(f)
<1>1. SmoothWeightedOrder(w) = R[total].order
  BY DEF SmoothWeightedOrder
<1>2. ASSUME NEW f, NEW n \in 0 .. total
      PROVE  step(f)[n] = IF n = 0 THEN FirstRound(w) ELSE AfterRound(w, total, f[n - 1])
  BY DEF FirstRound, AfterRound, TakenFrom, Raised
<1>3. DOMAIN w = D /\ FirstRound(w) \in RoundState(D)
  BY DEF FirstRound, RoundState, Weights
<1> HIDE DEF total
<1>4. total \in Nat
  BY DEF total
<1>5. PICK f \in [0 .. total -> RoundState(D)] :
             f[0] = FirstRound(w) /\ \A n \in 1 .. total : f[n] = AfterRound(w, total, f[n - 1])
  <2> DEFINE next == [st \in RoundState(D) |-> AfterRound(w, total, st)]
  <2>1. next \in [RoundState(D) -> RoundState(D)]
    BY <1>4, RoundTypes
  <2>2. \A st \in RoundState(D) : next[st] = AfterRound(w, total, st)
    OBVIOUS
  <2> HIDE DEF next
  <2> DEFINE X == RoundState(D)
             base == FirstRound(w)
  <2>5. base \in X /\ next \in [X -> X]
    BY <1>3, <2>1
  <2> HIDE DEF X, base
  <2>6. \E f : IsRecursion(f, X, base, next, total)
    BY <1>4, <2>5, RecursionExists
  <2>3. PICK f \in [0 .. total -> RoundState(D)] :
               f[0] = FirstRound(w) /\ \A n \in 1 .. total : f[n] = next[f[n - 1]]
    BY <2>6 DEF IsRecursion, X, base
  <2>4. ASSUME NEW n \in 1 .. total PROVE f[n] = AfterRound(w, total, f[n - 1])
    <3>1. n - 1 \in 0 .. total
      BY <1>4
    <3>. QED
      BY <2>2, <2>3, <3>1
  <2>. QED
    BY <2>3, <2>4
<1>6. f = step(f)
  <2>1. DOMAIN step(f) = 0 .. total /\ DOMAIN f = 0 .. total
    OBVIOUS
  <2>2. ASSUME NEW n \in 0 .. total PROVE f[n] = step(f)[n]
    <3>1. n = 0 \/ n \in 1 .. total
      BY <1>4
    <3> HIDE DEF step
    <3>. QED
      BY <1>2, <1>5, <3>1
  <2>3. step(f) = [n \in 0 .. total |-> step(f)[n]]
    BY <2>1
  <2> HIDE DEF step
  <2>4. f = [n \in 0 .. total |-> f[n]]
    OBVIOUS
  <2>. QED
    BY <2>2, <2>3, <2>4
<1>7. R = step(R)
  <2> HIDE DEF step
  <2>. QED
    BY <1>6
<1> HIDE DEF R, step
<1>8. \A n \in 0 .. total : R[n] = IF n = 0 THEN FirstRound(w) ELSE AfterRound(w, total, R[n - 1])
  BY <1>2, <1>7
<1>9. IsRounds(R, w, total)
  BY <1>4, <1>8 DEF IsRounds
<1>10. \A n \in 0 .. total : R[n] = f[n]
  <2> DEFINE Bad == {n \in 0 .. total : R[n] # f[n]}
  <2> SUFFICES ASSUME Bad # {} PROVE FALSE
    OBVIOUS
  <2>1. PICK n \in Bad : \A m \in Bad : n <= m
    <3>1. Bad \in SUBSET Nat
      BY <1>4
    <3> HIDE DEF Bad
    <3>. QED
      BY <3>1, MinOfNaturals
  <2>2. n # 0 /\ n \in 1 .. total
    BY <1>4, <1>5, <2>1, <1>8
  <2>3. n - 1 \in 0 .. total /\ ~(n <= n - 1)
    BY <1>4, <2>2
  <2>4. R[n - 1] = f[n - 1]
    BY <2>1, <2>3
  <2>. QED
    BY <1>5, <1>9, <2>1, <2>2, <2>4 DEF IsRounds
<1>11. \A n \in 0 .. total : R[n] \in RoundState(D)
  BY <1>10
<1>. QED
  BY <1>1, <1>9, <1>11 DEF total

\* The first n picks of b are those of a.
SamePicks(a, b, n) == \A k \in 1 .. n : b[k] = a[k]
PicksOne(a, b, n, i) ==
  /\ Picks(a, n, i) \in Nat
  /\ Picks(b, n + 1, i) = IF b[n + 1] = i THEN Picks(a, n, i) + 1 ELSE Picks(a, n, i)

\* One more pick is counted for the endpoint it takes.
LEMMA PicksNext ==
  ASSUME NEW n \in Nat, NEW a, NEW b, SamePicks(a, b, n), NEW i
  PROVE  PicksOne(a, b, n, i)
<1> USE DEF SamePicks, PicksOne
<1> DEFINE A == {k \in 1 .. n : a[k] = i}
           B == {k \in 1 .. n + 1 : b[k] = i}
<1>1. IsFiniteSet(A) /\ Cardinality(A) \in Nat
  <2>1. IsFiniteSet(1 .. n) /\ A \subseteq 1 .. n
    BY FS_Interval
  <2> HIDE DEF A
  <2>. QED
    BY <2>1, FS_Subset, FS_CardinalityType
<1>2. n + 1 \notin A
  OBVIOUS
<1>3. \A k : k \in 1 .. n + 1 <=> (k \in 1 .. n \/ k = n + 1)
  OBVIOUS
<1>4. B = IF b[n + 1] = i THEN A \cup {n + 1} ELSE A
  <2>1. \A k \in B : k \in A \/ (k = n + 1 /\ b[n + 1] = i)
    BY <1>3
  <2>2. \A k \in A : k \in B
    BY <1>3
  <2>3. b[n + 1] = i => n + 1 \in B
    BY <1>3
  <2>4. n + 1 \in B => b[n + 1] = i
    OBVIOUS
  <2> HIDE DEF A, B
  <2>. QED
    BY <2>1, <2>2, <2>3, <2>4
<1> HIDE DEF A, B
<1>5. b[n + 1] = i => Cardinality(B) = Cardinality(A) + 1
  BY <1>1, <1>2, <1>4, FS_AddElement
<1>. QED
  BY <1>1, <1>4, <1>5 DEF Picks, A, B

\* After n rounds: what an endpoint holds is its share less what it was picked for, all
\* hold nothing together, and none is a whole pick ahead.
RoundInv(R, w, total, n) ==
  LET current == R[n].current
      picked  == R[n].order
  IN /\ R[n] \in RoundState(DOMAIN w) /\ Len(picked) = n
     /\ \E s : IsSum(s, DOMAIN w, current) /\ s[DOMAIN w] = 0
     /\ \A i \in DOMAIN w : current[i] > -total /\ current[i] = n * w[i] - total * Picks(picked, n, i)
     /\ \A k \in 1 .. n : picked[k] = R[k].order[k]

\* Before the first round nobody holds anything.
LEMMA FirstRoundInv ==
  ASSUME NEW D \in SUBSET Int, NEW w \in Weights(D), NEW total \in Nat \ {0},
         NEW R, R[0] = FirstRound(w)
  PROVE  RoundInv(R, w, total, 0)
<1>1. DOMAIN w = D
  BY DEF Weights
<1>2. /\ R[0].current = [i \in D |-> 0] /\ R[0].order = <<>> /\ R[0] \in RoundState(D)
  BY <1>1 DEF FirstRound, RoundState
<1>3. \E s : IsSum(s, D, R[0].current) /\ s[D] = 0
  <2> DEFINE s == [S \in SUBSET D |-> 0]
  <2>1. IsSum(s, D, R[0].current) /\ s[D] = 0
    BY <1>2, NothingSums
  <2>. QED
    BY <2>1
<1>4. ASSUME NEW i \in D
      PROVE  R[0].current[i] > -total /\ R[0].current[i] = 0 * w[i] - total * Picks(R[0].order, 0, i)
  <2>1. {k \in 1 .. 0 : R[0].order[k] = i} = {}
    OBVIOUS
  <2>2. Picks(R[0].order, 0, i) = 0
    BY <2>1, FS_EmptySet DEF Picks
  <2>3. w[i] \in Nat
    BY DEF Weights
  <2>4. R[0].current[i] = 0
    BY <1>2
  <2>. QED
    BY <2>2, <2>3, <2>4
<1>5. Len(R[0].order) = 0 /\ \A k \in 1 .. 0 : R[0].order[k] = R[k].order[k]
  BY <1>2
<1>. QED
  BY <1>1, <1>2, <1>3, <1>4, <1>5 DEF RoundInv

\* A share after one more round, with and without one more pick.
LEMMA Shares ==
  ASSUME NEW n \in Int, NEW x \in Int, NEW total \in Int, NEW p \in Int
  PROVE  /\ (n * x - total * p) + x = (n + 1) * x - total * p
         /\ (n * x - total * p) + x - total = (n + 1) * x - total * (p + 1)
OBVIOUS

\* Every endpoint gains its weight and the one that is taken pays the total.
LEMMA NextRoundInv ==
  ASSUME NEW D \in SUBSET Int, IsFiniteSet(D), D # {}, NEW w \in Weights(D), NEW total \in Nat \ {0},
         NEW t, IsSum(t, D, w), t[D] = total,
         NEW R, NEW n \in Nat, RoundInv(R, w, total, n), R[n + 1] = AfterRound(w, total, R[n])
  PROVE  RoundInv(R, w, total, n + 1)
<1> DEFINE current == R[n].current
           picked == R[n].order
           raised == Raised(w, current)
           taken == TakenFrom(w, current)
           left == R[n + 1].current
           picks == R[n + 1].order
<1>1. DOMAIN w = D /\ w \in [D -> Int] /\ \A i \in D : w[i] \in Nat \ {0}
  BY DEF Weights
<1>2. /\ R[n] \in RoundState(D) /\ current \in [D -> Int] /\ picked \in Seq(D) /\ Len(picked) = n
      /\ \A i \in D : current[i] > -total /\ current[i] = n * w[i] - total * Picks(picked, n, i)
      /\ \A k \in 1 .. n : picked[k] = R[k].order[k]
  BY <1>1 DEF RoundInv, RoundState
<1>3. PICK s : IsSum(s, D, current) /\ s[D] = 0
  BY <1>1 DEF RoundInv
<1>4. R[n + 1] \in RoundState(D)
  BY <1>2, RoundTypes
<1>5. left = [raised EXCEPT ![taken] = @ - total] /\ picks = Append(picked, taken)
  BY DEF AfterRound, Reduced
<1>6. raised = [i \in D |-> current[i] + w[i]]
  BY <1>1 DEF Raised
<1>7. taken \in D /\ \A i \in D : raised[i] <= raised[taken]
  BY <1>2, TakenHighest
<1>8. raised \in [D -> Int]
  BY <1>1, <1>2, <1>6
<1>9. /\ Len(picks) = n + 1 /\ picks[n + 1] = taken
      /\ \A k \in 1 .. n : picks[k] = picked[k]
  BY <1>2, <1>5, <1>7
<1> HIDE DEF current, picked, raised, taken, left, picks
<1> DEFINE u == [S \in SUBSET D |-> s[S] + t[S]]
           v == [S \in SUBSET D |-> IF taken \in S THEN u[S] - total ELSE u[S]]
<1>10. IsSum(u, D, raised) /\ u[D] = total
  <2>3. s \in [SUBSET D -> Int] /\ t \in [SUBSET D -> Int]
    BY <1>3 DEF IsSum
  <2>4. u \in [SUBSET D -> Int] /\ Adds(u, SUBSET D, s, t)
    BY <2>3 DEF Adds
  <2>5. Adds(raised, D, current, w)
    BY <1>6 DEF Adds
  <2>1. IsSum(u, D, raised)
    <3> HIDE DEF u
    <3>. QED
      BY <1>1, <1>2, <1>3, <2>4, <2>5, SumPlus
  <2>2. u[D] = s[D] + t[D]
    OBVIOUS
  <2> HIDE DEF u
  <2>. QED
    BY <1>3, <2>1, <2>2
<1>11. IsSum(v, D, left) /\ v[D] = 0
  <2> HIDE DEF u
  <2>3. u \in [SUBSET D -> Int]
    BY <1>10 DEF IsSum
  <2>4. v \in [SUBSET D -> Int] /\ \A S \in SUBSET D : v[S] = IF taken \in S THEN u[S] - total ELSE u[S]
    BY <2>3
  <2>5. Lowers(left, D, raised, taken, total)
    BY <1>5, <1>7, <1>8 DEF Lowers
  <2>6. total \in Int
    OBVIOUS
  <2>1. IsSum(v, D, left)
    <3> HIDE DEF v
    <3>. QED
      BY <1>7, <1>8, <1>10, <2>4, <2>5, <2>6, SumReduced
  <2>2. v[D] = u[D] - total
    BY <1>7
  <2> HIDE DEF v
  <2>. QED
    BY <1>10, <2>1, <2>2
<1> HIDE DEF u, v
<1>12. raised[taken] > 0
  <2>3. u[D] > 0
    BY <1>10
  <2>1. PICK i \in D : raised[i] > 0
    BY <1>8, <1>10, <2>3, SumSigns
  <2>2. raised[i] \in Int /\ raised[taken] \in Int /\ raised[i] <= raised[taken]
    BY <1>7, <1>8
  <2>. QED
    BY <2>1, <2>2
<1>13. ASSUME NEW i \in D
       PROVE  left[i] > -total /\ left[i] = (n + 1) * w[i] - total * Picks(picks, n + 1, i)
  <2> DEFINE x == w[i]
             c == current[i]
             p == Picks(picked, n, i)
  <2>1. x \in Nat /\ x > 0 /\ c \in Int /\ c > -total /\ c = n * x - total * p
    BY <1>1, <1>2
  <2>2. p \in Nat /\ Picks(picks, n + 1, i) = IF taken = i THEN p + 1 ELSE p
    <3>1. SamePicks(picked, picks, n)
      BY <1>9 DEF SamePicks
    <3>2. PicksOne(picked, picks, n, i)
      BY <3>1, PicksNext
    <3>. QED
      BY <1>9, <3>2 DEF PicksOne
  <2>3. raised[i] = c + x
    BY <1>6
  <2>4. left[i] = IF i = taken THEN raised[i] - total ELSE raised[i]
    BY <1>5, <1>7, <1>8
  <2> HIDE DEF x, c, p
  <2>5. c + x = (n + 1) * x - total * p /\ c + x - total = (n + 1) * x - total * (p + 1)
    BY <2>1, <2>2, Shares
  <2>6. left[i] = (n + 1) * x - total * Picks(picks, n + 1, i)
    <3>1. CASE i = taken
      <4>1. Picks(picks, n + 1, i) = p + 1
        BY <2>2, <3>1
      <4>2. left[i] = raised[i] - total
        BY <2>4, <3>1
      <4>3. left[i] = c + x - total
        BY <2>1, <2>3, <4>2
      <4>. QED
        BY <2>5, <4>1, <4>3
    <3>2. CASE i # taken
      <4>1. left[i] = c + x /\ Picks(picks, n + 1, i) = p
        BY <2>2, <2>3, <2>4, <3>2
      <4>. QED
        BY <2>5, <4>1
    <3>. QED
      BY <3>1, <3>2
  <2>7. left[i] > -total
    BY <1>12, <2>1, <2>3, <2>4
  <2>. QED
    BY <2>6, <2>7 DEF x
<1>14. \A k \in 1 .. n + 1 : picks[k] = R[k].order[k]
  <2>1. \A k \in 1 .. n + 1 : k \in 1 .. n \/ k = n + 1
    OBVIOUS
  <2>. QED
    BY <1>2, <1>9, <2>1 DEF picks
<1>15. \E z : IsSum(z, D, left) /\ z[D] = 0
  BY <1>11
<1>. QED
  BY <1>1, <1>4, <1>9, <1>13, <1>14, <1>15 DEF RoundInv, left, picks

\* Every round keeps the invariant.
LEMMA RoundsInv ==
  ASSUME NEW D \in SUBSET Int, IsFiniteSet(D), D # {}, NEW w \in Weights(D), NEW total \in Nat \ {0},
         NEW t, IsSum(t, D, w), t[D] = total, NEW R, IsRounds(R, w, total)
  PROVE  \A n \in 0 .. total : RoundInv(R, w, total, n)
<1> DEFINE Bad == {n \in 0 .. total : ~RoundInv(R, w, total, n)}
<1> SUFFICES ASSUME Bad # {} PROVE FALSE
  OBVIOUS
<1>1. PICK n \in Bad : \A m \in Bad : n <= m
  <2>1. Bad \in SUBSET Nat
    OBVIOUS
  <2> HIDE DEF Bad
  <2>. QED
    BY <2>1, MinOfNaturals
<1>2. n # 0
  BY <1>1, FirstRoundInv DEF IsRounds
<1>3. n \in 1 .. total /\ n - 1 \in 0 .. total /\ n - 1 \in Nat /\ (n - 1) + 1 = n /\ ~(n <= n - 1)
  BY <1>2
<1>4. RoundInv(R, w, total, n - 1)
  BY <1>1, <1>3
<1>5. R[n] = AfterRound(w, total, R[n - 1])
  BY <1>3 DEF IsRounds
<1> DEFINE m == n - 1
<1>6. m \in Nat /\ m + 1 = n
  BY <1>3
<1> HIDE DEF m
<1>7. RoundInv(R, w, total, m + 1)
  BY <1>4, <1>5, <1>6, NextRoundInv DEF m
<1>. QED
  BY <1>1, <1>6, <1>7

\* The rotation of a pool holds its endpoints, and all of them.
RotationComplete ==
  \A w \in Weightings :
    /\ Rotation(w) \in Seq(DOMAIN w) /\ Len(Rotation(w)) > 0
    /\ \A i \in DOMAIN w : \E k \in 1 .. Len(Rotation(w)) : Rotation(w)[k] = i

\* Two members of three leave at most one.
LEMMA ThirdOfThree ==
  ASSUME NEW D \in SUBSET (1 .. 3), NEW i \in D, NEW j \in D, i # j
  PROVE  D \ {i, j} = {} \/ \E k \in D : D \ {i, j} = {k}
<1>1. \A k, m \in D \ {i, j} : k = m
  <2> SUFFICES ASSUME NEW k \in D \ {i, j}, NEW m \in D \ {i, j} PROVE k = m
    OBVIOUS
  <2>1. i \in 1 .. 3 /\ j \in 1 .. 3 /\ k \in 1 .. 3 /\ m \in 1 .. 3
    OBVIOUS
  <2>2. (i = 1 \/ i = 2 \/ i = 3) /\ (j = 1 \/ j = 2 \/ j = 3) /\ (k = 1 \/ k = 2 \/ k = 3) /\ (m = 1 \/ m = 2 \/ m = 3)
    BY <2>1
  <2>. QED
    BY <2>2
<1> DEFINE S == D \ {i, j}
<1>2. S \subseteq D
  OBVIOUS
<1> HIDE DEF S
<1>3. S = {} \/ \E k \in D : S = {k}
  <2> SUFFICES ASSUME NEW k \in S PROVE \E x \in D : S = {x}
    OBVIOUS
  <2>1. k \in D /\ S = {k}
    BY <1>1, <1>2 DEF S
  <2>. QED
    BY <2>1
<1>. QED
  BY <1>3 DEF S

\* Among three endpoints none ever holds a whole cycle: were one that is not taken to, the one
\* taken would hold as much, and the third would be a whole pick ahead.
LEMMA NextNotBehind ==
  ASSUME NEW D \in SUBSET (1 .. 3), IsFiniteSet(D), D # {}, NEW w \in Weights(D), NEW total \in Nat \ {0},
         NEW t, IsSum(t, D, w), t[D] = total,
         NEW R, NEW n \in Nat, RoundInv(R, w, total, n), R[n + 1] = AfterRound(w, total, R[n]),
         \A i \in D : R[n].current[i] < total
  PROVE  \A i \in D : R[n + 1].current[i] < total
<1> DEFINE current == R[n].current
           raised == Raised(w, current)
           taken == TakenFrom(w, current)
           left == R[n + 1].current
<1>1. DOMAIN w = D /\ w \in [D -> Int] /\ (\A i \in D : w[i] \in Nat \ {0}) /\ D \in SUBSET Int
  BY DEF Weights
<1>2. current \in [D -> Int] /\ (\A i \in D : current[i] > -total)
  BY <1>1 DEF RoundInv, RoundState
<1>3. PICK s : IsSum(s, D, current) /\ s[D] = 0
  BY <1>1 DEF RoundInv
<1>4. left = [raised EXCEPT ![taken] = @ - total]
  BY DEF AfterRound, Reduced
<1>5. raised = [i \in D |-> current[i] + w[i]]
  BY <1>1 DEF Raised
<1>6. taken \in D /\ \A i \in D : raised[i] <= raised[taken]
  BY <1>1, <1>2, TakenHighest
<1>7. raised \in [D -> Int]
  BY <1>1, <1>2, <1>5
<1>8. \A i \in D : current[i] < total
  OBVIOUS
<1> HIDE DEF current, raised, taken, left
<1> DEFINE u == [S \in SUBSET D |-> s[S] + t[S]]
<1>9. IsSum(u, D, raised) /\ u[D] = total
  <2>1. s \in [SUBSET D -> Int] /\ t \in [SUBSET D -> Int]
    BY <1>3 DEF IsSum
  <2>2. u \in [SUBSET D -> Int] /\ Adds(u, SUBSET D, s, t)
    BY <2>1 DEF Adds
  <2>3. Adds(raised, D, current, w)
    BY <1>5 DEF Adds
  <2>4. IsSum(u, D, raised)
    <3> HIDE DEF u
    <3>. QED
      BY <1>1, <1>2, <1>3, <2>2, <2>3, SumPlus
  <2>5. u[D] = s[D] + t[D]
    OBVIOUS
  <2> HIDE DEF u
  <2>. QED
    BY <1>3, <2>4, <2>5
<1> HIDE DEF u
<1>10. ASSUME NEW i \in D
       PROVE  left[i] < total
  <2>1. /\ w[i] \in Nat /\ current[i] \in Int /\ current[i] < total /\ raised[i] = current[i] + w[i]
        /\ raised[i] \in Int /\ raised[taken] \in Int /\ raised[i] <= raised[taken]
        /\ left[i] = IF i = taken THEN raised[i] - total ELSE raised[i]
    BY <1>1, <1>2, <1>4, <1>5, <1>6, <1>7, <1>8
  <2>2. CASE i = taken
    <3>1. w[i] <= total
      <4>1. \A j \in D : w[j] >= 0
        BY <1>1
      <4>2. D \ {i} \in SUBSET D
        OBVIOUS
      <4>3. t[D \ {i}] >= 0
        BY <1>1, <4>1, <4>2, SumSigns
      <4>4. t[D] = w[i] + t[D \ {i}] /\ t[D \ {i}] \in Int
        BY DEF IsSum
      <4>. QED
        BY <2>1, <4>3, <4>4
    <3>. QED
      BY <2>1, <2>2, <3>1
  <2>3. CASE i # taken
    <3> DEFINE rest == D \ {i, taken}
    <3>1. u \in [SUBSET D -> Int] /\ rest \in SUBSET D /\ u[rest] \in Int
      BY <1>9 DEF IsSum
    <3>2. u[D] = raised[i] + u[D \ {i}] /\ u[D \ {i}] = raised[taken] + u[rest]
      <4>1. taken \in D \ {i} /\ D \ {i} \in SUBSET D /\ (D \ {i}) \ {taken} = rest
        BY <1>6, <2>3
      <4>. QED
        BY <1>9, <4>1 DEF IsSum
    <3>3. u[rest] > -total
      <4>1. rest = {} \/ \E k \in D : rest = {k}
        BY <1>6, <2>3, ThirdOfThree
      <4>2. CASE rest = {}
        <5>1. u[{}] = 0
          BY <1>9 DEF IsSum
        <5>2. u[rest] = 0
          BY <4>2, <5>1
        <5> HIDE DEF rest
        <5>. QED
          BY <5>2
      <4>3. ASSUME NEW k \in D, rest = {k}
            PROVE  u[rest] > -total
        <5>1. u[{k}] = raised[k] + u[{}] /\ u[{}] = 0
          <6>1. {k} \in SUBSET D /\ k \in {k} /\ {k} \ {k} = {}
            OBVIOUS
          <6>. QED
            BY <1>9, <6>1 DEF IsSum
        <5>2. raised[k] = current[k] + w[k] /\ current[k] > -total /\ w[k] \in Nat /\ current[k] \in Int
          BY <1>1, <1>2, <1>5
        <5>3. u[rest] = raised[k] + 0
          BY <4>3, <5>1
        <5> HIDE DEF rest
        <5>. QED
          BY <5>2, <5>3
      <4> HIDE DEF rest
      <4>. QED
        BY <4>1, <4>2, <4>3
    <3> HIDE DEF rest
    <3>. QED
      BY <1>9, <2>1, <2>3, <3>1, <3>2, <3>3
  <2>. QED
    BY <2>2, <2>3
<1>. QED
  BY <1>10 DEF left

\* So in no round of three endpoints.
LEMMA RoundsNotBehind ==
  ASSUME NEW D \in SUBSET (1 .. 3), IsFiniteSet(D), D # {}, NEW w \in Weights(D), NEW total \in Nat \ {0},
         NEW t, IsSum(t, D, w), t[D] = total, NEW R, IsRounds(R, w, total)
  PROVE  \A n \in 0 .. total : \A i \in D : R[n].current[i] < total
<1> DEFINE Held(n) == \A i \in D : R[n].current[i] < total
           Bad == {n \in 0 .. total : ~Held(n)}
<1> SUFFICES ASSUME Bad # {} PROVE FALSE
  OBVIOUS
<1>0. \A n \in 0 .. total : RoundInv(R, w, total, n)
  <2>1. D \in SUBSET Int
    OBVIOUS
  <2>. QED
    BY <2>1, RoundsInv
<1>1. PICK n \in Bad : \A m \in Bad : n <= m
  <2>1. Bad \in SUBSET Nat
    OBVIOUS
  <2> HIDE DEF Bad
  <2>. QED
    BY <2>1, MinOfNaturals
<1>2. n # 0
  <2>3. R[0] = FirstRound(w) /\ DOMAIN w = D
    BY DEF IsRounds, Weights
  <2>1. \A i \in D : R[0].current[i] = 0
    BY <2>3 DEF FirstRound
  <2>4. 0 < total
    OBVIOUS
  <2>2. Held(0)
    BY <2>1, <2>4
  <2>. QED
    BY <1>1, <2>2
<1>3. n \in 1 .. total /\ n - 1 \in 0 .. total /\ n - 1 \in Nat /\ (n - 1) + 1 = n /\ ~(n <= n - 1)
  BY <1>2
<1>4. Held(n - 1) /\ RoundInv(R, w, total, n - 1)
  <2> HIDE DEF Held
  <2>. QED
    BY <1>0, <1>1, <1>3
<1>5. R[n] = AfterRound(w, total, R[n - 1])
  BY <1>3 DEF IsRounds
<1> DEFINE m == n - 1
<1>6. m \in Nat /\ m + 1 = n /\ Held(m) /\ RoundInv(R, w, total, m) /\ R[m + 1] = AfterRound(w, total, R[m])
  <2> HIDE DEF Held
  <2>. QED
    BY <1>3, <1>4, <1>5
<1> HIDE DEF m
<1>7. Held(m + 1)
  BY <1>6, NextNotBehind
<1>. QED
  BY <1>1, <1>6, <1>7

\* A multiple of total that is greater than -total is not negative.
LEMMA MultipleSign ==
  ASSUME NEW total \in Nat \ {0}, NEW x \in Int, NEW p \in Int, total * x - total * p > -total
  PROVE  total * x - total * p >= 0 /\ (total * x - total * p = 0 => p = x)
<1> DEFINE d == x - p
<1>1. d \in Int /\ total * d = total * x - total * p
  OBVIOUS
<1>2. d <= -1 => total * d <= -total
  OBVIOUS
<1>3. d >= 1 => total * d >= total
  OBVIOUS
<1>4. d >= 0
  BY <1>1, <1>2
<1>5. d = 0 \/ d >= 1
  BY <1>1, <1>4
<1>6. d = 0 => x = p
  BY <1>1
<1> HIDE DEF d
<1>. QED
  BY <1>1, <1>3, <1>4, <1>5, <1>6

\* The weights a pool is given: those configured, at least one each.
LEMMA GivenWeights ==
  ASSUME NEW given \in Weightings \cup Rotations
  PROVE  LET D == DOMAIN given
             w == [i \in D |-> Weight(given[i])]
         IN D \in SUBSET Int /\ IsFiniteSet(D) /\ D # {} /\ w \in Weights(D)
<1>1. given \in Seq(Nat) /\ given # <<>>
  BY PoolAssumption
<1>2. DOMAIN given = 1 .. Len(given) /\ Len(given) \in Nat /\ Len(given) # 0
  BY <1>1
<1>3. \A i \in DOMAIN given : Weight(given[i]) \in Nat \ {0}
  BY <1>1, <1>2 DEF Weight
<1>4. DOMAIN given \in SUBSET Int /\ DOMAIN given # {}
  BY <1>2
<1>5. IsFiniteSet(DOMAIN given)
  <2>1. 1 \in Int /\ Len(given) \in Int
    BY <1>2
  <2>. QED
    BY <1>2, <2>1, FS_Interval
<1>6. [i \in DOMAIN given |-> Weight(given[i])] \in Weights(DOMAIN given)
  BY <1>3 DEF Weights
<1>. QED
  BY <1>4, <1>5, <1>6

\* The weights w of a pool sum up to total, and R are the rounds that give its rotation:
\* what an endpoint holds after any of them is its share less the picks it has had.
IsRun(w, total, R, rotation) ==
  /\ \E t : IsSum(t, DOMAIN w, w) /\ t[DOMAIN w] = total
  /\ IsRounds(R, w, total) /\ RoundInv(R, w, total, total)
  /\ rotation \in Seq(DOMAIN w) /\ Len(rotation) = total
  /\ \A n \in 0 .. total : \A i \in DOMAIN w :
       /\ Picks(rotation, n, i) \in Nat /\ R[n].current[i] \in Int /\ R[n].current[i] > -total
       /\ R[n].current[i] = n * w[i] - total * Picks(rotation, n, i)

\* The rotation of a pool is such a run.
LEMMA RotationRun ==
  ASSUME NEW given \in Weightings \cup Rotations, NEW w, w = [i \in DOMAIN given |-> Weight(given[i])]
  PROVE  \E total \in Nat \ {0} : \E R : IsRun(w, total, R, Rotation(given))
<1> DEFINE D == DOMAIN given
           total == SumFunction(w)
<1>1. D \in SUBSET Int /\ IsFiniteSet(D) /\ D # {} /\ w \in Weights(D)
  BY GivenWeights
<1>2. Rotation(given) = SmoothWeightedOrder(w)
  BY DEF Rotation
<1> HIDE DEF D, total
<1>4. w \in [D -> Int] /\ DOMAIN w = D /\ \A i \in D : w[i] \in Nat /\ w[i] >= 0 /\ w[i] # 0
  BY <1>1 DEF Weights
<1>5. PICK t : IsSum(t, D, w)
  BY <1>1, <1>4, SumExists
<1>6. total = t[D]
  BY <1>1, <1>4, <1>5, SumIs DEF total
<1>7. total \in Nat \ {0}
  <2>1. t[D] \in Int
    BY <1>5 DEF IsSum
  <2>2. t[D] >= 0
    <3>1. D \in SUBSET D
      OBVIOUS
    <3>. QED
      BY <1>1, <1>4, <1>5, <3>1, SumSigns
  <2>3. t[D] # 0
    <3> SUFFICES ASSUME t[D] = 0 PROVE FALSE
      OBVIOUS
    <3>1. w \in [D -> Int] /\ \A i \in D : w[i] >= 0
      BY <1>4
    <3>2. \A i \in D : w[i] = 0
      BY <1>1, <1>5, <3>1, SumSigns
    <3>. QED
      BY <1>1, <1>4, <3>2
  <2>. QED
    BY <1>6, <2>1, <2>2, <2>3
<1>8. PICK R : /\ IsRounds(R, w, total) /\ \A n \in 0 .. total : R[n] \in RoundState(D)
               /\ SmoothWeightedOrder(w) = R[total].order
  BY <1>1, <1>7, RotationRounds DEF total
<1> DEFINE rotation == R[total].order
<1>9. \A n \in 0 .. total : RoundInv(R, w, total, n)
  BY <1>1, <1>5, <1>6, <1>7, <1>8, RoundsInv
<1>10. Rotation(given) = rotation
  BY <1>2, <1>8
<1>11. total \in 0 .. total /\ RoundInv(R, w, total, total)
  BY <1>7, <1>9
<1>12. /\ Len(rotation) = total /\ rotation \in Seq(D)
       /\ \A k \in 1 .. total : rotation[k] = R[k].order[k]
  BY <1>8, <1>11 DEF RoundInv, RoundState
<1> HIDE DEF rotation
<1>13. ASSUME NEW n \in 0 .. total, NEW i \in D
       PROVE  /\ Picks(rotation, n, i) \in Nat
              /\ R[n].current[i] = n * w[i] - total * Picks(rotation, n, i) /\ R[n].current[i] > -total
              /\ R[n].current[i] \in Int
  <2>1. /\ R[n].current[i] = n * w[i] - total * Picks(R[n].order, n, i) /\ R[n].current[i] > -total
        /\ \A k \in 1 .. n : R[n].order[k] = R[k].order[k]
        /\ R[n].current \in [D -> Int]
    BY <1>4, <1>9 DEF RoundInv, RoundState
  <2>2. \A k \in 1 .. n : R[n].order[k] = rotation[k]
    <3>1. \A k \in 1 .. n : k \in 1 .. total
      BY <1>7
    <3>. QED
      BY <1>12, <2>1, <3>1
  <2>3. {k \in 1 .. n : R[n].order[k] = i} = {k \in 1 .. n : rotation[k] = i}
    BY <2>2
  <2>4. Picks(R[n].order, n, i) = Picks(rotation, n, i)
    BY <2>3 DEF Picks
  <2>5. Picks(rotation, n, i) \in Nat
    <3>1. SamePicks(rotation, rotation, n) /\ n \in Nat
      BY DEF SamePicks
    <3>. QED
      BY <3>1, PicksNext DEF PicksOne
  <2>. QED
    BY <2>1, <2>4, <2>5
<1>14. IsRun(w, total, R, rotation)
  BY <1>4, <1>5, <1>6, <1>8, <1>11, <1>12, <1>13 DEF IsRun
<1>. QED
  BY <1>7, <1>10, <1>14

\* The rotation of a pool holds its endpoints only, a whole cycle picks each as often as it
\* weighs, and on the way none is ever a whole pick ahead of its share: so none is left out,
\* whatever the weights (smooth_weighted_order).
THEOREM RotationFair ==
  \A given \in Weightings \cup Rotations :
    /\ Rotation(given) \in Seq(DOMAIN given) /\ Len(Rotation(given)) > 0
    /\ NeverAhead(given, Rotation(given)) /\ WholeCycle(given, Rotation(given))
<1> SUFFICES ASSUME NEW given \in Weightings \cup Rotations
             PROVE  /\ Rotation(given) \in Seq(DOMAIN given) /\ Len(Rotation(given)) > 0
                    /\ NeverAhead(given, Rotation(given)) /\ WholeCycle(given, Rotation(given))
  OBVIOUS
<1> DEFINE D == DOMAIN given
           w == [i \in D |-> Weight(given[i])]
           rotation == Rotation(given)
<1>1. D \in SUBSET Int /\ IsFiniteSet(D) /\ D # {} /\ w \in Weights(D)
  BY GivenWeights
<1>2. PICK total \in Nat \ {0} : \E R : IsRun(w, total, R, rotation)
  BY RotationRun
<1>3. PICK R : IsRun(w, total, R, rotation)
  BY <1>2
<1>4. \A i \in D : Weight(given[i]) = w[i]
  OBVIOUS
<1> HIDE DEF D, w, rotation
<1>5. DOMAIN w = D /\ w \in [D -> Int] /\ \A i \in D : w[i] \in Nat
  BY <1>1 DEF Weights
<1>6. /\ rotation \in Seq(D) /\ Len(rotation) = total /\ total \in 0 .. total
      /\ RoundInv(R, w, total, total)
  BY <1>3, <1>5 DEF IsRun
<1>7. \A n \in 0 .. total : \A i \in D :
        /\ Picks(rotation, n, i) \in Nat /\ R[n].current[i] \in Int /\ R[n].current[i] > -total
        /\ R[n].current[i] = n * w[i] - total * Picks(rotation, n, i)
  BY <1>3, <1>5 DEF IsRun
<1>8. ASSUME NEW i \in D, NEW n \in 0 .. total
      PROVE  total * Picks(rotation, n, i) - n * w[i] < total
  <2> DEFINE p == Picks(rotation, n, i)
             x == w[i]
             c == R[n].current[i]
  <2>1. p \in Nat /\ x \in Nat /\ n \in Nat /\ c = n * x - total * p /\ c > -total
    BY <1>5, <1>7
  <2> HIDE DEF p, x, c
  <2>2. total * p - n * x < total
    BY <2>1
  <2>. QED
    BY <2>2 DEF p, x
<1>9. \A i \in D : R[total].current[i] >= 0 /\ (R[total].current[i] = 0 => Picks(rotation, total, i) = w[i])
  <2> SUFFICES ASSUME NEW i \in D
               PROVE  R[total].current[i] >= 0 /\ (R[total].current[i] = 0 => Picks(rotation, total, i) = w[i])
    OBVIOUS
  <2>1. /\ Picks(rotation, total, i) \in Nat /\ w[i] \in Nat
        /\ R[total].current[i] = total * w[i] - total * Picks(rotation, total, i) /\ R[total].current[i] > -total
    BY <1>5, <1>6, <1>7, Zenon
  <2>2. Picks(rotation, total, i) \in Int /\ w[i] \in Int
    BY <2>1
  <2>. QED
    BY <2>1, <2>2, MultipleSign
<1>10. \A i \in D : R[total].current[i] = 0
  <2>1. PICK s : IsSum(s, D, R[total].current) /\ s[D] = 0
    BY <1>5, <1>6 DEF RoundInv
  <2>2. R[total].current \in [D -> Int]
    BY <1>5, <1>6 DEF RoundInv, RoundState
  <2>. QED
    BY <1>1, <1>9, <2>1, <2>2, SumSigns
<1>11. NeverAhead(given, rotation)
  BY <1>4, <1>6, <1>8 DEF NeverAhead, D
<1>12. WholeCycle(given, rotation)
  BY <1>4, <1>6, <1>9, <1>10 DEF WholeCycle, D
<1>. QED
  BY <1>6, <1>11, <1>12 DEF D, rotation

\* With at most three endpoints none is ever a whole pick behind its share either.  It is
\* not so for five: of those that weigh 1, 1, 8, 8 and 8 the third falls behind.
THEOREM RotationNeverBehind ==
  \A given \in Weightings \cup Rotations :
    Len(given) <= 3 => NeverBehind(given, Rotation(given))
<1> SUFFICES ASSUME NEW given \in Weightings \cup Rotations, Len(given) <= 3
             PROVE  NeverBehind(given, Rotation(given))
  OBVIOUS
<1> DEFINE D == DOMAIN given
           w == [i \in D |-> Weight(given[i])]
           rotation == Rotation(given)
<1>1. D \in SUBSET Int /\ IsFiniteSet(D) /\ D # {} /\ w \in Weights(D)
  BY GivenWeights
<1>2. D \in SUBSET (1 .. 3)
  <2>1. given \in Seq(Nat)
    BY PoolAssumption
  <2>2. Len(given) \in Nat /\ D = 1 .. Len(given)
    BY <2>1
  <2>. QED
    BY <2>2
<1>3. PICK total \in Nat \ {0} : \E R : IsRun(w, total, R, rotation)
  BY RotationRun
<1>4. PICK R : IsRun(w, total, R, rotation)
  BY <1>3
<1>5. \A i \in D : Weight(given[i]) = w[i]
  OBVIOUS
<1> HIDE DEF D, w, rotation
<1>6. DOMAIN w = D /\ \A i \in D : w[i] \in Nat
  BY <1>1 DEF Weights
<1>7. Len(rotation) = total
  BY <1>4 DEF IsRun
<1>8. \A n \in 0 .. total : \A i \in D : R[n].current[i] < total
  <2>1. PICK t : IsSum(t, D, w) /\ t[D] = total
    BY <1>4, <1>6 DEF IsRun
  <2>2. IsRounds(R, w, total)
    BY <1>4 DEF IsRun
  <2>. QED
    BY <1>1, <1>2, <2>1, <2>2, RoundsNotBehind
<1>9. \A n \in 0 .. total : \A i \in D : n * w[i] - total * Picks(rotation, n, i) < total
  BY <1>4, <1>6, <1>8, Zenon DEF IsRun
<1>10. NeverBehind(given, rotation)
  BY <1>5, <1>7, <1>9 DEF NeverBehind, D
<1>. QED
  BY <1>10 DEF rotation

\* So it holds every endpoint.
LEMMA RotationHoldsAll == RotationComplete
<1> SUFFICES ASSUME NEW given \in Weightings
             PROVE  /\ Rotation(given) \in Seq(DOMAIN given) /\ Len(Rotation(given)) > 0
                    /\ \A i \in DOMAIN given : \E k \in 1 .. Len(Rotation(given)) : Rotation(given)[k] = i
  BY DEF RotationComplete
<1> DEFINE r == Rotation(given)
<1>1. r \in Seq(DOMAIN given) /\ Len(r) > 0 /\ WholeCycle(given, r)
  BY RotationFair
<1> HIDE DEF r
<1>2. ASSUME NEW i \in DOMAIN given, \A k \in 1 .. Len(r) : r[k] # i
      PROVE  FALSE
  <2>1. {k \in 1 .. Len(r) : r[k] = i} = {}
    BY <1>2
  <2>2. Picks(r, Len(r), i) = 0
    BY <2>1, FS_EmptySet DEF Picks
  <2>3. Weight(given[i]) # 0
    <3>1. given[i] \in Nat
      BY PoolAssumption
    <3>. QED
      BY <3>1 DEF Weight
  <2>. QED
    BY <1>1, <2>2, <2>3 DEF WholeCycle
<1>3. \A i \in DOMAIN given : \E k \in 1 .. Len(r) : r[k] = i
  BY <1>2
<1>. QED
  BY <1>1, <1>3 DEF r

(***************************************************************************)
(* The pool.                                                               *)
(***************************************************************************)
Call ==
  [state : {"idle", "picking", "trying", "exhausted"}, endpoint : Nat, age : Nat,
   tried : SUBSET Endpoints, attempts : Nat, alive : SUBSET Endpoints]

CallInv(c) ==
  /\ c.attempts = Cardinality(c.tried)
  /\ c.alive \cap (c.tried \cup down) = {}
  /\ c.state = "picking" => c.tried # Endpoints
  /\ c.state = "trying" => c.endpoint \in Endpoints \ c.tried
  /\ c.state = "exhausted" => c.tried = Endpoints

PoolTypes ==
  /\ weights \in Weightings /\ order = Rotation(weights)
  /\ cursor \in Slots
  /\ health \in [Endpoints -> [failures : Nat, cooldown : Nat]]
  /\ calls \in [Thread -> Call]
  /\ down \subseteq Endpoints

PoolInv == PoolTypes /\ \A t \in Thread : CallInv(calls[t])

\* How a slot past the end of the rotation comes back to its start.
LEMMA Modulo ==
  ASSUME NEW a \in Int, NEW n \in Int, 0 <= a, a < n
  PROVE  a % n = a /\ (a + n) % n = a
OBVIOUS

\* A remainder is less than its divisor.
LEMMA ModuloRange ==
  ASSUME NEW a \in Int, NEW n \in Int, 0 < n
  PROVE  a % n \in 0 .. n - 1
OBVIOUS

\* What the types say of the rotation.
LEMMA RotationFacts ==
  ASSUME RotationComplete, PoolTypes
  PROVE  /\ order \in Seq(Endpoints) /\ Len(order) \in Nat \ {0}
         /\ Slots = 0 .. Len(order) - 1 /\ cursor \in Slots
         /\ \A i \in Endpoints : \E k \in 1 .. Len(order) : order[k] = i
<1>1. weights \in Weightings /\ order = Rotation(weights) /\ cursor \in Slots
  BY DEF PoolTypes
<1>2. /\ order \in Seq(Endpoints) /\ Len(order) > 0
      /\ \A i \in Endpoints : \E k \in 1 .. Len(order) : order[k] = i
  BY <1>1 DEF RotationComplete, Endpoints
<1>3. Len(order) \in Nat
  BY <1>2, LenProperties
<1>. QED
  BY <1>1, <1>2, <1>3 DEF Slots

\* From the cursor on every endpoint comes by.
LEMMA SlotOfEndpoint ==
  ASSUME RotationComplete, PoolTypes, NEW i \in Endpoints
  PROVE  \E s \in Slots : At(s) = i
<1>1. PICK k \in 1 .. Len(order) : order[k] = i
  BY RotationFacts
<1>2. /\ Len(order) \in Nat /\ cursor \in Nat /\ cursor < Len(order)
      /\ Slots = 0 .. Len(order) - 1
  BY RotationFacts
<1>3. CASE cursor <= k - 1
  <2>1. k - 1 - cursor \in Slots
    BY <1>2, <1>3
  <2>2. (k - 1) % Len(order) = k - 1
    BY <1>2, Modulo
  <2>3. cursor + (k - 1 - cursor) = k - 1 /\ (k - 1) + 1 = k
    BY <1>2
  <2>4. At(k - 1 - cursor) = i
    BY <1>1, <2>2, <2>3 DEF At
  <2>. QED
    BY <2>1, <2>4
<1>4. CASE cursor > k - 1
  <2>1. k - 1 - cursor + Len(order) \in Slots
    BY <1>2, <1>4
  <2>2. ((k - 1) + Len(order)) % Len(order) = k - 1
    BY <1>2, Modulo
  <2>3. cursor + (k - 1 - cursor + Len(order)) = (k - 1) + Len(order) /\ (k - 1) + 1 = k
    BY <1>2
  <2>4. At(k - 1 - cursor + Len(order)) = i
    BY <1>1, <2>2, <2>3 DEF At
  <2>. QED
    BY <2>1, <2>4
<1>. QED
  BY <1>2, <1>3, <1>4

\* Every slot of the rotation is an endpoint.
LEMMA SlotHoldsEndpoint ==
  ASSUME RotationComplete, PoolTypes, NEW s \in Slots
  PROVE  At(s) \in Endpoints
<1>1. order \in Seq(Endpoints) /\ Len(order) \in Nat \ {0} /\ cursor + s \in Int
  BY RotationFacts
<1>2. (cursor + s) % Len(order) \in 0 .. Len(order) - 1
  BY <1>1, ModuloRange
<1>3. ((cursor + s) % Len(order)) + 1 \in 1 .. Len(order)
  BY <1>1, <1>2
<1>. QED
  BY <1>1, <1>3, ElementOfSeq DEF At

\* pick_excluding takes an endpoint that has not been tried while there is one.
LEMMA PickUntried ==
  ASSUME RotationComplete, PoolTypes, NEW tried \in SUBSET Endpoints, tried # Endpoints
  PROVE  PickExcluding(tried) \in Endpoints \ tried
<1> DEFINE untried == {s \in Slots : At(s) \notin tried}
           open    == {s \in untried : health[At(s)].cooldown = 0}
           soonest == {s \in untried : \A t \in untried : health[At(s)].cooldown <= health[At(t)].cooldown}
<1>1. untried # {}
  BY SlotOfEndpoint
<1>2. soonest # {}
  <2> DEFINE f == [s \in untried |-> health[At(s)].cooldown]
  <2>1. \A s \in untried : f[s] \in Nat
    BY SlotHoldsEndpoint DEF PoolTypes
  <2> HIDE DEF untried
  <2>2. \E s \in untried : \A t \in untried : f[s] <= f[t]
    <3> HIDE DEF f
    <3>. QED
      BY <1>1, <2>1, SoonestExists
  <2>. QED
    BY <2>2
<1>3. open \in SUBSET Nat /\ soonest \in SUBSET Nat
  BY RotationFacts
<1>4. open \subseteq untried /\ soonest \subseteq untried
  OBVIOUS
<1>5. PickExcluding(tried) =
        IF open # {} THEN At(Min(open)) ELSE IF untried # {} THEN At(Min(soonest)) ELSE At(0)
  BY DEF PickExcluding
<1>6. \A s \in untried : At(s) \in Endpoints \ tried
  BY SlotHoldsEndpoint
<1> HIDE DEF untried, open, soonest
<1>7. open # {} => Min(open) \in untried
  BY <1>3, <1>4, MinOfNaturals
<1>8. Min(soonest) \in untried
  BY <1>2, <1>3, <1>4, MinOfNaturals
<1>. QED
  BY <1>1, <1>5, <1>6, <1>7, <1>8

\* There are finitely many endpoints, as many as weights.
LEMMA EndpointCount ==
  ASSUME PoolTypes
  PROVE  /\ IsFiniteSet(Endpoints) /\ Cardinality(Endpoints) = Len(weights)
         /\ Len(weights) \in Nat /\ Endpoints # {}
<1>1. weights \in Seq(Nat) /\ weights # <<>>
  BY PoolAssumption DEF PoolTypes
<1>2. Len(weights) \in Nat /\ Len(weights) # 0 /\ Endpoints = 1 .. Len(weights)
  BY <1>1, LenProperties, EmptySeq DEF Endpoints
<1>3. IsFiniteSet(1 .. Len(weights)) /\ Cardinality(1 .. Len(weights)) = Len(weights)
  BY <1>2, FS_Interval
<1>. QED
  BY <1>2, <1>3

\* A failure leaves a health that is one.
LEMMA PenalizedTypes ==
  ASSUME NEW h \in [failures : Nat, cooldown : Nat], NEW age \in Nat
  PROVE  Penalized(h, age) \in [failures : Nat, cooldown : Nat]
<1> DEFINE failures == IF h.failures <= MaxShift THEN h.failures + 1 ELSE h.failures
           steps    == IF failures = 0 THEN 0 ELSE failures - 1
           shift    == Min({steps, MaxShift})
<1>1. failures \in Nat /\ steps \in Nat /\ MaxShift \in Nat /\ Base \in Nat /\ Cap \in Nat
  BY PoolAssumption
<1>2. shift \in 0 .. MaxShift
  <2> HIDE DEF steps
  <2>1. {steps, MaxShift} \in SUBSET Nat /\ {steps, MaxShift} # {}
    BY <1>1
  <2>2. shift \in {steps, MaxShift} /\ shift <= MaxShift
    BY <2>1, MinOfNaturals
  <2>. QED
    BY <1>1, <2>2
<1>3. Base * 2 ^ shift \in Nat
  <2> HIDE DEF shift
  <2>1. 2 ^ shift \in Nat
    BY <1>2, PowerAssumption
  <2> DEFINE power == 2 ^ shift
  <2> HIDE DEF power
  <2>2. power \in Nat
    BY <2>1 DEF power
  <2>3. Base * power \in Nat
    BY <1>1, <2>2
  <2>. QED
    BY <2>3 DEF power
<1>4. Backoff(failures) = Min({Base * 2 ^ shift, Cap})
  BY DEF Backoff
<1> HIDE DEF shift
<1>5. Backoff(failures) \in Nat
  BY <1>1, <1>3, <1>4, MinOfNaturals
<1>6. Penalized(h, age) =
        [failures |-> failures, cooldown |-> IF Backoff(failures) - age > 0 THEN Backoff(failures) - age ELSE 0]
  BY DEF Penalized
<1> HIDE DEF failures
<1>. QED
  BY <1>1, <1>5, <1>6

\* A request begins with every endpoint before it.
LEMMA BeginStep ==
  ASSUME PoolInv, NEW t \in Thread, Begin(t)
  PROVE  PoolInv'
<1>1. PoolTypes'
  BY DEF PoolInv, PoolTypes, Begin, poolVars, Slots, Endpoints, Idle, Call
<1>2. ASSUME NEW u \in Thread PROVE CallInv(calls[u])'
  <2>1. Cardinality({}) = 0 /\ Endpoints # {}
    BY EndpointCount, FS_EmptySet DEF PoolInv
  <2>. QED
    BY <2>1 DEF PoolInv, PoolTypes, CallInv, Begin, poolVars, Endpoints, Idle
<1>. QED
  BY <1>1, <1>2 DEF PoolInv

\* A request that has an untried endpoint picks one.
LEMMA PickStep ==
  ASSUME RotationComplete, PoolInv, NEW t \in Thread, Pick(t)
  PROVE  PoolInv'
<1>1. PickExcluding(calls[t].tried) \in Endpoints \ calls[t].tried
  BY PickUntried DEF PoolInv, PoolTypes, Call, CallInv, Pick
<1>2. Endpoints \subseteq Nat
  BY PoolAssumption DEF PoolInv, PoolTypes, Endpoints
<1>3. cursor' \in Slots'
  <2>1. Len(order) \in Nat \ {0} /\ cursor \in Int /\ Slots = 0 .. Len(order) - 1
    BY RotationFacts DEF PoolInv
  <2>2. (cursor + 1) % Len(order) \in 0 .. Len(order) - 1
    BY <2>1, ModuloRange
  <2>. QED
    BY <2>1, <2>2 DEF Pick, NextCursor, Slots
<1> HIDE DEF PickExcluding
<1>4. PoolTypes'
  <2>1. Endpoints' = Endpoints /\ Slots' = Slots /\ UNCHANGED <<weights, order, health, down>>
    BY DEF Pick, Endpoints, Slots
  <2>2. calls[t] \in Call
    BY DEF PoolInv, PoolTypes
  <2>3. [calls[t] EXCEPT !.state = "trying", !.age = 0, !.endpoint = PickExcluding(calls[t].tried)] \in Call
    BY <1>1, <1>2, <2>2 DEF Call
  <2>4. calls' \in [Thread -> Call]
    <3>1. calls' = [calls EXCEPT ![t] = [calls[t] EXCEPT !.state = "trying", !.age = 0,
                                         !.endpoint = PickExcluding(calls[t].tried)]]
      BY <2>2 DEF Pick, PoolInv, PoolTypes, Call
    <3>. QED
      BY <2>3, <3>1 DEF PoolInv, PoolTypes
  <2>5. Call' = Call
    BY <2>1 DEF Call
  <2>. QED
    BY <1>3, <2>1, <2>4, <2>5 DEF PoolInv, PoolTypes
<1>5. ASSUME NEW u \in Thread PROVE CallInv(calls[u])'
  BY <1>1 DEF PoolInv, PoolTypes, Call, CallInv, Pick, Endpoints
<1>. QED
  BY <1>4, <1>5 DEF PoolInv

\* An answer ends the request and clears the health.
LEMMA SucceedStep ==
  ASSUME PoolInv, NEW t \in Thread, Succeed(t)
  PROVE  PoolInv'
<1>1. PoolTypes'
  BY DEF PoolInv, PoolTypes, Succeed, Slots, Endpoints, Idle, Call, Healthy
<1>2. ASSUME NEW u \in Thread PROVE CallInv(calls[u])'
  BY FS_EmptySet DEF PoolInv, PoolTypes, CallInv, Succeed, Endpoints, Idle
<1>. QED
  BY <1>1, <1>2 DEF PoolInv

\* The endpoint that failed was down, and is one more of those tried.
LEMMA FailOverStep ==
  ASSUME PoolInv, NEW t \in Thread, FailOver(t)
  PROVE  PoolInv'
<1> DEFINE c == calls[t]
<1>1. c \in Call /\ CallInv(c) /\ c.endpoint \in down /\ c.endpoint \in Endpoints \ c.tried
  BY DEF PoolInv, PoolTypes, CallInv, FailOver
<1>2. Cardinality(c.tried \cup {c.endpoint}) = c.attempts + 1 /\ IsFiniteSet(Endpoints)
  <2>1. IsFiniteSet(c.tried)
    BY <1>1, EndpointCount, FS_Subset DEF PoolInv, Call
  <2>. QED
    BY <1>1, <2>1, EndpointCount, FS_AddElement DEF PoolInv, CallInv
<1>3. c.tried \cup {c.endpoint} \in SUBSET Endpoints
  BY <1>1 DEF Call
<1>4. c.attempts + 1 = Len(weights) <=> c.tried \cup {c.endpoint} = Endpoints
  BY <1>2, <1>3, EndpointCount, FS_Subset DEF PoolInv
<1>5. health[c.endpoint] \in [failures : Nat, cooldown : Nat] /\ c.age \in Nat /\ c.attempts + 1 \in Nat
  BY <1>1 DEF PoolInv, PoolTypes, Call
<1>6. Penalized(health[c.endpoint], c.age) \in [failures : Nat, cooldown : Nat]
  BY <1>5, PenalizedTypes
<1>7. PoolTypes'
  <2>1. UNCHANGED <<weights, order, cursor, down>> /\ Endpoints' = Endpoints /\ Slots' = Slots
    BY DEF FailOver, Endpoints, Slots
  <2>2. health' \in [Endpoints -> [failures : Nat, cooldown : Nat]]
    BY <1>6 DEF PoolInv, PoolTypes, FailOver
  <2>3. calls' \in [Thread -> Call]
    BY <1>1, <1>3, <1>5 DEF PoolInv, PoolTypes, FailOver, Call
  <2>4. Call' = Call
    BY <2>1 DEF Call
  <2>. QED
    BY <2>1, <2>2, <2>3, <2>4 DEF PoolInv, PoolTypes
<1>8. ASSUME NEW u \in Thread PROVE CallInv(calls[u])'
  <2>1. Endpoints' = Endpoints /\ down' = down
    BY DEF FailOver, Endpoints
  <2>2. CASE u = t
    <3>1. calls'[t] = [c EXCEPT !.state = IF c.attempts + 1 = Len(weights) THEN "exhausted" ELSE "picking",
                                !.endpoint = 0, !.age = 0, !.tried = @ \cup {c.endpoint},
                                !.attempts = c.attempts + 1]
      BY DEF PoolInv, PoolTypes, FailOver
    <3>2. /\ calls'[t].attempts = c.attempts + 1 /\ calls'[t].tried = c.tried \cup {c.endpoint}
          /\ calls'[t].alive = c.alive
          /\ calls'[t].state = IF c.attempts + 1 = Len(weights) THEN "exhausted" ELSE "picking"
      BY <1>1, <3>1 DEF Call
    <3>3. c.alive \cap (c.tried \cup down) = {}
      BY <1>1 DEF CallInv
    <3>. QED
      BY <1>1, <1>2, <1>4, <2>1, <2>2, <3>2, <3>3 DEF CallInv
  <2>3. CASE u # t
    <3>1. calls'[u] = calls[u] /\ CallInv(calls[u])
      BY <2>3 DEF PoolInv, PoolTypes, FailOver
    <3>. QED
      BY <2>1, <3>1 DEF CallInv
  <2>. QED
    BY <2>2, <2>3
<1>. QED
  BY <1>7, <1>8 DEF PoolInv

\* A refusal ends the request.
LEMMA RefuseStep ==
  ASSUME PoolInv, NEW t \in Thread, Refuse(t)
  PROVE  PoolInv'
<1>1. PoolTypes'
  BY DEF PoolInv, PoolTypes, Refuse, poolVars, Slots, Endpoints, Idle, Call
<1>2. ASSUME NEW u \in Thread PROVE CallInv(calls[u])'
  BY FS_EmptySet DEF PoolInv, PoolTypes, CallInv, Refuse, poolVars, Endpoints, Idle
<1>. QED
  BY <1>1, <1>2 DEF PoolInv

\* Time changes cooldowns and ages only.
LEMMA TickStep ==
  ASSUME PoolInv, Tick
  PROVE  PoolInv'
<1>1. Endpoints' = Endpoints /\ Slots' = Slots /\ UNCHANGED <<weights, order, cursor, down>>
  BY DEF Tick, Endpoints, Slots
<1>2. health' \in [Endpoints -> [failures : Nat, cooldown : Nat]]
  BY DEF PoolInv, PoolTypes, Tick
<1>3. calls' \in [Thread -> Call]
  <2>1. ASSUME NEW u \in Thread PROVE calls'[u] \in Call
    <3>1. calls[u] \in Call /\ calls'[u] \in {calls[u], [calls[u] EXCEPT !.age = @ + 1]}
      BY DEF PoolInv, PoolTypes, Tick
    <3>2. [calls[u] EXCEPT !.age = @ + 1] \in Call
      BY <3>1 DEF Call
    <3>. QED
      BY <3>1, <3>2
  <2>2. calls' = [u \in Thread |-> calls'[u]]
    BY DEF Tick
  <2>. QED
    BY <2>1, <2>2
<1>4. Call' = Call
  BY <1>1 DEF Call
<1>5. ASSUME NEW u \in Thread PROVE CallInv(calls[u])'
  <2>1. /\ calls'[u].state = calls[u].state /\ calls'[u].endpoint = calls[u].endpoint
        /\ calls'[u].tried = calls[u].tried /\ calls'[u].attempts = calls[u].attempts
        /\ calls'[u].alive = calls[u].alive
    BY DEF PoolInv, PoolTypes, Tick, Call
  <2>. QED
    BY <1>1, <2>1 DEF PoolInv, CallInv
<1>. QED
  BY <1>1, <1>2, <1>3, <1>4, <1>5 DEF PoolInv, PoolTypes

\* An endpoint that goes down is alive for no request.
LEMMA GoDownStep ==
  ASSUME PoolInv, NEW e \in Endpoints, GoDown(e)
  PROVE  PoolInv'
<1>1. Endpoints' = Endpoints /\ Slots' = Slots /\ UNCHANGED <<weights, order, cursor, health>>
  BY DEF GoDown, poolVars, Endpoints, Slots
<1>2. calls' \in [Thread -> Call]
  BY DEF PoolInv, PoolTypes, GoDown, Call
<1>3. Call' = Call
  BY <1>1 DEF Call
<1>4. ASSUME NEW u \in Thread PROVE CallInv(calls[u])'
  <2>1. /\ calls'[u].state = calls[u].state /\ calls'[u].endpoint = calls[u].endpoint
        /\ calls'[u].tried = calls[u].tried /\ calls'[u].attempts = calls[u].attempts
        /\ calls'[u].alive = calls[u].alive \ {e}
    BY DEF PoolInv, PoolTypes, GoDown, Call
  <2>. QED
    BY <1>1, <2>1 DEF PoolInv, CallInv, GoDown
<1>. QED
  BY <1>1, <1>2, <1>3, <1>4 DEF PoolInv, PoolTypes, GoDown

\* An endpoint that comes up disturbs no request.
LEMMA ComeUpStep ==
  ASSUME PoolInv, NEW e \in Endpoints, ComeUp(e)
  PROVE  PoolInv'
BY DEF PoolInv, PoolTypes, CallInv, ComeUp, poolVars, Endpoints, Slots, Call

\* With a rotation that holds every endpoint, what a request has tried and what has been
\* up since it began stay apart.
LEMMA PoolInvariance == RotationComplete => (Spec => []PoolInv)
<1> SUFFICES ASSUME RotationComplete PROVE Spec => []PoolInv
  OBVIOUS
<1>1. Init => PoolInv
  <2> SUFFICES ASSUME Init PROVE PoolInv
    OBVIOUS
  <2>1. weights \in Seq(Nat) /\ weights # <<>> /\ order = Rotation(weights) /\ Len(order) > 0
    BY PoolAssumption DEF Init, RotationComplete
  <2>2. Len(order) \in Nat
    BY LenProperties DEF Init, RotationComplete
  <2>3. PoolTypes
    BY <2>1, <2>2 DEF Init, PoolTypes, Slots, Healthy, Idle, Call, Endpoints
  <2>4. \A t \in Thread : CallInv(calls[t])
    BY FS_EmptySet DEF Init, CallInv, Idle
  <2>. QED
    BY <2>3, <2>4 DEF PoolInv
<1>2. PoolInv /\ [Next]_vars => PoolInv'
  <2> SUFFICES ASSUME PoolInv, [Next]_vars PROVE PoolInv'
    OBVIOUS
  <2>1. CASE Next
    <3>1. ASSUME NEW t \in Thread, Begin(t) \/ Pick(t) \/ Attempted(t) PROVE PoolInv'
      BY <3>1, BeginStep, PickStep, SucceedStep, FailOverStep, RefuseStep DEF Attempted
    <3>2. ASSUME NEW e \in Endpoints, GoDown(e) \/ ComeUp(e) PROVE PoolInv'
      BY <3>2, GoDownStep, ComeUpStep
    <3>. QED
      BY <2>1, <3>1, <3>2, TickStep DEF Next
  <2>2. CASE UNCHANGED vars
    BY <2>2 DEF PoolInv, PoolTypes, CallInv, vars, poolVars, Endpoints, Slots, Call
  <2>. QED
    BY <2>1, <2>2
<1>. QED
  BY <1>1, <1>2, PTL DEF Spec

\* A request fails only when every endpoint was down at some time since it began
\* (with_failover of endpoints.rs), whatever the weights.
THEOREM NoRequestFailsNeedlessly == Spec => []NoNeedlessFailure
<1>1. PoolInv => NoNeedlessFailure
  BY DEF PoolInv, PoolTypes, CallInv, NoNeedlessFailure, Call
<1>2. Spec => []PoolInv
  BY PoolInvariance, RotationHoldsAll
<1>. QED
  BY <1>1, <1>2, PTL

\* The rotation of a pool of up to three endpoints, and those of the other weights, keep to
\* the weights all along (smooth_weighted_order).
THEOREM PoolOrderBalanced ==
  (\A given \in Weightings \cup Rotations : Len(given) <= 3) => (Spec => []OrderBalanced)
<1> SUFFICES ASSUME \A given \in Weightings \cup Rotations : Len(given) <= 3
             PROVE  Spec => []OrderBalanced
  OBVIOUS
<1>1. \A given \in Weightings \cup Rotations : Balanced(given, Rotation(given))
  BY RotationFair, RotationNeverBehind DEF Balanced
<1>2. PoolInv => OrderBalanced
  BY <1>1 DEF PoolInv, PoolTypes, OrderBalanced, RotationsBalanced
<1>3. Spec => []PoolInv
  BY PoolInvariance, RotationHoldsAll
<1>. QED
  BY <1>2, <1>3, PTL
================================================================================
