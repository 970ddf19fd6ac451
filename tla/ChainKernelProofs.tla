--------------------------- MODULE ChainKernelProofs ---------------------------
(***************************************************************************)
(* Proofs about the chain kernel, for any trunk, any pools and tokens and  *)
(* any number of requests, faults and late answers.                        *)
(*                                                                         *)
(* The inductive invariant KInv says of the kernel between two events: the *)
(* tree is one (TreeOK), every id is one request, no two requests in       *)
(* flight ask for the same thing, and nothing is staged for a block of the *)
(* tree.  It is proved in the order of the module: what sending, retrying  *)
(* and taking requests does (Keeps, RequestsOK); what each scheduler asks  *)
(* for (Asks); what each handler makes of the tree (Regraphs, Records);    *)
(* then one lemma for each action, which gives the state the handler       *)
(* reaches before its scheduling pass.                                     *)
(*                                                                         *)
(* Three more invariants rest on it: GapInv, that every gap is asked for;  *)
(* TrueInv, that under honest providers the tree is tied to the real       *)
(* chain; ExactInv, that without late answers every request in flight      *)
(* fits the tree it was made for, every Complete block has its logs and    *)
(* the snapshot holds the real states at the anchor.                       *)
(*                                                                         *)
(* The last part composes them with the lifecycle of MultiChain: each of   *)
(* its steps is a step of the kernel or a delivery to it, one or a whole   *)
(* buffer, so the invariants hold of the kernel a bootstrapped chain runs  *)
(* (LifecycleInv); and what its buffer held is in that kernel (BufferInv). *)
(* Of the plans judged against it: their replay draws down no pool, and    *)
(* the order of the steps of a stage is irrelevant to the judgement.  A    *)
(* failure is collapsed to Broken, for which step fails depends on the     *)
(* order; then hops through different pools commute, and a stage makes     *)
(* one thing of a set of steps whichever is last (OrderlessFold).          *)
(***************************************************************************)
EXTENDS MultiChain, BlocksGraphLemmas, FunctionTheorems

KernelFields ==
  {"graph", "snapshot", "verified", "rejected", "tokens", "staging", "pending", "wire", "ghosts"}

Fields(k) == DOMAIN k = KernelFields

\* From k to j only requests change, and no old answer comes back.
Keeps(k, j) ==
  /\ Fields(j)
  /\ j.graph = k.graph /\ j.snapshot = k.snapshot /\ j.staging = k.staging /\ j.ghosts \subseteq k.ghosts
  /\ j.verified = k.verified /\ j.rejected = k.rejected /\ j.tokens = k.tokens

(***************************************************************************)
(* Requests in flight.                                                     *)
(***************************************************************************)
InFlightRequest(oldest) == [id : Nat \ {0}, payload : Payload, age : 0 .. oldest]

\* What the kernel remembers and what is under way: the ids of each are distinct, an
\* id is for one payload, and no two pending requests ask for the same thing.
RequestsOK(k, oldest) ==
  /\ IsFiniteSet(k.pending) /\ IsFiniteSet(k.wire) /\ IsFiniteSet(k.ghosts)
  /\ k.pending \subseteq InFlightRequest(oldest) /\ k.wire \subseteq Message /\ k.ghosts \subseteq Message
  /\ \A r, q \in k.pending : r # q => Apart(r.payload, q.payload)
  /\ \A r, q \in k.pending : r.id = q.id => r = q
  /\ \A m, n \in k.wire : m.id = n.id => m = n
  /\ \A r \in k.pending, m \in k.wire : r.id = m.id => r.payload = m.payload

\* There are as many free ids as are asked for, and the least of them are that many.
LEMMA FreshEnough ==
  ASSUME NEW k, NEW oldest, RequestsOK(k, oldest), NEW n \in Nat
  PROVE  LET taken == {r.id : r \in k.pending} \cup {m.id : m \in k.wire}
             fresh == FreshIds(k, n)
         IN /\ fresh \subseteq Nat \ {0} /\ fresh \cap taken = {}
            /\ IsFiniteSet(fresh) /\ n <= Cardinality(fresh)
<1> DEFINE old   == {r.id : r \in k.pending}
           sent  == {m.id : m \in k.wire}
           taken == old \cup sent
           top   == Cardinality(taken) + n
           free  == (1 .. top) \ taken
           below(i) == {j \in free : j <= i}
           fresh == {i \in free : Cardinality(below(i)) <= n}
<1>1. FreshIds(k, n) = fresh
  BY DEF FreshIds
<1>2. IsFiniteSet(taken) /\ Cardinality(taken) \in Nat
  <2>1. IsFiniteSet(old) /\ IsFiniteSet(sent)
    <3> DEFINE f == [r \in k.pending |-> r.id]
               h == [m \in k.wire |-> m.id]
    <3>1. old = {f[r] : r \in k.pending} /\ sent = {h[m] : m \in k.wire}
      OBVIOUS
    <3>2. DOMAIN f = k.pending /\ DOMAIN h = k.wire
      OBVIOUS
    <3> HIDE DEF f, h, old, sent
    <3>. QED
      BY <3>1, <3>2, FiniteImage DEF RequestsOK
  <2> HIDE DEF old, sent
  <2>2. IsFiniteSet(taken)
    BY <2>1, FS_Union
  <2>. QED
    BY <2>2, FS_CardinalityType
<1> HIDE DEF taken
<1>3. IsFiniteSet(1 .. top) /\ Cardinality(1 .. top) = top /\ top \in Nat
  <2>1. top \in Nat
    BY <1>2
  <2> HIDE DEF top
  <2>2. IsFiniteSet(1 .. top) /\ Cardinality(1 .. top) = IF 1 > top THEN 0 ELSE top - 1 + 1
    BY <2>1, FS_Interval
  <2>. QED
    BY <2>1, <2>2
<1>4. IsFiniteSet(free) /\ Cardinality(free) \in Nat /\ n <= Cardinality(free)
  <2>1. IsFiniteSet(free) /\ Cardinality(free) = top - Cardinality((1 .. top) \cap taken)
    <3> HIDE DEF top
    <3>. QED
      BY <1>3, FS_Difference
  <2>2. Cardinality((1 .. top) \cap taken) <= Cardinality(taken)
    <3> HIDE DEF top
    <3>. QED
      BY <1>2, FS_Intersection
  <2>3. Cardinality((1 .. top) \cap taken) \in Nat
    <3> HIDE DEF top
    <3>. QED
      BY <1>3, FS_Intersection, FS_CardinalityType
  <2> HIDE DEF free
  <2>4. Cardinality(free) \in Nat
    BY <2>1, FS_CardinalityType
  <2>. QED
    BY <1>2, <2>1, <2>2, <2>3, <2>4
<1>5. free \subseteq Nat \ {0} /\ free \cap taken = {}
  BY <1>3
<1> HIDE DEF free
<1>6. IsFiniteSet(fresh) /\ Cardinality(fresh) \in Nat
  BY <1>4, FS_Subset, FS_CardinalityType
<1>7. n <= Cardinality(fresh)
  <2> SUFFICES ASSUME ~(n <= Cardinality(fresh)) PROVE FALSE
    OBVIOUS
  <2>1. fresh # free
    BY <1>4
  <2> DEFINE rest == free \ fresh
  <2>2. rest # {} /\ rest \subseteq Nat
    BY <1>5, <2>1
  <2>3. PICK i \in rest : \A j \in rest : ~ (j < i)
    <3> HIDE DEF rest
    <3>1. PICK i \in rest : \A j \in rest : ~ (<<j, i>> \in OpToRel(<, Nat))
      BY <2>2, NatLessThanWellFounded, WFMin
    <3>2. \A j \in rest : j < i => <<j, i>> \in OpToRel(<, Nat)
      BY <2>2 DEF OpToRel
    <3>. QED
      BY <3>1, <3>2
  <2>4. below(i) \subseteq fresh \cup {i}
    BY <1>5, <2>2, <2>3
  <2>5. IsFiniteSet(fresh \cup {i}) /\ Cardinality(fresh \cup {i}) <= Cardinality(fresh) + 1
    <3> HIDE DEF fresh
    <3>1. /\ IsFiniteSet(fresh \cup {i})
          /\ Cardinality(fresh \cup {i}) = IF i \in fresh THEN Cardinality(fresh) ELSE Cardinality(fresh) + 1
      BY <1>6, FS_AddElement, Zenon
    <3>. QED
      BY <1>6, <3>1
  <2>6. Cardinality(below(i)) <= Cardinality(fresh \cup {i}) /\ Cardinality(fresh \cup {i}) \in Nat
        /\ Cardinality(below(i)) \in Nat
    <3> HIDE DEF below, fresh
    <3>. QED
      BY <2>4, <2>5, FS_Subset, FS_CardinalityType
  <2>7. Cardinality(below(i)) <= n
    <3> HIDE DEF below, fresh
    <3>. QED
      BY <1>6, <2>5, <2>6
  <2>. QED
    BY <2>3, <2>7
<1>. QED
  BY <1>1, <1>5, <1>6, <1>7 DEF taken

\* Each member of a finite set gets an id of its own that nothing outstanding carries.
LEMMA IdsGiven ==
  ASSUME NEW k, NEW oldest, RequestsOK(k, oldest), NEW S, IsFiniteSet(S)
  PROVE  LET ids == Ids(k, S)
         IN /\ ids \in [S -> Nat \ {0}]
            /\ \A x, y \in S : ids[x] = ids[y] => x = y
            /\ \A x \in S : /\ \A r \in k.pending : ids[x] # r.id
                            /\ \A m \in k.wire : ids[x] # m.id
<1> DEFINE n == Cardinality(S)
           fresh == FreshIds(k, n)
           taken == {r.id : r \in k.pending} \cup {m.id : m \in k.wire}
<1>1. n \in Nat /\ ExistsBijection(1 .. n, S)
  BY FS_CardinalityType
<1>2. /\ fresh \subseteq Nat \ {0} /\ fresh \cap taken = {}
      /\ IsFiniteSet(fresh) /\ n <= Cardinality(fresh)
  BY <1>1, FreshEnough
<1> HIDE DEF fresh
<1>3. PICK f \in [S -> fresh] : \A x, y \in S : f[x] = f[y] => x = y
  <2> DEFINE m == Cardinality(fresh)
  <2>1. m \in Nat /\ ExistsBijection(1 .. m, fresh)
    BY <1>2, FS_CardinalityType
  <2>2. PICK b \in Bijection(1 .. m, fresh) : TRUE
    BY <2>1 DEF ExistsBijection
  <2>3. ExistsBijection(S, 1 .. n)
    BY <1>1, Fun_ExistsBijSymmetric
  <2>4. PICK a \in Bijection(S, 1 .. n) : TRUE
    BY <2>3 DEF ExistsBijection
  <2>5. a \in [S -> 1 .. n] /\ \A x, y \in S : a[x] = a[y] => x = y
    <3> DEFINE ranks == 1 .. n
    <3>1. a \in Bijection(S, ranks)
      BY <2>4
    <3> HIDE DEF ranks
    <3>2. a \in [S -> ranks] /\ \A x, y \in S : a[x] = a[y] => x = y
      BY <3>1, Fun_BijectionProperties
    <3>. QED
      BY <3>2 DEF ranks
  <2>6. b \in [1 .. m -> fresh] /\ \A i, j \in 1 .. m : b[i] = b[j] => i = j
    BY <2>2, Fun_BijectionProperties
  <2> DEFINE c == [x \in S |-> b[a[x]]]
  <2>7. \A x \in S : a[x] \in 1 .. m
    BY <1>1, <1>2, <2>1, <2>5
  <2>8. c \in [S -> fresh] /\ \A x, y \in S : c[x] = c[y] => x = y
    BY <2>5, <2>6, <2>7
  <2>. QED
    BY <2>8
<1>4. /\ Ids(k, S) \in [S -> fresh]
      /\ \A x, y \in S : Ids(k, S)[x] = Ids(k, S)[y] => x = y
  BY <1>3 DEF Ids, fresh
<1>. QED
  BY <1>2, <1>4

LEMMA ApartSymmetric ==
  ASSUME NEW p, NEW q, Apart(p, q)
  PROVE  Apart(q, p)
BY DEF Apart

LEMMA EntryOf ==
  ASSUME NEW messages, NEW m \in messages
  PROVE  \E r \in {[id |-> n.id, payload |-> n.payload, age |-> 0] : n \in messages} : r.payload = m.payload
<1>1. [id |-> m.id, payload |-> m.payload, age |-> 0].payload = m.payload
  OBVIOUS
<1>. QED
  BY <1>1

\* New requests under fresh ids that ask for nothing that is asked for already.
LEMMA SentRequests ==
  ASSUME NEW k, Fields(k), NEW oldest \in Nat, RequestsOK(k, oldest),
         NEW messages \in SUBSET Message, IsFiniteSet(messages),
         \A m, n \in messages : m.id = n.id => m = n,
         \A m \in messages : /\ \A r \in k.pending : m.id # r.id
                             /\ \A n \in k.wire : m.id # n.id,
         \A m, n \in messages : m # n => Apart(m.payload, n.payload),
         \A m \in messages, r \in k.pending : Apart(m.payload, r.payload)
  PROVE  LET j == Sent(k, messages)
             new == {[id |-> m.id, payload |-> m.payload, age |-> 0] : m \in messages}
         IN /\ Keeps(k, j) /\ RequestsOK(j, oldest)
            /\ j.pending = k.pending \cup new /\ j.wire = k.wire \cup messages
<1> DEFINE entry(m) == [id |-> m.id, payload |-> m.payload, age |-> 0]
           new == {entry(m) : m \in messages}
           j == Sent(k, messages)
<1>1. /\ Fields(j) /\ Keeps(k, j)
      /\ j.pending = k.pending \cup new /\ j.wire = k.wire \cup messages /\ j.ghosts = k.ghosts
  BY DEF Sent, Keeps, Fields, KernelFields
<1>2. IsFiniteSet(new)
  <2> DEFINE f == [m \in messages |-> entry(m)]
  <2>1. new = {f[m] : m \in messages} /\ DOMAIN f = messages
    OBVIOUS
  <2> HIDE DEF f, new
  <2>. QED
    BY <2>1, FiniteImage
<1>3. ASSUME NEW m \in messages
      PROVE  /\ entry(m) \in InFlightRequest(oldest)
             /\ entry(m).id = m.id /\ entry(m).payload = m.payload
  BY <1>3 DEF Message, InFlightRequest
<1>4. \A r \in new : \E m \in messages : r = entry(m)
  OBVIOUS
<1> HIDE DEF j, entry, new
<1>5. IsFiniteSet(j.pending) /\ IsFiniteSet(j.wire) /\ IsFiniteSet(j.ghosts)
  <2>1. IsFiniteSet(k.pending) /\ IsFiniteSet(k.wire) /\ IsFiniteSet(k.ghosts)
    BY DEF RequestsOK
  <2>2. IsFiniteSet(k.pending \cup new)
    BY <1>2, <2>1, FS_Union
  <2>3. IsFiniteSet(k.wire \cup messages)
    BY <2>1, FS_Union
  <2>. QED
    BY <1>1, <2>1, <2>2, <2>3
<1>6. j.pending \subseteq InFlightRequest(oldest) /\ j.wire \subseteq Message /\ j.ghosts \subseteq Message
  BY <1>1, <1>3, <1>4 DEF RequestsOK
<1>7. ASSUME NEW r \in j.pending, NEW q \in j.pending, r # q
      PROVE  Apart(r.payload, q.payload)
  BY <1>1, <1>3, <1>4, <1>7, ApartSymmetric DEF RequestsOK
<1>8. ASSUME NEW r \in j.pending, NEW q \in j.pending, r.id = q.id
      PROVE  r = q
  BY <1>1, <1>3, <1>4, <1>8 DEF RequestsOK
<1>9. ASSUME NEW m \in j.wire, NEW n \in j.wire, m.id = n.id
      PROVE  m = n
  BY <1>1, <1>9 DEF RequestsOK
<1>10. ASSUME NEW r \in j.pending, NEW m \in j.wire, r.id = m.id
       PROVE  r.payload = m.payload
  BY <1>1, <1>3, <1>4, <1>10 DEF RequestsOK
<1>11. RequestsOK(j, oldest)
  BY <1>5, <1>6, <1>7, <1>8, <1>9, <1>10 DEF RequestsOK
<1>. QED
  BY <1>1, <1>11 DEF j, new, entry

\* The payloads asked for, as the schedulers and the invariants see them.
LEMMA IssueRequests ==
  ASSUME NEW k, Fields(k), NEW oldest \in Nat, RequestsOK(k, oldest),
         NEW payloads \in SUBSET Payload, IsFiniteSet(payloads),
         \A p, q \in payloads : p # q => Apart(p, q),
         \A p \in payloads, r \in k.pending : Apart(p, r.payload)
  PROVE  LET j == Issue(k, payloads)
         IN /\ Keeps(k, j) /\ RequestsOK(j, oldest)
            /\ k.pending \subseteq j.pending
            /\ {r.payload : r \in j.pending} = {r.payload : r \in k.pending} \cup payloads
<1> DEFINE ids == Ids(k, payloads)
           message(p) == [id |-> ids[p], payload |-> p]
           messages == {message(p) : p \in payloads}
           new == {[id |-> m.id, payload |-> m.payload, age |-> 0] : m \in messages}
           j == Sent(k, messages)
<1>1. Issue(k, payloads) = j
  BY DEF Issue
<1>2. /\ ids \in [payloads -> Nat \ {0}]
      /\ \A p, q \in payloads : ids[p] = ids[q] => p = q
      /\ \A p \in payloads : /\ \A r \in k.pending : ids[p] # r.id
                             /\ \A m \in k.wire : ids[p] # m.id
  BY IdsGiven
<1> HIDE DEF ids
<1>3. messages \in SUBSET Message
  BY <1>2 DEF Message
<1>4. \A m \in messages : m.payload \in payloads /\ m.id = ids[m.payload] /\ m = message(m.payload)
  OBVIOUS
<1>5. IsFiniteSet(messages)
  <2> DEFINE f == [p \in payloads |-> message(p)]
  <2>1. messages = {f[p] : p \in payloads} /\ DOMAIN f = payloads
    OBVIOUS
  <2> HIDE DEF f, messages
  <2>. QED
    BY <2>1, FiniteImage
<1>6. ASSUME NEW p \in payloads
      PROVE  \E m \in messages : m.payload = p
  <2>1. message(p) \in messages /\ message(p).payload = p
    OBVIOUS
  <2>. QED
    BY <2>1
<1> HIDE DEF messages, message
<1>7. /\ \A m, n \in messages : m.id = n.id => m = n
      /\ \A m \in messages : /\ \A r \in k.pending : m.id # r.id
                             /\ \A n \in k.wire : m.id # n.id
      /\ \A m, n \in messages : m # n => Apart(m.payload, n.payload)
      /\ \A m \in messages, r \in k.pending : Apart(m.payload, r.payload)
  BY <1>2, <1>4
<1> HIDE DEF j
<1>8. /\ Keeps(k, j) /\ RequestsOK(j, oldest)
      /\ j.pending = k.pending \cup new /\ j.wire = k.wire \cup messages
  <2> HIDE DEF new
  <2>. QED
    BY <1>3, <1>5, <1>7, SentRequests DEF j, new
<1>9. {r.payload : r \in new} = payloads
  <2>1. \A r \in new : \E m \in messages : r.payload = m.payload
    OBVIOUS
  <2>2. \A m \in messages : \E r \in new : r.payload = m.payload
    BY EntryOf
  <2> HIDE DEF new
  <2>. QED
    BY <1>4, <1>6, <2>1, <2>2
<1> HIDE DEF new
<1>. QED
  BY <1>1, <1>8, <1>9

\* The requests of R are forgotten and asked again; all others stay.
LEMMA RetryRequests ==
  ASSUME NEW k, Fields(k), NEW oldest \in Nat, NEW aged \in Nat, RequestsOK(k, aged),
         NEW R \in SUBSET k.pending, k.pending \ R \subseteq InFlightRequest(oldest)
  PROVE  LET j == Retry(k, R)
         IN /\ Keeps(k, j) /\ RequestsOK(j, oldest)
            /\ {r.payload : r \in j.pending} = {r.payload : r \in k.pending}
<1> DEFINE ids == Ids(k, R)
           message(r) == [id |-> ids[r], payload |-> r.payload]
           messages == {message(r) : r \in R}
           new == {[id |-> m.id, payload |-> m.payload, age |-> 0] : m \in messages}
           i == [k EXCEPT !.pending = @ \ R]
           j == Sent(i, messages)
<1>1. Retry(k, R) = j
  BY DEF Retry
<1>2. IsFiniteSet(R)
  BY FS_Subset DEF RequestsOK
<1>3. /\ ids \in [R -> Nat \ {0}]
      /\ \A p, q \in R : ids[p] = ids[q] => p = q
      /\ \A p \in R : /\ \A r \in k.pending : ids[p] # r.id
                      /\ \A m \in k.wire : ids[p] # m.id
  BY <1>2, IdsGiven
<1> HIDE DEF ids
<1>4. /\ Fields(i) /\ Keeps(k, i) /\ i.pending = k.pending \ R /\ i.wire = k.wire /\ i.ghosts = k.ghosts
  BY DEF Fields, Keeps, KernelFields
<1> HIDE DEF i
<1>5. RequestsOK(i, oldest)
  BY <1>4, FS_Subset DEF RequestsOK
<1>6. messages \in SUBSET Message
  BY <1>3 DEF Message, RequestsOK, InFlightRequest
<1>7. \A m \in messages : \E r \in R : m = message(r) /\ m.id = ids[r] /\ m.payload = r.payload
  OBVIOUS
<1>8. IsFiniteSet(messages)
  <2> DEFINE f == [r \in R |-> message(r)]
  <2>1. messages = {f[r] : r \in R} /\ DOMAIN f = R
    OBVIOUS
  <2> HIDE DEF f, messages
  <2>. QED
    BY <1>2, <2>1, FiniteImage
<1>9. ASSUME NEW r \in R
      PROVE  \E m \in messages : m.payload = r.payload
  <2>1. message(r) \in messages /\ message(r).payload = r.payload
    OBVIOUS
  <2>. QED
    BY <2>1
<1> HIDE DEF messages, message
<1>10. \A m, n \in messages : m.id = n.id => m = n
  BY <1>3, <1>7
<1>11. \A m \in messages : /\ \A r \in i.pending : m.id # r.id
                           /\ \A n \in i.wire : m.id # n.id
  BY <1>3, <1>4, <1>7
<1>12. \A m, n \in messages : m # n => Apart(m.payload, n.payload)
  BY <1>7 DEF RequestsOK
<1>13. \A m \in messages, r \in i.pending : Apart(m.payload, r.payload)
  BY <1>4, <1>7 DEF RequestsOK
<1> HIDE DEF j
<1>14. /\ Keeps(i, j) /\ RequestsOK(j, oldest)
       /\ j.pending = i.pending \cup new /\ j.wire = i.wire \cup messages
  <2> HIDE DEF new
  <2>. QED
    BY <1>4, <1>5, <1>6, <1>8, <1>10, <1>11, <1>12, <1>13, SentRequests DEF j, new
<1>15. {r.payload : r \in new} = {r.payload : r \in R}
  <2>1. \A r \in new : \E m \in messages : r.payload = m.payload
    OBVIOUS
  <2>2. \A m \in messages : \E r \in new : r.payload = m.payload
    BY EntryOf
  <2> HIDE DEF new
  <2>. QED
    BY <1>7, <1>9, <2>1, <2>2
<1> HIDE DEF new
<1>16. {r.payload : r \in j.pending} = {r.payload : r \in k.pending}
  BY <1>4, <1>14, <1>15
<1>. QED
  BY <1>1, <1>4, <1>14, <1>16 DEF Keeps

\* An answer leaves the wire, and what it matches is no longer pending.
LEMMA TakenRequests ==
  ASSUME NEW k, Fields(k), NEW oldest \in Nat, RequestsOK(k, oldest), NEW m
  PROVE  /\ Keeps(k, Arrived(k, m)) /\ RequestsOK(Arrived(k, m), oldest) /\ Arrived(k, m).pending = k.pending
         /\ Keeps(k, Taken(k, m)) /\ RequestsOK(Taken(k, m), oldest)
         /\ Taken(k, m).pending = k.pending \ Matching(k, m)
<1> DEFINE a == Arrived(k, m)
           t == [a EXCEPT !.pending = @ \ Matching(k, m)]
<1>1. /\ Fields(a) /\ Keeps(k, a) /\ a.pending = k.pending /\ a.wire = k.wire \ {m}
      /\ a.ghosts \subseteq k.ghosts
  BY DEF Arrived, Fields, Keeps, KernelFields
<1>2. Taken(k, m) = t
  BY DEF Taken
<1> HIDE DEF a
<1>3. /\ Fields(t) /\ Keeps(a, t) /\ t.pending = k.pending \ Matching(k, m) /\ t.wire = a.wire /\ t.ghosts = a.ghosts
  BY <1>1 DEF Fields, Keeps, KernelFields
<1> HIDE DEF t
<1>4. ASSUME NEW j, j.pending \subseteq k.pending, j.wire \subseteq k.wire, j.ghosts \subseteq k.ghosts
      PROVE  RequestsOK(j, oldest)
  BY <1>4, FS_Subset DEF RequestsOK
<1>5. RequestsOK(a, oldest) /\ RequestsOK(t, oldest)
  BY <1>1, <1>3, <1>4
<1>. QED
  BY <1>1, <1>2, <1>3, <1>5 DEF Keeps, a

(***************************************************************************)
(* Scheduling.                                                             *)
(***************************************************************************)
DataOK(k) ==
  /\ Fields(k) /\ TreeOK(k.graph) /\ IsSnapshot(k.snapshot)
  /\ k.verified \subseteq Pool /\ k.rejected \subseteq Pool /\ k.tokens \subseteq Token
  /\ \E S \in SUBSET Block : k.staging \in [S -> LogMap]

\* The kernel between two steps of a handler: what is staged may be in the tree.
KernelOK(k) == DataOK(k) /\ RequestsOK(k, RequestTTL - 1)

\* From k to j requests were sent and none was dropped.
Sends(k, j) == Keeps(k, j) /\ KernelOK(j) /\ k.pending \subseteq j.pending

\* None of them an authoritative check of a range, and reads only of verified pools.
Asks(k, j) ==
  /\ Sends(k, j) /\ InFlight(j, "range") = InFlight(k, "range")
  /\ \A p \in InFlight(j, "seeds") : p \in InFlight(k, "seeds") \/ p.items \subseteq k.verified

LEMMA KeepsData ==
  ASSUME NEW k, NEW j, DataOK(k), Keeps(k, j)
  PROVE  DataOK(j)
BY DEF DataOK, Keeps

LEMMA AsksTransitive ==
  ASSUME NEW k, NEW j, NEW i, Asks(k, j), Asks(j, i)
  PROVE  Asks(k, i)
BY DEF Asks, Sends, Keeps

LEMMA AsksNothing ==
  ASSUME NEW k, KernelOK(k)
  PROVE  Asks(k, k)
BY DEF Asks, Sends, Keeps, KernelOK, DataOK

LEMMA InFlightPayloads ==
  ASSUME NEW k, NEW kind
  PROVE  InFlight(k, kind) = {p \in {r.payload : r \in k.pending} : p.kind = kind}
BY DEF InFlight

LEMMA IssueSends ==
  ASSUME NEW k, KernelOK(k), NEW payloads \in SUBSET Payload, IsFiniteSet(payloads),
         \A p, q \in payloads : p # q => Apart(p, q),
         \A p \in payloads, r \in k.pending : Apart(p, r.payload)
  PROVE  LET j == Issue(k, payloads)
         IN /\ Sends(k, j)
            /\ \A kind : InFlight(j, kind) = InFlight(k, kind) \cup {p \in payloads : p.kind = kind}
<1>1. RequestTTL - 1 \in Nat /\ Fields(k) /\ RequestsOK(k, RequestTTL - 1) /\ DataOK(k)
  BY KernelAssumption DEF KernelOK, DataOK
<1> DEFINE j == Issue(k, payloads)
<1> HIDE DEF j
<1>2. /\ Keeps(k, j) /\ RequestsOK(j, RequestTTL - 1) /\ k.pending \subseteq j.pending
      /\ {r.payload : r \in j.pending} = {r.payload : r \in k.pending} \cup payloads
  BY <1>1, IssueRequests DEF j
<1>3. Sends(k, j)
  BY <1>1, <1>2, KeepsData DEF Sends, KernelOK
<1>4. ASSUME NEW kind
      PROVE  InFlight(j, kind) = InFlight(k, kind) \cup {p \in payloads : p.kind = kind}
  <2>1. InFlight(j, kind) = {p \in {r.payload : r \in k.pending} \cup payloads : p.kind = kind}
    BY <1>2, InFlightPayloads
  <2>2. InFlight(k, kind) = {p \in {r.payload : r \in k.pending} : p.kind = kind}
    BY InFlightPayloads
  <2>. QED
    BY <2>1, <2>2
<1>. QED
  BY <1>3, <1>4 DEF j

LEMMA IssueAsks ==
  ASSUME NEW k, KernelOK(k), NEW payloads \in SUBSET Payload, IsFiniteSet(payloads),
         \A p, q \in payloads : p # q => Apart(p, q),
         \A p \in payloads, r \in k.pending : Apart(p, r.payload),
         \A p \in payloads : p.kind # "range" /\ (p.kind = "seeds" => p.items \subseteq k.verified)
  PROVE  LET j == Issue(k, payloads)
         IN /\ Asks(k, j)
            /\ \A kind : InFlight(j, kind) = InFlight(k, kind) \cup {p \in payloads : p.kind = kind}
<1> DEFINE j == Issue(k, payloads)
<1> HIDE DEF j
<1>1. /\ Sends(k, j)
      /\ \A kind : InFlight(j, kind) = InFlight(k, kind) \cup {p \in payloads : p.kind = kind}
  BY IssueSends DEF j
<1>2. InFlight(j, "range") = InFlight(k, "range") \cup {p \in payloads : p.kind = "range"}
  BY <1>1
<1>3. InFlight(j, "range") = InFlight(k, "range")
  BY <1>2
<1>4. \A p \in InFlight(j, "seeds") : p \in InFlight(k, "seeds") \/ p.items \subseteq k.verified
  <2>1. InFlight(j, "seeds") = InFlight(k, "seeds") \cup {p \in payloads : p.kind = "seeds"}
    BY <1>1
  <2>. QED
    BY <2>1
<1>. QED
  BY <1>1, <1>3, <1>4 DEF j, Asks

\* Requests for one block each, for blocks nothing of that kind targets.
LEMMA BlockAsks ==
  ASSUME NEW k, KernelOK(k), NEW kind \in {"header", "logs"}, NEW H \in SUBSET Block,
         H \cap Targets(k, kind) = {}
  PROVE  LET j == Issue(k, {Req(kind, h, {}, {}) : h \in H})
         IN /\ Asks(k, j) /\ Targets(j, kind) = Targets(k, kind) \cup H
            /\ InFlight(j, "seeds") = InFlight(k, "seeds")
<1> DEFINE payloads == {Req(kind, h, {}, {}) : h \in H}
           j == Issue(k, payloads)
<1>1. \A h \in H : /\ Req(kind, h, {}, {}) \in Payload /\ Req(kind, h, {}, {}).kind = kind
                   /\ Req(kind, h, {}, {}).at = h
  BY DEF Req, Payload
<1>2. IsFiniteSet(payloads)
  <2> DEFINE f == [h \in H |-> Req(kind, h, {}, {})]
  <2>1. payloads = {f[h] : h \in H} /\ DOMAIN f = H /\ IsFiniteSet(H)
    BY FiniteAssumption, FS_Subset
  <2> HIDE DEF f, payloads
  <2>. QED
    BY <2>1, FiniteImage
<1>3. \A p \in payloads : p.at \in H /\ p.kind = kind /\ p = Req(kind, p.at, {}, {})
  BY <1>1
<1>4. \A h \in H : \E p \in payloads : p.at = h
  BY <1>1
<1>5. payloads \in SUBSET Payload
  BY <1>1
<1> HIDE DEF payloads
<1>6. \A p, q \in payloads : p # q => Apart(p, q)
  BY <1>3 DEF Apart
<1>7. \A p \in payloads, r \in k.pending : Apart(p, r.payload)
  BY <1>3 DEF Apart, Targets, InFlight
<1> HIDE DEF j
<1>8. \A p \in payloads : p.kind # "range" /\ p.kind # "seeds"
  BY <1>3
<1>9. /\ Asks(k, j)
      /\ \A x : InFlight(j, x) = InFlight(k, x) \cup {p \in payloads : p.kind = x}
  BY <1>2, <1>5, <1>6, <1>7, <1>8, IssueAsks DEF j
<1>10. Targets(j, kind) = Targets(k, kind) \cup H
  <2>1. InFlight(j, kind) = InFlight(k, kind) \cup {p \in payloads : p.kind = kind}
    BY <1>9
  <2>. QED
    BY <1>3, <1>4, <2>1 DEF Targets
<1>11. InFlight(j, "seeds") = InFlight(k, "seeds")
  <2>1. InFlight(j, "seeds") = InFlight(k, "seeds") \cup {p \in payloads : p.kind = "seeds"}
    BY <1>9
  <2>. QED
    BY <1>3, <2>1
<1>. QED
  BY <1>9, <1>10, <1>11 DEF j, payloads

LEMMA MissingAreBlocks ==
  ASSUME NEW g, TreeOK(g)
  PROVE  MissingParents(g) \subseteq Block
<1>1. ASSUME NEW h \in PendingSet(g)
      PROVE  g.nodes[h].parent \in Block
  <2>1. h \in Present(g) /\ g.nodes \in [Present(g) -> Node]
    BY GraphParts DEF TreeOK, PendingSet
  <2>2. g.nodes[h].parent \in Block \cup {AnchorRef}
    BY <2>1, NodeParts
  <2>3. g.nodes[h].parent # AnchorRef
    BY DEF TreeOK, WellFormed, PendingUnreachable
  <2>. QED
    BY <2>2, <2>3
<1>. QED
  BY <1>1 DEF MissingParents

\* Header backfill asks for every gap in the ancestry.
LEMMA HeadersAsk ==
  ASSUME NEW k, KernelOK(k)
  PROVE  /\ Asks(k, ScheduleHeaders(k))
         /\ MissingParents(k.graph) \subseteq Targets(ScheduleHeaders(k), "header")
<1> DEFINE H == MissingParents(k.graph) \ Targets(k, "header")
<1>1. H \in SUBSET Block /\ H \cap Targets(k, "header") = {}
  BY MissingAreBlocks DEF KernelOK, DataOK
<1>2. ScheduleHeaders(k) = Issue(k, {Req("header", h, {}, {}) : h \in H})
  BY DEF ScheduleHeaders
<1> HIDE DEF H
<1>3. LET j == Issue(k, {Req("header", h, {}, {}) : h \in H})
      IN Asks(k, j) /\ Targets(j, "header") = Targets(k, "header") \cup H
  BY <1>1, BlockAsks
<1>. QED
  BY <1>2, <1>3 DEF H

LEMMA PresentChainParts ==
  ASSUME NEW g, IsGraph(g)
  PROVE  PresentChain(g) \subseteq Present(g) /\ Present(g) \subseteq Block
<1>1. Present(g) \subseteq Block
  BY GraphParts
<1>2. g.head \in Present(g) => Ancestors(g, Present(g), g.head) \subseteq Present(g)
  BY AncestorsClosed
<1>. QED
  BY <1>1, <1>2 DEF PresentChain

LEMMA LogsAsk ==
  ASSUME NEW k, KernelOK(k)
  PROVE  Asks(k, ScheduleLogs(k))
<1> DEFINE H == UnknownLogHoles(k.graph, TrustedEmitters(k), Targets(k, "logs"), SettleDepth)
<1>1. H \in SUBSET Block /\ H \cap Targets(k, "logs") = {}
  <2>1. PresentChain(k.graph) \subseteq Block
    BY PresentChainParts DEF KernelOK, DataOK, TreeOK
  <2>. QED
    BY <2>1 DEF UnknownLogHoles
<1>2. ScheduleLogs(k) = Issue(k, {Req("logs", h, {}, {}) : h \in H})
  BY DEF ScheduleLogs
<1> HIDE DEF H
<1>3. Asks(k, Issue(k, {Req("logs", h, {}, {}) : h \in H}))
  BY <1>1, BlockAsks
<1>. QED
  BY <1>2, <1>3

\* What is asked block by block: no two requests name the same item, and none names
\* what is in flight.
LEMMA BatchedAsks ==
  ASSUME NEW k, KernelOK(k), NEW kind \in {"pools", "tokens"},
         NEW Item, Item = (IF kind = "pools" THEN Pool ELSE Token),
         NEW need \in [PresentChain(k.graph) -> SUBSET Item],
         NEW available, Covered(k, kind) \subseteq available
  PROVE  Asks(k, Batched(k, kind, need, available))
<1> DEFINE g == k.graph
           chain == PresentChain(g)
           newer(h) == {x \in DOMAIN need : h # x /\ h \in Ancestors(g, Present(g), x)}
           rest(h)  == need[h] \ (available \cup UNION {need[x] : x \in newer(h)})
           H == {x \in DOMAIN need : rest(x) # {}}
           payloads == {Req(kind, h, rest(h), {}) : h \in H}
<1>1. Batched(k, kind, need, available) = Issue(k, payloads)
  BY DEF Batched
<1>2. chain \subseteq Present(g) /\ Present(g) \subseteq Block
  BY PresentChainParts DEF KernelOK, DataOK, TreeOK
<1>3. \A h \in H : h \in chain /\ rest(h) \subseteq Item /\ rest(h) \cap available = {}
  OBVIOUS
<1>4. ASSUME NEW h \in chain, NEW x \in chain, h # x
      PROVE  h \in newer(x) \/ x \in newer(h)
  <2>1. g.head \in Present(g) /\ chain = Ancestors(g, Present(g), g.head)
    BY <1>4 DEF PresentChain
  <2>2. h \in Ancestors(g, Present(g), x) \/ x \in Ancestors(g, Present(g), h)
    BY <1>4, <2>1, AncestorsLinear
  <2>. QED
    BY <1>4, <2>2
<1>5. ASSUME NEW h \in H, NEW x \in H, h # x
      PROVE  rest(h) \cap rest(x) = {}
  <2>1. \A y \in chain, z \in chain : y \in newer(z) => rest(z) \cap rest(y) = {}
    OBVIOUS
  <2>. QED
    BY <1>3, <1>4, <1>5, <2>1
<1> HIDE DEF rest, newer
<1>6. ASSUME NEW h \in H
      PROVE  /\ Req(kind, h, rest(h), {}) \in Payload /\ Req(kind, h, rest(h), {}).kind = kind
             /\ Req(kind, h, rest(h), {}).items = rest(h)
  <2>1. h \in Block /\ rest(h) \in SUBSET Item
    BY <1>2, <1>3
  <2>2. CASE kind = "pools"
    BY <2>1, <2>2 DEF Req, Payload
  <2>3. CASE kind = "tokens"
    BY <2>1, <2>3 DEF Req, Payload
  <2>. QED
    BY <2>2, <2>3
<1>7. IsFiniteSet(payloads)
  <2> DEFINE f == [h \in H |-> Req(kind, h, rest(h), {})]
  <2>1. H \in SUBSET Block
    BY <1>2
  <2>2. payloads = {f[h] : h \in H} /\ DOMAIN f = H
    OBVIOUS
  <2> HIDE DEF f, payloads, H
  <2>. QED
    BY <2>1, <2>2, FiniteAssumption, FS_Subset, FiniteImage
<1>8. payloads \in SUBSET Payload
  BY <1>6
<1>9. \A p \in payloads : \E h \in H : p = Req(kind, h, rest(h), {}) /\ p.kind = kind /\ p.items = rest(h)
  BY <1>6
<1> HIDE DEF payloads, H
<1>10. \A p, q \in payloads : p # q => Apart(p, q)
  BY <1>5, <1>9 DEF Apart
<1>11. \A p \in payloads, r \in k.pending : Apart(p, r.payload)
  <2> SUFFICES ASSUME NEW p \in payloads, NEW r \in k.pending, r.payload.kind = kind
               PROVE  p.items \cap r.payload.items = {}
    BY <1>9 DEF Apart
  <2>1. r.payload.items \subseteq Covered(k, kind)
    BY DEF Covered, InFlight
  <2>. QED
    BY <1>3, <1>9, <2>1
<1>12. \A p \in payloads : p.kind # "range" /\ p.kind # "seeds"
  BY <1>9
<1>. QED
  BY <1>1, <1>7, <1>8, <1>10, <1>11, <1>12, IssueAsks

LEMMA PoolsAsk ==
  ASSUME NEW k, KernelOK(k)
  PROVE  Asks(k, SchedulePools(k))
<1> DEFINE need == [h \in PresentChain(k.graph) |-> Candidates(k, h)]
           available == k.verified \cup k.rejected \cup Covered(k, "pools")
<1>1. need \in [PresentChain(k.graph) -> SUBSET Pool]
  <2>1. ASSUME NEW h \in PresentChain(k.graph)
        PROVE  Candidates(k, h) \subseteq Pool
    <3>1. h \in Present(k.graph) /\ k.graph.nodes \in [Present(k.graph) -> Node]
      BY PresentChainParts, GraphParts DEF KernelOK, DataOK, TreeOK
    <3>2. k.graph.nodes[h].logs \subseteq Log
      BY <3>1 DEF Node, LogMap
    <3>. QED
      BY <3>2, PoolDataAssumption DEF Candidates
  <2>. QED
    BY <2>1
<1>2. SchedulePools(k) = Batched(k, "pools", need, available)
  BY DEF SchedulePools
<1> HIDE DEF need
<1>. QED
  BY <1>1, <1>2, BatchedAsks

LEMMA TokensAsk ==
  ASSUME NEW k, KernelOK(k)
  PROVE  Asks(k, ScheduleTokens(k))
<1> DEFINE need == [h \in PresentChain(k.graph) |->
                      UNION {TokensOf[p] : p \in Candidates(k, h) \cap k.verified}]
           available == k.tokens \cup Covered(k, "tokens")
<1>1. need \in [PresentChain(k.graph) -> SUBSET Token]
  BY KernelAssumption DEF KernelOK, DataOK
<1>2. ScheduleTokens(k) = Batched(k, "tokens", need, available)
  BY DEF ScheduleTokens
<1> HIDE DEF need
<1>. QED
  BY <1>1, <1>2, BatchedAsks

\* A set of more than n elements has a subset of n.
LEMMA SubsetOfSize ==
  ASSUME NEW S, IsFiniteSet(S), NEW n \in Nat, n <= Cardinality(S)
  PROVE  \E T \in SUBSET S : Cardinality(T) = n
<1> DEFINE large == {T \in SUBSET S : n <= Cardinality(T)}
<1>1. large # {} /\ large \subseteq SUBSET S
  OBVIOUS
<1>2. PICK T \in large : \A U \in large : U \subseteq T => U = T
  <2> HIDE DEF large
  <2>. QED
    BY <1>1, SmallestSubset
<1>3. IsFiniteSet(T) /\ Cardinality(T) \in Nat
  BY FS_Subset, FS_CardinalityType
<1>4. CASE T = {}
  BY <1>4, <1>3, FS_EmptySet
<1>5. CASE T # {}
  <2>1. PICK x \in T : TRUE
    BY <1>5
  <2>2. Cardinality(T \ {x}) = Cardinality(T) - 1
    BY <1>3, <2>1, FS_RemoveElement
  <2>3. T \ {x} \notin large
    BY <1>2, <2>1
  <2>. QED
    BY <1>3, <2>2, <2>3
<1>. QED
  BY <1>4, <1>5

LEMMA SeedsAsk ==
  ASSUME NEW k, KernelOK(k)
  PROVE  Asks(k, ScheduleSeeds(k))
<1>1. CASE BackfillInFlight(k) \/ Unseeded(k) = {}
  BY <1>1, AsksNothing DEF ScheduleSeeds
<1>2. CASE ~ (BackfillInFlight(k) \/ Unseeded(k) = {})
  <2> DEFINE U == Unseeded(k)
             Fits(S) == \/ S = U /\ Cardinality(S) <= SeedChunk
                        \/ Cardinality(S) = SeedChunk
             chunk == CHOOSE S \in SUBSET U : Fits(S)
             asked == Req("seeds", k.graph.anchor, chunk, {})
  <2>1. U \subseteq Pool /\ U \cap Covered(k, "seeds") = {} /\ U \subseteq k.verified
    BY DEF Unseeded, KernelOK, DataOK
  <2>2. IsFiniteSet(U) /\ Cardinality(U) \in Nat /\ SeedChunk \in Nat
    BY <2>1, FiniteAssumption, FS_Subset, FS_CardinalityType, KernelAssumption
  <2>3. \E S \in SUBSET U : Fits(S)
    <3>1. CASE Cardinality(U) <= SeedChunk
      BY <3>1
    <3>2. CASE SeedChunk <= Cardinality(U)
      <4> HIDE DEF U
      <4>. QED
        BY <2>2, <3>2, SubsetOfSize
    <3>. QED
      BY <2>2, <3>1, <3>2
  <2>4. chunk \in SUBSET U
    BY <2>3
  <2>5. ScheduleSeeds(k) = Issue(k, {asked})
    BY <1>2 DEF ScheduleSeeds
  <2> HIDE DEF chunk, U
  <2>6. k.graph.anchor \in Block
    BY GraphParts DEF KernelOK, DataOK, TreeOK
  <2>7. asked \in Payload /\ asked.kind = "seeds" /\ asked.items = chunk
    BY <2>1, <2>4, <2>6 DEF Req, Payload
  <2> HIDE DEF asked
  <2>8. \A r \in k.pending : Apart(asked, r.payload)
    <3> SUFFICES ASSUME NEW r \in k.pending, r.payload.kind = "seeds"
                 PROVE  asked.items \cap r.payload.items = {}
      BY <2>7 DEF Apart
    <3>1. r.payload.items \subseteq Covered(k, "seeds")
      BY DEF Covered, InFlight
    <3>. QED
      BY <2>1, <2>4, <2>7, <3>1
  <2>9. IsFiniteSet({asked})
    BY FS_Singleton
  <2>10. asked.kind # "range" /\ asked.items \subseteq k.verified
    BY <2>1, <2>4, <2>7
  <2>. QED
    BY <2>5, <2>7, <2>8, <2>9, <2>10, IssueAsks
<1>. QED
  BY <1>1, <1>2

\* A scheduling pass: every gap of the ancestry is asked for, nothing twice.
LEMMA ScheduleAllAsks ==
  ASSUME NEW k, KernelOK(k)
  PROVE  /\ Asks(k, ScheduleAll(k))
         /\ MissingParents(k.graph) \subseteq Targets(ScheduleAll(k), "header")
<1> DEFINE a == ScheduleHeaders(k)
           b == ScheduleLogs(a)
           c == SchedulePools(b)
           d == ScheduleTokens(c)
           e == ScheduleSeeds(d)
<1>1. Asks(k, a) /\ MissingParents(k.graph) \subseteq Targets(a, "header")
  BY HeadersAsk
<1>2. ScheduleAll(k) = e
  BY DEF ScheduleAll
<1> HIDE DEF a
<1>3. Asks(a, b)
  BY <1>1, LogsAsk DEF Asks, Sends
<1> HIDE DEF b
<1>4. Asks(b, c)
  BY <1>3, PoolsAsk DEF Asks, Sends
<1> HIDE DEF c
<1>5. Asks(c, d)
  BY <1>4, TokensAsk DEF Asks, Sends
<1> HIDE DEF d
<1>6. Asks(d, e)
  BY <1>5, SeedsAsk DEF Asks, Sends
<1> HIDE DEF e
<1>7. Asks(a, e)
  BY <1>3, <1>4, <1>5, <1>6, AsksTransitive
<1>8. Asks(k, e)
  BY <1>1, <1>7, AsksTransitive
<1>9. Targets(a, "header") \subseteq Targets(e, "header")
  BY <1>7 DEF Asks, Sends, Targets, InFlight
<1>. QED
  BY <1>1, <1>2, <1>8, <1>9

\* The runs of adjacent numbers share no number.
LEMMA RunsApart ==
  ASSUME NEW nums \in SUBSET Nat, NEW a \in nums, NEW b \in nums,
         NEW x \in nums, (a .. x) \cup (x .. a) \subseteq nums, (b .. x) \cup (x .. b) \subseteq nums
  PROVE  {m \in nums : (a .. m) \cup (m .. a) \subseteq nums} = {m \in nums : (b .. m) \cup (m .. b) \subseteq nums}
<1>1. ASSUME NEW c \in nums, NEW d \in nums, (c .. x) \cup (x .. c) \subseteq nums, (d .. x) \cup (x .. d) \subseteq nums,
             NEW m \in nums, (c .. m) \cup (m .. c) \subseteq nums
      PROVE  (d .. m) \cup (m .. d) \subseteq nums
  <2> SUFFICES ASSUME NEW y \in (d .. m) \cup (m .. d) PROVE y \in nums
    OBVIOUS
  <2>1. y \in (d .. x) \cup (x .. d) \cup (c .. x) \cup (x .. c) \cup (c .. m) \cup (m .. c)
    OBVIOUS
  <2>. QED
    BY <1>1, <2>1
<1>. QED
  BY <1>1

\* What a range asks for: holes on the path to the target, and their numbers.
CoversHoles(g, target, p) ==
  /\ p.items \subseteq ConnectedPath(g, target)
  /\ \A h \in p.items : g.nodes[h].level # "Complete" /\ g.nodes[h].number \in p.numbers

LEMMA RangesAsk ==
  ASSUME NEW k, KernelOK(k), NEW target
  PROVE  LET j == ScheduleRanges(k, target)
         IN /\ Sends(k, j) /\ InFlight(j, "seeds") = InFlight(k, "seeds")
            /\ \A p \in InFlight(j, "range") : p \in InFlight(k, "range") \/ CoversHoles(k.graph, target, p)
<1> DEFINE g == k.graph
           holes == MissingCompleteHoles(g, target, k.verified, CoveredNumbers(k))
           number(h) == g.nodes[h].number
           nums == {number(h) : h \in holes}
           run(n) == {m \in nums : (n .. m) \cup (m .. n) \subseteq nums}
           blocks(n) == {h \in holes : number(h) \in run(n)}
           asked(n) == Req("range", AnchorRef, blocks(n), {number(h) : h \in blocks(n)})
           payloads == {asked(n) : n \in nums}
<1>1. ScheduleRanges(k, target) = Issue(k, payloads)
  <2> DEFINE runs == {blocks(n) : n \in nums}
  <2>1. MissingCompleteRanges(g, target, k.verified, CoveredNumbers(k)) = runs
    BY DEF MissingCompleteRanges
  <2>2. payloads = {Req("range", AnchorRef, S, {number(h) : h \in S}) : S \in runs}
    OBVIOUS
  <2> HIDE DEF runs, payloads
  <2>. QED
    BY <2>1, <2>2 DEF ScheduleRanges
<1>2. /\ holes \subseteq Block
      /\ \A h \in holes : number(h) \in Nat /\ number(h) \notin CoveredNumbers(k)
      /\ \A h \in holes : h \in ConnectedPath(g, target) /\ g.nodes[h].level # "Complete"
  <2>1. ConnectedPath(g, target) \subseteq Present(g)
    BY AncestorsClosed DEF ConnectedPath, ConnectedSet
  <2>2. Present(g) \subseteq Block /\ g.nodes \in [Present(g) -> Node]
    BY GraphParts DEF KernelOK, DataOK, TreeOK
  <2>3. /\ holes \subseteq Present(g) /\ \A h \in holes : number(h) \notin CoveredNumbers(k)
        /\ \A h \in holes : h \in ConnectedPath(g, target) /\ g.nodes[h].level # "Complete"
    BY <2>1 DEF MissingCompleteHoles
  <2>. QED
    BY <2>2, <2>3 DEF Node
<1> HIDE DEF holes
<1>3. nums \subseteq Nat /\ \A n \in nums : n \notin CoveredNumbers(k)
  BY <1>2
<1>4. IsFiniteSet(nums)
  <2> DEFINE f == [h \in holes |-> number(h)]
  <2>1. nums = {f[h] : h \in holes} /\ DOMAIN f = holes
    OBVIOUS
  <2> HIDE DEF f, nums
  <2>2. IsFiniteSet(holes)
    BY <1>2, FiniteAssumption, FS_Subset
  <2>. QED
    BY <2>1, <2>2, FiniteImage
<1>5. \A n \in nums : {number(h) : h \in blocks(n)} = run(n) /\ blocks(n) \subseteq Block
                    /\ blocks(n) \subseteq holes
  BY <1>2
<1>6. \A n \in nums : \A h \in blocks(n) : number(h) \in run(n)
  OBVIOUS
<1> HIDE DEF blocks
<1>7. ASSUME NEW n \in nums
      PROVE  /\ asked(n) \in Payload /\ asked(n).kind = "range" /\ asked(n).numbers = run(n)
             /\ run(n) \subseteq nums /\ asked(n).items = blocks(n)
  <2>1. asked(n) = Req("range", AnchorRef, blocks(n), run(n)) /\ run(n) \in SUBSET Nat /\ blocks(n) \in SUBSET Block
        /\ run(n) \subseteq nums
    BY <1>3, <1>5
  <2> HIDE DEF asked, run
  <2>. QED
    BY <2>1 DEF Req, Payload
<1>8. ASSUME NEW n \in nums, NEW m \in nums, run(n) \cap run(m) # {}
      PROVE  asked(n) = asked(m)
  <2>1. PICK x \in nums : (n .. x) \cup (x .. n) \subseteq nums /\ (m .. x) \cup (x .. m) \subseteq nums
    BY <1>8
  <2>2. run(n) = run(m)
    <3> HIDE DEF nums
    <3>. QED
      BY <1>3, <2>1, RunsApart
  <2> HIDE DEF run, nums
  <2>. QED
    BY <2>2 DEF blocks
<1>9. IsFiniteSet(payloads)
  <2> DEFINE f == [n \in nums |-> asked(n)]
  <2>1. payloads = {f[n] : n \in nums} /\ DOMAIN f = nums
    OBVIOUS
  <2> HIDE DEF f, nums, payloads
  <2>. QED
    BY <1>4, <2>1, FiniteImage
<1>10. \A n \in nums : CoversHoles(g, target, asked(n))
  <2> HIDE DEF asked, run, nums
  <2>. QED
    BY <1>2, <1>5, <1>7, <1>6 DEF CoversHoles
<1> HIDE DEF run, asked, nums
<1>11. payloads \in SUBSET Payload
  BY <1>7
<1>12. \A p, q \in payloads : p # q => Apart(p, q)
  BY <1>7, <1>8 DEF Apart
<1>13. \A p \in payloads, r \in k.pending : Apart(p, r.payload)
  <2> SUFFICES ASSUME NEW p \in payloads, NEW r \in k.pending, r.payload.kind = "range"
               PROVE  p.numbers \cap r.payload.numbers = {}
    BY <1>7 DEF Apart
  <2>1. r.payload.numbers \subseteq CoveredNumbers(k)
    BY DEF CoveredNumbers, InFlight
  <2>2. p.numbers \subseteq nums
    BY <1>7
  <2>. QED
    BY <1>3, <2>1, <2>2
<1>14. \A p \in payloads : CoversHoles(g, target, p) /\ p.kind = "range"
  BY <1>7, <1>10
<1> HIDE DEF payloads
<1>15. \A p \in payloads : p.kind = "range"
  BY <1>14
<1>16. /\ Sends(k, ScheduleRanges(k, target))
       /\ \A kind : InFlight(ScheduleRanges(k, target), kind)
                     = InFlight(k, kind) \cup {p \in payloads : p.kind = kind}
  BY <1>1, <1>9, <1>11, <1>12, <1>13, IssueSends
<1> DEFINE j == ScheduleRanges(k, target)
<1> HIDE DEF j
<1>17. /\ InFlight(j, "range") = InFlight(k, "range") \cup payloads
       /\ InFlight(j, "seeds") = InFlight(k, "seeds")
  <2>1. \A kind : InFlight(j, kind) = InFlight(k, kind) \cup {p \in payloads : p.kind = kind}
    BY <1>16 DEF j
  <2>2. /\ InFlight(j, "range") = InFlight(k, "range") \cup {p \in payloads : p.kind = "range"}
        /\ InFlight(j, "seeds") = InFlight(k, "seeds") \cup {p \in payloads : p.kind = "seeds"}
    BY <2>1
  <2>. QED
    BY <1>15, <2>2
<1>. QED
  BY <1>14, <1>16, <1>17 DEF j

\* One probe at a time.
LEMMA ProbeAsks ==
  ASSUME NEW k, KernelOK(k), NEW h, NEW number
  PROVE  Asks(k, ProbeIfOrphaned(k, h, number))
<1>1. CASE ProbeIfOrphaned(k, h, number) = k
  BY <1>1, AsksNothing
<1>2. CASE ProbeIfOrphaned(k, h, number) # k
  <2> DEFINE asked == Req("probe", AnchorRef, {}, {k.graph.number})
  <2>1. ProbeIfOrphaned(k, h, number) = Issue(k, {asked}) /\ InFlight(k, "probe") = {}
    BY <1>2 DEF ProbeIfOrphaned
  <2>2. k.graph.number \in Nat
    BY GraphParts DEF KernelOK, DataOK, TreeOK
  <2>3. asked \in Payload /\ asked.kind = "probe"
    BY <2>2 DEF Req, Payload
  <2> HIDE DEF asked
  <2>4. \A r \in k.pending : Apart(asked, r.payload)
    BY <2>1, <2>3 DEF Apart, InFlight
  <2>5. IsFiniteSet({asked})
    BY FS_Singleton
  <2>. QED
    BY <2>1, <2>3, <2>4, <2>5, IssueAsks
<1>. QED
  BY <1>1, <1>2

(***************************************************************************)
(* The seed window.                                                        *)
(***************************************************************************)
\* No admission of a block of the window leaves X.
SeedClosed(X, window) ==
  \A g \in X, s \in window :
    WithDataCapped(g, s.hash, s.parent, SeedData(s.number, s.logs), SeedCap) \in X

\* The tree after the window lies in any such set that holds the bare anchor.
LEMMA SeedGraphIn ==
  ASSUME NEW anchor, NEW number, NEW window \in SUBSET SeedWindow,
         NEW X, NewGraph(anchor, number) \in X, SeedClosed(X, window)
  PROVE  SeedGraph(anchor, number, window) \in X
<1> DEFINE newest(S) == CHOOSE s \in S : \A t \in S : t.number <= s.number
           after(g, s) == WithDataCapped(g, s.hash, s.parent, SeedData(s.number, s.logs), SeedCap)
           step(f) == [S \in SUBSET window |->
                         IF S = {} THEN NewGraph(anchor, number) ELSE after(f[S \ {newest(S)}], newest(S))]
           from == CHOOSE f : f = step(f)
<1>1. IsFiniteSet(window)
  BY RealChainAssumption, FS_Subset
<1>2. ASSUME NEW S \in SUBSET window, S # {}
      PROVE  newest(S) \in S
  <2> DEFINE rank == [s \in S |-> s.number]
  <2>1. rank \in [S -> Int]
    BY RealChainAssumption DEF SeedBlock
  <2>2. IsFiniteSet(S)
    BY <1>1, FS_Subset
  <2>3. \E s \in S : \A t \in S : rank[t] <= rank[s]
    <3> HIDE DEF rank
    <3>. QED
      BY <1>2, <2>1, <2>2, HighestMember
  <2>4. \E s \in S : \A t \in S : t.number <= s.number
    BY <2>3
  <2>. QED
    BY <2>4
<1>3. SeedGraph(anchor, number, window) = from[window]
  BY DEF SeedGraph
<1> HIDE DEF newest
<1>4. from = step(from)
  <2> DEFINE pick == [S \in SUBSET window |-> newest(S)]
             next == [p \in window \X X |-> after(p[2], p[1])]
  <2>1. \A S \in SUBSET window : S # {} => pick[S] \in S
    BY <1>2
  <2>2. \A s \in window, g \in X : next[<<s, g>>] = after(g, s) /\ next[<<s, g>>] \in X
    BY DEF SeedClosed
  <2> HIDE DEF next, after
  <2>6. \A s \in window, g \in X : next[<<s, g>>] \in X
    BY <2>2
  <2>3. PICK f : IsFold(f, window, NewGraph(anchor, number), pick, next) /\ \A S \in SUBSET window : f[S] \in X
    <3> DEFINE base == NewGraph(anchor, number)
    <3> HIDE DEF pick, base
    <3>1. base \in X
      BY DEF base
    <3>2. \E f : IsFold(f, window, base, pick, next) /\ \A S \in SUBSET window : f[S] \in X
      <4>1. FoldsWithin(X, window, base, pick, next)
        BY <1>1, <2>1, <2>6, <3>1 DEF FoldsWithin
      <4>. QED
        BY <4>1, FoldWithin
    <3>. QED
      BY <3>2 DEF base
  <2>5. f = step(f)
    BY <1>2, <2>2, <2>3 DEF IsFold
  <2> HIDE DEF step
  <2>. QED
    BY <2>5
<1>5. \A S \in SUBSET window :
        from[S] = IF S = {} THEN NewGraph(anchor, number) ELSE after(from[S \ {newest(S)}], newest(S))
  BY <1>4
<1> HIDE DEF from, step
<1> DEFINE T == {S \in SUBSET window : from[S] \notin X}
<1>6. SUFFICES ASSUME T # {} PROVE FALSE
  BY <1>3
<1>7. PICK S \in T : \A U \in T : U \subseteq S => U = S
  <2>1. T \subseteq SUBSET window
    OBVIOUS
  <2> HIDE DEF T
  <2>. QED
    BY <1>1, <1>6, <2>1, SmallestSubset
<1>8. S # {} /\ newest(S) \in window
  BY <1>2, <1>5
<1>9. from[S \ {newest(S)}] \in X
  BY <1>2, <1>7, <1>8
<1>. QED
  BY <1>5, <1>8, <1>9 DEF SeedClosed

GraphValue == UNION {[anchor : Block, number : Nat, head : Block, nodes : [N -> Node]] : N \in SUBSET Block}

LEMMA GraphValues ==
  ASSUME NEW g
  PROVE  IsGraph(g) <=> g \in GraphValue
BY DEF IsGraph, GraphValue

LEMMA NewGraphTree ==
  ASSUME NEW anchor \in Block, NEW number \in Nat
  PROVE  LET g == NewGraph(anchor, number)
         IN /\ TreeOK(g) /\ g.anchor = anchor /\ g.number = number /\ g.head = anchor /\ Present(g) = {}
<1> DEFINE g == NewGraph(anchor, number)
<1>1. /\ IsGraph(g) /\ g.anchor = anchor /\ g.number = number /\ g.head = anchor /\ Present(g) = {}
  <2>1. [h \in {} |-> {}] \in [{} -> Node]
    OBVIOUS
  <2>. QED
    BY <2>1 DEF NewGraph, IsGraph, Present
<1> HIDE DEF g
<1>2. ConnectedSet(g) = {} /\ PendingSet(g) = {}
  BY <1>1 DEF ConnectedSet, PendingSet
<1>3. WellFormed(g)
  BY <1>1, <1>2 DEF WellFormed, HeadKnown, AnchorNotNode, ParentsConnected, PendingUnreachable, Grounded
<1>4. AtMostPending(g, PendingCap)
  BY <1>2, FS_EmptySet, RealChainAssumption DEF AtMostPending, PendingCap
<1>. QED
  BY <1>1, <1>3, <1>4 DEF TreeOK, g

\* An admission, live or of the seed window, keeps the tree a tree, moves neither the
\* anchor nor the head and adds no other block.
LEMMA AdmissionTree ==
  ASSUME NEW g, TreeOK(g), NEW hash \in Block, NEW parent \in Block, NEW data \in BlockData,
         NEW cap \in {MaxPending, SeedCap}
  PROVE  LET g2 == WithDataCapped(g, hash, parent, data, cap)
         IN /\ TreeOK(g2) /\ g2.anchor = g.anchor /\ g2.head = g.head /\ g2.number = g.number
            /\ Present(g2) \subseteq Present(g) \cup {hash}
<1> DEFINE g2 == WithDataCapped(g, hash, parent, data, cap)
<1>1. cap \in Nat /\ PendingCap \in Nat /\ cap <= PendingCap
  BY RealChainAssumption DEF PendingCap
<1>2. IsGraph(g2) /\ WellFormed(g2) /\ AtMostPending(g2, PendingCap)
  BY <1>1, AdmissionWellFormed DEF TreeOK
<1>3. g2.anchor = g.anchor /\ g2.head = g.head /\ \A h \in Present(g2) : h \in Present(g) \cup {hash}
  BY AdmissionHeaders DEF TreeOK
<1>4. g2.number = g.number
  <2>1. g = [anchor |-> g.anchor, number |-> g.number, head |-> g.head, nodes |-> g.nodes]
    BY GraphParts DEF TreeOK
  <2> DEFINE N == [anchor : {g.anchor}, number : {g.number}, head : {g.head}, nodes : {g.nodes}]
  <2>2. ASSUME NEW f PROVE [g EXCEPT !.nodes = f].number = g.number
    BY <2>1
  <2>3. ASSUME NEW h, NEW n
        PROVE  LET r == [g EXCEPT !.nodes = WithNode(@, h, n)]
               IN r.number = g.number /\ PromoteReachable(r, hash).number = r.number
    <3> DEFINE r == [g EXCEPT !.nodes = WithNode(@, h, n)]
    <3>1. DOMAIN r = {"anchor", "number", "head", "nodes"} /\ r.number = g.number
      BY <2>1
    <3> HIDE DEF r
    <3>2. PromoteReachable(r, hash).number = r.number
      BY <3>1 DEF PromoteReachable
    <3>. QED
      BY <3>1, <3>2 DEF r
  <2>. QED
    BY <2>2, <2>3 DEF WithDataCapped, InsertConnected, InsertPending
<1>. QED
  BY <1>2, <1>3, <1>4 DEF TreeOK

\* The seed window makes a tree at the anchor.
LEMMA SeedTree ==
  ASSUME NEW anchor \in Block, NEW number \in Nat, NEW window \in SUBSET SeedWindow
  PROVE  LET g == SeedGraph(anchor, number, window)
         IN TreeOK(g) /\ g.anchor = anchor /\ g.number = number
<1> DEFINE X == {g \in GraphValue : TreeOK(g) /\ g.anchor = anchor /\ g.number = number}
<1>1. NewGraph(anchor, number) \in X
  BY NewGraphTree, GraphValues DEF TreeOK
<1>2. ASSUME NEW g \in X, NEW s \in window
      PROVE  WithDataCapped(g, s.hash, s.parent, SeedData(s.number, s.logs), SeedCap) \in X
  <2>1. s.hash \in Block /\ s.parent \in Block /\ SeedData(s.number, s.logs) \in BlockData
    BY RealChainAssumption DEF SeedBlock, SeedData, BlockData, BloomValue, NoBloom, Level
  <2> HIDE DEF X
  <2>2. TreeOK(g)
    BY DEF X
  <2>5. g.anchor = anchor /\ g.number = number
    BY DEF X
  <2> DEFINE h == s.hash
             p == s.parent
             data == SeedData(s.number, s.logs)
             g2 == WithDataCapped(g, h, p, data, SeedCap)
  <2>3. TreeOK(g2) /\ g2.anchor = g.anchor /\ g2.number = g.number
    <3> HIDE DEF data, h, p
    <3>1. SeedCap \in {MaxPending, SeedCap} /\ data \in BlockData /\ h \in Block /\ p \in Block
      BY <2>1 DEF data, h, p
    <3>. QED
      BY <2>2, <3>1, AdmissionTree
  <2> HIDE DEF g2
  <2>4. g2 \in X
    BY <2>3, <2>5, GraphValues DEF TreeOK, X
  <2>. QED
    BY <2>4 DEF g2
<1> HIDE DEF X
<1>3. SeedGraph(anchor, number, window) \in X
  BY <1>1, <1>2, SeedGraphIn DEF SeedClosed
<1>. QED
  BY <1>3 DEF X

(***************************************************************************)
(* The steps of a handler that change the data.                            *)
(***************************************************************************)
\* From k to j no request changes.
SameRequests(k, j) == j.pending = k.pending /\ j.wire = k.wire /\ j.ghosts = k.ghosts

\* Nothing is staged for a block of the tree.
Unstaged(k) == DOMAIN k.staging \cap Present(k.graph) = {}

LEMMA GraphSet ==
  ASSUME NEW k, KernelOK(k), NEW g, TreeOK(g)
  PROVE  LET j == [k EXCEPT !.graph = g]
         IN /\ KernelOK(j) /\ SameRequests(k, j) /\ j.graph = g /\ j.staging = k.staging
            /\ j.snapshot = k.snapshot /\ j.verified = k.verified /\ j.rejected = k.rejected
            /\ j.tokens = k.tokens
<1> DEFINE j == [k EXCEPT !.graph = g]
<1>1. /\ Fields(j) /\ SameRequests(k, j) /\ j.graph = g /\ j.staging = k.staging
      /\ j.snapshot = k.snapshot /\ j.verified = k.verified /\ j.rejected = k.rejected
      /\ j.tokens = k.tokens
  BY DEF KernelOK, DataOK, Fields, KernelFields, SameRequests
<1> HIDE DEF j
<1>2. KernelOK(j)
  BY <1>1 DEF KernelOK, DataOK, RequestsOK, SameRequests
<1>. QED
  BY <1>1, <1>2 DEF j

\* j is k with another tree; nothing else changes but perhaps what is staged.
Regraphs(k, j) ==
  /\ KernelOK(j) /\ SameRequests(k, j)
  /\ j.snapshot = k.snapshot /\ j.verified = k.verified /\ j.rejected = k.rejected /\ j.tokens = k.tokens
  /\ j.graph.anchor = k.graph.anchor

LEMMA AdmitOK ==
  ASSUME NEW k, KernelOK(k), NEW c \in Header
  PROVE  LET j == Admit(k, c)
         IN /\ Regraphs(k, j) /\ j.staging = k.staging
            /\ Present(j.graph) \subseteq Present(k.graph) \cup {c.hash}
<1> DEFINE hash == c.hash
           parent == c.parent
           data == HeaderData(c.number, c.bloom)
           g2 == WithDataCapped(k.graph, hash, parent, data, MaxPending)
<1>1. hash \in Block /\ parent \in Block /\ data \in BlockData
  BY DEF Header, HeaderData, BlockData, Level, LogMap
<1>2. Admit(k, c) = [k EXCEPT !.graph = g2]
  BY DEF Admit, WithBlockCapped
<1>3. TreeOK(k.graph) /\ MaxPending \in {MaxPending, SeedCap}
  BY DEF KernelOK, DataOK
<1> HIDE DEF hash, parent, data
<1>4. TreeOK(g2) /\ g2.anchor = k.graph.anchor /\ Present(g2) \subseteq Present(k.graph) \cup {hash}
  BY <1>1, <1>3, AdmissionTree
<1> HIDE DEF g2
<1>. QED
  BY <1>2, <1>4, GraphSet DEF Regraphs, hash

LEMMA WithHeadOK ==
  ASSUME NEW k, KernelOK(k), NEW h \in Block
  PROVE  LET j == WithHead(k, h)
         IN Regraphs(k, j) /\ j.staging = k.staging /\ Present(j.graph) = Present(k.graph)
<1> DEFINE g2 == WithObservedHead(k.graph, h)
<1>1. IsGraph(k.graph) /\ WellFormed(k.graph) /\ AtMostPending(k.graph, PendingCap) /\ PendingCap \in Nat
  BY RealChainAssumption DEF KernelOK, DataOK, TreeOK, PendingCap
<1>2. /\ IsGraph(g2) /\ WellFormed(g2) /\ Present(g2) = Present(k.graph)
      /\ PendingSet(g2) \subseteq PendingSet(k.graph)
  BY <1>1, HeadWellFormed
<1>3. g2.anchor = k.graph.anchor
  BY <1>1, GraphParts DEF WithObservedHead
<1>4. WithHead(k, h) = [k EXCEPT !.graph = g2]
  BY DEF WithHead
<1> HIDE DEF g2
<1>5. TreeOK(g2)
  BY <1>1, <1>2, AtMostSubset DEF TreeOK
<1>. QED
  BY <1>2, <1>3, <1>4, <1>5, GraphSet DEF Regraphs

LEMMA StreamedTree ==
  ASSUME NEW g, TreeOK(g), NEW h \in Block, NEW logs \in LogMap
  PROVE  LET g2 == WithStreamedLogs(g, h, logs)
         IN /\ TreeOK(g2) /\ g2.anchor = g.anchor /\ Present(g2) = Present(g)
            /\ PendingSet(g2) = PendingSet(g) /\ MissingParents(g2) = MissingParents(g)
<1> DEFINE g2 == WithStreamedLogs(g, h, logs)
<1>1. IsGraph(g) /\ WellFormed(g) /\ AtMostPending(g, PendingCap) /\ PendingCap \in Nat
  BY RealChainAssumption DEF TreeOK, PendingCap
<1>2. IsGraph(g2) /\ WellFormed(g2) /\ PendingSet(g2) = PendingSet(g) /\ g2.anchor = g.anchor
  BY <1>1, StreamedLogsWellFormed
<1>3. Present(g2) = Present(g) /\ \A x \in Present(g) : g2.nodes[x].parent = g.nodes[x].parent
  BY <1>1, GraphParts DEF WithStreamedLogs, Present, Node
<1> HIDE DEF g2
<1>4. AtMostPending(g2, PendingCap)
  BY <1>1, <1>2, AtMostSubset
<1>5. MissingParents(g2) = MissingParents(g)
  BY <1>2, <1>3 DEF MissingParents, PendingSet
<1>. QED
  BY <1>2, <1>3, <1>4, <1>5 DEF TreeOK, g2

LEMMA StreamedOK ==
  ASSUME NEW k, KernelOK(k), NEW h \in Block, NEW logs \in LogMap
  PROVE  LET j == Streamed(k, h, logs)
         IN /\ Regraphs(k, j) /\ j.staging = k.staging /\ Present(j.graph) = Present(k.graph)
            /\ MissingParents(j.graph) = MissingParents(k.graph)
<1> DEFINE g2 == WithStreamedLogs(k.graph, h, logs)
<1>1. TreeOK(k.graph)
  BY DEF KernelOK, DataOK
<1>2. /\ TreeOK(g2) /\ g2.anchor = k.graph.anchor /\ Present(g2) = Present(k.graph)
      /\ MissingParents(g2) = MissingParents(k.graph)
  BY <1>1, StreamedTree
<1>3. Streamed(k, h, logs) = [k EXCEPT !.graph = g2]
  BY DEF Streamed
<1> HIDE DEF g2
<1>. QED
  BY <1>2, <1>3, GraphSet DEF Regraphs

\* A block that entered the tree leaves nothing staged behind.
LEMMA DrainedOK ==
  ASSUME NEW k, KernelOK(k), NEW h
  PROVE  LET j == Drained(k, h)
         IN /\ Regraphs(k, j) /\ Present(j.graph) = Present(k.graph)
            /\ MissingParents(j.graph) = MissingParents(k.graph)
            /\ DOMAIN k.staging \cap Present(k.graph) \subseteq {h} => Unstaged(j)
<1>1. CASE h \notin Present(k.graph) \cap DOMAIN k.staging
  BY <1>1 DEF Drained, Unstaged, Regraphs, SameRequests
<1>2. CASE h \in Present(k.graph) \cap DOMAIN k.staging
  <2> DEFINE left == [b \in DOMAIN k.staging \ {h} |-> k.staging[b]]
             i == [k EXCEPT !.staging = left]
             logs == k.staging[h]
             j == Streamed(i, h, logs)
  <2>1. Drained(k, h) = j
    BY <1>2 DEF Drained
  <2>2. PICK S \in SUBSET Block : k.staging \in [S -> LogMap]
    BY DEF KernelOK, DataOK
  <2>3. h \in Block /\ logs \in LogMap /\ left \in [S \ {h} -> LogMap] /\ S \ {h} \in SUBSET Block
    BY <1>2, <2>2
  <2>4. DOMAIN left = DOMAIN k.staging \ {h}
    OBVIOUS
  <2> HIDE DEF left, logs
  <2>5. /\ Fields(i) /\ SameRequests(k, i) /\ i.graph = k.graph /\ i.staging = left
        /\ i.snapshot = k.snapshot /\ i.verified = k.verified /\ i.rejected = k.rejected /\ i.tokens = k.tokens
    BY DEF KernelOK, DataOK, Fields, KernelFields, SameRequests
  <2> HIDE DEF i
  <2>6. KernelOK(i)
    BY <2>3, <2>5 DEF KernelOK, DataOK, RequestsOK, SameRequests
  <2>7. /\ Regraphs(i, j) /\ j.staging = i.staging /\ Present(j.graph) = Present(i.graph)
        /\ MissingParents(j.graph) = MissingParents(i.graph)
    BY <2>3, <2>6, StreamedOK
  <2> HIDE DEF j
  <2>8. Regraphs(k, j)
    BY <2>5, <2>7 DEF Regraphs, SameRequests
  <2>. QED
    BY <2>1, <2>4, <2>5, <2>7, <2>8 DEF Unstaged
<1>. QED
  BY <1>1, <1>2

\* An admission, with or without a new head, and the drain that follows it.
LEMMA AdmittedDrained ==
  ASSUME NEW k, KernelOK(k), Unstaged(k), NEW c \in Header
  PROVE  LET d == Drained(Admit(k, c), c.hash)
             e == Drained(WithHead(Admit(k, c), c.hash), c.hash)
         IN /\ Regraphs(k, d) /\ Unstaged(d)
            /\ Regraphs(k, e) /\ Unstaged(e)
<1> DEFINE a == Admit(k, c)
           h == c.hash
           w == WithHead(a, h)
<1>1. h \in Block
  BY DEF Header
<1>2. Regraphs(k, a) /\ a.staging = k.staging /\ Present(a.graph) \subseteq Present(k.graph) \cup {h}
  BY AdmitOK
<1>3. DOMAIN a.staging \cap Present(a.graph) \subseteq {h} /\ KernelOK(a)
  BY <1>2 DEF Unstaged, Regraphs
<1> HIDE DEF a, h
<1>4. Regraphs(a, w) /\ w.staging = a.staging /\ Present(w.graph) = Present(a.graph)
  BY <1>1, <1>3, WithHeadOK
<1> HIDE DEF w
<1>5. DOMAIN w.staging \cap Present(w.graph) \subseteq {h} /\ KernelOK(w)
  BY <1>3, <1>4 DEF Regraphs
<1>6. Regraphs(a, Drained(a, h)) /\ Unstaged(Drained(a, h))
  BY <1>3, DrainedOK
<1>7. Regraphs(w, Drained(w, h)) /\ Unstaged(Drained(w, h))
  BY <1>5, DrainedOK
<1>8. Regraphs(k, Drained(a, h)) /\ Regraphs(k, Drained(w, h))
  BY <1>2, <1>4, <1>6, <1>7 DEF Regraphs, SameRequests
<1>. QED
  BY <1>6, <1>7, <1>8 DEF a, h, w

\* What an answered payload names.
LEMMA PayloadParts ==
  ASSUME NEW p \in Payload
  PROVE  /\ p.kind \in {"header", "logs"} => p.at \in Block
         /\ p.kind \in {"pools", "seeds"} => p.at \in Block /\ p.items \in SUBSET Pool
         /\ p.kind = "tokens" => p.items \in SUBSET Token
         /\ p.kind = "range" => p.items \in SUBSET Block
         /\ p.numbers \in SUBSET Nat
BY DEF Payload

\* Nothing but the tree's logs changes.
LEMMA RelogOK ==
  ASSUME NEW k, KernelOK(k), Unstaged(k), NEW g, TreeOK(g), g.anchor = k.graph.anchor,
         Present(g) = Present(k.graph)
  PROVE  LET j == [k EXCEPT !.graph = g] IN Regraphs(k, j) /\ Unstaged(j)
BY GraphSet DEF Regraphs, Unstaged

LEMMA CompleteInOK ==
  ASSUME NEW k, KernelOK(k), Unstaged(k), NEW h \in Block, NEW logs \in LogMap
  PROVE  LET j == CompleteIn(k, h, logs) IN Regraphs(k, j) /\ Unstaged(j)
<1> DEFINE g == k.graph
           g2 == WithCompleteLogs(g, h, logs)
<1>1. IsGraph(g) /\ WellFormed(g) /\ AtMostPending(g, PendingCap) /\ PendingCap \in Nat
  BY RealChainAssumption DEF KernelOK, DataOK, TreeOK, PendingCap
<1> HIDE DEF g
<1>2. IsGraph(g2) /\ WellFormed(g2) /\ PendingSet(g2) = PendingSet(g) /\ g2.anchor = g.anchor
  BY <1>1, CompleteLogsWellFormed
<1>3. Present(g2) = Present(g)
  BY <1>1, GraphParts DEF WithCompleteLogs, Present
<1> HIDE DEF g2
<1>4. TreeOK(g2)
  BY <1>1, <1>2, AtMostSubset DEF TreeOK
<1>. QED
  BY <1>2, <1>3, <1>4, RelogOK DEF CompleteIn, g, g2

\* The tree with the authoritative logs of several of its blocks.
Completed(g, logs) ==
  [g EXCEPT !.nodes =
     [h \in DOMAIN @ |-> IF h \in DOMAIN logs THEN [@[h] EXCEPT !.level = "Complete", !.logs = logs[h]] ELSE @[h]]]

LEMMA CompletedTree ==
  ASSUME NEW g, TreeOK(g), NEW logs, \A h \in DOMAIN logs : logs[h] \in LogMap
  PROVE  LET g2 == Completed(g, logs)
         IN /\ TreeOK(g2) /\ g2.anchor = g.anchor /\ g2.number = g.number /\ g2.head = g.head
            /\ Present(g2) = Present(g)
            /\ \A h \in Present(g) :
                 /\ g2.nodes[h].kind = g.nodes[h].kind /\ g2.nodes[h].parent = g.nodes[h].parent
                 /\ g2.nodes[h].number = g.nodes[h].number /\ g2.nodes[h].bloom = g.nodes[h].bloom
                 /\ h \in DOMAIN logs => g2.nodes[h].level = "Complete" /\ g2.nodes[h].logs = logs[h]
                 /\ h \notin DOMAIN logs => g2.nodes[h] = g.nodes[h]
<1> DEFINE f == [h \in DOMAIN g.nodes |->
                   IF h \in DOMAIN logs THEN [g.nodes[h] EXCEPT !.level = "Complete", !.logs = logs[h]]
                                        ELSE g.nodes[h]]
           g2 == Completed(g, logs)
<1>1. /\ g = [anchor |-> g.anchor, number |-> g.number, head |-> g.head, nodes |-> g.nodes]
      /\ g.anchor \in Block /\ g.number \in Nat /\ g.head \in Block
      /\ Present(g) \in SUBSET Block /\ g.nodes \in [Present(g) -> Node]
  BY GraphParts DEF TreeOK
<1>2. g2 = [anchor |-> g.anchor, number |-> g.number, head |-> g.head, nodes |-> f]
  <2>1. g2 = [g EXCEPT !.nodes = f]
    BY DEF Completed
  <2> HIDE DEF f, g2
  <2>. QED
    BY <1>1, <2>1
<1>3. ASSUME NEW h \in Present(g)
      PROVE  /\ f[h] \in Node
             /\ f[h].kind = g.nodes[h].kind /\ f[h].parent = g.nodes[h].parent
             /\ f[h].number = g.nodes[h].number /\ f[h].bloom = g.nodes[h].bloom
             /\ h \in DOMAIN logs => f[h].level = "Complete" /\ f[h].logs = logs[h]
             /\ h \notin DOMAIN logs => f[h] = g.nodes[h]
  <2>1. g.nodes[h] \in Node /\ h \in DOMAIN g.nodes
    BY <1>1
  <2>2. CASE h \in DOMAIN logs
    <3>1. f[h] = [g.nodes[h] EXCEPT !.level = "Complete", !.logs = logs[h]] /\ logs[h] \in LogMap
      BY <2>1, <2>2
    <3> HIDE DEF f
    <3>. QED
      BY <2>1, <2>2, <3>1 DEF Node, Level
  <2>3. CASE h \notin DOMAIN logs
    BY <2>1, <2>3
  <2>. QED
    BY <2>2, <2>3
<1>4. f \in [Present(g) -> Node]
  BY <1>3 DEF Present
<1> HIDE DEF f
<1>5. IsGraph(g2)
  BY <1>1, <1>2, <1>4, MakeGraph
<1>6. /\ g2.anchor = g.anchor /\ g2.number = g.number /\ g2.head = g.head /\ g2.nodes = f
      /\ Present(g2) = Present(g)
  BY <1>2, <1>4 DEF Present
<1> HIDE DEF g2
<1>7. HeadKnown(g2) /\ WellFormed(g)
  BY <1>6 DEF TreeOK, WellFormed, HeadKnown
<1>8. WellFormed(g2) /\ PendingSet(g2) = PendingSet(g)
  BY <1>3, <1>6, <1>7, SameShapeWellFormed
<1>9. PendingCap \in Nat /\ AtMostPending(g, PendingCap)
  BY RealChainAssumption DEF TreeOK, PendingCap
<1>10. AtMostPending(g2, PendingCap)
  BY <1>8, <1>9, AtMostSubset
<1>. QED
  BY <1>3, <1>5, <1>6, <1>8, <1>10 DEF TreeOK, g2

LEMMA CompletedAllOK ==
  ASSUME NEW k, KernelOK(k), Unstaged(k), NEW logs, \A h \in DOMAIN logs : logs[h] \in LogMap
  PROVE  LET j == CompletedAll(k, logs)
         IN Regraphs(k, j) /\ Unstaged(j) /\ j.graph = Completed(k.graph, logs)
<1> DEFINE g2 == Completed(k.graph, logs)
<1>1. TreeOK(k.graph)
  BY DEF KernelOK, DataOK
<1>2. CompletedAll(k, logs) = [k EXCEPT !.graph = g2]
  BY DEF CompletedAll, Completed
<1>3. TreeOK(g2) /\ g2.anchor = k.graph.anchor /\ Present(g2) = Present(k.graph)
  BY <1>1, CompletedTree
<1> HIDE DEF g2
<1>. QED
  BY <1>2, <1>3, RelogOK, GraphSet DEF g2

\* The logs a range answer stands for.
RangeLogs(covered, responded) == [h \in covered \cup responded |-> IF h \in responded THEN LogsOf[h] ELSE {}]

LEMMA CompleteRangeOK ==
  ASSUME NEW k, KernelOK(k), Unstaged(k), NEW covered, NEW responded \in SUBSET Block
  PROVE  LET j == CompleteRange(k, covered, responded)
         IN Regraphs(k, j) /\ Unstaged(j) /\ j.graph = Completed(k.graph, RangeLogs(covered, responded))
<1> DEFINE logs == RangeLogs(covered, responded)
<1>1. \A h \in DOMAIN logs : logs[h] \in LogMap
  BY RealChainAssumption DEF RangeLogs, LogMap
<1>2. CompleteRange(k, covered, responded) = CompletedAll(k, logs)
  BY DEF CompleteRange, RangeLogs
<1> HIDE DEF logs
<1>. QED
  BY <1>1, <1>2, CompletedAllOK DEF logs

\* The registries and the snapshot.
LEMMA RegistryOK ==
  ASSUME NEW k, KernelOK(k), Unstaged(k), NEW verified \in SUBSET Pool, NEW rejected \in SUBSET Pool
  PROVE  LET j == [k EXCEPT !.verified = verified, !.rejected = rejected]
         IN /\ KernelOK(j) /\ Unstaged(j) /\ SameRequests(k, j)
            /\ j.graph = k.graph /\ j.snapshot = k.snapshot /\ j.verified = verified
<1> DEFINE j == [k EXCEPT !.verified = verified, !.rejected = rejected]
<1>1. /\ DOMAIN j = DOMAIN k
      /\ j.graph = k.graph /\ j.snapshot = k.snapshot /\ j.staging = k.staging
      /\ j.verified = verified /\ j.rejected = rejected /\ j.tokens = k.tokens
      /\ j.pending = k.pending /\ j.wire = k.wire /\ j.ghosts = k.ghosts
  BY DEF KernelOK, DataOK, Fields, KernelFields
<1> HIDE DEF j
<1>2. KernelOK(j) /\ Unstaged(j) /\ SameRequests(k, j)
  BY <1>1 DEF KernelOK, DataOK, Fields, RequestsOK, SameRequests, Unstaged
<1>. QED
  BY <1>1, <1>2 DEF j

LEMMA TokensOK ==
  ASSUME NEW k, KernelOK(k), Unstaged(k), NEW tokens \in SUBSET Token
  PROVE  LET j == [k EXCEPT !.tokens = tokens]
         IN /\ KernelOK(j) /\ Unstaged(j) /\ SameRequests(k, j)
            /\ j.graph = k.graph /\ j.snapshot = k.snapshot /\ j.verified = k.verified
<1> DEFINE j == [k EXCEPT !.tokens = tokens]
<1>1. /\ DOMAIN j = DOMAIN k
      /\ j.graph = k.graph /\ j.snapshot = k.snapshot /\ j.staging = k.staging
      /\ j.verified = k.verified /\ j.rejected = k.rejected /\ j.tokens = tokens
      /\ j.pending = k.pending /\ j.wire = k.wire /\ j.ghosts = k.ghosts
  BY DEF KernelOK, DataOK, Fields, KernelFields
<1> HIDE DEF j
<1>2. KernelOK(j) /\ Unstaged(j) /\ SameRequests(k, j)
  BY <1>1 DEF KernelOK, DataOK, Fields, RequestsOK, SameRequests, Unstaged
<1>. QED
  BY <1>1, <1>2 DEF j

LEMMA SnapshotOK ==
  ASSUME NEW k, KernelOK(k), Unstaged(k), NEW snapshot, IsSnapshot(snapshot)
  PROVE  LET j == [k EXCEPT !.snapshot = snapshot]
         IN /\ KernelOK(j) /\ Unstaged(j) /\ SameRequests(k, j)
            /\ j.graph = k.graph /\ j.snapshot = snapshot /\ j.verified = k.verified
<1> DEFINE j == [k EXCEPT !.snapshot = snapshot]
<1>1. /\ DOMAIN j = DOMAIN k
      /\ j.graph = k.graph /\ j.snapshot = snapshot /\ j.staging = k.staging
      /\ j.verified = k.verified /\ j.rejected = k.rejected /\ j.tokens = k.tokens
      /\ j.pending = k.pending /\ j.wire = k.wire /\ j.ghosts = k.ghosts
  BY DEF KernelOK, DataOK, Fields, KernelFields
<1> HIDE DEF j
<1>2. KernelOK(j) /\ Unstaged(j) /\ SameRequests(k, j)
  BY <1>1 DEF KernelOK, DataOK, Fields, RequestsOK, SameRequests, Unstaged
<1>. QED
  BY <1>1, <1>2 DEF j

\* A state is a set of logs of the pool's real history.
LEMMA TrueStates ==
  ASSUME NEW b \in Block, NEW p \in Pool
  PROVE  TrueState[b][p] = TrueStateAt(b, p) /\ TrueStateAt(b, p) \in SUBSET Log
<1> DEFINE run == {e \in TrueLine(b) \X Log : e[2] \in LogsOf[e[1]] /\ LogPool[e[2]] = p}
           newest == CHOOSE e \in {e \in run : e[2] \in Absolute} :
                     \A d \in {e1 \in run : e1[2] \in Absolute} \ {e} : TrueEarlier(d, e)
<1>1. TrueStateAt(b, p) \in {{e[2] : e \in run}, {e[2] : e \in {d \in run : ~TrueEarlier(d, newest)}}}
  BY DEF TrueStateAt
<1>2. \A e \in run : e[2] \in Log
  OBVIOUS
<1> HIDE DEF run, newest
<1>3. TrueStateAt(b, p) \in SUBSET Log
  BY <1>1, <1>2
<1>. QED
  BY <1>3 DEF TrueState

\* Nothing leaves the snapshot, and only reads of P made at the anchor enter it.
Reads(k, j, at, P, states) ==
  /\ DOMAIN k.snapshot \subseteq DOMAIN j.snapshot
  /\ \A p \in DOMAIN j.snapshot :
       \/ p \in DOMAIN k.snapshot /\ j.snapshot[p] = k.snapshot[p]
       \/ at = k.graph.anchor /\ p \in P /\ j.snapshot[p] = states[p]

LEMMA SeededSnapshot ==
  ASSUME NEW k, KernelOK(k), Unstaged(k), NEW at, NEW P \in SUBSET Pool, NEW states \in [P -> SUBSET Log]
  PROVE  LET j == Seeded(k, at, states)
         IN /\ KernelOK(j) /\ Unstaged(j) /\ SameRequests(k, j) /\ j.graph = k.graph /\ j.verified = k.verified
            /\ Reads(k, j, at, P, states)
<1>1. CASE at # k.graph.anchor
  BY <1>1 DEF Seeded, SameRequests, Reads
<1>2. CASE at = k.graph.anchor
  <2> DEFINE s == k.snapshot
             t == [p \in DOMAIN s \cup DOMAIN states |-> IF p \in DOMAIN states THEN states[p] ELSE s[p]]
  <2>1. PICK S \in SUBSET Pool : s \in [S -> SUBSET Log]
    BY DEF KernelOK, DataOK, IsSnapshot
  <2>2. t \in [S \cup P -> SUBSET Log] /\ DOMAIN t = DOMAIN s \cup P
    BY <2>1
  <2>3. IsSnapshot(t)
    <3> HIDE DEF t
    <3>1. S \cup P \in SUBSET Pool
      OBVIOUS
    <3>. QED
      BY <2>2, <3>1 DEF IsSnapshot
  <2>4. \A p \in DOMAIN t : \/ p \in DOMAIN s /\ t[p] = s[p]
                            \/ p \in P /\ t[p] = states[p]
    OBVIOUS
  <2>5. Seeded(k, at, states) = [k EXCEPT !.snapshot = t]
    BY <1>2 DEF Seeded
  <2> HIDE DEF t
  <2> DEFINE j == [k EXCEPT !.snapshot = t]
  <2>7. /\ KernelOK(j) /\ Unstaged(j) /\ SameRequests(k, j)
        /\ j.graph = k.graph /\ j.snapshot = t /\ j.verified = k.verified
    BY <2>3, SnapshotOK
  <2> HIDE DEF j
  <2>. QED
    BY <1>2, <2>2, <2>4, <2>5, <2>7 DEF j, Reads
<1>. QED
  BY <1>1, <1>2

LEMMA StagedOK ==
  ASSUME NEW k, KernelOK(k), Unstaged(k), NEW h \in Block \ Present(k.graph), NEW logs \in LogMap
  PROVE  LET j == Staged(k, h, logs)
         IN /\ KernelOK(j) /\ Unstaged(j) /\ SameRequests(k, j)
            /\ j.graph = k.graph /\ j.snapshot = k.snapshot /\ j.verified = k.verified
<1>1. CASE Staged(k, h, logs) = k
  BY <1>1 DEF SameRequests
<1>2. CASE Staged(k, h, logs) # k
  <2> DEFINE s == k.staging
             held == IF h \in DOMAIN s THEN s[h] ELSE {}
             all == Extended(held, logs)
             t == [b \in DOMAIN s \cup {h} |-> IF b # h THEN s[b] ELSE all]
             j == [k EXCEPT !.staging = t]
  <2>1. PICK S \in SUBSET Block : s \in [S -> LogMap]
    BY DEF KernelOK, DataOK
  <2>7. all \in LogMap
    <3>1. held \in LogMap
      BY <2>1 DEF LogMap
    <3> HIDE DEF held
    <3>. QED
      BY <3>1, ExtendedMap
  <2>8. Staged(k, h, logs) = j
    BY <1>2 DEF Staged
  <2> HIDE DEF all
  <2>2. t \in [S \cup {h} -> LogMap] /\ S \cup {h} \in SUBSET Block /\ DOMAIN t = DOMAIN s \cup {h}
    BY <2>1, <2>7
  <2> HIDE DEF t
  <2>4. /\ DOMAIN j = DOMAIN k /\ j.graph = k.graph /\ j.snapshot = k.snapshot /\ j.staging = t
        /\ j.verified = k.verified /\ j.rejected = k.rejected /\ j.tokens = k.tokens
        /\ j.pending = k.pending /\ j.wire = k.wire /\ j.ghosts = k.ghosts
    BY DEF KernelOK, DataOK, Fields, KernelFields
  <2> HIDE DEF j
  <2>. QED
    BY <2>2, <2>8, <2>4 DEF KernelOK, DataOK, Fields, RequestsOK, SameRequests, Unstaged
<1>. QED
  BY <1>1, <1>2

\* The tree of an activation.
Opens(j, anchor, number, window) ==
  /\ j.graph = SeedGraph(anchor, number, window)
  /\ j.graph.anchor = anchor /\ j.graph.number = number

\* A new activation: the tree of the window, nothing staged, every gap asked for.
LEMMA ActivatedOK ==
  ASSUME NEW anchor \in Block, NEW number \in Nat, NEW window \in SUBSET SeedWindow,
         NEW verified \in SUBSET Pool, NEW rejected \in SUBSET Pool, NEW tokens \in SUBSET Token,
         NEW late \in SUBSET Message, IsFiniteSet(late)
  PROVE  LET j == Activated(anchor, number, window, verified, rejected, tokens, late)
         IN /\ KernelOK(j) /\ Unstaged(j)
            /\ Opens(j, anchor, number, window)
            /\ DOMAIN j.snapshot = {} /\ DOMAIN j.staging = {} /\ j.verified = verified
            /\ MissingParents(j.graph) \subseteq Targets(j, "header")
            /\ InFlight(j, "range") = {} /\ InFlight(j, "seeds") = {} /\ j.ghosts \subseteq late
<1> DEFINE graph == SeedGraph(anchor, number, window)
           none == [p \in {} |-> {}]
           k == [graph |-> graph, snapshot |-> none, verified |-> verified,
                 rejected |-> rejected, tokens |-> tokens, staging |-> none,
                 pending |-> {}, wire |-> {}, ghosts |-> late]
           H == MissingParents(graph)
           j == Issue(k, {Req("header", h, {}, {}) : h \in H})
<1>1. Activated(anchor, number, window, verified, rejected, tokens, late) = j
  BY DEF Activated
<1>2. TreeOK(graph) /\ graph.anchor = anchor /\ graph.number = number
  BY SeedTree
<1>3. none \in [{} -> SUBSET Log] /\ {} \in SUBSET Pool /\ {} \in SUBSET Block /\ DOMAIN none = {}
  OBVIOUS
<1> HIDE DEF graph, none
<1>4. /\ Fields(k) /\ k.graph = graph /\ k.snapshot = none /\ k.staging = none
      /\ k.verified = verified /\ k.rejected = rejected /\ k.tokens = tokens
      /\ k.pending = {} /\ k.wire = {} /\ k.ghosts = late
  BY DEF Fields, KernelFields
<1> HIDE DEF k
<1>5. KernelOK(k)
  <2>1. DataOK(k)
    BY <1>2, <1>3, <1>4 DEF DataOK, IsSnapshot
  <2>2. RequestsOK(k, RequestTTL - 1)
    BY <1>4, FS_EmptySet DEF RequestsOK
  <2>. QED
    BY <2>1, <2>2 DEF KernelOK
<1>6. H \in SUBSET Block
  BY <1>2, MissingAreBlocks
<1>7. InFlight(k, "range") = {} /\ InFlight(k, "seeds") = {} /\ Targets(k, "header") = {}
  BY <1>4 DEF InFlight, Targets
<1> HIDE DEF H
<1>8. /\ Asks(k, j) /\ Targets(j, "header") = Targets(k, "header") \cup H
      /\ InFlight(j, "seeds") = InFlight(k, "seeds")
  BY <1>5, <1>6, <1>7, BlockAsks
<1> HIDE DEF j
<1>9. /\ KernelOK(j) /\ j.graph = graph /\ j.snapshot = none /\ j.staging = none /\ j.verified = verified
      /\ j.ghosts \subseteq late /\ InFlight(j, "range") = {} /\ InFlight(j, "seeds") = {}
  BY <1>4, <1>7, <1>8 DEF Asks, Sends, Keeps
<1>10. H \subseteq Targets(j, "header")
  BY <1>8
<1>. QED
  BY <1>1, <1>2, <1>3, <1>9, <1>10 DEF Unstaged, graph, H, Opens

LEMMA PrunedOK ==
  ASSUME NEW k, KernelOK(k)
  PROVE  LET j == Pruned(k)
         IN /\ KernelOK(j) /\ Unstaged(j) /\ j.graph = k.graph /\ j.snapshot = k.snapshot
            /\ j.verified = k.verified /\ j.pending \subseteq k.pending /\ j.wire = k.wire /\ j.ghosts = k.ghosts
<1> DEFINE kept == {r \in k.pending : Retained(r, Present(k.graph))}
           none == [b \in {} |-> {}]
           j == Pruned(k)
<1>1. none \in [{} -> SUBSET Log] /\ DOMAIN none = {} /\ kept \subseteq k.pending
  OBVIOUS
<1>2. j = [k EXCEPT !.pending = kept, !.staging = none]
  BY DEF Pruned
<1> HIDE DEF kept, none, j
<1>3. /\ DOMAIN j = DOMAIN k /\ j.graph = k.graph /\ j.snapshot = k.snapshot /\ j.staging = none
      /\ j.verified = k.verified /\ j.rejected = k.rejected /\ j.tokens = k.tokens
      /\ j.pending = kept /\ j.wire = k.wire /\ j.ghosts = k.ghosts
  BY <1>2 DEF KernelOK, DataOK, Fields, KernelFields
<1>4. DataOK(j)
  <2>1. {} \in SUBSET Block /\ j.staging \in [{} -> LogMap]
    BY <1>1, <1>3
  <2>. QED
    BY <1>3, <2>1 DEF KernelOK, DataOK, Fields
<1>5. RequestsOK(j, RequestTTL - 1)
  BY <1>1, <1>3, FS_Subset DEF KernelOK, RequestsOK
<1>. QED
  BY <1>1, <1>3, <1>4, <1>5 DEF KernelOK, Unstaged, j

\* Finality either leaves the tree, the snapshot and the requests as they are or makes
\* another anchor: then no block is pending and nothing is staged.
FinalityMoves(k, j, target) ==
  LET point == FinalizationPoint(k.graph, target, k.verified)
  IN /\ point # k.graph.anchor /\ j.graph = ReanchoredTo(k.graph, point)
     /\ j.graph.anchor = point /\ PendingSet(j.graph) = {}
     /\ j.snapshot = FoldedPoolStates(k.graph, k.snapshot, k.verified, point, "RequireComplete")
     /\ j.verified = k.verified /\ j.pending \subseteq k.pending /\ j.ghosts = k.ghosts

LEMMA FinalityStays ==
  ASSUME NEW k, KernelOK(k), NEW target, FinalizationPoint(k.graph, target, k.verified) = k.graph.anchor
  PROVE  \E j : /\ Keeps(k, j) /\ KernelOK(j) /\ SameRequests(k, j)
                /\ WithFinalizedBlockObserved(k, target) = ScheduleRanges(j, target)
<1> DEFINE f == FinalizedTo(k.graph, target, k.verified)
           snapshot == FinalizedStates(k.graph, target, k.snapshot, k.verified)
           moved == [k EXCEPT !.graph = f, !.snapshot = snapshot]
           kept == IF moved.graph.anchor = k.graph.anchor THEN moved ELSE Pruned(moved)
<1>1. f = k.graph /\ snapshot = k.snapshot
  BY DEF FinalizedTo, ReanchoredTo, FinalizedStates
<1>2. WithFinalizedBlockObserved(k, target) = ScheduleRanges(kept, target)
  BY DEF WithFinalizedBlockObserved
<1> HIDE DEF f, snapshot
<1>3. Keeps(k, moved) /\ SameRequests(k, moved)
  BY <1>1 DEF KernelOK, DataOK, Fields, KernelFields, Keeps, SameRequests
<1> HIDE DEF moved
<1>4. KernelOK(moved)
  BY <1>3, KeepsData DEF KernelOK, RequestsOK, SameRequests
<1>5. kept = moved
  BY <1>3 DEF Keeps
<1>. QED
  BY <1>2, <1>3, <1>4, <1>5

LEMMA FinalityMoved ==
  ASSUME NEW k, KernelOK(k), NEW target, FinalizationPoint(k.graph, target, k.verified) # k.graph.anchor
  PROVE  \E j : /\ KernelOK(j) /\ Unstaged(j) /\ FinalityMoves(k, j, target)
                /\ WithFinalizedBlockObserved(k, target) = ScheduleRanges(j, target)
<1> DEFINE g == k.graph
           point == FinalizationPoint(g, target, k.verified)
           f == ReanchoredTo(g, point)
           snapshot == FoldedPoolStates(g, k.snapshot, k.verified, point, "RequireComplete")
           moved == [k EXCEPT !.graph = f, !.snapshot = snapshot]
           j == Pruned(moved)
<1>1. IsGraph(g) /\ WellFormed(g) /\ AtMostPending(g, PendingCap) /\ PendingCap \in Nat /\ k.verified \in SUBSET Pool
      /\ IsSnapshot(k.snapshot)
  BY RealChainAssumption DEF KernelOK, DataOK, TreeOK, PendingCap
<1>2. point \in CanonicalPath(g) /\ point # g.anchor
  BY FinalizationPointGate
<1>3. point \in ConnectedSet(g)
  BY <1>2, AncestorsClosed DEF CanonicalPath, ConnectedPath
<1>4. FinalizedTo(g, target, k.verified) = f /\ FinalizedStates(g, target, k.snapshot, k.verified) = snapshot
  BY <1>2 DEF FinalizedTo, FinalizedStates
<1> HIDE DEF point, g
<1>5. IsGraph(f) /\ f.anchor = point /\ PendingSet(f) = {}
  BY <1>1, <1>2, <1>3, ReanchorParts
<1>6. WellFormed(f)
  BY <1>1, ReanchorWellFormed
<1>7. AtMostPending(f, PendingCap)
  BY <1>1, <1>5, AtMostSubset
<1>8. IsSnapshot(snapshot)
  BY <1>1, FoldedSnapshot
<1>9. TreeOK(f)
  BY <1>5, <1>6, <1>7 DEF TreeOK
<1> HIDE DEF f, snapshot
<1>10. /\ KernelOK(moved) /\ SameRequests(k, moved) /\ moved.graph = f /\ moved.snapshot = snapshot
       /\ moved.verified = k.verified
  <2>1. /\ DOMAIN moved = DOMAIN k /\ moved.graph = f /\ moved.snapshot = snapshot /\ moved.staging = k.staging
        /\ moved.verified = k.verified /\ moved.rejected = k.rejected /\ moved.tokens = k.tokens
        /\ moved.pending = k.pending /\ moved.wire = k.wire /\ moved.ghosts = k.ghosts
    BY DEF KernelOK, DataOK, Fields, KernelFields
  <2> HIDE DEF moved
  <2>. QED
    BY <1>8, <1>9, <2>1 DEF KernelOK, DataOK, Fields, RequestsOK, SameRequests
<1>11. WithFinalizedBlockObserved(k, target) = ScheduleRanges(j, target)
  <2>1. moved.graph.anchor # k.graph.anchor
    BY <1>2, <1>5, <1>10 DEF g
  <2>. QED
    BY <1>4, <2>1 DEF WithFinalizedBlockObserved, g
<1> HIDE DEF moved
<1>12. /\ KernelOK(j) /\ Unstaged(j) /\ j.graph = moved.graph /\ j.snapshot = moved.snapshot
       /\ j.verified = moved.verified /\ j.pending \subseteq moved.pending /\ j.ghosts = moved.ghosts
  BY <1>10, PrunedOK
<1> HIDE DEF j
<1>13. FinalityMoves(k, j, target)
  BY <1>2, <1>5, <1>10, <1>12 DEF FinalityMoves, SameRequests, point, f, snapshot, g
<1>. QED
  BY <1>11, <1>12, <1>13

(***************************************************************************)
(* The handlers: what each makes of the kernel, up to the requests sent.   *)
(***************************************************************************)
KInv == KernelOK(kernel) /\ Unstaged(kernel) /\ faults \in 0 .. MaxFaults

\* j is k after a scheduling pass.
Scheduled(k, j) == Asks(k, j) /\ MissingParents(k.graph) \subseteq Targets(j, "header")

LEMMA SendsUnstaged ==
  ASSUME NEW k, NEW j, Sends(k, j), Unstaged(k)
  PROVE  KernelOK(j) /\ Unstaged(j)
BY DEF Sends, Keeps, Unstaged

LEMMA ScheduledAfter ==
  ASSUME NEW k, KernelOK(k)
  PROVE  /\ Scheduled(k, ScheduleAll(k))
         /\ \A h, number : Scheduled(k, ProbeIfOrphaned(ScheduleAll(k), h, number))
<1> DEFINE j == ScheduleAll(k)
<1>1. Asks(k, j) /\ MissingParents(k.graph) \subseteq Targets(j, "header")
  BY ScheduleAllAsks
<1> HIDE DEF j
<1>2. ASSUME NEW h, NEW number
      PROVE  Scheduled(k, ProbeIfOrphaned(j, h, number))
  <2>1. KernelOK(j)
    BY <1>1 DEF Asks, Sends
  <2>2. Asks(j, ProbeIfOrphaned(j, h, number))
    BY <2>1, ProbeAsks
  <2>3. Asks(k, ProbeIfOrphaned(j, h, number))
    BY <1>1, <2>2, AsksTransitive
  <2>4. Targets(j, "header") \subseteq Targets(ProbeIfOrphaned(j, h, number), "header")
    BY <2>2 DEF Asks, Sends, Targets, InFlight
  <2>. QED
    BY <1>1, <2>3, <2>4 DEF Scheduled
<1>. QED
  BY <1>1, <1>2 DEF Scheduled, j

LEMMA HeadStep ==
  ASSUME NEW k, KernelOK(k), Unstaged(k), NEW c \in HeadClaims, NEW j, j = WithHeadObserved(k, c)
  PROVE  LET d == Drained(k, c.hash)
             e == Drained(WithHead(Admit(k, c), c.hash), c.hash)
         IN /\ Regraphs(k, d) /\ Unstaged(d) /\ Regraphs(k, e) /\ Unstaged(e)
            /\ MissingParents(d.graph) = MissingParents(k.graph)
            /\ \/ Asks(d, j)
               \/ HeadOutcome(k, c) # "SelfParent" /\ Scheduled(e, j)
<1> DEFINE h == c.hash
           d == Drained(k, h)
           e == Drained(WithHead(Admit(k, c), h), h)
           H == {h} \ Targets(k, "header")
           asked == {Req("header", x, {}, {}) : x \in H}
<1>1. c \in Header /\ h \in Block
  BY KernelAssumption DEF Header
<1>2. KernelOK(k) /\ Unstaged(k)
  OBVIOUS
<1>3. /\ Regraphs(k, d) /\ MissingParents(d.graph) = MissingParents(k.graph) /\ Unstaged(d)
  BY <1>2, DrainedOK DEF Unstaged
<1>4. Regraphs(k, e) /\ Unstaged(e)
  BY <1>1, <1>2, AdmittedDrained
<1>5. \/ j = Issue(d, asked) \/ j = d
      \/ HeadOutcome(k, c) # "SelfParent" /\ j = ProbeIfOrphaned(ScheduleAll(e), h, c.number)
  BY DEF WithHeadObserved
<1>6. H \in SUBSET Block /\ H \cap Targets(d, "header") = {}
  BY <1>1, <1>3 DEF Regraphs, SameRequests, Targets, InFlight
<1> HIDE DEF d, e, H, h
<1>7. KernelOK(d) /\ KernelOK(e)
  BY <1>3, <1>4 DEF Regraphs
<1>8. Asks(d, Issue(d, asked)) /\ Asks(d, d)
  BY <1>6, <1>7, BlockAsks, AsksNothing
<1>9. Scheduled(e, ProbeIfOrphaned(ScheduleAll(e), h, c.number))
  BY <1>7, ScheduledAfter
<1> HIDE DEF asked
<1>10. Asks(d, j) \/ (HeadOutcome(k, c) # "SelfParent" /\ Scheduled(e, j))
  BY <1>5, <1>8, <1>9
<1>. QED
  BY <1>3, <1>4, <1>10 DEF d, e, h

LEMMA HeaderStep ==
  ASSUME KInv, NEW m, HeaderAnswered(m)
  PROVE  LET c == HeaderOf(m.payload.at)
             d == Drained(Admit(kernel, c), c.hash)
         IN /\ m.payload.at \in Known /\ c \in Header
            /\ Regraphs(kernel, d) /\ Unstaged(d)
            /\ KernelOK(Taken(d, m)) /\ Scheduled(Taken(d, m), kernel')
<1> DEFINE c == HeaderOf(m.payload.at)
           d == Drained(Admit(kernel, c), c.hash)
           k == Taken(d, m)
           wrong == {r \in Matching(kernel, m) : r.payload.at # c.hash}
           again == {r.payload : r \in wrong}
<1>1. m.payload.at \in Known /\ m.payload.kind = "header"
      /\ kernel' = ProbeIfOrphaned(ScheduleAll(Issue(k, again)), c.hash, c.number)
  BY DEF HeaderAnswered
<1>2. c \in Header
  BY <1>1, RealChainAssumption DEF Known, HeaderOf, Header
<1>3. Regraphs(kernel, d) /\ Unstaged(d)
  BY <1>2, AdmittedDrained DEF KInv
<1> HIDE DEF c
<1>4. d.pending = kernel.pending /\ KernelOK(d) /\ Fields(d) /\ RequestsOK(d, RequestTTL - 1)
      /\ RequestTTL - 1 \in Nat
  BY <1>3, KernelAssumption DEF Regraphs, SameRequests, KernelOK, DataOK
<1> HIDE DEF d
<1>5. /\ Keeps(d, k) /\ RequestsOK(k, RequestTTL - 1) /\ k.pending = d.pending \ Matching(d, m)
  BY <1>4, TakenRequests
<1>6. Matching(d, m) = Matching(kernel, m)
  BY <1>4 DEF Matching
<1> HIDE DEF k
<1>7. KernelOK(k)
  BY <1>4, <1>5, KeepsData DEF KernelOK
<1>8. /\ wrong \subseteq kernel.pending
      /\ \A r \in wrong : r.payload.kind = "header" /\ r \notin k.pending
  BY <1>1, <1>4, <1>5, <1>6 DEF Matching
<1> HIDE DEF wrong
<1>9. IsFiniteSet(again)
  <2> DEFINE f == [r \in wrong |-> r.payload]
  <2>1. again = {f[r] : r \in wrong} /\ DOMAIN f = wrong /\ IsFiniteSet(wrong)
    BY <1>8, FS_Subset DEF KInv, KernelOK, RequestsOK
  <2> HIDE DEF f, again
  <2>. QED
    BY <2>1, FiniteImage
<1>10. \A p \in again : \E r \in wrong : p = r.payload
  OBVIOUS
<1> HIDE DEF again
<1>11. again \in SUBSET Payload
  BY <1>8, <1>10 DEF KInv, KernelOK, RequestsOK, InFlightRequest
<1>12. \A p, q \in again : p # q => Apart(p, q)
  BY <1>8, <1>10 DEF KInv, KernelOK, RequestsOK
<1>13. \A p \in again, r \in k.pending : Apart(p, r.payload)
  BY <1>4, <1>5, <1>8, <1>10 DEF KInv, KernelOK, RequestsOK
<1>14. \A p \in again : p.kind # "range" /\ p.kind # "seeds"
  BY <1>8, <1>10
<1> DEFINE i == Issue(k, again)
<1>15. Asks(k, i)
  BY <1>7, <1>9, <1>11, <1>12, <1>13, <1>14, IssueAsks
<1> HIDE DEF i
<1>16. Scheduled(i, kernel')
  <2>1. KernelOK(i)
    BY <1>15 DEF Asks, Sends
  <2>2. \A h, number : Scheduled(i, ProbeIfOrphaned(ScheduleAll(i), h, number))
    BY <2>1, ScheduledAfter
  <2>. QED
    BY <1>1, <2>2 DEF i
<1>17. Scheduled(k, kernel')
  <2>1. Asks(k, kernel')
    BY <1>15, <1>16, AsksTransitive DEF Scheduled
  <2>2. MissingParents(k.graph) = MissingParents(i.graph)
    BY <1>15 DEF Asks, Sends, Keeps
  <2>. QED
    BY <1>16, <2>1, <2>2 DEF Scheduled
<1>. QED
  BY <1>1, <1>2, <1>3, <1>7, <1>17 DEF c, d, k

LEMMA ProbeStep ==
  ASSUME KInv, NEW m, ProbeAnswered(m)
  PROVE  \/ m.payload.kind = "probe" /\ kernel' = Taken(kernel, m)
         \/ \E b \in TrueLine(CanonTip), late \in SUBSET (kernel.wire \cup kernel.ghosts) :
              /\ b \in Block /\ Trunk[b].number = kernel.graph.number /\ b # kernel.graph.anchor
              /\ Cardinality(late) <= MaxGhosts
              /\ late \in SUBSET Message /\ IsFiniteSet(late)
              /\ Trunk[b].number \in Nat
              /\ kernel' = Activated(b, Trunk[b].number, {}, kernel.verified, kernel.rejected, kernel.tokens, late)
<1> DEFINE k == Taken(kernel, m)
<1>1. /\ Keeps(kernel, k) /\ RequestsOK(k, RequestTTL - 1)
      /\ k.wire \subseteq kernel.wire /\ k.ghosts \subseteq kernel.ghosts
  <2>1. Fields(kernel) /\ RequestsOK(kernel, RequestTTL - 1) /\ RequestTTL - 1 \in Nat
    BY KernelAssumption DEF KInv, KernelOK, DataOK
  <2>2. Keeps(kernel, k) /\ RequestsOK(k, RequestTTL - 1)
    BY <2>1, TakenRequests
  <2>3. k.wire = kernel.wire \ {m}
    <3> DEFINE a == Arrived(kernel, m)
    <3>1. DOMAIN a = KernelFields /\ a.wire = kernel.wire \ {m}
      BY <2>1 DEF Arrived, Fields, KernelFields
    <3>2. k = [a EXCEPT !.pending = @ \ Matching(kernel, m)]
      BY DEF Taken
    <3> HIDE DEF a, k
    <3>. QED
      BY <3>1, <3>2 DEF KernelFields
  <2>. QED
    BY <2>2, <2>3 DEF Keeps
<1>2. ASSUME NEW b \in TrueLine(CanonTip), NEW late \in SUBSET (k.wire \cup k.ghosts),
             Trunk[b].number = k.graph.number, b # k.graph.anchor, Cardinality(late) <= MaxGhosts,
             kernel' = Activated(b, Trunk[b].number, {}, k.verified, k.rejected, k.tokens, late)
      PROVE  /\ b \in Block /\ Trunk[b].number = kernel.graph.number /\ b # kernel.graph.anchor
             /\ late \in SUBSET (kernel.wire \cup kernel.ghosts)
             /\ late \in SUBSET Message /\ IsFiniteSet(late)
             /\ Trunk[b].number \in Nat
             /\ kernel' = Activated(b, Trunk[b].number, {}, kernel.verified, kernel.rejected, kernel.tokens, late)
  <2> HIDE DEF k
  <2>1. b \in Block
    BY DEF TrueLine
  <2>2. IsFiniteSet(k.wire \cup k.ghosts) /\ k.wire \cup k.ghosts \subseteq Message
    BY <1>1, FS_Union DEF RequestsOK
  <2>3. IsFiniteSet(late)
    BY <2>2, FS_Subset
  <2>. QED
    BY <1>1, <1>2, <2>1, <2>2, <2>3, RealChainAssumption DEF Keeps
<1>3. \/ m.payload.kind = "probe" /\ kernel' = k
      \/ \E b \in TrueLine(CanonTip), late \in SUBSET (k.wire \cup k.ghosts) :
           /\ Trunk[b].number = k.graph.number /\ b # k.graph.anchor /\ Cardinality(late) <= MaxGhosts
           /\ kernel' = Activated(b, Trunk[b].number, {}, k.verified, k.rejected, k.tokens, late)
  BY DEF ProbeAnswered
<1> HIDE DEF k
<1>. QED
  BY <1>2, <1>3 DEF k

LEMMA FinalityStep ==
  ASSUME KInv, NEW target, kernel' = WithFinalizedBlockObserved(kernel, target)
  PROVE  \E j : /\ KernelOK(j) /\ Unstaged(j) /\ Sends(j, kernel')
                /\ \/ Keeps(kernel, j) /\ SameRequests(kernel, j)
                   \/ FinalityMoves(kernel, j, target)
                /\ InFlight(kernel', "seeds") = InFlight(j, "seeds")
                /\ \A p \in InFlight(kernel', "range") :
                     p \in InFlight(j, "range") \/ CoversHoles(j.graph, target, p)
<1>1. KernelOK(kernel) /\ Unstaged(kernel)
  BY DEF KInv
<1>2. PICK j : /\ KernelOK(j) /\ Unstaged(j)
               /\ \/ Keeps(kernel, j) /\ SameRequests(kernel, j)
                  \/ FinalityMoves(kernel, j, target)
               /\ kernel' = ScheduleRanges(j, target)
  <2>1. CASE FinalizationPoint(kernel.graph, target, kernel.verified) = kernel.graph.anchor
    <3>1. PICK j : /\ Keeps(kernel, j) /\ KernelOK(j) /\ SameRequests(kernel, j)
                   /\ WithFinalizedBlockObserved(kernel, target) = ScheduleRanges(j, target)
      BY <1>1, <2>1, FinalityStays
    <3>2. Unstaged(j)
      BY <1>1, <3>1 DEF Keeps, Unstaged
    <3>. QED
      BY <3>1, <3>2
  <2>2. CASE FinalizationPoint(kernel.graph, target, kernel.verified) # kernel.graph.anchor
    BY <1>1, <2>2, FinalityMoved
  <2>. QED
    BY <2>1, <2>2
<1> DEFINE i == ScheduleRanges(j, target)
<1>3. /\ Sends(j, i) /\ InFlight(i, "seeds") = InFlight(j, "seeds")
      /\ \A p \in InFlight(i, "range") : p \in InFlight(j, "range") \/ CoversHoles(j.graph, target, p)
  BY <1>2, RangesAsk
<1> HIDE DEF i
<1>4. kernel' = i
  BY <1>2 DEF i
<1>. QED
  BY <1>2, <1>3, <1>4

LEMMA LogStep ==
  ASSUME NEW k, KernelOK(k), Unstaged(k), NEW h \in Block, NEW logs \in Batch(h),
         NEW j, j = WithLogsObserved(k, h, logs)
  PROVE  /\ logs \in LogMap
         /\ LET s == Streamed(k, h, logs)
                t == Staged(k, h, logs)
            IN \/ Regraphs(k, s) /\ Unstaged(s) /\ Scheduled(s, j)
               \/ /\ j = t /\ KernelOK(t) /\ Unstaged(t) /\ SameRequests(k, t)
                  /\ t.graph = k.graph /\ t.snapshot = k.snapshot /\ t.verified = k.verified
<1>1. KernelOK(k) /\ Unstaged(k) /\ logs \in LogMap
  BY DEF Batch
<1>2. j = WithLogsObserved(k, h, logs)
  OBVIOUS
<1>3. CASE h \in Present(k.graph)
  <2> DEFINE s == Streamed(k, h, logs)
  <2>1. Regraphs(k, s) /\ s.staging = k.staging /\ Present(s.graph) = Present(k.graph)
    BY <1>1, StreamedOK
  <2>2. Unstaged(s) /\ KernelOK(s)
    BY <1>1, <2>1 DEF Unstaged, Regraphs
  <2>3. j = ScheduleAll(s)
    BY <1>2, <1>3 DEF WithLogsObserved
  <2> HIDE DEF s
  <2>4. Scheduled(s, j)
    BY <2>2, <2>3, ScheduledAfter
  <2>. QED
    BY <1>1, <2>1, <2>2, <2>4 DEF s
<1>4. CASE h \notin Present(k.graph)
  <2>1. j = Staged(k, h, logs)
    BY <1>2, <1>4 DEF WithLogsObserved
  <2>. QED
    BY <1>1, <1>4, <2>1, StagedOK
<1>. QED
  BY <1>3, <1>4

\* An answer that is taken off the wire, and the request it matches with it.
LEMMA TakenOK ==
  ASSUME NEW k, KernelOK(k), Unstaged(k), NEW m
  PROVE  LET j == Taken(k, m)
         IN /\ Keeps(k, j) /\ KernelOK(j) /\ Unstaged(j)
            /\ j.pending = k.pending \ Matching(k, m)
<1> DEFINE j == Taken(k, m)
<1>1. Fields(k) /\ RequestsOK(k, RequestTTL - 1) /\ RequestTTL - 1 \in Nat /\ DataOK(k)
  BY KernelAssumption DEF KernelOK, DataOK
<1> HIDE DEF j
<1>2. /\ Keeps(k, j) /\ RequestsOK(j, RequestTTL - 1)
      /\ j.pending = k.pending \ Matching(k, m)
  BY <1>1, TakenRequests DEF j
<1>3. KernelOK(j) /\ Unstaged(j)
  BY <1>1, <1>2, KeepsData DEF KernelOK, Unstaged, Keeps
<1>. QED
  BY <1>2, <1>3 DEF j

\* What an answer matches is a request of its kind.
LEMMA MatchedRequest ==
  ASSUME KInv, NEW m, NEW r \in Matching(kernel, m)
  PROVE  r \in kernel.pending /\ r.payload \in Payload /\ r.payload.kind = m.payload.kind
BY DEF Matching, KInv, KernelOK, RequestsOK, InFlightRequest

LEMMA WireMessages ==
  ASSUME KInv, NEW m \in kernel.wire \cup kernel.ghosts
  PROVE  m.payload \in Payload
BY DEF KInv, KernelOK, RequestsOK, Message

LEMMA LogsStep ==
  ASSUME KInv, NEW m \in kernel.wire \cup kernel.ghosts, LogsAnswered(m)
  PROVE  LET k == Taken(kernel, m)
         IN \/ kernel' = k
            \/ \E r \in Matching(kernel, m) :
                 LET j == CompleteIn(k, r.payload.at, LogsOf[m.payload.at])
                 IN Regraphs(k, j) /\ Unstaged(j) /\ Scheduled(j, kernel') /\ m.payload.kind = "logs"
<1> DEFINE k == Taken(kernel, m)
           r == CHOOSE r \in Matching(kernel, m) : TRUE
           j == CompleteIn(k, r.payload.at, LogsOf[m.payload.at])
<1>1. CASE kernel' = k
  BY <1>1
<1>2. CASE kernel' # k
  <2>1. Matching(kernel, m) # {} /\ kernel' = ScheduleAll(j) /\ m.payload.kind = "logs"
    BY <1>2 DEF LogsAnswered, Answer
  <2>2. r \in Matching(kernel, m)
    BY <2>1
  <2>3. KernelOK(k) /\ Unstaged(k)
    BY TakenOK DEF KInv
  <2> HIDE DEF k, r
  <2>4. r.payload.at \in Block /\ m.payload.at \in Block
    BY <2>1, <2>2, MatchedRequest, WireMessages, PayloadParts
  <2>5. LogsOf[m.payload.at] \in LogMap
    BY <2>4, RealChainAssumption
  <2>6. Regraphs(k, j) /\ Unstaged(j)
    BY <2>3, <2>4, <2>5, CompleteInOK
  <2> HIDE DEF j
  <2>7. Scheduled(j, kernel')
    BY <2>1, <2>6, ScheduledAfter DEF Regraphs
  <2>. QED
    BY <2>1, <2>2, <2>6, <2>7 DEF j, k
<1>. QED
  BY <1>1, <1>2

LEMMA RangeStep ==
  ASSUME KInv, NEW m \in kernel.wire \cup kernel.ghosts, RangeAnswered(m)
  PROVE  LET k == Taken(kernel, m)
         IN \/ kernel' = k
            \/ \E r \in Matching(kernel, m) :
                 LET j == CompleteRange(k, r.payload.items, Responded(m))
                 IN /\ Regraphs(k, j) /\ Unstaged(j) /\ Scheduled(j, kernel') /\ m.payload.kind = "range"
                    /\ j.graph = Completed(k.graph, RangeLogs(r.payload.items, Responded(m)))
<1> DEFINE k == Taken(kernel, m)
           r == CHOOSE r \in Matching(kernel, m) : TRUE
           R == Responded(m)
           j == CompleteRange(k, r.payload.items, R)
<1>1. CASE kernel' = k
  BY <1>1
<1>2. CASE kernel' # k
  <2>1. Matching(kernel, m) # {} /\ kernel' = ScheduleAll(j) /\ m.payload.kind = "range"
    BY <1>2 DEF RangeAnswered, Answer
  <2>2. r \in Matching(kernel, m)
    BY <2>1
  <2>3. KernelOK(k) /\ Unstaged(k)
    BY TakenOK DEF KInv
  <2> HIDE DEF k, r
  <2>4. R \in SUBSET Block
    BY DEF Responded, TrueLine
  <2> HIDE DEF R
  <2>5. Regraphs(k, j) /\ Unstaged(j) /\ j.graph = Completed(k.graph, RangeLogs(r.payload.items, R))
    BY <2>3, <2>4, CompleteRangeOK
  <2> HIDE DEF j
  <2>6. Scheduled(j, kernel')
    BY <2>1, <2>5, ScheduledAfter DEF Regraphs
  <2>. QED
    BY <2>1, <2>2, <2>5, <2>6 DEF j, k, R
<1>. QED
  BY <1>1, <1>2

\* Only the registries, the snapshot or the staging change.
Records(k, j) ==
  KernelOK(j) /\ Unstaged(j) /\ SameRequests(k, j) /\ j.graph = k.graph

LEMMA PoolsStep ==
  ASSUME KInv, NEW m \in kernel.wire \cup kernel.ghosts, PoolsAnswered(m)
  PROVE  LET k == Taken(kernel, m)
         IN \/ kernel' = k
            \/ \E j : /\ Records(k, j) /\ Scheduled(j, kernel')
                      /\ j.snapshot = k.snapshot /\ k.verified \subseteq j.verified
<1> DEFINE k == Taken(kernel, m)
           r == CHOOSE r \in Matching(kernel, m) : TRUE
           asked == r.payload
           valid == (m.payload.items \ NoMetadata) \cap ValidPools
           invalid == (m.payload.items \ NoMetadata) \ ValidPools
           known == k.verified \cup (valid \cap asked.items)
           denied == (k.rejected \ (valid \cap asked.items)) \cup ((invalid \cap asked.items) \ k.verified)
           j == [k EXCEPT !.verified = known, !.rejected = denied]
<1>1. CASE kernel' = k
  BY <1>1
<1>2. CASE kernel' # k
  <2>1. Matching(kernel, m) # {} /\ kernel' = ScheduleAll(j) /\ m.payload.kind = "pools"
    <3>1. /\ m.payload.kind = "pools"
          /\ kernel' = IF Matching(kernel, m) = {} THEN k ELSE ScheduleAll(j)
      BY DEF PoolsAnswered, Answer
    <3> HIDE DEF k, j
    <3>. QED
      BY <1>2, <3>1
  <2>2. r \in Matching(kernel, m)
    BY <2>1
  <2>3. KernelOK(k) /\ Unstaged(k)
    BY TakenOK DEF KInv
  <2> HIDE DEF k, r
  <2>4. m.payload.items \in SUBSET Pool
    BY <2>1, WireMessages, PayloadParts
  <2>5. known \in SUBSET Pool /\ denied \in SUBSET Pool /\ k.verified \subseteq known
    BY <2>3, <2>4 DEF KernelOK, DataOK
  <2> HIDE DEF known, denied
  <2>6. Records(k, j) /\ j.snapshot = k.snapshot /\ j.verified = known
    <3>1. j.graph = k.graph /\ j.snapshot = k.snapshot /\ j.verified = known
      BY <2>3 DEF KernelOK, DataOK, Fields, KernelFields
    <3>2. KernelOK(j) /\ Unstaged(j) /\ SameRequests(k, j)
      BY <2>3, <2>5, RegistryOK
    <3>. QED
      BY <3>1, <3>2 DEF Records
  <2> HIDE DEF j
  <2>7. Scheduled(j, kernel')
    BY <2>1, <2>6, ScheduledAfter DEF Records
  <2>. QED
    BY <2>5, <2>6, <2>7 DEF k
<1>. QED
  BY <1>1, <1>2

LEMMA TokensStep ==
  ASSUME KInv, NEW m \in kernel.wire \cup kernel.ghosts, TokensAnswered(m)
  PROVE  LET k == Taken(kernel, m)
         IN \/ kernel' = k
            \/ \E j : /\ Records(k, j) /\ Scheduled(j, kernel')
                      /\ j.snapshot = k.snapshot /\ j.verified = k.verified
<1> DEFINE k == Taken(kernel, m)
           r == CHOOSE r \in Matching(kernel, m) : TRUE
           tokens == k.tokens \cup (m.payload.items \cap r.payload.items)
           j == [k EXCEPT !.tokens = tokens]
<1>1. CASE kernel' = k
  BY <1>1
<1>2. CASE kernel' # k
  <2>1. Matching(kernel, m) # {} /\ kernel' = ScheduleAll(j) /\ m.payload.kind = "tokens"
    <3>1. /\ m.payload.kind = "tokens"
          /\ kernel' = IF Matching(kernel, m) = {} THEN k ELSE ScheduleAll(j)
      BY DEF TokensAnswered, Answer
    <3> HIDE DEF k, j
    <3>. QED
      BY <1>2, <3>1
  <2>2. KernelOK(k) /\ Unstaged(k)
    BY TakenOK DEF KInv
  <2> HIDE DEF k, r
  <2>3. m.payload.items \in SUBSET Token
    BY <2>1, WireMessages, PayloadParts
  <2>4. tokens \in SUBSET Token
    BY <2>2, <2>3 DEF KernelOK, DataOK
  <2> HIDE DEF tokens
  <2>5. Records(k, j) /\ j.snapshot = k.snapshot /\ j.verified = k.verified
    BY <2>2, <2>4, TokensOK DEF Records
  <2> HIDE DEF j
  <2>6. Scheduled(j, kernel')
    BY <2>1, <2>5, ScheduledAfter DEF Records
  <2>. QED
    BY <2>5, <2>6 DEF k
<1>. QED
  BY <1>1, <1>2

\* A read is written only under the anchor it was asked for.
LEMMA SeedsStep ==
  ASSUME KInv, NEW m \in kernel.wire \cup kernel.ghosts, SeedsAnswered(m)
  PROVE  LET k == Taken(kernel, m)
         IN \/ kernel' = k
            \/ \E r \in Matching(kernel, m) : \E j :
                 /\ Records(k, j) /\ Scheduled(j, kernel') /\ j.verified = k.verified
                 /\ DOMAIN k.snapshot \subseteq DOMAIN j.snapshot
                 /\ \A p \in DOMAIN j.snapshot :
                      \/ p \in DOMAIN k.snapshot /\ j.snapshot[p] = k.snapshot[p]
                      \/ /\ r.payload.at = k.graph.anchor /\ p \in Readings(m)
                         /\ j.snapshot[p] = TrueState[m.payload.at][p]
<1> DEFINE k == Taken(kernel, m)
           r == CHOOSE r \in Matching(kernel, m) : TRUE
           P == Readings(m)
           states == [p \in P |-> TrueState[m.payload.at][p]]
           j == Seeded(k, r.payload.at, states)
<1>1. CASE kernel' = k
  BY <1>1
<1>2. CASE kernel' # k
  <2>1. Matching(kernel, m) # {} /\ kernel' = ScheduleAll(j) /\ m.payload.kind = "seeds"
    <3>1. /\ m.payload.kind = "seeds"
          /\ kernel' = IF Matching(kernel, m) = {} THEN k ELSE ScheduleAll(j)
      BY DEF SeedsAnswered, Answer
    <3> HIDE DEF k, j
    <3>. QED
      BY <1>2, <3>1
  <2>2. r \in Matching(kernel, m)
    BY <2>1
  <2>3. KernelOK(k) /\ Unstaged(k)
    BY TakenOK DEF KInv
  <2> HIDE DEF k, r
  <2>4. m.payload.at \in Block /\ P \in SUBSET Pool
    BY <2>1, WireMessages, PayloadParts DEF Readings
  <2>5. states \in [P -> SUBSET Log] /\ \A p \in P : states[p] = TrueState[m.payload.at][p]
    BY <2>4, TrueStates
  <2> HIDE DEF states, P
  <2>6. /\ Records(k, j) /\ j.verified = k.verified
        /\ DOMAIN k.snapshot \subseteq DOMAIN j.snapshot
        /\ \A p \in DOMAIN j.snapshot :
             \/ p \in DOMAIN k.snapshot /\ j.snapshot[p] = k.snapshot[p]
             \/ r.payload.at = k.graph.anchor /\ p \in P /\ j.snapshot[p] = states[p]
    <3>1. /\ KernelOK(j) /\ Unstaged(j) /\ SameRequests(k, j) /\ j.graph = k.graph /\ j.verified = k.verified
          /\ Reads(k, j, r.payload.at, P, states)
      BY <2>3, <2>4, <2>5, SeededSnapshot
    <3> HIDE DEF j
    <3>. QED
      BY <3>1 DEF Records, Reads
  <2> HIDE DEF j
  <2>7. Scheduled(j, kernel')
    BY <2>1, <2>6, ScheduledAfter DEF Records
  <2>. QED
    BY <2>2, <2>5, <2>6, <2>7 DEF k, P
<1>. QED
  BY <1>1, <1>2

\* Nothing is forgotten, nothing new is asked for.
SameAsked(k, j) ==
  /\ Keeps(k, j) /\ KernelOK(j) /\ Unstaged(j)
  /\ {r.payload : r \in j.pending} = {r.payload : r \in k.pending}

\* A failed request is sent again; a lost answer goes unnoticed; a header that is
\* denied is not asked for again.
LEMMA RequestStep ==
  ASSUME KInv, NEW m
  PROVE  /\ HeaderNotFound(m) => kernel' = Taken(kernel, m)
         /\ RequestFailed(m) => SameAsked(kernel, kernel')
         /\ AnswerLost(m) => SameAsked(kernel, kernel')
<1> DEFINE a == Arrived(kernel, m)
           R == Matching(kernel, m)
<1>1. Fields(kernel) /\ RequestsOK(kernel, RequestTTL - 1) /\ RequestTTL - 1 \in Nat /\ DataOK(kernel)
  BY KernelAssumption DEF KInv, KernelOK, DataOK
<1>2. Keeps(kernel, a) /\ RequestsOK(a, RequestTTL - 1) /\ a.pending = kernel.pending
  BY <1>1, TakenRequests
<1>3. R \in SUBSET kernel.pending
  BY DEF Matching
<1> HIDE DEF a, R
<1>4. SameAsked(kernel, a)
  BY <1>1, <1>2, KeepsData DEF SameAsked, KernelOK, KInv, Unstaged, Keeps
<1>5. SameAsked(kernel, Retry(a, R))
  <2>1. a.pending \ R \subseteq InFlightRequest(RequestTTL - 1) /\ Fields(a)
    BY <1>2 DEF RequestsOK, Keeps
  <2> DEFINE j == Retry(a, R)
  <2> HIDE DEF j
  <2>2. /\ Keeps(a, j) /\ RequestsOK(j, RequestTTL - 1)
        /\ {r.payload : r \in j.pending} = {r.payload : r \in a.pending}
    BY <1>1, <1>2, <1>3, <2>1, RetryRequests DEF j
  <2>3. Keeps(kernel, j)
    BY <1>2, <2>2 DEF Keeps
  <2>. QED
    BY <1>1, <1>2, <2>2, <2>3, KeepsData DEF SameAsked, KernelOK, KInv, Unstaged, Keeps, j
<1>. QED
  BY <1>4, <1>5 DEF HeaderNotFound, RequestFailed, AnswerLost, a, R

LEMMA TickStep ==
  ASSUME KInv, Tick
  PROVE  SameAsked(kernel, kernel')
<1>1. Fields(kernel) /\ RequestsOK(kernel, RequestTTL - 1) /\ RequestTTL \in Nat \ {0} /\ DataOK(kernel)
  BY KernelAssumption DEF KInv, KernelOK, DataOK
<1> DEFINE older(slow, r) == IF r \in slow \/ ~OnWire(r) THEN [r EXCEPT !.age = @ + 1] ELSE r
<1>2. PICK slow : kernel' = Retry([kernel EXCEPT !.pending = {older(slow, r) : r \in kernel.pending}],
                                  {r \in {older(slow, q) : q \in kernel.pending} : r.age >= RequestTTL})
  BY DEF Tick
<1> DEFINE old(r) == older(slow, r)
           aged == {old(r) : r \in kernel.pending}
           R == {r \in aged : r.age >= RequestTTL}
           i == [kernel EXCEPT !.pending = aged]
<1>3. ASSUME NEW r \in kernel.pending
      PROVE  /\ old(r).id = r.id /\ old(r).payload = r.payload
             /\ old(r) \in InFlightRequest(RequestTTL)
  <2>1. r \in InFlightRequest(RequestTTL - 1)
    BY <1>1 DEF RequestsOK
  <2>. QED
    BY <1>1, <2>1 DEF InFlightRequest
<1>4. kernel' = Retry(i, R)
  BY <1>2
<1>5. IsFiniteSet(aged)
  <2> DEFINE f == [r \in kernel.pending |-> old(r)]
  <2>1. aged = {f[r] : r \in kernel.pending} /\ DOMAIN f = kernel.pending /\ IsFiniteSet(kernel.pending)
    BY <1>1 DEF RequestsOK
  <2> HIDE DEF f, aged
  <2>. QED
    BY <2>1, FiniteImage
<1>6. \A r \in aged : \E q \in kernel.pending : r = old(q)
  OBVIOUS
<1>7. \A q \in kernel.pending : old(q) \in aged
  OBVIOUS
<1>8. /\ Keeps(kernel, i) /\ Fields(i) /\ i.pending = aged /\ i.wire = kernel.wire /\ i.ghosts = kernel.ghosts
  BY <1>1 DEF Keeps, Fields, KernelFields
<1>9. R \in SUBSET aged /\ aged \ R \subseteq InFlightRequest(RequestTTL - 1)
  <2> SUFFICES ASSUME NEW r \in aged, ~(r.age >= RequestTTL) PROVE r \in InFlightRequest(RequestTTL - 1)
    OBVIOUS
  <2>1. r \in InFlightRequest(RequestTTL)
    BY <1>3
  <2>. QED
    BY <1>1, <2>1 DEF InFlightRequest
<1> HIDE DEF older, aged, i, R
<1>10. RequestsOK(i, RequestTTL)
  <2>1. i.pending \subseteq InFlightRequest(RequestTTL)
    BY <1>3, <1>6, <1>8
  <2>2. ASSUME NEW r \in i.pending, NEW q \in i.pending
        PROVE  /\ r # q => Apart(r.payload, q.payload)
               /\ r.id = q.id => r = q
    <3>1. PICK r0 \in kernel.pending, q0 \in kernel.pending : r = old(r0) /\ q = old(q0)
      BY <1>6, <1>8
    <3>. QED
      BY <1>1, <1>3, <3>1 DEF RequestsOK
  <2>3. ASSUME NEW r \in i.pending, NEW m \in i.wire, r.id = m.id
        PROVE  r.payload = m.payload
    <3>1. PICK r0 \in kernel.pending : r = old(r0)
      BY <1>6, <1>8
    <3>. QED
      BY <1>1, <1>3, <1>8, <2>3, <3>1 DEF RequestsOK
  <2>. QED
    BY <1>1, <1>5, <1>8, <2>1, <2>2, <2>3 DEF RequestsOK
<1>11. /\ Keeps(i, kernel') /\ RequestsOK(kernel', RequestTTL - 1)
       /\ {r.payload : r \in kernel'.pending} = {r.payload : r \in aged}
  <2> DEFINE j == Retry(i, R)
  <2> HIDE DEF j
  <2>1. /\ Keeps(i, j) /\ RequestsOK(j, RequestTTL - 1)
        /\ {r.payload : r \in j.pending} = {r.payload : r \in i.pending}
    <3>1. R \in SUBSET i.pending /\ i.pending \ R \subseteq InFlightRequest(RequestTTL - 1)
          /\ RequestTTL - 1 \in Nat /\ RequestTTL \in Nat
      BY <1>1, <1>8, <1>9
    <3>. QED
      BY <1>8, <1>10, <3>1, RetryRequests DEF j
  <2>. QED
    BY <1>4, <1>8, <2>1 DEF j
<1>12. {r.payload : r \in aged} = {r.payload : r \in kernel.pending}
  BY <1>3, <1>6, <1>7
<1>13. Keeps(kernel, kernel')
  BY <1>8, <1>11 DEF Keeps
<1>. QED
  BY <1>1, <1>11, <1>12, <1>13, KeepsData DEF SameAsked, KernelOK, KInv, Unstaged, Keeps

(***************************************************************************)
(* The invariant.                                                          *)
(***************************************************************************)
LEMMA InitKInv == Init => KInv
<1> SUFFICES ASSUME Init PROVE KInv
  OBVIOUS
<1> DEFINE j == Activated(StartAnchor, StartNumber, SeedWindow, Tracked, {}, KnownTokens, {})
<1>1. kernel = j /\ faults = MaxFaults
  BY DEF Init
<1> HIDE DEF j
<1>2. KernelOK(j) /\ Unstaged(j)
  BY ActivatedOK, RealChainAssumption, KernelAssumption, FS_EmptySet DEF j
<1>3. MaxFaults \in 0 .. MaxFaults
  BY KernelAssumption
<1>. QED
  BY <1>1, <1>2, <1>3 DEF KInv

LEMMA FaultsBounded ==
  ASSUME KInv, Next
  PROVE  faults' \in 0 .. MaxFaults
<1>1. faults' = faults \/ (faults > 0 /\ faults' = faults - 1)
  BY DEF Next, SelfParentHead, TipRedelivered, HeadObserved, FinalizedBlockObserved, LogObserved, Answered,
         HeaderAnswered, ProbeAnswered, LogsAnswered, RangeAnswered, PoolsAnswered, TokensAnswered,
         SeedsAnswered, Answer, HeaderNotFound, RequestFailed, AnswerLost, Tick, NoFault, Fault
<1>. QED
  BY <1>1, KernelAssumption DEF KInv

\* The kernel after an answer of another kind than a header.
LEMMA AnswerStep ==
  ASSUME KInv, NEW m \in kernel.wire \cup kernel.ghosts,
         LogsAnswered(m) \/ RangeAnswered(m) \/ PoolsAnswered(m) \/ TokensAnswered(m) \/ SeedsAnswered(m)
  PROVE  /\ m.payload.kind # "header"
         /\ \/ kernel' = Taken(kernel, m)
            \/ \E j : KernelOK(j) /\ Unstaged(j) /\ Scheduled(j, kernel')
<1>1. m.payload.kind # "header"
  BY DEF LogsAnswered, RangeAnswered, PoolsAnswered, TokensAnswered, SeedsAnswered
<1>2. CASE LogsAnswered(m)
  BY <1>1, <1>2, LogsStep DEF Regraphs
<1>3. CASE RangeAnswered(m)
  BY <1>1, <1>3, RangeStep DEF Regraphs
<1>4. CASE PoolsAnswered(m)
  BY <1>1, <1>4, PoolsStep DEF Records
<1>5. CASE TokensAnswered(m)
  BY <1>1, <1>5, TokensStep DEF Records
<1>6. CASE SeedsAnswered(m)
  BY <1>1, <1>6, SeedsStep DEF Records
<1>. QED
  BY <1>2, <1>3, <1>4, <1>5, <1>6

LEMMA NextKInv == KInv /\ [Next]_vars => KInv'
<1> SUFFICES ASSUME KInv, [Next]_vars PROVE KInv'
  OBVIOUS
<1>1. ASSUME Next
      PROVE  faults' \in 0 .. MaxFaults
  BY <1>1, FaultsBounded
<1>2. ASSUME NEW j, KernelOK(j), Unstaged(j), Asks(j, kernel') \/ Sends(j, kernel')
      PROVE  KernelOK(kernel') /\ Unstaged(kernel')
  BY <1>2, SendsUnstaged DEF Asks
<1>3. ASSUME NEW c \in HeadClaims, SelfParentHead(c) \/ TipRedelivered(c) \/ HeadObserved(c)
      PROVE  KernelOK(kernel') /\ Unstaged(kernel')
  <2>1. kernel' = WithHeadObserved(kernel, c)
    BY <1>3 DEF SelfParentHead, TipRedelivered, HeadObserved
  <2>2. \E j : KernelOK(j) /\ Unstaged(j) /\ Asks(j, kernel')
    BY <2>1, HeadStep DEF KInv, Regraphs, Scheduled
  <2>. QED
    BY <1>2, <2>2
<1>4. ASSUME NEW t, FinalizedBlockObserved(t)
      PROVE  KernelOK(kernel') /\ Unstaged(kernel')
  <2>1. kernel' = WithFinalizedBlockObserved(kernel, t)
    BY <1>4 DEF FinalizedBlockObserved
  <2>. QED
    BY <1>2, <2>1, FinalityStep
<1>5. ASSUME NEW h \in Block, NEW logs \in Batch(h), LogObserved(h, logs)
      PROVE  KernelOK(kernel') /\ Unstaged(kernel')
  <2>1. \/ KernelOK(kernel') /\ Unstaged(kernel')
        \/ \E s : KernelOK(s) /\ Unstaged(s) /\ Asks(s, kernel')
    BY <1>5, LogStep DEF KInv, LogObserved, Regraphs, Scheduled
  <2>. QED
    BY <1>2, <2>1
<1>6. ASSUME NEW m \in kernel.wire \cup kernel.ghosts, Answered(m)
      PROVE  KernelOK(kernel') /\ Unstaged(kernel')
  <2>1. KernelOK(Taken(kernel, m)) /\ Unstaged(Taken(kernel, m))
    BY TakenOK DEF KInv
  <2>2. CASE HeaderAnswered(m)
    <3>1. PICK k : KernelOK(k) /\ Unstaged(k) /\ Scheduled(k, kernel')
      <4> DEFINE c == HeaderOf(m.payload.at)
                 d == Drained(Admit(kernel, c), c.hash)
      <4> HIDE DEF d
      <4>1. Regraphs(kernel, d) /\ Unstaged(d) /\ Scheduled(Taken(d, m), kernel')
        BY <2>2, HeaderStep DEF d
      <4>2. KernelOK(Taken(d, m)) /\ Unstaged(Taken(d, m))
        BY <4>1, TakenOK DEF Regraphs
      <4>. QED
        BY <4>1, <4>2
    <3>. QED
      BY <1>2, <3>1 DEF Scheduled
  <2>3. CASE ProbeAnswered(m)
    <3>1. CASE kernel' = Taken(kernel, m)
      BY <2>1, <3>1
    <3>2. CASE kernel' # Taken(kernel, m)
      <4>1. PICK b \in Block, late \in SUBSET Message :
                   /\ Trunk[b].number \in Nat /\ IsFiniteSet(late)
                   /\ kernel' = Activated(b, Trunk[b].number, {}, kernel.verified, kernel.rejected,
                                          kernel.tokens, late)
        BY <2>3, <3>2, ProbeStep
      <4>2. kernel.verified \in SUBSET Pool /\ kernel.rejected \in SUBSET Pool /\ kernel.tokens \in SUBSET Token
        BY DEF KInv, KernelOK, DataOK
      <4>. QED
        BY <4>1, <4>2, ActivatedOK
    <3>. QED
      BY <3>1, <3>2
  <2>4. CASE LogsAnswered(m) \/ RangeAnswered(m) \/ PoolsAnswered(m) \/ TokensAnswered(m) \/ SeedsAnswered(m)
    BY <1>2, <2>1, <2>4, AnswerStep DEF Scheduled
  <2>. QED
    BY <1>6, <2>2, <2>3, <2>4 DEF Answered
<1>7. ASSUME NEW m, HeaderNotFound(m) \/ RequestFailed(m) \/ AnswerLost(m)
      PROVE  KernelOK(kernel') /\ Unstaged(kernel')
  <2>1. KernelOK(Taken(kernel, m)) /\ Unstaged(Taken(kernel, m))
    BY TakenOK DEF KInv
  <2>. QED
    BY <1>7, <2>1, RequestStep DEF SameAsked
<1>8. CASE Tick
  BY <1>1, <1>8, TickStep DEF SameAsked, KInv, Next
<1>9. CASE UNCHANGED vars
  BY <1>9 DEF vars, KInv
<1>. QED
  BY <1>1, <1>3, <1>4, <1>5, <1>6, <1>7, <1>8, <1>9 DEF Next, KInv

LEMMA KernelTypes == KInv => KernelTypeOK
<1> SUFFICES ASSUME KInv PROVE KernelTypeOK
  OBVIOUS
<1>1. RequestTTL \in Nat \ {0}
  BY KernelAssumption
<1>2. ASSUME NEW r \in kernel.pending
      PROVE  [id |-> r.id, payload |-> r.payload] \in Message /\ r.age \in 0 .. RequestTTL
  BY <1>1 DEF KInv, KernelOK, RequestsOK, InFlightRequest, Message
<1>. QED
  BY <1>2 DEF KernelTypeOK, KInv, KernelOK, DataOK, TreeOK, RequestsOK

\* The state has its type, whatever heads, answers, failures and re-activations come: the
\* tree is one, every request is one that is asked for its kind, and no request in flight
\* is as old as REQUEST_TTL once a tick is over.
THEOREM KernelTyped == Spec => []KernelTypeOK
  BY KernelTypes, InitKInv, NextKInv, PTL DEF Spec

\* Logs are staged only for blocks outside the tree ("Staging invariant", mod.rs:1095),
\* whatever heads, answers, re-roots and late answers come.
THEOREM StagingInvariant == Spec => []StagedOnlyAbsent
<1>1. KInv => StagedOnlyAbsent
  BY DEF KInv, Unstaged, StagedOnlyAbsent
<1>. QED
  BY <1>1, InitKInv, NextKInv, PTL DEF Spec

\* Two requests in flight never ask for the same thing: the deduplication of
\* pending_requests.rs holds over every retry, re-root and late answer.
THEOREM KernelDistinct == Spec => []InFlightDistinct
<1>1. KInv => InFlightDistinct
  BY DEF KInv, KernelOK, RequestsOK, InFlightDistinct
<1>. QED
  BY <1>1, InitKInv, NextKInv, PTL DEF Spec

(***************************************************************************)
(* Gaps.                                                                   *)
(***************************************************************************)
\* No provider denies a block it has, and no answer outlives its activation.
HonestDenials == "notfound" \notin FaultKinds /\ MaxGhosts = 0

GapInv == KInv /\ kernel.ghosts = {} /\ GapsRequested

\* Requests of other kinds may be answered; the headers asked for stay.
LEMMA GapsStay ==
  ASSUME GapInv, NEW j, j.graph = kernel.graph, Targets(kernel, "header") \cap Known \subseteq Targets(j, "header"),
         j.ghosts \subseteq kernel.ghosts
  PROVE  j.ghosts = {} /\ MissingParents(j.graph) \cap Known \subseteq Targets(j, "header")
BY DEF GapInv, GapsRequested

LEMMA GapsScheduled ==
  ASSUME NEW j, Scheduled(j, kernel'), j.ghosts = {}
  PROVE  kernel'.ghosts = {} /\ MissingParents(kernel'.graph) \cap Known \subseteq Targets(kernel', "header")
BY DEF Scheduled, Asks, Sends, Keeps

LEMMA TargetsMonotone ==
  ASSUME NEW k, NEW j, k.pending \subseteq j.pending, NEW kind
  PROVE  Targets(k, kind) \subseteq Targets(j, kind)
BY DEF Targets, InFlight

\* An answer drops only requests of its kind.
LEMMA OtherTargetsStay ==
  ASSUME GapInv, NEW m, m.payload.kind # "header"
  PROVE  LET j == Taken(kernel, m)
         IN j.ghosts = {} /\ MissingParents(j.graph) \cap Known \subseteq Targets(j, "header")
<1> DEFINE j == Taken(kernel, m)
<1> HIDE DEF j
<1>1. Keeps(kernel, j) /\ j.pending = kernel.pending \ Matching(kernel, m)
  BY TakenOK DEF GapInv, KInv, j
<1>2. Targets(kernel, "header") \subseteq Targets(j, "header")
  BY <1>1 DEF Targets, InFlight, Matching
<1>. QED
  BY <1>1, <1>2, GapsStay DEF Keeps, j

LEMMA GapsStep ==
  ASSUME HonestDenials, GapInv, Next
  PROVE  kernel'.ghosts = {} /\ MissingParents(kernel'.graph) \cap Known \subseteq Targets(kernel', "header")
<1> DEFINE Goal == kernel'.ghosts = {} /\ MissingParents(kernel'.graph) \cap Known \subseteq Targets(kernel', "header")
<1>1. KInv /\ KernelOK(kernel) /\ Unstaged(kernel) /\ kernel.ghosts = {}
  BY DEF GapInv, KInv
<1>2. ASSUME NEW j, Regraphs(kernel, j), Scheduled(j, kernel')
      PROVE  Goal
  BY <1>1, <1>2, GapsScheduled DEF Regraphs, SameRequests
<1>3. ASSUME NEW j, j.ghosts = {}, MissingParents(j.graph) \cap Known \subseteq Targets(j, "header"),
             Sends(j, kernel')
      PROVE  Goal
  BY <1>3, TargetsMonotone DEF Sends, Keeps
<1>4. ASSUME NEW c \in HeadClaims, SelfParentHead(c) \/ TipRedelivered(c) \/ HeadObserved(c)
      PROVE  Goal
  <2>1. kernel' = WithHeadObserved(kernel, c)
    BY <1>4 DEF SelfParentHead, TipRedelivered, HeadObserved
  <2>2. PICK d, e : /\ Regraphs(kernel, d) /\ Regraphs(kernel, e)
                    /\ MissingParents(d.graph) = MissingParents(kernel.graph)
                    /\ Asks(d, kernel') \/ Scheduled(e, kernel')
    BY <1>1, <2>1, HeadStep DEF KInv
  <2>3. d.ghosts = {} /\ Targets(d, "header") = Targets(kernel, "header")
    BY <1>1, <2>2 DEF Regraphs, SameRequests, Targets, InFlight
  <2>4. MissingParents(d.graph) \cap Known \subseteq Targets(d, "header")
    BY <2>2, <2>3 DEF GapInv, GapsRequested
  <2>. QED
    BY <1>2, <1>3, <2>2, <2>3, <2>4 DEF Asks
<1>5. ASSUME NEW t, FinalizedBlockObserved(t)
      PROVE  Goal
  <2>1. kernel' = WithFinalizedBlockObserved(kernel, t)
    BY <1>5 DEF FinalizedBlockObserved
  <2>2. PICK j : /\ KernelOK(j) /\ Sends(j, kernel')
                 /\ \/ Keeps(kernel, j) /\ SameRequests(kernel, j)
                    \/ FinalityMoves(kernel, j, t)
    BY <1>1, <2>1, FinalityStep
  <2>3. CASE Keeps(kernel, j) /\ SameRequests(kernel, j)
    <3>1. Targets(j, "header") = Targets(kernel, "header")
      BY <2>3 DEF SameRequests, Targets, InFlight
    <3>2. j.ghosts = {} /\ MissingParents(j.graph) \cap Known \subseteq Targets(j, "header")
      BY <1>1, <2>3, <3>1, GapsStay DEF Keeps
    <3>. QED
      BY <1>3, <2>2, <3>2
  <2>4. CASE FinalityMoves(kernel, j, t)
    <3>1. j.ghosts = {} /\ MissingParents(j.graph) = {}
      BY <1>1, <2>4 DEF FinalityMoves, MissingParents
    <3>. QED
      BY <1>3, <2>2, <3>1
  <2>. QED
    BY <2>2, <2>3, <2>4
<1>6. ASSUME NEW h \in Block, NEW logs \in Batch(h), LogObserved(h, logs)
      PROVE  Goal
  <2>1. CASE \E s : Regraphs(kernel, s) /\ Scheduled(s, kernel')
    BY <1>2, <2>1
  <2>2. CASE SameRequests(kernel, kernel') /\ kernel'.graph = kernel.graph
    <3>1. Targets(kernel', "header") = Targets(kernel, "header") /\ kernel'.ghosts = kernel.ghosts
      BY <2>2 DEF SameRequests, Targets, InFlight
    <3>. QED
      BY <1>1, <2>2, <3>1 DEF GapInv, GapsRequested
  <2>. QED
    BY <1>1, <1>6, <2>1, <2>2, LogStep DEF KInv, LogObserved
<1>7. ASSUME NEW m \in kernel.wire \cup kernel.ghosts, Answered(m)
      PROVE  Goal
  <2>1. CASE HeaderAnswered(m)
    <3> DEFINE c == HeaderOf(m.payload.at)
               d == Drained(Admit(kernel, c), c.hash)
    <3> HIDE DEF d
    <3>1. Regraphs(kernel, d) /\ Unstaged(d) /\ Scheduled(Taken(d, m), kernel')
      BY <1>1, <2>1, HeaderStep DEF d
    <3>2. Keeps(d, Taken(d, m)) /\ d.ghosts = {}
      BY <1>1, <3>1, TakenOK DEF Regraphs, SameRequests
    <3>. QED
      BY <3>1, <3>2, GapsScheduled DEF Keeps
  <2>2. CASE ProbeAnswered(m)
    <3>1. CASE m.payload.kind = "probe" /\ kernel' = Taken(kernel, m)
      BY <3>1, OtherTargetsStay
    <3>2. CASE ~(m.payload.kind = "probe" /\ kernel' = Taken(kernel, m))
      <4>1. PICK b \in Block, late \in SUBSET Message :
                   /\ Trunk[b].number \in Nat /\ IsFiniteSet(late) /\ Cardinality(late) <= MaxGhosts
                   /\ kernel' = Activated(b, Trunk[b].number, {}, kernel.verified, kernel.rejected,
                                          kernel.tokens, late)
        BY <1>1, <2>2, <3>2, ProbeStep
      <4>2. late = {}
        <5>1. Cardinality(late) \in Nat /\ Cardinality(late) <= 0
          BY <4>1, FS_CardinalityType DEF HonestDenials
        <5>. QED
          BY <4>1, <5>1, FS_EmptySet
      <4>3. kernel.verified \in SUBSET Pool /\ kernel.rejected \in SUBSET Pool /\ kernel.tokens \in SUBSET Token
        BY <1>1 DEF KernelOK, DataOK
      <4>. QED
        BY <4>1, <4>2, <4>3, ActivatedOK
    <3>. QED
      BY <3>1, <3>2
  <2>3. CASE LogsAnswered(m) \/ RangeAnswered(m) \/ PoolsAnswered(m) \/ TokensAnswered(m) \/ SeedsAnswered(m)
    <3>1. m.payload.kind # "header"
      BY <1>1, <2>3, AnswerStep
    <3>2. CASE kernel' = Taken(kernel, m)
      BY <3>1, <3>2, OtherTargetsStay
    <3>3. CASE \E j : Scheduled(j, kernel') /\ j.ghosts = {}
      BY <3>3, GapsScheduled
    <3> DEFINE k == Taken(kernel, m)
    <3>4. Keeps(kernel, k)
      BY <1>1, TakenOK
    <3> HIDE DEF k
    <3>5. k.ghosts = {}
      BY <1>1, <3>4 DEF Keeps
    <3>6. ASSUME kernel' # k
          PROVE  \E j : Scheduled(j, kernel') /\ j.ghosts = k.ghosts
      BY <1>1, <2>3, <3>6, LogsStep, RangeStep, PoolsStep, TokensStep, SeedsStep DEF Regraphs, Records, SameRequests, k
    <3>. QED
      BY <3>2, <3>3, <3>5, <3>6 DEF k
  <2>. QED
    BY <1>7, <2>1, <2>2, <2>3 DEF Answered
<1>8. ASSUME NEW m \in kernel.wire, HeaderNotFound(m)
      PROVE  Goal
  <2> DEFINE j == Taken(kernel, m)
  <2>1. kernel' = j /\ m.payload.at \notin Known
    BY <1>1, <1>8, RequestStep DEF HeaderNotFound, Fault, HonestDenials
  <2>2. Keeps(kernel, j) /\ j.pending = kernel.pending \ Matching(kernel, m)
    BY <1>1, TakenOK
  <2> HIDE DEF j
  <2>3. \A r \in Matching(kernel, m) : r.payload = m.payload
    BY <1>1 DEF KernelOK, RequestsOK, Matching
  <2>4. Targets(kernel, "header") \cap Known \subseteq Targets(j, "header")
    BY <2>1, <2>2, <2>3 DEF Targets, InFlight
  <2>. QED
    BY <2>1, <2>2, <2>4, GapsStay DEF Keeps
<1>9. ASSUME SameAsked(kernel, kernel')
      PROVE  Goal
  <2>1. Targets(kernel', "header") = Targets(kernel, "header")
    <3>1. InFlight(kernel', "header") = InFlight(kernel, "header")
      BY <1>9, InFlightPayloads DEF SameAsked
    <3>. QED
      BY <3>1 DEF Targets
  <2>2. kernel'.graph = kernel.graph /\ kernel'.ghosts \subseteq kernel.ghosts
    BY <1>9 DEF SameAsked, Keeps
  <2>3. kernel'.ghosts = {}
    BY <1>1, <2>2
  <2>4. MissingParents(kernel'.graph) = MissingParents(kernel.graph)
    BY <2>2
  <2>. QED
    BY <2>1, <2>3, <2>4 DEF GapInv, GapsRequested
<1>10. ASSUME NEW m, RequestFailed(m) \/ AnswerLost(m)
       PROVE  Goal
  BY <1>1, <1>9, <1>10, RequestStep
<1>11. ASSUME Tick
       PROVE  Goal
  BY <1>1, <1>9, <1>11, TickStep
<1> HIDE DEF Goal
<1>12. Goal
  BY <1>1, <1>4, <1>5, <1>6, <1>7, <1>8, <1>10, <1>11 DEF Next
<1>. QED
  BY <1>12 DEF Goal

LEMMA InitGaps == Init => GapInv
<1> SUFFICES ASSUME Init PROVE GapInv
  OBVIOUS
<1> DEFINE j == Activated(StartAnchor, StartNumber, SeedWindow, Tracked, {}, KnownTokens, {})
<1>1. kernel = j
  BY DEF Init
<1>2. MissingParents(j.graph) \subseteq Targets(j, "header") /\ j.ghosts \subseteq {}
  BY ActivatedOK, RealChainAssumption, KernelAssumption, FS_EmptySet
<1> HIDE DEF j
<1>. QED
  BY <1>1, <1>2, InitKInv DEF GapInv, GapsRequested

\* Every gap of the ancestry that a provider can fill is being asked for, as long as no
\* provider denies a block it has and nothing of an earlier activation is still answered:
\* no head, retry, re-root or re-activation leaves a gap behind without its request.
THEOREM KernelGapsRequested == HonestDenials => (Spec => []GapsRequested)
<1> SUFFICES ASSUME HonestDenials PROVE Spec => []GapsRequested
  OBVIOUS
<1>1. Init => GapInv
  BY InitGaps
<1>2. GapInv /\ [Next]_vars => GapInv'
  <2> SUFFICES ASSUME GapInv, [Next]_vars PROVE GapInv'
    OBVIOUS
  <2>1. KInv'
    BY NextKInv DEF GapInv
  <2>2. CASE Next
    BY <2>1, <2>2, GapsStep DEF GapInv, GapsRequested
  <2>3. CASE UNCHANGED vars
    BY <2>1, <2>3 DEF GapInv, GapsRequested, vars
  <2>. QED
    BY <2>2, <2>3
<1>3. GapInv => GapsRequested
  BY DEF GapInv
<1>. QED
  BY <1>1, <1>2, <1>3, PTL DEF Spec

(***************************************************************************)
(* Honest providers: what the tree says of the chain is true.              *)
(***************************************************************************)

\* A block of the tree has its true number; a filler came with the seed window.
RealNode(g, h) ==
  IF h \in Fillers THEN g.nodes[h].level = "Complete" ELSE g.nodes[h].number = Trunk[h].number

Real(g) ==
  /\ Tied(g, Rep) /\ g.number = Trunk[g.anchor].number
  /\ \A h \in Present(g) : RealNode(g, h)

\* From g to g2 the tree stays real, and exact if it was.
KeepsReal(g, g2) ==
  Real(g) => Real(g2) /\ (CompleteIsExact(g) => CompleteIsExact(g2))

LEMMA RealKept ==
  ASSUME NEW g, NEW g2, KeepsHeaders(g, g2), Ladder(g, g2), Real(g), g2.head \in Served
  PROVE  Real(g2)
<1>1. Tied(g2, Rep)
  BY TiedKept DEF Real
<1>. QED
  BY <1>1 DEF Real, RealNode, KeepsHeaders, SameHeader, Ladder, Climbs

LEMMA RealNew ==
  ASSUME NEW anchor \in Served
  PROVE  LET g == NewGraph(anchor, Trunk[anchor].number) IN Real(g) /\ CompleteIsExact(g)
<1> DEFINE g == NewGraph(anchor, Trunk[anchor].number)
<1>1. anchor \in Block /\ Trunk[anchor].number \in Nat
  BY RealChainAssumption DEF Served
<1>2. g.anchor = anchor /\ g.number = Trunk[anchor].number /\ g.head = anchor /\ Present(g) = {}
  BY <1>1, NewGraphTree
<1> HIDE DEF g
<1>. QED
  BY <1>2 DEF Real, Tied, CompleteIsExact, g

\* An admission whose header and logs are those the hash commits to.
LEMMA RealAdmission ==
  ASSUME NEW g, TreeOK(g), NEW hash \in Block, NEW parent \in Block, NEW data \in BlockData,
         NEW cap \in {MaxPending, SeedCap},
         Spans(Rep, parent, hash), \A l \in LogsOf[hash] : EmitterOf[LogPool[l]] \in data.bloom,
         parent \in Fillers \/ hash \in Fillers => data.level = "Complete",
         hash \notin Fillers => data.number = Trunk[hash].number,
         data.level = "Complete" => data.logs = LogsOf[hash]
  PROVE  KeepsReal(g, WithDataCapped(g, hash, parent, data, cap))
<1> DEFINE g2 == WithDataCapped(g, hash, parent, data, cap)
<1>1. cap \in Nat /\ PendingCap \in Nat /\ cap <= PendingCap
  BY RealChainAssumption DEF PendingCap
<1>2. LogsKept(g, g2) /\ Brings(g, g2, hash, data)
  BY <1>1, AdmissionWellFormed DEF TreeOK
<1>3. /\ g2.anchor = g.anchor /\ g2.number = g.number
      /\ \A h \in Present(g2) :
           \/ h \in Present(g) /\ SameHeader(g2, g, h)
           \/ h = hash /\ h \notin Present(g) /\ ParentHash(g2, h) = parent
              /\ g2.nodes[h].bloom = data.bloom /\ g2.nodes[h].number = data.number
  BY AdmissionHeaders DEF TreeOK
<1>4. Tied(g, Rep) => Tied(g2, Rep)
  BY AdmissionTied
<1> HIDE DEF g2
<1>5. ASSUME Real(g), NEW h \in Present(g2)
      PROVE  RealNode(g2, h) /\ (CompleteIsExact(g) /\ g2.nodes[h].level = "Complete" => g2.nodes[h].logs = LogsOf[h])
  <2>1. CASE h \in Present(g) /\ SameHeader(g2, g, h)
    BY <1>2, <1>5, <2>1 DEF Real, RealNode, SameHeader, LogsKept, SameLogs, CompleteIsExact
  <2>2. CASE h = hash /\ h \notin Present(g) /\ g2.nodes[h].number = data.number
    BY <1>2, <2>2 DEF RealNode, Brings
  <2>. QED
    BY <1>3, <2>1, <2>2
<1>. QED
  BY <1>3, <1>4, <1>5 DEF KeepsReal, Real, CompleteIsExact, g2

\* A header a provider serves.
LEMMA RealHeader ==
  ASSUME HonestKernel, NEW g, TreeOK(g), NEW b \in Known
  PROVE  KeepsReal(g, WithBlockCapped(g, b, Trunk[b].parent, Trunk[b].number, Trunk[b].bloom, MaxPending))
<1> DEFINE p == Trunk[b].parent
           data == HeaderData(Trunk[b].number, Trunk[b].bloom)
<1>1. b \in Block /\ p \in Block /\ b \notin Fillers /\ p \notin Fillers
  BY DEF Known, Fillers, HonestKernel
<1>2. data \in BlockData /\ data.level # "Complete" /\ data.number = Trunk[b].number /\ data.bloom = Trunk[b].bloom
  BY <1>1, RealChainAssumption DEF HeaderData, BlockData, Level, LogMap
<1>3. Spans(Rep, p, b) /\ \A l \in LogsOf[b] : EmitterOf[LogPool[l]] \in data.bloom
  BY <1>1, <1>2, HeaderBridges, RepStandsIn DEF HonestKernel
<1>4. MaxPending \in {MaxPending, SeedCap}
  OBVIOUS
<1> HIDE DEF p, data
<1>5. KeepsReal(g, WithDataCapped(g, b, p, data, MaxPending))
  BY <1>1, <1>2, <1>3, <1>4, RealAdmission
<1>. QED
  BY <1>5 DEF WithBlockCapped, p, data

LEMMA RealHead ==
  ASSUME NEW g, TreeOK(g), NEW h \in Served
  PROVE  KeepsReal(g, WithObservedHead(g, h))
<1> DEFINE g2 == WithObservedHead(g, h)
<1>1. /\ g2.nodes = g.nodes /\ g2.anchor = g.anchor /\ g2.number = g.number /\ g2.head \in {g.head, h}
  BY GraphParts DEF WithObservedHead, TreeOK
<1> HIDE DEF g2
<1>2. KeepsHeaders(g, g2) /\ Ladder(g, g2)
  BY <1>1 DEF KeepsHeaders, SameHeader, ParentHash, Present, Ladder, Climbs
<1>3. Real(g) => Real(g2)
  BY <1>1, <1>2, RealKept DEF Real, Tied
<1>4. CompleteIsExact(g) => CompleteIsExact(g2)
  BY <1>1 DEF CompleteIsExact, Present
<1>. QED
  BY <1>3, <1>4 DEF KeepsReal, g2

LEMMA RealStreamed ==
  ASSUME NEW g, TreeOK(g), NEW h \in Block, NEW logs \in LogMap
  PROVE  KeepsReal(g, WithStreamedLogs(g, h, logs))
<1> DEFINE g2 == WithStreamedLogs(g, h, logs)
<1>1. KeepsHeaders(g, g2) /\ g2.head = g.head
  BY LogHeaders DEF TreeOK
<1>2. \A x \in Present(g) : Climbs(g.nodes[x], g2.nodes[x])
  BY StreamedLogsWellFormed DEF TreeOK
<1>3. \A x \in Present(g) : g2.nodes[x].level = "Complete" => g2.nodes[x] = g.nodes[x]
  BY GraphParts DEF WithStreamedLogs, Present, TreeOK, Node
<1> HIDE DEF g2
<1>4. Real(g) => Real(g2)
  BY <1>1, <1>2, RealKept DEF Real, Tied, Ladder
<1>5. CompleteIsExact(g) => CompleteIsExact(g2)
  BY <1>1, <1>3 DEF CompleteIsExact, KeepsHeaders
<1>. QED
  BY <1>4, <1>5 DEF KeepsReal, g2

\* Authoritative logs: whatever they are, the tree stays tied to the chain; true ones
\* keep it exact.
LEMMA RealCompleted ==
  ASSUME NEW g, TreeOK(g), Real(g), NEW logs, \A h \in DOMAIN logs : logs[h] \in LogMap
  PROVE  LET g2 == Completed(g, logs)
         IN /\ Real(g2)
            /\ CompleteIsExact(g) /\ (\A h \in DOMAIN logs : logs[h] = LogsOf[h]) => CompleteIsExact(g2)
<1> DEFINE g2 == Completed(g, logs)
<1>1. /\ g2.anchor = g.anchor /\ g2.number = g.number /\ g2.head = g.head /\ Present(g2) = Present(g)
      /\ \A h \in Present(g) :
           /\ g2.nodes[h].parent = g.nodes[h].parent
           /\ g2.nodes[h].number = g.nodes[h].number /\ g2.nodes[h].bloom = g.nodes[h].bloom
           /\ h \in DOMAIN logs => g2.nodes[h].level = "Complete" /\ g2.nodes[h].logs = logs[h]
           /\ h \notin DOMAIN logs => g2.nodes[h] = g.nodes[h]
  BY CompletedTree
<1> HIDE DEF g2
<1>2. \A h \in Present(g) : ParentHash(g2, h) = ParentHash(g, h)
  BY <1>1 DEF ParentHash
<1>3. \A h \in Present(g) : g.nodes[h].level = "Complete" => g2.nodes[h].level = "Complete"
  BY <1>1
<1>4. Tied(g2, Rep)
  BY <1>1, <1>2, <1>3 DEF Real, Tied, TiedNode
<1>5. Real(g2)
  BY <1>1, <1>3, <1>4 DEF Real, RealNode
<1>6. CompleteIsExact(g) /\ (\A h \in DOMAIN logs : logs[h] = LogsOf[h]) => CompleteIsExact(g2)
  BY <1>1 DEF CompleteIsExact
<1>. QED
  BY <1>5, <1>6 DEF g2

LEMMA RealComplete ==
  ASSUME NEW g, TreeOK(g), Real(g), NEW h \in Block, NEW logs \in LogMap
  PROVE  LET g2 == WithCompleteLogs(g, h, logs)
         IN Real(g2) /\ (CompleteIsExact(g) /\ logs = LogsOf[h] => CompleteIsExact(g2))
<1> DEFINE g2 == WithCompleteLogs(g, h, logs)
<1>1. KeepsHeaders(g, g2) /\ g2.head = g.head
  BY LogHeaders DEF TreeOK
<1>2. /\ h \notin Present(g) => g2 = g
      /\ h \in Present(g) => Reloads(g, g2, h, "Complete", logs)
  BY CompleteLogsWellFormed DEF TreeOK
<1> HIDE DEF g2
<1>3. CASE h \notin Present(g)
  BY <1>2, <1>3 DEF g2
<1>4. CASE h \in Present(g)
  <2>1. \A x \in Present(g) : g.nodes[x].level = "Complete" => g2.nodes[x].level = "Complete"
    BY <1>2, <1>4 DEF Reloads, SameLogs
  <2>2. Tied(g2, Rep)
    BY <1>1, <2>1 DEF Real, Tied, TiedNode, KeepsHeaders, SameHeader
  <2>3. Real(g2)
    BY <1>1, <2>1, <2>2 DEF Real, RealNode, KeepsHeaders, SameHeader
  <2>4. CompleteIsExact(g) /\ logs = LogsOf[h] => CompleteIsExact(g2)
    BY <1>1, <1>2, <1>4 DEF CompleteIsExact, KeepsHeaders, Reloads, SameLogs
  <2>. QED
    BY <2>3, <2>4 DEF g2
<1>. QED
  BY <1>3, <1>4

\* The seed window bridges to the anchor, and its logs are authoritative.
LEMMA RealSeedGraph ==
  ASSUME HonestKernel, NEW anchor \in Served, NEW number, number = Trunk[anchor].number,
         NEW window \in SUBSET SeedWindow
  PROVE  LET g == SeedGraph(anchor, number, window) IN Real(g) /\ CompleteIsExact(g)
<1> DEFINE X == {g \in GraphValue : TreeOK(g) /\ Real(g) /\ CompleteIsExact(g)}
<1>1. NewGraph(anchor, number) \in X
  <2>1. anchor \in Block /\ Trunk[anchor].number \in Nat
    BY RealChainAssumption DEF Served
  <2>. QED
    BY <2>1, NewGraphTree, GraphValues, RealNew DEF TreeOK
<1>2. ASSUME NEW g \in X, NEW s \in window
      PROVE  WithDataCapped(g, s.hash, s.parent, SeedData(s.number, s.logs), SeedCap) \in X
  <2> DEFINE h == s.hash
             p == s.parent
             data == SeedData(s.number, s.logs)
             g2 == WithDataCapped(g, h, p, data, SeedCap)
  <2>1. h \in Block /\ p \in Block /\ data \in BlockData /\ data.level = "Complete" /\ data.logs = LogsOf[h]
        /\ data.number = s.number /\ data.bloom = NoBloom
    BY RealChainAssumption DEF SeedBlock, SeedData, BlockData, BloomValue, NoBloom, Level
  <2>2. Spans(Rep, p, h) /\ (h \notin Fillers => data.number = Trunk[h].number)
    BY <2>1, RepStandsIn DEF HonestKernel, StandIn
  <2>3. \A l \in LogsOf[h] : EmitterOf[LogPool[l]] \in data.bloom
    <3>1. LogsOf[h] \in LogMap
      BY <2>1, RealChainAssumption
    <3>. QED
      BY <2>1, <3>1, PoolDataAssumption DEF NoBloom, LogMap
  <2>4. TreeOK(g) /\ Real(g) /\ CompleteIsExact(g)
    OBVIOUS
  <2>5. SeedCap \in {MaxPending, SeedCap}
    OBVIOUS
  <2> HIDE DEF X, h, p, data
  <2>6. KeepsReal(g, g2) /\ TreeOK(g2)
    BY <2>1, <2>2, <2>3, <2>4, <2>5, RealAdmission, AdmissionTree
  <2> HIDE DEF g2
  <2>7. g2 \in X
    BY <2>4, <2>6, GraphValues DEF KeepsReal, TreeOK, X
  <2>. QED
    BY <2>7 DEF g2, h, p, data
<1> HIDE DEF X
<1>3. SeedGraph(anchor, number, window) \in X
  BY <1>1, <1>2, SeedGraphIn DEF SeedClosed
<1>. QED
  BY <1>3 DEF X

LEMMA KeepsRealTwice ==
  ASSUME NEW g, NEW h, NEW i, KeepsReal(g, h), KeepsReal(h, i)
  PROVE  KeepsReal(g, i)
BY DEF KeepsReal

\* What a range covers lies on the chain the provider follows, at the numbers asked for.
RangeReal(p) == \A h \in p.items : h \in TrueLine(CanonTip) /\ Trunk[h].number \in p.numbers

\* From k to j nothing is asked, read or recorded that needs the real chain; the tree
\* is another matter (KeepsReal).
Follows(k, j) ==
  /\ KernelOK(j) /\ j.graph.anchor = k.graph.anchor /\ j.ghosts \subseteq k.ghosts
  /\ k.verified \subseteq j.verified
  /\ \A p \in InFlight(j, "range") : p \in InFlight(k, "range") \/ RangeReal(p)
  /\ \A p \in InFlight(j, "seeds") : p \in InFlight(k, "seeds") \/ p.items \subseteq j.verified

Carries(k, j) == Follows(k, j) /\ j.snapshot = k.snapshot

LEMMA CarriesTwice ==
  ASSUME NEW k, NEW j, NEW i, Carries(k, j), Carries(j, i)
  PROVE  Carries(k, i)
BY DEF Carries, Follows

LEMMA SubsetInFlight ==
  ASSUME NEW k, NEW j, j.pending \subseteq k.pending, NEW kind
  PROVE  InFlight(j, kind) \subseteq InFlight(k, kind)
BY DEF InFlight

LEMMA AsksCarries ==
  ASSUME NEW k, NEW j, Asks(k, j)
  PROVE  Carries(k, j) /\ j.graph = k.graph
BY DEF Asks, Sends, Keeps, Carries, Follows

LEMMA RegraphsCarries ==
  ASSUME NEW k, NEW j, Regraphs(k, j)
  PROVE  Carries(k, j)
<1>1. \A kind : InFlight(j, kind) = InFlight(k, kind)
  BY DEF Regraphs, SameRequests, InFlight
<1>2. InFlight(j, "range") = InFlight(k, "range") /\ InFlight(j, "seeds") = InFlight(k, "seeds")
  BY <1>1
<1>. QED
  BY <1>2 DEF Regraphs, SameRequests, Carries, Follows

LEMMA RecordsCarries ==
  ASSUME NEW k, NEW j, Records(k, j), j.snapshot = k.snapshot, k.verified \subseteq j.verified
  PROVE  Carries(k, j) /\ j.graph = k.graph
<1>1. InFlight(j, "range") = InFlight(k, "range") /\ InFlight(j, "seeds") = InFlight(k, "seeds")
  BY DEF Records, SameRequests, InFlight
<1>. QED
  BY <1>1 DEF Records, SameRequests, Carries, Follows

LEMMA TakenCarries ==
  ASSUME NEW k, KernelOK(k), NEW m
  PROVE  Carries(k, Taken(k, m)) /\ Taken(k, m).graph = k.graph /\ Taken(k, m).verified = k.verified
<1> DEFINE j == Taken(k, m)
<1>1. Fields(k) /\ RequestsOK(k, RequestTTL - 1) /\ RequestTTL - 1 \in Nat /\ DataOK(k)
  BY KernelAssumption DEF KernelOK, DataOK
<1>2. /\ Keeps(k, j) /\ RequestsOK(j, RequestTTL - 1)
      /\ j.pending = k.pending \ Matching(k, m)
  BY <1>1, TakenRequests
<1> HIDE DEF j
<1>3. InFlight(j, "range") \subseteq InFlight(k, "range") /\ InFlight(j, "seeds") \subseteq InFlight(k, "seeds")
  BY <1>2, SubsetInFlight
<1>4. KernelOK(j)
  BY <1>1, <1>2, KeepsData DEF KernelOK
<1>. QED
  BY <1>2, <1>3, <1>4 DEF Keeps, Carries, Follows, j

LEMMA SameAskedCarries ==
  ASSUME NEW k, NEW j, SameAsked(k, j)
  PROVE  Carries(k, j) /\ j.graph = k.graph
<1>1. InFlight(j, "range") = InFlight(k, "range") /\ InFlight(j, "seeds") = InFlight(k, "seeds")
  BY InFlightPayloads DEF SameAsked
<1>. QED
  BY <1>1 DEF SameAsked, Keeps, Carries, Follows

\* The drain of what was staged, whatever a feed tagged with the block.
LEMMA RealDrained ==
  ASSUME NEW k, KernelOK(k), NEW h
  PROVE  KeepsReal(k.graph, Drained(k, h).graph)
<1>1. CASE h \notin Present(k.graph) \cap DOMAIN k.staging
  BY <1>1 DEF Drained, KeepsReal
<1>2. CASE h \in Present(k.graph) \cap DOMAIN k.staging
  <2> DEFINE i == [k EXCEPT !.staging = [b \in DOMAIN @ \ {h} |-> @[b]]]
             logs == k.staging[h]
             g2 == WithStreamedLogs(k.graph, h, logs)
  <2>1. h \in Block /\ logs \in LogMap /\ TreeOK(k.graph)
    BY <1>2 DEF KernelOK, DataOK
  <2>2. Drained(k, h) = Streamed(i, h, logs)
    BY <1>2 DEF Drained
  <2>3. Fields(i) /\ i.graph = k.graph
    BY DEF KernelOK, DataOK, Fields, KernelFields
  <2> HIDE DEF i, logs
  <2>4. Streamed(i, h, logs).graph = g2
    BY <2>3 DEF Streamed, Fields, KernelFields
  <2>5. KeepsReal(k.graph, g2)
    BY <2>1, RealStreamed
  <2>. QED
    BY <2>2, <2>4, <2>5
<1>. QED
  BY <1>1, <1>2

\* A header a provider serves: the tree after its admission, with or without the head.
LEMMA RealAdmitted ==
  ASSUME HonestKernel, NEW k, KernelOK(k), NEW b \in Known
  PROVE  LET c == HeaderOf(b)
             a == Admit(k, c)
         IN /\ KeepsReal(k.graph, Drained(a, b).graph)
            /\ KeepsReal(k.graph, Drained(WithHead(a, b), b).graph)
<1> DEFINE c == HeaderOf(b)
           a == Admit(k, c)
           w == WithHead(a, b)
           g2 == WithBlockCapped(k.graph, b, Trunk[b].parent, Trunk[b].number, Trunk[b].bloom, MaxPending)
<1>1. c \in Header /\ b \in Block /\ b \in Served
  BY RealChainAssumption DEF Known, HeaderOf, Header, Served, Fillers
<1>2. c.hash = b /\ c.parent = Trunk[b].parent /\ c.number = Trunk[b].number /\ c.bloom = Trunk[b].bloom
  BY DEF HeaderOf
<1> HIDE DEF c
<1>3. KernelOK(a)
  BY <1>1, AdmitOK DEF Regraphs
<1>4. a.graph = g2
  <2>1. Fields(k)
    BY DEF KernelOK, DataOK
  <2> HIDE DEF g2
  <2>2. a = [k EXCEPT !.graph = g2]
    BY <1>2 DEF Admit, g2
  <2>. QED
    BY <2>1, <2>2 DEF Fields, KernelFields
<1>5. KeepsReal(k.graph, a.graph)
  BY <1>4, RealHeader DEF KernelOK, DataOK
<1> HIDE DEF a, g2
<1>6. KernelOK(w)
  BY <1>1, <1>3, WithHeadOK DEF Regraphs
<1>7. w.graph = WithObservedHead(a.graph, b)
  BY <1>3 DEF WithHead, KernelOK, DataOK, Fields, KernelFields
<1>8. KeepsReal(a.graph, w.graph)
  BY <1>1, <1>3, <1>7, RealHead DEF KernelOK, DataOK
<1> HIDE DEF w
<1>9. KeepsReal(a.graph, Drained(a, b).graph) /\ KeepsReal(w.graph, Drained(w, b).graph)
  BY <1>3, <1>6, RealDrained
<1>. QED
  BY <1>5, <1>8, <1>9, KeepsRealTwice DEF a, c, w

LEMMA HeadCarries ==
  ASSUME HonestKernel, NEW k, KernelOK(k), Unstaged(k), NEW c \in HeadClaims,
         NEW j, j = WithHeadObserved(k, c)
  PROVE  Carries(k, j) /\ KeepsReal(k.graph, j.graph)
<1> DEFINE d == Drained(k, c.hash)
           e == Drained(WithHead(Admit(k, c), c.hash), c.hash)
<1>1. /\ Regraphs(k, d) /\ Regraphs(k, e)
      /\ Asks(d, j) \/ (HeadOutcome(k, c) # "SelfParent" /\ Asks(e, j))
  BY HeadStep DEF Scheduled
<1>2. KernelOK(k)
  OBVIOUS
<1>3. KeepsReal(k.graph, d.graph)
  BY <1>2, RealDrained
<1>4. HeadOutcome(k, c) # "SelfParent" => KeepsReal(k.graph, e.graph)
  <2> SUFFICES ASSUME HeadOutcome(k, c) # "SelfParent" PROVE KeepsReal(k.graph, e.graph)
    OBVIOUS
  <2>1. c.hash # c.parent
    BY DEF HeadOutcome, AdmissionOf
  <2>2. PICK b \in Known : c = HeaderOf(b)
    BY <2>1 DEF HonestKernel
  <2>3. c.hash = b
    BY <2>2 DEF HeaderOf
  <2>. QED
    BY <1>2, <2>2, <2>3, RealAdmitted
<1> HIDE DEF d, e
<1>5. Carries(k, d) /\ Carries(k, e)
  BY <1>1, RegraphsCarries
<1>6. CASE Asks(d, j)
  BY <1>3, <1>5, <1>6, AsksCarries, CarriesTwice
<1>7. CASE HeadOutcome(k, c) # "SelfParent" /\ Asks(e, j)
  BY <1>4, <1>5, <1>7, AsksCarries, CarriesTwice
<1>. QED
  BY <1>1, <1>6, <1>7

LEMMA HeaderCarries ==
  ASSUME HonestKernel, KInv, NEW m, HeaderAnswered(m)
  PROVE  Carries(kernel, kernel') /\ KeepsReal(kernel.graph, kernel'.graph)
<1> DEFINE b == m.payload.at
           c == HeaderOf(b)
           d == Drained(Admit(kernel, c), c.hash)
           k == Taken(d, m)
<1>1. /\ b \in Known /\ Regraphs(kernel, d) /\ Unstaged(d) /\ KernelOK(k) /\ Asks(k, kernel')
  BY HeaderStep DEF Scheduled
<1>2. KernelOK(kernel) /\ c.hash = b
  BY DEF KInv, HeaderOf
<1>3. KeepsReal(kernel.graph, d.graph)
  BY <1>1, <1>2, RealAdmitted
<1> HIDE DEF b, c, d
<1>4. KernelOK(d)
  BY <1>1 DEF Regraphs
<1>5. Carries(d, k) /\ k.graph = d.graph
  BY <1>4, TakenCarries
<1> HIDE DEF k
<1>6. Carries(k, kernel') /\ kernel'.graph = k.graph
  BY <1>1, AsksCarries
<1>7. Carries(kernel, d)
  BY <1>1, RegraphsCarries
<1>8. Carries(kernel, k)
  BY <1>5, <1>7, CarriesTwice
<1>. QED
  BY <1>3, <1>5, <1>6, <1>8, CarriesTwice

LEMMA LogCarries ==
  ASSUME NEW k, KernelOK(k), Unstaged(k), NEW h \in Block, NEW logs \in Batch(h),
         NEW j, j = WithLogsObserved(k, h, logs)
  PROVE  Carries(k, j) /\ KeepsReal(k.graph, j.graph)
<1> DEFINE s == Streamed(k, h, logs)
           t == Staged(k, h, logs)
<1>1. /\ logs \in LogMap
      /\ \/ Regraphs(k, s) /\ Asks(s, j)
         \/ /\ j = t /\ KernelOK(t) /\ Unstaged(t) /\ SameRequests(k, t)
            /\ t.graph = k.graph /\ t.snapshot = k.snapshot /\ t.verified = k.verified
  BY LogStep DEF Scheduled
<1>2. s.graph = WithStreamedLogs(k.graph, h, logs) /\ TreeOK(k.graph)
  BY DEF Streamed, KernelOK, DataOK, Fields, KernelFields
<1>3. KeepsReal(k.graph, s.graph)
  BY <1>1, <1>2, RealStreamed
<1> HIDE DEF s, t
<1>4. CASE Regraphs(k, s) /\ Asks(s, j)
  BY <1>3, <1>4, RegraphsCarries, AsksCarries, CarriesTwice
<1>5. CASE /\ j = t /\ KernelOK(t) /\ Unstaged(t) /\ SameRequests(k, t)
           /\ t.graph = k.graph /\ t.snapshot = k.snapshot /\ t.verified = k.verified
  BY <1>5, RecordsCarries DEF Records, KeepsReal
<1>. QED
  BY <1>1, <1>4, <1>5

\* Pools and tokens validated.
LEMMA RegistryCarries ==
  ASSUME KInv, NEW m \in kernel.wire \cup kernel.ghosts, PoolsAnswered(m) \/ TokensAnswered(m)
  PROVE  Carries(kernel, kernel') /\ kernel'.graph = kernel.graph
<1> DEFINE k == Taken(kernel, m)
<1>1. Carries(kernel, k) /\ k.graph = kernel.graph
  BY TakenCarries DEF KInv
<1>2. \/ kernel' = k
      \/ \E j : Records(k, j) /\ Asks(j, kernel') /\ j.snapshot = k.snapshot /\ k.verified \subseteq j.verified
  BY PoolsStep, TokensStep DEF Scheduled
<1> HIDE DEF k
<1>3. CASE kernel' = k
  BY <1>1, <1>3
<1>4. ASSUME NEW j, Records(k, j), Asks(j, kernel'), j.snapshot = k.snapshot, k.verified \subseteq j.verified
      PROVE  Carries(kernel, kernel') /\ kernel'.graph = kernel.graph
  <2>1. Carries(k, j) /\ j.graph = k.graph
    BY <1>4, RecordsCarries
  <2>2. Carries(j, kernel') /\ kernel'.graph = j.graph
    BY <1>4, AsksCarries
  <2>3. Carries(kernel, j)
    BY <1>1, <2>1, CarriesTwice
  <2>. QED
    BY <1>1, <2>1, <2>2, <2>3, CarriesTwice
<1>. QED
  BY <1>2, <1>3, <1>4

\* Denials, failures, losses and time.
LEMMA RequestCarries ==
  ASSUME KInv, NEW m, HeaderNotFound(m) \/ RequestFailed(m) \/ AnswerLost(m) \/ Tick
  PROVE  Carries(kernel, kernel') /\ kernel'.graph = kernel.graph
<1>1. Carries(kernel, Taken(kernel, m)) /\ Taken(kernel, m).graph = kernel.graph
  BY TakenCarries DEF KInv
<1>. QED
  BY <1>1, RequestStep, TickStep, SameAskedCarries

\* The chain the provider follows is one of served blocks.
LEMMA LineServed ==
  ASSUME HonestKernel
  PROVE  /\ TrueLine(CanonTip) \subseteq Served /\ Finalized \subseteq TrueLine(CanonTip)
         /\ \A b \in TrueLine(CanonTip) : b \in Block /\ Rep[b] = b
<1>1. Served \in SUBSET Block /\ CanonTip \in Served
  BY DEF Served, HonestKernel
<1>2. ASSUME NEW c \in Served, Trunk[c].parent \in Block
      PROVE  Trunk[c].parent \in Served
  BY <1>2 DEF Served, Known, HonestKernel
<1>3. TrueLine(CanonTip) \subseteq Served
  BY <1>1, <1>2, LineLeast
<1>. QED
  BY <1>3, RepStandsIn, KernelAssumption DEF HonestKernel, StandIn, Served

LEMMA WireMatches ==
  ASSUME KInv, NEW m \in kernel.wire, NEW r \in Matching(kernel, m)
  PROVE  r.payload = m.payload
BY DEF KInv, KernelOK, RequestsOK, Matching

LEMMA LogsCarries ==
  ASSUME KInv, NEW m \in kernel.wire \cup kernel.ghosts, LogsAnswered(m), Real(kernel.graph)
  PROVE  /\ Carries(kernel, kernel') /\ Real(kernel'.graph)
         /\ m \in kernel.wire /\ CompleteIsExact(kernel.graph) => CompleteIsExact(kernel'.graph)
<1> DEFINE k == Taken(kernel, m)
<1>1. KernelOK(kernel) /\ Carries(kernel, k) /\ k.graph = kernel.graph
  BY TakenCarries DEF KInv
<1>2. CASE kernel' = k
  BY <1>1, <1>2
<1>3. CASE kernel' # k
  <2>1. PICK r \in Matching(kernel, m) :
          LET j == CompleteIn(k, r.payload.at, LogsOf[m.payload.at])
          IN Regraphs(k, j) /\ Scheduled(j, kernel') /\ m.payload.kind = "logs"
    BY <1>3, LogsStep
  <2> DEFINE h == r.payload.at
             logs == LogsOf[m.payload.at]
             j == CompleteIn(k, h, logs)
  <2>2. h \in Block /\ m.payload.at \in Block
    BY <2>1, MatchedRequest, WireMessages, PayloadParts
  <2>3. logs \in LogMap
    BY <2>2, RealChainAssumption
  <2>4. m \in kernel.wire => logs = LogsOf[h]
    BY WireMatches
  <2>5. TreeOK(k.graph) /\ Fields(k)
    BY <1>1 DEF Carries, Follows, KernelOK, DataOK
  <2> HIDE DEF k, h, logs
  <2>6. j.graph = WithCompleteLogs(k.graph, h, logs)
    BY <2>5 DEF CompleteIn, Fields, KernelFields
  <2>7. /\ Real(j.graph)
        /\ CompleteIsExact(k.graph) /\ logs = LogsOf[h] => CompleteIsExact(j.graph)
    BY <1>1, <2>2, <2>3, <2>5, <2>6, RealComplete
  <2>8. Regraphs(k, j) /\ Asks(j, kernel')
    BY <2>1 DEF Scheduled, k, h, logs
  <2> HIDE DEF j
  <2>9. Carries(k, j) /\ Carries(j, kernel') /\ kernel'.graph = j.graph
    BY <2>8, RegraphsCarries, AsksCarries
  <2>10. Carries(kernel, kernel')
    BY <1>1, <2>9, CarriesTwice DEF k
  <2>. QED
    BY <1>1, <2>4, <2>7, <2>9, <2>10 DEF k
<1>. QED
  BY <1>2, <1>3

LEMMA RangeCarries ==
  ASSUME KInv, NEW m \in kernel.wire \cup kernel.ghosts, RangeAnswered(m), Real(kernel.graph)
  PROVE  /\ Carries(kernel, kernel') /\ Real(kernel'.graph)
         /\ /\ m \in kernel.wire /\ CompleteIsExact(kernel.graph)
            /\ \A p \in InFlight(kernel, "range") : RangeReal(p)
            => CompleteIsExact(kernel'.graph)
<1> DEFINE k == Taken(kernel, m)
<1>1. KernelOK(kernel) /\ Carries(kernel, k) /\ k.graph = kernel.graph
  BY TakenCarries DEF KInv
<1>2. CASE kernel' = k
  BY <1>1, <1>2
<1>3. CASE kernel' # k
  <2>1. PICK r \in Matching(kernel, m) :
          LET j == CompleteRange(k, r.payload.items, Responded(m))
          IN /\ Regraphs(k, j) /\ Scheduled(j, kernel') /\ m.payload.kind = "range"
             /\ j.graph = Completed(k.graph, RangeLogs(r.payload.items, Responded(m)))
    BY <1>3, RangeStep
  <2> DEFINE items == r.payload.items
             logs == RangeLogs(items, Responded(m))
             j == CompleteRange(k, items, Responded(m))
  <2>2. \A h \in DOMAIN logs : logs[h] \in LogMap
    BY RealChainAssumption DEF RangeLogs, Responded, TrueLine, LogMap
  <2>3. ASSUME m \in kernel.wire, \A p \in InFlight(kernel, "range") : RangeReal(p)
        PROVE  \A h \in DOMAIN logs : logs[h] = LogsOf[h]
    <3>1. r.payload = m.payload /\ r.payload \in InFlight(kernel, "range")
      BY <2>1, <2>3, WireMatches, MatchedRequest DEF InFlight
    <3>2. RangeReal(m.payload) /\ items = m.payload.items
      BY <2>3, <3>1
    <3>3. ASSUME NEW h \in items, h \notin Responded(m)
          PROVE  LogsOf[h] = {}
      BY <3>2, <3>3 DEF RangeReal, Responded
    <3>. QED
      BY <3>3 DEF RangeLogs
  <2>4. TreeOK(k.graph)
    BY <1>1 DEF Carries, Follows, KernelOK, DataOK
  <2>5. Regraphs(k, j) /\ Asks(j, kernel') /\ j.graph = Completed(k.graph, logs)
    BY <2>1 DEF Scheduled
  <2> HIDE DEF k, logs, j
  <2>6. /\ Real(j.graph)
        /\ CompleteIsExact(k.graph) /\ (\A h \in DOMAIN logs : logs[h] = LogsOf[h]) => CompleteIsExact(j.graph)
    BY <1>1, <2>2, <2>4, <2>5, RealCompleted
  <2>7. Carries(k, j) /\ Carries(j, kernel') /\ kernel'.graph = j.graph
    BY <2>5, RegraphsCarries, AsksCarries
  <2>8. Carries(kernel, kernel')
    BY <1>1, <2>7, CarriesTwice DEF k
  <2>. QED
    BY <1>1, <2>3, <2>6, <2>7, <2>8 DEF k
<1>. QED
  BY <1>2, <1>3

\* A read is written as it was made: at the anchor of the request it answers.
LEMMA SeedsCarries ==
  ASSUME KInv, NEW m \in kernel.wire \cup kernel.ghosts, SeedsAnswered(m)
  PROVE  /\ Follows(kernel, kernel') /\ kernel'.graph = kernel.graph
         /\ DOMAIN kernel.snapshot \subseteq DOMAIN kernel'.snapshot
         /\ \A p \in DOMAIN kernel'.snapshot :
              \/ p \in DOMAIN kernel.snapshot /\ kernel'.snapshot[p] = kernel.snapshot[p]
              \/ /\ m \in kernel.wire => /\ m.payload \in InFlight(kernel, "seeds")
                                         /\ m.payload.at = kernel.graph.anchor
                 /\ p \in m.payload.items /\ kernel'.snapshot[p] = TrueState[m.payload.at][p]
<1> DEFINE k == Taken(kernel, m)
<1>1. Carries(kernel, k) /\ k.graph = kernel.graph
  BY TakenCarries DEF KInv
<1>2. CASE kernel' = k
  BY <1>1, <1>2 DEF Carries
<1>3. CASE kernel' # k
  <2>1. m.payload.kind = "seeds"
    BY DEF SeedsAnswered
  <2>2. PICK r \in Matching(kernel, m) : \E j :
                 /\ Records(k, j) /\ Scheduled(j, kernel') /\ j.verified = k.verified
                 /\ DOMAIN k.snapshot \subseteq DOMAIN j.snapshot
                 /\ \A p \in DOMAIN j.snapshot :
                      \/ p \in DOMAIN k.snapshot /\ j.snapshot[p] = k.snapshot[p]
                      \/ /\ r.payload.at = k.graph.anchor /\ p \in Readings(m)
                         /\ j.snapshot[p] = TrueState[m.payload.at][p]
    BY <1>3, SeedsStep
  <2>3. PICK j :
                 /\ Records(k, j) /\ Scheduled(j, kernel') /\ j.verified = k.verified
                 /\ DOMAIN k.snapshot \subseteq DOMAIN j.snapshot
                 /\ \A p \in DOMAIN j.snapshot :
                      \/ p \in DOMAIN k.snapshot /\ j.snapshot[p] = k.snapshot[p]
                      \/ /\ r.payload.at = k.graph.anchor /\ p \in Readings(m)
                         /\ j.snapshot[p] = TrueState[m.payload.at][p]
    BY <2>2
  <2>4. Asks(j, kernel')
    BY <2>3 DEF Scheduled
  <2> HIDE DEF k
  <2>5. Carries(j, kernel') /\ kernel'.graph = j.graph
    BY <2>4, AsksCarries
  <2>6. Follows(k, j) /\ j.graph = k.graph
    <3>1. InFlight(j, "range") = InFlight(k, "range") /\ InFlight(j, "seeds") = InFlight(k, "seeds")
      BY <2>3 DEF Records, SameRequests, InFlight
    <3>. QED
      BY <2>3, <3>1 DEF Records, SameRequests, Follows
  <2>7. Follows(kernel, kernel') /\ kernel'.graph = kernel.graph
    BY <1>1, <2>5, <2>6 DEF Carries, Follows
  <2>8. kernel'.snapshot = j.snapshot /\ k.snapshot = kernel.snapshot
    BY <1>1, <2>5 DEF Carries
  <2>9. \A p \in Readings(m) : p \in m.payload.items
    BY DEF Readings
  <2>10. m \in kernel.wire => r.payload = m.payload /\ r.payload \in InFlight(kernel, "seeds")
    BY <2>1, WireMatches, MatchedRequest DEF InFlight
  <2>. QED
    BY <1>1, <2>3, <2>7, <2>8, <2>9, <2>10
<1>. QED
  BY <1>2, <1>3

\* A re-root: the tree above the new anchor is as real as it was.
LEMMA RealReanchored ==
  ASSUME HonestKernel, NEW g, TreeOK(g), Real(g), NEW target \in Finalized, NEW v, NEW a,
         a = FinalizationPoint(g, target, v), a # g.anchor
  PROVE  LET g2 == ReanchoredTo(g, a)
         IN /\ Real(g2) /\ (CompleteIsExact(g) => CompleteIsExact(g2))
            /\ g2.anchor = a /\ a \in ConnectedSet(g) /\ a \in Served
            /\ a \in CanonicalPath(g) /\ a \in TrueDescendants[g.anchor] /\ a \in TrueLine(CanonTip)
            /\ \A y \in ConnectedPath(g, a) : ~Blocker(g, y, WatchedAddresses(v), "RequireComplete")
<1> DEFINE g2 == ReanchoredTo(g, a)
<1>1. /\ HonestChain /\ StandIn(Rep) /\ IsGraph(g) /\ WellFormed(g) /\ Tied(g, Rep)
      /\ target \in TrueLine(CanonTip) /\ target \in Served /\ CanonTip \in Block
  BY LineServed, RepStandsIn, KernelAssumption DEF HonestKernel, TreeOK, Real
<1>2. /\ a \in ConnectedSet(g) /\ a \in Served
      /\ \A y \in ConnectedPath(g, a) : ~Blocker(g, y, WatchedAddresses(v), "RequireComplete")
      /\ a \in TrueDescendants[g.anchor] /\ a \in TrueLine(target)
      /\ g2.anchor = a /\ Tied(g2, Rep)
  BY <1>1, FinalityIsReal
<1>3. a \in CanonicalPath(g)
  BY FinalizationPointGate
<1>4. a \in TrueLine(CanonTip)
  BY <1>1, <1>2, LineTransitive
<1>5. /\ g2.number = g.nodes[a].number /\ Present(g2) \subseteq Present(g)
      /\ \A h \in Present(g2) : SameHeader(g2, g, h)
  BY <1>1, <1>2, ReanchorHeaders
<1>6. \A h \in Present(g2) : SameLogs(g2, g, h)
  BY <1>1, ReanchorWellFormed
<1>7. a \in Present(g) /\ a \notin Fillers
  BY <1>2 DEF ConnectedSet, Served
<1> HIDE DEF g2
<1>8. Real(g2)
  BY <1>2, <1>5, <1>6, <1>7 DEF Real, RealNode, SameHeader, SameLogs
<1>9. CompleteIsExact(g) => CompleteIsExact(g2)
  BY <1>5, <1>6 DEF CompleteIsExact, SameLogs
<1>. QED
  BY <1>2, <1>3, <1>4, <1>8, <1>9 DEF g2

\* The holes a range covers.
LEMMA HolesReal ==
  ASSUME HonestKernel, NEW g, TreeOK(g), Real(g), NEW target \in Finalized, NEW p, CoversHoles(g, target, p)
  PROVE  RangeReal(p)
<1>1. /\ HonestChain /\ StandIn(Rep) /\ IsGraph(g) /\ WellFormed(g) /\ Tied(g, Rep)
      /\ target \in TrueLine(CanonTip) /\ target \in Block /\ Rep[target] = target /\ CanonTip \in Block
  BY LineServed, RepStandsIn, KernelAssumption DEF HonestKernel, TreeOK, Real
<1>2. ASSUME NEW h \in p.items
      PROVE  h \in TrueLine(CanonTip) /\ Trunk[h].number \in p.numbers
  <2>1. h \in ConnectedPath(g, target) /\ g.nodes[h].level # "Complete" /\ g.nodes[h].number \in p.numbers
    BY <1>2 DEF CoversHoles
  <2>2. target \in ConnectedSet(g)
    BY <2>1 DEF ConnectedPath
  <2>3. h \in Present(g) /\ Present(g) \subseteq Block
    BY <1>1, <2>1, <2>2, GraphParts, AncestorsClosed DEF ConnectedPath, ConnectedSet
  <2>4. h \notin Fillers /\ g.nodes[h].number = Trunk[h].number
    BY <2>1, <2>3 DEF Real, RealNode
  <2>5. Rep[h] = h
    BY <1>1, <2>3, <2>4 DEF StandIn, Served
  <2>6. Rep[h] \in TrueLine(Rep[target])
    BY <1>1, <2>1, <2>2, PathOnLine
  <2>. QED
    BY <1>1, <2>1, <2>4, <2>5, <2>6, LineTransitive
<1>. QED
  BY <1>2 DEF RangeReal

\* A finality signal that moves the anchor: up the chain, and the snapshot with it.
Rises(k, j) ==
  /\ j.graph.anchor \in CanonicalPath(k.graph) /\ j.graph.anchor \in TrueDescendants[k.graph.anchor]
  /\ j.graph.anchor \in TrueLine(CanonTip)
  /\ Real(j.graph) /\ (CompleteIsExact(k.graph) => CompleteIsExact(j.graph))
  /\ j.ghosts \subseteq k.ghosts /\ j.verified = k.verified
  /\ \A p \in InFlight(j, "range") : p \in InFlight(k, "range") \/ RangeReal(p)
  /\ InFlight(j, "seeds") \subseteq InFlight(k, "seeds")
  /\ CompleteIsExact(k.graph) /\ DOMAIN k.snapshot \subseteq k.verified
     /\ (\A p \in DOMAIN k.snapshot : k.snapshot[p] = TrueState[k.graph.anchor][p])
     => /\ DOMAIN k.snapshot \subseteq DOMAIN j.snapshot /\ DOMAIN j.snapshot \subseteq j.verified
        /\ \A p \in DOMAIN j.snapshot : j.snapshot[p] = TrueState[j.graph.anchor][p]

LEMMA FinalityCarries ==
  ASSUME HonestKernel, KInv, KInv', Real(kernel.graph), NEW target \in Finalized,
         kernel' = WithFinalizedBlockObserved(kernel, target)
  PROVE  \/ Carries(kernel, kernel') /\ kernel'.graph = kernel.graph
         \/ Rises(kernel, kernel')
<1>1. PICK j : /\ KernelOK(j) /\ Sends(j, kernel')
               /\ \/ Keeps(kernel, j) /\ SameRequests(kernel, j)
                  \/ FinalityMoves(kernel, j, target)
               /\ InFlight(kernel', "seeds") = InFlight(j, "seeds")
               /\ \A p \in InFlight(kernel', "range") :
                    p \in InFlight(j, "range") \/ CoversHoles(j.graph, target, p)
  BY FinalityStep
<1>2. KernelOK(kernel) /\ TreeOK(kernel.graph) /\ TreeOK(j.graph) /\ kernel.verified \in SUBSET Pool
      /\ KernelOK(kernel')
  BY <1>1 DEF KInv, KernelOK, DataOK
<1>3. /\ kernel'.graph = j.graph /\ kernel'.snapshot = j.snapshot /\ kernel'.verified = j.verified
      /\ kernel'.ghosts \subseteq j.ghosts
  BY <1>1 DEF Sends, Keeps
<1>4. Real(j.graph) => \A p \in InFlight(kernel', "range") : p \in InFlight(j, "range") \/ RangeReal(p)
  BY <1>1, <1>2, HolesReal
<1>5. CASE Keeps(kernel, j) /\ SameRequests(kernel, j)
  <2>1. InFlight(j, "range") = InFlight(kernel, "range") /\ InFlight(j, "seeds") = InFlight(kernel, "seeds")
    BY <1>5 DEF SameRequests, InFlight
  <2>2. Follows(kernel, kernel')
    BY <1>1, <1>2, <1>3, <1>4, <1>5, <2>1 DEF Keeps, Follows
  <2>. QED
    BY <1>3, <1>5, <2>2 DEF Carries, Keeps
<1>6. CASE FinalityMoves(kernel, j, target)
  <2> DEFINE g == kernel.graph
             v == kernel.verified
             a == FinalizationPoint(g, target, v)
             g2 == ReanchoredTo(g, a)
  <2>1. /\ a # g.anchor /\ j.graph = g2
        /\ j.snapshot = FoldedPoolStates(g, kernel.snapshot, v, a, "RequireComplete")
        /\ j.verified = v /\ j.pending \subseteq kernel.pending /\ j.ghosts = kernel.ghosts
    BY <1>6 DEF FinalityMoves
  <2>2. TreeOK(g) /\ Real(g) /\ v \in SUBSET Pool
    BY <1>2
  <2> HIDE DEF g, v
  <2> HIDE DEF a
  <2>3. /\ Real(g2) /\ (CompleteIsExact(g) => CompleteIsExact(g2))
        /\ g2.anchor = a /\ a \in ConnectedSet(g) /\ a \in Served
        /\ a \in CanonicalPath(g) /\ a \in TrueDescendants[g.anchor] /\ a \in TrueLine(CanonTip)
        /\ \A y \in ConnectedPath(g, a) : ~Blocker(g, y, WatchedAddresses(v), "RequireComplete")
    BY <2>1, <2>2, RealReanchored DEF a
  <2> HIDE DEF g2
  <2>4. InFlight(j, "range") \subseteq InFlight(kernel, "range") /\ InFlight(j, "seeds") \subseteq InFlight(kernel, "seeds")
    BY <2>1, SubsetInFlight
  <2>5. ASSUME CompleteIsExact(g), DOMAIN kernel.snapshot \subseteq v,
               \A p \in DOMAIN kernel.snapshot : kernel.snapshot[p] = TrueState[g.anchor][p]
        PROVE  /\ DOMAIN kernel.snapshot \subseteq DOMAIN j.snapshot /\ DOMAIN j.snapshot \subseteq v
               /\ \A p \in DOMAIN j.snapshot : j.snapshot[p] = TrueState[a][p]
    <3>1. HonestChain /\ StandIn(Rep) /\ IsGraph(g) /\ WellFormed(g) /\ Tied(g, Rep)
      BY <2>2, RepStandsIn DEF HonestKernel, TreeOK, Real
    <3>. QED
      BY <2>1, <2>2, <2>3, <2>5, <3>1, CompleteFold
  <2>6. kernel'.graph.anchor = a /\ kernel'.graph = g2 /\ kernel'.verified = v
    BY <1>3, <2>1, <2>3
  <2>. QED
    BY <1>1, <1>3, <1>4, <2>1, <2>3, <2>4, <2>5, <2>6 DEF Rises, g, v
<1>. QED
  BY <1>1, <1>5, <1>6

\* A probe that proves the anchor orphaned: a bare tree at the canonical block of its height.
Restarts(k, j) ==
  /\ Real(j.graph) /\ CompleteIsExact(j.graph) /\ j.graph.number = k.graph.number
  /\ j.graph.anchor \in TrueLine(CanonTip) /\ k.graph.anchor \notin TrueLine(CanonTip)
  /\ DOMAIN j.snapshot = {} /\ InFlight(j, "range") = {} /\ InFlight(j, "seeds") = {}
  /\ MaxGhosts = 0 => j.ghosts = {}

LEMMA ProbeCarries ==
  ASSUME HonestKernel, KInv, Real(kernel.graph), NEW m, ProbeAnswered(m)
  PROVE  \/ Carries(kernel, kernel') /\ kernel'.graph = kernel.graph
         \/ Restarts(kernel, kernel')
<1>1. CASE kernel' = Taken(kernel, m)
  BY <1>1, TakenCarries DEF KInv
<1>2. CASE kernel' # Taken(kernel, m)
  <2>1. PICK b \in TrueLine(CanonTip), late \in SUBSET (kernel.wire \cup kernel.ghosts) :
              /\ b \in Block /\ Trunk[b].number = kernel.graph.number /\ b # kernel.graph.anchor
              /\ Cardinality(late) <= MaxGhosts
              /\ late \in SUBSET Message /\ IsFiniteSet(late)
              /\ Trunk[b].number \in Nat
              /\ kernel' = Activated(b, Trunk[b].number, {}, kernel.verified, kernel.rejected, kernel.tokens, late)
    BY <1>2, ProbeStep
  <2>2. b \in Served
    BY LineServed
  <2> DEFINE n == Trunk[b].number
             j == Activated(b, n, {}, kernel.verified, kernel.rejected, kernel.tokens, late)
             g2 == SeedGraph(b, n, {})
  <2>3. kernel.verified \in SUBSET Pool /\ kernel.rejected \in SUBSET Pool /\ kernel.tokens \in SUBSET Token
    BY DEF KInv, KernelOK, DataOK
  <2>4. {} \in SUBSET SeedWindow
    OBVIOUS
  <2>5. Real(g2) /\ CompleteIsExact(g2)
    BY <2>2, <2>4, RealSeedGraph
  <2>6. kernel' = j
    BY <2>1
  <2>7. n \in Nat /\ n = kernel.graph.number
    BY <2>1
  <2> HIDE DEF n
  <2>8. /\ j.graph = g2 /\ j.graph.anchor = b /\ j.graph.number = n
        /\ DOMAIN j.snapshot = {} /\ InFlight(j, "range") = {} /\ InFlight(j, "seeds") = {} /\ j.ghosts \subseteq late
    <3>1. b \in Block /\ n \in Nat /\ late \in SUBSET Message /\ IsFiniteSet(late)
      BY <2>1, <2>7
    <3> HIDE DEF g2
    <3>2. Opens(j, b, n, {})
      BY <2>3, <2>4, <3>1, ActivatedOK
    <3>3. DOMAIN j.snapshot = {}
      BY <2>3, <2>4, <3>1, ActivatedOK
    <3>4. InFlight(j, "range") = {} /\ InFlight(j, "seeds") = {} /\ j.ghosts \subseteq late
      BY <2>3, <2>4, <3>1, ActivatedOK
    <3> HIDE DEF j
    <3>. QED
      BY <3>2, <3>3, <3>4 DEF g2, Opens
  <2> HIDE DEF j, g2
  <2>9. MaxGhosts = 0 => late = {}
    <3> SUFFICES ASSUME MaxGhosts = 0 PROVE late = {}
      OBVIOUS
    <3>1. Cardinality(late) \in Nat /\ Cardinality(late) <= 0
      BY <2>1, FS_CardinalityType
    <3>. QED
      BY <2>1, <3>1, FS_EmptySet
  <2>10. kernel.graph.anchor \notin TrueLine(CanonTip)
    <3>1. Trunk[kernel.graph.anchor].number = Trunk[b].number
      BY <2>1 DEF Real
    <3>. QED
      BY <2>1, <3>1, LineHeights, KernelAssumption DEF HonestKernel
  <2>. QED
    BY <2>1, <2>5, <2>6, <2>7, <2>8, <2>9, <2>10 DEF Restarts
<1>. QED
  BY <1>1, <1>2

(***************************************************************************)
(* The theorems about the real chain.                                      *)
(***************************************************************************)

\* A step under one anchor: the tree stays real, and without late answers what enters the
\* snapshot was read at the anchor.
Proceeds(k, j) ==
  /\ Follows(k, j) /\ Real(j.graph)
  /\ k.ghosts = {} =>
       /\ CompleteIsExact(k.graph) /\ (\A p \in InFlight(k, "range") : RangeReal(p)) => CompleteIsExact(j.graph)
       /\ DOMAIN k.snapshot \subseteq DOMAIN j.snapshot
       /\ \A p \in DOMAIN j.snapshot :
            \/ p \in DOMAIN k.snapshot /\ j.snapshot[p] = k.snapshot[p]
            \/ /\ \E q \in InFlight(k, "seeds") : p \in q.items
               /\ j.snapshot[p] = TrueState[k.graph.anchor][p]

LEMMA CarriesProceeds ==
  ASSUME NEW k, NEW j, Carries(k, j), Real(j.graph),
         /\ k.ghosts = {} /\ CompleteIsExact(k.graph) /\ (\A p \in InFlight(k, "range") : RangeReal(p))
         => CompleteIsExact(j.graph)
  PROVE  Proceeds(k, j)
BY DEF Carries, Proceeds

LEMMA KeepsProceeds ==
  ASSUME NEW k, NEW j, Carries(k, j), Real(k.graph), KeepsReal(k.graph, j.graph)
  PROVE  Proceeds(k, j)
BY DEF Carries, Proceeds, KeepsReal

LEMMA SameProceeds ==
  ASSUME NEW k, NEW j, Carries(k, j), Real(k.graph), j.graph = k.graph
  PROVE  Proceeds(k, j)
BY DEF Carries, Proceeds

LEMMA SeedsProceeds ==
  ASSUME KInv, NEW m \in kernel.wire \cup kernel.ghosts, SeedsAnswered(m), Real(kernel.graph)
  PROVE  Proceeds(kernel, kernel')
<1>1. /\ Follows(kernel, kernel') /\ kernel'.graph = kernel.graph
      /\ DOMAIN kernel.snapshot \subseteq DOMAIN kernel'.snapshot
      /\ \A p \in DOMAIN kernel'.snapshot :
           \/ p \in DOMAIN kernel.snapshot /\ kernel'.snapshot[p] = kernel.snapshot[p]
           \/ /\ m \in kernel.wire => /\ m.payload \in InFlight(kernel, "seeds")
                                      /\ m.payload.at = kernel.graph.anchor
              /\ p \in m.payload.items /\ kernel'.snapshot[p] = TrueState[m.payload.at][p]
  BY SeedsCarries
<1>2. kernel.ghosts = {} => m \in kernel.wire
  OBVIOUS
<1>. QED
  BY <1>1, <1>2 DEF Proceeds

\* Every step proceeds under the anchor, raises it or restarts at a proved one.
LEMMA RealStep ==
  ASSUME HonestKernel, KInv, KInv', Real(kernel.graph), Next
  PROVE  Proceeds(kernel, kernel') \/ Rises(kernel, kernel') \/ Restarts(kernel, kernel')
<1> DEFINE Goal == Proceeds(kernel, kernel') \/ Rises(kernel, kernel') \/ Restarts(kernel, kernel')
<1>1. ASSUME NEW c \in HeadClaims, SelfParentHead(c) \/ TipRedelivered(c) \/ HeadObserved(c)
      PROVE  Goal
  <2>1. kernel' = WithHeadObserved(kernel, c)
    BY <1>1 DEF SelfParentHead, TipRedelivered, HeadObserved
  <2>. QED
    BY <2>1, HeadCarries, KeepsProceeds DEF KInv
<1>2. ASSUME NEW t \in Finalized, FinalizedBlockObserved(t)
      PROVE  Goal
  <2>1. kernel' = WithFinalizedBlockObserved(kernel, t)
    BY <1>2 DEF FinalizedBlockObserved
  <2>. QED
    BY <2>1, FinalityCarries, SameProceeds
<1>3. ASSUME NEW h \in Block, NEW logs \in Batch(h), LogObserved(h, logs)
      PROVE  Goal
  BY <1>3, LogCarries, KeepsProceeds DEF KInv, LogObserved
<1>4. ASSUME NEW m \in kernel.wire \cup kernel.ghosts, Answered(m)
      PROVE  Goal
  <2>1. CASE HeaderAnswered(m)
    BY <2>1, HeaderCarries, KeepsProceeds
  <2>2. CASE ProbeAnswered(m)
    BY <2>2, ProbeCarries, SameProceeds
  <2>3. CASE LogsAnswered(m)
    <3>1. /\ Carries(kernel, kernel') /\ Real(kernel'.graph)
          /\ m \in kernel.wire /\ CompleteIsExact(kernel.graph) => CompleteIsExact(kernel'.graph)
      BY <2>3, LogsCarries
    <3>. QED
      BY <3>1, CarriesProceeds
  <2>4. CASE RangeAnswered(m)
    <3>1. /\ Carries(kernel, kernel') /\ Real(kernel'.graph)
          /\ /\ m \in kernel.wire /\ CompleteIsExact(kernel.graph)
             /\ \A p \in InFlight(kernel, "range") : RangeReal(p)
             => CompleteIsExact(kernel'.graph)
      BY <2>4, RangeCarries
    <3>. QED
      BY <3>1, CarriesProceeds
  <2>5. CASE PoolsAnswered(m) \/ TokensAnswered(m)
    BY <2>5, RegistryCarries, SameProceeds
  <2>6. CASE SeedsAnswered(m)
    BY <2>6, SeedsProceeds
  <2>. QED
    BY <1>4, <2>1, <2>2, <2>3, <2>4, <2>5, <2>6 DEF Answered
<1>5. ASSUME NEW m, HeaderNotFound(m) \/ RequestFailed(m) \/ AnswerLost(m) \/ Tick
      PROVE  Goal
  BY <1>5, RequestCarries, SameProceeds
<1>6. CASE Tick
  BY <1>5, <1>6
<1> HIDE DEF Goal
<1>7. Goal
  BY <1>1, <1>2, <1>3, <1>4, <1>5, <1>6 DEF Next
<1>. QED
  BY <1>7 DEF Goal

TrueInv == KInv /\ Real(kernel.graph)

LEMMA InitTrue == HonestKernel /\ Init => TrueInv /\ CompleteIsExact(kernel.graph)
<1> SUFFICES ASSUME HonestKernel, Init PROVE TrueInv /\ CompleteIsExact(kernel.graph)
  OBVIOUS
<1> DEFINE j == Activated(StartAnchor, StartNumber, SeedWindow, Tracked, {}, KnownTokens, {})
           g == SeedGraph(StartAnchor, StartNumber, SeedWindow)
<1>1. kernel = j
  BY DEF Init
<1>2. Opens(j, StartAnchor, StartNumber, SeedWindow)
  BY ActivatedOK, RealChainAssumption, KernelAssumption, FS_EmptySet
<1>3. StartAnchor \in Served /\ SeedWindow \in SUBSET SeedWindow /\ StartNumber = Trunk[StartAnchor].number
  BY DEF HonestKernel, HonestChain
<1>4. Real(g) /\ CompleteIsExact(g)
  BY <1>3, RealSeedGraph
<1> HIDE DEF j, g
<1>. QED
  BY <1>1, <1>2, <1>4, InitKInv DEF Opens, TrueInv, g

LEMMA NextTrue == HonestKernel /\ TrueInv /\ [Next]_vars => TrueInv'
<1> SUFFICES ASSUME HonestKernel, TrueInv, [Next]_vars PROVE TrueInv'
  OBVIOUS
<1>1. KInv /\ KInv' /\ Real(kernel.graph)
  BY NextKInv DEF TrueInv
<1>2. CASE Next
  <2>1. Proceeds(kernel, kernel') \/ Rises(kernel, kernel') \/ Restarts(kernel, kernel')
    BY <1>1, <1>2, RealStep
  <2>. QED
    BY <1>1, <2>1 DEF TrueInv, Proceeds, Rises, Restarts
<1>3. CASE UNCHANGED vars
  BY <1>1, <1>3 DEF vars, TrueInv
<1>. QED
  BY <1>2, <1>3

\* The anchor climbs the canonical chain of the tree, or is replaced, at its own height, by
\* the block the provider proves canonical there while the anchor is not: no late probe, no
\* fork below finality, no lagging signal and no answer of an earlier activation moves it.
THEOREM KernelReinitOnProof == HonestKernel => (Spec => ReinitOnlyOnProof)
<1> SUFFICES ASSUME HonestKernel PROVE Spec => ReinitOnlyOnProof
  OBVIOUS
<1> DEFINE OnProof == LET old == kernel.graph
                          new == kernel'.graph
                      IN new.anchor # old.anchor =>
                           \/ new.anchor \in CanonicalPath(old)
                           \/ /\ new.number = old.number
                              /\ new.anchor \in TrueLine(CanonTip)
                              /\ old.anchor \notin TrueLine(CanonTip)
<1>1. Init => TrueInv
  BY InitTrue
<1>2. TrueInv /\ [Next]_vars => TrueInv'
  BY NextTrue
<1>3. TrueInv /\ [Next]_vars => [OnProof]_vars
  <2> SUFFICES ASSUME TrueInv, Next PROVE OnProof
    OBVIOUS
  <2>1. KInv /\ KInv' /\ Real(kernel.graph)
    BY NextKInv DEF TrueInv
  <2>2. Proceeds(kernel, kernel') \/ Rises(kernel, kernel') \/ Restarts(kernel, kernel')
    BY <2>1, RealStep
  <2>. QED
    BY <2>2 DEF Proceeds, Follows, Rises, Restarts
<1>. QED
  BY <1>1, <1>2, <1>3, PTL DEF Spec, ReinitOnlyOnProof

\* No answer outlives its activation, or the kernel never restarts.
NoLateAnswers == MaxGhosts = 0 \/ StartAnchor \in TrueLine(CanonTip)

ExactInv ==
  /\ TrueInv /\ kernel.ghosts = {}
  /\ StartAnchor \in TrueLine(CanonTip) => kernel.graph.anchor \in TrueLine(CanonTip)
  /\ CompleteIsExact(kernel.graph)
  /\ \A p \in InFlight(kernel, "range") : RangeReal(p)
  /\ \A p \in InFlight(kernel, "seeds") : p.items \subseteq kernel.verified
  /\ DOMAIN kernel.snapshot \subseteq kernel.verified /\ SnapshotAtAnchor

LEMMA InitExact == HonestKernel /\ Init => ExactInv /\ DOMAIN kernel.snapshot = {} /\ kernel.graph.anchor = StartAnchor
<1> SUFFICES ASSUME HonestKernel, Init
             PROVE  ExactInv /\ DOMAIN kernel.snapshot = {} /\ kernel.graph.anchor = StartAnchor
  OBVIOUS
<1> DEFINE j == Activated(StartAnchor, StartNumber, SeedWindow, Tracked, {}, KnownTokens, {})
<1>1. kernel = j
  BY DEF Init
<1>2. Opens(j, StartAnchor, StartNumber, SeedWindow)
  BY ActivatedOK, RealChainAssumption, KernelAssumption, FS_EmptySet
<1>3. DOMAIN j.snapshot = {}
  BY ActivatedOK, RealChainAssumption, KernelAssumption, FS_EmptySet
<1>4. InFlight(j, "range") = {} /\ InFlight(j, "seeds") = {} /\ j.ghosts \subseteq {}
  BY ActivatedOK, RealChainAssumption, KernelAssumption, FS_EmptySet
<1>5. j.graph.anchor = StartAnchor
  BY <1>2 DEF Opens
<1> HIDE DEF j
<1>6. TrueInv /\ CompleteIsExact(kernel.graph)
  BY InitTrue
<1>7. /\ kernel.ghosts = {} /\ kernel.graph.anchor = StartAnchor
      /\ InFlight(kernel, "range") = {} /\ InFlight(kernel, "seeds") = {} /\ DOMAIN kernel.snapshot = {}
  BY <1>1, <1>3, <1>4, <1>5
<1>8. SnapshotAtAnchor
  BY <1>7 DEF SnapshotAtAnchor
<1>. QED
  BY <1>6, <1>7, <1>8 DEF ExactInv

\* Seeds and finality write the real states; the ledger takes a step or none.
LedgerStep == [Ledger!LedgerNext]_(Ledger!ledgerVars)

\* What a step may do to a kernel on a real chain keeps the invariant, and without a
\* restart is a step of the ledger.
LEMMA ExactKept ==
  ASSUME HonestKernel, NoLateAnswers, ExactInv, KInv',
         Proceeds(kernel, kernel') \/ Rises(kernel, kernel') \/ Restarts(kernel, kernel')
  PROVE  /\ ExactInv'
         /\ StartAnchor \in TrueLine(CanonTip) => LedgerStep
<1>1. KInv /\ KInv' /\ Real(kernel.graph) /\ TrueInv'
  BY DEF ExactInv, TrueInv, Proceeds, Rises, Restarts
<1>2. kernel'.verified \subseteq Pool
  BY <1>1 DEF KInv, KernelOK, DataOK
<1>4. CASE Proceeds(kernel, kernel')
  <2>1. /\ kernel'.graph.anchor = kernel.graph.anchor /\ kernel'.ghosts = {}
        /\ CompleteIsExact(kernel'.graph)
        /\ \A p \in InFlight(kernel', "range") : RangeReal(p)
        /\ kernel.verified \subseteq kernel'.verified
    BY <1>4 DEF Proceeds, Follows, ExactInv
  <2>2. \A p \in InFlight(kernel', "seeds") : p.items \subseteq kernel'.verified
    BY <1>4, <2>1 DEF Proceeds, Follows, ExactInv
  <2>3. /\ DOMAIN kernel.snapshot \subseteq DOMAIN kernel'.snapshot
        /\ DOMAIN kernel'.snapshot \subseteq kernel'.verified
        /\ \A p \in DOMAIN kernel'.snapshot : kernel'.snapshot[p] = TrueState[kernel'.graph.anchor][p]
    BY <1>4, <2>1 DEF Proceeds, ExactInv, SnapshotAtAnchor
  <2>4. ExactInv'
    BY <1>1, <2>1, <2>2, <2>3 DEF ExactInv, SnapshotAtAnchor
  <2>5. Ledger!Seed
    BY <1>2, <2>1, <2>3 DEF Ledger!Seed, Ledger!Exact
  <2>. QED
    BY <2>4, <2>5 DEF LedgerStep, Ledger!LedgerNext
<1>5. CASE Rises(kernel, kernel')
  <2>1. /\ kernel'.graph.anchor \in TrueDescendants[kernel.graph.anchor]
        /\ kernel'.graph.anchor \in TrueLine(CanonTip) /\ kernel'.ghosts = {}
        /\ CompleteIsExact(kernel'.graph)
        /\ \A p \in InFlight(kernel', "range") : RangeReal(p)
        /\ kernel'.verified = kernel.verified
        /\ InFlight(kernel', "seeds") \subseteq InFlight(kernel, "seeds")
    BY <1>5 DEF Rises, ExactInv
  <2>2. /\ DOMAIN kernel.snapshot \subseteq DOMAIN kernel'.snapshot
        /\ DOMAIN kernel'.snapshot \subseteq kernel'.verified
        /\ \A p \in DOMAIN kernel'.snapshot : kernel'.snapshot[p] = TrueState[kernel'.graph.anchor][p]
    BY <1>5 DEF Rises, ExactInv, SnapshotAtAnchor
  <2>3. ExactInv'
    BY <1>1, <2>1, <2>2 DEF ExactInv, SnapshotAtAnchor
  <2>4. Ledger!Advance
    BY <1>2, <2>1, <2>2 DEF Ledger!Advance, Ledger!Exact
  <2>. QED
    BY <2>3, <2>4 DEF LedgerStep, Ledger!LedgerNext
<1>6. CASE Restarts(kernel, kernel')
  <2>1. StartAnchor \notin TrueLine(CanonTip) /\ MaxGhosts = 0
    BY <1>6 DEF Restarts, ExactInv, NoLateAnswers
  <2>2. ExactInv'
    BY <1>1, <1>6, <2>1 DEF Restarts, ExactInv, SnapshotAtAnchor
  <2>. QED
    BY <2>1, <2>2
<1>. QED
  BY <1>4, <1>5, <1>6

LEMMA ExactStep ==
  ASSUME HonestKernel, NoLateAnswers, ExactInv, [Next]_vars
  PROVE  /\ ExactInv'
         /\ StartAnchor \in TrueLine(CanonTip) => LedgerStep
<1>1. KInv /\ KInv' /\ Real(kernel.graph) /\ TrueInv'
  BY NextKInv, NextTrue DEF ExactInv, TrueInv
<1>2. CASE UNCHANGED vars
  BY <1>1, <1>2 DEF vars, ExactInv, SnapshotAtAnchor, LedgerStep, Ledger!ledgerVars
<1>3. CASE Next
  BY <1>1, <1>3, RealStep, ExactKept
<1>. QED
  BY <1>2, <1>3

\* A Complete block has the logs the block has, as long as no answer of an earlier
\* activation is met under a reused id: every answer is applied to the block it was asked
\* for, and silence about a covered block is proof that it has no logs.
THEOREM KernelCompleteIsAuthoritative == HonestKernel /\ NoLateAnswers => (Spec => []CompleteIsAuthoritative)
<1> SUFFICES ASSUME HonestKernel, NoLateAnswers PROVE Spec => []CompleteIsAuthoritative
  OBVIOUS
<1>1. Init => ExactInv
  BY InitExact
<1>2. ExactInv /\ [Next]_vars => ExactInv'
  BY ExactStep
<1>3. ExactInv => CompleteIsAuthoritative
  BY DEF ExactInv, CompleteIsExact, CompleteIsAuthoritative
<1>. QED
  BY <1>1, <1>2, <1>3, PTL DEF Spec

\* The snapshot holds states at the anchor, whatever reads were under way while it moved:
\* the promise of with_finalized_pool_seeds holds exactly as long as ids are not reused.
THEOREM KernelSnapshotAtAnchor == HonestKernel /\ NoLateAnswers => (Spec => []SnapshotAtAnchor)
<1> SUFFICES ASSUME HonestKernel, NoLateAnswers PROVE Spec => []SnapshotAtAnchor
  OBVIOUS
<1>1. Init => ExactInv
  BY InitExact
<1>2. ExactInv /\ [Next]_vars => ExactInv'
  BY ExactStep
<1>3. ExactInv => SnapshotAtAnchor
  BY DEF ExactInv
<1>. QED
  BY <1>1, <1>2, <1>3, PTL DEF Spec

\* Started at a block of the chain the provider follows, the kernel is a finalized ledger:
\* its anchor moves up the real chain and its snapshot holds the real states there, whatever
\* heads, faults, retries and reorders come.
THEOREM KernelLedgerImplemented ==
  HonestKernel /\ StartAnchor \in TrueLine(CanonTip) => (Spec => ImplementsLedger)
<1> SUFFICES ASSUME HonestKernel, StartAnchor \in TrueLine(CanonTip) PROVE Spec => ImplementsLedger
  OBVIOUS
<1>1. Init => ExactInv /\ Ledger!LedgerInit
  BY InitExact DEF Ledger!LedgerInit, Ledger!Exact
<1>2. ExactInv /\ [Next]_vars => ExactInv' /\ LedgerStep
  BY ExactStep DEF NoLateAnswers
<1>. QED
  BY <1>1, <1>2, PTL DEF Spec, ImplementsLedger, LedgerStep, Ledger!LedgerSpec

(***************************************************************************)
(* The chain under the multi-chain kernel.                                 *)
(***************************************************************************)
\* No gap that a provider can fill goes unasked, and no old answer is to come.
GapsAsked(k) == k.ghosts = {} /\ MissingParents(k.graph) \cap Known \subseteq Targets(k, "header")

\* A delivery leaves no gap unasked: what it adds to the tree it schedules for.
LEMMA DeliveredGaps ==
  ASSUME NEW k, KernelOK(k), Unstaged(k), GapsAsked(k), NEW d \in Delivery
  PROVE  GapsAsked(Delivered(k, d))
<1> DEFINE j == Delivered(k, d)
<1>1. \/ \E c \in HeadClaims : d = HeadDelivery(c)
      \/ \E h \in Block : \E logs \in Batch(h) : d = LogDelivery(h, logs)
  BY DEF Delivery
<1>2. ASSUME NEW i, Regraphs(k, i), Scheduled(i, j)
      PROVE  GapsAsked(j)
  <2> HIDE DEF j
  <2>. QED
    BY <1>2 DEF GapsAsked, Regraphs, SameRequests, Scheduled, Asks, Sends, Keeps
<1>3. ASSUME NEW c \in HeadClaims, d = HeadDelivery(c)
      PROVE  GapsAsked(j)
  <2>1. j = WithHeadObserved(k, c)
    BY <1>3 DEF Delivered, HeadDelivery
  <2> HIDE DEF j
  <2>2. PICK i, e : /\ Regraphs(k, i) /\ Regraphs(k, e)
                    /\ MissingParents(i.graph) = MissingParents(k.graph)
                    /\ Asks(i, j) \/ Scheduled(e, j)
    BY <2>1, HeadStep
  <2>3. CASE Asks(i, j)
    <3>1. i.ghosts = {} /\ Targets(i, "header") = Targets(k, "header")
      BY <2>2 DEF GapsAsked, Regraphs, SameRequests, Targets, InFlight
    <3>2. j.graph = i.graph /\ j.ghosts = {} /\ Targets(i, "header") \subseteq Targets(j, "header")
      BY <2>3, <3>1, TargetsMonotone DEF Asks, Sends, Keeps
    <3>. QED
      BY <2>2, <3>1, <3>2 DEF GapsAsked
  <2>. QED
    BY <1>2, <2>2, <2>3
<1>4. ASSUME NEW h \in Block, NEW logs \in Batch(h), d = LogDelivery(h, logs)
      PROVE  GapsAsked(j)
  <2>1. j = WithLogsObserved(k, h, logs)
    BY <1>4 DEF Delivered, LogDelivery
  <2> HIDE DEF j
  <2>2. CASE SameRequests(k, j) /\ j.graph = k.graph
    BY <2>2 DEF GapsAsked, SameRequests, Targets, InFlight
  <2>3. CASE \E i : Regraphs(k, i) /\ Scheduled(i, j)
    BY <1>2, <2>3
  <2>. QED
    BY <2>1, <2>2, <2>3, LogStep
<1> HIDE DEF j
<1>5. GapsAsked(j)
  BY <1>1, <1>3, <1>4
<1>. QED
  BY <1>5 DEF j

\* A delivery to any kernel whose data and requests are in order.
LEMMA DeliveredOK ==
  ASSUME NEW k, KernelOK(k), Unstaged(k), NEW d \in Delivery
  PROVE  /\ KernelOK(Delivered(k, d)) /\ Unstaged(Delivered(k, d))
         /\ HonestKernel => Carries(k, Delivered(k, d)) /\ KeepsReal(k.graph, Delivered(k, d).graph)
<1> DEFINE j == Delivered(k, d)
<1>1. \/ \E c \in HeadClaims : d = HeadDelivery(c)
      \/ \E h \in Block : \E logs \in Batch(h) : d = LogDelivery(h, logs)
  BY DEF Delivery
<1>2. ASSUME NEW c \in HeadClaims, d = HeadDelivery(c)
      PROVE  /\ KernelOK(j) /\ Unstaged(j)
             /\ HonestKernel => Carries(k, j) /\ KeepsReal(k.graph, j.graph)
  <2>1. j = WithHeadObserved(k, c)
    BY <1>2 DEF Delivered, HeadDelivery
  <2> HIDE DEF j
  <2>2. \E i : KernelOK(i) /\ Unstaged(i) /\ Asks(i, j)
    BY <2>1, HeadStep DEF Regraphs, Scheduled
  <2>3. KernelOK(j) /\ Unstaged(j)
    BY <2>2, SendsUnstaged DEF Asks
  <2>. QED
    BY <2>1, <2>3, HeadCarries
<1>3. ASSUME NEW h \in Block, NEW logs \in Batch(h), d = LogDelivery(h, logs)
      PROVE  /\ KernelOK(j) /\ Unstaged(j)
             /\ HonestKernel => Carries(k, j) /\ KeepsReal(k.graph, j.graph)
  <2>1. j = WithLogsObserved(k, h, logs)
    BY <1>3 DEF Delivered, LogDelivery
  <2> HIDE DEF j
  <2>2. \/ KernelOK(j) /\ Unstaged(j)
        \/ \E i : KernelOK(i) /\ Unstaged(i) /\ Asks(i, j)
    BY <2>1, LogStep DEF Regraphs, Scheduled
  <2>3. KernelOK(j) /\ Unstaged(j)
    BY <2>2, SendsUnstaged DEF Asks
  <2>. QED
    BY <2>1, <2>3, LogCarries
<1> HIDE DEF j
<1>4. /\ KernelOK(j) /\ Unstaged(j)
      /\ HonestKernel => Carries(k, j) /\ KeepsReal(k.graph, j.graph)
  BY <1>1, <1>2, <1>3
<1>. QED
  BY <1>4 DEF j

\* The kernels a replay goes through.
IsReplay(f, k, deliveries, N) ==
  f[0] = k /\ \A n \in 1 .. N : f[n] = Delivered(f[n - 1], deliveries[n])

\* Of the numbers that a property fails for one is the least.
LEMMA LeastNumber ==
  ASSUME NEW S \in SUBSET Nat, S # {}
  PROVE  \E n \in S : \A m \in S : n <= m
<1>1. PICK n \in S : \A m \in S : ~(<<m, n>> \in OpToRel(<, Nat))
  BY NatLessThanWellFounded, WFMin
<1>2. \A m \in S : ~(m < n)
  BY <1>1 DEF OpToRel
<1>. QED
  BY <1>2

\* A replay exists whatever its deliveries, and is the one that is computed.
IsAfter(f, k, deliveries, N) ==
  f = [n \in 0 .. N |-> IF n = 0 THEN k ELSE Delivered(f[n - 1], deliveries[n])]

LEMMA ReplayExists ==
  ASSUME NEW k, NEW deliveries, NEW N \in Nat
  PROVE  \E f : IsAfter(f, k, deliveries, N)
<1> USE DEF IsAfter
<1> DEFINE Good(m) == \E f : f = [n \in 0 .. m |-> IF n = 0 THEN k ELSE Delivered(f[n - 1], deliveries[n])]
           Bad == {m \in Nat : ~Good(m)}
<1> SUFFICES ASSUME Bad # {} PROVE FALSE
  OBVIOUS
<1>1. PICK m \in Bad : \A i \in Bad : m <= i
  <2>1. Bad \in SUBSET Nat
    OBVIOUS
  <2> HIDE DEF Bad
  <2>. QED
    BY <2>1, LeastNumber
<1>2. CASE m = 0
  <2> DEFINE f == [n \in 0 .. 0 |-> k]
  <2>1. f = [n \in 0 .. 0 |-> IF n = 0 THEN k ELSE Delivered(f[n - 1], deliveries[n])]
    OBVIOUS
  <2> HIDE DEF f
  <2>2. Good(0)
    BY <2>1
  <2>. QED
    BY <1>1, <1>2, <2>2
<1>3. CASE m # 0
  <2>1. m - 1 \in Nat /\ ~(m <= m - 1)
    BY <1>3
  <2>2. Good(m - 1)
    BY <1>1, <2>1
  <2>3. PICK f : f = [n \in 0 .. m - 1 |-> IF n = 0 THEN k ELSE Delivered(f[n - 1], deliveries[n])]
    BY <2>2
  <2> DEFINE g == [n \in 0 .. m |-> IF n = m THEN Delivered(f[m - 1], deliveries[m]) ELSE f[n]]
  <2>4. \A n \in 0 .. m - 1 : f[n] = IF n = 0 THEN k ELSE Delivered(f[n - 1], deliveries[n])
    BY <2>3
  <2>5. \A n \in 0 .. m : g[n] = IF n = 0 THEN k ELSE Delivered(g[n - 1], deliveries[n])
    <3> SUFFICES ASSUME NEW n \in 0 .. m
                 PROVE  g[n] = IF n = 0 THEN k ELSE Delivered(g[n - 1], deliveries[n])
      OBVIOUS
    <3>1. n # 0 => n - 1 \in 0 .. m /\ n - 1 # m
      BY <1>3
    <3>2. n # m => n \in 0 .. m - 1
      BY <1>3
    <3>3. n # 0 => g[n - 1] = f[n - 1]
      BY <3>1
    <3>4. g[n] = IF n = m THEN Delivered(f[m - 1], deliveries[m]) ELSE f[n]
      OBVIOUS
    <3> HIDE DEF g
    <3>. QED
      BY <1>3, <2>4, <3>2, <3>3, <3>4
  <2>6. g = [n \in 0 .. m |-> g[n]]
    OBVIOUS
  <2> HIDE DEF g
  <2>7. Good(m)
    BY <2>5, <2>6
  <2>. QED
    BY <1>1, <2>7
<1>. QED
  BY <1>2, <1>3

LEMMA ReplayIs ==
  ASSUME NEW k, NEW deliveries, Len(deliveries) \in Nat
  PROVE  \E f : IsReplay(f, k, deliveries, Len(deliveries)) /\ ReplayOf(k, deliveries) = f[Len(deliveries)]
<1> DEFINE N == Len(deliveries)
           step(f) == [n \in 0 .. N |-> IF n = 0 THEN k ELSE Delivered(f[n - 1], deliveries[n])]
           after == CHOOSE f : f = step(f)
<1>1. ReplayOf(k, deliveries) = after[N]
  BY DEF ReplayOf
<1>2. \E f : f = step(f)
  <2>1. N \in Nat
    OBVIOUS
  <2> HIDE DEF N
  <2>2. PICK f : IsAfter(f, k, deliveries, N)
    BY <2>1, ReplayExists
  <2>. QED
    BY <2>2 DEF IsAfter
<1>3. after = step(after)
  <2> HIDE DEF step
  <2>. QED
    BY <1>2
<1> HIDE DEF after
<1>4. \A n \in 0 .. N : after[n] = IF n = 0 THEN k ELSE Delivered(after[n - 1], deliveries[n])
  BY <1>3
<1> HIDE DEF step
<1>5. after[0] = k
  BY <1>4
<1>6. ASSUME NEW n \in 1 .. N
      PROVE  after[n] = Delivered(after[n - 1], deliveries[n])
  <2>1. n \in 0 .. N /\ n # 0
    OBVIOUS
  <2>. QED
    BY <1>4, <2>1
<1>7. IsReplay(after, k, deliveries, N)
  BY <1>5, <1>6 DEF IsReplay
<1>. QED
  BY <1>1, <1>7

\* A replay leaves a kernel in order, and on a real chain a real one.
LEMMA ReplayOK ==
  ASSUME NEW k, KernelOK(k), Unstaged(k), NEW deliveries \in Seq(Delivery), NEW f,
         IsReplay(f, k, deliveries, Len(deliveries))
  PROVE  \A n \in 0 .. Len(deliveries) :
           /\ KernelOK(f[n]) /\ Unstaged(f[n])
           /\ GapsAsked(k) => GapsAsked(f[n])
           /\ HonestKernel => Carries(k, f[n]) /\ KeepsReal(k.graph, f[n].graph)
<1> DEFINE Good(n) == /\ KernelOK(f[n]) /\ Unstaged(f[n])
                      /\ GapsAsked(k) => GapsAsked(f[n])
                      /\ HonestKernel => Carries(k, f[n]) /\ KeepsReal(k.graph, f[n].graph)
           Bad == {n \in 0 .. Len(deliveries) : ~Good(n)}
<1> SUFFICES ASSUME Bad # {} PROVE FALSE
  OBVIOUS
<1>1. PICK n \in Bad : \A m \in Bad : n <= m
  <2>1. Bad \in SUBSET Nat
    OBVIOUS
  <2> HIDE DEF Bad
  <2>. QED
    BY <2>1, LeastNumber
<1>2. Good(0)
  <2>1. Carries(k, k) /\ KeepsReal(k.graph, k.graph)
    BY AsksNothing, AsksCarries DEF KeepsReal
  <2>. QED
    BY <2>1 DEF IsReplay
<1>3. Len(deliveries) \in Nat /\ DOMAIN deliveries = 1 .. Len(deliveries)
  OBVIOUS
<1> DEFINE m == n - 1
<1>4. m \in 0 .. Len(deliveries) /\ n \in 1 .. Len(deliveries) /\ ~(n <= m)
  BY <1>1, <1>2, <1>3
<1>5. Good(m)
  BY <1>1, <1>4
<1>6. f[n] = Delivered(f[m], deliveries[n]) /\ deliveries[n] \in Delivery
  BY <1>3, <1>4 DEF IsReplay
<1> HIDE DEF m
<1>7. /\ KernelOK(f[n]) /\ Unstaged(f[n])
      /\ GapsAsked(f[m]) => GapsAsked(f[n])
      /\ HonestKernel => Carries(f[m], f[n]) /\ KeepsReal(f[m].graph, f[n].graph)
  BY <1>5, <1>6, DeliveredOK, DeliveredGaps
<1>8. Good(n)
  BY <1>5, <1>7, CarriesTwice, KeepsRealTwice
<1>. QED
  BY <1>1, <1>8

(***************************************************************************)
(* The lifecycle.                                                          *)
(***************************************************************************)
\* From k to j nothing happened, or subscription data came, one or a whole buffer.
Delivers(k, j) ==
  /\ KernelOK(j) /\ Unstaged(j)
  /\ GapsAsked(k) => GapsAsked(j)
  /\ HonestKernel => Carries(k, j) /\ KeepsReal(k.graph, j.graph)

LEMMA DeliversNothing ==
  ASSUME NEW k, KernelOK(k), Unstaged(k)
  PROVE  Delivers(k, k)
BY AsksNothing, AsksCarries DEF Delivers, KeepsReal

LEMMA ReplayDelivers ==
  ASSUME NEW k, KernelOK(k), Unstaged(k), NEW deliveries \in Seq(Delivery)
  PROVE  Delivers(k, ReplayOf(k, deliveries))
<1>1. Len(deliveries) \in Nat
  OBVIOUS
<1>2. PICK f : IsReplay(f, k, deliveries, Len(deliveries)) /\ ReplayOf(k, deliveries) = f[Len(deliveries)]
  BY <1>1, ReplayIs
<1>. QED
  BY <1>1, <1>2, ReplayOK DEF Delivers

\* Announcing spends a fault at the most.
SpendsNone == faults' = faults \/ (faults > 0 /\ faults' = faults - 1)

LEMMA AnnouncedSpends ==
  ASSUME NEW d \in Delivery, Announced(d), tip \in Block \cup {AnchorRef}
  PROVE  SpendsNone /\ tip' \in Block \cup {AnchorRef}
<1>1. CASE d.kind # "head"
  BY <1>1 DEF Announced, SpendsNone
<1>2. CASE d.kind = "head"
  <2>1. PICK c \in HeadClaims : d = HeadDelivery(c)
    BY <1>2 DEF Delivery, LogDelivery
  <2>2. d.claim.hash \in Block
    BY <2>1, KernelAssumption DEF HeadDelivery, Header
  <2>. QED
    BY <1>2, <2>2 DEF Announced, SpendsNone, Fault, NoFault
<1>. QED
  BY <1>1, <1>2

\* Whatever the lifecycle does is a step of the kernel alone, or delivers something to it.
LEMMA LifecycleStep ==
  ASSUME KInv, buffer \in Seq(Delivery), tip \in Block \cup {AnchorRef}, LifecycleNext
  PROVE  /\ Next \/ (Delivers(kernel, kernel') /\ SpendsNone)
         /\ tip' \in Block \cup {AnchorRef}
<1> DEFINE Goal == Next \/ (Delivers(kernel, kernel') /\ SpendsNone)
<1>1. KernelOK(kernel) /\ Unstaged(kernel) /\ Delivers(kernel, kernel)
  BY DeliversNothing DEF KInv
<1>2. ASSUME NEW d \in Delivery, BufferDelivery(d) \/ LiveDelivery(d) \/ IgnoreDelivery(d)
      PROVE  Goal /\ tip' \in Block \cup {AnchorRef}
  <2>1. Announced(d) /\ (kernel' = kernel \/ kernel' = Delivered(kernel, d))
    BY <1>2 DEF BufferDelivery, LiveDelivery, IgnoreDelivery
  <2>2. Delivers(kernel, Delivered(kernel, d))
    BY <1>1, DeliveredOK, DeliveredGaps DEF Delivers
  <2>. QED
    BY <1>1, <2>1, <2>2, AnnouncedSpends
<1>3. ASSUME Activate
      PROVE  Goal /\ tip' \in Block \cup {AnchorRef}
  <2>1. kernel' = ReplayOf(kernel, buffer) /\ faults' = faults /\ tip' = tip
    BY <1>3 DEF Activate, Replayed
  <2>. QED
    BY <1>1, <2>1, ReplayDelivers DEF SpendsNone
<1>4. ASSUME Abandon
      PROVE  Goal /\ tip' \in Block \cup {AnchorRef}
  BY <1>1, <1>4 DEF Abandon, SpendsNone
<1>5. ASSUME NEW m \in kernel.wire \cup kernel.ghosts, ChainEvent(m) \/ ChainAnswerLost(m)
      PROVE  Goal /\ tip' \in Block \cup {AnchorRef}
  <2>1. (Answered(m) \/ HeaderNotFound(m) \/ RequestFailed(m) \/ AnswerLost(m)) /\ tip' = tip
    BY <1>5 DEF ChainEvent, ChainAnswerLost
  <2>2. Next
    BY <2>1 DEF Next
  <2>. QED
    BY <2>1, <2>2
<1>6. ASSUME ChainTick
      PROVE  Goal /\ tip' \in Block \cup {AnchorRef}
  BY <1>6 DEF ChainTick, Next
<1>7. ASSUME NEW n \in refreshes, FinalizedHeaderUnavailable(n)
      PROVE  Goal /\ tip' \in Block \cup {AnchorRef}
  BY <1>1, <1>7 DEF FinalizedHeaderUnavailable, Fault, SpendsNone
<1>8. ASSUME NEW n \in refreshes, NEW t \in Finalized, FinalizedHeaderReceived(n, t)
      PROVE  Goal /\ tip' \in Block \cup {AnchorRef}
  BY <1>8 DEF FinalizedHeaderReceived, FinalizedBlockObserved, Next
<1> HIDE DEF Goal
<1>9. Goal /\ tip' \in Block \cup {AnchorRef}
  BY <1>2, <1>3, <1>4, <1>5, <1>6, <1>7, <1>8 DEF LifecycleNext
<1>. QED
  BY <1>9 DEF Goal

\* What the optimizer reads off a kernel: the frontier is a block, the states a snapshot,
\* and the head has a number.
LEMMA FrontierIn ==
  ASSUME NEW k, KernelOK(k)
  PROVE  /\ Frontier(k) \in Block /\ IsSnapshot(States(k))
         /\ HeadNumber(k.graph) \in Nat
<1> DEFINE g == k.graph
<1>1. IsGraph(g) /\ WellFormed(g) /\ IsSnapshot(k.snapshot) /\ k.verified \in SUBSET Pool
  BY DEF KernelOK, DataOK, TreeOK
<1>2. Present(g) \subseteq Block /\ g.anchor \in Block /\ g.number \in Nat
      /\ \A h \in Present(g) : g.nodes[h] \in Node
  BY <1>1 DEF IsGraph, Present
<1> HIDE DEF g
<1>3. Frontier(k) \in Block
  <2>1. Frontier(k) = ProjectedFrontier(g, k.verified)
    BY DEF Frontier, g
  <2>2. CASE g.head \notin ConnectedSet(g)
    BY <1>2, <2>1, <2>2 DEF ProjectedFrontier
  <2>3. CASE g.head \in ConnectedSet(g)
    <3> DEFINE w == WatchedAddresses(k.verified)
               x == FoldableFrontier(g, g.head, w, "AllowStreamed")
    <3>1. x = g.anchor \/ x \in FoldablePart(g, g.head, w, "AllowStreamed")
      BY FrontierFoldable
    <3>2. FoldablePart(g, g.head, w, "AllowStreamed") \subseteq Present(g)
      BY <2>3 DEF FoldablePart, ConnectedPath, Ancestors, ConnectedSet
    <3>3. Frontier(k) = x
      BY <2>1, <2>3 DEF ProjectedFrontier
    <3>. QED
      BY <1>2, <3>1, <3>2, <3>3
  <2>. QED
    BY <2>2, <2>3
<1>4. IsSnapshot(States(k))
  BY <1>1, FoldedSnapshot DEF States, ProjectedStates, g
<1>5. HeadNumber(g) \in Nat
  <2>1. g.head = g.anchor \/ g.head \in Present(g)
    BY <1>1 DEF WellFormed, HeadKnown
  <2>. QED
    BY <1>2, <2>1 DEF HeadNumber, Node
<1>. QED
  BY <1>3, <1>4, <1>5 DEF g

LifecycleInv == KInv /\ LifecycleTypeOK

\* The wrapper's own part of the state.
LifecycleStateOK ==
  /\ phase \in {"Bootstrapping", "Active", "Dropped"}
  /\ buffer \in Seq(Delivery) /\ (phase # "Bootstrapping" => buffer = <<>>)
  /\ {last, input.at} \subseteq Block \cup {AnchorRef} /\ IsSnapshot(input.states)
  /\ refreshes \subseteq Int

\* The step of the kernel, and the type it leaves it with.
LEMMA LifecycleKInv ==
  ASSUME LifecycleInv, LifecycleNext
  PROVE  KInv'
<1>1. KInv /\ buffer \in Seq(Delivery) /\ tip \in Block \cup {AnchorRef}
  BY DEF LifecycleInv, LifecycleTypeOK
<1>2. CASE Next
  BY <1>1, <1>2, NextKInv
<1>3. CASE Delivers(kernel, kernel') /\ SpendsNone
  <2>1. faults' \in 0 .. MaxFaults
    BY <1>1, <1>3, KernelAssumption DEF KInv, SpendsNone
  <2>. QED
    BY <1>3, <2>1 DEF KInv, Delivers
<1>. QED
  BY <1>1, <1>2, <1>3, LifecycleStep

LEMMA RederiveOK ==
  ASSUME LifecycleStateOK, KInv', Rederive(kernel, kernel')
  PROVE  /\ {last', input.at'} \subseteq Block \cup {AnchorRef} /\ IsSnapshot(input.states)'
         /\ refreshes' \subseteq Int
<1>1. Frontier(kernel') \in Block /\ IsSnapshot(States(kernel')) /\ HeadNumber(kernel'.graph) \in Nat
  BY FrontierIn DEF KInv
<1>2. refreshes' \subseteq Int
  <2>1. HeadNumber(kernel'.graph) - FinalityDepth \in Int
    BY <1>1, MultiChainAssumption
  <2>2. refreshes' = refreshes \/ refreshes' = refreshes \cup {HeadNumber(kernel'.graph) - FinalityDepth}
    BY DEF Rederive, Refreshed
  <2>. QED
    BY <2>1, <2>2 DEF LifecycleStateOK
<1>3. input' = input \/ input' = [at |-> Frontier(kernel'), states |-> States(kernel')]
  BY DEF Rederive, Dispatched
<1>4. last' = last \/ last' = Frontier(kernel')
  BY DEF Rederive
<1>5. input'.at \in Block \cup {AnchorRef} /\ IsSnapshot(input'.states)
  BY <1>1, <1>3 DEF LifecycleStateOK
<1>. QED
  BY <1>1, <1>2, <1>4, <1>5 DEF LifecycleStateOK

LEMMA LifecycleState ==
  ASSUME LifecycleStateOK, KInv', LifecycleNext
  PROVE  LifecycleStateOK'
<1>1. ASSUME NEW d \in Delivery, BufferDelivery(d)
      PROVE  LifecycleStateOK'
  BY <1>1 DEF LifecycleStateOK, BufferDelivery
<1>2. ASSUME NEW d \in Delivery, LiveDelivery(d)
      PROVE  LifecycleStateOK'
  <2>1. CASE UNCHANGED <<last, input, refreshes>>
    BY <1>2, <2>1 DEF LifecycleStateOK, LiveDelivery
  <2>2. CASE Rederive(kernel, kernel')
    BY <1>2, <2>2, RederiveOK DEF LifecycleStateOK, LiveDelivery
  <2>. QED
    BY <1>2, <2>1, <2>2 DEF LiveDelivery
<1>3. ASSUME NEW d \in Delivery, IgnoreDelivery(d)
      PROVE  LifecycleStateOK'
  BY <1>3 DEF LifecycleStateOK, IgnoreDelivery
<1>4. ASSUME Activate \/ Abandon
      PROVE  LifecycleStateOK'
  <2>1. buffer' = <<>> /\ phase' \in {"Bootstrapping", "Active", "Dropped"} /\ UNCHANGED <<last, input, refreshes>>
    BY <1>4 DEF Activate, Abandon
  <2>. QED
    BY <2>1 DEF LifecycleStateOK
<1>5. ASSUME NEW m, ChainEvent(m)
      PROVE  LifecycleStateOK'
  BY <1>5, RederiveOK DEF LifecycleStateOK, ChainEvent
<1>6. ASSUME NEW m, ChainAnswerLost(m) \/ ChainTick
      PROVE  LifecycleStateOK'
  BY <1>6 DEF LifecycleStateOK, ChainAnswerLost, ChainTick
<1>7. ASSUME NEW n, NEW t, FinalizedHeaderUnavailable(n) \/ FinalizedHeaderReceived(n, t)
      PROVE  LifecycleStateOK'
  BY <1>7 DEF LifecycleStateOK, FinalizedHeaderUnavailable, FinalizedHeaderReceived
<1>. QED
  BY <1>1, <1>2, <1>3, <1>4, <1>5, <1>6, <1>7 DEF LifecycleNext

LEMMA InitLifecycle == LifecycleInit => LifecycleInv
<1> SUFFICES ASSUME LifecycleInit PROVE LifecycleInv
  OBVIOUS
<1>1. KInv /\ KernelTypeOK
  BY InitKInv, KernelTypes DEF LifecycleInit
<1>2. [p \in {} |-> {}] \in [{} -> SUBSET Log] /\ {} \in SUBSET Pool
  OBVIOUS
<1>3. IsSnapshot([p \in {} |-> {}])
  BY <1>2 DEF IsSnapshot
<1>4. input.at = AnchorRef /\ input.states = [p \in {} |-> {}]
  BY DEF LifecycleInit
<1>. QED
  BY <1>1, <1>3, <1>4 DEF LifecycleInv, LifecycleTypeOK, LifecycleInit

LEMMA NextLifecycle == LifecycleInv /\ [LifecycleNext]_lifecycle => LifecycleInv'
<1> SUFFICES ASSUME LifecycleInv, [LifecycleNext]_lifecycle PROVE LifecycleInv'
  OBVIOUS
<1>1. CASE LifecycleNext
  <2>1. KInv'
    BY <1>1, LifecycleKInv
  <2>2. KernelTypeOK'
    BY <2>1, KernelTypes, PTL
  <2>3. tip' \in Block \cup {AnchorRef}
    BY <1>1, LifecycleStep DEF LifecycleInv, LifecycleTypeOK
  <2>4. LifecycleStateOK
    BY DEF LifecycleInv, LifecycleTypeOK, LifecycleStateOK
  <2>5. LifecycleStateOK'
    BY <1>1, <2>1, <2>4, LifecycleState
  <2>. QED
    BY <2>1, <2>2, <2>3, <2>5 DEF LifecycleInv, LifecycleTypeOK, LifecycleStateOK
<1>2. CASE UNCHANGED lifecycle
  <2>1. UNCHANGED vars
    BY <1>2 DEF lifecycle, vars
  <2>2. KInv' /\ KernelTypeOK'
    BY <2>1 DEF LifecycleInv, LifecycleTypeOK, vars, KInv, KernelTypeOK
  <2>. QED
    BY <1>2, <2>2 DEF LifecycleInv, LifecycleTypeOK, lifecycle
<1>. QED
  BY <1>1, <1>2

\* The state has its type over the whole life of a chain: while its buffer fills, through
\* the replay that activates it, whatever is delivered, answered, denied, lost or refreshed.
THEOREM LifecycleTyped == LifecycleSpec => []LifecycleTypeOK
<1>1. LifecycleInv => LifecycleTypeOK
  BY DEF LifecycleInv
<1>. QED
  BY <1>1, InitLifecycle, NextLifecycle, PTL DEF LifecycleSpec

\* On a real chain every step of the lifecycle proceeds under the anchor, raises it or
\* restarts at a proved one; a delivery or a replay of them never moves it.
LEMMA LifecycleReal ==
  ASSUME HonestKernel, LifecycleInv, Real(kernel.graph), LifecycleNext
  PROVE  Proceeds(kernel, kernel') \/ Rises(kernel, kernel') \/ Restarts(kernel, kernel')
<1>1. KInv /\ KInv' /\ buffer \in Seq(Delivery) /\ tip \in Block \cup {AnchorRef}
  BY LifecycleKInv DEF LifecycleInv, LifecycleTypeOK
<1>2. CASE Next
  BY <1>1, <1>2, RealStep
<1>3. CASE Delivers(kernel, kernel')
  BY <1>1, <1>3, KeepsProceeds DEF Delivers
<1>. QED
  BY <1>1, <1>2, <1>3, LifecycleStep

TrueLifecycle == LifecycleInv /\ TrueInv

LEMMA InitTrueLifecycle == HonestKernel /\ LifecycleInit => TrueLifecycle
  BY InitLifecycle, InitTrue DEF LifecycleInit, TrueLifecycle

LEMMA NextTrueLifecycle == HonestKernel /\ TrueLifecycle /\ [LifecycleNext]_lifecycle => TrueLifecycle'
<1> SUFFICES ASSUME HonestKernel, TrueLifecycle, [LifecycleNext]_lifecycle PROVE TrueLifecycle'
  OBVIOUS
<1>1. LifecycleInv' /\ KInv'
  BY NextLifecycle DEF TrueLifecycle, LifecycleInv
<1>2. CASE LifecycleNext
  <2>1. Proceeds(kernel, kernel') \/ Rises(kernel, kernel') \/ Restarts(kernel, kernel')
    BY <1>2, LifecycleReal DEF TrueLifecycle, TrueInv
  <2>. QED
    BY <1>1, <2>1 DEF TrueLifecycle, TrueInv, Proceeds, Rises, Restarts
<1>3. CASE UNCHANGED lifecycle
  BY <1>1, <1>3 DEF lifecycle, TrueLifecycle, TrueInv
<1>. QED
  BY <1>2, <1>3

ExactLifecycle == LifecycleInv /\ ExactInv

LEMMA InitExactLifecycle ==
  HonestKernel /\ LifecycleInit => ExactLifecycle /\ Ledger!LedgerInit
<1> SUFFICES ASSUME HonestKernel, LifecycleInit PROVE ExactLifecycle /\ Ledger!LedgerInit
  OBVIOUS
<1>. QED
  BY InitLifecycle, InitExact DEF LifecycleInit, ExactLifecycle, Ledger!LedgerInit, Ledger!Exact

LEMMA NextExactLifecycle ==
  ASSUME HonestKernel, NoLateAnswers, ExactLifecycle, [LifecycleNext]_lifecycle
  PROVE  /\ ExactLifecycle'
         /\ StartAnchor \in TrueLine(CanonTip) => LedgerStep
<1>1. LifecycleInv' /\ KInv' /\ LifecycleInv /\ ExactInv /\ Real(kernel.graph)
  BY NextLifecycle DEF ExactLifecycle, LifecycleInv, ExactInv, TrueInv
<1>2. CASE LifecycleNext
  <2>1. Proceeds(kernel, kernel') \/ Rises(kernel, kernel') \/ Restarts(kernel, kernel')
    BY <1>1, <1>2, LifecycleReal
  <2>. QED
    BY <1>1, <2>1, ExactKept DEF ExactLifecycle
<1>3. CASE UNCHANGED lifecycle
  <2>1. kernel' = kernel /\ TrueInv' /\ SnapshotAtAnchor'
    BY <1>1, <1>3 DEF lifecycle, ExactInv, TrueInv, SnapshotAtAnchor
  <2>. QED
    BY <1>1, <2>1 DEF ExactLifecycle, ExactInv, LedgerStep, Ledger!ledgerVars
<1>. QED
  BY <1>2, <1>3

\* What is proved of the chain kernel on its own holds of it inside the multi-chain kernel:
\* the replay of a buffer, which drives it through many events in one step, stages nothing
\* for a block of the tree and asks for nothing twice.
THEOREM LifecycleRequests == LifecycleSpec => [](StagedOnlyAbsent /\ InFlightDistinct)
<1>1. LifecycleInv => StagedOnlyAbsent /\ InFlightDistinct
  BY DEF LifecycleInv, KInv, KernelOK, RequestsOK, InFlightDistinct, Unstaged, StagedOnlyAbsent
<1>. QED
  BY <1>1, InitLifecycle, NextLifecycle, PTL DEF LifecycleSpec

\* Through bootstrap, replay and the wrapper's own refreshes the anchor moves only up the
\* canonical chain or to the block proved canonical at its height.
THEOREM LifecycleReinitOnProof == HonestKernel => (LifecycleSpec => ReinitOnlyOnProof)
<1> SUFFICES ASSUME HonestKernel PROVE LifecycleSpec => ReinitOnlyOnProof
  OBVIOUS
<1> DEFINE OnProof == LET old == kernel.graph
                          new == kernel'.graph
                      IN new.anchor # old.anchor =>
                           \/ new.anchor \in CanonicalPath(old)
                           \/ /\ new.number = old.number
                              /\ new.anchor \in TrueLine(CanonTip)
                              /\ old.anchor \notin TrueLine(CanonTip)
<1>1. LifecycleInit => TrueLifecycle
  BY InitTrueLifecycle
<1>2. TrueLifecycle /\ [LifecycleNext]_lifecycle => TrueLifecycle'
  BY NextTrueLifecycle
<1>3. TrueLifecycle /\ [LifecycleNext]_lifecycle => [OnProof]_vars
  <2>1. CASE UNCHANGED lifecycle
    BY <2>1 DEF lifecycle, vars
  <2>2. ASSUME TrueLifecycle, LifecycleNext
        PROVE  OnProof
    <3>1. Proceeds(kernel, kernel') \/ Rises(kernel, kernel') \/ Restarts(kernel, kernel')
      BY <2>2, LifecycleReal DEF TrueLifecycle, TrueInv
    <3>. QED
      BY <3>1 DEF Proceeds, Follows, Rises, Restarts
  <2>. QED
    BY <2>1, <2>2
<1>. QED
  BY <1>1, <1>2, <1>3, PTL DEF LifecycleSpec, ReinitOnlyOnProof

\* A bootstrapped chain asks for every gap of its ancestry that a provider can fill: those
\* that the heads of its buffer left are asked for by the replay, before any event comes.
THEOREM LifecycleGapsRequested == HonestDenials => (LifecycleSpec => []GapsRequested)
<1> SUFFICES ASSUME HonestDenials PROVE LifecycleSpec => []GapsRequested
  OBVIOUS
<1>1. LifecycleInit => LifecycleInv /\ GapInv
  BY InitLifecycle, InitGaps DEF LifecycleInit
<1>2. LifecycleInv /\ GapInv /\ [LifecycleNext]_lifecycle => LifecycleInv' /\ GapInv'
  <2> SUFFICES ASSUME LifecycleInv, GapInv, [LifecycleNext]_lifecycle PROVE LifecycleInv' /\ GapInv'
    OBVIOUS
  <2>1. LifecycleInv' /\ KInv'
    BY NextLifecycle DEF LifecycleInv
  <2>2. GapsAsked(kernel)
    BY DEF GapInv, GapsRequested, GapsAsked
  <2>3. CASE UNCHANGED lifecycle
    <3>1. kernel' = kernel
      BY <2>3 DEF lifecycle
    <3>. QED
      BY <2>1, <3>1 DEF GapInv, GapsRequested
  <2>4. CASE LifecycleNext
    <3>1. KInv /\ buffer \in Seq(Delivery) /\ tip \in Block \cup {AnchorRef}
      BY DEF LifecycleInv, LifecycleTypeOK
    <3>2. CASE Next
      BY <2>1, <3>2, GapsStep DEF GapInv, GapsRequested
    <3>3. CASE Delivers(kernel, kernel')
      <4>1. GapsAsked(kernel')
        BY <2>2, <3>3 DEF Delivers
      <4>. QED
        BY <2>1, <4>1 DEF GapsAsked, GapInv, GapsRequested
    <3>. QED
      BY <2>4, <3>1, <3>2, <3>3, LifecycleStep
  <2>. QED
    BY <2>3, <2>4
<1>3. LifecycleInv /\ GapInv => GapsRequested
  BY DEF GapInv
<1>. QED
  BY <1>1, <1>2, <1>3, PTL DEF LifecycleSpec

\* What is finalized and what is Complete is the real chain's over the whole life of the
\* chain: nothing the replay of a buffer leaves in the tree is taken for authoritative.
THEOREM LifecycleExact ==
  HonestKernel /\ NoLateAnswers => (LifecycleSpec => [](CompleteIsAuthoritative /\ SnapshotAtAnchor))
<1> SUFFICES ASSUME HonestKernel, NoLateAnswers
             PROVE  LifecycleSpec => [](CompleteIsAuthoritative /\ SnapshotAtAnchor)
  OBVIOUS
<1>1. LifecycleInit => ExactLifecycle
  BY InitExactLifecycle
<1>2. ExactLifecycle /\ [LifecycleNext]_lifecycle => ExactLifecycle'
  BY NextExactLifecycle
<1>3. ExactLifecycle => CompleteIsAuthoritative /\ SnapshotAtAnchor
  BY DEF ExactLifecycle, ExactInv, CompleteIsExact, CompleteIsAuthoritative
<1>. QED
  BY <1>1, <1>2, <1>3, PTL DEF LifecycleSpec

\* A chain of the multi-chain kernel is a finalized ledger, as its kernel alone is.
THEOREM LifecycleLedgerImplemented ==
  HonestKernel /\ StartAnchor \in TrueLine(CanonTip) => (LifecycleSpec => ImplementsLedger)
<1> SUFFICES ASSUME HonestKernel, StartAnchor \in TrueLine(CanonTip)
             PROVE  LifecycleSpec => ImplementsLedger
  OBVIOUS
<1>1. LifecycleInit => ExactLifecycle /\ Ledger!LedgerInit
  BY InitExactLifecycle
<1>2. ExactLifecycle /\ [LifecycleNext]_lifecycle => ExactLifecycle' /\ LedgerStep
  BY NextExactLifecycle DEF NoLateAnswers
<1>. QED
  BY <1>1, <1>2, PTL DEF LifecycleSpec, ImplementsLedger, LedgerStep, Ledger!LedgerSpec

(***************************************************************************)
(* What survives a replay.                                                 *)
(***************************************************************************)
\* A block that takes no more logs has all a feed may tag with it.
Absorbs(g) ==
  \A h \in Present(g) : g.nodes[h].level = "Complete" => Streamable[h] \subseteq g.nodes[h].logs

\* No block is lost and none loses logs.
Accumulates(g, g2) ==
  /\ Present(g) \subseteq Present(g2)
  /\ \A h \in Present(g) : g.nodes[h].logs \subseteq g2.nodes[h].logs

\* What a block b keeps of the logs `held` when `new` ones come for the block h.
Spared(b, h, new, held) == IF b = h THEN {l \in held : LogIndex[l] \notin Indexes(new)} ELSE held

\* No block is lost, and none loses logs but for those whose place new logs of h take.
AccumulatesBut(g, g2, h, new) ==
  /\ Present(g) \subseteq Present(g2)
  /\ \A b \in Present(g) : Spared(b, h, new, g.nodes[b].logs) \subseteq g2.nodes[b].logs

LEMMA StreamedTakes ==
  ASSUME NEW g, TreeOK(g), Absorbs(g), NEW h \in Block, NEW logs \in LogMap, logs \subseteq Streamable[h]
  PROVE  LET g2 == WithStreamedLogs(g, h, logs)
         IN /\ AccumulatesBut(g, g2, h, logs) /\ Absorbs(g2) /\ g2.head = g.head
            /\ PendingSet(g2) = PendingSet(g) /\ Present(g2) = Present(g)
            /\ h \in Present(g) => logs \subseteq g2.nodes[h].logs
<1> DEFINE g2 == WithStreamedLogs(g, h, logs)
<1>1. IsGraph(g) /\ WellFormed(g)
  BY DEF TreeOK
<1>2. g2.head = g.head /\ Present(g2) = Present(g)
  BY <1>1, LogHeaders DEF KeepsHeaders
<1>3. PendingSet(g2) = PendingSet(g)
  BY <1>1, StreamedLogsWellFormed
<1>4. CASE h \notin Present(g) \/ g.nodes[h].level = "Complete"
  <2>1. g2 = g
    BY <1>4 DEF WithStreamedLogs
  <2>. QED
    BY <1>4, <2>1 DEF AccumulatesBut, Spared, Absorbs
<1>5. CASE ~(h \notin Present(g) \/ g.nodes[h].level = "Complete")
  <2> DEFINE all == Extended(g.nodes[h].logs, logs)
  <2>1. g.nodes[h] \in Node
    BY <1>1, <1>5, GraphParts
  <2>2. all \in LogMap
    BY <2>1, ExtendedMap DEF Node
  <2>3. g2 = Relogged(g, h, "Streamed", all)
    BY <1>1, <1>5, <2>1, GraphParts DEF WithStreamedLogs, Node, Present, Relogged
  <2>4. {l \in g.nodes[h].logs : LogIndex[l] \notin Indexes(logs)} \subseteq all /\ logs \subseteq all
    BY DEF Extended
  <2> HIDE DEF all, g2
  <2>5. Reloads(g, g2, h, "Streamed", all)
    BY <1>1, <1>5, <2>2, <2>3, LogsWellFormed DEF Level
  <2>6. AccumulatesBut(g, g2, h, logs)
    BY <2>4, <2>5 DEF AccumulatesBut, Spared, Reloads, SameLogs
  <2>7. Absorbs(g2)
    BY <2>5 DEF Absorbs, Reloads, SameLogs
  <2>8. logs \subseteq g2.nodes[h].logs
    BY <2>4, <2>5 DEF Reloads
  <2>. QED
    BY <1>2, <1>3, <2>6, <2>7, <2>8 DEF g2
<1>. QED
  BY <1>4, <1>5

\* A header that is not refused enters the tree, if it was not there.
LEMMA AdmissionTakes ==
  ASSUME NEW g, TreeOK(g), Absorbs(g), NEW hash \in Block, NEW parent \in Block, NEW data \in BlockData,
         data.level # "Complete", hash # parent, ~PendingFull(g, MaxPending)
  PROVE  LET g2 == WithDataCapped(g, hash, parent, data, MaxPending)
         IN /\ Accumulates(g, g2) /\ Absorbs(g2) /\ g2.head = g.head /\ g2.anchor = g.anchor
            /\ PendingSet(g2) \subseteq PendingSet(g) \cup {hash}
            /\ hash = g.anchor \/ hash \in Present(g2)
<1> DEFINE g2 == WithDataCapped(g, hash, parent, data, MaxPending)
<1>1. IsGraph(g) /\ WellFormed(g) /\ MaxPending \in Nat
  BY RealChainAssumption DEF TreeOK
<1>2. LogsKept(g, g2) /\ Brings(g, g2, hash, data)
  BY <1>1, AdmissionWellFormed
<1>3. Accumulates(g, g2)
  BY <1>2 DEF Accumulates, LogsKept, SameLogs
<1>4. g2.anchor = g.anchor /\ g2.head = g.head
  BY <1>1, AdmissionHeaders
<1>5. Absorbs(g2)
  <2>1. ASSUME NEW h \in Present(g2), g2.nodes[h].level = "Complete"
        PROVE  Streamable[h] \subseteq g2.nodes[h].logs
    BY <1>2, <2>1 DEF Absorbs, LogsKept, SameLogs, Brings
  <2> HIDE DEF g2
  <2>. QED
    BY <2>1 DEF Absorbs
<1>6. /\ PendingSet(g2) \subseteq PendingSet(g) \cup {hash}
      /\ hash = g.anchor \/ hash \in Present(g2)
  <2>1. CASE AdmissionOf(g, hash, parent, MaxPending) = "Admitted" /\ hash # g.anchor /\ hash \notin Present(g)
    <3>1. CASE Connects(g, parent)
      <4>1. g2 = InsertConnected(g, hash, parent, data)
        BY <2>1, <3>1 DEF WithDataCapped
      <4>2. PICK D \in SUBSET PendingSet(g) :
              ConnectedInsertion(g, InsertConnected(g, hash, parent, data), hash, parent, data, D)
        BY <1>1, <2>1, InsertConnectedParts
      <4> HIDE DEF g2
      <4>3. ConnectedInsertion(g, g2, hash, parent, data, D)
        BY <4>1, <4>2
      <4>. QED
        BY <4>3 DEF ConnectedInsertion
    <3>2. CASE ~Connects(g, parent)
      <4>1. g2 = InsertPending(g, hash, parent, data)
        BY <2>1, <3>2 DEF WithDataCapped
      <4>2. PendingSet(g2) = PendingSet(g) \cup {hash}
        BY <1>1, <2>1, <3>2, <4>1, InsertPendingWellFormed
      <4>. QED
        BY <4>2 DEF PendingSet
    <3>. QED
      BY <3>1, <3>2
  <2>2. CASE AdmissionOf(g, hash, parent, MaxPending) # "Admitted"
    <3>1. g2 = g
      BY <2>2 DEF WithDataCapped
    <3>2. hash = g.anchor \/ hash \in Present(g)
      BY <2>2 DEF AdmissionOf
    <3>. QED
      BY <3>1, <3>2
  <2>3. AdmissionOf(g, hash, parent, MaxPending) = "Admitted" => hash # g.anchor /\ hash \notin Present(g)
    BY DEF AdmissionOf
  <2>. QED
    BY <2>1, <2>2, <2>3
<1>. QED
  BY <1>3, <1>4, <1>5, <1>6

\* A log that is in the tree with its block, or staged for it.
Holds(k, h, logs) ==
  IF h \in Present(k.graph) THEN logs \subseteq k.graph.nodes[h].logs
  ELSE h \in DOMAIN k.staging /\ logs \subseteq k.staging[h]

KeepsLogs(k, j) == \A h \in Block, logs \in SUBSET Log : Holds(k, h, logs) => Holds(j, h, logs)

\* The same, but for the logs whose place new logs of h take.
KeepsBut(k, j, h, new) ==
  \A b \in Block, logs \in SUBSET Log : Holds(k, b, logs) => Holds(j, b, Spared(b, h, new, logs))

\* A kernel that n deliveries went into since its activation: no more than n blocks are
\* pending above the seed's, no more than n have staged logs, and all of those are theirs.
Takes(k, n) ==
  /\ KernelOK(k) /\ Unstaged(k) /\ Absorbs(k.graph)
  /\ \A b \in DOMAIN k.staging : k.staging[b] \subseteq Streamable[b]
  /\ AtMostPending(k.graph, SeedPending + n)
  /\ IsFiniteSet(DOMAIN k.staging) /\ Cardinality(DOMAIN k.staging) <= n

LEMMA KeptTakes ==
  ASSUME NEW k, NEW j, NEW n, Takes(k, n), KernelOK(j), j.graph = k.graph, j.staging = k.staging
  PROVE  Takes(j, n) /\ KeepsLogs(k, j)
BY DEF Takes, KeepsLogs, Holds, Unstaged

\* Draining the block that has just entered.
LEMMA DrainTakes ==
  ASSUME NEW k, KernelOK(k), Absorbs(k.graph), NEW h \in Block,
         DOMAIN k.staging \cap Present(k.graph) \subseteq {h},
         \A b \in DOMAIN k.staging : k.staging[b] \subseteq Streamable[b]
  PROVE  LET j == Drained(k, h)
         IN /\ Present(j.graph) = Present(k.graph)
            /\ \A b \in Present(k.graph) :
                 b # h \/ h \notin DOMAIN k.staging => k.graph.nodes[b].logs \subseteq j.graph.nodes[b].logs
            /\ Absorbs(j.graph) /\ j.graph.head = k.graph.head
            /\ PendingSet(j.graph) = PendingSet(k.graph)
            /\ DOMAIN j.staging \subseteq DOMAIN k.staging
            /\ \A b \in DOMAIN j.staging : j.staging[b] = k.staging[b]
            /\ DOMAIN k.staging \ Present(k.graph) \subseteq DOMAIN j.staging
            /\ h \in Present(k.graph) \cap DOMAIN k.staging => k.staging[h] \subseteq j.graph.nodes[h].logs
<1>1. CASE h \notin Present(k.graph) \cap DOMAIN k.staging
  BY <1>1 DEF Drained
<1>2. CASE h \in Present(k.graph) \cap DOMAIN k.staging
  <2> DEFINE left == [b \in DOMAIN k.staging \ {h} |-> k.staging[b]]
             i == [k EXCEPT !.staging = left]
             logs == k.staging[h]
             g2 == WithStreamedLogs(k.graph, h, logs)
             j == Streamed(i, h, logs)
  <2>1. logs \in LogMap /\ logs \subseteq Streamable[h] /\ TreeOK(k.graph)
    BY <1>2 DEF KernelOK, DataOK
  <2>2. Drained(k, h) = j
    BY <1>2 DEF Drained
  <2>3. DOMAIN left = DOMAIN k.staging \ {h} /\ \A b \in DOMAIN left : left[b] = k.staging[b]
    OBVIOUS
  <2> HIDE DEF left, logs
  <2>4. Fields(i) /\ i.graph = k.graph /\ i.staging = left
    BY DEF KernelOK, DataOK, Fields, KernelFields
  <2> HIDE DEF i
  <2>5. j.graph = g2 /\ j.staging = left
    BY <2>4 DEF Streamed, Fields, KernelFields
  <2>6. /\ AccumulatesBut(k.graph, g2, h, logs) /\ Absorbs(g2) /\ g2.head = k.graph.head
        /\ PendingSet(g2) = PendingSet(k.graph) /\ Present(g2) = Present(k.graph)
        /\ logs \subseteq g2.nodes[h].logs
    BY <1>2, <2>1, StreamedTakes
  <2>7. \A b \in Present(k.graph) \ {h} : k.graph.nodes[b].logs \subseteq g2.nodes[b].logs
    BY <2>6 DEF AccumulatesBut, Spared
  <2> HIDE DEF j, g2
  <2>. QED
    BY <1>2, <2>2, <2>3, <2>5, <2>6, <2>7 DEF logs
<1>. QED
  BY <1>1, <1>2

LEMMA AtMostOneMore ==
  ASSUME NEW g, NEW g2, NEW n \in Nat, AtMostPending(g, n), NEW h, PendingSet(g2) \subseteq PendingSet(g) \cup {h}
  PROVE  AtMostPending(g2, n + 1)
<1> DEFINE S == PendingSet(g) \cup {h}
<1>1. IsFiniteSet(S) /\ Cardinality(S) <= Cardinality(PendingSet(g)) + 1 /\ Cardinality(PendingSet(g)) \in Nat
  BY FS_AddElement, FS_CardinalityType DEF AtMostPending
<1>2. PendingSet(g2) \subseteq S
  OBVIOUS
<1> HIDE DEF S
<1>3. IsFiniteSet(PendingSet(g2)) /\ Cardinality(PendingSet(g2)) <= Cardinality(S)
  BY <1>1, <1>2, FS_Subset
<1>4. Cardinality(S) \in Nat /\ Cardinality(PendingSet(g2)) \in Nat
  BY <1>1, <1>3, FS_CardinalityType
<1>. QED
  BY <1>1, <1>3, <1>4 DEF AtMostPending

\* A head that is not refused: it is followed, and nothing is lost.
LEMMA HeadTakes ==
  ASSUME NEW k, NEW n \in Nat, Takes(k, n), SeedPending \in Nat, SeedPending + n < MaxPending,
         NEW c \in HeadClaims, c.hash # c.parent, NEW j, j = WithHeadObserved(k, c)
  PROVE  Takes(j, n + 1) /\ KeepsLogs(k, j) /\ j.graph.head = c.hash
<1> DEFINE h == c.hash
           a == Admit(k, c)
           w == WithHead(a, h)
           e == Drained(w, h)
           g == k.graph
           ga == WithBlockCapped(g, h, c.parent, c.number, c.bloom, MaxPending)
           gw == WithObservedHead(ga, h)
<1>1. c \in Header /\ h \in Block /\ c.parent \in Block /\ KernelOK(k) /\ Unstaged(k) /\ TreeOK(g) /\ Absorbs(g)
  BY KernelAssumption DEF Header, Takes, KernelOK, DataOK
<1>2. ~PendingFull(g, MaxPending)
  <2>1. Cardinality(PendingSet(g)) \in Nat /\ Cardinality(PendingSet(g)) <= SeedPending + n /\ MaxPending \in Nat
    BY FS_CardinalityType, RealChainAssumption DEF Takes, AtMostPending
  <2>. QED
    BY <2>1 DEF PendingFull
<1>3. /\ Accumulates(g, ga) /\ Absorbs(ga) /\ ga.head = g.head /\ ga.anchor = g.anchor
      /\ PendingSet(ga) \subseteq PendingSet(g) \cup {h}
      /\ h = g.anchor \/ h \in Present(ga)
  <2> DEFINE data == HeaderData(c.number, c.bloom)
  <2>1. data \in BlockData /\ data.level # "Complete"
    BY <1>1 DEF Header, HeaderData, BlockData, Level, LogMap
  <2> HIDE DEF data
  <2>2. ga = WithDataCapped(g, h, c.parent, data, MaxPending)
    BY DEF WithBlockCapped, data
  <2> HIDE DEF h
  <2>. QED
    BY <1>1, <1>2, <2>1, <2>2, AdmissionTakes DEF h
<1>4. Regraphs(k, a) /\ a.staging = k.staging /\ Present(a.graph) \subseteq Present(g) \cup {h}
  BY <1>1, AdmitOK
<1>5. a.graph = ga
  BY <1>1 DEF Admit, KernelOK, DataOK, Fields, KernelFields
<1> HIDE DEF ga
<1>6. Regraphs(a, w) /\ w.staging = a.staging /\ Present(w.graph) = Present(a.graph)
  BY <1>1, <1>4, WithHeadOK DEF Regraphs
<1>7. w.graph = gw
  BY <1>4, <1>5 DEF WithHead, Regraphs, KernelOK, DataOK, Fields, KernelFields
<1>8. gw.head = h /\ gw.nodes = ga.nodes
  <2>1. TreeOK(ga)
    BY <1>4, <1>5 DEF Regraphs, KernelOK, DataOK
  <2>2. ga = [anchor |-> ga.anchor, number |-> ga.number, head |-> ga.head, nodes |-> ga.nodes]
    BY <2>1, GraphParts DEF TreeOK
  <2>. QED
    BY <1>3, <2>2 DEF WithObservedHead
<1> HIDE DEF gw, a
<1>9. Accumulates(g, gw) /\ Absorbs(gw) /\ PendingSet(gw) \subseteq PendingSet(g) \cup {h}
  BY <1>3, <1>8 DEF Accumulates, Absorbs, PendingSet, Present
<1>10. DOMAIN w.staging \cap Present(w.graph) \subseteq {h} /\ KernelOK(w) /\ w.staging = k.staging
  BY <1>1, <1>4, <1>6 DEF Unstaged, Regraphs
<1> HIDE DEF w
<1>11. \A b \in DOMAIN w.staging : w.staging[b] \subseteq Streamable[b]
  BY <1>10 DEF Takes
<1>12. /\ Present(e.graph) = Present(gw)
       /\ \A b \in Present(gw) :
            b # h \/ h \notin DOMAIN k.staging => gw.nodes[b].logs \subseteq e.graph.nodes[b].logs
       /\ Absorbs(e.graph) /\ e.graph.head = gw.head
       /\ PendingSet(e.graph) = PendingSet(gw)
       /\ DOMAIN e.staging \subseteq DOMAIN k.staging
       /\ \A b \in DOMAIN e.staging : e.staging[b] = k.staging[b]
       /\ DOMAIN k.staging \ Present(gw) \subseteq DOMAIN e.staging
       /\ h \in Present(gw) \cap DOMAIN k.staging => k.staging[h] \subseteq e.graph.nodes[h].logs
  BY <1>1, <1>7, <1>9, <1>10, <1>11, DrainTakes
<1>13. Regraphs(w, e) /\ Unstaged(e)
  BY <1>10, DrainedOK
<1> HIDE DEF e
<1>14. KernelOK(e) /\ Unstaged(e)
  BY <1>13 DEF Regraphs
<1>15. Takes(e, n + 1)
  <2>1. AtMostPending(e.graph, (SeedPending + n) + 1)
    BY <1>9, <1>12, AtMostOneMore DEF Takes
  <2>2. IsFiniteSet(DOMAIN e.staging) /\ Cardinality(DOMAIN e.staging) <= n + 1
    <3>1. /\ IsFiniteSet(DOMAIN e.staging) /\ Cardinality(DOMAIN e.staging) <= Cardinality(DOMAIN k.staging)
          /\ Cardinality(DOMAIN k.staging) <= n
      BY <1>12, FS_Subset DEF Takes
    <3>2. Cardinality(DOMAIN e.staging) \in Nat /\ Cardinality(DOMAIN k.staging) \in Nat
      BY <3>1, FS_CardinalityType DEF Takes
    <3>. QED
      BY <3>1, <3>2
  <2>3. \A b \in DOMAIN e.staging : e.staging[b] \subseteq Streamable[b]
    BY <1>12 DEF Takes
  <2>4. (SeedPending + n) + 1 = SeedPending + (n + 1)
    OBVIOUS
  <2>. QED
    BY <1>12, <1>14, <2>1, <2>2, <2>3, <2>4 DEF Takes
<1>16. KeepsLogs(k, e)
  <2> SUFFICES ASSUME NEW b \in Block, NEW logs \in SUBSET Log, Holds(k, b, logs)
               PROVE  Holds(e, b, logs)
    BY DEF KeepsLogs
  <2>1. CASE b \in Present(g)
    <3>1. logs \subseteq g.nodes[b].logs
      BY <2>1 DEF Holds
    <3>2. b \in Present(gw) /\ g.nodes[b].logs \subseteq gw.nodes[b].logs
      BY <1>9, <2>1 DEF Accumulates
    <3>3. gw.nodes[b].logs \subseteq e.graph.nodes[b].logs
      BY <1>1, <1>12, <2>1, <3>2 DEF Unstaged
    <3>. QED
      BY <1>12, <3>1, <3>2, <3>3 DEF Holds
  <2>2. CASE b \notin Present(g)
    <3>1. b \in DOMAIN k.staging /\ logs \subseteq k.staging[b]
      BY <2>2 DEF Holds
    <3>2. CASE b \in Present(gw)
      <4>1. b = h
        BY <1>4, <1>5, <1>8, <2>2, <3>2 DEF Present
      <4>. QED
        BY <1>12, <3>1, <3>2, <4>1 DEF Holds
    <3>3. CASE b \notin Present(gw)
      BY <1>12, <3>1, <3>3 DEF Holds
    <3>. QED
      BY <3>2, <3>3
  <2>. QED
    BY <2>1, <2>2
<1> DEFINE s == ScheduleAll(e)
           p == ProbeIfOrphaned(s, h, c.number)
<1>17. j = p \/ (j = Drained(k, h) /\ h = g.head)
  BY DEF WithHeadObserved, HeadOutcome, AdmissionOf, Inert, e, w, a
<1>18. CASE j = p
  <2>1. Keeps(e, j) /\ KernelOK(j)
    BY <1>14, <1>18, ScheduledAfter DEF Scheduled, Asks, Sends
  <2>2. Takes(j, n + 1) /\ KeepsLogs(e, j)
    BY <1>15, <2>1, KeptTakes DEF Keeps
  <2>. QED
    BY <1>8, <1>12, <1>16, <2>1, <2>2 DEF KeepsLogs, Keeps
<1>19. CASE j = Drained(k, h) /\ h = g.head
  <2>1. j = k
    BY <1>1, <1>19 DEF Drained, Unstaged
  <2>2. Takes(k, n + 1)
    <3>1. SeedPending + n \in Nat /\ Cardinality(DOMAIN k.staging) \in Nat
      BY FS_CardinalityType DEF Takes
    <3>2. AtMostPending(g, (SeedPending + n) + 1)
      BY <3>1, AtMostOneMore DEF Takes
    <3>3. (SeedPending + n) + 1 = SeedPending + (n + 1) /\ Cardinality(DOMAIN k.staging) <= n + 1
      BY <3>1 DEF Takes
    <3>. QED
      BY <3>2, <3>3 DEF Takes
  <2>. QED
    BY <1>19, <2>1, <2>2 DEF KeepsLogs
<1>. QED
  BY <1>17, <1>18, <1>19

\* Logs are kept in the tree or staged, unless as many blocks are staged as may be.
LEMMA LogTakes ==
  ASSUME NEW k, NEW n \in Nat, Takes(k, n), SeedPending \in Nat,
         NEW h \in Block, NEW logs \in Batch(h), NEW j, j = WithLogsObserved(k, h, logs)
  PROVE  /\ Takes(j, n + 1) /\ KeepsBut(k, j, h, logs) /\ j.graph.head = k.graph.head
         /\ Holds(j, h, logs) \/ (h \notin Present(j.graph) /\ n >= MaxStaged)
<1> DEFINE g == k.graph
<1>1. logs \in LogMap /\ logs \subseteq Streamable[h] /\ KernelOK(k) /\ Unstaged(k) /\ TreeOK(g) /\ Absorbs(g)
  BY DEF Batch, Takes, KernelOK, DataOK
<1>2. AtMostPending(g, SeedPending + (n + 1)) /\ Cardinality(DOMAIN k.staging) \in Nat
      /\ Cardinality(DOMAIN k.staging) <= n /\ MaxStaged \in Nat
  <2>1. SeedPending + n \in Nat /\ (SeedPending + n) + 1 = SeedPending + (n + 1)
    OBVIOUS
  <2>2. AtMostPending(g, (SeedPending + n) + 1)
    BY <2>1, AtMostOneMore DEF Takes
  <2>. QED
    BY <2>1, <2>2, FS_CardinalityType, KernelAssumption DEF Takes
<1>3. CASE h \in Present(g)
  <2> DEFINE s == Streamed(k, h, logs)
             g2 == WithStreamedLogs(g, h, logs)
  <2>1. s.graph = g2 /\ s.staging = k.staging
    BY <1>1 DEF Streamed, KernelOK, DataOK, Fields, KernelFields
  <2>2. /\ AccumulatesBut(g, g2, h, logs) /\ Absorbs(g2) /\ g2.head = g.head
        /\ PendingSet(g2) = PendingSet(g) /\ Present(g2) = Present(g)
        /\ logs \subseteq g2.nodes[h].logs
    BY <1>1, <1>3, StreamedTakes
  <2>3. KernelOK(s)
    BY <1>1, StreamedOK DEF Regraphs
  <2> HIDE DEF s, g2
  <2>4. Takes(s, n + 1)
    BY <1>1, <1>2, <2>1, <2>2, <2>3 DEF Takes, Unstaged, AtMostPending
  <2>5. KeepsBut(k, s, h, logs) /\ Holds(s, h, logs)
    <3>1. ASSUME NEW b \in Block, NEW held \in SUBSET Log, Holds(k, b, held)
          PROVE  Holds(s, b, Spared(b, h, logs, held))
      <4>1. CASE b \in Present(g)
        <5>1. held \subseteq g.nodes[b].logs /\ Spared(b, h, logs, g.nodes[b].logs) \subseteq g2.nodes[b].logs
          BY <2>2, <3>1, <4>1 DEF Holds, AccumulatesBut
        <5>2. Spared(b, h, logs, held) \subseteq Spared(b, h, logs, g.nodes[b].logs)
          BY <5>1 DEF Spared
        <5>. QED
          BY <2>1, <2>2, <4>1, <5>1, <5>2 DEF Holds
      <4>2. CASE b \notin Present(g)
        <5>1. b # h
          BY <1>3, <4>2
        <5>. QED
          BY <2>1, <2>2, <3>1, <4>2, <5>1 DEF Holds, Spared
      <4>. QED
        BY <4>1, <4>2
    <3>2. Holds(s, h, logs)
      BY <1>3, <2>1, <2>2 DEF Holds
    <3>. QED
      BY <3>1, <3>2 DEF KeepsBut
  <2>6. j = ScheduleAll(s)
    BY <1>3 DEF WithLogsObserved, s
  <2>7. Keeps(s, j) /\ KernelOK(j)
    BY <2>3, <2>6, ScheduledAfter DEF Scheduled, Asks, Sends
  <2>8. Takes(j, n + 1) /\ KeepsLogs(s, j)
    BY <2>4, <2>7, KeptTakes DEF Keeps
  <2>. QED
    <3>1. KeepsBut(k, j, h, logs)
      <4>1. \A b \in Block, held \in SUBSET Log : Spared(b, h, logs, held) \in SUBSET Log
        BY DEF Spared
      <4>. QED
        BY <2>5, <2>8, <4>1 DEF KeepsBut, KeepsLogs
    <3>2. Holds(j, h, logs)
      BY <1>1, <2>5, <2>8 DEF KeepsLogs, LogMap
    <3>. QED
      BY <2>1, <2>2, <2>7, <2>8, <3>1, <3>2 DEF Keeps
<1>4. CASE h \notin Present(g)
  <2>1. j = Staged(k, h, logs)
    BY <1>4 DEF WithLogsObserved
  <2>2. KernelOK(j) /\ Unstaged(j) /\ j.graph = g
    BY <1>1, <1>4, <2>1, StagedOK
  <2>3. CASE h \notin DOMAIN k.staging /\ Cardinality(DOMAIN k.staging) >= MaxStaged
    <3>1. j = k
      BY <2>1, <2>3 DEF Staged
    <3>2. Takes(j, n + 1) /\ n >= MaxStaged
      BY <1>2, <2>3, <3>1 DEF Takes
    <3>3. KeepsBut(k, k, h, logs)
      BY DEF KeepsBut, Holds, Spared
    <3>. QED
      BY <1>4, <3>1, <3>2, <3>3
  <2>4. CASE ~(h \notin DOMAIN k.staging /\ Cardinality(DOMAIN k.staging) >= MaxStaged)
    <3> DEFINE s == k.staging
               held == IF h \in DOMAIN s THEN s[h] ELSE {}
               all == Extended(held, logs)
               t == [b \in DOMAIN s \cup {h} |-> IF b # h THEN s[b] ELSE all]
    <3>1. j = [k EXCEPT !.staging = t]
      BY <2>1, <2>4 DEF Staged
    <3>2. j.staging = t
      BY <1>1, <3>1 DEF KernelOK, DataOK, Fields, KernelFields
    <3>3. DOMAIN t = DOMAIN s \cup {h} /\ t[h] = all /\ \A b \in DOMAIN s \ {h} : t[b] = s[b]
      OBVIOUS
    <3>4. held \subseteq Streamable[h] /\ (h \in DOMAIN s => held = s[h])
      BY DEF Takes
    <3>9. /\ all \subseteq Streamable[h] /\ logs \subseteq all
          /\ {l \in held : LogIndex[l] \notin Indexes(logs)} \subseteq all
      BY <1>1, <3>4 DEF Extended
    <3> HIDE DEF t, held, all
    <3>5. IsFiniteSet(DOMAIN t) /\ Cardinality(DOMAIN t) <= n + 1
      <4>1. IsFiniteSet(DOMAIN s)
        BY DEF Takes
      <4> DEFINE D == DOMAIN s
      <4> HIDE DEF D
      <4>2. IsFiniteSet(D)
        BY <4>1 DEF D
      <4>3. /\ IsFiniteSet(D \cup {h})
            /\ Cardinality(D \cup {h}) = Cardinality(D) \/ Cardinality(D \cup {h}) = Cardinality(D) + 1
        BY <4>2, FS_AddElement
      <4>4. Cardinality(D) \in Nat /\ Cardinality(D) <= n
        BY <1>2 DEF D
      <4>5. DOMAIN t = D \cup {h}
        BY <3>3 DEF D
      <4>. QED
        BY <4>3, <4>4, <4>5
    <3>6. \A b \in DOMAIN t : t[b] \subseteq Streamable[b]
      BY <3>3, <3>9 DEF Takes
    <3>7. Takes(j, n + 1)
      BY <1>1, <1>2, <2>2, <3>2, <3>5, <3>6 DEF Takes
    <3>8. KeepsBut(k, j, h, logs) /\ Holds(j, h, logs)
      <4>1. ASSUME NEW b \in Block, NEW L \in SUBSET Log, Holds(k, b, L)
            PROVE  Holds(j, b, Spared(b, h, logs, L))
        <5>1. CASE b = h
          <6>1. h \in DOMAIN s /\ L \subseteq held
            BY <1>4, <3>4, <4>1, <5>1 DEF Holds
          <6>2. Spared(b, h, logs, L) \subseteq all
            BY <3>9, <5>1, <6>1 DEF Spared
          <6>. QED
            BY <1>4, <2>2, <3>2, <3>3, <5>1, <6>2 DEF Holds
        <5>2. CASE b # h
          BY <2>2, <3>2, <3>3, <4>1, <5>2 DEF Holds, Spared
        <5>. QED
          BY <5>1, <5>2
      <4>2. Holds(j, h, logs)
        BY <1>4, <2>2, <3>2, <3>3, <3>9 DEF Holds
      <4>. QED
        BY <4>1, <4>2 DEF KeepsBut
    <3>. QED
      BY <2>2, <3>7, <3>8
  <2>. QED
    BY <2>3, <2>4
<1>. QED
  BY <1>3, <1>4

\* The seed window makes a tree that takes whatever a feed may tag its blocks with.
LEMMA SeedAbsorbs ==
  ASSUME BufferFits
  PROVE  LET g == SeedGraph(StartAnchor, StartNumber, SeedWindow) IN TreeOK(g) /\ Absorbs(g)
<1> DEFINE X == {g \in GraphValue : TreeOK(g) /\ Absorbs(g)}
<1>1. NewGraph(StartAnchor, StartNumber) \in X
  <2>1. StartAnchor \in Block /\ StartNumber \in Nat
    BY RealChainAssumption
  <2>. QED
    BY <2>1, NewGraphTree, GraphValues DEF TreeOK, Absorbs
<1>2. ASSUME NEW g \in X, NEW s \in SeedWindow
      PROVE  WithDataCapped(g, s.hash, s.parent, SeedData(s.number, s.logs), SeedCap) \in X
  <2> DEFINE h == s.hash
             p == s.parent
             data == SeedData(s.number, s.logs)
             g2 == WithDataCapped(g, h, p, data, SeedCap)
  <2>1. h \in Block /\ p \in Block /\ data \in BlockData /\ Streamable[h] \subseteq data.logs
    BY RealChainAssumption DEF SeedBlock, SeedData, BlockData, BloomValue, NoBloom, Level, BufferFits
  <2>2. TreeOK(g) /\ Absorbs(g) /\ IsGraph(g) /\ WellFormed(g)
    BY DEF TreeOK
  <2>3. SeedCap \in {MaxPending, SeedCap} /\ SeedCap \in Nat
    BY RealChainAssumption
  <2> HIDE DEF X, h, p, data
  <2>4. TreeOK(g2)
    BY <2>1, <2>2, <2>3, AdmissionTree
  <2>5. LogsKept(g, g2) /\ Brings(g, g2, h, data)
    BY <2>1, <2>2, <2>3, AdmissionWellFormed
  <2> HIDE DEF g2
  <2>6. Absorbs(g2)
    <3>1. ASSUME NEW b \in Present(g2), g2.nodes[b].level = "Complete"
          PROVE  Streamable[b] \subseteq g2.nodes[b].logs
      BY <2>1, <2>2, <2>5, <3>1 DEF Absorbs, LogsKept, SameLogs, Brings
    <3>. QED
      BY <3>1 DEF Absorbs
  <2>7. g2 \in X
    BY <2>4, <2>6, GraphValues DEF TreeOK, X
  <2>. QED
    BY <2>7 DEF g2, h, p, data
<1> HIDE DEF X
<1>3. SeedGraph(StartAnchor, StartNumber, SeedWindow) \in X
  BY <1>1, <1>2, SeedGraphIn DEF SeedClosed
<1>. QED
  BY <1>3 DEF X

\* The newest head among the first n deliveries is the one at i.
NewestHead(deliveries, i, n) ==
  deliveries[i].kind = "head" /\ \A m \in i + 1 .. n : deliveries[m].kind = "logs"

\* After n deliveries of a buffer the kernel follows the newest head, and holds the newest
\* logs of every block and index but, perhaps, those of the very last delivery, whose block is
\* then not in the tree.
Survives(f, deliveries, n) ==
  /\ Takes(f[n], n)
  /\ \A i \in 1 .. n :
       /\ NewestHead(deliveries, i, n) => f[n].graph.head = deliveries[i].claim.hash
       /\ deliveries[i].kind = "logs" =>
            \/ Holds(f[n], deliveries[i].at, Lasting(deliveries, i, n))
            \/ i = Len(deliveries) /\ deliveries[i].at \notin Present(f[n].graph)

LEMMA DeliveryKinds ==
  ASSUME NEW d \in Delivery
  PROVE  \/ d.kind = "head" /\ d.claim \in HeadClaims
         \/ /\ d.kind = "logs" /\ d.at \in Block /\ d.logs \in Batch(d.at)
            /\ d.logs \in LogMap
<1>1. CASE \E c \in HeadClaims : d = HeadDelivery(c)
  BY <1>1 DEF HeadDelivery
<1>2. CASE \E h \in Block : \E logs \in Batch(h) : d = LogDelivery(h, logs)
  <2>1. PICK h \in Block : \E logs \in Batch(h) : d = LogDelivery(h, logs)
    BY <1>2
  <2>2. PICK logs \in Batch(h) : d = LogDelivery(h, logs)
    BY <2>1
  <2>3. logs \in LogMap
    BY DEF Batch
  <2>. QED
    BY <2>2, <2>3 DEF LogDelivery
<1>. QED
  BY <1>1, <1>2 DEF Delivery

LEMMA SurvivesNext ==
  ASSUME BufferFits, SeedPending \in Nat, NEW deliveries \in Seq(Delivery), Len(deliveries) <= MaxBuffered,
         NEW f, NEW n \in 1 .. Len(deliveries), f[n] = Delivered(f[n - 1], deliveries[n]),
         Survives(f, deliveries, n - 1)
  PROVE  Survives(f, deliveries, n)
<1> DEFINE N == Len(deliveries)
           m == n - 1
           d == deliveries[n]
<1>1. N \in Nat /\ n \in Nat /\ m \in Nat /\ m + 1 = n /\ n <= N /\ d \in Delivery
      /\ \A i \in 1 .. N : deliveries[i] \in Delivery
  OBVIOUS
<1>2. MaxBuffered \in Nat /\ MaxPending \in Nat /\ MaxStaged \in Nat
  BY MultiChainAssumption, RealChainAssumption, KernelAssumption
<1>3. SeedPending + m < MaxPending /\ (m >= MaxStaged => n = N)
  BY <1>1, <1>2 DEF BufferFits
<1> HIDE DEF N, m, d
<1>4. Takes(f[m], m) /\ f[n] = Delivered(f[m], d)
  BY DEF Survives, m, d
<1>5. /\ Takes(f[n], n)
      /\ d.kind = "head" => KeepsLogs(f[m], f[n])
      /\ d.kind = "logs" => KeepsBut(f[m], f[n], d.at, d.logs)
      /\ d.kind = "head" => f[n].graph.head = d.claim.hash
      /\ d.kind = "logs" => f[n].graph.head = f[m].graph.head
      /\ d.kind = "logs" => \/ Holds(f[n], d.at, d.logs)
                            \/ n = N /\ d.at \notin Present(f[n].graph)
  <2>1. CASE d.kind = "head" /\ d.claim \in HeadClaims
    <3>1. f[n] = WithHeadObserved(f[m], d.claim) /\ d.claim.hash # d.claim.parent
      BY <1>4, <2>1 DEF Delivered, BufferFits
    <3>2. Takes(f[n], m + 1) /\ KeepsLogs(f[m], f[n]) /\ f[n].graph.head = d.claim.hash
      BY <1>1, <1>3, <1>4, <2>1, <3>1, HeadTakes
    <3>. QED
      BY <1>1, <2>1, <3>2
  <2>2. CASE d.kind = "logs" /\ d.at \in Block /\ d.logs \in Batch(d.at)
    <3>1. f[n] = WithLogsObserved(f[m], d.at, d.logs)
      BY <1>4, <2>2 DEF Delivered
    <3>2. /\ Takes(f[n], m + 1) /\ KeepsBut(f[m], f[n], d.at, d.logs) /\ f[n].graph.head = f[m].graph.head
          /\ Holds(f[n], d.at, d.logs) \/ (d.at \notin Present(f[n].graph) /\ m >= MaxStaged)
      BY <1>1, <1>4, <2>2, <3>1, LogTakes
    <3>. QED
      BY <1>1, <1>3, <2>2, <3>2
  <2>. QED
    BY <1>1, <2>1, <2>2, DeliveryKinds
<1>6. ASSUME NEW i \in 1 .. n, NewestHead(deliveries, i, n)
      PROVE  f[n].graph.head = deliveries[i].claim.hash
  <2>1. CASE i = n
    BY <1>5, <1>6, <2>1 DEF NewestHead, d
  <2>2. CASE i # n
    <3>1. i \in 1 .. m /\ n \in i + 1 .. n /\ \A x \in i + 1 .. m : x \in i + 1 .. n
      BY <1>1, <2>2
    <3>2. NewestHead(deliveries, i, m) /\ d.kind = "logs"
      BY <1>6, <3>1 DEF NewestHead, d
    <3>. QED
      BY <1>5, <3>1, <3>2 DEF Survives, m
  <2>. QED
    BY <2>1, <2>2
<1>7. ASSUME NEW i \in 1 .. n, deliveries[i].kind = "logs"
      PROVE  \/ Holds(f[n], deliveries[i].at, Lasting(deliveries, i, n))
             \/ i = N /\ deliveries[i].at \notin Present(f[n].graph)
  <2> DEFINE at == deliveries[i].at
             old == Lasting(deliveries, i, m)
             new == Lasting(deliveries, i, n)
  <2>1. CASE i = n
    <3>1. new \subseteq d.logs /\ at = d.at
      BY <2>1 DEF Lasting, d
    <3>. QED
      BY <1>5, <1>7, <2>1, <3>1 DEF Holds, d
  <2>2. CASE i # n
    <3>1. i \in 1 .. m /\ i \in 1 .. N /\ i # N /\ i + 1 .. n = (i + 1 .. m) \cup {n}
      BY <1>1, <2>2
    <3>2. Holds(f[m], at, old)
      BY <1>7, <3>1 DEF Survives, m, N
    <3>3. at \in Block /\ deliveries[i].logs \in LogMap
      BY <1>1, <1>7, <3>1, DeliveryKinds
    <3>4. old \in SUBSET Log /\ new \subseteq old
      BY <3>1, <3>3 DEF Lasting, LogMap
    <3>5. d.kind = "logs" => new \subseteq Spared(at, d.at, d.logs, old)
      BY <3>1, <3>4 DEF Lasting, Spared, d
    <3> HIDE DEF at, old, new
    <3>6. CASE d.kind = "head"
      <4>1. Holds(f[n], at, old)
        BY <1>5, <3>2, <3>3, <3>4, <3>6 DEF KeepsLogs
      <4>. QED
        BY <3>4, <4>1 DEF Holds, at, new
    <3>7. CASE d.kind = "logs"
      <4>1. Holds(f[n], at, Spared(at, d.at, d.logs, old))
        BY <1>5, <3>2, <3>3, <3>4, <3>7 DEF KeepsBut
      <4>. QED
        BY <3>5, <3>7, <4>1 DEF Holds, at, new
    <3>. QED
      BY <1>1, <3>6, <3>7, DeliveryKinds
  <2>. QED
    BY <2>1, <2>2
<1>. QED
  BY <1>5, <1>6, <1>7 DEF Survives, N

LEMMA ReplaySurvives ==
  ASSUME BufferFits, SeedPending \in Nat, NEW deliveries \in Seq(Delivery), Len(deliveries) <= MaxBuffered,
         NEW f, NEW k, Takes(k, 0), IsReplay(f, k, deliveries, Len(deliveries))
  PROVE  Survives(f, deliveries, Len(deliveries))
<1> DEFINE Bad == {n \in 0 .. Len(deliveries) : ~Survives(f, deliveries, n)}
<1>1. Len(deliveries) \in Nat
  OBVIOUS
<1> SUFFICES ASSUME Bad # {} PROVE FALSE
  BY <1>1
<1>2. PICK n \in Bad : \A m \in Bad : n <= m
  <2>1. Bad \in SUBSET Nat
    OBVIOUS
  <2> HIDE DEF Bad
  <2>. QED
    BY <2>1, LeastNumber
<1>3. Survives(f, deliveries, 0)
  BY DEF Survives, IsReplay
<1>4. n \in 1 .. Len(deliveries) /\ n - 1 \in 0 .. Len(deliveries) /\ ~(n <= n - 1)
  BY <1>1, <1>2, <1>3
<1>5. Survives(f, deliveries, n - 1)
  BY <1>2, <1>4
<1>6. f[n] = Delivered(f[n - 1], deliveries[n])
  BY <1>4 DEF IsReplay
<1>7. Survives(f, deliveries, n)
  BY <1>4, <1>5, <1>6, SurvivesNext
<1>. QED
  BY <1>2, <1>7

\* Until its activation the kernel is what bootstrap hands over, and nothing is asked for it.
Unopened(k, b, asked) == Takes(k, 0) /\ Len(b) <= MaxBuffered /\ asked = {}

BufferInv ==
  /\ LifecycleInv
  /\ phase = "Bootstrapping" => Unopened(kernel, buffer, refreshes)

LEMMA SeedPendingNumber ==
  ASSUME BufferFits
  PROVE  SeedPending \in Nat
<1> DEFINE g == SeedGraph(StartAnchor, StartNumber, SeedWindow)
<1>1. TreeOK(g)
  BY SeedAbsorbs
<1>2. SeedPending = Cardinality(PendingSet(g))
  BY DEF SeedPending
<1> HIDE DEF g
<1>3. IsFiniteSet(PendingSet(g))
  BY <1>1 DEF TreeOK, AtMostPending
<1>. QED
  BY <1>2, <1>3, FS_CardinalityType

LEMMA InitBuffer == BufferFits /\ LifecycleInit => BufferInv
<1> SUFFICES ASSUME BufferFits, LifecycleInit PROVE BufferInv
  OBVIOUS
<1> DEFINE j == Activated(StartAnchor, StartNumber, SeedWindow, Tracked, {}, KnownTokens, {})
           g == SeedGraph(StartAnchor, StartNumber, SeedWindow)
<1>1. kernel = j /\ buffer = <<>>
  BY DEF LifecycleInit, Init
<1>2. KernelOK(j) /\ Unstaged(j) /\ Opens(j, StartAnchor, StartNumber, SeedWindow) /\ DOMAIN j.staging = {}
  BY ActivatedOK, RealChainAssumption, KernelAssumption, FS_EmptySet
<1>3. TreeOK(g) /\ Absorbs(g)
  BY SeedAbsorbs
<1>4. SeedPending \in Nat /\ SeedPending = Cardinality(PendingSet(g)) /\ SeedPending + 0 = SeedPending
  BY SeedPendingNumber DEF SeedPending
<1> HIDE DEF j, g
<1>5. j.graph = g
  BY <1>2 DEF Opens, g
<1>6. AtMostPending(j.graph, SeedPending + 0)
  BY <1>3, <1>4, <1>5 DEF AtMostPending, TreeOK
<1>7. Takes(j, 0)
  BY <1>2, <1>3, <1>5, <1>6, FS_EmptySet DEF Takes
<1>. QED
  BY <1>1, <1>7, InitLifecycle, MultiChainAssumption DEF BufferInv, Unopened, LifecycleInit

LEMMA NextBuffer == BufferInv /\ [LifecycleNext]_lifecycle => BufferInv'
<1> SUFFICES ASSUME BufferInv, [LifecycleNext]_lifecycle PROVE BufferInv'
  OBVIOUS
<1>1. LifecycleInv'
  BY NextLifecycle DEF BufferInv
<1>2. ASSUME phase' = "Bootstrapping"
      PROVE  Unopened(kernel', buffer', refreshes')
  <2>1. phase = "Bootstrapping" => Unopened(kernel, buffer, refreshes)
    BY DEF BufferInv
  <2>2. CASE UNCHANGED <<kernel, phase, buffer, refreshes>>
    BY <1>2, <2>1, <2>2
  <2>3. ASSUME NEW d \in Delivery, BufferDelivery(d)
        PROVE  Unopened(kernel', buffer', refreshes')
    <3>1. /\ phase = "Bootstrapping" /\ Len(buffer) < MaxBuffered /\ buffer' = Append(buffer, d)
          /\ kernel' = kernel /\ refreshes' = refreshes /\ buffer \in Seq(Delivery)
      BY <2>3 DEF BufferDelivery, BufferInv, LifecycleInv, LifecycleTypeOK
    <3>2. Len(buffer') = Len(buffer) + 1 /\ Len(buffer) \in Nat /\ MaxBuffered \in Nat
      BY <3>1, MultiChainAssumption
    <3>. QED
      BY <2>1, <3>1, <3>2 DEF Unopened
  <2>4. \/ UNCHANGED <<kernel, phase, buffer, refreshes>>
        \/ \E d \in Delivery : BufferDelivery(d)
        \/ phase' # "Bootstrapping"
    <3>1. ASSUME NEW d \in Delivery, LiveDelivery(d) \/ IgnoreDelivery(d)
          PROVE  phase' # "Bootstrapping"
      BY <3>1 DEF LiveDelivery, IgnoreDelivery
    <3>2. ASSUME Activate \/ Abandon
          PROVE  phase' # "Bootstrapping"
      BY <3>2 DEF Activate, Abandon
    <3>3. ASSUME NEW m, ChainEvent(m) \/ ChainAnswerLost(m) \/ ChainTick
          PROVE  phase' # "Bootstrapping"
      BY <3>3 DEF ChainEvent, ChainAnswerLost, ChainTick
    <3>4. CASE UNCHANGED lifecycle
      BY <3>4 DEF lifecycle
    <3>5. CASE refreshes # {}
      <4>1. phase # "Bootstrapping"
        BY <2>1, <3>5 DEF Unopened
      <4>2. ASSUME NEW n \in refreshes, NEW t, FinalizedHeaderReceived(n, t) \/ FinalizedHeaderUnavailable(n)
            PROVE  phase' = phase
        BY <4>2 DEF FinalizedHeaderReceived, FinalizedHeaderUnavailable
      <4>. QED
        BY <3>1, <3>2, <3>3, <3>4, <4>1, <4>2 DEF LifecycleNext
    <3>. QED
      BY <3>1, <3>2, <3>3, <3>4, <3>5 DEF LifecycleNext
  <2>. QED
    BY <1>2, <2>2, <2>3, <2>4
<1>. QED
  BY <1>1, <1>2 DEF BufferInv


\* Nothing but the activation turns a bootstrapping chain into an active one.
LEMMA OnlyActivate ==
  ASSUME [LifecycleNext]_lifecycle, phase = "Bootstrapping", phase' = "Active"
  PROVE  Activate
<1>1. ASSUME NEW d \in Delivery, BufferDelivery(d) \/ LiveDelivery(d) \/ IgnoreDelivery(d)
      PROVE  phase' = phase
  BY <1>1 DEF BufferDelivery, LiveDelivery, IgnoreDelivery
<1>2. ASSUME NEW m, ChainEvent(m) \/ ChainAnswerLost(m) \/ ChainTick
      PROVE  phase' = phase
  BY <1>2 DEF ChainEvent, ChainAnswerLost, ChainTick
<1>3. ASSUME NEW n \in refreshes, NEW t, FinalizedHeaderReceived(n, t) \/ FinalizedHeaderUnavailable(n)
      PROVE  phase' = phase
  BY <1>3 DEF FinalizedHeaderReceived, FinalizedHeaderUnavailable
<1>4. ~Abandon
  BY DEF Abandon
<1>5. lifecycle' # lifecycle
  BY DEF lifecycle
<1>. QED
  BY <1>1, <1>2, <1>3, <1>4, <1>5 DEF LifecycleNext

\* Whatever the feed delivered while the chain bootstrapped is in the kernel that
\* the activation hands over (replay_buffered_subscription_data): its head is the newest
\* head, and a block of the tree misses none of the logs that came for it, in whichever order
\* they came, but for those whose index a later one has.
THEOREM BufferedDataSurvives ==
  BufferFits => (LifecycleSpec => BufferSurvives)
<1> SUFFICES ASSUME BufferFits PROVE LifecycleSpec => BufferSurvives
  OBVIOUS
<1> DEFINE Whole ==
  \A i \in DOMAIN buffer :
    /\ buffer[i].kind = "head" /\ (\A n \in DOMAIN buffer : n > i => buffer[n].kind = "logs") =>
         kernel'.graph.head = buffer[i].claim.hash
    /\ buffer[i].kind = "logs" /\ buffer[i].at \in Present(kernel'.graph) =>
         Lasting(buffer, i, Len(buffer)) \subseteq kernel'.graph.nodes[buffer[i].at].logs
<1>1. LifecycleInit => BufferInv
  BY InitBuffer
<1>2. BufferInv /\ [LifecycleNext]_lifecycle => BufferInv'
  BY NextBuffer
<1>3. ASSUME BufferInv, [LifecycleNext]_lifecycle, phase = "Bootstrapping", phase' = "Active"
      PROVE  Whole
  <2> DEFINE N == Len(buffer)
             k == kernel'
  <2>1. Activate
    BY <1>3, OnlyActivate
  <2>2. /\ buffer \in Seq(Delivery) /\ N \in Nat /\ DOMAIN buffer = 1 .. N
        /\ N <= MaxBuffered /\ Takes(kernel, 0) /\ SeedPending \in Nat
    BY <1>3, SeedPendingNumber DEF BufferInv, LifecycleInv, LifecycleTypeOK, Unopened
  <2>3. k = ReplayOf(kernel, buffer)
    BY <2>1 DEF Activate, Replayed
  <2>4. PICK f : IsReplay(f, kernel, buffer, N) /\ ReplayOf(kernel, buffer) = f[N]
    BY <2>2, ReplayIs
  <2>5. Survives(f, buffer, N) /\ k = f[N]
    BY <2>2, <2>3, <2>4, ReplaySurvives
  <2> HIDE DEF k
  <2>6. ASSUME NEW i \in DOMAIN buffer, buffer[i].kind = "head",
               \A n \in DOMAIN buffer : n > i => buffer[n].kind = "logs"
        PROVE  k.graph.head = buffer[i].claim.hash
    <3>1. \A m \in i + 1 .. N : m \in DOMAIN buffer /\ m > i
      BY <2>2
    <3>2. NewestHead(buffer, i, N)
      BY <2>6, <3>1 DEF NewestHead
    <3>. QED
      BY <2>2, <2>5, <3>2 DEF Survives
  <2>7. ASSUME NEW i \in DOMAIN buffer, buffer[i].kind = "logs", buffer[i].at \in Present(k.graph)
        PROVE  Lasting(buffer, i, N) \subseteq k.graph.nodes[buffer[i].at].logs
    <3>1. Holds(k, buffer[i].at, Lasting(buffer, i, N))
      BY <2>2, <2>5, <2>7 DEF Survives
    <3>. QED
      BY <2>7, <3>1 DEF Holds
  <2>. QED
    BY <2>6, <2>7 DEF k
<1> HIDE DEF Whole
<1>4. BufferInv /\ [LifecycleNext]_lifecycle => (phase = "Bootstrapping" /\ phase' = "Active" => Whole)
  BY <1>3
<1>5. BufferInv /\ [LifecycleNext]_lifecycle =>
        [phase = "Bootstrapping" /\ phase' = "Active" => Whole]_lifecycle
  BY <1>4
<1>6. LifecycleSpec => [][phase = "Bootstrapping" /\ phase' = "Active" => Whole]_lifecycle
  BY <1>1, <1>2, <1>5, PTL DEF LifecycleSpec
<1>. QED
  BY <1>6 DEF BufferSurvives, Whole

(***************************************************************************)
(* Plans.                                                                  *)
(***************************************************************************)
LEMMA Quotient ==
  ASSUME NEW n \in Nat, NEW d \in Nat \ {0}
  PROVE  n \div d \in Nat /\ d * (n \div d) <= n
OBVIOUS

LEMMA SmallerQuotient ==
  ASSUME NEW n \in Nat, NEW d \in Nat \ {0}, NEW m \in Nat, n <= m * d
  PROVE  n \div d <= m
<1> DEFINE q == n \div d
<1>1. q \in Nat /\ d * q <= n
  BY Quotient
<1> HIDE DEF q
<1>2. CASE q > m
  <2>1. PICK e \in Nat : q = m + 1 + e
    <3>1. q - m - 1 \in Nat
      BY <1>1, <1>2
    <3>2. q = m + 1 + (q - m - 1)
      BY <1>1
    <3>. QED
      BY <3>1, <3>2
  <2>2. d * q = d * m + d + d * e
    BY <2>1
  <2>3. d * e \in Nat /\ d * m = m * d /\ d * m \in Nat
    BY <2>1
  <2>. QED
    BY <1>1, <2>2, <2>3
<1>3. q <= m
  BY <1>1, <1>2
<1>. QED
  BY <1>3 DEF q

LEMMA Products ==
  ASSUME NEW a \in Nat, NEW b \in Nat, NEW c \in Nat, NEW d \in Nat, a <= b, c <= d
  PROVE  a * c <= b * d
<1>1. PICK e \in Nat : b = a + e
  <2>1. b - a \in Nat /\ b = a + (b - a)
    OBVIOUS
  <2>. QED
    BY <2>1
<1>2. PICK f \in Nat : d = c + f
  <2>1. d - c \in Nat /\ d = c + (d - c)
    OBVIOUS
  <2>. QED
    BY <2>1
<1>3. b * d = a * c + a * f + e * c + e * f
  BY <1>1, <1>2
<1>4. a * f \in Nat /\ e * c \in Nat /\ e * f \in Nat /\ a * c \in Nat
  OBVIOUS
<1>. QED
  BY <1>3, <1>4

\* The trade of LosslessPool::swap: what leaves the y side is no more than it holds, and the
\* product of what stays does not shrink, since no more is priced in than joins the x side.
LEMMA Trade ==
  ASSUME NEW x \in Nat, NEW y \in Nat, NEW amount \in Nat, NEW capped \in Nat, capped <= amount,
         NEW out, out = IF x + capped = 0 THEN 0 ELSE (y * capped) \div (x + capped)
  PROVE  out \in Nat /\ out <= y /\ (x + amount) * (y - out) >= x * y
<1>1. CASE x + capped = 0
  <2>1. out = 0 /\ x = 0
    BY <1>1
  <2>. QED
    BY <2>1
<1>2. CASE x + capped # 0
  <2> DEFINE d == x + capped
             n == y * capped
  <2>1. n \in Nat /\ d \in Nat \ {0} /\ out = n \div d /\ capped <= d
    BY <1>2
  <2>2. y * capped <= y * d
    <3> HIDE DEF d
    <3>. QED
      BY <2>1, Products
  <2>3. d * y = x * y + n /\ d <= x + amount /\ y * d = d * y
    OBVIOUS
  <2> HIDE DEF d, n
  <2>4. out \in Nat /\ d * out <= n
    BY <2>1, Quotient
  <2>5. out <= y
    BY <2>1, <2>2, SmallerQuotient DEF n
  <2>6. y - out \in Nat /\ d * (y - out) = d * y - d * out
    BY <2>1, <2>4, <2>5
  <2>7. d * (y - out) <= (x + amount) * (y - out)
    BY <2>1, <2>3, <2>6, Products
  <2>8. x * y \in Nat /\ d * y \in Nat /\ d * out \in Nat /\ d * (y - out) \in Nat /\ (x + amount) * (y - out) \in Nat
    BY <2>1, <2>4, <2>6
  <2>9. d * (y - out) >= x * y
    BY <2>1, <2>3, <2>4, <2>6, <2>8
  <2>. QED
    BY <2>4, <2>5, <2>7, <2>8, <2>9
<1>. QED
  BY <1>1, <1>2

\* The steps of a plan, balances, and the states of a replay over these pools, in which
\* no pool has been drawn down; `need` are the pools the plan swaps through.
PlanStep ==
  {s \in [cell : [stage : Nat, from : Token, to : Token, kind : {"swap", "bridge", "carry", "padding"},
                  pool : {{}} \cup {{p} : p \in Pool}], weight : Nat] :
     s.cell.kind = "swap" <=> s.cell.pool # {}}
Amounts == UNION {[S -> Nat] : S \in SUBSET Token}
Undrained(pools, book) ==
  \A p \in DOMAIN pools : book[p].reserve0 * book[p].reserve1 >= pools[p].reserve0 * pools[p].reserve1
ReplayStates(pools, need) ==
  {r \in [book : [DOMAIN pools -> PoolBook], balances : Amounts, next : Amounts, hit : BOOLEAN,
          failed : {"", "PoolNotFound", "TokenNotInPool"}] :
     Undrained(pools, r.book) /\ (r.failed = "" => need \subseteq DOMAIN pools)}

LEMMA HeldOK ==
  ASSUME NEW balances \in Amounts, NEW token
  PROVE  Held(balances, token) \in Nat
BY DEF Amounts, Held

LEMMA CreditedOK ==
  ASSUME NEW balances \in Amounts, NEW token \in Token, NEW amount \in Nat
  PROVE  Credited(balances, token, amount) \in Amounts
<1> DEFINE S == DOMAIN balances \cup {token}
           c == Credited(balances, token, amount)
<1>1. S \in SUBSET Token
  BY DEF Amounts
<1>2. \A t \in S : Held(balances, t) + (IF t = token THEN amount ELSE 0) \in Nat
  BY HeldOK
<1>3. c \in [S -> Nat]
  BY <1>2 DEF Credited
<1> HIDE DEF S, c
<1>4. c \in Amounts
  BY <1>1, <1>3 DEF Amounts
<1>. QED
  BY <1>4 DEF c

LEMMA WeightedOK ==
  ASSUME NEW balance \in Nat, NEW weight \in Nat
  PROVE  WeightedAmount(balance, weight) \in Nat
<1> DEFINE w == IF weight > WeightScale THEN WeightScale ELSE weight
           n == balance * w
<1>1. WeightScale \in Nat \ {0}
  BY ScaleAssumption
<1>2. w \in Nat /\ n \in Nat
  BY <1>1
<1> HIDE DEF n
<1>3. n \div WeightScale \in Nat
  BY <1>1, <1>2, Quotient
<1>. QED
  BY <1>3 DEF WeightedAmount, n, w

LEMMA AtLeastTwice ==
  ASSUME NEW a \in PoolBook, NEW b \in PoolBook, NEW c \in PoolBook,
         a.reserve0 * a.reserve1 >= b.reserve0 * b.reserve1,
         b.reserve0 * b.reserve1 >= c.reserve0 * c.reserve1
  PROVE  a.reserve0 * a.reserve1 >= c.reserve0 * c.reserve1
<1>1. \A e \in PoolBook : e.reserve0 \in Nat /\ e.reserve1 \in Nat
  BY DEF PoolBook
<1>2. \A e \in PoolBook : e.reserve0 * e.reserve1 \in Int
  BY <1>1
<1>3. ASSUME NEW x \in Int, NEW y \in Int, NEW z \in Int, x >= y, y >= z
      PROVE  x >= z
  BY <1>3
<1>. QED
  BY <1>2, <1>3

LEMMA SwapOK ==
  ASSUME NEW pool \in PoolBook, NEW from, NEW amount \in Nat
  PROVE  LET s == Swap(pool, from, amount)
         IN /\ s.out \in Nat /\ s.hit \in BOOLEAN /\ s.pool \in PoolBook
            /\ s.pool.reserve0 * s.pool.reserve1 >= pool.reserve0 * pool.reserve1
<1> DEFINE forward  == from = pool.token0
           x        == IF forward THEN pool.reserve0 ELSE pool.reserve1
           y        == IF forward THEN pool.reserve1 ELSE pool.reserve0
           limit    == IF forward THEN pool.limit0 ELSE pool.limit1
           afterFee == (amount * Kept(pool.fee)) \div PipsDenominator
           capped   == IF afterFee > limit THEN limit ELSE afterFee
           out      == IF x + capped = 0 THEN 0 ELSE (y * capped) \div (x + capped)
           after    == IF forward THEN [pool EXCEPT !.reserve0 = @ + amount, !.reserve1 = @ - out]
                       ELSE [pool EXCEPT !.reserve1 = @ + amount, !.reserve0 = @ - out]
           s        == Swap(pool, from, amount)
<1>1. s = [out |-> out, hit |-> afterFee > limit, pool |-> after]
  BY DEF Swap
<1>2. x \in Nat /\ y \in Nat /\ limit \in Nat /\ pool.fee \in Nat
  BY DEF PoolBook
<1>3. afterFee \in Nat /\ afterFee <= amount
  <2> DEFINE k == Kept(pool.fee)
             n == amount * k
  <2>1. PipsDenominator \in Nat \ {0}
    BY ScaleAssumption
  <2>2. k \in Nat /\ k <= PipsDenominator
    BY <1>2, <2>1 DEF Kept
  <2> HIDE DEF k
  <2>3. n \in Nat /\ n <= amount * PipsDenominator
    BY <2>1, <2>2, Products
  <2> HIDE DEF n
  <2>4. n \div PipsDenominator \in Nat /\ n \div PipsDenominator <= amount
    BY <2>1, <2>3, Quotient, SmallerQuotient
  <2>. QED
    BY <2>4 DEF n, k
<1> HIDE DEF afterFee
<1>4. capped \in Nat /\ capped <= amount
  BY <1>2, <1>3
<1> HIDE DEF capped, x, y
<1>5. out \in Nat /\ out <= y /\ (x + amount) * (y - out) >= x * y
  BY <1>2, <1>4, Trade
<1> HIDE DEF out, limit, s
<1> HIDE DEF forward
<1>6. s.out = out /\ s.hit \in BOOLEAN /\ s.pool = after
  BY <1>1
<1>7. after \in PoolBook /\ after.reserve0 * after.reserve1 >= pool.reserve0 * pool.reserve1
  <2>1. CASE forward
    <3>1. x = pool.reserve0 /\ y = pool.reserve1
      BY <2>1 DEF x, y
    <3>2. after = [token0 |-> pool.token0, token1 |-> pool.token1, reserve0 |-> x + amount, reserve1 |-> y - out,
                    fee |-> pool.fee, limit0 |-> pool.limit0, limit1 |-> pool.limit1]
      BY <2>1, <3>1 DEF PoolBook
    <3>3. after \in PoolBook
      BY <1>2, <1>5, <3>2 DEF PoolBook
    <3>. QED
      BY <1>5, <3>1, <3>2, <3>3
  <2>2. CASE ~forward
    <3>1. x = pool.reserve1 /\ y = pool.reserve0
      BY <2>2 DEF x, y
    <3>2. after = [token0 |-> pool.token0, token1 |-> pool.token1, reserve0 |-> y - out, reserve1 |-> x + amount,
                    fee |-> pool.fee, limit0 |-> pool.limit0, limit1 |-> pool.limit1]
      BY <2>2, <3>1 DEF PoolBook
    <3>4. after \in PoolBook
      BY <1>2, <1>5, <3>2 DEF PoolBook
    <3> HIDE DEF after
    <3>3. after.reserve0 * after.reserve1 = (x + amount) * (y - out) /\ pool.reserve0 * pool.reserve1 = x * y
      BY <1>2, <1>5, <3>1, <3>2
    <3>. QED
      BY <1>5, <3>3, <3>4
  <2>. QED
    BY <2>1, <2>2
<1> HIDE DEF after
<1>8. s.out \in Nat /\ s.hit \in BOOLEAN /\ s.pool \in PoolBook
      /\ s.pool.reserve0 * s.pool.reserve1 >= pool.reserve0 * pool.reserve1
  BY <1>5, <1>6, <1>7
<1>. QED
  BY <1>8 DEF s

LEMMA HopOK ==
  ASSUME NEW pools, pools \in [DOMAIN pools -> PoolBook], NEW need, NEW r \in ReplayStates(pools, need),
         NEW step \in PlanStep, step.cell.pool \subseteq need
  PROVE  Hop(r, step) \in ReplayStates(pools, need)
<1> DEFINE cell == step.cell
           amount == WeightedAmount(Held(r.balances, cell.from), step.weight)
           p == CHOOSE q \in cell.pool : TRUE
           swap == Swap(r.book[p], cell.from, amount)
           h == Hop(r, step)
<1>1. /\ r.balances \in Amounts /\ r.next \in Amounts /\ cell.to \in Token /\ step.weight \in Nat
      /\ r.book \in [DOMAIN pools -> PoolBook] /\ r.hit \in BOOLEAN /\ Undrained(pools, r.book)
      /\ r.failed = "" => need \subseteq DOMAIN pools
      /\ r = [book |-> r.book, balances |-> r.balances, next |-> r.next, hit |-> r.hit, failed |-> r.failed]
  BY DEF ReplayStates, PlanStep
<1>2. amount \in Nat
  BY <1>1, HeldOK, WeightedOK
<1> HIDE DEF amount
<1> DEFINE foreign == [r EXCEPT !.failed = "TokenNotInPool"]
           swapped == [r EXCEPT !.book[p] = swap.pool, !.hit = @ \/ swap.hit, !.next = Credited(@, cell.to, swap.out)]
           moved   == [r EXCEPT !.next = Credited(@, cell.to, amount)]
           stays   == r.failed # "" \/ amount = 0
           trades  == r.failed = "" /\ amount > 0 /\ cell.kind = "swap"
           passes  == r.failed = "" /\ amount > 0 /\ cell.kind # "swap"
           alien   == cell.from \notin {r.book[p].token0, r.book[p].token1}
           carries == cell.kind = "bridge" \/ cell.from = cell.to
<1>3. h = CASE stays -> r [] trades -> IF alien THEN foreign ELSE swapped [] passes -> IF carries THEN moved ELSE r
  BY DEF Hop, amount
<1> HIDE DEF h, swap, p
<1>4. ASSUME h = r
      PROVE  h \in ReplayStates(pools, need)
  BY <1>4
<1>5. ASSUME h = foreign
      PROVE  h \in ReplayStates(pools, need)
  BY <1>1, <1>5 DEF ReplayStates
<1>6. ASSUME h = moved
      PROVE  h \in ReplayStates(pools, need)
  <2>1. Credited(r.next, cell.to, amount) \in Amounts
    BY <1>1, <1>2, CreditedOK
  <2>. QED
    BY <1>1, <1>6, <2>1 DEF ReplayStates
<1>7. ASSUME r.failed = "", cell.kind = "swap", h = swapped
      PROVE  h \in ReplayStates(pools, need)
  <2>1. p \in cell.pool /\ p \in DOMAIN pools /\ r.book[p] \in PoolBook
    BY <1>1, <1>7 DEF PlanStep, p
  <2>2. /\ swap.out \in Nat /\ swap.hit \in BOOLEAN /\ swap.pool \in PoolBook
        /\ swap.pool.reserve0 * swap.pool.reserve1 >= r.book[p].reserve0 * r.book[p].reserve1
    BY <1>2, <2>1, SwapOK DEF swap
  <2>3. Credited(r.next, cell.to, swap.out) \in Amounts
    BY <1>1, <2>2, CreditedOK
  <2> DEFINE book == [r.book EXCEPT ![p] = swap.pool]
             hit == r.hit \/ swap.hit
             next == Credited(r.next, cell.to, swap.out)
  <2>4. book \in [DOMAIN pools -> PoolBook] /\ hit \in BOOLEAN
    BY <1>1, <2>1, <2>2
  <2>5. Undrained(pools, book)
    <3> SUFFICES ASSUME NEW q \in DOMAIN pools
                 PROVE  book[q].reserve0 * book[q].reserve1 >= pools[q].reserve0 * pools[q].reserve1
      BY DEF Undrained
    <3>1. r.book[q].reserve0 * r.book[q].reserve1 >= pools[q].reserve0 * pools[q].reserve1
      BY <1>1 DEF Undrained
    <3>2. CASE q # p
      BY <1>1, <3>1, <3>2
    <3>3. CASE q = p
      <4>1. book[q] = swap.pool
        BY <1>1, <3>3
      <4>2. book[q] \in PoolBook /\ r.book[q] \in PoolBook
        BY <2>1, <2>2, <3>3, <4>1
      <4>3. pools[q] \in PoolBook
        OBVIOUS
      <4>4. book[q].reserve0 * book[q].reserve1 >= r.book[q].reserve0 * r.book[q].reserve1
        BY <2>2, <3>3, <4>1
      <4>. QED
        BY <3>1, <4>2, <4>3, <4>4, AtLeastTwice
    <3>. QED
      BY <3>2, <3>3
  <2>6. h = [book |-> book, balances |-> r.balances, next |-> next, hit |-> hit, failed |-> r.failed]
    BY <1>1, <1>7
  <2> HIDE DEF book, hit, next
  <2>. QED
    BY <1>1, <2>3, <2>4, <2>5, <2>6 DEF ReplayStates, next
<1>8. amount = 0 \/ amount > 0
  BY <1>2
<1>9. trades => r.failed = "" /\ cell.kind = "swap"
  OBVIOUS
<1> DEFINE fails == r.failed # ""
           none  == amount = 0
           some  == amount > 0
           swaps == cell.kind = "swap"
<1>10. (stays <=> fails \/ none) /\ (trades <=> ~fails /\ some /\ swaps) /\ (passes <=> ~fails /\ some /\ ~swaps)
       /\ (none \/ some) /\ ~(none /\ some)
  <2>1. (none \/ some) /\ ~(none /\ some)
    BY <1>2
  <2>2. stays <=> fails \/ none
    OBVIOUS
  <2>3. trades <=> ~fails /\ some /\ swaps
    OBVIOUS
  <2>4. passes <=> ~fails /\ some /\ ~swaps
    OBVIOUS
  <2>. QED
    BY <2>1, <2>2, <2>3, <2>4
<1> HIDE DEF fails, none, some, swaps
<1> HIDE DEF foreign, swapped, moved, stays, trades, passes, alien, carries
<1>11. h = r \/ h = foreign \/ h = moved \/ (trades /\ h = swapped)
  BY <1>3, <1>10
<1>12. h \in ReplayStates(pools, need)
  BY <1>4, <1>5, <1>6, <1>7, <1>9, <1>11
<1>. QED
  BY <1>12 DEF h

\* A stage folds its hops over the steps: f says what those at any positions come to.
EndStage(r) == [r EXCEPT !.balances = r.next, !.next = <<>>]

FoldsStage(f, W, pools, r, steps, n) ==
  /\ f \in [SUBSET W -> ReplayStates(pools, SwappedPools(steps))]
  /\ f[{}] = r
  /\ \A S \in SUBSET W : S # {} =>
       \E i \in S : f[S] = IF steps[i].cell.stage = n THEN Hop(f[S \ {i}], steps[i]) ELSE f[S \ {i}]
  /\ Stage(r, steps, n) = EndStage(f[W])

LEMMA StageFold ==
  ASSUME NEW pools, pools \in [DOMAIN pools -> PoolBook], NEW steps \in Seq(PlanStep), NEW n,
         NEW r \in ReplayStates(pools, SwappedPools(steps))
  PROVE  \E f : FoldsStage(f, DOMAIN steps, pools, r, steps, n)
<1> DEFINE need == SwappedPools(steps)
           X == ReplayStates(pools, need)
           window == DOMAIN steps
           newest(S) == CHOOSE i \in S : \A j \in S : i >= j
           after(acc, i) == IF steps[i].cell.stage = n THEN Hop(acc, steps[i]) ELSE acc
           step(f) == [S \in SUBSET window |->
                         IF S = {} THEN r ELSE after(f[S \ {newest(S)}], newest(S))]
           from == CHOOSE f : f = step(f)
           done == from[window]
<1>1. IsFiniteSet(window) /\ window \in SUBSET Nat /\ \A i \in window : steps[i] \in PlanStep
  <2>1. Len(steps) \in Nat /\ window = 1 .. Len(steps) /\ \A i \in window : steps[i] \in PlanStep
    OBVIOUS
  <2>. QED
    BY <2>1, FS_Interval
<1>2. ASSUME NEW S \in SUBSET window, S # {}
      PROVE  newest(S) \in S
  <2> DEFINE rank == [i \in S |-> i]
  <2>1. rank \in [S -> Int] /\ IsFiniteSet(S)
    BY <1>1, FS_Subset
  <2>2. \E s \in S : \A t \in S : rank[t] <= rank[s]
    <3> HIDE DEF rank
    <3>. QED
      BY <1>2, <2>1, HighestMember
  <2>3. \E s \in S : \A t \in S : s >= t
    BY <1>1, <2>2
  <2>. QED
    BY <2>3
<1>3. Stage(r, steps, n) = EndStage(done)
  BY DEF EndStage, Stage, FoldLeft, MapThenFoldSet, Max
<1>4. ASSUME NEW i \in window, NEW x \in X
      PROVE  after(x, i) \in X
  <2>1. steps[i] \in PlanStep /\ steps[i].cell.pool \subseteq need
    BY <1>1 DEF SwappedPools
  <2>. QED
    BY <1>4, <2>1, HopOK
<1> HIDE DEF newest, after
<1>5. from = step(from)
  <2> DEFINE pick == [S \in SUBSET window |-> newest(S)]
             next == [p \in window \X X |-> after(p[2], p[1])]
  <2>1. \A S \in SUBSET window : S # {} => pick[S] \in S
    BY <1>2
  <2>2. \A i \in window, x \in X : next[<<i, x>>] = after(x, i) /\ next[<<i, x>>] \in X
    BY <1>4
  <2> HIDE DEF next, X, window
  <2>3. \A i \in window, x \in X : next[<<i, x>>] \in X
    BY <2>2
  <2>4. PICK f : IsFold(f, window, r, pick, next) /\ \A S \in SUBSET window : f[S] \in X
    <3> HIDE DEF pick
    <3>1. r \in X
      BY DEF X
    <3>2. FoldsWithin(X, window, r, pick, next)
      BY <1>1, <2>1, <2>3, <3>1 DEF FoldsWithin
    <3>. QED
      BY <3>2, FoldWithin
  <2>5. f = step(f)
    BY <1>2, <2>2, <2>4 DEF IsFold
  <2> HIDE DEF step
  <2>. QED
    BY <2>5
<1> HIDE DEF from, X, window
<1>6. \A S \in SUBSET window : from[S] = IF S = {} THEN r ELSE after(from[S \ {newest(S)}], newest(S))
  BY <1>5
<1>7. \A S \in SUBSET window : from[S] \in X
  <2> DEFINE T == {S \in SUBSET window : from[S] \notin X}
  <2> SUFFICES ASSUME T # {} PROVE FALSE
    OBVIOUS
  <2>2. PICK S \in T : \A U \in T : U \subseteq S => U = S
    <3>1. T \subseteq SUBSET window
      OBVIOUS
    <3> HIDE DEF T
    <3>. QED
      BY <1>1, <3>1, SmallestSubset
  <2>3. r \in X
    BY DEF X
  <2>4. S # {} /\ newest(S) \in window
    BY <1>2, <1>6, <2>2, <2>3
  <2>5. from[S \ {newest(S)}] \in X
    BY <1>2, <2>2, <2>4
  <2>. QED
    BY <1>4, <1>6, <2>2, <2>4, <2>5
<1>8. from \in [SUBSET window -> X]
  BY <1>5, <1>7
<1>9. from[{}] = r
  BY <1>6
<1>10. ASSUME NEW S \in SUBSET window, S # {}
       PROVE  newest(S) \in S /\ from[S] = after(from[S \ {newest(S)}], newest(S))
  BY <1>2, <1>6, <1>10
<1>11. FoldsStage(from, window, pools, r, steps, n)
  BY <1>3, <1>8, <1>9, <1>10 DEF FoldsStage, after, X, need
<1>. QED
  BY <1>11 DEF window

\* It draws down no pool either.
LEMMA StageOK ==
  ASSUME NEW pools, pools \in [DOMAIN pools -> PoolBook], NEW steps \in Seq(PlanStep), NEW n,
         NEW r \in ReplayStates(pools, SwappedPools(steps))
  PROVE  Stage(r, steps, n) \in ReplayStates(pools, SwappedPools(steps))
<1> DEFINE W == DOMAIN steps
<1>1. PICK f : FoldsStage(f, W, pools, r, steps, n)
  BY StageFold
<1> HIDE DEF W
<1> DEFINE X == ReplayStates(pools, SwappedPools(steps))
           done == f[W]
<1>2. done \in X
  BY <1>1 DEF FoldsStage
<1> HIDE DEF done
<1>3. <<>> \in Amounts
  <2>1. <<>> \in [{} -> Nat]
    OBVIOUS
  <2>. QED
    BY <2>1 DEF Amounts
<1>4. EndStage(done) \in X
  BY <1>2, <1>3 DEF X, ReplayStates, EndStage
<1>. QED
  BY <1>1, <1>4 DEF FoldsStage, done

\* The stages one after the other, the first after -1.
IsStages(f, start, steps, N) ==
  f = [n \in -1 .. N |-> IF n = -1 THEN start ELSE Stage(f[n - 1], steps, n)]

LEMMA StagesExist ==
  ASSUME NEW start, NEW steps, NEW N \in Nat
  PROVE  \E f : IsStages(f, start, steps, N - 1)
<1> USE DEF IsStages
<1> DEFINE Good(m) == \E f : f = [n \in -1 .. m - 1 |-> IF n = -1 THEN start ELSE Stage(f[n - 1], steps, n)]
           Bad == {m \in Nat : ~Good(m)}
<1> SUFFICES ASSUME Bad # {} PROVE FALSE
  OBVIOUS
<1>1. PICK m \in Bad : \A i \in Bad : m <= i
  <2>1. Bad \in SUBSET Nat
    OBVIOUS
  <2> HIDE DEF Bad
  <2>. QED
    BY <2>1, LeastNumber
<1>2. CASE m = 0
  <2> DEFINE f == [n \in -1 .. 0 - 1 |-> start]
  <2>1. f = [n \in -1 .. 0 - 1 |-> IF n = -1 THEN start ELSE Stage(f[n - 1], steps, n)]
    OBVIOUS
  <2> HIDE DEF f
  <2>2. Good(0)
    BY <2>1
  <2>. QED
    BY <1>1, <1>2, <2>2
<1>3. CASE m # 0
  <2>1. m - 1 \in Nat /\ ~(m <= m - 1)
    BY <1>3
  <2> DEFINE l == m - 1
  <2>2. Good(l)
    BY <1>1, <2>1
  <2>3. PICK f : f = [n \in -1 .. l - 1 |-> IF n = -1 THEN start ELSE Stage(f[n - 1], steps, n)]
    BY <2>2
  <2> DEFINE g == [n \in -1 .. l |-> IF n = l THEN Stage(f[l - 1], steps, l) ELSE f[n]]
  <2>4. \A n \in -1 .. l - 1 : f[n] = IF n = -1 THEN start ELSE Stage(f[n - 1], steps, n)
    BY <2>3
  <2>5. \A n \in -1 .. l : g[n] = IF n = -1 THEN start ELSE Stage(g[n - 1], steps, n)
    <3> SUFFICES ASSUME NEW n \in -1 .. l
                 PROVE  g[n] = IF n = -1 THEN start ELSE Stage(g[n - 1], steps, n)
      OBVIOUS
    <3>1. n # -1 => n - 1 \in -1 .. l /\ n - 1 # l
      BY <2>1
    <3>2. n # l => n \in -1 .. l - 1
      BY <2>1
    <3>3. n # -1 => g[n - 1] = f[n - 1]
      BY <3>1
    <3>4. g[n] = (IF n = l THEN Stage(f[l - 1], steps, l) ELSE f[n]) /\ l # -1
      BY <2>1
    <3> HIDE DEF g, l
    <3>. QED
      BY <2>4, <3>2, <3>3, <3>4
  <2>6. g = [n \in -1 .. m - 1 |-> g[n]]
    OBVIOUS
  <2> HIDE DEF g
  <2>7. Good(m)
    BY <2>5, <2>6
  <2>. QED
    BY <1>1, <2>7
<1>. QED
  BY <1>2, <1>3

\* What a replay starts from, its last stage, and the states its stages come to.
FirstState(steps, pools, source, entry) ==
  [book |-> pools, balances |-> [t \in {source} |-> entry], next |-> <<>>, hit |-> FALSE,
   failed |-> IF SwappedPools(steps) \subseteq DOMAIN pools THEN "" ELSE "PoolNotFound"]
LastStage(steps) ==
  LET stages == {steps[i].cell.stage : i \in DOMAIN steps}
  IN IF stages = {} THEN -1 ELSE CHOOSE n \in stages : \A m \in stages : m <= n
RunsStages(f, steps, pools, source, entry) ==
  /\ LastStage(steps) \in Int /\ LastStage(steps) >= -1
  /\ \A n \in -1 .. LastStage(steps) :
       /\ f[n] = IF n = -1 THEN FirstState(steps, pools, source, entry) ELSE Stage(f[n - 1], steps, n)
       /\ f[n] \in ReplayStates(pools, SwappedPools(steps))
  /\ Replay(steps, pools, source, entry) = f[LastStage(steps)]

LEMMA ReplayStaged ==
  ASSUME NEW pools, pools \in [DOMAIN pools -> PoolBook], NEW steps \in Seq(PlanStep),
         NEW source \in Token, NEW entry \in Nat
  PROVE  \E f : RunsStages(f, steps, pools, source, entry)
<1> DEFINE need == SwappedPools(steps)
           X == ReplayStates(pools, need)
           start == FirstState(steps, pools, source, entry)
           stages == {steps[i].cell.stage : i \in DOMAIN steps}
           final == CHOOSE n \in stages : \A m \in stages : m <= n
           N == IF stages = {} THEN -1 ELSE final
           step(f) == [n \in -1 .. N |-> IF n = -1 THEN start ELSE Stage(f[n - 1], steps, n)]
           after == CHOOSE f : f = step(f)
<1>1. Replay(steps, pools, source, entry) = after[N] /\ N = LastStage(steps)
  BY DEF Replay, FirstState, LastStage
<1>2. start \in X
  <2>1. [t \in {source} |-> entry] \in Amounts /\ <<>> \in Amounts
    <3>1. [t \in {source} |-> entry] \in [{source} -> Nat] /\ <<>> \in [{} -> Nat]
      OBVIOUS
    <3>. QED
      BY <3>1 DEF Amounts
  <2>2. \A p \in DOMAIN pools : pools[p].reserve0 \in Nat /\ pools[p].reserve1 \in Nat
    BY DEF PoolBook
  <2>3. Undrained(pools, pools)
    <3>1. \A p \in DOMAIN pools : pools[p].reserve0 * pools[p].reserve1 \in Int
      BY <2>2
    <3>. QED
      BY <3>1 DEF Undrained
  <2> HIDE DEF need
  <2>. QED
    BY <2>1, <2>3 DEF ReplayStates, FirstState, need
<1>3. N \in Int /\ N >= -1 /\ N + 1 \in Nat /\ (N + 1) - 1 = N
  <2> DEFINE D == DOMAIN steps
  <2>1. IsFiniteSet(D) /\ \A i \in D : steps[i].cell.stage \in Nat
    <3>1. Len(steps) \in Nat /\ D = 1 .. Len(steps) /\ \A i \in D : steps[i] \in PlanStep
      OBVIOUS
    <3> HIDE DEF D
    <3>2. IsFiniteSet(D)
      BY <3>1, FS_Interval
    <3>3. \A s \in PlanStep : s.cell.stage \in Nat
      BY DEF PlanStep
    <3>. QED
      BY <3>1, <3>2, <3>3
  <2> HIDE DEF D
  <2>2. ASSUME stages # {}
        PROVE  final \in Nat
    <3> DEFINE rank == [i \in D |-> steps[i].cell.stage]
    <3>1. rank \in [D -> Int] /\ D # {}
      BY <2>1, <2>2 DEF D
    <3>2. PICK i \in D : \A j \in D : rank[j] <= rank[i]
      <4> HIDE DEF rank
      <4>. QED
        BY <2>1, <3>1, HighestMember
    <3>3. \E n \in stages : \A m \in stages : m <= n
      BY <3>2 DEF D
    <3>4. final \in stages
      BY <3>3
    <3>. QED
      BY <2>1, <3>4 DEF D
  <2> HIDE DEF final, stages
  <2>3. N = -1 \/ N \in Nat
    BY <2>2
  <2> HIDE DEF N
  <2>. QED
    BY <2>3
<1> HIDE DEF N, start, X
<1>4. after = step(after)
  <2>1. PICK f : IsStages(f, start, steps, (N + 1) - 1)
    BY <1>3, StagesExist
  <2>2. f = step(f)
    BY <1>3, <2>1 DEF IsStages
  <2> HIDE DEF step
  <2>. QED
    BY <2>2
<1> HIDE DEF after
<1>5. \A n \in -1 .. N : after[n] = IF n = -1 THEN start ELSE Stage(after[n - 1], steps, n)
  BY <1>4
<1> HIDE DEF step
<1> DEFINE Bad == {m \in Nat : m \in 0 .. N + 1 /\ after[m - 1] \notin X}
<1>6. Bad = {}
  <2> SUFFICES ASSUME Bad # {} PROVE FALSE
    OBVIOUS
  <2>1. PICK m \in Bad : \A i \in Bad : m <= i
    <3>1. Bad \in SUBSET Nat
      OBVIOUS
    <3> HIDE DEF Bad
    <3>. QED
      BY <3>1, LeastNumber
  <2>2. m # 0
    <3>1. -1 \in -1 .. N /\ after[-1] = start
      BY <1>3, <1>5
    <3>. QED
      BY <1>2, <2>1, <3>1 DEF X
  <2>3. m - 1 \in Nat /\ m - 1 \in -1 .. N /\ m - 1 # -1 /\ m - 1 \in 0 .. N + 1 /\ ~(m <= m - 1)
    BY <1>3, <2>1, <2>2
  <2>4. after[(m - 1) - 1] \in X
    BY <2>1, <2>3
  <2>5. after[m - 1] = Stage(after[(m - 1) - 1], steps, m - 1)
    BY <1>5, <2>3
  <2>6. after[m - 1] \in X
    BY <2>4, <2>5, StageOK DEF X
  <2>. QED
    BY <2>1, <2>6
<1>7. \A n \in -1 .. N : after[n] \in X
  <2> SUFFICES ASSUME NEW n \in -1 .. N PROVE after[n] \in X
    OBVIOUS
  <2>1. n + 1 \in Nat /\ n + 1 \in 0 .. N + 1 /\ (n + 1) - 1 = n
    BY <1>3
  <2>. QED
    BY <1>6, <2>1
<1>8. RunsStages(after, steps, pools, source, entry)
  BY <1>1, <1>3, <1>5, <1>7 DEF RunsStages, start, X, need
<1>. QED
  BY <1>8

\* A replay of any plan keeps the product of the reserves of every pool at the least.
LEMMA ReplayKeepsPools ==
  ASSUME NEW pools, pools \in [DOMAIN pools -> PoolBook], NEW steps \in Seq(PlanStep),
         NEW source \in Token, NEW entry \in Nat
  PROVE  Replay(steps, pools, source, entry) \in ReplayStates(pools, SwappedPools(steps))
<1>1. PICK f : RunsStages(f, steps, pools, source, entry)
  BY ReplayStaged
<1>2. LastStage(steps) \in -1 .. LastStage(steps)
  BY <1>1 DEF RunsStages
<1>. QED
  BY <1>1, <1>2 DEF RunsStages

\* A sum of natural numbers is one.
LEMMA SumNatural ==
  ASSUME NEW D, IsFiniteSet(D), NEW f \in [D -> Nat]
  PROVE  SumFunction(f) \in Nat
<1> DEFINE any(S) == CHOOSE x \in S : TRUE
           step(g) == [S \in SUBSET D |-> IF S = {} THEN 0 ELSE f[any(S)] + g[S \ {any(S)}]]
           iter == CHOOSE g : g = step(g)
<1>1. SumFunction(f) = iter[D]
  BY DEF SumFunction, SumFunctionOnSet, FoldFunctionOnSet, MapThenFoldSet
<1>2. \A S \in SUBSET D : S # {} => any(S) \in S
  OBVIOUS
<1> HIDE DEF any
<1>3. iter = step(iter)
  <2> DEFINE pick == [S \in SUBSET D |-> any(S)]
             next == [p \in D \X Nat |-> f[p[1]] + p[2]]
  <2>1. \A S \in SUBSET D : S # {} => pick[S] \in S
    BY <1>2
  <2>2. \A x \in D, n \in Nat : next[<<x, n>>] = f[x] + n /\ next[<<x, n>>] \in Nat
    OBVIOUS
  <2> HIDE DEF next
  <2>3. PICK g : IsFold(g, D, 0, pick, next) /\ \A S \in SUBSET D : g[S] \in Nat
    <3> HIDE DEF pick
    <3>1. FoldsWithin(Nat, D, 0, pick, next)
      BY <2>1, <2>2 DEF FoldsWithin
    <3>. QED
      BY <3>1, FoldWithin
  <2>4. g = step(g)
    <3>1. g = [S \in SUBSET D |-> IF S = {} THEN 0 ELSE next[<<pick[S], g[S \ {pick[S]}]>>]]
      BY <2>3 DEF IsFold
    <3>2. ASSUME NEW S \in SUBSET D, S # {}
          PROVE  next[<<pick[S], g[S \ {pick[S]}]>>] = f[any(S)] + g[S \ {any(S)}]
      <4>1. pick[S] = any(S) /\ any(S) \in D /\ g[S \ {any(S)}] \in Nat
        BY <1>2, <2>3, <3>2
      <4> HIDE DEF pick
      <4>. QED
        BY <2>2, <4>1
    <3> HIDE DEF pick
    <3>. QED
      BY <3>1, <3>2
  <2> HIDE DEF step
  <2>. QED
    BY <2>4
<1> HIDE DEF iter
<1>4. \A S \in SUBSET D : iter[S] = IF S = {} THEN 0 ELSE f[any(S)] + iter[S \ {any(S)}]
  BY <1>3
<1> HIDE DEF step
<1> DEFINE Bad == {S \in SUBSET D : iter[S] \notin Nat}
<1>5. SUFFICES ASSUME Bad # {} PROVE FALSE
  BY <1>1
<1>6. PICK S \in Bad : \A T \in Bad : T \subseteq S => T = S
  <2>1. Bad \subseteq SUBSET D
    OBVIOUS
  <2> HIDE DEF Bad
  <2>. QED
    BY <1>5, <2>1, SmallestSubset
<1>7. S # {} /\ any(S) \in S /\ any(S) \in D
  <2>1. iter[S] \notin Nat /\ S \in SUBSET D
    BY <1>6
  <2>2. S # {}
    BY <1>4, <2>1
  <2>. QED
    BY <1>2, <2>1, <2>2
<1>8. iter[S \ {any(S)}] \in Nat
  BY <1>6, <1>7
<1>. QED
  BY <1>4, <1>6, <1>7, <1>8

LEMMA FiniteRange ==
  ASSUME NEW D, IsFiniteSet(D), NEW f, DOMAIN f = D, f = [x \in D |-> f[x]]
  PROVE  IsFiniteSet({f[x] : x \in D})
<1> DEFINE T == {f[x] : x \in D}
<1>1. f \in [D -> T] /\ \A t \in T : \E x \in D : f[x] = t
  OBVIOUS
<1> HIDE DEF T
<1>2. f \in Surjection(D, T)
  BY <1>1 DEF Surjection
<1>3. IsFiniteSet(T)
  BY <1>2, FS_Surjection
<1>. QED
  BY <1>3 DEF T

\* What a fold of steps that commute makes of each set of them, whichever is last.
Gathers(g, D, start, op) ==
  g[{}] = start /\ \A S \in SUBSET D : \A a \in S : g[S] = op[<<g[S \ {a}], a>>]

LEMMA OrderlessFold ==
  ASSUME NEW D, IsFiniteSet(D), NEW X, NEW start \in X, NEW op \in [X \X D -> X],
         \A x \in X : \A a, b \in D : op[<<op[<<x, a>>], b>>] = op[<<op[<<x, b>>], a>>]
  PROVE  \E g \in [SUBSET D -> X] : Gathers(g, D, start, op)
<1> DEFINE Good(S) == \E g \in [SUBSET S -> X] : Gathers(g, S, start, op)
           Bad == {S \in SUBSET D : ~Good(S)}
<1> SUFFICES ASSUME Bad # {} PROVE FALSE
  OBVIOUS
<1>1. PICK S \in Bad : \A T \in Bad : T \subseteq S => T = S
  <2>1. Bad \subseteq SUBSET D
    OBVIOUS
  <2> HIDE DEF Bad
  <2>. QED
    BY <2>1, SmallestSubset
<1>2. S # {}
  <2> DEFINE g == [T \in SUBSET {} |-> start]
  <2>1. \A T \in SUBSET {} : T = {}
    OBVIOUS
  <2>2. g \in [SUBSET {} -> X] /\ g[{}] = start
    OBVIOUS
  <2> HIDE DEF g
  <2>3. Gathers(g, {}, start, op)
    BY <2>1, <2>2 DEF Gathers
  <2>4. Good({})
    BY <2>2, <2>3
  <2> HIDE DEF Good
  <2>. QED
    BY <1>1, <2>4
<1>3. PICK a \in S : TRUE
  BY <1>2
<1> DEFINE R == S \ {a}
<1>4. a \in D /\ R \subseteq D /\ S \subseteq D /\ Good(R)
  <2> HIDE DEF Good
  <2>1. R \in SUBSET D /\ R \subseteq S /\ R # S
    BY <1>1, <1>3
  <2>. QED
    BY <1>1, <1>3, <2>1
<1>5. PICK g \in [SUBSET R -> X] : Gathers(g, R, start, op)
  BY <1>4
<1> DEFINE h == [T \in SUBSET S |-> IF a \in T THEN op[<<g[T \ {a}], a>>] ELSE g[T]]
<1>6. \A T \in SUBSET S : T \ {a} \in SUBSET R
  OBVIOUS
<1>7. h \in [SUBSET S -> X]
  <2> SUFFICES ASSUME NEW T \in SUBSET S PROVE (IF a \in T THEN op[<<g[T \ {a}], a>>] ELSE g[T]) \in X
    OBVIOUS
  <2>1. g[T \ {a}] \in X
    BY <1>5, <1>6
  <2>2. a \notin T => T \ {a} = T
    OBVIOUS
  <2> HIDE DEF R
  <2>. QED
    BY <1>4, <2>1, <2>2
<1>8. \A T \in SUBSET S : h[T] = IF a \in T THEN op[<<g[T \ {a}], a>>] ELSE g[T]
  OBVIOUS
<1> HIDE DEF h
<1>9. Gathers(h, S, start, op)
  <2>1. h[{}] = start
    BY <1>5, <1>8 DEF Gathers
  <2>2. ASSUME NEW T \in SUBSET S, NEW b \in T
        PROVE  h[T] = op[<<h[T \ {b}], b>>]
    <3>1. CASE a \notin T
      <4>1. T \in SUBSET R /\ T \ {b} \in SUBSET S
        BY <3>1
      <4>2. g[T] = op[<<g[T \ {b}], b>>]
        BY <1>5, <4>1 DEF Gathers
      <4>3. h[T] = g[T] /\ h[T \ {b}] = g[T \ {b}]
        BY <1>8, <3>1, <4>1
      <4>. QED
        BY <4>2, <4>3
    <3>2. CASE b = a
      <4>1. h[T \ {b}] = g[T \ {a}]
        BY <1>8, <3>2
      <4>. QED
        BY <1>8, <3>2, <4>1
    <3>3. CASE a \in T /\ b # a
      <4> DEFINE U == (T \ {a}) \ {b}
      <4>1. T \ {a} \in SUBSET R /\ b \in T \ {a} /\ b \in D /\ U \in SUBSET R
        BY <1>4, <3>3
      <4>2. (T \ {b}) \ {a} = U /\ T \ {b} \in SUBSET S /\ a \in T \ {b}
        BY <3>3
      <4>3. g[T \ {a}] = op[<<g[U], b>>] /\ g[U] \in X
        BY <1>5, <4>1 DEF Gathers
      <4>4. h[T \ {b}] = op[<<g[U], a>>]
        BY <1>8, <4>2
      <4>5. h[T] = op[<<op[<<g[U], b>>], a>>]
        BY <1>8, <3>3, <4>3
      <4> HIDE DEF U
      <4>. QED
        BY <1>4, <4>1, <4>3, <4>4, <4>5
    <3>. QED
      BY <3>1, <3>2, <3>3
  <2>. QED
    BY <2>1, <2>2 DEF Gathers
<1>. QED
  BY <1>1, <1>7, <1>9

\* What a token holds once an amount is credited; amounts credited to two commute.
LEMMA HeldCredited ==
  ASSUME NEW balances \in Amounts, NEW token, NEW amount \in Nat, NEW t
  PROVE  Held(Credited(balances, token, amount), t) = Held(balances, t) + IF t = token THEN amount ELSE 0
<1>1. Held(balances, t) \in Nat
  BY HeldOK
<1>2. CASE t \in DOMAIN balances \cup {token}
  BY <1>2 DEF Credited, Held
<1>3. CASE t \notin DOMAIN balances \cup {token}
  BY <1>3 DEF Credited, Held
<1>. QED
  BY <1>2, <1>3

LEMMA CreditsCommute ==
  ASSUME NEW balances \in Amounts, NEW t \in Token, NEW u \in Token, NEW a \in Nat, NEW b \in Nat
  PROVE  Credited(Credited(balances, t, a), u, b) = Credited(Credited(balances, u, b), t, a)
<1> DEFINE l == Credited(Credited(balances, t, a), u, b)
           r == Credited(Credited(balances, u, b), t, a)
           S == DOMAIN balances \cup {t, u}
<1>1. Credited(balances, t, a) \in Amounts /\ Credited(balances, u, b) \in Amounts
  BY CreditedOK
<1>2. /\ DOMAIN Credited(balances, t, a) = DOMAIN balances \cup {t}
      /\ DOMAIN Credited(balances, u, b) = DOMAIN balances \cup {u}
  BY DEF Credited
<1>3. l = [s \in S |-> Held(Credited(balances, t, a), s) + IF s = u THEN b ELSE 0]
  <2>1. DOMAIN Credited(balances, t, a) \cup {u} = S
    BY <1>2
  <2>. QED
    BY <2>1 DEF Credited
<1>4. r = [s \in S |-> Held(Credited(balances, u, b), s) + IF s = t THEN a ELSE 0]
  <2>1. DOMAIN Credited(balances, u, b) \cup {t} = S
    BY <1>2
  <2>. QED
    BY <2>1 DEF Credited
<1>5. \A s \in S : Held(Credited(balances, t, a), s) + (IF s = u THEN b ELSE 0)
                   = Held(Credited(balances, u, b), s) + IF s = t THEN a ELSE 0
  <2> SUFFICES ASSUME NEW s \in S
               PROVE  Held(Credited(balances, t, a), s) + (IF s = u THEN b ELSE 0)
                      = Held(Credited(balances, u, b), s) + IF s = t THEN a ELSE 0
    OBVIOUS
  <2>1. Held(balances, s) \in Nat
    BY HeldOK
  <2>2. /\ Held(Credited(balances, t, a), s) = Held(balances, s) + IF s = t THEN a ELSE 0
        /\ Held(Credited(balances, u, b), s) = Held(balances, s) + IF s = u THEN b ELSE 0
    BY HeldCredited
  <2>. QED
    BY <2>1, <2>2
<1> HIDE DEF l, r, S
<1>6. l = r
  BY <1>3, <1>4, <1>5
<1>. QED
  BY <1>6 DEF l, r

\* A hop in parts: what it spends, what it trades that for, and what it changes.
Via(step) == CHOOSE p \in step.cell.pool : TRUE
Spent(r, step) == WeightedAmount(Held(r.balances, step.cell.from), step.weight)
Traded(r, step) == Swap(r.book[Via(step)], step.cell.from, Spent(r, step))
Trades(r, step) == Spent(r, step) > 0 /\ step.cell.kind = "swap"
Passes(r, step) ==
  Spent(r, step) > 0 /\ step.cell.kind # "swap" /\ (step.cell.kind = "bridge" \/ step.cell.from = step.cell.to)
Alien(r, step) ==
  Trades(r, step) /\ step.cell.from \notin {r.book[Via(step)].token0, r.book[Via(step)].token1}
Gained(r, step) == IF Trades(r, step) THEN Traded(r, step).out ELSE Spent(r, step)

BookAfter(r, step) == IF Trades(r, step) THEN [r.book EXCEPT ![Via(step)] = Traded(r, step).pool] ELSE r.book
NextAfter(r, step) ==
  IF Trades(r, step) \/ Passes(r, step) THEN Credited(r.next, step.cell.to, Gained(r, step)) ELSE r.next
HitAfter(r, step) == r.hit \/ (Trades(r, step) /\ Traded(r, step).hit)

Hopped(r, step) ==
  [book |-> BookAfter(r, step), balances |-> r.balances, next |-> NextAfter(r, step),
   hit |-> HitAfter(r, step), failed |-> r.failed]

\* The states of a replay that has not failed.
Going(pools, need) == {r \in ReplayStates(pools, need) : r.failed = ""}

\* A hop of a replay that has not failed, by its parts.
LEMMA HopMakes ==
  ASSUME NEW pools, pools \in [DOMAIN pools -> PoolBook], NEW need, NEW r \in Going(pools, need),
         NEW step \in PlanStep, step.cell.pool \subseteq need
  PROVE  /\ Spent(r, step) \in Nat
         /\ Trades(r, step) => Via(step) \in step.cell.pool /\ Via(step) \in DOMAIN pools
         /\ Trades(r, step) \/ Passes(r, step) => Gained(r, step) \in Nat
         /\ Hop(r, step) = IF Alien(r, step) THEN [r EXCEPT !.failed = "TokenNotInPool"] ELSE Hopped(r, step)
<1> DEFINE cell == step.cell
           amount == Spent(r, step)
           p == Via(step)
           swap == Traded(r, step)
<1>1. /\ r.balances \in Amounts /\ r.next \in Amounts /\ cell.to \in Token /\ step.weight \in Nat
      /\ r.book \in [DOMAIN pools -> PoolBook] /\ r.hit \in BOOLEAN /\ need \subseteq DOMAIN pools
      /\ r = [book |-> r.book, balances |-> r.balances, next |-> r.next, hit |-> r.hit, failed |-> r.failed]
  BY DEF Going, ReplayStates, PlanStep
<1>2. amount \in Nat
  BY <1>1, HeldOK, WeightedOK DEF Spent
<1> HIDE DEF amount
<1>3. cell.kind = "swap" => p \in cell.pool /\ p \in DOMAIN pools
  BY <1>1 DEF PlanStep, Via
<1> DEFINE foreign == [r EXCEPT !.failed = "TokenNotInPool"]
           swapped == [r EXCEPT !.book[p] = swap.pool, !.hit = @ \/ swap.hit, !.next = Credited(@, cell.to, swap.out)]
           moved   == [r EXCEPT !.next = Credited(@, cell.to, amount)]
           alien   == cell.from \notin {r.book[p].token0, r.book[p].token1}
           carries == cell.kind = "bridge" \/ cell.from = cell.to
           stays   == r.failed # "" \/ amount = 0
           trades  == r.failed = "" /\ amount > 0 /\ cell.kind = "swap"
           passes  == r.failed = "" /\ amount > 0 /\ cell.kind # "swap"
           none    == amount = 0
           swaps   == cell.kind = "swap"
<1>4. Hop(r, step) = CASE stays  -> r
                       [] trades -> IF alien THEN foreign ELSE swapped
                       [] passes -> IF carries THEN moved ELSE r
  BY DEF Hop, Spent, Via, Traded, amount
<1>5. ASSUME Trades(r, step) 
      PROVE  swap.out \in Nat /\ swap.hit \in BOOLEAN /\ swap.pool \in PoolBook
  <2>1. r.book[p] \in PoolBook
    BY <1>1, <1>3, <1>5 DEF Trades
  <2>. QED
    BY <1>2, <2>1, SwapOK DEF Traded, amount
<1>6. Trades(r, step) \/ Passes(r, step) => Gained(r, step) \in Nat
  BY <1>2, <1>5 DEF Gained, amount
<1>7. /\ Trades(r, step) <=> ~none /\ swaps
      /\ Passes(r, step) <=> ~none /\ ~swaps /\ carries
      /\ Alien(r, step) <=> Trades(r, step) /\ alien
  <2>1. (none => ~(amount > 0)) /\ (~none => amount > 0)
    BY <1>2
  <2>2. /\ Trades(r, step) <=> amount > 0 /\ swaps
        /\ Passes(r, step) <=> amount > 0 /\ ~swaps /\ carries
        /\ Alien(r, step) <=> Trades(r, step) /\ alien
    BY DEF Trades, Passes, Alien, amount
  <2> HIDE DEF none, swaps, carries, alien
  <2>. QED
    BY <2>1, <2>2
<1>9. r.failed = ""
  BY DEF Going
<1>10. (stays <=> none) /\ (trades <=> ~none /\ swaps) /\ (passes <=> ~none /\ ~swaps)
  <2>1. (none => ~(amount > 0)) /\ (~none => amount > 0)
    BY <1>2
  <2>2. stays <=> none
    BY <1>9
  <2>3. (trades <=> amount > 0 /\ swaps) /\ (passes <=> amount > 0 /\ ~swaps)
    BY <1>9
  <2> HIDE DEF stays, trades, passes, none, swaps
  <2>. QED
    BY <2>1, <2>2, <2>3
<1> HIDE DEF stays, trades, passes, none, swaps, alien, carries
<1> HIDE DEF swap, p
<1>8. /\ BookAfter(r, step) = IF Trades(r, step) THEN [r.book EXCEPT ![p] = swap.pool] ELSE r.book
      /\ NextAfter(r, step) = IF Trades(r, step) THEN Credited(r.next, cell.to, swap.out)
                              ELSE IF Passes(r, step) THEN Credited(r.next, cell.to, amount) ELSE r.next
      /\ HitAfter(r, step) = (r.hit \/ (Trades(r, step) /\ swap.hit))
  BY DEF BookAfter, NextAfter, HitAfter, Gained, amount, swap, p
<1>11. Hop(r, step) = IF Alien(r, step) THEN foreign ELSE Hopped(r, step)
  <2>1. CASE none
    <3>1. Hop(r, step) = r
      BY <1>4, <1>10, <2>1
    <3>2. ~Trades(r, step) /\ ~Passes(r, step) /\ ~Alien(r, step)
      BY <1>7, <2>1
    <3>. QED
      BY <1>1, <1>8, <3>1, <3>2 DEF Hopped
  <2>2. CASE ~none /\ swaps
    <3>1. Hop(r, step) = IF alien THEN foreign ELSE swapped
      BY <1>4, <1>10, <2>2
    <3>2. Trades(r, step) /\ (Alien(r, step) <=> alien)
      BY <1>7, <2>2
    <3>3. BookAfter(r, step) = [r.book EXCEPT ![p] = swap.pool] /\ NextAfter(r, step) = Credited(r.next, cell.to, swap.out)
          /\ HitAfter(r, step) = (r.hit \/ swap.hit)
      BY <1>8, <3>2
    <3> DEFINE hit == r.hit \/ swap.hit
               next == Credited(r.next, cell.to, swap.out)
               book == [r.book EXCEPT ![p] = swap.pool]
    <3>4. hit = HitAfter(r, step) /\ next = NextAfter(r, step) /\ book = BookAfter(r, step)
      BY <3>3
    <3>5. ASSUME NEW h, h = swapped
          PROVE  h = [book |-> book, balances |-> r.balances, next |-> next, hit |-> hit, failed |-> r.failed]
      BY <1>1, <3>5
    <3> HIDE DEF foreign, swapped, hit, next, book
    <3>. QED
      BY <3>1, <3>2, <3>4, <3>5 DEF Hopped
  <2>3. CASE ~none /\ ~swaps
    <3>1. Hop(r, step) = IF carries THEN moved ELSE r
      BY <1>4, <1>10, <2>3
    <3>2. ~Trades(r, step) /\ ~Alien(r, step) /\ (Passes(r, step) <=> carries)
      BY <1>7, <2>3
    <3>3. ASSUME NEW h, h = moved
          PROVE  h = [book |-> r.book, balances |-> r.balances, next |-> Credited(r.next, cell.to, amount),
                      hit |-> r.hit, failed |-> r.failed]
      BY <1>1, <3>3
    <3> HIDE DEF moved
    <3>4. Hopped(r, step) = IF carries THEN moved ELSE r
      BY <1>1, <1>8, <3>2, <3>3 DEF Hopped
    <3>. QED
      BY <3>1, <3>2, <3>4
  <2>. QED
    BY <2>1, <2>2, <2>3
<1>. QED
  BY <1>2, <1>3, <1>6, <1>7, <1>11 DEF amount, p, swaps

\* A hop leaves alone what a hop through another pool reads.
LEMMA HopLeaves ==
  ASSUME NEW pools, pools \in [DOMAIN pools -> PoolBook], NEW need, NEW r \in Going(pools, need),
         NEW a \in PlanStep, NEW b \in PlanStep, a.cell.pool \subseteq need, b.cell.pool \subseteq need,
         a.cell.pool \cap b.cell.pool = {}, ~Alien(r, b)
  PROVE  LET y == Hop(r, b)
         IN /\ y = Hopped(r, b) /\ y \in Going(pools, need)
            /\ Spent(y, a) = Spent(r, a) /\ (Trades(y, a) <=> Trades(r, a)) /\ (Passes(y, a) <=> Passes(r, a))
            /\ Trades(r, a) => Traded(y, a) = Traded(r, a)
            /\ Alien(y, a) <=> Alien(r, a)
            /\ Gained(y, a) = Gained(r, a)
<1> DEFINE y == Hop(r, b)
<1>1. y = Hopped(r, b)
  BY HopMakes
<1>2. y \in Going(pools, need)
  <2>1. y \in ReplayStates(pools, need)
    BY HopOK DEF Going
  <2>3. r.failed = ""
    BY DEF Going
  <2>4. y.failed = r.failed
    BY <1>1 DEF Hopped
  <2>2. y.failed = ""
    BY <2>3, <2>4
  <2> HIDE DEF y
  <2>. QED
    BY <2>1, <2>2 DEF Going
<1>3. y.balances = r.balances /\ y.book = BookAfter(r, b)
  BY <1>1 DEF Hopped
<1> HIDE DEF y
<1>4. Spent(y, a) = Spent(r, a)
  BY <1>3 DEF Spent
<1>5. (Trades(y, a) <=> Trades(r, a)) /\ (Passes(y, a) <=> Passes(r, a))
  BY <1>4 DEF Trades, Passes
<1>6. ASSUME Trades(r, a)
      PROVE  y.book[Via(a)] = r.book[Via(a)]
  <2>1. Via(a) \in a.cell.pool /\ (Trades(r, b) => Via(b) \in b.cell.pool)
    BY <1>6, HopMakes
  <2>2. Trades(r, b) => Via(a) # Via(b)
    BY <2>1
  <2>3. r.book \in [DOMAIN pools -> PoolBook]
    BY DEF Going, ReplayStates
  <2>4. Via(a) \in DOMAIN pools
    BY <1>6, HopMakes
  <2>. QED
    BY <1>3, <2>2, <2>3, <2>4 DEF BookAfter
<1>7. Trades(r, a) => Traded(y, a) = Traded(r, a)
  BY <1>4, <1>6 DEF Traded
<1>8. Alien(y, a) <=> Alien(r, a)
  BY <1>5, <1>6 DEF Alien
<1>9. Gained(y, a) = Gained(r, a)
  BY <1>4, <1>5, <1>7 DEF Gained
<1>. QED
  BY <1>1, <1>2, <1>4, <1>5, <1>7, <1>8, <1>9 DEF y

\* Two hops through different pools come to the same in either order.
LEMMA HopsCommute ==
  ASSUME NEW pools, pools \in [DOMAIN pools -> PoolBook], NEW need, NEW r \in Going(pools, need),
         NEW a \in PlanStep, NEW b \in PlanStep, a.cell.pool \subseteq need, b.cell.pool \subseteq need,
         a.cell.pool \cap b.cell.pool = {}, ~Alien(r, a), ~Alien(r, b)
  PROVE  Hop(Hop(r, a), b) = Hop(Hop(r, b), a)
<1> DEFINE x == Hop(r, a)
           y == Hop(r, b)
<1>1. /\ x = Hopped(r, a) /\ x \in Going(pools, need)
      /\ Spent(x, b) = Spent(r, b) /\ (Trades(x, b) <=> Trades(r, b)) /\ (Passes(x, b) <=> Passes(r, b))
      /\ Trades(r, b) => Traded(x, b) = Traded(r, b)
      /\ Alien(x, b) <=> Alien(r, b)
      /\ Gained(x, b) = Gained(r, b)
  <2>1. b.cell.pool \cap a.cell.pool = {}
    OBVIOUS
  <2>. QED
    BY <2>1, HopLeaves
<1>2. /\ y = Hopped(r, b) /\ y \in Going(pools, need)
      /\ Spent(y, a) = Spent(r, a) /\ (Trades(y, a) <=> Trades(r, a)) /\ (Passes(y, a) <=> Passes(r, a))
      /\ Trades(r, a) => Traded(y, a) = Traded(r, a)
      /\ Alien(y, a) <=> Alien(r, a)
      /\ Gained(y, a) = Gained(r, a)
  BY HopLeaves
<1> HIDE DEF x, y
<1>3. Hop(x, b) = Hopped(x, b) /\ Hop(y, a) = Hopped(y, a)
  BY <1>1, <1>2, HopMakes
<1>4. BookAfter(x, b) = BookAfter(y, a)
  <2> DEFINE A == Traded(r, a).pool
             B == Traded(r, b).pool
             p == Via(a)
             q == Via(b)
  <2>1. x.book = (IF Trades(r, a) THEN [r.book EXCEPT ![p] = A] ELSE r.book)
        /\ y.book = (IF Trades(r, b) THEN [r.book EXCEPT ![q] = B] ELSE r.book)
    BY <1>1, <1>2 DEF Hopped, BookAfter
  <2>2. BookAfter(x, b) = (IF Trades(r, b) THEN [x.book EXCEPT ![q] = B] ELSE x.book)
        /\ BookAfter(y, a) = (IF Trades(r, a) THEN [y.book EXCEPT ![p] = A] ELSE y.book)
    BY <1>1, <1>2 DEF BookAfter
  <2>3. (Trades(r, a) => p \in a.cell.pool) /\ (Trades(r, b) => q \in b.cell.pool)
    BY HopMakes
  <2>4. Trades(r, a) /\ Trades(r, b) => p # q
    BY <2>3
  <2>5. r.book \in [DOMAIN pools -> PoolBook]
    BY DEF Going, ReplayStates
  <2> HIDE DEF A, B, p, q
  <2> DEFINE both == [[r.book EXCEPT ![p] = A] EXCEPT ![q] = B]
             reverse == [[r.book EXCEPT ![q] = B] EXCEPT ![p] = A]
  <2>6. ASSUME p # q
        PROVE  both = reverse
    <3>1. DOMAIN both = DOMAIN r.book /\ DOMAIN reverse = DOMAIN r.book
      OBVIOUS
    <3>2. \A s \in DOMAIN r.book : both[s] = reverse[s]
      BY <2>6
    <3>3. both = [s \in DOMAIN r.book |-> both[s]] /\ reverse = [s \in DOMAIN r.book |-> reverse[s]]
      OBVIOUS
    <3> HIDE DEF both, reverse
    <3>. QED
      BY <3>2, <3>3
  <2>7. CASE Trades(r, a) /\ Trades(r, b)
    BY <2>1, <2>2, <2>4, <2>6, <2>7
  <2>8. CASE ~(Trades(r, a) /\ Trades(r, b))
    BY <2>1, <2>2, <2>8
  <2>. QED
    BY <2>7, <2>8
<1>5. NextAfter(x, b) = NextAfter(y, a)
  <2> DEFINE m == Gained(r, a)
             n == Gained(r, b)
             t == a.cell.to
             u == b.cell.to
             actsA == Trades(r, a) \/ Passes(r, a)
             actsB == Trades(r, b) \/ Passes(r, b)
  <2>1. x.next = (IF actsA THEN Credited(r.next, t, m) ELSE r.next)
        /\ y.next = (IF actsB THEN Credited(r.next, u, n) ELSE r.next)
    BY <1>1, <1>2 DEF Hopped, NextAfter
  <2>2. NextAfter(x, b) = (IF actsB THEN Credited(x.next, u, n) ELSE x.next)
        /\ NextAfter(y, a) = (IF actsA THEN Credited(y.next, t, m) ELSE y.next)
    BY <1>1, <1>2 DEF NextAfter
  <2>3. (actsA => m \in Nat) /\ (actsB => n \in Nat)
    BY HopMakes
  <2>4. r.next \in Amounts /\ t \in Token /\ u \in Token
    BY DEF Going, ReplayStates, PlanStep
  <2> HIDE DEF m, n, t, u, actsA, actsB
  <2>5. actsA /\ actsB => Credited(Credited(r.next, t, m), u, n) = Credited(Credited(r.next, u, n), t, m)
    BY <2>3, <2>4, CreditsCommute
  <2>6. CASE actsA /\ actsB
    BY <2>1, <2>2, <2>5, <2>6
  <2>7. CASE ~(actsA /\ actsB)
    BY <2>1, <2>2, <2>7
  <2>. QED
    BY <2>6, <2>7
<1>6. HitAfter(x, b) = HitAfter(y, a)
  <2> DEFINE h == r.hit
             hitA == Trades(r, a) /\ Traded(r, a).hit
             hitB == Trades(r, b) /\ Traded(r, b).hit
  <2>1. x.hit = (h \/ hitA) /\ y.hit = (h \/ hitB)
    BY <1>1, <1>2 DEF Hopped, HitAfter
  <2>2. HitAfter(x, b) = (x.hit \/ hitB) /\ HitAfter(y, a) = (y.hit \/ hitA)
    BY <1>1, <1>2 DEF HitAfter
  <2> HIDE DEF h, hitA, hitB
  <2> DEFINE F == (h \/ hitA) \/ hitB
             G == (h \/ hitB) \/ hitA
  <2>3. F = G
    OBVIOUS
  <2>4. HitAfter(x, b) = F /\ HitAfter(y, a) = G
    BY <2>1, <2>2, Zenon
  <2> HIDE DEF F, G
  <2>. QED
    BY <2>3, <2>4
<1>7. x.balances = r.balances /\ y.balances = r.balances /\ x.failed = r.failed /\ y.failed = r.failed
  BY <1>1, <1>2 DEF Hopped
<1>8. Hopped(x, b) = Hopped(y, a)
  BY <1>4, <1>5, <1>6, <1>7 DEF Hopped
<1>. QED
  BY <1>3, <1>8 DEF x, y

\* What is left of a state when a failure ends the replay, whatever it had reached.
Broken == [failed |-> "broken"]
Judged(r) == IF r.failed = "" THEN r ELSE Broken
Outcomes(pools, need) == Going(pools, need) \cup {Broken}

\* A hop and the end of a stage see of a state no more than the failure it ends with.
LEMMA JudgedIn ==
  ASSUME NEW pools, NEW need, NEW r \in ReplayStates(pools, need)
  PROVE  Judged(r) \in Outcomes(pools, need)
BY DEF Judged, Outcomes, Going

LEMMA BrokenStays ==
  ASSUME NEW step
  PROVE  Hop(Broken, step) = Broken /\ Judged(Broken) = Broken
<1>1. Broken.failed # ""
  BY DEF Broken
<1>. QED
  BY <1>1 DEF Hop, Judged

\* The hops of two steps of a stage commute, and so does whether they fail.
LEMMA OutcomesCommute ==
  ASSUME NEW pools, pools \in [DOMAIN pools -> PoolBook], NEW need, NEW r \in Outcomes(pools, need),
         NEW a \in PlanStep, NEW b \in PlanStep, a.cell.pool \subseteq need, b.cell.pool \subseteq need,
         a.cell.pool \cap b.cell.pool = {}
  PROVE  Judged(Hop(Judged(Hop(r, a)), b)) = Judged(Hop(Judged(Hop(r, b)), a))
<1>1. CASE r = Broken
  BY <1>1, BrokenStays
<1>2. ASSUME r \in Going(pools, need), NEW s \in PlanStep, s.cell.pool \subseteq need
      PROVE  IF Alien(r, s) THEN Judged(Hop(r, s)) = Broken ELSE Judged(Hop(r, s)) = Hop(r, s)
  <2>1. CASE Alien(r, s)
    <3>1. Hop(r, s) = [r EXCEPT !.failed = "TokenNotInPool"]
      BY <1>2, <2>1, HopMakes
    <3>2. r = [book |-> r.book, balances |-> r.balances, next |-> r.next, hit |-> r.hit, failed |-> r.failed]
      BY <1>2 DEF Going, ReplayStates
    <3>3. Hop(r, s).failed = "TokenNotInPool"
      BY <3>1, <3>2
    <3>. QED
      BY <2>1, <3>3 DEF Judged
  <2>2. CASE ~Alien(r, s)
    <3>1. Hop(r, s) = Hopped(r, s)
      BY <1>2, <2>2, HopMakes
    <3>2. r.failed = ""
      BY <1>2 DEF Going
    <3>3. Hop(r, s).failed = r.failed
      BY <3>1 DEF Hopped
    <3>. QED
      BY <2>2, <3>2, <3>3 DEF Judged
  <2>. QED
    BY <2>1, <2>2
<1>3. ASSUME r \in Going(pools, need), NEW s \in PlanStep, NEW t \in PlanStep, s.cell.pool \subseteq need,
             t.cell.pool \subseteq need, s.cell.pool \cap t.cell.pool = {}, Alien(r, s)
      PROVE  Judged(Hop(Judged(Hop(r, s)), t)) = Broken /\ Judged(Hop(Judged(Hop(r, t)), s)) = Broken
  <2>1. Judged(Hop(r, s)) = Broken
    BY <1>2, <1>3
  <2>2. Judged(Hop(Judged(Hop(r, s)), t)) = Broken
    BY <2>1, BrokenStays
  <2>3. CASE Alien(r, t)
    <3>1. Judged(Hop(r, t)) = Broken
      BY <1>2, <1>3, <2>3
    <3>. QED
      BY <2>2, <3>1, BrokenStays
  <2>4. CASE ~Alien(r, t)
    <3> DEFINE y == Hop(r, t)
    <3>1. Judged(y) = y
      BY <1>2, <1>3, <2>4
    <3>2. y \in Going(pools, need) /\ Alien(y, s)
      BY <1>3, <2>4, HopLeaves
    <3> HIDE DEF y
    <3>3. Hop(y, s) = [y EXCEPT !.failed = "TokenNotInPool"]
      BY <1>3, <3>2, HopMakes
    <3>4. y = [book |-> y.book, balances |-> y.balances, next |-> y.next, hit |-> y.hit, failed |-> y.failed]
      BY <3>2 DEF Going, ReplayStates
    <3>5. Hop(y, s).failed = "TokenNotInPool"
      BY <3>3, <3>4
    <3>6. Judged(Hop(y, s)) = Broken
      BY <3>5 DEF Judged
    <3>. QED
      BY <2>2, <3>1, <3>6 DEF y
  <2>. QED
    BY <2>3, <2>4
<1>4. CASE r \in Going(pools, need) /\ Alien(r, a)
  BY <1>3, <1>4
<1>5. CASE r \in Going(pools, need) /\ Alien(r, b)
  <2>1. b.cell.pool \cap a.cell.pool = {}
    OBVIOUS
  <2>. QED
    BY <1>3, <1>5, <2>1
<1>6. CASE r \in Going(pools, need) /\ ~Alien(r, a) /\ ~Alien(r, b)
  <2>1. Judged(Hop(r, a)) = Hop(r, a) /\ Judged(Hop(r, b)) = Hop(r, b)
    BY <1>2, <1>6
  <2>2. Hop(Hop(r, a), b) = Hop(Hop(r, b), a)
    BY <1>6, HopsCommute
  <2>. QED
    BY <2>1, <2>2
<1>. QED
  BY <1>1, <1>4, <1>5, <1>6 DEF Outcomes

LEMMA JudgedHop ==
  ASSUME NEW r, NEW step
  PROVE  Judged(Hop(r, step)) = Judged(Hop(Judged(r), step))
<1>1. CASE r.failed = ""
  BY <1>1 DEF Judged
<1>2. CASE r.failed # ""
  <2>1. Hop(r, step) = r
    BY <1>2 DEF Hop
  <2>2. Judged(r) = Broken
    BY <1>2 DEF Judged
  <2>. QED
    BY <2>1, <2>2, BrokenStays
<1>. QED
  BY <1>1, <1>2

LEMMA FinitePlan ==
  ASSUME NEW S, NEW steps \in Seq(S)
  PROVE  IsFiniteSet(DOMAIN steps) /\ \A i \in DOMAIN steps : steps[i] \in S
<1>1. Len(steps) \in Nat /\ DOMAIN steps = 1 .. Len(steps) /\ \A i \in DOMAIN steps : steps[i] \in S
  OBVIOUS
<1>2. IsFiniteSet(DOMAIN steps)
  BY <1>1, FS_Interval
<1>. QED
  BY <1>1, <1>2

\* The steps of a stage, and a hop as a function.
StepsOf(steps, n) == {steps[i] : i \in {j \in DOMAIN steps : steps[j].cell.stage = n}}
HopOn(X, D) == [p \in X \X D |-> Judged(Hop(p[1], p[2]))]
Distinct(steps) == \A i, j \in DOMAIN steps : i # j => steps[i] # steps[j]

\* In whatever order the steps of a stage are folded, it is what they gather.
LEMMA StageGathers ==
  ASSUME NEW pools, pools \in [DOMAIN pools -> PoolBook], NEW steps \in Seq(PlanStep), NEW n, Distinct(steps),
         NEW r \in ReplayStates(pools, SwappedPools(steps)), NEW D, D = StepsOf(steps, n),
         NEW X, X = Outcomes(pools, SwappedPools(steps)), NEW g, Gathers(g, D, Judged(r), HopOn(X, D)),
         \A S \in SUBSET D : g[S] \in X
  PROVE  \E done \in ReplayStates(pools, SwappedPools(steps)) :
           Stage(r, steps, n) = EndStage(done) /\ Judged(done) = g[D]
<1> DEFINE W == DOMAIN steps
           of(S) == {steps[i] : i \in {j \in S : steps[j].cell.stage = n}}
<1>1. PICK f : FoldsStage(f, W, pools, r, steps, n)
  BY StageFold
<1>2. IsFiniteSet(W)
  BY FinitePlan
<1>3. Distinct(steps) /\ D = of(W)
  BY DEF StepsOf
<1>4. \A i, j \in W : i # j => steps[i] # steps[j]
  BY DEF Distinct
<1> HIDE DEF W
<1>5. \A S \in SUBSET W : of(S) \in SUBSET D
  BY <1>3
<1> DEFINE Bad == {S \in SUBSET W : Judged(f[S]) # g[of(S)]}
<1>6. Bad = {}
  <2> SUFFICES ASSUME Bad # {} PROVE FALSE
    OBVIOUS
  <2>1. PICK S \in Bad : \A T \in Bad : T \subseteq S => T = S
    <3>1. Bad \subseteq SUBSET W
      OBVIOUS
    <3> HIDE DEF Bad
    <3>. QED
      BY <1>2, <3>1, SmallestSubset
  <2>2. S # {}
    <3>1. of({}) = {}
      OBVIOUS
    <3>2. f[{}] = r /\ g[{}] = Judged(r)
      BY <1>1 DEF FoldsStage, Gathers
    <3> HIDE DEF of
    <3>. QED
      BY <2>1, <3>1, <3>2
  <2>3. PICK i \in S : f[S] = IF steps[i].cell.stage = n THEN Hop(f[S \ {i}], steps[i]) ELSE f[S \ {i}]
    BY <1>1, <2>1, <2>2 DEF FoldsStage
  <2> DEFINE R == S \ {i}
  <2>4. R \in SUBSET W /\ R # S /\ R \subseteq S /\ i \in W /\ S \in SUBSET W
    BY <2>1, <2>3
  <2>5. Judged(f[R]) = g[of(R)]
    <3> HIDE DEF R
    <3>. QED
      BY <2>1, <2>4
  <2>6. CASE steps[i].cell.stage # n
    <3>1. of(S) = of(R)
      BY <2>4, <2>6
    <3>2. f[S] = f[R]
      BY <2>3, <2>6
    <3> HIDE DEF R, of
    <3>. QED
      BY <2>1, <2>5, <3>1, <3>2
  <2>7. CASE steps[i].cell.stage = n
    <3>1. steps[i] \in of(S) /\ of(S) \in SUBSET D /\ steps[i] \in D
      BY <1>5, <2>4, <2>7
    <3>2. of(S) \ {steps[i]} = of(R)
      <4>1. \A j \in S : steps[j] = steps[i] => j = i
        BY <1>4, <2>4
      <4>. QED
        BY <4>1
    <3>3. of(R) \in SUBSET D
      BY <1>5, <2>4
    <3>4. f[S] = Hop(f[R], steps[i])
      BY <2>3, <2>7
    <3> DEFINE A == of(S)
               B == of(R)
               a == steps[i]
    <3>8. a \in A /\ A \in SUBSET D /\ a \in D /\ A \ {a} = B /\ B \in SUBSET D
      BY <3>1, <3>2, <3>3
    <3> HIDE DEF R, A, B, a
    <3>5. g[A] = HopOn(X, D)[<<g[B], a>>] /\ g[B] \in X
      BY <3>8 DEF Gathers
    <3>6. g[of(S)] = Judged(Hop(g[of(R)], steps[i]))
      <4>1. g[A] = Judged(Hop(g[B], a))
        BY <3>5, <3>8 DEF HopOn
      <4>. QED
        BY <4>1 DEF A, B, a
    <3> HIDE DEF of
    <3>7. Judged(f[S]) = Judged(Hop(Judged(f[R]), steps[i]))
      BY <3>4, JudgedHop
    <3>. QED
      BY <2>1, <2>5, <3>6, <3>7
  <2>. QED
    BY <2>6, <2>7
<1>7. Judged(f[W]) = g[D]
  BY <1>3, <1>6
<1>8. f[W] \in ReplayStates(pools, SwappedPools(steps)) /\ Stage(r, steps, n) = EndStage(f[W])
  BY <1>1 DEF FoldsStage
<1>. QED
  BY <1>7, <1>8

\* What makes the orders of a plan equal: no stage has two steps through one pool.
Uncrossed(steps) ==
  \A i, j \in DOMAIN steps :
    i # j /\ steps[i].cell.stage = steps[j].cell.stage => steps[i].cell.pool \cap steps[j].cell.pool = {}

LEMMA EndJudged ==
  ASSUME NEW pools, NEW need, NEW x \in ReplayStates(pools, need), NEW y \in ReplayStates(pools, need),
         Judged(x) = Judged(y)
  PROVE  Judged(EndStage(x)) = Judged(EndStage(y))
<1>1. ASSUME NEW z \in ReplayStates(pools, need)
      PROVE  EndStage(z).failed = z.failed
  <2>1. z = [book |-> z.book, balances |-> z.balances, next |-> z.next, hit |-> z.hit, failed |-> z.failed]
    BY DEF ReplayStates
  <2>. QED
    BY <2>1 DEF EndStage
<1>2. Broken.failed # ""
  BY DEF Broken
<1>3. CASE x.failed = ""
  <2>1. Judged(x) = x
    BY <1>3 DEF Judged
  <2>2. y.failed = ""
    BY <1>2, <1>3, <2>1 DEF Judged
  <2>. QED
    BY <2>1, <2>2 DEF Judged
<1>4. CASE x.failed # ""
  <2>1. Judged(x) = Broken
    BY <1>4 DEF Judged
  <2>2. y.failed # ""
    BY <1>2, <2>1 DEF Judged
  <2>. QED
    BY <1>1, <1>4, <2>2 DEF Judged
<1>. QED
  BY <1>3, <1>4

\* A stage makes the same of two orders of its steps.
LEMMA StageSame ==
  ASSUME NEW pools, pools \in [DOMAIN pools -> PoolBook], NEW s \in Seq(PlanStep), NEW t \in Seq(PlanStep),
         Distinct(s), Distinct(t), Uncrossed(s), NEW n, StepsOf(s, n) = StepsOf(t, n), SwappedPools(s) = SwappedPools(t),
         NEW r \in ReplayStates(pools, SwappedPools(s)), NEW q \in ReplayStates(pools, SwappedPools(s)),
         Judged(r) = Judged(q)
  PROVE  Judged(Stage(r, s, n)) = Judged(Stage(q, t, n))
<1> DEFINE need == SwappedPools(s)
           D == StepsOf(s, n)
           X == Outcomes(pools, need)
           op == HopOn(X, D)
           W == DOMAIN s
<1>1. IsFiniteSet(W) /\ \A i \in W : s[i] \in PlanStep
  BY FinitePlan
<1> HIDE DEF W
<1>3. ASSUME NEW a \in D, NEW b \in D
      PROVE  a \in PlanStep /\ a.cell.pool \subseteq need /\ (a # b => a.cell.pool \cap b.cell.pool = {})
  <2>1. PICK i \in W : a = s[i] /\ s[i].cell.stage = n
    BY DEF StepsOf, W
  <2>2. PICK j \in W : b = s[j] /\ s[j].cell.stage = n
    BY DEF StepsOf, W
  <2>3. a.cell.pool \subseteq need
    BY <2>1 DEF SwappedPools, W
  <2>4. a # b => a.cell.pool \cap b.cell.pool = {}
    BY <2>1, <2>2 DEF Uncrossed, W
  <2>. QED
    BY <1>1, <2>1, <2>3, <2>4
<1>4. IsFiniteSet(D)
  <2> DEFINE J == {j \in W : s[j].cell.stage = n}
             f == [j \in J |-> s[j]]
  <2>1. IsFiniteSet(J)
    BY <1>1, FS_Subset
  <2>2. DOMAIN f = J /\ f = [x \in J |-> f[x]] /\ D = {f[x] : x \in J}
    BY DEF StepsOf, W
  <2> HIDE DEF f, J, D
  <2>. QED
    BY <2>1, <2>2, FiniteRange
<1> HIDE DEF D, need
<1>5. ASSUME NEW x \in X, NEW a \in D
      PROVE  Judged(Hop(x, a)) \in X
  <2>1. CASE x = Broken
    BY <2>1, BrokenStays
  <2>2. CASE x \in Going(pools, need)
    <3>1. x \in ReplayStates(pools, need)
      BY <2>2 DEF Going
    <3>2. Hop(x, a) \in ReplayStates(pools, need)
      BY <1>3, <3>1, HopOK
    <3>. QED
      BY <3>2, JudgedIn
  <2>. QED
    BY <2>1, <2>2 DEF Outcomes
<1>6. op \in [X \X D -> X] /\ \A x \in X, a \in D : op[<<x, a>>] = Judged(Hop(x, a))
  BY <1>5 DEF HopOn
<1>7. ASSUME NEW x \in X, NEW a \in D, NEW b \in D
      PROVE  op[<<op[<<x, a>>], b>>] = op[<<op[<<x, b>>], a>>]
  <2>1. /\ op[<<op[<<x, a>>], b>>] = Judged(Hop(Judged(Hop(x, a)), b))
        /\ op[<<op[<<x, b>>], a>>] = Judged(Hop(Judged(Hop(x, b)), a))
    <3>1. Judged(Hop(x, a)) \in X /\ Judged(Hop(x, b)) \in X
      BY <1>5
    <3>2. op[<<x, a>>] = Judged(Hop(x, a)) /\ op[<<x, b>>] = Judged(Hop(x, b))
      BY <1>6
    <3> HIDE DEF op, X
    <3>. QED
      BY <1>6, <3>1, <3>2
  <2>2. CASE a = b
    BY <2>2
  <2>3. CASE a # b
    <3>1. a \in PlanStep /\ b \in PlanStep /\ a.cell.pool \subseteq need /\ b.cell.pool \subseteq need
          /\ a.cell.pool \cap b.cell.pool = {}
      BY <1>3, <2>3
    <3>2. x \in Outcomes(pools, need)
      OBVIOUS
    <3> HIDE DEF op, X
    <3>3. Judged(Hop(Judged(Hop(x, a)), b)) = Judged(Hop(Judged(Hop(x, b)), a))
      BY <3>1, <3>2, OutcomesCommute
    <3>. QED
      BY <2>1, <3>3
  <2>. QED
    BY <2>2, <2>3
<1>8. Judged(r) \in X
  BY JudgedIn DEF need
<1> HIDE DEF X, op
<1>9. PICK g \in [SUBSET D -> X] : Gathers(g, D, Judged(r), op)
  BY <1>4, <1>6, <1>7, <1>8, OrderlessFold
<1>10. \A S \in SUBSET D : g[S] \in X
  OBVIOUS
<1>11. PICK x \in ReplayStates(pools, need) : Stage(r, s, n) = EndStage(x) /\ Judged(x) = g[D]
  BY <1>9, <1>10, StageGathers DEF need, op, X, D
<1>12. PICK y \in ReplayStates(pools, need) : Stage(q, t, n) = EndStage(y) /\ Judged(y) = g[D]
  <2>1. /\ need = SwappedPools(t) /\ D = StepsOf(t, n) /\ X = Outcomes(pools, SwappedPools(t))
        /\ q \in ReplayStates(pools, SwappedPools(t))
    BY DEF need, D, X
  <2>2. Gathers(g, D, Judged(q), HopOn(X, D))
    BY <1>9 DEF op
  <2>. QED
    BY <1>10, <2>1, <2>2, StageGathers
<1>. QED
  BY <1>11, <1>12, EndJudged

\* Two orders of one plan have all in common that is not an order.
SameSteps(s, t) == {s[i] : i \in DOMAIN s} = {t[i] : i \in DOMAIN t}

LEMMA SameParts ==
  ASSUME NEW s, NEW t, SameSteps(s, t)
  PROVE  /\ SwappedPools(s) = SwappedPools(t) /\ LastStage(s) = LastStage(t)
         /\ \A n : StepsOf(s, n) = StepsOf(t, n)
<1>1. (\A i \in DOMAIN s : \E j \in DOMAIN t : s[i] = t[j]) /\ \A j \in DOMAIN t : \E i \in DOMAIN s : s[i] = t[j]
  BY DEF SameSteps
<1>2. SwappedPools(s) = SwappedPools(t)
  BY <1>1 DEF SwappedPools
<1>3. LastStage(s) = LastStage(t)
  <2>1. {s[i].cell.stage : i \in DOMAIN s} = {t[i].cell.stage : i \in DOMAIN t}
    BY <1>1
  <2> DEFINE A == {s[i].cell.stage : i \in DOMAIN s}
             B == {t[i].cell.stage : i \in DOMAIN t}
             highest(S) == IF S = {} THEN -1 ELSE CHOOSE n \in S : \A m \in S : m <= n
  <2>2. LastStage(s) = highest(A) /\ LastStage(t) = highest(B)
    BY DEF LastStage
  <2> HIDE DEF highest, A, B
  <2>. QED
    BY <2>1, <2>2 DEF A, B
<1>4. ASSUME NEW n
      PROVE  StepsOf(s, n) = StepsOf(t, n)
  BY <1>1 DEF StepsOf
<1>. QED
  BY <1>2, <1>3, <1>4

\* Two orders of the same steps replay to the same, or both fail.
LEMMA ReplaySame ==
  ASSUME NEW pools, pools \in [DOMAIN pools -> PoolBook], NEW s \in Seq(PlanStep), NEW t \in Seq(PlanStep),
         Distinct(s), Distinct(t), Uncrossed(s), SameSteps(s, t), NEW source \in Token, NEW entry \in Nat
  PROVE  Judged(Replay(s, pools, source, entry)) = Judged(Replay(t, pools, source, entry))
<1>1. /\ SwappedPools(s) = SwappedPools(t) /\ LastStage(s) = LastStage(t)
      /\ \A n : StepsOf(s, n) = StepsOf(t, n)
  BY SameParts
<1> DEFINE N == LastStage(s)
           need == SwappedPools(s)
           X == ReplayStates(pools, need)
           start == FirstState(s, pools, source, entry)
<1>2. PICK f : RunsStages(f, s, pools, source, entry)
  BY ReplayStaged
<1>3. PICK g : RunsStages(g, t, pools, source, entry)
  BY ReplayStaged
<1>4. FirstState(t, pools, source, entry) = start
  BY <1>1 DEF FirstState
<1>5. N \in Int /\ N >= -1
  BY <1>2 DEF RunsStages
<1>6. \A n \in -1 .. N : f[n] \in X /\ f[n] = IF n = -1 THEN start ELSE Stage(f[n - 1], s, n)
  BY <1>2 DEF RunsStages
<1>7. \A n \in -1 .. N : g[n] \in X /\ g[n] = IF n = -1 THEN start ELSE Stage(g[n - 1], t, n)
  <2>1. LastStage(t) = N /\ SwappedPools(t) = need
    BY <1>1
  <2> HIDE DEF N, need, start
  <2>. QED
    BY <1>3, <1>4, <2>1 DEF RunsStages
<1>8. Replay(s, pools, source, entry) = f[N] /\ Replay(t, pools, source, entry) = g[N]
  BY <1>1, <1>2, <1>3 DEF RunsStages
<1> HIDE DEF N, start
<1> DEFINE Bad == {m \in Nat : m \in 0 .. N + 1 /\ Judged(f[m - 1]) # Judged(g[m - 1])}
<1>9. Bad = {}
  <2> SUFFICES ASSUME Bad # {} PROVE FALSE
    OBVIOUS
  <2>1. PICK m \in Bad : \A i \in Bad : m <= i
    <3>1. Bad \in SUBSET Nat
      OBVIOUS
    <3> HIDE DEF Bad
    <3>. QED
      BY <3>1, LeastNumber
  <2>2. m # 0
    <3>1. -1 \in -1 .. N
      BY <1>5
    <3> HIDE DEF X
    <3>2. f[-1] = start
      BY <1>6, <3>1
    <3>3. g[-1] = start
      BY <1>7, <3>1
    <3>4. m = 0 => m - 1 = -1
      OBVIOUS
    <3>5. Judged(f[m - 1]) # Judged(g[m - 1])
      BY <2>1
    <3> HIDE DEF Bad
    <3>. QED
      BY <3>2, <3>3, <3>4, <3>5
  <2> DEFINE k == m - 1
             l == k - 1
  <2>3. k \in Nat /\ k \in -1 .. N /\ l \in -1 .. N /\ k # -1 /\ k \in 0 .. N + 1 /\ ~(m <= k)
    BY <1>5, <2>1, <2>2
  <2>4. Judged(f[l]) = Judged(g[l])
    BY <2>1, <2>3
  <2>5. Judged(f[k]) # Judged(g[k])
    BY <2>1
  <2> HIDE DEF X, need, Bad
  <2>6. f[l] \in X /\ g[l] \in X /\ f[k] = Stage(f[l], s, k) /\ g[k] = Stage(g[l], t, k)
    BY <1>6, <1>7, <2>3
  <2>7. StepsOf(s, k) = StepsOf(t, k)
    BY <1>1
  <2> HIDE DEF k, l
  <2>8. Judged(Stage(f[l], s, k)) = Judged(Stage(g[l], t, k))
    BY <1>1, <2>4, <2>6, <2>7, StageSame DEF X, need
  <2>. QED
    BY <2>5, <2>6, <2>8
<1>10. Judged(f[N]) = Judged(g[N])
  <2>1. N + 1 \in Nat /\ N + 1 \in 0 .. N + 1 /\ (N + 1) - 1 = N
    BY <1>5
  <2>. QED
    BY <1>9, <2>1
<1>. QED
  BY <1>8, <1>10

\* What build_plan makes of flows are finitely many steps a replay takes, one for each cell.
LEMMA PlanStepsTyped ==
  ASSUME NEW flows \in Seq(RoutedFlow), NEW bridges, NEW minWeight,
         NEW S, S = PlanSteps(flows, bridges, minWeight)
  PROVE  /\ IsFiniteSet(S) /\ S \subseteq PlanStep
         /\ \A a \in S : \E i \in DOMAIN flows : a.cell = CellKey(flows[i], bridges)
         /\ \A a, b \in S : a.cell = b.cell => a = b
<1> DEFINE kept == Surviving(flows, bridges, minWeight)
           key(i) == CellKey(flows[i], bridges)
           cell(k) == {i \in kept : key(i) = k}
           group(k) == {i \in kept : flows[i].stage = k.stage /\ flows[i].from = k.from}
           weight(k) == IF WeightOf(flows, group(k)) = 0 THEN 0
                        ELSE Nearest(WeightOf(flows, cell(k)) * WeightScale, WeightOf(flows, group(k)))
           cells == {key(i) : i \in kept}
           of(k) == [cell |-> k, weight |-> weight(k)]
<1>1. S = {of(k) : k \in cells}
  BY DEF PlanSteps
<1>2. /\ IsFiniteSet(kept)
      /\ \A i \in kept : i \in DOMAIN flows /\ flows[i] \in RoutedFlow /\ StepKind(flows[i], bridges) # "padding"
  <2>1. Len(flows) \in Nat /\ DOMAIN flows = 1 .. Len(flows) /\ \A i \in DOMAIN flows : flows[i] \in RoutedFlow
    OBVIOUS
  <2>2. IsFiniteSet(DOMAIN flows)
    BY <2>1, FS_Interval
  <2>3. kept \subseteq DOMAIN flows /\ \A i \in kept : StepKind(flows[i], bridges) # "padding"
    BY DEF Surviving
  <2> HIDE DEF kept
  <2>. QED
    BY <2>1, <2>2, <2>3, FS_Subset
<1> HIDE DEF kept
<1>3. ASSUME NEW T \in SUBSET kept
      PROVE  WeightOf(flows, T) \in Nat
  <2> DEFINE w == [i \in T |-> flows[i].weight]
  <2>1. IsFiniteSet(T) /\ w \in [T -> Nat]
    BY <1>2, FS_Subset DEF RoutedFlow
  <2> HIDE DEF w
  <2>2. SumFunction(w) \in Nat
    BY <2>1, SumNatural
  <2>. QED
    BY <2>2 DEF WeightOf, w
<1>4. ASSUME NEW k \in cells
      PROVE  weight(k) \in Nat
  <2> DEFINE n == WeightOf(flows, cell(k)) * WeightScale
             d == WeightOf(flows, group(k))
  <2>1. WeightOf(flows, cell(k)) \in Nat /\ d \in Nat /\ WeightScale \in Nat
    BY <1>3, ScaleAssumption
  <2>2. n \in Nat
    BY <2>1
  <2> HIDE DEF n, d
  <2>3. d # 0 => Nearest(n, d) \in Nat
    <3>1. d # 0 => 2 * n + d \in Nat /\ 2 * d \in Nat \ {0}
      BY <2>1, <2>2
    <3>. QED
      BY <3>1, Quotient DEF Nearest
  <2>. QED
    BY <2>3 DEF n, d
<1>5. ASSUME NEW k \in cells
      PROVE  /\ k \in [stage : Nat, from : Token, to : Token, kind : {"swap", "bridge", "carry", "padding"},
                       pool : {{}} \cup {{p} : p \in Pool}]
             /\ k.kind = "swap" <=> k.pool # {}
  <2>1. PICK i \in kept : k = key(i)
    OBVIOUS
  <2> DEFINE f == flows[i]
             kind == StepKind(f, bridges)
  <2>2. f \in RoutedFlow
    BY <1>2
  <2> HIDE DEF f
  <2>3. kind \in {"swap", "bridge", "carry", "padding"} /\ (kind = "swap" => f.pool # {})
    BY DEF StepKind
  <2>4. k = [stage |-> f.stage, from |-> f.from, to |-> f.to, kind |-> kind,
             pool |-> IF kind = "swap" THEN f.pool ELSE {}]
    BY <2>1 DEF CellKey, f
  <2> HIDE DEF kind
  <2>. QED
    BY <2>2, <2>3, <2>4 DEF RoutedFlow
<1>6. IsFiniteSet(cells)
  <2> DEFINE f == [i \in kept |-> key(i)]
  <2>1. DOMAIN f = kept /\ f = [x \in kept |-> f[x]] /\ cells = {f[x] : x \in kept}
    OBVIOUS
  <2> HIDE DEF f, cells
  <2>. QED
    BY <1>2, <2>1, FiniteRange
<1>7. cells = {key(i) : i \in kept} /\ \A i \in kept : key(i) = CellKey(flows[i], bridges)
  OBVIOUS
<1> HIDE DEF weight, cells, key, cell, group
<1>8. IsFiniteSet(S)
  <2> DEFINE f == [k \in cells |-> of(k)]
  <2>1. DOMAIN f = cells /\ f = [x \in cells |-> f[x]] /\ {of(x) : x \in cells} = {f[x] : x \in cells}
    OBVIOUS
  <2> HIDE DEF f, of
  <2>2. IsFiniteSet({f[x] : x \in cells})
    BY <1>6, <2>1, FiniteRange
  <2>. QED
    BY <1>1, <2>1, <2>2
<1>9. S \subseteq PlanStep
  <2>1. \A k \in cells : of(k) \in PlanStep
    BY <1>4, <1>5 DEF PlanStep
  <2>. QED
    BY <1>1, <2>1
<1>10. \A a \in S : \E k \in cells : a = of(k) /\ a.cell = k
  BY <1>1
<1>11. \A a \in S : \E i \in DOMAIN flows : a.cell = CellKey(flows[i], bridges)
  BY <1>2, <1>7, <1>10
<1> HIDE DEF of
<1>12. \A a, b \in S : a.cell = b.cell => a = b
  BY <1>10
<1>. QED
  BY <1>8, <1>9, <1>11, <1>12

\* A plan takes each of the steps once.
LEMMA PlansTyped ==
  ASSUME NEW flows \in Seq(RoutedFlow), NEW bridges, NEW minWeight, NEW steps \in BuildPlan(flows, bridges, minWeight)
  PROVE  /\ steps \in Seq(PlanStep) /\ Distinct(steps)
         /\ {steps[i] : i \in DOMAIN steps} = PlanSteps(flows, bridges, minWeight)
<1> DEFINE S == PlanSteps(flows, bridges, minWeight)
           D == 1 .. Cardinality(S)
<1>1. IsFiniteSet(S) /\ S \subseteq PlanStep
  BY PlanStepsTyped
<1>2. steps \in [D -> S] /\ \A i, j \in D : i # j => steps[i] # steps[j]
  BY DEF BuildPlan, SetToSeqs
<1> HIDE DEF S
<1>3. Cardinality(S) \in Nat
  BY <1>1, FS_CardinalityType
<1>4. steps \in Seq(PlanStep)
  BY <1>1, <1>2, <1>3
<1>5. IsFiniteSet(D) /\ Cardinality(D) = Cardinality(S)
  BY <1>3, FS_Interval
<1> HIDE DEF D
<1>6. steps \in Injection(D, S)
  BY <1>2 DEF Injection, IsInjective
<1>7. steps \in Surjection(D, S)
  BY <1>1, <1>5, <1>6, FS_Injection
<1>8. {steps[i] : i \in DOMAIN steps} = S
  BY <1>2, <1>7 DEF Surjection
<1>9. Distinct(steps)
  BY <1>2 DEF Distinct
<1>. QED
  BY <1>4, <1>8, <1>9 DEF S

\* The pools a plan is replayed over.
LEMMA PoolsTyped ==
  ASSUME LifecycleTypeOK, KernelOK(kernel), NEW steps
  PROVE  LosslessPools(steps) \in [DOMAIN LosslessPools(steps) -> PoolBook]
<1> DEFINE states == States(kernel)
           found  == {p \in SwappedPools(steps) \cap kernel.verified :
                        phase = "Active" /\ p \in DOMAIN states \cup DOMAIN kernel.snapshot}
           book == [p \in found |-> BookEntry(p, IF p \in DOMAIN states THEN states[p] ELSE kernel.snapshot[p])]
<1>1. LosslessPools(steps) = book
  BY DEF LosslessPools
<1>2. IsSnapshot(states) /\ IsSnapshot(kernel.snapshot) /\ kernel.verified \subseteq Pool
  BY FrontierIn DEF KernelOK, DataOK
<1> HIDE DEF states
<1>3. ASSUME NEW p \in found
      PROVE  book[p] \in PoolBook
  <2>1. p \in Pool /\ (IF p \in DOMAIN states THEN states[p] ELSE kernel.snapshot[p]) \in SUBSET Log
    BY <1>2 DEF IsSnapshot
  <2>. QED
    BY <2>1, RouteAssumption
<1> HIDE DEF found
<1>4. book \in [found -> PoolBook] /\ DOMAIN book = found
  BY <1>3
<1> HIDE DEF book
<1>. QED
  BY <1>1, <1>4

LEMMA VerifiedUndrained ==
  ASSUME LifecycleTypeOK, KernelOK(kernel), NEW route \in Routes, NEW steps \in PlansOf[route]
  PROVE  LET v == VerifyPlan(route, steps)
         IN v.verified => \A p \in DOMAIN v.before :
              v.after[p].reserve0 * v.after[p].reserve1 >= v.before[p].reserve0 * v.before[p].reserve1
<1> DEFINE pools == LosslessPools(steps)
           replay == Replay(steps, pools, route.source, Entry)
           v == VerifyPlan(route, steps)
<1>1. steps \in Seq(PlanStep)
  <2>1. route.flows \in Seq(RoutedFlow) /\ steps \in BuildPlan(route.flows, Bridges, MinWeight)
    BY RouteAssumption DEF PlansOf
  <2>. QED
    BY <2>1, PlansTyped
<1>2. replay \in ReplayStates(pools, SwappedPools(steps))
  <2>1. pools \in [DOMAIN pools -> PoolBook]
    BY PoolsTyped
  <2>2. route.source \in Token /\ Entry \in Nat
    BY RouteAssumption
  <2> HIDE DEF pools
  <2>. QED
    BY <1>1, <2>1, <2>2, ReplayKeepsPools
<1>3. Undrained(pools, replay.book)
  BY <1>2 DEF ReplayStates
<1>4. v.verified => v.before = pools /\ v.after = replay.book
  BY DEF VerifyPlan
<1> HIDE DEF pools, replay, v
<1>5. v.verified => \A p \in DOMAIN v.before :
        v.after[p].reserve0 * v.after[p].reserve1 >= v.before[p].reserve0 * v.before[p].reserve1
  BY <1>3, <1>4 DEF Undrained
<1>. QED
  BY <1>5 DEF v

\* Where no stage sends a pool amounts in both directions, no stage has two steps through one.
LEMMA UncrossedPlans ==
  ASSUME NEW route \in Routes, NEW s \in PlansOf[route], ~Crossed(s)
  PROVE  Uncrossed(s)
<1> DEFINE flows == route.flows
           S == PlanSteps(flows, Bridges, MinWeight)
<1>1. flows \in Seq(RoutedFlow) /\ s \in BuildPlan(flows, Bridges, MinWeight)
  BY RouteAssumption DEF PlansOf
<1>2. s \in Seq(PlanStep) /\ Distinct(s) /\ \A i \in DOMAIN s : s[i] \in S
  BY <1>1, PlansTyped
<1>3. (\A a \in S : \E i \in DOMAIN flows : a.cell = CellKey(flows[i], Bridges))
      /\ \A a, b \in S : a.cell = b.cell => a = b
  <2> HIDE DEF flows
  <2>. QED
    BY <1>1, PlanStepsTyped
<1> HIDE DEF S
<1> SUFFICES ASSUME NEW i \in DOMAIN s, NEW j \in DOMAIN s, i # j, s[i].cell.stage = s[j].cell.stage,
                    NEW p \in s[i].cell.pool \cap s[j].cell.pool
             PROVE  FALSE
  BY DEF Uncrossed
<1> DEFINE a == s[i].cell
           b == s[j].cell
<1>4. a.from = b.from
  BY DEF Crossed
<1>5. PICK m \in DOMAIN flows : a = CellKey(flows[m], Bridges)
  BY <1>2, <1>3
<1>6. PICK n \in DOMAIN flows : b = CellKey(flows[n], Bridges)
  BY <1>2, <1>3
<1> DEFINE f == flows[m]
           g == flows[n]
<1>7. f \in RoutedFlow /\ g \in RoutedFlow
  BY <1>1
<1>8. f.from = g.from /\ f.pool \cap g.pool # {} => f.to = g.to
  BY LayoutAssumption
<1>9. a.stage = b.stage /\ p \in a.pool /\ p \in b.pool
  OBVIOUS
<1>10. a # b
  BY <1>2, <1>3 DEF Distinct
<1>11. a = CellKey(f, Bridges) /\ b = CellKey(g, Bridges)
  BY <1>5, <1>6
<1> HIDE DEF a, b, f, g
<1>12. a.pool = f.pool /\ a.kind = "swap" /\ a.from = f.from /\ a.to = f.to
       /\ b.pool = g.pool /\ b.kind = "swap" /\ b.from = g.from /\ b.to = g.to
  BY <1>9, <1>11 DEF CellKey
<1>13. a.to = b.to
  BY <1>4, <1>8, <1>9, <1>12
<1>14. a.pool = b.pool
  <2>1. \A h \in RoutedFlow : p \in h.pool => h.pool = {p}
    BY DEF RoutedFlow
  <2>2. f.pool = {p} /\ g.pool = {p}
    BY <1>7, <1>9, <1>12, <2>1
  <2>. QED
    BY <1>12, <2>2
<1>15. a = [stage |-> a.stage, from |-> a.from, to |-> a.to, kind |-> a.kind, pool |-> a.pool]
       /\ b = [stage |-> b.stage, from |-> b.from, to |-> b.to, kind |-> b.kind, pool |-> b.pool]
  BY <1>11 DEF CellKey
<1>. QED
  BY <1>4, <1>9, <1>10, <1>12, <1>13, <1>14, <1>15

\* The bridges of a plan fail if one of them does.
Unbridged(step) ==
  /\ step.cell.kind = "bridge"
  /\ \/ \E t \in {step.cell.from, step.cell.to} : ~VerifiedDecimals(t)
     \/ Decimals[step.cell.from] # Decimals[step.cell.to]

LEMMA BridgesJudged ==
  ASSUME NEW steps \in Seq(PlanStep)
  PROVE  BridgeFailure(steps) = "" <=> \A i \in DOMAIN steps : ~Unbridged(steps[i])
<1> DEFINE fails(step) ==
             IF step.cell.kind # "bridge" THEN ""
             ELSE IF \E t \in {step.cell.from, step.cell.to} : ~VerifiedDecimals(t) THEN "BridgeTokenUnknown"
             ELSE IF Decimals[step.cell.from] # Decimals[step.cell.to] THEN "BridgeDecimalsMismatch" ELSE ""
           I == {i \in 1 .. Len(steps) : fails(steps[i]) # ""}
           first == IF I # {} THEN Min(I) ELSE 0
<1>1. BridgeFailure(steps) = IF first = 0 THEN "" ELSE fails(steps[first])
  BY DEF BridgeFailure, SelectInSeq
<1>2. \A step : fails(step) # "" <=> Unbridged(step)
  BY DEF Unbridged
<1>3. Len(steps) \in Nat /\ DOMAIN steps = 1 .. Len(steps)
  OBVIOUS
<1> HIDE DEF fails
<1>4. I \in SUBSET Nat /\ 0 \notin I
  <2>1. \A i \in 1 .. Len(steps) : i \in Nat /\ i # 0
    BY <1>3
  <2>2. \A i \in I : i \in 1 .. Len(steps)
    OBVIOUS
  <2> HIDE DEF I
  <2>. QED
    BY <2>1, <2>2
<1>5. I # {} => first \in I
  <2> HIDE DEF I
  <2>. QED
    BY <1>4, LeastNumber DEF Min
<1>6. I = {} => first = 0
  OBVIOUS
<1> HIDE DEF first
<1>7. BridgeFailure(steps) = "" <=> I = {}
  BY <1>1, <1>4, <1>5, <1>6
<1>. QED
  BY <1>2, <1>3, <1>7

\* Two orders of a plan are judged alike.
LEMMA VerdictsAgree ==
  ASSUME LifecycleTypeOK, KernelOK(kernel), NEW route \in Routes, NEW s \in PlansOf[route], NEW t \in PlansOf[route],
         ~Crossed(s)
  PROVE  LET u == VerifyPlan(route, s)
             v == VerifyPlan(route, t)
         IN u.verified = v.verified /\ (u.verified => u = v)
<1> DEFINE pools == LosslessPools(s)
           x == Replay(s, pools, route.source, Entry)
           y == Replay(t, pools, route.source, Entry)
<1>1. /\ s \in Seq(PlanStep) /\ Distinct(s) /\ t \in Seq(PlanStep) /\ Distinct(t)
      /\ SameSteps(s, t)
  <2>1. route.flows \in Seq(RoutedFlow) /\ \A r \in PlansOf[route] : r \in BuildPlan(route.flows, Bridges, MinWeight)
    BY RouteAssumption DEF PlansOf
  <2>2. \A r \in PlansOf[route] : /\ r \in Seq(PlanStep) /\ Distinct(r)
                                  /\ {r[i] : i \in DOMAIN r} = PlanSteps(route.flows, Bridges, MinWeight)
    BY <2>1, PlansTyped
  <2>. QED
    BY <2>2 DEF SameSteps
<1>2. LosslessPools(t) = pools
  <2>1. SwappedPools(s) = SwappedPools(t)
    BY <1>1, SameParts
  <2>. QED
    BY <2>1 DEF LosslessPools
<1>3. Judged(x) = Judged(y)
  <2>1. pools \in [DOMAIN pools -> PoolBook]
    BY PoolsTyped
  <2>2. route.source \in Token /\ Entry \in Nat
    BY RouteAssumption
  <2> HIDE DEF pools
  <2>. QED
    BY <1>1, <2>1, <2>2, UncrossedPlans, ReplaySame
<1>4. BridgeFailure(s) = "" <=> BridgeFailure(t) = ""
  <2>1. (\A i \in DOMAIN s : ~Unbridged(s[i])) <=> \A i \in DOMAIN t : ~Unbridged(t[i])
    <3>1. (\A i \in DOMAIN s : \E j \in DOMAIN t : s[i] = t[j]) /\ \A j \in DOMAIN t : \E i \in DOMAIN s : s[i] = t[j]
      BY <1>1 DEF SameSteps
    <3>. QED
      BY <3>1
  <2>. QED
    BY <1>1, <2>1, BridgesJudged
<1>5. x.failed = "" <=> y.failed = ""
  <2>1. Broken.failed # ""
    BY DEF Broken
  <2> HIDE DEF x, y
  <2>. QED
    BY <1>3, <2>1 DEF Judged
<1>6. x.failed = "" => x = y
  <2> HIDE DEF x, y
  <2>. QED
    BY <1>3, <1>5 DEF Judged
<1> DEFINE unknown == \E c \in {route.source, route.output} : ~VerifiedDecimals(c)
           failure(steps, r) == IF unknown THEN "InitAssetUnknown"
                                ELSE IF BridgeFailure(steps) # "" THEN BridgeFailure(steps) ELSE r.failed
           verdict(steps, r) == IF failure(steps, r) # "" THEN [verified |-> FALSE, failure |-> failure(steps, r)]
                                ELSE [verified |-> TRUE, output |-> Held(r.balances, route.output), hit |-> r.hit,
                                      before |-> pools, after |-> r.book]
           u == VerifyPlan(route, s)
           v == VerifyPlan(route, t)
<1> SUFFICES u.verified = v.verified /\ (u.verified => u = v)
  OBVIOUS
<1>7. u = verdict(s, x) /\ v = verdict(t, y)
  BY <1>2 DEF VerifyPlan
<1> HIDE DEF u, v, x, y, pools
<1>8. failure(s, x) = "" <=> failure(t, y) = ""
  BY <1>4, <1>5
<1>9. failure(s, x) = "" => x = y
  BY <1>6
<1> HIDE DEF failure
<1>10. CASE failure(s, x) = ""
  <2>1. u = verdict(s, x) /\ v = verdict(t, x) /\ failure(t, x) = ""
    BY <1>7, <1>8, <1>9, <1>10
  <2> DEFINE good == [verified |-> TRUE, output |-> Held(x.balances, route.output), hit |-> x.hit,
                      before |-> pools, after |-> x.book]
  <2>2. u = good /\ v = good
    BY <1>10, <2>1
  <2> HIDE DEF good
  <2>. QED
    BY <2>2
<1>11. CASE failure(s, x) # ""
  <2>1. u = [verified |-> FALSE, failure |-> failure(s, x)] /\ v = [verified |-> FALSE, failure |-> failure(t, y)]
    BY <1>7, <1>8, <1>11
  <2>2. u.verified = FALSE /\ v.verified = FALSE
    BY <2>1
  <2>. QED
    BY <2>2
<1>. QED
  BY <1>10, <1>11

\* Whatever reserves a chain has and whichever plan is judged against them, in any order its
\* map yields: the replay (LosslessPool::swap, hop by hop, each rounded and cut at a tick)
\* never shrinks the product of the reserves of a pool.
THEOREM PoolsNotDrained == LifecycleSpec => []NoPoolDrained
<1>1. LifecycleInv => NoPoolDrained
  <2> SUFFICES ASSUME LifecycleInv PROVE NoPoolDrained
    OBVIOUS
  <2>1. LifecycleTypeOK /\ KernelOK(kernel)
    BY DEF LifecycleInv, KInv
  <2>. QED
    BY <2>1, VerifiedUndrained DEF NoPoolDrained
<1>. QED
  BY <1>1, InitLifecycle, NextLifecycle, PTL DEF LifecycleSpec

\* Whichever order its map yields the steps of a plan in (build_plan sorts them by stage
\* only), the judgement is the same: verified or not, and with the same output, flag and
\* books, as long as no stage crosses a pool; and no order draws a pool down.
THEOREM PlansJudgedFairly == LifecycleSpec => []PlanJudgedFairly
<1>1. LifecycleInv => PlanJudgedFairly
  <2> SUFFICES ASSUME LifecycleInv PROVE PlanJudgedFairly
    OBVIOUS
  <2>1. LifecycleTypeOK /\ KernelOK(kernel)
    BY DEF LifecycleInv, KInv
  <2>2. NoPoolDrained
    BY <2>1, VerifiedUndrained DEF NoPoolDrained
  <2>3. OrderIrrelevant
    <3> SUFFICES ASSUME NEW route \in Routes, NEW s \in PlansOf[route], NEW t \in PlansOf[route], ~Crossed(s), ~Crossed(t)
                 PROVE  LET u == VerifyPlan(route, s)
                            v == VerifyPlan(route, t)
                        IN u.verified = v.verified /\ (u.verified => u = v)
      BY DEF OrderIrrelevant
    <3>. QED
      BY <2>1, VerdictsAgree
  <2>. QED
    BY <2>2, <2>3 DEF PlanJudgedFairly
<1>. QED
  BY <1>1, InitLifecycle, NextLifecycle, PTL DEF LifecycleSpec
================================================================================
