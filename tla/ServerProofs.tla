------------------------------ MODULE ServerProofs ------------------------------
(***************************************************************************)
(* What the server promises, for any pools and tokens and any number of    *)
(* probes, crashes and faults.                                             *)
(*                                                                         *)
(* The invariant has two halves.  FoldInv follows what was validated from  *)
(* the answers over the registries of the kernel to the cache: whatever is *)
(* in one of them is stored or known to be lost, and what this run was     *)
(* given at its start (`kept`) is in whatever holds the registries at the  *)
(* time - the answer, the held seed, the kernel.  ViewInv ties what is     *)
(* published to the kernel, whose registries only grow while it runs.      *)
(***************************************************************************)
EXTENDS Server, TLAPS

Registry == [pools : SUBSET Pool, tokens : SUBSET Token]
Request == [kind : {"pools"}, items : SUBSET Pool] \cup [kind : {"tokens"}, items : SUBSET Token]
SeedRequest == [kind |-> "seed", items |-> {}]
SeedAnswer == [kind : {"seed"}, items : Registry]
ProbeAnswer == [kind : {"anchor", "none"}, items : {{}}]
KernelState ==
  [pools : SUBSET Pool, rejected : SUBSET Pool, tokens : SUBSET Token, window : SUBSET Pool,
   pending : SUBSET Request]

\* Stored, or known to be lost.
Backed(r) == r.pools \subseteq cache.pools \cup lost.pools /\ r.tokens \subseteq cache.tokens \cup lost.tokens

\* What has been fetched for an answer is stored or lost before it is sent.
AnswerBacked(a) ==
  /\ a.kind = "pools" => a.items \cap ValidPools \subseteq cache.pools \cup lost.pools
  /\ a.kind = "tokens" => a.items \subseteq cache.tokens \cup lost.tokens
  /\ a.kind = "seed" => Backed(a.items)

Keeps(r) == kept.pools \subseteq r.pools /\ kept.tokens \cap Tokens(kept.pools) \subseteq r.tokens

FoldTypes ==
  /\ phase \in {"Down", "AwaitingSeed", "AwaitingAnchor", "Running"}
  /\ seed \in Registry /\ kernel \in KernelState
  /\ requests \subseteq Request \cup {SeedRequest}
  /\ inbox \subseteq Request \cup SeedAnswer \cup ProbeAnswer
  /\ cache \in Registry /\ lost \in Registry /\ kept \in Registry

\* Nothing outlives a run, and a run loads once, at its start.
LoadOnce ==
  /\ phase = "Down" => probes = 0 /\ requests = {} /\ inbox = {}
  /\ SeedRequest \in requests => phase = "AwaitingSeed" /\ \A a \in inbox : a.kind # "seed"
  /\ phase # "Running" => kernel = NoKernel

FoldInv ==
  /\ FoldTypes
  /\ LoadOnce
  /\ Backed(seed) /\ Backed(kernel) /\ \A a \in inbox : AnswerBacked(a)
  /\ phase = "AwaitingSeed" => \A a \in inbox : a.kind = "seed" => Keeps(a.items)
  /\ phase = "AwaitingAnchor" => Keeps(seed)
  /\ phase = "Running" => Keeps(kernel)

ViewInv ==
  /\ shown \in Registry /\ Backed(shown)
  /\ View!ViewTypeOK
  /\ view.up =>
       /\ phase = "Running" /\ Keeps(view)
       /\ view.pools \subseteq kernel.pools /\ view.tokens \subseteq kernel.tokens

\* The registries only grow while the kernel runs.
Grows == phase = "Running" => phase' = "Running" /\ kernel.pools \subseteq kernel'.pools /\ kernel.tokens \subseteq kernel'.tokens

ViewStep == View!ViewNext \/ UNCHANGED view

\* observe_state: what is published is what the kernel holds, if it runs.
LEMMA ObserveStep ==
  ASSUME FoldInv, ViewInv, FoldInv', Grows, Observe, UNCHANGED <<cache, lost, kept>>
  PROVE  ViewInv' /\ ViewStep
<1>1. PICK states \in SUBSET kernel'.pools :
        LET v == Snapshot(phase', kernel', states)
        IN IF Publishes(v)
           THEN /\ view' = v /\ due' = FALSE
                /\ shown' = [pools |-> shown.pools \cup v.pools, tokens |-> shown.tokens \cup v.tokens]
           ELSE /\ states = {} /\ UNCHANGED <<view, due, shown>>
  BY DEF Observe
<1>2. kernel' \in KernelState /\ Backed(kernel)'
  BY DEF FoldInv, FoldTypes
<1>3. CASE UNCHANGED <<view, shown>>
  BY <1>3 DEF ViewInv, ViewStep, Grows, Backed, Keeps, View!ViewTypeOK
<1>4. CASE phase' = "Running" /\ ~UNCHANGED <<view, shown>>
  <2> DEFINE c == [pools |-> kernel'.pools, tokens |-> kernel'.tokens, states |-> states]
  <2>1. c \in Content /\ c.states \subseteq c.pools
    BY <1>2 DEF Content, KernelState
  <2>2. view' = View!Shown(c) /\ shown' = [pools |-> shown.pools \cup c.pools, tokens |-> shown.tokens \cup c.tokens]
    BY <1>1, <1>4 DEF Snapshot, View!Shown
  <2>3. view'.up /\ view'.pools = kernel'.pools /\ view'.tokens = kernel'.tokens
    BY <2>2 DEF View!Shown
  <2>4. View!ViewTypeOK'
    BY <2>1, <2>2 DEF View!ViewTypeOK
  <2>5. shown' \in Registry /\ Backed(shown)'
    BY <1>2, <2>2 DEF ViewInv, Registry, KernelState, Backed
  <2>6. Keeps(view)'
    BY <1>4, <2>3 DEF FoldInv, Keeps
  <2>7. view.up => view.pools \subseteq c.pools /\ view.tokens \subseteq c.tokens
    BY DEF ViewInv, Grows
  <2> HIDE DEF c
  <2>8. View!Publish
    BY <2>1, <2>2, <2>7 DEF View!Publish
  <2>. QED
    BY <1>4, <2>3, <2>4, <2>5, <2>6, <2>8 DEF ViewInv, ViewStep, View!ViewNext
<1>5. CASE phase' # "Running" /\ ~UNCHANGED <<view, shown>>
  <2>1. /\ view' = View!NoView /\ ~view.up
        /\ shown' = [pools |-> shown.pools \cup {}, tokens |-> shown.tokens \cup {}]
    BY <1>1, <1>5 DEF Snapshot, ViewInv, Grows, View!NoView
  <2>2. shown' \in Registry /\ Backed(shown)'
    BY <2>1 DEF ViewInv, Registry, Backed
  <2>3. view = View!NoView
    BY <2>1 DEF ViewInv, View!ViewTypeOK, View!Shown
  <2>. QED
    BY <2>1, <2>2, <2>3 DEF ViewInv, ViewStep, View!NoView, View!ViewTypeOK
<1>. QED
  BY <1>3, <1>4, <1>5
\* What a scheduling pass asks for.
LEMMA DueRequests ==
  ASSUME NEW k \in KernelState
  PROVE  Due(k) \in SUBSET Request
<1>1. Tokens(k.window \cap k.pools) \in SUBSET Token
  BY ServerAssumption DEF Tokens, KernelState
<1> DEFINE pools  == k.window \ (k.pools \cup k.rejected \cup PendingItems(k, "pools"))
           tokens == Tokens(k.window \cap k.pools) \ (k.tokens \cup PendingItems(k, "tokens"))
<1>2. pools \in SUBSET Pool /\ tokens \in SUBSET Token
  BY <1>1 DEF KernelState
<1>3. Due(k) = {r \in {[kind |-> "pools", items |-> pools], [kind |-> "tokens", items |-> tokens]} : r.items # {}}
  BY DEF Due
<1> HIDE DEF pools, tokens
<1>. QED
  BY <1>2, <1>3 DEF Request

\* An event of the running kernel that takes nothing from its registries.
LEMMA FoldsStep ==
  ASSUME FoldInv, NEW k \in KernelState, Backed(k), Folds(k),
         kernel.pools \subseteq k.pools, kernel.tokens \subseteq k.tokens,
         inbox' \subseteq inbox, UNCHANGED <<seed, cache, lost, kept>>
  PROVE  FoldInv' /\ Grows
<1>1. /\ phase = "Running" /\ phase' = "Running"
      /\ kernel' = [k EXCEPT !.pending = @ \cup Due(k)]
      /\ requests' = requests \cup Due(k)
  BY DEF Folds
<1>2. Due(k) \in SUBSET Request
  BY DueRequests
<1>3. kernel' \in KernelState /\ kernel'.pools = k.pools /\ kernel'.tokens = k.tokens
  BY <1>1, <1>2 DEF KernelState
<1>4. SeedRequest \notin Request
  BY DEF SeedRequest, Request
<1>5. FoldTypes' /\ LoadOnce'
  BY <1>1, <1>2, <1>3, <1>4 DEF FoldInv, FoldTypes, LoadOnce
<1>6. Backed(kernel)' /\ Keeps(kernel)'
  BY <1>1, <1>3 DEF FoldInv, Backed, Keeps
<1>7. Backed(seed)' /\ \A a \in inbox' : AnswerBacked(a)'
  BY DEF FoldInv, Backed, AnswerBacked
<1>. QED
  BY <1>1, <1>3, <1>5, <1>6, <1>7 DEF FoldInv, Grows

\* A step of the fold that leaves the kernel and what it is given alone.
LEMMA IgnoredStep ==
  ASSUME FoldInv, phase # "Down", Ignored, inbox' \subseteq inbox, UNCHANGED <<seed, cache, lost, kept>>
  PROVE  FoldInv' /\ Grows
BY DEF Ignored, FoldInv, FoldTypes, LoadOnce, Backed, AnswerBacked, Keeps, Grows

\* The metadata the kernel learns was stored, or is known to be lost.
LEMMA LearnedStep ==
  ASSUME FoldInv, NEW a \in inbox, a.kind \in {"pools", "tokens"}
  PROVE  LET k == Learned(kernel, a)
         IN k \in KernelState /\ Backed(k) /\ kernel.pools \subseteq k.pools /\ kernel.tokens \subseteq k.tokens
<1> DEFINE rest == [kernel EXCEPT !.pending = @ \ {[kind |-> a.kind, items |-> a.items]}]
<1>1. kernel \in KernelState /\ Backed(kernel) /\ AnswerBacked(a)
  BY DEF FoldInv, FoldTypes
<1>2. rest \in KernelState /\ rest.pools = kernel.pools /\ rest.tokens = kernel.tokens
  BY <1>1 DEF KernelState
<1>3. a.kind = "pools" => a.items \in SUBSET Pool
  BY DEF FoldInv, FoldTypes, Request, SeedAnswer, ProbeAnswer
<1>4. a.kind = "tokens" => a.items \in SUBSET Token
  BY DEF FoldInv, FoldTypes, Request, SeedAnswer, ProbeAnswer
<1> HIDE DEF rest
<1>5. CASE a.kind = "pools"
  <2> DEFINE k == [rest EXCEPT !.pools = @ \cup (a.items \cap ValidPools), !.rejected = @ \cup (a.items \ ValidPools)]
  <2>1. Learned(kernel, a) = k
    BY <1>5 DEF Learned, rest
  <2>2. k \in KernelState /\ k.pools = kernel.pools \cup (a.items \cap ValidPools) /\ k.tokens = kernel.tokens
    BY <1>2, <1>3, <1>5 DEF KernelState
  <2> HIDE DEF k
  <2>. QED
    BY <1>1, <1>5, <2>1, <2>2 DEF AnswerBacked, Backed
<1>6. CASE a.kind = "tokens"
  <2> DEFINE k == [rest EXCEPT !.tokens = @ \cup a.items]
  <2>1. Learned(kernel, a) = k
    BY <1>6 DEF Learned, rest
  <2>2. k \in KernelState /\ k.tokens = kernel.tokens \cup a.items /\ k.pools = kernel.pools
    BY <1>2, <1>4, <1>6 DEF KernelState
  <2> HIDE DEF k
  <2>. QED
    BY <1>1, <1>6, <2>1, <2>2 DEF AnswerBacked, Backed
<1>. QED
  BY <1>5, <1>6
\* Every input of the fold keeps FoldInv and takes nothing from the registries.
LEMMA FoldStep ==
  ASSUME FoldInv,
         \/ Tick
         \/ \E a \in inbox : Handle(a)
         \/ \E w \in SUBSET Pool : Head(w)
  PROVE  FoldInv' /\ Grows
<1>0. kernel \in KernelState /\ Backed(kernel)
  BY DEF FoldInv, FoldTypes
<1>1. CASE Tick
  BY <1>1, IgnoredStep DEF Tick, Apart
<1>2. ASSUME NEW a \in inbox, OnSeed(a) PROVE FoldInv' /\ Grows
  <2>1. a.items \in Registry /\ Backed(a.items) /\ Keeps(a.items)
    BY <1>2 DEF OnSeed, FoldInv, FoldTypes, AnswerBacked, SeedAnswer, Request, ProbeAnswer
  <2>2. SeedRequest \notin requests
    BY <1>2 DEF OnSeed, FoldInv, LoadOnce
  <2>. QED
    BY <1>2, <2>1, <2>2 DEF OnSeed, Apart, FoldInv, FoldTypes, LoadOnce, Backed, AnswerBacked, Keeps, Grows
<1>3. ASSUME NEW a \in inbox, OnFirstAnchor(a) PROVE FoldInv' /\ Grows
  <2> DEFINE k == Activated(seed)
  <2>1. seed \in Registry /\ Backed(seed) /\ Keeps(seed)
    BY <1>3 DEF OnFirstAnchor, FoldInv, FoldTypes
  <2>2. k \in KernelState /\ k.pools = seed.pools /\ k.tokens = seed.tokens
    BY <2>1 DEF Activated, NoKernel, KernelState, Registry
  <2>3. NoMetadata \in Registry /\ Backed(NoMetadata)
    BY DEF NoMetadata, Registry, Backed
  <2> HIDE DEF k
  <2>4. kernel' = k /\ seed' = NoMetadata /\ phase' = "Running" /\ phase = "AwaitingAnchor"
    BY <1>3 DEF OnFirstAnchor, k
  <2>5. Backed(kernel)' /\ Keeps(kernel)' /\ Backed(seed)'
    BY <1>3, <2>1, <2>2, <2>3, <2>4 DEF OnFirstAnchor, Apart, Backed, Keeps
  <2>6. inbox' \subseteq inbox /\ UNCHANGED <<requests, cache, lost, kept>>
    BY <1>3 DEF OnFirstAnchor, Apart
  <2>7. \A b \in inbox' : AnswerBacked(b)'
    BY <2>6 DEF FoldInv, AnswerBacked, Backed
  <2>8. FoldTypes' /\ LoadOnce'
    BY <2>2, <2>3, <2>4, <2>6 DEF FoldInv, FoldTypes, LoadOnce
  <2>. QED
    BY <2>4, <2>5, <2>7, <2>8 DEF FoldInv, Grows
<1>4. ASSUME NEW a \in inbox, OnAnchor(a) PROVE FoldInv' /\ Grows
  <2>1. PICK w \in SUBSET kernel.window : Folds(Reanchored(kernel, w))
    BY <1>4 DEF OnAnchor
  <2> DEFINE k == Reanchored(kernel, w)
  <2>2. k \in KernelState /\ k.pools = kernel.pools /\ k.tokens = kernel.tokens
    BY <1>0 DEF Reanchored, KernelState
  <2> HIDE DEF k
  <2>3. Backed(k)
    BY <1>0, <2>2 DEF Backed
  <2>. QED
    BY <1>4, <2>1, <2>2, <2>3, FoldsStep DEF OnAnchor, Apart, k
<1>5. ASSUME NEW a \in inbox, OnNoAnchor(a) PROVE FoldInv' /\ Grows
  BY <1>5, IgnoredStep DEF OnNoAnchor, Apart, FoldInv, LoadOnce
<1>6. ASSUME NEW a \in inbox, OnMetadata(a) PROVE FoldInv' /\ Grows
  BY <1>6, LearnedStep, FoldsStep DEF OnMetadata, Apart
<1>7. ASSUME NEW w \in SUBSET Pool, Head(w) PROVE FoldInv' /\ Grows
  <2> DEFINE k == [kernel EXCEPT !.window = w]
  <2>1. k \in KernelState /\ k.pools = kernel.pools /\ k.tokens = kernel.tokens
    BY <1>0 DEF KernelState
  <2> HIDE DEF k
  <2>2. Backed(k)
    BY <1>0, <2>1 DEF Backed
  <2>3. CASE phase = "Running"
    <3>1. Folds(k)
      BY <1>7, <2>3 DEF Head, k
    <3>. QED
      BY <1>7, <2>1, <2>2, <3>1, FoldsStep DEF Head, Apart
  <2>4. CASE phase # "Running"
    BY <1>7, <2>4, IgnoredStep DEF Head, Apart
  <2>. QED
    BY <2>3, <2>4
<1>. QED
  BY <1>1, <1>2, <1>3, <1>4, <1>5, <1>6, <1>7 DEF Handle
(***************************************************************************)
(* The effects, crash and start.                                           *)
(***************************************************************************)
\* A step of the world: nothing is published but by a crash, which withdraws it.
Safe == FoldInv' /\ ViewInv' /\ ViewStep

\* The load hands over what this run is held to.
LEMMA LoadStep ==
  ASSUME FoldInv, ViewInv, LoadRegistrySeed
  PROVE  Safe
<1>1. PICK poolFault \in BOOLEAN, tokenFault \in BOOLEAN :
        /\ SeedRequest \in requests
        /\ requests' = requests \ {SeedRequest}
        /\ inbox' = inbox \cup {[kind |-> "seed", items |-> Loaded(poolFault, tokenFault)]}
        /\ kept' = [pools |-> IF poolFault THEN {} ELSE shown.pools \ lost.pools,
                   tokens |-> IF poolFault \/ tokenFault THEN {} ELSE shown.tokens \ lost.tokens]
        /\ FoldUnchanged /\ UNCHANGED <<probes, cache, lost>>
  BY DEF LoadRegistrySeed, SeedRequest
<1> DEFINE r == Loaded(poolFault, tokenFault)
           a == [kind |-> "seed", items |-> r]
<1>2. phase = "AwaitingSeed" /\ ~view.up /\ \A b \in inbox : b.kind # "seed"
  BY <1>1 DEF FoldInv, LoadOnce, ViewInv
<1>3. /\ r.pools = IF poolFault THEN {} ELSE cache.pools
      /\ r.tokens = IF tokenFault THEN {} ELSE cache.tokens \cap Tokens(r.pools)
  BY DEF Loaded
<1>4. r \in Registry /\ Backed(r)
  BY <1>3 DEF Loaded, FoldInv, FoldTypes, Registry, Backed
<1>5. shown.pools \ lost.pools \subseteq cache.pools /\ shown.tokens \ lost.tokens \subseteq cache.tokens
  BY DEF ViewInv, Backed
<1>6. kept' \in Registry
  BY <1>1 DEF ViewInv, Registry
<1>7. kept'.pools \subseteq r.pools
  BY <1>1, <1>3, <1>5
<1>8. kept'.tokens \cap Tokens(kept'.pools) \subseteq r.tokens
  <2>1. CASE poolFault \/ tokenFault
    BY <1>1, <2>1
  <2>2. CASE ~poolFault /\ ~tokenFault
    <3>1. kept'.tokens = shown.tokens \ lost.tokens
      BY <1>1, <2>2
    <3>2. r.tokens = cache.tokens \cap Tokens(r.pools)
      BY <1>3, <2>2
    <3>3. Tokens(kept'.pools) \subseteq Tokens(r.pools)
      BY <1>7 DEF Tokens
    <3>. QED
      BY <1>5, <3>1, <3>2, <3>3
  <2>. QED
    BY <2>1, <2>2
<1> HIDE DEF r
<1>9. a \in SeedAnswer /\ AnswerBacked(a) /\ a.kind = "seed" /\ a.items = r
  BY <1>4 DEF SeedAnswer, AnswerBacked
<1> HIDE DEF a
<1>10. UNCHANGED <<phase, seed, kernel, view, shown, cache, lost>> /\ inbox' = inbox \cup {a}
  BY <1>1 DEF FoldUnchanged, a, r
<1>11. FoldTypes' /\ LoadOnce'
  BY <1>1, <1>2, <1>6, <1>9, <1>10 DEF FoldInv, FoldTypes, LoadOnce
<1>12. Backed(seed)' /\ Backed(kernel)' /\ \A b \in inbox' : AnswerBacked(b)'
  BY <1>9, <1>10 DEF FoldInv, Backed, AnswerBacked
<1>13. \A b \in inbox' : b.kind = "seed" => Keeps(b.items)'
  BY <1>2, <1>7, <1>8, <1>9, <1>10 DEF Keeps
<1>14. FoldInv'
  BY <1>2, <1>10, <1>11, <1>12, <1>13 DEF FoldInv
<1>15. ViewInv'
  BY <1>2, <1>10 DEF ViewInv, Backed, View!ViewTypeOK
<1>. QED
  BY <1>10, <1>14, <1>15 DEF Safe, ViewStep

\* An answer to a probe carries nothing.
LEMMA ProbeStep ==
  ASSUME FoldInv, ViewInv, NEW kind \in {"anchor", "none"}, ProbeAnswered(kind)
  PROVE  Safe
<1> DEFINE a == [kind |-> kind, items |-> {}]
<1>1. /\ inbox' = inbox \cup {a}
      /\ UNCHANGED <<phase, seed, kernel, view, shown, requests, cache, lost, kept>>
      /\ phase # "Down"
  BY DEF ProbeAnswered, FoldUnchanged, FoldInv, LoadOnce
<1>2. a \in ProbeAnswer /\ a.kind \notin {"pools", "tokens", "seed"}
  BY DEF ProbeAnswer
<1> HIDE DEF a
<1>3. FoldTypes' /\ LoadOnce'
  BY <1>1, <1>2 DEF FoldInv, FoldTypes, LoadOnce
<1>4. FoldInv'
  BY <1>1, <1>2, <1>3 DEF FoldInv, Backed, AnswerBacked, Keeps
<1>. QED
  BY <1>1, <1>4 DEF Safe, ViewStep, Backed, Keeps, ViewInv, View!ViewTypeOK
\* What is fetched is stored, unless a fault of the cache loses it.
LEMMA ResolveStep ==
  ASSUME FoldInv, ViewInv, NEW r \in requests, Resolve(r)
  PROVE  Safe
<1> DEFINE misses == r.items \ cache[r.kind]
           valid  == IF r.kind = "pools" THEN misses \cap ValidPools ELSE misses
<1>1. /\ requests' = requests \ {r} /\ inbox' = inbox \cup {r}
      /\ UNCHANGED <<phase, seed, kernel, view, shown, kept>>
      /\ \/ cache' = [cache EXCEPT ![r.kind] = Stored(@, misses, valid)] /\ lost' = [lost EXCEPT ![r.kind] = @ \ valid]
         \/ cache' = cache /\ lost' = [lost EXCEPT ![r.kind] = @ \cup valid]
  BY DEF Resolve, FoldUnchanged
<1>2. /\ \/ r.kind = "pools" /\ r.items \in SUBSET Pool
         \/ r.kind = "tokens" /\ r.items \in SUBSET Token
      /\ r \in Request /\ phase # "Down"
  BY DEF Resolve, FoldInv, FoldTypes, LoadOnce, Request, SeedRequest
<1>3. cache \in Registry /\ lost \in Registry
  BY DEF FoldInv, FoldTypes
<1>4. /\ cache' \in Registry /\ lost' \in Registry
      /\ cache.pools \cup lost.pools \subseteq cache'.pools \cup lost'.pools
      /\ cache.tokens \cup lost.tokens \subseteq cache'.tokens \cup lost'.tokens
      /\ AnswerBacked(r)'
  <2>1. CASE r.kind = "pools"
    <3>1. misses = r.items \ cache.pools /\ valid = misses \cap ValidPools
      BY <2>1
    <3>2. \/ /\ cache' = [cache EXCEPT !.pools = @ \cup (misses \cap valid)]
             /\ lost' = [lost EXCEPT !.pools = @ \ valid]
          \/ cache' = cache /\ lost' = [lost EXCEPT !.pools = @ \cup valid]
      BY <1>1, <2>1 DEF Stored
    <3>3. misses \subseteq Pool
      BY <1>2, <2>1, <3>1
    <3> HIDE DEF misses, valid
    <3>. QED
      BY <1>3, <2>1, <3>1, <3>2, <3>3 DEF Registry, AnswerBacked
  <2>2. CASE r.kind = "tokens"
    <3>1. misses = r.items \ cache.tokens /\ valid = misses
      BY <2>2
    <3>2. \/ /\ cache' = [cache EXCEPT !.tokens = @ \cup (misses \cap valid)]
             /\ lost' = [lost EXCEPT !.tokens = @ \ valid]
          \/ cache' = cache /\ lost' = [lost EXCEPT !.tokens = @ \cup valid]
      BY <1>1, <2>2 DEF Stored
    <3>3. misses \subseteq Token
      BY <1>2, <2>2, <3>1
    <3> HIDE DEF misses, valid
    <3>. QED
      BY <1>3, <2>2, <3>1, <3>2, <3>3 DEF Registry, AnswerBacked
  <2>. QED
    BY <1>2, <2>1, <2>2
<1> HIDE DEF misses, valid
<1>5. \A b \in inbox' : AnswerBacked(b)'
  BY <1>1, <1>4 DEF FoldInv, AnswerBacked, Backed
<1>6. Backed(seed)' /\ Backed(kernel)' /\ Backed(shown)'
  BY <1>1, <1>4 DEF FoldInv, ViewInv, Backed
<1>7. FoldTypes' /\ LoadOnce'
  BY <1>1, <1>2, <1>4 DEF FoldInv, FoldTypes, LoadOnce
<1>8. FoldInv'
  BY <1>1, <1>2, <1>5, <1>6, <1>7 DEF FoldInv, Keeps
<1>. QED
  BY <1>1, <1>6, <1>8 DEF Safe, ViewStep, ViewInv, Keeps, View!ViewTypeOK
\* A crash takes everything but the cache.
LEMMA CrashStep ==
  ASSUME FoldInv, ViewInv, Crash
  PROVE  Safe
<1>1. NoKernel \in KernelState /\ NoMetadata \in Registry
  BY DEF NoKernel, KernelState, NoMetadata, Registry
<1>2. Backed(NoMetadata) /\ Backed(NoKernel)
  BY DEF Backed, NoMetadata, NoKernel
<1>3. /\ phase' = "Down" /\ seed' = NoMetadata /\ kernel' = NoKernel
      /\ probes' = 0 /\ requests' = {} /\ inbox' = {} /\ view' = View!NoView
      /\ UNCHANGED <<cache, shown, lost, kept>>
  BY DEF Crash
<1>4. FoldInv'
  BY <1>1, <1>2, <1>3 DEF FoldInv, FoldTypes, LoadOnce, Backed
<1>5. ViewInv'
  BY <1>3 DEF ViewInv, Backed, View!ViewTypeOK, View!NoView
<1>6. ViewStep
  BY <1>3 DEF ViewStep, ViewInv, View!ViewTypeOK, View!ViewNext, View!Withdraw, View!Shown
<1>. QED
  BY <1>4, <1>5, <1>6 DEF Safe

\* A start asks for the cache and nothing else.
LEMMA StartStep ==
  ASSUME FoldInv, ViewInv, Start
  PROVE  Safe
<1>1. /\ phase = "Down" /\ phase' = "AwaitingSeed" /\ requests' = {SeedRequest}
      /\ UNCHANGED <<seed, kernel, inbox, view, shown, cache, lost, kept>>
  BY DEF Start, Apart, SeedRequest
<1>2. inbox = {} /\ kernel = NoKernel
  BY <1>1 DEF FoldInv, LoadOnce
<1>3. FoldTypes' /\ LoadOnce'
  BY <1>1, <1>2 DEF FoldInv, FoldTypes, LoadOnce
<1>. QED
  BY <1>1, <1>2, <1>3 DEF Safe, ViewStep, FoldInv, Backed, ViewInv, View!ViewTypeOK

\* Every step.
LEMMA ServerStep ==
  ASSUME FoldInv, ViewInv, [Next]_vars
  PROVE  Safe
<1>1. CASE Tick \/ (\E a \in inbox : Handle(a)) \/ (\E w \in SUBSET Pool : Head(w))
  <2>1. FoldInv' /\ Grows
    BY <1>1, FoldStep
  <2>2. Observe /\ UNCHANGED <<cache, lost, kept>>
    BY <1>1 DEF Tick, Handle, OnSeed, OnFirstAnchor, OnAnchor, OnNoAnchor, OnMetadata, Head, Apart
  <2>. QED
    BY <2>1, <2>2, ObserveStep DEF Safe
<1>2. CASE LoadRegistrySeed
  BY <1>2, LoadStep
<1>3. CASE AnchorFetched \/ AnchorMissed
  BY <1>3, ProbeStep DEF AnchorFetched, AnchorMissed
<1>4. ASSUME NEW r \in requests, Resolve(r) PROVE Safe
  BY <1>4, ResolveStep
<1>5. CASE Crash
  BY <1>5, CrashStep
<1>6. CASE Start
  BY <1>6, StartStep
<1>7. CASE Clock \/ UNCHANGED vars
  BY <1>7 DEF Clock, Apart, vars, Safe, ViewStep, FoldInv, FoldTypes, LoadOnce, Backed, AnswerBacked, Keeps,
              ViewInv, View!ViewTypeOK
<1>. QED
  BY <1>1, <1>2, <1>3, <1>4, <1>5, <1>6, <1>7 DEF Next, Handled, Resolved

(***************************************************************************)
(* The theorems.                                                           *)
(***************************************************************************)
\* The invariant holds.
THEOREM ServerInvariance == Spec => [](FoldInv /\ ViewInv) /\ [][ViewStep]_vars
<1>1. Init => FoldInv /\ ViewInv
  BY DEF Init, FoldInv, FoldTypes, LoadOnce, ViewInv, NoMetadata, NoKernel, Registry, KernelState, Backed,
         View!NoView, View!ViewTypeOK
<1>2. FoldInv /\ ViewInv /\ [Next]_vars => (FoldInv /\ ViewInv)' /\ ViewStep
  BY ServerStep DEF Safe
<1>. QED
  BY <1>1, <1>2, PTL DEF Spec

\* What any run published is published by the later ones from their first view on: the
\* cache is written before an answer is sent, and read before an anchor activates the
\* kernel (metadata_cache.rs, aa-server core.rs and runtime.rs).
THEOREM NothingIsForgotten == Spec => []NothingForgotten
<1>1. ViewInv => NothingForgotten
  BY DEF ViewInv, Keeps, NothingForgotten
<1>. QED
  BY <1>1, ServerInvariance, PTL

\* The server shows its clients nothing but what ServedView promises: whole views, from
\* which nothing disappears while the server is up (aa-server serve.rs).
THEOREM ServerImplementsView == Spec => ImplementsView
<1>1. Init => View!ViewInit
  BY DEF Init, View!ViewInit
<1>2. [ViewStep]_vars => [View!ViewNext]_view
  BY DEF ViewStep, vars
<1>. QED
  BY <1>1, <1>2, ServerInvariance, PTL DEF Spec, ImplementsView, View!ViewSpec
================================================================================
