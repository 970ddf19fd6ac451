-------------------------------- MODULE Server --------------------------------
(***************************************************************************)
(* The data-plane server (aa-server): it loads the validated metadata of   *)
(* earlier runs from a cache on disk, waits for a finalized block to       *)
(* anchor the kernel at, and publishes what the kernel knows.  One thread  *)
(* folds the inputs; effects run on a pool of threads, so between an       *)
(* answer written to the cache and the input that carries it the server    *)
(* may crash.  Only the cache survives a crash.                            *)
(*                                                                         *)
(* The kernel (ChainKernel) is reduced to its registries, to the pools     *)
(* that have logs on its volatile canonical line and to the metadata       *)
(* requests it makes for them.  Such a request that fails is issued again, *)
(* so it simply stays.  Equal answers to finality probes count as one.     *)
(***************************************************************************)
EXTENDS Naturals, FiniteSets

CONSTANTS
  Pool, Token,
  PairOf,        \* [Pool -> the set of the pool's tokens]
  ValidPools,    \* the pools whose metadata validates
  \* Bounds of the exploration.
  MaxProbes,     \* finality probes under way
  MaxCrashes,
  MaxFaults      \* probes without an answer, and faults of the cache

ASSUME ServerAssumption ==
  /\ PairOf \in [Pool -> SUBSET Token] /\ ValidPools \subseteq Pool
  /\ MaxProbes \in Nat \ {0} /\ MaxCrashes \in Nat /\ MaxFaults \in Nat

VARIABLES
  phase,      \* "Down" | "AwaitingSeed" | "AwaitingAnchor" | "Running"
  seed,       \* the registries loaded by this run, held until the anchor comes
  kernel,     \* the state of the kernel while running
  probes,     \* FetchFinalizedHeader effects under way
  requests,   \* other effects under way
  inbox,      \* answers not yet folded
  due,        \* whether the interval since the last publication is over
  view,       \* the published snapshot
  cache,      \* the metadata cache
  shown,      \* ghost: what any run has published
  lost,       \* ghost: what was validated, could not be stored, and is not stored
  kept,       \* ghost: what was published and stored when this run loaded the cache,
              \* but for the part a fault hid from it
  spent       \* crashes and faults so far

vars == <<phase, seed, kernel, probes, requests, inbox, due, view, cache, shown, lost, kept, spent>>

Tokens(pools) == UNION {PairOf[p] : p \in pools}

NoMetadata == [pools |-> {}, tokens |-> {}]
NoKernel == [pools |-> {}, rejected |-> {}, tokens |-> {}, window |-> {}, pending |-> {}]

Content == [pools : SUBSET Pool, tokens : SUBSET Token, states : SUBSET Pool]
View == INSTANCE ServedView WITH Contents <- {c \in Content : c.states \subseteq c.pools}

(***************************************************************************)
(* The metadata cache: what was validated, one transaction per answer.     *)
(***************************************************************************)
\* Faulty variant: an answer is stored only if it has no failure in it.
StoredWhole(known, asked, valid) == IF asked \subseteq valid THEN known \cup asked ELSE known

\* Failed results are left out.
Stored(known, asked, valid) == known \cup (asked \cap valid)

\* What a start reads: the pools, then the decimals of their tokens.  A fault leaves
\* the part it hits empty.
Loaded(poolFault, tokenFault) ==
  LET pools == IF poolFault THEN {} ELSE cache.pools
  IN [pools  |-> pools,
      tokens |-> IF tokenFault THEN {} ELSE cache.tokens \cap Tokens(pools)]

(***************************************************************************)
(* The kernel, reduced.                                                    *)
(***************************************************************************)
PendingItems(k, kind) == UNION {r.items : r \in {q \in k.pending : q.kind = kind}}

\* Scheduling: the metadata of unknown pools in the window, the decimals of the
\* unknown tokens of its verified ones, each item in one request.
Due(k) ==
  {r \in {[kind |-> "pools",
           items |-> k.window \ (k.pools \cup k.rejected \cup PendingItems(k, "pools"))],
          [kind |-> "tokens",
           items |-> Tokens(k.window \cap k.pools) \ (k.tokens \cup PendingItems(k, "tokens"))]} :
     r.items # {}}

Learned(k, a) ==
  LET rest == [k EXCEPT !.pending = @ \ {[kind |-> a.kind, items |-> a.items]}]
  IN IF a.kind = "pools"
     THEN [rest EXCEPT !.pools = @ \cup (a.items \cap ValidPools),
                       !.rejected = @ \cup (a.items \ ValidPools)]
     ELSE [rest EXCEPT !.tokens = @ \cup a.items]

\* Faulty variant: a new anchor activates a new kernel.
ReanchoredAfresh(k, window) == [NoKernel EXCEPT !.window = window]

\* Finality takes blocks, and their logs, out of the volatile window.
Reanchored(k, window) == [k EXCEPT !.window = window]

Activated(s) == [NoKernel EXCEPT !.pools = s.pools, !.tokens = s.tokens]

(***************************************************************************)
(* Steps of the fold.                                                      *)
(***************************************************************************)
Snapshot(ph, k, states) ==
  IF ph = "Running" THEN View!Shown([pools |-> k.pools, tokens |-> k.tokens, states |-> states])
  ELSE View!NoView

\* Faulty variant: only a change of the status is published.
PublishesStatus(v) == v.up # view.up

Publishes(v) == due

\* observe_state, after every input.  Which pools have a state is the kernel's matter.
Observe ==
  \E states \in SUBSET kernel'.pools :
    LET v == Snapshot(phase', kernel', states)
    IN IF Publishes(v)
       THEN /\ view' = v /\ due' = FALSE
            /\ shown' = [pools |-> shown.pools \cup v.pools, tokens |-> shown.tokens \cup v.tokens]
       ELSE /\ states = {} /\ UNCHANGED <<view, due, shown>>

\* A kernel event that ends in a scheduling pass.
Folds(k) ==
  /\ phase = "Running" /\ UNCHANGED phase
  /\ kernel' = [k EXCEPT !.pending = @ \cup Due(k)]
  /\ requests' = requests \cup Due(k)

Ignored == UNCHANGED <<phase, kernel, requests>>

\* One more probe (`MaxProbes` stands for more).
Probed(n) == IF n < MaxProbes THEN n + 1 ELSE n

\* The world and the cache, which no input of the fold changes.
Apart == UNCHANGED <<cache, lost, kept, spent>>

OnSeed(a) ==
  /\ a.kind = "seed" /\ phase = "AwaitingSeed"
  /\ inbox' = inbox \ {a}
  /\ phase' = "AwaitingAnchor" /\ seed' = a.items
  /\ probes' = 1
  /\ UNCHANGED <<kernel, requests>>
  /\ Observe /\ Apart

OnFirstAnchor(a) ==
  /\ a.kind = "anchor" /\ phase = "AwaitingAnchor"
  /\ inbox' = inbox \ {a}
  /\ phase' = "Running" /\ kernel' = Activated(seed) /\ seed' = NoMetadata
  /\ UNCHANGED <<probes, requests>>
  /\ Observe /\ Apart

OnAnchor(a) ==
  /\ a.kind = "anchor"
  /\ inbox' = inbox \ {a}
  /\ \E w \in SUBSET kernel.window : Folds(Reanchored(kernel, w))
  /\ UNCHANGED <<seed, probes>>
  /\ Observe /\ Apart

OnNoAnchor(a) ==
  /\ a.kind = "none"
  /\ inbox' = inbox \ {a}
  /\ probes' = IF phase = "AwaitingAnchor" THEN Probed(probes) ELSE probes
  /\ Ignored /\ UNCHANGED seed
  /\ Observe /\ Apart

OnMetadata(a) ==
  /\ a.kind \in {"pools", "tokens"}
  /\ inbox' = inbox \ {a}
  /\ Folds(Learned(kernel, a))
  /\ UNCHANGED <<seed, probes>>
  /\ Observe /\ Apart

\* A head with its logs: other pools are on the canonical line.  Before an anchor it
\* is dropped.
Head(w) ==
  /\ IF phase = "Running" THEN Folds([kernel EXCEPT !.window = w])
     ELSE phase # "Down" /\ w = {} /\ Ignored
  /\ UNCHANGED <<seed, probes, inbox>>
  /\ Observe /\ Apart

Tick ==
  /\ phase # "Down"
  /\ probes' = IF phase = "AwaitingSeed" THEN probes ELSE Probed(probes)
  /\ Ignored /\ UNCHANGED <<seed, inbox>>
  /\ Observe /\ Apart

(***************************************************************************)
(* The effects.                                                            *)
(***************************************************************************)
FoldUnchanged == UNCHANGED <<phase, seed, kernel, due, view, shown>>

LoadRegistrySeed ==
  \E poolFault, tokenFault \in BOOLEAN :
    LET faulty == poolFault \/ tokenFault
    IN /\ [kind |-> "seed", items |-> {}] \in requests
       /\ requests' = requests \ {[kind |-> "seed", items |-> {}]}
       /\ inbox' = inbox \cup {[kind |-> "seed", items |-> Loaded(poolFault, tokenFault)]}
       /\ faulty => spent.faults < MaxFaults
       /\ spent' = [spent EXCEPT !.faults = IF faulty THEN @ + 1 ELSE @]
       /\ kept' = [pools |-> IF poolFault THEN {} ELSE shown.pools \ lost.pools,
                  tokens |-> IF faulty THEN {} ELSE shown.tokens \ lost.tokens]
       /\ FoldUnchanged /\ UNCHANGED <<probes, cache, lost>>

ProbeAnswered(kind) ==
  /\ probes > 0 /\ probes' = probes - 1
  /\ inbox' = inbox \cup {[kind |-> kind, items |-> {}]}
  /\ FoldUnchanged /\ UNCHANGED <<requests, cache, lost, kept>>

AnchorFetched == ProbeAnswered("anchor") /\ UNCHANGED spent

AnchorMissed ==
  /\ spent.faults < MaxFaults
  /\ ProbeAnswered("none")
  /\ spent' = [spent EXCEPT !.faults = @ + 1]

\* The cached part of a metadata request is answered from the cache, the rest is
\* fetched, and what validates is stored before the answer is sent.
Resolve(r) ==
  /\ r \in requests /\ r.kind \in {"pools", "tokens"}
  /\ requests' = requests \ {r}
  /\ inbox' = inbox \cup {r}
  /\ LET misses == r.items \ cache[r.kind]
         valid  == IF r.kind = "pools" THEN misses \cap ValidPools ELSE misses
     IN \/ /\ cache' = [cache EXCEPT ![r.kind] = Stored(@, misses, valid)]
           /\ lost' = [lost EXCEPT ![r.kind] = @ \ valid]
           /\ UNCHANGED spent
        \/ /\ misses # {} /\ spent.faults < MaxFaults
           /\ lost' = [lost EXCEPT ![r.kind] = @ \cup valid]
           /\ spent' = [spent EXCEPT !.faults = @ + 1]
           /\ UNCHANGED cache
  /\ FoldUnchanged /\ UNCHANGED <<probes, kept>>

(***************************************************************************)
(* Time, crash and start.                                                  *)
(***************************************************************************)
Clock ==
  /\ phase # "Down" /\ ~due /\ due' = TRUE
  /\ UNCHANGED <<phase, seed, kernel, probes, requests, inbox, view, shown>> /\ Apart

Crash ==
  /\ phase # "Down" /\ spent.crashes < MaxCrashes
  /\ phase' = "Down" /\ seed' = NoMetadata /\ kernel' = NoKernel
  /\ probes' = 0 /\ requests' = {} /\ inbox' = {} /\ due' = FALSE
  /\ view' = View!NoView
  /\ spent' = [spent EXCEPT !.crashes = @ + 1]
  /\ UNCHANGED <<cache, shown, lost, kept>>

Start ==
  /\ phase = "Down"
  /\ phase' = "AwaitingSeed"
  /\ requests' = {[kind |-> "seed", items |-> {}]}
  /\ UNCHANGED <<seed, kernel, probes, inbox, due, view, shown>> /\ Apart

Init ==
  /\ phase = "Down" /\ seed = NoMetadata /\ kernel = NoKernel
  /\ probes = 0 /\ requests = {} /\ inbox = {} /\ due = FALSE
  /\ view = View!NoView
  /\ cache = NoMetadata /\ shown = NoMetadata /\ lost = NoMetadata /\ kept = NoMetadata
  /\ spent = [crashes |-> 0, faults |-> 0]

Kinds == {"seed", "anchor", "none", "pools", "tokens"}

Handle(a) == OnSeed(a) \/ OnFirstAnchor(a) \/ OnAnchor(a) \/ OnNoAnchor(a) \/ OnMetadata(a)
Handled(kind) == \E a \in {b \in inbox : b.kind = kind} : Handle(a)
Resolved(kind) == \E q \in {o \in requests : o.kind = kind} : Resolve(q)

Next ==
  \/ Tick
  \/ \E kind \in Kinds : Handled(kind) \/ Resolved(kind)
  \/ \E w \in SUBSET Pool : Head(w)
  \/ LoadRegistrySeed \/ AnchorFetched \/ AnchorMissed
  \/ Clock \/ Crash \/ Start

Spec == Init /\ [][Next]_vars

\* The supervisor starts the server, the threads run, the inputs come in order, time
\* passes.
Fairness ==
  /\ WF_vars(Start) /\ WF_vars(Tick) /\ WF_vars(Clock)
  /\ WF_vars(LoadRegistrySeed) /\ WF_vars(AnchorFetched)
  /\ \A kind \in Kinds : WF_vars(Handled(kind)) /\ WF_vars(Resolved(kind))

LiveSpec == Spec /\ Fairness

(***************************************************************************)
(* Properties.                                                             *)
(***************************************************************************)
\* Every variable has its type.
TypeOK ==
  /\ phase \in {"Down", "AwaitingSeed", "AwaitingAnchor", "Running"}
  /\ phase # "Running" => kernel = NoKernel /\ ~view.up
  /\ probes \in 0 .. MaxProbes
  /\ \A r \in requests \cup inbox : r.kind \in Kinds
  /\ cache.pools \subseteq ValidPools /\ cache.tokens \subseteq Token
  /\ kernel.pools \subseteq ValidPools

\* What any run has published, a later run publishes from its first view on, unless
\* it could not be stored or this run could not read it.
NothingForgotten ==
  view.up =>
    /\ kept.pools \subseteq view.pools
    /\ kept.tokens \cap Tokens(kept.pools) \subseteq view.tokens

\* The server implements the view its clients are promised.
ImplementsView == View!ViewSpec

\* Whatever probe fails, the server gets to serve, and a pool that keeps trading is
\* served in the end, with the decimals of its tokens, also when the run that validated
\* it crashed before the decimals were known.
TradedPoolsServed ==
  /\ <>[](view.up)
  /\ \A p \in ValidPools :
       []<>(p \in kernel.window) => <>[](p \in view.pools /\ PairOf[p] \subseteq view.tokens)
=============================================================================
