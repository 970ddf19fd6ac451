---------------------------- MODULE ClientEngine ----------------------------
(***************************************************************************)
(* The client engine (aa-client-core): a reducer that polls a server, a    *)
(* ledger of its requests, the pool of threads that runs its effects, and  *)
(* the optimizer worker it feeds through a coalescing slot.                *)
(*                                                                         *)
(* The engine thread takes one input at a time.  The effects of an input   *)
(* are handed to a new thread, so they run in any order and their answers  *)
(* come back in any order; a request that hangs keeps its pool thread for  *)
(* good (the HTTP agent has no timeout).  The worker is one thread, its    *)
(* events stay in order.                                                   *)
(*                                                                         *)
(* `health` and `last_error`, which nothing reads, are left out.  A fetch  *)
(* id is any id that is not in use for its kind, for ids are only compared *)
(* for equality.  The age of a request stands for the tick clock.          *)
(***************************************************************************)
EXTENDS RoutingFilter, Sequences, LatestSlot

CONSTANTS
  None,
  DefaultRoute,  \* the route of `init`
  Routes,        \* the routes a user may set
  Polled,        \* {"health"}, or {} to leave the health poll out
  TTL,           \* FETCH_TTL_TICKS
  Threads,       \* effect_pool_size
  \* Bounds of the exploration.
  FetchId,       \* ids of the requests of one kind that can be under way
  MaxPushes,     \* pushes not yet run
  MaxSteps,      \* results of the worker not yet read
  MaxRetargets,  \* routes set
  MaxHung, MaxFailed, MaxSlow   \* requests that hang, fail, are answered too late

ASSUME EngineAssumption ==
  /\ DefaultRoute \in Route /\ Routes \subseteq Route
  /\ Polled \subseteq {"health"}
  /\ TTL \in Nat \ {0} /\ Threads \in Nat \ {0}
  /\ MaxPushes \in Nat \ {0} /\ MaxSteps \in Nat \ {0}
  /\ MaxRetargets \in Nat /\ MaxHung \in Nat /\ MaxFailed \in Nat /\ MaxSlow \in Nat

VARIABLES
  route,     \* the route of the session configuration
  catalog,   \* the pools of the held catalog, None before one
  work,      \* "Bootstrapping" | "NoRoute" | "Optimizing"
  latest,    \* the time stamp of the reserves last pushed, None unless optimizing
  plan,      \* the route the displayed result was computed for, None without one
  slots,     \* PendingFetches: for each kind the request that counts, or None
  calls,     \* requests spawned and not answered
  pushes,    \* snapshots to push, spawned and not run
  hung,      \* pool threads that wait for an answer that never comes
  inbox,     \* answers not yet read by the engine
  slot,      \* the slot between engine and worker
  worker,    \* the snapshot of the worker's session, None while it waits for one
  steps,     \* events of the worker not yet read by the engine
  spent      \* how often a route was set, a request failed or was overtaken

reducerVars == <<route, catalog, work, latest, plan, slots>>
engineVars == <<reducerVars, calls, pushes, hung, inbox, slot, worker, steps, spent>>

Kinds == {"meta", "slice"} \cup Polled

\* Faulty variant: an answer is taken for whatever request is pending.
AcceptsAny(pending, answer) == pending[answer.kind] # None

Accepts(pending, answer) ==
  pending[answer.kind] # None /\ pending[answer.kind].id = answer.id

Fresh(pending, k) == pending[k] # None /\ pending[k].age < TTL

Freed(pending, k) == [pending EXCEPT ![k] = None]

Advanced(pending) ==
  [k \in Kinds |-> IF pending[k] = None THEN None
                   ELSE [pending[k] EXCEPT !.age = IF @ < TTL THEN @ + 1 ELSE TTL]]

InUse(k) ==
  {c.id : c \in {d \in calls \cup inbox : d.kind = k}}
    \cup (IF slots[k] = None THEN {} ELSE {slots[k].id})
NewId(k) == CHOOSE i \in FetchId \ InUse(k) : TRUE

\* A request; only `/slice` names pools.
Call(k, id, pools) == [kind |-> k, id |-> id, pools |-> IF k = "slice" THEN pools ELSE {}]

\* `ensure` for several kinds: those without a fresh request get a new one.
Ensure(kinds, pending, pools) ==
  LET due == {k \in kinds : ~Fresh(pending, k)}
  IN /\ \A k \in due : FetchId \ InUse(k) # {}
     /\ slots' = [k \in Kinds |-> IF k \in due THEN [id |-> NewId(k), age |-> 0] ELSE pending[k]]
     /\ calls' = calls \cup {Call(k, NewId(k), pools) : k \in due}

\* `Catalog::parse`: a pool is admitted if the decimals of both its tokens are known.
Admitted(meta) == {p \in meta.pools : PairOf[p] \subseteq meta.tokens}

\* `Catalog::project`.
Projected(slice) == slice.pools \cap catalog

(***************************************************************************)
(* The reducer.                                                            *)
(***************************************************************************)
Wanted == Polled \cup {IF catalog = None THEN "meta" ELSE "slice"}

EngineInit ==
  LET first == CHOOSE i \in FetchId : TRUE
  IN /\ route = DefaultRoute
     /\ catalog = None /\ work = "Bootstrapping" /\ latest = None /\ plan = None
     /\ slots = [k \in Kinds |-> IF k = "slice" THEN None ELSE [id |-> first, age |-> 0]]
     /\ calls = {Call(k, first, {}) : k \in Kinds \ {"slice"}}
     /\ pushes = <<>> /\ hung = 0 /\ inbox = {}
     /\ slot = EmptySlot /\ worker = None /\ steps = <<>>
     /\ spent = [routes |-> 0, failed |-> 0, slow |-> 0]

\* The requests of the given kinds that expired although their answer is on its way.
Overtaken(kinds, pending) ==
  {k \in kinds : /\ pending[k] # None /\ ~Fresh(pending, k)
                 /\ \E c \in calls \cup inbox : c.kind = k /\ c.id = pending[k].id}

Tick ==
  LET aged == Advanced(slots)
      slow == spent.slow + Cardinality(Overtaken(Wanted, aged))
  IN /\ Ensure(Wanted, aged, catalog)
     /\ slow <= MaxSlow
     /\ spent' = [spent EXCEPT !.slow = slow]
     /\ UNCHANGED <<route, catalog, work, latest, plan, pushes, hung, inbox, slot, worker, steps>>

\* An answer is read and counts.
Accepted(a) == a \in inbox /\ Accepts(slots, a) /\ inbox' = inbox \ {a}

OnSuperseded(a) ==
  /\ a \in inbox /\ ~Accepts(slots, a)
  /\ inbox' = inbox \ {a}
  /\ UNCHANGED <<reducerVars, calls, pushes, hung, slot, worker, steps, spent>>

\* A failed request, or the answer to a health poll, only frees its slot.
OnFailureOrHealth(a) ==
  /\ ~a.ok \/ a.kind = "health"
  /\ Accepted(a)
  /\ slots' = Freed(slots, a.kind)
  /\ UNCHANGED <<route, catalog, work, latest, plan, calls, pushes, hung, slot, worker, steps, spent>>

OnMeta(a) ==
  /\ a.ok /\ a.kind = "meta"
  /\ Accepted(a)
  /\ catalog' = Admitted(a)
  /\ Ensure({"slice"}, Freed(slots, "meta"), catalog')
  /\ UNCHANGED <<route, work, latest, plan, pushes, hung, slot, worker, steps, spent>>

Productive(pools) == pools # {} /\ <<pools, route>> \in Covering

\* An unproductive slice leaves a running optimization alone.
Settled(w) == IF w = "Optimizing" THEN w ELSE "NoRoute"

OnUnproductiveSlice(a) ==
  /\ a.ok /\ a.kind = "slice" /\ ~Productive(Projected(a))
  /\ Accepted(a)
  /\ slots' = Freed(slots, "slice")
  /\ work' = Settled(work)
  /\ UNCHANGED <<route, catalog, latest, plan, calls, pushes, hung, slot, worker, steps, spent>>

OnProductiveSlice(a) ==
  /\ a.ok /\ a.kind = "slice" /\ Productive(Projected(a))
  /\ Accepted(a)
  /\ slots' = Freed(slots, "slice")
  /\ work' = "Optimizing"
  /\ latest' = a.at
  /\ Len(pushes) < MaxPushes
  /\ pushes' = Append(pushes, [route |-> route, pools |-> Projected(a), at |-> a.at])
  /\ UNCHANGED <<route, catalog, plan, calls, hung, slot, worker, steps, spent>>

OnAnswer(a) ==
  \/ OnSuperseded(a) \/ OnFailureOrHealth(a) \/ OnMeta(a)
  \/ OnUnproductiveSlice(a) \/ OnProductiveSlice(a)

\* A result that arrives while not optimizing is ignored.
OnStep ==
  /\ steps # <<>>
  /\ plan' = IF work = "Optimizing" THEN Head(steps) ELSE plan
  /\ steps' = Tail(steps)
  /\ UNCHANGED <<route, catalog, work, latest, slots, calls, pushes, hung, inbox, slot, worker, spent>>

SetRoute(r) ==
  /\ r # route /\ spent.routes < MaxRetargets
  /\ route' = r
  /\ work' = "Bootstrapping" /\ latest' = None /\ plan' = None
  /\ spent' = [spent EXCEPT !.routes = @ + 1]
  /\ UNCHANGED <<catalog, slots, calls, pushes, hung, inbox, slot, worker, steps>>

(***************************************************************************)
(* The pool threads.                                                       *)
(***************************************************************************)
Reply(c, ok, pools, tokens, t) ==
  [kind |-> c.kind, id |-> c.id, ok |-> ok, pools |-> pools, tokens |-> tokens, at |-> t]
Failure(c) == Reply(c, FALSE, {}, {}, 0)

\* What a server with the given view answers; before an anchor only `/health` does.
Response(c, v, t) ==
  CASE c.kind = "health"             -> Reply(c, TRUE, {}, {}, 0)
    [] c.kind # "health" /\ ~v.up -> Failure(c)
    [] c.kind = "meta" /\ v.up    -> Reply(c, TRUE, v.pools, v.tokens, 0)
    [] c.kind = "slice" /\ v.up   -> Reply(c, TRUE, v.states \cap c.pools, {}, t)

ThreadFree == hung < Threads

Finish(c, reply) ==
  /\ ThreadFree /\ c \in calls
  /\ calls' = calls \ {c}
  /\ inbox' = inbox \cup {reply}
  /\ UNCHANGED <<reducerVars, pushes, hung, slot, worker, steps>>

Answer(c, v, t) == Finish(c, Response(c, v, t)) /\ UNCHANGED spent

Fail(c) ==
  /\ spent.failed < MaxFailed
  /\ Finish(c, Failure(c))
  /\ spent' = [spent EXCEPT !.failed = @ + 1]

Hang(c) ==
  /\ ThreadFree /\ c \in calls /\ hung < MaxHung
  /\ calls' = calls \ {c}
  /\ hung' = hung + 1
  /\ UNCHANGED <<reducerVars, pushes, inbox, slot, worker, steps, spent>>

Deliver(i) ==
  /\ ThreadFree /\ i \in DOMAIN pushes
  /\ slot' = Sent(slot, pushes[i])
  /\ pushes' = SubSeq(pushes, 1, i - 1) \o SubSeq(pushes, i + 1, Len(pushes))
  /\ UNCHANGED <<reducerVars, calls, hung, inbox, worker, steps, spent>>

(***************************************************************************)
(* The optimizer worker.                                                   *)
(***************************************************************************)
WorkerUnchanged == UNCHANGED <<reducerVars, calls, pushes, hung, inbox, spent>>

StepDone(r) == Len(steps) < MaxSteps /\ steps' = Append(steps, r)

\* A session for `s` starts, or is given up because `s` does not cover its route;
\* any other failure ends the worker.
StartSession(s) ==
  LET starts == <<s.pools, s.route>> \in Steppable
      gap    == <<s.pools, s.route>> \in Gapped
  IN /\ worker' = IF starts THEN s ELSE None
     /\ IF starts THEN StepDone(s.route) ELSE UNCHANGED steps
     /\ slot' = IF starts \/ gap THEN Taken(slot) ELSE Closed(Taken(slot))

WorkerPark ==
  /\ worker = None /\ ~Holds(slot) /\ ~slot.closed /\ ~slot.parked
  /\ slot' = Parked(slot)
  /\ UNCHANGED <<worker, steps>> /\ WorkerUnchanged

\* A snapshot that does not cover the route is skipped, the session goes on.
Refresh(s) ==
  LET usable == <<s.pools, worker.route>> \in Covering
      survives == usable => <<s.pools, worker.route>> \in Steppable
  IN /\ worker' = IF ~survives THEN None ELSE IF usable THEN [s EXCEPT !.route = worker.route] ELSE worker
     /\ IF survives THEN StepDone(worker.route) ELSE UNCHANGED steps
     /\ slot' = IF survives THEN Taken(slot) ELSE Closed(Taken(slot))

\* A snapshot for another route than the session's needs a new session.
NewSession(s) == worker = None \/ worker.route # s.route

WorkerTakes ==
  /\ Holds(slot) /\ ~slot.parked /\ ~slot.closed
  /\ LET s == slot.value
     IN IF NewSession(s) THEN StartSession(s) ELSE Refresh(s)
  /\ WorkerUnchanged

WorkerContinues ==
  /\ worker # None /\ ~Holds(slot)
  /\ StepDone(worker.route)
  /\ UNCHANGED <<slot, worker>> /\ WorkerUnchanged

WorkerNext == WorkerPark \/ WorkerTakes \/ WorkerContinues

EngineNext ==
  \/ Tick
  \/ \E a \in inbox : OnAnswer(a)
  \/ OnStep
  \/ \E r \in Routes : SetRoute(r)
  \/ \E c \in calls : Fail(c) \/ Hang(c)
  \/ \E i \in DOMAIN pushes : Deliver(i)
  \/ WorkerNext

\* The clock ticks, the engine reads what is in its channel, the pool runs its
\* effects while it has a thread, the worker runs.
EngineFairness ==
  /\ WF_engineVars(Tick) /\ WF_engineVars(OnStep)
  /\ WF_engineVars(\E a \in inbox : OnAnswer(a))
  /\ WF_engineVars(Deliver(1)) /\ WF_engineVars(WorkerNext)
=============================================================================
