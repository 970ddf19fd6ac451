---------------------------- MODULE DataPlaneProofs ----------------------------
(***************************************************************************)
(* What the data plane keeps for every value of its constants: any pools,  *)
(* routes, views, fetch ids, pool threads and numbers of failures.         *)
(*                                                                         *)
(* NeverOlder needs to know that the one answer a slot still waits for     *)
(* cannot be older than the reserves in use: the slot was freed when they  *)
(* were taken, and its next id belonged to no answer under way.            *)
(* WorkerSurvives needs that whatever was handed over passed the gate of   *)
(* the reducer, and that the gate is no weaker than the step.              *)
(***************************************************************************)
EXTENDS DataPlane, TLAPS

(***************************************************************************)
(* Nothing older than what is used.                                        *)
(***************************************************************************)
\* The answer the slot of the slices waits for, when it is in the inbox.
Awaited(a) == a.kind = "slice" /\ slots["slice"] # None /\ a.id = slots["slice"].id

AgeInv ==
  /\ at \in Nat
  /\ latest # None => latest \in Nat /\ latest <= at
  /\ DOMAIN slots = Kinds
  /\ \A c \in calls : c.kind \in Kinds
  /\ \A a \in inbox : a.at \in Nat /\ a.at <= at
  /\ latest # None => \A a \in inbox : Awaited(a) /\ a.ok => latest <= a.at

\* A fresh id belongs to no request under way and to no answer.
LEMMA NewIdUnused ==
  ASSUME NEW k, FetchId \ InUse(k) # {}
  PROVE  /\ NewId(k) \in FetchId
         /\ \A d \in calls \cup inbox : d.kind = k => d.id # NewId(k)
<1>1. NewId(k) \in FetchId \ InUse(k)
  BY DEF NewId
<1>. QED
  BY <1>1 DEF InUse

\* ensure: the slot of the slices is as it was given, aged perhaps, or holds an id that
\* no answer has.
LEMMA EnsureStep ==
  ASSUME NEW kinds \in SUBSET Kinds, NEW pending, NEW pools, Ensure(kinds, pending, pools),
         \A c \in calls : c.kind \in Kinds
  PROVE  /\ DOMAIN slots' = Kinds
         /\ \A c \in calls' : c.kind \in Kinds
         /\ \/ slots'["slice"] = pending["slice"]
            \/ \A a \in inbox : a.kind = "slice" => a.id # slots'["slice"].id
<1>1. "slice" \in Kinds
  BY DEF Kinds
<1>2. DOMAIN slots' = Kinds /\ \A c \in calls' : c.kind \in Kinds
  BY DEF Ensure, Call
<1>3. CASE "slice" \in kinds /\ ~Fresh(pending, "slice")
  <2>1. FetchId \ InUse("slice") # {}
    BY <1>3 DEF Ensure
  <2>2. slots'["slice"].id = NewId("slice")
    BY <1>1, <1>3 DEF Ensure
  <2>. QED
    BY <1>2, <2>1, <2>2, NewIdUnused
<1>4. CASE ~("slice" \in kinds /\ ~Fresh(pending, "slice"))
  BY <1>1, <1>2, <1>4 DEF Ensure
<1>. QED
  BY <1>3, <1>4

\* An answer that comes in bears the stamp of the view it was read from; a failure none.
LEMMA ResponseStamp ==
  ASSUME NEW c, c.kind \in Kinds, NEW v, NEW t
  PROVE  LET a == Response(c, v, t)
         IN a.at \in {0, t} /\ (a.kind = "slice" /\ a.ok => a.at = t)
<1>1. c.kind \in {"health", "meta", "slice"}
  BY EngineAssumption DEF Kinds
<1>2. CASE c.kind = "health"
  BY <1>2 DEF Response, Reply
<1>3. CASE c.kind # "health" /\ ~v.up
  BY <1>3 DEF Response, Reply, Failure
<1>4. CASE c.kind = "meta" /\ v.up
  BY <1>4 DEF Response, Reply
<1>5. CASE c.kind = "slice" /\ v.up
  BY <1>5 DEF Response, Reply
<1>. QED
  BY <1>1, <1>2, <1>3, <1>4, <1>5

AgeKept == AgeInv' /\ (latest # None /\ latest' # None => latest' >= latest)

\* A step that puts nothing into the inbox and leaves the rest of AgeInv alone.
LEMMA AgeStutter ==
  ASSUME AgeInv, UNCHANGED <<slots, latest>>, inbox' \subseteq inbox, calls' \subseteq calls,
         at' \in Nat, at <= at'
  PROVE  AgeKept
BY DEF AgeInv, AgeKept, Awaited

\* Every answer the reducer reads.
LEMMA AgeOnAnswer ==
  ASSUME AgeInv, NEW a \in inbox, OnAnswer(a), UNCHANGED at
  PROVE  AgeKept
<1> USE DEF AgeInv
<1>0. "slice" \in Kinds /\ "meta" \in Kinds
  BY DEF Kinds
<1>1. CASE OnSuperseded(a)
  BY <1>1, AgeStutter DEF OnSuperseded, reducerVars
<1>2. CASE OnFailureOrHealth(a)
  BY <1>0, <1>2 DEF OnFailureOrHealth, Accepted, Freed, Awaited, AgeKept
<1>3. CASE OnMeta(a)
  <2> DEFINE freed == Freed(slots, "meta")
  <2>1. freed["slice"] = slots["slice"]
    BY <1>0 DEF Freed
  <2>2. {"slice"} \in SUBSET Kinds /\ Ensure({"slice"}, freed, catalog')
    BY <1>0, <1>3 DEF OnMeta
  <2> HIDE DEF freed
  <2>. QED
    BY <1>3, <2>1, <2>2, EnsureStep DEF OnMeta, Accepted, Awaited, AgeKept
<1>4. CASE OnUnproductiveSlice(a)
  BY <1>0, <1>4 DEF OnUnproductiveSlice, Accepted, Freed, Awaited, AgeKept
<1>5. CASE OnProductiveSlice(a)
  <2>1. Awaited(a) /\ a.ok
    BY <1>5 DEF OnProductiveSlice, Accepted, Accepts, Awaited
  <2>2. slots'["slice"] = None
    BY <1>0, <1>5 DEF OnProductiveSlice, Freed
  <2>. QED
    BY <1>5, <2>1, <2>2 DEF OnProductiveSlice, Accepted, Freed, Awaited, AgeKept
<1>. QED
  BY <1>1, <1>2, <1>3, <1>4, <1>5 DEF OnAnswer

\* Every step.
LEMMA AgeStep ==
  ASSUME AgeInv, [Next]_vars
  PROVE  AgeKept
<1> USE DEF AgeInv
<1>0. "slice" \in Kinds
  BY DEF Kinds
<1>1. CASE ServerStep
  BY <1>1, AgeStutter DEF ServerStep, engineVars, reducerVars
<1>2. ASSUME NEW c \in calls, Answer(c, view, at), UNCHANGED serverVars PROVE AgeKept
  <2> DEFINE a == Response(c, view, at)
  <2>1. /\ inbox' = inbox \cup {a} /\ calls' = calls \ {c}
        /\ slots' = slots /\ latest' = latest /\ at' = at
    BY <1>2 DEF Answer, Finish, reducerVars, serverVars
  <2>2. a.at \in {0, at} /\ (a.kind = "slice" /\ a.ok => a.at = at)
    BY ResponseStamp
  <2> HIDE DEF a
  <2>. QED
    BY <2>1, <2>2 DEF Awaited, AgeKept
<1>3. ASSUME NEW a \in inbox, OnAnswer(a), UNCHANGED serverVars PROVE AgeKept
  BY <1>3, AgeOnAnswer DEF serverVars
<1>4. CASE Tick /\ UNCHANGED serverVars
  <2>1. PICK pending, pools : pending["slice"] = Advanced(slots)["slice"] /\ Ensure(Wanted, pending, pools)
    BY <1>4 DEF Tick
  <2>2. Wanted \in SUBSET Kinds
    BY DEF Wanted, Kinds
  <2>3. Advanced(slots)["slice"] # None => slots["slice"] # None /\ Advanced(slots)["slice"].id = slots["slice"].id
    BY <1>0 DEF Advanced
  <2>. QED
    BY <1>4, <2>1, <2>2, <2>3, EnsureStep DEF Tick, serverVars, Awaited, AgeKept
<1>5. ASSUME NEW c \in calls, Fail(c), UNCHANGED serverVars PROVE AgeKept
  BY <1>5 DEF Fail, Finish, Failure, Reply, reducerVars, serverVars, Awaited, AgeKept
<1>6. ASSUME NEW c \in calls, Hang(c), UNCHANGED serverVars PROVE AgeKept
  BY <1>6, AgeStutter DEF Hang, reducerVars, serverVars
<1>7. ASSUME NEW r \in Routes, SetRoute(r), UNCHANGED serverVars PROVE AgeKept
  BY <1>7 DEF SetRoute, serverVars, Awaited, AgeKept
<1>8. CASE UNCHANGED <<slots, latest, inbox, calls, at>>
  BY <1>8, AgeStutter
<1>9. ClientStep =>
        \/ \E a \in inbox : OnAnswer(a) /\ UNCHANGED serverVars
        \/ Tick /\ UNCHANGED serverVars
        \/ \E c \in calls : (Fail(c) \/ Hang(c)) /\ UNCHANGED serverVars
        \/ \E r \in Routes : SetRoute(r) /\ UNCHANGED serverVars
        \/ UNCHANGED <<slots, latest, inbox, calls, at>>
  BY DEF ClientStep, EngineNext, OnStep, Deliver, WorkerNext, WorkerPark, WorkerTakes, WorkerContinues,
         WorkerUnchanged, reducerVars, serverVars
<1>. QED
  BY <1>1, <1>2, <1>3, <1>4, <1>5, <1>6, <1>7, <1>8, <1>9
  DEF Next, Answered, vars, engineVars, reducerVars, serverVars

\* The reserves in use never get older: PendingFetches takes an answer only for the
\* request that asked last (aa-client-core pending.rs, state.rs).
THEOREM ReservesNeverOlder == Spec => NeverOlder
<1>1. Init => AgeInv
  BY DEF Init, EngineInit, AgeInv, Kinds, Call
<1>2. AgeInv /\ [Next]_vars => AgeInv' /\ (latest # None /\ latest' # None => latest' >= latest)
  BY AgeStep DEF AgeKept
<1>. QED
  BY <1>1, <1>2, PTL DEF Spec, NeverOlder
(***************************************************************************)
(* The worker survives.                                                    *)
(***************************************************************************)
\* The snapshots that passed the gate of the reducer.
GatedPush == {s \in [route : Route, pools : SUBSET Pool, at : Nat] : <<s.pools, s.route>> \in Covering}

GateInv ==
  /\ pushes \in Seq(GatedPush)
  /\ Holds(slot) => slot.value \in GatedPush
  /\ \E v, parked : slot = [value |-> v, closed |-> FALSE, parked |-> parked]

\* reaches_route is no weaker than the checks of a step.
LEMMA GateSuffices ==
  ASSUME NEW s \in Covering
  PROVE  s \in Snapshots /\ s \in Steppable
<1>1. s \in Snapshots /\ ReachesRoute(s[1], s[2])
  BY DEF Covering
<1>2. StepOutcome(s[1], s[2]) = "Stepped"
  BY <1>1 DEF ReachesRoute, StepOutcome, Touches
<1>. QED
  BY <1>1, <1>2 DEF Steppable

\* A productive slice is pushed with the route it was checked for.
LEMMA ProductivePassed ==
  ASSUME NEW pools, Productive(pools), NEW t \in Nat
  PROVE  [route |-> route, pools |-> pools, at |-> t] \in GatedPush
<1>1. <<pools, route>> \in Covering
  BY DEF Productive
<1>2. pools \in SUBSET Pool /\ route \in Route
  BY <1>1, GateSuffices DEF Snapshots
<1>. QED
  BY <1>1, <1>2 DEF GatedPush

\* What the worker takes starts a session or is skipped by the one that runs.
LEMMA WorkerTakesGated ==
  ASSUME GateInv, WorkerTakes
  PROVE  GateInv'
<1> DEFINE s == slot.value
<1>1. s \in GatedPush /\ pushes' = pushes
  BY DEF WorkerTakes, GateInv, WorkerUnchanged
<1>2. <<s.pools, s.route>> \in Steppable
  BY <1>1, GateSuffices DEF GatedPush
<1>3. slot' = Taken(slot)
  <2>1. CASE NewSession(s)
    BY <1>2, <2>1 DEF WorkerTakes, StartSession
  <2>2. CASE ~NewSession(s)
    <3>1. <<s.pools, worker.route>> \in Covering => <<s.pools, worker.route>> \in Steppable
      BY GateSuffices
    <3>. QED
      BY <2>2, <3>1 DEF WorkerTakes, Refresh
  <2>. QED
    BY <2>1, <2>2
<1>. QED
  <2>1. PICK v, parked : slot = [value |-> v, closed |-> FALSE, parked |-> parked]
    BY DEF GateInv
  <2>2. slot' = [value |-> NoValue, closed |-> FALSE, parked |-> parked]
    BY <1>3, <2>1 DEF Taken
  <2>. QED
    BY <1>1, <2>2 DEF GateInv, Holds

\* Every step.
LEMMA GateStep ==
  ASSUME AgeInv, GateInv, [Next]_vars
  PROVE  GateInv'
<1>1. CASE UNCHANGED <<pushes, slot>>
  BY <1>1 DEF GateInv, Holds
<1>2. ASSUME NEW a \in inbox, OnProductiveSlice(a) PROVE GateInv'
  <2>1. a.at \in Nat
    BY DEF AgeInv
  <2>2. [route |-> route, pools |-> Projected(a), at |-> a.at] \in GatedPush
    BY <1>2, <2>1, ProductivePassed DEF OnProductiveSlice
  <2>3. pushes' \in Seq(GatedPush)
    BY <1>2, <2>2 DEF OnProductiveSlice, GateInv
  <2>4. slot' = slot
    BY <1>2 DEF OnProductiveSlice
  <2>. QED
    BY <2>3, <2>4 DEF GateInv, Holds
<1>3. ASSUME NEW i \in DOMAIN pushes, Deliver(i) PROVE GateInv'
  <2>1. pushes[i] \in GatedPush /\ i \in 1 .. Len(pushes)
    BY DEF GateInv
  <2>2. slot' = [value |-> pushes[i], closed |-> FALSE, parked |-> FALSE]
    <3>1. PICK v, parked : slot = [value |-> v, closed |-> FALSE, parked |-> parked]
      BY DEF GateInv
    <3>. QED
      BY <1>3, <3>1 DEF Deliver, Sent
  <2>3. SubSeq(pushes, 1, i - 1) \in Seq(GatedPush) /\ SubSeq(pushes, i + 1, Len(pushes)) \in Seq(GatedPush)
    BY <2>1 DEF GateInv
  <2>4. pushes' \in Seq(GatedPush)
    BY <1>3, <2>3 DEF Deliver
  <2>5. slot'.value = pushes[i]
    BY <2>2
  <2>6. \E v, parked : slot' = [value |-> v, closed |-> FALSE, parked |-> parked]
    BY <2>2
  <2>. QED
    BY <2>1, <2>4, <2>5, <2>6 DEF GateInv
<1>4. CASE WorkerPark
  <2>1. PICK v, parked : slot = [value |-> v, closed |-> FALSE, parked |-> parked]
    BY DEF GateInv
  <2>2. slot' = [value |-> v, closed |-> FALSE, parked |-> TRUE] /\ pushes' = pushes
    BY <1>4, <2>1 DEF WorkerPark, WorkerUnchanged, Parked
  <2>. QED
    BY <2>1, <2>2 DEF GateInv, Holds
<1>5. CASE WorkerTakes
  BY <1>5, WorkerTakesGated
<1>6. \/ UNCHANGED <<pushes, slot>>
      \/ \E a \in inbox : OnProductiveSlice(a)
      \/ \E i \in DOMAIN pushes : Deliver(i)
      \/ WorkerPark
      \/ WorkerTakes
  BY DEF Next, vars, engineVars, reducerVars, serverVars, ServerStep, ClientStep, EngineNext, Answered, Answer,
         Fail, Finish, Hang, Tick, SetRoute, OnStep, OnAnswer, OnSuperseded, OnFailureOrHealth, OnMeta,
         OnUnproductiveSlice, WorkerNext, WorkerContinues, WorkerUnchanged
<1>. QED
  BY <1>1, <1>2, <1>3, <1>4, <1>5, <1>6

\* The worker never dies: the reducer hands over only what a step accepts, so no snapshot
\* ends the worker thread (aa-client-core state.rs, optimization execution.rs).
THEOREM WorkerLives == Spec => []WorkerSurvives
<1>1. Init => AgeInv /\ GateInv
  <2> SUFFICES ASSUME Init PROVE AgeInv /\ GateInv
    OBVIOUS
  <2>1. AgeInv
    BY DEF Init, EngineInit, AgeInv, Kinds, Call
  <2>2. slot = [value |-> NoValue, closed |-> FALSE, parked |-> FALSE]
    BY DEF Init, EngineInit, EmptySlot
  <2>3. ~Holds(slot) /\ \E v, parked : slot = [value |-> v, closed |-> FALSE, parked |-> parked]
    BY <2>2 DEF Holds
  <2>4. pushes \in Seq(GatedPush)
    BY DEF Init, EngineInit
  <2>. QED
    BY <2>1, <2>3, <2>4 DEF GateInv
<1>2. AgeInv /\ GateInv /\ [Next]_vars => AgeInv' /\ GateInv'
  BY AgeStep, GateStep DEF AgeKept
<1>3. GateInv => WorkerSurvives
  BY DEF GateInv, WorkerSurvives
<1>. QED
  BY <1>1, <1>2, <1>3, PTL DEF Spec
================================================================================
