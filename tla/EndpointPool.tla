----------------------------- MODULE EndpointPool -----------------------------
(***************************************************************************)
(* The pool of HTTP endpoints of a chain (client-evm/src/endpoints.rs):    *)
(* weighted rotation, cooldowns, and failover inside a request.  Several   *)
(* effect threads share a pool; the lock is held to pick an endpoint and   *)
(* to report on it, never across the attempt, so an attempt may end long   *)
(* after others have changed the health it was picked by.                  *)
(*                                                                         *)
(* Time is relative: `cooldown` is what is left of it (0 for none or       *)
(* over), `age` how long ago the attempt took its `now`.  Endpoint i is    *)
(* the i-th one configured.  Which endpoints answer is up to the world.    *)
(***************************************************************************)
EXTENDS Integers, Sequences, FiniteSetsExt

CONSTANTS
  Weightings,    \* the weights a pool may be configured with, one sequence each
  Rotations,     \* more of them, for the rotation alone
  Thread,        \* the effect threads
  Base, MaxShift, Cap,   \* COOLDOWN_BASE, MAX_BACKOFF_SHIFT, COOLDOWN_CAP
  \* Bounds of the exploration.
  MaxAge,        \* an attempt as old as this gets no older
  MaxOutages     \* how often an endpoint goes down

ASSUME PoolAssumption ==
  /\ (Weightings \cup Rotations) \subseteq (Seq(Nat) \ {<<>>})
  /\ {Base, Cap, MaxAge} \subseteq Nat \ {0} /\ {MaxShift, MaxOutages} \subseteq Nat

\* A fact of arithmetic the provers do not know.
ASSUME PowerAssumption == \A n \in 0 .. MaxShift : 2 ^ n \in Nat

VARIABLES
  weights,   \* the weights of the pool, fixed
  order,     \* the rotation, fixed
  cursor,    \* modulo the length of the rotation
  health,    \* for each endpoint [failures, cooldown]
  calls,     \* for each thread its `with_failover`
  down,      \* the endpoints that do not answer
  outages    \* how often one went down

poolVars == <<weights, order, cursor, health>>
vars == <<poolVars, calls, down, outages>>

Endpoints == DOMAIN weights

(***************************************************************************)
(* smooth_weighted_order: every round raises each endpoint by its weight,  *)
(* takes the highest, the last one of equals, and lowers it by the total.  *)
(***************************************************************************)
\* Faulty variant: a weight of zero stays, the endpoint is in no rotation.
WeightAsGiven(w) == w

Weight(w) == IF w < 1 THEN 1 ELSE w

\* Faulty variant: the endpoint taken falls back to nothing.
ReducedToZero(raised, taken, total) == [raised EXCEPT ![taken] = 0]

Reduced(raised, taken, total) == [raised EXCEPT ![taken] = @ - total]

SmoothWeightedOrder(given) ==
  LET total == SumFunction(given)
      Round[n \in 0 .. total] ==
        IF n = 0 THEN [current |-> [i \in DOMAIN given |-> 0], order |-> <<>>]
        ELSE LET before  == Round[n - 1]
                 raised  == [i \in DOMAIN given |-> before.current[i] + given[i]]
                 highest == Max({raised[i] : i \in DOMAIN given})
                 taken   == Max({i \in DOMAIN given : raised[i] = highest})
             IN [current |-> Reduced(raised, taken, total), order |-> Append(before.order, taken)]
  IN Round[total].order

Rotation(given) == SmoothWeightedOrder([i \in DOMAIN given |-> Weight(given[i])])

(***************************************************************************)
(* Health.                                                                 *)
(***************************************************************************)
Healthy == [failures |-> 0, cooldown |-> 0]

\* backoff_duration.
Backoff(failures) ==
  Min({Base * 2 ^ Min({IF failures = 0 THEN 0 ELSE failures - 1, MaxShift}), Cap})

\* A failure counts from the start of the attempt that failed; a long attempt has used
\* up its cooldown when it ends.
Penalized(h, age) ==
  LET failures == IF h.failures <= MaxShift THEN h.failures + 1 ELSE h.failures
      left     == Backoff(failures) - age
  IN [failures |-> failures, cooldown |-> IF left > 0 THEN left ELSE 0]

(***************************************************************************)
(* pick_excluding.                                                         *)
(***************************************************************************)
Slots == 0 .. Len(order) - 1
At(slot) == order[((cursor + slot) % Len(order)) + 1]

\* From the cursor on, the first endpoint not tried and not cooling; else of those not
\* tried the first whose cooldown ends soonest; else the one at the cursor.
PickExcluding(tried) ==
  LET untried == {s \in Slots : At(s) \notin tried}
      open    == {s \in untried : health[At(s)].cooldown = 0}
      soonest == {s \in untried : \A t \in untried : health[At(s)].cooldown <= health[At(t)].cooldown}
  IN IF open # {} THEN At(Min(open)) ELSE IF untried # {} THEN At(Min(soonest)) ELSE At(0)

\* Faulty variant: the rotation stands still.
NextCursorStuck(c) == c

NextCursor(c) == (c + 1) % Len(order)

(***************************************************************************)
(* A request: [state, endpoint, age, tried, attempts, alive]; `alive` is a *)
(* ghost, the endpoints that have been up since it began.                  *)
(***************************************************************************)
Idle == [state |-> "idle", endpoint |-> 0, age |-> 0, tried |-> {}, attempts |-> 0, alive |-> {}]

Init ==
  /\ weights \in Weightings
  /\ order = Rotation(weights)
  /\ cursor = 0
  /\ health = [i \in DOMAIN weights |-> Healthy]
  /\ calls = [t \in Thread |-> Idle]
  /\ down = {} /\ outages = 0

Begin(t) ==
  /\ calls[t].state \in {"idle", "exhausted"}
  /\ calls' = [calls EXCEPT ![t] = [Idle EXCEPT !.state = "picking", !.alive = Endpoints \ down]]
  /\ UNCHANGED <<poolVars, down, outages>>

Pick(t) ==
  /\ calls[t].state = "picking"
  /\ calls' = [calls EXCEPT ![t].state = "trying", ![t].age = 0,
                            ![t].endpoint = PickExcluding(calls[t].tried)]
  /\ cursor' = NextCursor(cursor)
  /\ UNCHANGED <<weights, order, health, down, outages>>

Succeed(t) ==
  /\ calls[t].state = "trying" /\ calls[t].endpoint \notin down
  /\ calls' = [calls EXCEPT ![t] = Idle]
  /\ health' = [health EXCEPT ![calls[t].endpoint] = Healthy]
  /\ UNCHANGED <<weights, order, cursor, down, outages>>

\* A retryable error; after as many attempts as there are endpoints the call fails.
FailOver(t) ==
  LET c == calls[t]
      attempts == c.attempts + 1
  IN /\ c.state = "trying" /\ c.endpoint \in down
     /\ calls' = [calls EXCEPT ![t] =
          [c EXCEPT !.state = IF attempts = Len(weights) THEN "exhausted" ELSE "picking",
                    !.endpoint = 0, !.age = 0, !.tried = @ \cup {c.endpoint}, !.attempts = attempts]]
     /\ health' = [health EXCEPT ![c.endpoint] = Penalized(@, c.age)]
     /\ UNCHANGED <<weights, order, cursor, down, outages>>

\* An error that any endpoint would answer with ends the call; the health stays.
Refuse(t) ==
  /\ calls[t].state = "trying" /\ calls[t].endpoint \notin down
  /\ calls' = [calls EXCEPT ![t] = Idle]
  /\ UNCHANGED <<poolVars, down, outages>>

Tick ==
  /\ health' = [i \in Endpoints |-> [health[i] EXCEPT !.cooldown = IF @ > 0 THEN @ - 1 ELSE 0]]
  /\ calls' = [t \in Thread |->
       IF calls[t].state = "trying" /\ calls[t].age < MaxAge THEN [calls[t] EXCEPT !.age = @ + 1]
       ELSE calls[t]]
  /\ UNCHANGED <<weights, order, cursor, down, outages>>

GoDown(e) ==
  /\ e \notin down /\ outages < MaxOutages
  /\ down' = down \cup {e} /\ outages' = outages + 1
  /\ calls' = [t \in Thread |-> [calls[t] EXCEPT !.alive = @ \ {e}]]
  /\ UNCHANGED poolVars

ComeUp(e) ==
  /\ e \in down /\ down' = down \ {e}
  /\ UNCHANGED <<poolVars, calls, outages>>

Attempted(t) == Succeed(t) \/ FailOver(t) \/ Refuse(t)

Next ==
  \/ \E t \in Thread : Begin(t) \/ Pick(t) \/ Attempted(t)
  \/ Tick
  \/ \E e \in Endpoints : GoDown(e) \/ ComeUp(e)

Spec == Init /\ [][Next]_vars

\* There is always another request, every attempt ends, time passes.
LiveSpec ==
  /\ Spec /\ WF_vars(Tick)
  /\ \A t \in Thread : WF_vars(Begin(t)) /\ WF_vars(Pick(t)) /\ WF_vars(Attempted(t))

(***************************************************************************)
(* Properties.                                                             *)
(***************************************************************************)
\* Every variable has its type, and no cooldown is longer than the cap.
TypeOK ==
  /\ cursor \in Slots
  /\ \A i \in Endpoints : health[i].failures \in 0 .. MaxShift + 1 /\ health[i].cooldown \in 0 .. Cap
  /\ \A t \in Thread :
       /\ calls[t].endpoint \in 0 .. Len(weights) /\ calls[t].age \in 0 .. MaxAge
       /\ calls[t].tried \subseteq Endpoints /\ calls[t].attempts \in 0 .. Len(weights)

\* A request is given up for lack of an endpoint only if each endpoint was down at some
\* time since it began: no cooldown, rotation or other thread takes an endpoint from it.
NoNeedlessFailure == \A t \in Thread : calls[t].state = "exhausted" => calls[t].alive = {}

\* How often a rotation picks endpoint i in its first n picks.
Picks(rotation, n, i) == Cardinality({k \in 1 .. n : rotation[k] = i})

\* After any number of picks no endpoint is a whole pick ahead of its share ...
NeverAhead(given, rotation) ==
  \A i \in DOMAIN given, n \in 0 .. Len(rotation) :
    Len(rotation) * Picks(rotation, n, i) - n * Weight(given[i]) < Len(rotation)

\* ... or behind it.
NeverBehind(given, rotation) ==
  \A i \in DOMAIN given, n \in 0 .. Len(rotation) :
    n * Weight(given[i]) - Len(rotation) * Picks(rotation, n, i) < Len(rotation)

\* A whole cycle picks each endpoint as often as it weighs.
WholeCycle(given, rotation) ==
  \A i \in DOMAIN given : Picks(rotation, Len(rotation), i) = Weight(given[i])

Balanced(given, rotation) == NeverAhead(given, rotation) /\ NeverBehind(given, rotation)

RotationsBalanced == \A given \in Rotations : Balanced(given, Rotation(given))

\* The rotation keeps to the weights all along, not only over a whole cycle: the one of
\* this pool, and those of the other weights.
OrderBalanced == Balanced(weights, order) /\ RotationsBalanced

\* An endpoint that stays up is used again and again, whatever it was benched for.
RecoveredIsUsed ==
  \A e \in 1 .. 3 :
    <>[](e \in Endpoints \ down) => []<>(\E t \in Thread : calls[t].state = "trying" /\ calls[t].endpoint = e)
=============================================================================
