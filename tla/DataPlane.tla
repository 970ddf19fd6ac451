------------------------------ MODULE DataPlane ------------------------------
(***************************************************************************)
(* A client engine against a server, seen through what the server promises *)
(* (ServedView; Server implements it).  A request reads the view that is   *)
(* published when the server handles it.                                   *)
(***************************************************************************)
EXTENDS ClientEngine, ServedView

CONSTANTS MaxViews   \* bound: views published

VARIABLES at         \* how many views were published, the time stamp of the current one

serverVars == <<view, at>>
vars == <<engineVars, serverVars>>

Init == EngineInit /\ ViewInit /\ at = 0

Answered == \E c \in calls : Answer(c, view, at)

ServerStep ==
  /\ \/ at < MaxViews /\ Publish /\ at' = at + 1
     \/ Withdraw /\ UNCHANGED at
  /\ UNCHANGED engineVars

ClientStep == EngineNext /\ UNCHANGED serverVars

Next ==
  \/ ServerStep
  \/ ClientStep
  \/ Answered /\ UNCHANGED serverVars

Spec == Init /\ [][Next]_vars

LiveSpec == Spec /\ EngineFairness /\ WF_engineVars(Answered)

(***************************************************************************)
(* Safety.                                                                 *)
(***************************************************************************)
\* Every variable has its type.
TypeOK ==
  /\ ViewTypeOK /\ at \in Nat
  /\ route \in Route
  /\ catalog \in {None} \cup SUBSET Pool
  /\ work \in {"Bootstrapping", "NoRoute", "Optimizing"}
  /\ latest \in {None} \cup Nat
  /\ work = "Optimizing" <=> latest # None
  /\ plan \in {None} \cup Route
  /\ DOMAIN slots = Kinds
  /\ Len(pushes) <= MaxPushes /\ Len(steps) <= MaxSteps

\* The reserves the engine works on never get older: whatever was lost, answered late
\* or asked again, an answer is taken only for the request that asked last.
NeverOlder == [][latest # None /\ latest' # None => latest' >= latest]_vars

\* The worker never dies: the gate of the reducer, the check of the worker and the
\* validation of the step agree on which snapshots can be used.
WorkerSurvives == ~slot.closed

(***************************************************************************)
(* Liveness.                                                               *)
(***************************************************************************)
Offer == view.states \cap catalog
Served == view.up /\ catalog # None /\ Productive(Offer)

\* When server and user leave things as they are, the worker ends up with the
\* published reserves, for the route that is set, and the result that is displayed is
\* one of that route.
WorkerCatchesUp ==
  <>[](Served => worker = [route |-> route, pools |-> Offer, at |-> at] /\ plan = route)
=============================================================================
