---------------------------- MODULE MCVolatileTree -----------------------------
(***************************************************************************)
(* Instances of VolatileTree.                                              *)
(*                                                                         *)
(* The honest instance has a trunk R - A1 - ... - A4 with a fork B2 of A1. *)
(* A1 has no logs, so the seed window R - A2 bridges it with the filler F: *)
(* the tree starts with A2 as a child of F, while A1 may be announced,     *)
(* fetched and named final like any block.  Pool P is tracked from the     *)
(* start, pool Q is created in A3 (l3) and may be tracked before or after  *)
(* A3 is final.  A2 has a delta and a swap of P, A4 a delta of Q and a     *)
(* bloom that touches P without a log of P.  A feed may tag A4 with l3 of  *)
(* A3, which has the index of A4's own log, and with l5 of the fork, which *)
(* has an index that A4 has no log for.                                    *)
(*                                                                         *)
(* The claims instance lets headers contradict each other: a hash may be   *)
(* its own parent, come with several parents, or close a cycle of pending  *)
(* blocks.                                                                 *)
(***************************************************************************)
EXTENDS VolatileTree

CONSTANTS R, A1, A2, A3, A4, B2, F,   \* blocks
          P, Q,                \* pools
          EP, EQ,              \* their contracts
          l1, l2, l3, l4, l5   \* logs

MCEmitterOf == [p \in Pool |-> IF p = P THEN EP ELSE EQ]
MCLogPool == [l \in Log |-> IF l \in {l3, l4} THEN Q ELSE P]
MCLogIndex == [l \in Log |-> IF l \in {l2, l5} THEN 1 ELSE 0]
MCAbsolute == Log \cap {l2, l3}

MCLogsOf ==
  [b \in Block |-> Log \cap (CASE b = A2 -> {l1, l2}
                               [] b = A3 -> {l3}
                               [] b = A4 -> {l4}
                               [] b = B2 -> {l5}
                               [] OTHER  -> {})]
MCStreamable == [b \in Block |-> IF b = A4 THEN Log \cap {l3, l4, l5} ELSE MCLogsOf[b]]

Line(parent, number, touches) ==
  [parent |-> parent, number |-> number, bloom |-> touches \cap Emitter]

MCTrunk ==
  [b \in Block |->
     CASE b \in {R, F} -> Line(AnchorRef, 0, {})
       [] b = A1 -> Line(R, 1, {})
       [] b = A2 -> Line(A1, 2, {EP})
       [] b = A3 -> Line(A2, 3, {EQ})
       [] b = A4 -> Line(A3, 4, {EP, EQ})
       [] b = B2 -> Line(A1, 2, {EP})]

HonestClaims == {HeaderOf(b) : b \in Known}

ClaimedParents ==
  [b \in Block |->
     CASE b = R  -> {A1}
       [] b = A1 -> {R, A1, A2, A3}
       [] b = A2 -> {R, A1, A3}
       [] b = A3 -> {A2, B2}
       [] b = B2 -> {R, A1, A3}
       [] OTHER  -> {}]
AnyClaims ==
  UNION {{[hash |-> h, parent |-> p, number |-> 1, bloom |-> {}] : p \in Block \cap ClaimedParents[h]} : h \in Block}

Seed(b, parent, number, logs) == [hash |-> b, parent |-> parent, number |-> number, logs |-> logs]
BridgedSeeds == {Seed(F, R, 1, {}), Seed(A2, F, 2, MCLogsOf[A2])}
BareSeeds == {Seed(F, R, 1, {}), Seed(A2, F, 2, {})}
NoLogs == [b \in Block |-> {}]

\* What the proofs assume of honest providers holds in the instance of honest headers.
ASSUME HonestInstance == HeaderClaims = HonestClaims => HonestProviders
================================================================================
