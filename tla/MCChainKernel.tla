----------------------------- MODULE MCChainKernel -----------------------------
(***************************************************************************)
(* Instances of ChainKernel.  The trunk is R - A1 - A2 - A3 - A4, with a   *)
(* fork C1 - C2 of R.  Pool P is old, pool Q is created in A1 (l3), or in  *)
(* A2 where l3 is left out.  A2 has a delta and a swap of P, A3 a delta of *)
(* Q and a bloom that touches P without a log of P, A4, C1 and C2 a swap   *)
(* of P each.  A configuration takes the blocks, pools and logs it needs.  *)
(***************************************************************************)
EXTENDS ChainKernel

CONSTANTS R, A1, A2, A3, A4, C1, C2, F,   \* blocks, F a filler
          P, Q, EP, EQ,            \* pools and their contracts
          l1, l2, l3, l4, l5, l6,  \* logs
          T

MCEmitterOf == [p \in Pool |-> IF p = P THEN EP ELSE EQ]
MCLogPool == [l \in Log |-> IF l \in {l3, l4} THEN Q ELSE P]
MCLogIndex == [l \in Log |-> IF l = l2 THEN 1 ELSE 0]
MCAbsolute == Log \cap {l2, l3, l5, l6}
MCBornIn == [p \in Pool |-> IF p = P THEN R ELSE IF l3 \in Log THEN A1 ELSE A2]
MCTokensOf == [p \in Pool |-> Token]

Line(parent, number, touches) ==
  [parent |-> parent, number |-> number, bloom |-> touches \cap Emitter]
MCTrunk ==
  [b \in Block |->
     CASE b \in {R, F} -> Line(AnchorRef, 0, {})
       [] b = A1 -> Line(R, 1, {EQ})
       [] b = A2 -> Line(A1, 2, {EP})
       [] b = A3 -> Line(A2, 3, {EP, EQ})
       [] b = A4 -> Line(A3, 4, {EP})
       [] b = C1 -> Line(R, 1, {EP})
       [] b = C2 -> Line(C1, 2, {EP})]
MCLogsOf ==
  [b \in Block |-> Log \cap (CASE b = A1 -> {l3}
                               [] b = A2 -> {l1, l2}
                               [] b = A3 -> {l4}
                               [] b \in {C1, A4} -> {l5}
                               [] b = C2 -> {l6}
                               [] OTHER  -> {})]
\* A feed may tag A3 with the log of A4, under the index of A3's own.
Mistagged == [b \in Block |-> IF b = A3 THEN Log \cap {l4, l5} ELSE MCLogsOf[b]]

\* The seed windows R - A1, and R - A2 for a chain whose A1 has no logs.
Seed(b, parent, number, logs) == [hash |-> b, parent |-> parent, number |-> number, logs |-> logs]
OneSeed == {Seed(A1, R, 1, MCLogsOf[A1])}
BridgedSeeds == {Seed(F, R, 1, {}), Seed(A2, F, 2, MCLogsOf[A2])}

A4Announced == {HeaderOf(A4)}
A3Announced == {HeaderOf(A3)}

ForksAnnounced == {HeaderOf(A2), HeaderOf(C2)}

\* A header that names itself as parent.
SelfParentAnnounced == {HeaderOf(A3), [hash |-> A2, parent |-> A2, number |-> 2, bloom |-> {EP}]}

\* What the proofs assume of the providers holds in every instance.
ASSUME HonestInstance == HonestKernel
================================================================================
