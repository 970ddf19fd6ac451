------------------------------ MODULE MCMultiChain ------------------------------
(***************************************************************************)
(* An instance of MultiChain: R - A1 - A2 - A3 - A4 - A5, bootstrapped with *)
(* the seed window R - A1.  The pool P of token T has swaps in A2 and A5.  *)
(* The feed starts at A2, or at A3 when A2 was missed.  P trades T for U,  *)
(* U is bridged to V, V to T, and U to W, which has other decimals.        *)
(***************************************************************************)
EXTENDS MultiChain

CONSTANTS R, A1, A2, A3, A4, A5, P, E, l2, l5, T, U, V, W

MCEmitterOf == [p \in Pool |-> E]
MCLogPool == [l \in Log |-> P]
MCLogIndex == [l \in Log |-> 0]
MCBornIn == [p \in Pool |-> R]
MCTokensOf == [p \in Pool |-> {T, U}]

Line(parent, number, touches) == [parent |-> parent, number |-> number, bloom |-> touches]
MCTrunk ==
  [b \in Block |->
     CASE b = R  -> Line(AnchorRef, 0, {})
       [] b = A1 -> Line(R, 1, {})
       [] b = A2 -> Line(A1, 2, {E})
       [] b = A3 -> Line(A2, 3, {})
       [] b = A4 -> Line(A3, 4, {})
       [] b = A5 -> Line(A4, 5, {E})]
MCLogsOf == [b \in Block |-> Log \cap (CASE b = A2 -> {l2} [] b = A5 -> {l5} [] OTHER -> {})]

OneSeed == {[hash |-> A1, parent |-> R, number |-> 1, logs |-> {}]}
Announcements == {HeaderOf(b) : b \in {A2, A3, A4, A5}}

Flow(stage, from, to, pool, weight) ==
  [stage |-> stage, from |-> from, to |-> to, pool |-> pool, weight |-> weight]

\* Out and back, a part carried along, a tiny flow and padding left out.
Cycle ==
  <<Flow(0, T, U, {P}, 4), Flow(0, T, T, {}, 2), Flow(0, T, V, {}, 3),
    Flow(1, U, T, {P}, 5), Flow(1, U, U, {}, 0), Flow(1, T, T, {}, 6)>>
\* The same cell twice, and a bridge that overlaps a pool.
Bridged ==
  <<Flow(0, T, U, {P}, 1), Flow(0, T, U, {P}, 2), Flow(0, T, T, {}, 4),
    Flow(1, U, V, {P}, 1), Flow(1, T, U, {P}, 1)>>
Mismatched == <<Flow(0, T, U, {P}, 1), Flow(1, U, W, {}, 1), Flow(1, U, U, {}, 2)>>
Foreign == <<Flow(0, W, T, {P}, 1), Flow(0, W, W, {}, 1)>>
Return == <<Flow(0, U, T, {P}, 1), Flow(1, T, U, {P}, 3), Flow(1, T, T, {}, 4)>>
Over == <<Flow(0, U, V, {}, 1), Flow(1, V, T, {}, 1), Flow(2, T, U, {P}, 1)>>
\* Two bridges that fail each in its way: either may be named.
Refused == <<Flow(0, U, W, {}, 1), Flow(0, V, T, {}, 1)>>
Both == <<Flow(0, T, U, {P}, 1), Flow(0, T, T, {}, 1), Flow(1, T, U, {P}, 1), Flow(1, U, T, {P}, 1)>>

Route(source, output, flows) == [source |-> source, output |-> output, flows |-> flows]
MCRoutes ==
  {Route(T, T, Cycle), Route(T, V, Bridged), Route(T, W, Mismatched), Route(W, T, Foreign),
   Route(T, T, Both), Route(U, U, <<>>), Route(U, U, Return), Route(U, U, Over),
   Route(U, U, Refused)}
MCBridges == {<<U, V>>, <<V, T>>, <<U, W>>}
MCDecimals == [t \in Token |-> IF t = W THEN 6 ELSE 18]
MCBookEntry(p, logs) ==
  [token0 |-> T, token1 |-> U,
   reserve0 |-> IF l2 \in logs THEN 900 ELSE 1000, reserve1 |-> IF l5 \in logs THEN 1300 ELSE 1000,
   fee |-> 30, limit0 |-> 400, limit1 |-> 90]

\* All that may be buffered fits: the hypothesis under which the proof of BufferSurvives
\* (ChainKernelProofs, BufferedDataSurvives) speaks of this instance.
ASSUME AllFits == BufferFits

\* The hypotheses of the theorems about the lifecycle.
ASSUME HonestInstance == HonestKernel /\ StartAnchor \in TrueLine(CanonTip)
================================================================================
