----------------------------- MODULE MCDataPlane -----------------------------
(***************************************************************************)
(* An instance of DataPlane: pool p trades A for B, pool q trades B for C. *)
(* The engine starts on the closed route A - A and is set to A - C.        *)
(***************************************************************************)
EXTENDS DataPlane

CONSTANTS A, B, C, p, q

MCPairOf == [x \in Pool |-> IF x = p THEN {A, B} ELSE {B, C}]

Cycle == [source |-> A, output |-> A]
Open == [source |-> A, output |-> C]

Content(pools, tokens, states) == [pools |-> pools, tokens |-> tokens, states |-> states]
MCRoutes == {Open}

\* A token unknown at first, a pool without a state, everything.
MCContents ==
  {Content({q}, {A, B}, {q}), Content({p, q}, {A, B, C}, {q}), Content({p, q}, {A, B, C}, {p, q})}

=============================================================================
