------------------------------- MODULE MCServer -------------------------------
(***************************************************************************)
(* An instance of Server: p trades A for B, q trades B for C, r is not a   *)
(* pool although its log looks like one.                                   *)
(***************************************************************************)
EXTENDS Server

CONSTANTS A, B, C, p, q, r

MCPairOf == [x \in Pool |-> CASE x = p -> {A, B} [] x = q -> {B, C} [] OTHER -> {}]
=============================================================================
