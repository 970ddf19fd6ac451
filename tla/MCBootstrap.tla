------------------------------ MODULE MCBootstrap ------------------------------
(***************************************************************************)
(* Instances of Bootstrap.  The trunk is R - A1 - ... - A6; B4 - B5 fork   *)
(* off A3.  All but R and A2 have logs, so that the seed window has to     *)
(* bridge A2.                                                              *)
(***************************************************************************)
EXTENDS Bootstrap

CONSTANTS R, A1, A2, A3, A4, A5, A6, B4, B5, P, Q

MCParent ==
  [b \in Block \ {R} |->
     CASE b = A1 -> R [] b = A2 -> A1 [] b = A3 -> A2 [] b = A4 -> A3 [] b = A5 -> A4
       [] b = A6 -> A5 [] b = B4 -> A3 [] b = B5 -> B4]
MCNumber ==
  [b \in Block |->
     CASE b = R -> 0 [] b = A1 -> 1 [] b = A2 -> 2 [] b = A3 -> 3 [] b \in {A4, B4} -> 4
       [] b \in {A5, B5} -> 5 [] b = A6 -> 6]
MCPoolsOf ==
  [b \in Block |-> CASE b \in {R, A2} -> {} [] b \in {A1, A4, B5} -> {P} [] OTHER -> {Q}]
================================================================================
