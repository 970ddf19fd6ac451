------------------------------ MODULE MCLogFeed ------------------------------
(***************************************************************************)
(* An instance of LogFeed: one block with two logs, one retraction.        *)
(***************************************************************************)
EXTENDS LogFeed

MCRecorded == {[block |-> "b1", index |-> i] : i \in 0 .. 1}
MCRetracted == {[block |-> "b2", index |-> 0]}
=============================================================================
