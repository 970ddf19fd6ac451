---------------------------- MODULE MCEndpointPool ----------------------------
(***************************************************************************)
(* Instances of EndpointPool: two endpoints, one configured without weight *)
(* or one heavy; the rotation for up to three endpoints of weight up to 3. *)
(***************************************************************************)
EXTENDS EndpointPool

MCWeightings == {<<0, 2>>, <<2, 1, 1>>}
MCRotations == UNION {[1 .. n -> 0 .. 3] : n \in 1 .. 3}
=============================================================================
