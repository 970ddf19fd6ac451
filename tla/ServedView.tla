----------------------------- MODULE ServedView -----------------------------
(***************************************************************************)
(* What a client may rely on of a server, without the kernel behind it:    *)
(* one view that is replaced as a whole, never torn, in which no pool and  *)
(* no token disappears while the server is up.  A server that restarts has *)
(* no view until it has an anchor again.                                   *)
(***************************************************************************)
CONSTANTS
  Contents   \* what a view can hold: [pools, tokens, states], the pools that are
             \* listed, the tokens with known decimals, the pools with a state

ASSUME ViewAssumption == \A c \in Contents : c.states \subseteq c.pools

VARIABLES
  view       \* the published contents, NoView before an anchor

NoView == [pools |-> {}, tokens |-> {}, states |-> {}, up |-> FALSE]
Shown(c) == [pools |-> c.pools, tokens |-> c.tokens, states |-> c.states, up |-> TRUE]

ViewTypeOK == view \in {NoView} \cup {Shown(c) : c \in Contents}

ViewInit == view = NoView

Publish ==
  \E c \in Contents :
    /\ view.up => view.pools \subseteq c.pools /\ view.tokens \subseteq c.tokens
    /\ view' = Shown(c)

Withdraw == view.up /\ view' = NoView

ViewNext == Publish \/ Withdraw

ViewSpec == ViewInit /\ [][ViewNext]_view
=============================================================================
