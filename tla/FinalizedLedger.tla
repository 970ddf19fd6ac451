---------------------------- MODULE FinalizedLedger ----------------------------
(***************************************************************************)
(* What the finalized side of a chain promises, without the tree that      *)
(* maintains it: an anchor that only ever moves to a descendant of itself, *)
(* and next to it a snapshot that holds, for every pool it lists, exactly  *)
(* the state the pool has on the real chain at the anchor ("absent, never  *)
(* stale", KERNEL_BLOCKS_GRAPH_REFACTOR.md).  VolatileTree and ChainKernel *)
(* are checked to implement it.                                            *)
(***************************************************************************)
CONSTANTS
  Block,            \* block hashes
  Pool,             \* pools
  StartAnchor,      \* the anchor the ledger starts at
  TrueDescendants,  \* [Block -> SUBSET Block]: the strict descendants on the real chain
  TrueState         \* [Block -> [Pool -> state]]: the real state of each pool after each block

VARIABLES
  anchor,    \* the finalized block
  snapshot   \* pool states at the anchor, for some of the pools

ledgerVars == <<anchor, snapshot>>

Exact(snap, b) == \A p \in DOMAIN snap : snap[p] = TrueState[b][p]

LedgerInit ==
  /\ anchor = StartAnchor
  /\ DOMAIN snapshot \subseteq Pool
  /\ Exact(snapshot, anchor)

\* The anchor moves up the real chain; no pool is forgotten.
Advance ==
  /\ anchor' \in TrueDescendants[anchor]
  /\ DOMAIN snapshot \subseteq DOMAIN snapshot'
  /\ DOMAIN snapshot' \subseteq Pool
  /\ Exact(snapshot', anchor')

\* Pools enter the snapshot at the current anchor, with their state there.
Seed ==
  /\ UNCHANGED anchor
  /\ DOMAIN snapshot \subseteq DOMAIN snapshot'
  /\ DOMAIN snapshot' \subseteq Pool
  /\ Exact(snapshot', anchor)

LedgerNext == Advance \/ Seed

LedgerSpec == LedgerInit /\ [][LedgerNext]_ledgerVars
================================================================================
