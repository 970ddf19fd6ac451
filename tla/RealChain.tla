------------------------------- MODULE RealChain -------------------------------
(***************************************************************************)
(* The chain the node follows, as its providers know it: what a header, a  *)
(* log query or a pool-state read really answers.  The node's own modules  *)
(* are judged against it.  Hashes are identities, and a hash commits to    *)
(* its header and to its logs.                                             *)
(***************************************************************************)
EXTENDS BlocksGraph

CONSTANTS
  StartAnchor,    \* the finalized block the chain was bootstrapped at
  StartNumber,    \* its height
  MaxPending,     \* the cap of the pending staging area, live (max_pending_blocks)
  SeedCap,        \* and while the seed window is admitted (MAX_PENDING_BLOCKS)
  SeedWindow,     \* the seed window bootstrap hands over (SeedBlock)
  BasePools,      \* the pools in the snapshot at activation
  Trunk,          \* [Block -> header]: parent, number and bloom; AnchorRef is the
                  \* parent of the first block and of fillers
  LogsOf,         \* [Block -> LogMap]: the pool logs of each block
  Streamable      \* [Block -> SUBSET Log]: what a feed may tag with the block, spurious logs too

SeedBlock == [hash : Block, parent : Block, number : Nat, logs : SUBSET Log]

Header == [hash : Block, parent : Block, number : Nat, bloom : BloomValue]

ASSUME RealChainAssumption ==
  /\ StartAnchor \in Block /\ StartNumber \in Nat /\ MaxPending \in Nat /\ SeedCap \in Nat
  /\ SeedWindow \subseteq SeedBlock /\ IsFiniteSet(SeedWindow)
  /\ \A s \in SeedWindow : s.logs = LogsOf[s.hash]
  /\ BasePools \subseteq Pool
  /\ Trunk \in [Block -> [parent : Block \cup {AnchorRef}, number : Nat, bloom : BloomValue]]
  /\ LogsOf \in [Block -> LogMap]
  /\ Streamable \in [Block -> SUBSET Log]

\* The blocks whose header a provider can serve: all but the first and the fillers.
Known == {b \in Block : Trunk[b].parent \in Block}

\* The synthetic blocks by which the seed window bridges stretches without logs.
\* They are on no chain and no provider names them.
Fillers == {s.hash : s \in SeedWindow} \ Known

\* The hashes a provider may speak of.
Served == Block \ Fillers

HeaderOf(b) ==
  [hash |-> b, parent |-> Trunk[b].parent, number |-> Trunk[b].number, bloom |-> Trunk[b].bloom]

\* The wider of the two caps of the staging area.
PendingCap == IF MaxPending >= SeedCap THEN MaxPending ELSE SeedCap

\* What a stream delivery for block h may hold: part of what the feed may tag with
\* it, one log per index (LogBatchBuffer keys what it gathers by the index too).
Batch(h) == (LogMap \cap SUBSET Streamable[h]) \ {{}}

\* b and its ancestors.
TrueLine(b) ==
  {x \in Block : \A S \in SUBSET Block :
     (b \in S /\ \A c \in S : Trunk[c].parent \in Block => Trunk[c].parent \in S) => x \in S}

TrueEarlier(d, e) ==
  \/ d[1] # e[1] /\ d[1] \in TrueLine(e[1])
  \/ d[1] = e[1] /\ LogIndex[d[2]] < LogIndex[e[2]]

\* The state of pool p after block b: its logs since the last absolute one.
TrueStateAt(b, p) ==
  LET run  == {e \in TrueLine(b) \X Log : e[2] \in LogsOf[e[1]] /\ LogPool[e[2]] = p}
      abs  == {e \in run : e[2] \in Absolute}
      last == CHOOSE e \in abs : \A d \in abs \ {e} : TrueEarlier(d, e)
  IN IF abs = {} THEN {e[2] : e \in run}
     ELSE {e[2] : e \in {d \in run : ~TrueEarlier(d, last)}}

TrueState == [b \in Block |-> [p \in Pool |-> TrueStateAt(b, p)]]
TrueDescendants == [b \in Block |-> {x \in Block \ {b} : b \in TrueLine(x)}]

(***************************************************************************)
(* Honest providers.  Numbers count along the chain, a header is the one   *)
(* its hash commits to and its bloom clears no emitter that logged.  The   *)
(* seed window may bridge stretches without logs by fillers, each standing *)
(* for a real block.                                                       *)
(***************************************************************************)

\* q can be taken for the parent of h: the block it stands for is below the one
\* h stands for, and no block between the two has logs.
Spans(rep, q, h) ==
  /\ rep[q] \in TrueLine(rep[h]) \ {rep[h]}
  /\ \A x \in TrueLine(rep[h]) \ TrueLine(rep[q]) : x = rep[h] \/ LogsOf[x] = {}

\* What a block of the tree stands for: itself, unless it is a filler.
StandIn(rep) ==
  /\ rep \in [Block -> Block]
  /\ \A b \in Served : rep[b] = b
  /\ \A f \in Fillers : LogsOf[f] = {} /\ LogsOf[rep[f]] = {}
  /\ \A s \in SeedWindow : Spans(rep, s.parent, s.hash)

HonestChain ==
  /\ StartAnchor \in Served
  /\ \A b \in Known : Trunk[b].number = Trunk[Trunk[b].parent].number + 1
  /\ \A b \in Block : \A l \in LogsOf[b] : EmitterOf[LogPool[l]] \in Trunk[b].bloom
  /\ \E rep \in [Block -> Block] : StandIn(rep)
================================================================================
