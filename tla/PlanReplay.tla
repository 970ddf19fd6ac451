------------------------------ MODULE PlanReplay ------------------------------
(***************************************************************************)
(* Execution plans: build_plan (optimization/src/plan.rs) makes one of the *)
(* flows of a trained model, replay_plan_lossless (client-evm/src/         *)
(* lossless_replay.rs) executes it hop by hop on exact reserves.           *)
(*                                                                         *)
(* Amounts are raw units.  The weight of a flow is a natural number, for   *)
(* f32; the weight of a step is one of WeightScale parts, rounded to the   *)
(* nearest, for the f32 quotient and the fixed point it is applied in.     *)
(* The steps of a plan come out of a HashMap and are sorted by stage: in   *)
(* a stage they have any order.                                            *)
(***************************************************************************)
EXTENDS Integers, Sequences, SequencesExt

CONSTANTS
  WeightScale,      \* WEIGHT_SCALE
  PipsDenominator   \* PIPS_DENOMINATOR

ASSUME ScaleAssumption == {WeightScale, PipsDenominator} \subseteq Nat \ {0}

(***************************************************************************)
(* build_plan.  A flow is [stage, from, to, pool, weight], where pool is   *)
(* {} or {p}; flows is the sequence of the cells of the layout.            *)
(***************************************************************************)
\* A bridge wins over a pool; a cell without a pool carries its token or is padding.
StepKind(f, bridges) ==
  CASE f.from # f.to /\ <<f.from, f.to>> \in bridges -> "bridge"
    [] ~(f.from # f.to /\ <<f.from, f.to>> \in bridges) /\ f.pool # {} -> "swap"
    [] f.from = f.to /\ f.pool = {} -> "carry"
    [] OTHER -> "padding"

\* What cells are merged by.
CellKey(f, bridges) ==
  LET kind == StepKind(f, bridges)
  IN [stage |-> f.stage, from |-> f.from, to |-> f.to, kind |-> kind,
      pool |-> IF kind = "swap" THEN f.pool ELSE {}]

Surviving(flows, bridges, minWeight) ==
  {i \in DOMAIN flows : StepKind(flows[i], bridges) # "padding" /\ flows[i].weight >= minWeight}

WeightOf(flows, S) == SumFunction([i \in S |-> flows[i].weight])

Nearest(n, d) == (2 * n + d) \div (2 * d)

\* The weights that survive sum to one again for each token in each stage.
PlanSteps(flows, bridges, minWeight) ==
  LET kept  == Surviving(flows, bridges, minWeight)
      key(i) == CellKey(flows[i], bridges)
      cell(k) == {i \in kept : key(i) = k}
      group(k) == {i \in kept : flows[i].stage = k.stage /\ flows[i].from = k.from}
  IN {[cell |-> k,
       weight |-> IF WeightOf(flows, group(k)) = 0 THEN 0
                  ELSE Nearest(WeightOf(flows, cell(k)) * WeightScale, WeightOf(flows, group(k)))] :
        k \in {key(i) : i \in kept}}

\* The plans build_plan may return.
BuildPlan(flows, bridges, minWeight) ==
  {steps \in SetToSeqs(PlanSteps(flows, bridges, minWeight)) :
     \A i, j \in DOMAIN steps : i < j => steps[i].cell.stage <= steps[j].cell.stage}

(***************************************************************************)
(* The book: for each pool [token0, token1, reserve0, reserve1, fee,       *)
(* limit0, limit1].                                                        *)
(***************************************************************************)
Kept(fee) == IF fee >= PipsDenominator THEN 0 ELSE PipsDenominator - fee

\* LosslessPool::swap: the input after the fee, cut at the tick boundary, against the
\* product of the reserves; the input before the fee joins them.
Swap(pool, from, amount) ==
  LET forward  == from = pool.token0
      x        == IF forward THEN pool.reserve0 ELSE pool.reserve1
      y        == IF forward THEN pool.reserve1 ELSE pool.reserve0
      limit    == IF forward THEN pool.limit0 ELSE pool.limit1
      afterFee == (amount * Kept(pool.fee)) \div PipsDenominator
      capped   == IF afterFee > limit THEN limit ELSE afterFee
      out      == IF x + capped = 0 THEN 0 ELSE (y * capped) \div (x + capped)
  IN [out |-> out, hit |-> afterFee > limit,
      pool |-> IF forward THEN [pool EXCEPT !.reserve0 = @ + amount, !.reserve1 = @ - out]
               ELSE [pool EXCEPT !.reserve1 = @ + amount, !.reserve0 = @ - out]]

WeightedAmount(balance, weight) ==
  (balance * (IF weight > WeightScale THEN WeightScale ELSE weight)) \div WeightScale

(***************************************************************************)
(* replay_plan_lossless.  The fold goes over [book, balances, next, hit,   *)
(* failed]; a token without a balance has none.                            *)
(***************************************************************************)
Held(balances, token) == IF token \in DOMAIN balances THEN balances[token] ELSE 0

Credited(balances, token, amount) ==
  [t \in DOMAIN balances \cup {token} |-> Held(balances, t) + IF t = token THEN amount ELSE 0]

\* A step reads the balances its stage began with and writes those of the next.
Hop(r, step) ==
  LET cell   == step.cell
      amount == WeightedAmount(Held(r.balances, cell.from), step.weight)
      p      == CHOOSE p \in cell.pool : TRUE
      swap   == Swap(r.book[p], cell.from, amount)
  IN CASE r.failed # "" \/ amount = 0 -> r
       [] r.failed = "" /\ amount > 0 /\ cell.kind = "swap" ->
            IF cell.from \notin {r.book[p].token0, r.book[p].token1} THEN [r EXCEPT !.failed = "TokenNotInPool"]
            ELSE [r EXCEPT !.book[p] = swap.pool, !.hit = @ \/ swap.hit,
                           !.next = Credited(@, cell.to, swap.out)]
       [] r.failed = "" /\ amount > 0 /\ cell.kind # "swap" ->
            IF cell.kind = "bridge" \/ cell.from = cell.to
            THEN [r EXCEPT !.next = Credited(@, cell.to, amount)] ELSE r

\* Faulty variant: a stage spends what it has just received.
StageInPlace(r, steps, n) ==
  FoldLeft(LAMBDA acc, step : LET h == Hop([acc EXCEPT !.next = acc.balances], step) IN [h EXCEPT !.balances = h.next],
           r, SelectSeq(steps, LAMBDA step : step.cell.stage = n))

Stage(r, steps, n) ==
  LET done == FoldLeft(LAMBDA acc, step : IF step.cell.stage = n THEN Hop(acc, step) ELSE acc, r, steps)
  IN [done EXCEPT !.balances = done.next, !.next = <<>>]

SwappedPools(steps) == UNION {steps[i].cell.pool : i \in DOMAIN steps}

\* What a plan makes of `entry` of `source`.  `pools` are those that could be resolved.
Replay(steps, pools, source, entry) ==
  LET start  == [book |-> pools, balances |-> [t \in {source} |-> entry], next |-> <<>>, hit |-> FALSE,
                 failed |-> IF SwappedPools(steps) \subseteq DOMAIN pools THEN "" ELSE "PoolNotFound"]
      stages == {steps[i].cell.stage : i \in DOMAIN steps}
      last   == CHOOSE n \in stages : \A m \in stages : m <= n
      after[n \in -1 .. (IF stages = {} THEN -1 ELSE last)] ==
        IF n = -1 THEN start ELSE Stage(after[n - 1], steps, n)
  IN after[IF stages = {} THEN -1 ELSE last]

\* Some stage sends a pool amounts in both directions.
Crossed(steps) ==
  \E i, j \in DOMAIN steps :
     /\ steps[i].cell.stage = steps[j].cell.stage /\ steps[i].cell.from # steps[j].cell.from
     /\ steps[i].cell.pool \cap steps[j].cell.pool # {}
================================================================================
