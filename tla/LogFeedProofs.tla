----------------------------- MODULE LogFeedProofs -----------------------------
(***************************************************************************)
(* The log feed for any providers, logs, windows and delays: nothing a     *)
(* thread has put into the channel is lost before it is emitted, and only  *)
(* what a block really holds is.                                           *)
(***************************************************************************)
EXTENDS LogFeed, TLAPS

Frame == [log : Recorded \cup Retracted, removed : BOOLEAN]

\* A frame that is admitted carries a log of a block.
SentRight(f) == f \in Frame /\ (f.log \in Recorded \/ f.removed)

FeedInv ==
  /\ wire \in [Provider -> Seq({f \in Frame : SentRight(f)})]
  /\ raw \in Seq(Recorded)
  /\ buffer \subseteq Recorded
  /\ OnlyRecordedLogs
  /\ NothingOwedIsLost

\* A flush emits what the buffer holds, no more and no less.
LEMMA BatchesHold ==
  ASSUME NEW logs \in SUBSET Recorded
  PROVE  LogsOf(Batches(logs)) = logs
<1>1. \A l \in logs : l = [block |-> l.block, index |-> l.index]
  BY FeedAssumption
<1>2. ASSUME NEW l \in logs PROVE l \in LogsOf(Batches(logs))
  <2> DEFINE b == [block |-> l.block, indices |-> {k.index : k \in {x \in logs : x.block = l.block}}]
  <2>1. b \in Batches(logs) /\ l.index \in b.indices /\ b.block = l.block
    BY DEF Batches
  <2> HIDE DEF b
  <2>. QED
    BY <1>1, <2>1 DEF LogsOf
<1>3. ASSUME NEW e \in LogsOf(Batches(logs)) PROVE e \in logs
  <2>1. PICK b \in Batches(logs) : \E i \in b.indices : e = [block |-> b.block, index |-> i]
    BY DEF LogsOf
  <2>2. PICK l \in logs : e = [block |-> l.block, index |-> l.index]
    BY <2>1 DEF Batches
  <2>. QED
    BY <1>1, <2>1, <2>2
<1>. QED
  BY <1>2, <1>3

\* What a non-empty sequence holds is its head and what its tail holds.
LEMMA HeadAndTail ==
  ASSUME NEW S, NEW q \in Seq(S), q # <<>>
  PROVE  /\ Head(q) \in S /\ Tail(q) \in Seq(S)
         /\ ToSet(q) = {Head(q)} \cup ToSet(Tail(q))
<1>1. Head(q) \in S /\ Tail(q) \in Seq(S) /\ Len(q) \in Nat /\ Len(q) > 0 /\ Len(Tail(q)) = Len(q) - 1
  OBVIOUS
<1>2. Head(q) = q[1] /\ \A i \in 1 .. Len(Tail(q)) : Tail(q)[i] = q[i + 1]
  OBVIOUS
<1>3. \A i \in 1 .. Len(q) : i = 1 \/ (i - 1 \in 1 .. Len(Tail(q)) /\ q[i] = Tail(q)[i - 1])
  BY <1>1, <1>2
<1>4. DOMAIN q = 1 .. Len(q) /\ DOMAIN Tail(q) = 1 .. Len(Tail(q))
  BY <1>1
<1>5. ASSUME NEW x \in ToSet(q) PROVE x \in {Head(q)} \cup ToSet(Tail(q))
  <2>1. PICK i \in 1 .. Len(q) : x = q[i]
    BY <1>4 DEF ToSet
  <2>. QED
    BY <1>2, <1>3, <1>4, <2>1 DEF ToSet
<1>6. Head(q) \in ToSet(q)
  BY <1>1, <1>2, <1>4 DEF ToSet
<1>7. ASSUME NEW x \in ToSet(Tail(q)) PROVE x \in ToSet(q)
  <2>1. PICK i \in 1 .. Len(Tail(q)) : x = Tail(q)[i]
    BY <1>4 DEF ToSet
  <2>2. i + 1 \in 1 .. Len(q) /\ x = q[i + 1]
    BY <1>1, <1>2, <2>1
  <2>. QED
    BY <1>4, <2>2 DEF ToSet
<1>. QED
  BY <1>1, <1>5, <1>6, <1>7

\* What a sequence holds with one more element at its end.
LEMMA AppendHolds ==
  ASSUME NEW S, NEW q \in Seq(S), NEW x \in S
  PROVE  Append(q, x) \in Seq(S) /\ ToSet(Append(q, x)) = ToSet(q) \cup {x}
<1>1. /\ Append(q, x) \in Seq(S) /\ Len(q) \in Nat /\ Len(Append(q, x)) = Len(q) + 1
      /\ DOMAIN Append(q, x) = 1 .. Len(q) + 1 /\ DOMAIN q = 1 .. Len(q)
  OBVIOUS
<1>2. Append(q, x)[Len(q) + 1] = x /\ \A i \in 1 .. Len(q) : Append(q, x)[i] = q[i]
  OBVIOUS
<1>3. ASSUME NEW y \in ToSet(Append(q, x)) PROVE y \in ToSet(q) \cup {x}
  BY <1>1, <1>2 DEF ToSet
<1>4. x \in ToSet(Append(q, x))
  BY <1>1, <1>2 DEF ToSet
<1>5. ASSUME NEW y \in ToSet(q) PROVE y \in ToSet(Append(q, x))
  BY <1>1, <1>2 DEF ToSet
<1>. QED
  BY <1>1, <1>3, <1>4, <1>5

\* The frames a connection may hold.
Sendable == {f \in Frame : SentRight(f)}

\* A step of the connections alone.
LEMMA ConnectionStep ==
  ASSUME FeedInv, UNCHANGED <<raw, buffer, emitted, owed>>, wire' \in [Provider -> Seq(Sendable)]
  PROVE  FeedInv'
BY DEF FeedInv, Sendable, OnlyRecordedLogs, NothingOwedIsLost

\* Every step.
LEMMA FeedStep ==
  ASSUME FeedInv, [Next]_vars
  PROVE  FeedInv'
<1> USE DEF FeedInv
<1>0. wire \in [Provider -> Seq(Sendable)]
  BY DEF Sendable
<1>1. ASSUME NEW p \in Provider, Dial(p) \/ Connect(p) \/ Refused(p) PROVE FeedInv'
  BY <1>0, <1>1, ConnectionStep DEF Dial, Connect, Refused, logVars
<1>2. ASSUME NEW p \in Provider, Disconnect(p) \/ FallSilent(p) PROVE FeedInv'
  <2>1. <<>> \in Seq(Sendable)
    OBVIOUS
  <2>2. wire' = [wire EXCEPT ![p] = <<>>] /\ UNCHANGED logVars
    BY <1>2 DEF Disconnect, FallSilent
  <2>. QED
    BY <1>0, <2>1, <2>2, ConnectionStep DEF logVars
<1>3. ASSUME NEW f \in Sendable, Send(f) PROVE FeedInv'
  <2>1. \A p \in Provider : Append(wire[p], f) \in Seq(Sendable)
    BY <1>0
  <2>2. wire' \in [Provider -> Seq(Sendable)]
    BY <1>0, <1>3, <2>1 DEF Send
  <2>. QED
    BY <1>3, <2>2, ConnectionStep DEF Send, logVars
<1>4. ASSUME NEW p \in Provider, Read(p) PROVE FeedInv'
  <2> DEFINE f == Head(wire[p])
  <2>1. wire[p] \in Seq(Sendable) /\ wire[p] # <<>>
    BY <1>0, <1>4 DEF Read
  <2>2. f \in Sendable /\ Tail(wire[p]) \in Seq(Sendable)
    BY <2>1, HeadAndTail
  <2>3. wire' \in [Provider -> Seq(Sendable)]
    BY <1>0, <1>4, <2>2 DEF Read
  <2>4. CASE ~Admits(f)
    BY <1>4, <2>3, <2>4, ConnectionStep DEF Read
  <2>5. CASE Admits(f)
    <3>1. f.log \in Recorded
      BY <2>2, <2>5 DEF Sendable, SentRight, Frame, Admits
    <3>2. /\ raw' = Append(raw, f.log) /\ owed' = owed \cup {f.log}
          /\ UNCHANGED <<buffer, emitted>>
      BY <1>4, <2>5 DEF Read
    <3> HIDE DEF f
    <3>3. raw' \in Seq(Recorded) /\ ToSet(raw') = ToSet(raw) \cup {f.log}
      BY <3>1, <3>2, AppendHolds
    <3>. QED
      BY <2>3, <3>2, <3>3 DEF Sendable, OnlyRecordedLogs, NothingOwedIsLost
  <2>. QED
    BY <2>4, <2>5
<1>5. CASE Receive
  <2>1. /\ Head(raw) \in Recorded /\ Tail(raw) \in Seq(Recorded)
        /\ ToSet(raw) = {Head(raw)} \cup ToSet(Tail(raw))
    BY <1>5, HeadAndTail DEF Receive
  <2>2. /\ raw' = Tail(raw) /\ buffer' = buffer \cup {Head(raw)}
        /\ UNCHANGED <<wire, emitted, owed>>
    BY <1>5 DEF Receive, Observe
  <2>. QED
    BY <2>1, <2>2 DEF OnlyRecordedLogs, NothingOwedIsLost
<1>6. CASE Flush
  <2>1. LogsOf(Batches(buffer)) = buffer
    BY BatchesHold
  <2>2. ToSet(raw) = {} /\ raw' = raw /\ buffer' = {} /\ wire' = wire
    BY <1>6 DEF Flush, ToSet
  <2>3. CASE buffer = {}
    BY <1>6, <2>2, <2>3 DEF Flush, OnlyRecordedLogs, NothingOwedIsLost
  <2>4. CASE buffer # {}
    <3>1. emitted' = Batches(buffer) /\ owed' = {}
      BY <1>6, <2>1, <2>2, <2>4 DEF Flush, NothingOwedIsLost
    <3>. QED
      BY <2>1, <2>2, <3>1 DEF OnlyRecordedLogs, NothingOwedIsLost
  <2>. QED
    BY <2>3, <2>4
<1>7. CASE Tick \/ UNCHANGED vars
  BY <1>0, <1>7, ConnectionStep DEF Tick, vars, logVars
<1>8. ASSUME NEW log \in Recorded \cup Retracted, (Announce(log) /\ log \in Recorded) \/ Retract(log) PROVE FeedInv'
  <2>1. [log |-> log, removed |-> TRUE] \in Sendable
    BY DEF Sendable, SentRight, Frame
  <2>2. log \in Recorded => [log |-> log, removed |-> FALSE] \in Sendable
    BY DEF Sendable, SentRight, Frame
  <2>. QED
    BY <1>3, <1>8, <2>1, <2>2 DEF Announce, Retract
<1>. QED
  BY <1>1, <1>2, <1>4, <1>5, <1>6, <1>7, <1>8 DEF Next

\* The invariant holds.
THEOREM FeedInvariance == Spec => []FeedInv
<1>1. Init => FeedInv
  <2> SUFFICES ASSUME Init PROVE FeedInv
    OBVIOUS
  <2>1. wire \in [Provider -> Seq({f \in Frame : SentRight(f)})] /\ raw \in Seq(Recorded)
    BY DEF Init
  <2>2. ToSet(raw) = {} /\ LogsOf(emitted) = {}
    BY DEF Init, ToSet, LogsOf
  <2>. QED
    BY <2>1, <2>2 DEF Init, FeedInv, OnlyRecordedLogs, NothingOwedIsLost
<1>2. FeedInv /\ [Next]_vars => FeedInv'
  BY FeedStep
<1>. QED
  BY <1>1, <1>2, PTL DEF Spec

\* Nothing a thread has put into the channel is lost, whatever connections do
\* (LogBatchBuffer, consolidate_pool_logs).
THEOREM NothingLost == Spec => []NothingOwedIsLost
<1>1. FeedInv => NothingOwedIsLost
  BY DEF FeedInv
<1>. QED
  BY <1>1, FeedInvariance, PTL

\* A retraction never becomes a delivery (admit_pool_log_frame).
THEOREM OnlyRecorded == Spec => []OnlyRecordedLogs
<1>1. FeedInv => OnlyRecordedLogs
  BY DEF FeedInv
<1>. QED
  BY <1>1, FeedInvariance, PTL
================================================================================
