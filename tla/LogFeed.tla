------------------------------- MODULE LogFeed -------------------------------
(***************************************************************************)
(* The live pool-log feed of one chain: a connection per provider, each    *)
(* with its own reconnecting thread (aa-cli/src/app.rs), all of them into  *)
(* one channel whose consolidator debounces and dedups the logs into one   *)
(* batch per block for the kernel (client_effects.rs, subscription.rs).    *)
(*                                                                         *)
(* A log is [block, index]; its contents are the same from every provider. *)
(* A provider announces a log to the connections it has at that time, as   *)
(* often as the chain switches back to the log's block, and what is in     *)
(* flight when a connection ends is lost.  The threads never return, so    *)
(* the channel is never disconnected and that arm of the loop is left out. *)
(***************************************************************************)
EXTENDS Integers, Sequences, SequencesExt

CONSTANTS
  Provider,
  Recorded,      \* the logs that blocks hold, [block, index]
  Retracted,     \* what the retractions announce: a log under a block without it
  Window,        \* POOL_LOG_BATCH_WINDOW
  ReconnectBase, ReconnectCap, StabilityWindow,
  \* Bounds of the exploration.
  MaxWire,       \* frames in flight on a connection
  MaxRaw         \* logs in the channel

ASSUME FeedAssumption ==
  /\ Recorded \cap Retracted = {} /\ \A l \in Recorded \cup Retracted : l = [block |-> l.block, index |-> l.index]
  /\ {Window, ReconnectBase, StabilityWindow, MaxWire, MaxRaw} \subseteq Nat \ {0}
  /\ ReconnectCap \in Nat /\ ReconnectBase <= ReconnectCap

VARIABLES
  conn,      \* for each provider [state, previous, clock]
  wire,      \* for each provider the frames in flight, [log, removed]
  raw,       \* the channel of the consolidator
  buffer,    \* LogBatchBuffer: the logs seen since the last flush
  left,      \* what is left of the window
  emitted,   \* the batches of the last flush, [block, indices]
  owed       \* ghost: the logs put into the channel since they were last emitted

logVars == <<raw, buffer, left, emitted, owed>>
vars == <<conn, wire, logVars>>

(***************************************************************************)
(* One connection: "dialling" (the connect, the handshake and the wait for *)
(* the subscription id), "live", "silent" (nothing comes any more and      *)
(* nobody notices) or "waiting".  `previous` is the delay before, 0 for    *)
(* none; `clock` how long it runs or has still to wait.                    *)
(***************************************************************************)
\* next_reconnect_delay.
NextDelay(previous, ranFor) ==
  IF ranFor >= StabilityWindow \/ previous = 0 THEN ReconnectBase
  ELSE Min({2 * previous, ReconnectCap})

\* Faulty variant: a socket closed in good order ends the loop.
EndedForGood(c, inOrder) ==
  LET delay == NextDelay(c.previous, c.clock)
  IN [state |-> IF inOrder THEN "over" ELSE "waiting", previous |-> delay, clock |-> delay]

\* However the attempt ended, the loop sleeps and dials again.
Ended(c, inOrder) ==
  LET delay == NextDelay(c.previous, c.clock)
  IN [state |-> "waiting", previous |-> delay, clock |-> delay]

Dial(p) ==
  /\ conn[p].state = "waiting" /\ conn[p].clock = 0
  /\ conn' = [conn EXCEPT ![p].state = "dialling"]
  /\ UNCHANGED <<wire, logVars>>

Connect(p) ==
  /\ conn[p].state = "dialling"
  /\ conn' = [conn EXCEPT ![p].state = "live", ![p].clock = 0]
  /\ UNCHANGED <<wire, logVars>>

Refused(p) ==
  /\ conn[p].state = "dialling"
  /\ conn' = [conn EXCEPT ![p] = Ended([@ EXCEPT !.clock = 0], FALSE)]
  /\ UNCHANGED <<wire, logVars>>

\* The provider closes the socket, or reading it fails.
Disconnect(p) ==
  /\ conn[p].state = "live"
  /\ \E inOrder \in BOOLEAN : conn' = [conn EXCEPT ![p] = Ended(@, inOrder)]
  /\ wire' = [wire EXCEPT ![p] = <<>>]
  /\ UNCHANGED logVars

\* The peer vanishes without closing, or accepts and never answers the handshake or
\* the subscription.  The socket has no timeout at any of these points.
FallSilent(p) ==
  /\ conn[p].state \in {"dialling", "live"}
  /\ conn' = [conn EXCEPT ![p].state = "silent"]
  /\ wire' = [wire EXCEPT ![p] = <<>>]
  /\ UNCHANGED logVars

(***************************************************************************)
(* The providers send, the threads read.                                   *)
(***************************************************************************)
Live == {p \in Provider : conn[p].state = "live"}

Send(frame) ==
  /\ Live # {} /\ \A p \in Live : Len(wire[p]) < MaxWire
  /\ wire' = [p \in Provider |-> IF p \in Live THEN Append(wire[p], frame) ELSE wire[p]]
  /\ UNCHANGED <<conn, logVars>>

Announce(log) == Send([log |-> log, removed |-> FALSE])
Retract(log) == Send([log |-> log, removed |-> TRUE])

\* Faulty variant: a retraction is a delivery like any other.
AdmitsAny(frame) == TRUE

\* admit_pool_log_frame; frames that are no pool log fare like retractions.
Admits(frame) == ~frame.removed

Read(p) ==
  /\ conn[p].state = "live" /\ wire[p] # <<>> /\ Len(raw) < MaxRaw
  /\ wire' = [wire EXCEPT ![p] = Tail(@)]
  /\ IF Admits(Head(wire[p]))
     THEN /\ raw' = Append(raw, Head(wire[p]).log)
          /\ owed' = owed \cup {Head(wire[p]).log}
     ELSE UNCHANGED <<raw, owed>>
  /\ UNCHANGED <<conn, buffer, left, emitted>>

(***************************************************************************)
(* consolidate_pool_logs.                                                  *)
(***************************************************************************)
\* Faulty variant: a log replaces what its block has gathered.
ObserveReplacing(logs, log) == {l \in logs : l.block # log.block} \cup {log}

\* LogBatchBuffer::observe.
Observe(logs, log) == logs \cup {log}

\* Faulty variant: the window starts anew with every log.
DeadlineExtended(remaining) == Window

DeadlineAfterLog(remaining) == remaining

\* A log that waits in the channel is taken even when the deadline has passed.
Receive ==
  /\ raw # <<>>
  /\ buffer' = Observe(buffer, Head(raw)) /\ raw' = Tail(raw)
  /\ left' = DeadlineAfterLog(left)
  /\ UNCHANGED <<conn, wire, emitted, owed>>

\* LogBatchBuffer::flush: one batch per block.  It is sorted by the log index, so the set
\* of its indices says all of it.
Batches(logs) ==
  {[block |-> b, indices |-> {l.index : l \in {x \in logs : x.block = b}}] : b \in {l.block : l \in logs}}

LogsOf(batches) == UNION {{[block |-> b.block, index |-> i] : i \in b.indices} : b \in batches}

Flush ==
  /\ raw = <<>> /\ left = 0
  /\ left' = Window
  /\ buffer' = {}
  /\ IF buffer = {} THEN UNCHANGED <<emitted, owed>>
     ELSE /\ emitted' = Batches(buffer)
          /\ owed' = owed \ LogsOf(Batches(buffer))
  /\ UNCHANGED <<conn, wire, raw>>

(***************************************************************************)
(* Time.                                                                   *)
(***************************************************************************)
Passing(c) ==
  CASE c.state = "waiting" /\ c.clock > 0              -> [c EXCEPT !.clock = @ - 1]
    [] c.state = "live" /\ c.clock < StabilityWindow   -> [c EXCEPT !.clock = @ + 1]
    [] OTHER                                           -> c

Tick ==
  /\ conn' = [p \in Provider |-> Passing(conn[p])]
  /\ left' = IF left > 0 THEN left - 1 ELSE 0
  /\ UNCHANGED <<wire, raw, buffer, emitted, owed>>

Init ==
  /\ conn = [p \in Provider |-> [state |-> "dialling", previous |-> 0, clock |-> 0]]
  /\ wire = [p \in Provider |-> <<>>]
  /\ raw = <<>> /\ buffer = {} /\ left = Window /\ emitted = {} /\ owed = {}

Next ==
  \/ \E p \in Provider : Dial(p) \/ Connect(p) \/ Refused(p) \/ Disconnect(p) \/ FallSilent(p) \/ Read(p)
  \/ \E log \in Recorded : Announce(log)
  \/ \E log \in Retracted : Retract(log)
  \/ Receive \/ Flush \/ Tick

Spec == Init /\ [][Next]_vars

\* Every thread runs on and time passes; a provider dialled again and again accepts at
\* last, unless it falls silent on the way, for nothing makes a dial end; a loop that
\* comes by an empty channel after its deadline again and again is found there (an
\* iteration takes microseconds).
LiveSpec ==
  /\ Spec /\ WF_vars(Tick) /\ WF_vars(Receive) /\ SF_vars(Flush)
  /\ \A p \in Provider :
       /\ WF_vars(Dial(p)) /\ WF_vars(Read(p)) /\ SF_vars(Connect(p))

(***************************************************************************)
(* Properties.                                                             *)
(***************************************************************************)
\* Every variable has its type; no delay is longer than the cap.
TypeOK ==
  /\ \A p \in Provider :
       /\ conn[p].state \in {"dialling", "live", "silent", "waiting"}
       /\ conn[p].previous \in 0 .. ReconnectCap
       /\ conn[p].clock \in 0 .. Max({ReconnectCap, StabilityWindow})
       /\ ToSet(wire[p]) \subseteq [log : Recorded \cup Retracted, removed : BOOLEAN]
  /\ left \in 0 .. Window

\* Whatever the providers resend, interleave or drop, a log a thread has put into the
\* channel stays there or in the buffer until a batch has taken it to the kernel.
NothingOwedIsLost == owed = ToSet(raw) \cup buffer

\* The kernel is never handed a log that its block does not have.
OnlyRecordedLogs == LogsOf(emitted) \subseteq Recorded

\* Traffic alone holds no log back: one on its way to a connection that lasts reaches
\* the kernel, whatever the other providers do, if only the channel runs empty now and
\* then.  (A channel that never does postpones the flush for ever.)
Relayed ==
  []<>(raw = <<>>) =>
    \A p \in Provider, log \in Recorded :
      (log \in {f.log : f \in ToSet(wire[p])}) ~> (log \in LogsOf(emitted) \/ conn[p].state # "live")

\* No failure ends a feed for good but the one nobody notices, a peer that falls
\* silent while it is dialled or later.
FeedComesBack ==
  \A p \in Provider : []<>(conn[p].state = "live") \/ <>[](conn[p].state = "silent")
=============================================================================
