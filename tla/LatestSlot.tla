----------------------------- MODULE LatestSlot -----------------------------
(***************************************************************************)
(* The single-cell mailbox between the engine and the optimizer worker     *)
(* (latest_slot.rs), one operator per critical section of its mutex.       *)
(*                                                                         *)
(* A slot is [value, closed, parked]: the value not yet taken, whether a   *)
(* half is gone, and whether the receiver sleeps on the condition variable.*)
(***************************************************************************)
CONSTANTS NoValue

EmptySlot == [value |-> NoValue, closed |-> FALSE, parked |-> FALSE]

Holds(s) == s.value # NoValue

\* Faulty variant: the sleeper is not notified.
SentSilently(s, v) == IF s.closed THEN s ELSE [s EXCEPT !.value = v]

\* A send overwrites the value and wakes the receiver; a closed slot refuses it.
Sent(s, v) == IF s.closed THEN s ELSE [s EXCEPT !.value = v, !.parked = FALSE]

Taken(s) == [s EXCEPT !.value = NoValue]

\* `wait_take` on an open and empty slot.
Parked(s) == [s EXCEPT !.parked = TRUE]

\* Either half is dropped: every sleeper is woken.
Closed(s) == [s EXCEPT !.closed = TRUE, !.parked = FALSE]
=============================================================================
