-------------------------- MODULE AgentConnection --------------------------
(***************************************************************************)
(* The agent's connection: the loop that prefers the WebSocket and falls   *)
(* back to polling, its backoff, and the deduplicator of offered jobs.     *)
(***************************************************************************)
EXTENDS Naturals, Sequences, SequencesExt

CONSTANTS
  Jobs,        \* job ids
  Capacity,    \* DeliveryDeduplicator.capacity
  Base,        \* ReconnectBackoff.base
  Maximum,     \* ReconnectBackoff.maximum
  Width,       \* bits of the multiplier, 32 in the code
  MaxAccepted  \* bound: jobs that one process accepts

VARIABLES
  mode,     \* "websocket", "polling" or "ended"
  attempt,  \* ReconnectBackoff.attempt
  delay,    \* the delay until the WebSocket is tried again
  cap,      \* history: the cap in this row of failures, 0 before the first
  order,    \* DeliveryDeduplicator.insertion_order, and job_ids as its set
  log       \* history: the jobs that were accepted, in order

vars == <<mode, attempt, delay, cap, order, log>>

Init ==
  /\ mode = "websocket"
  /\ attempt = 0
  /\ delay = 0
  /\ cap = 0
  /\ order = <<>>
  /\ log = <<>>

-----------------------------------------------------------------------------
(* run_connection_loop and ReconnectBackoff. *)

Least(a, b) == IF a < b THEN a ELSE b

\* A wrong version: one bit more than fits, lost as a shift would lose it.
BadMultiplier(n) == (2 ^ (n + 1)) % (2 ^ Width)

\* 1.checked_shl(attempt).
Shifted[n \in Nat] == IF n = 0 THEN 1 ELSE 2 * Shifted[n - 1]
Multiplier(n) == Shifted[Least(n, Width - 1)]

CurrentCap == Least(Base * Multiplier(attempt), Maximum)

\* The session fails: a delay below the cap, and polling.
SessionFails ==
  /\ mode = "websocket"
  /\ mode' = "polling"
  /\ cap' = CurrentCap
  /\ delay' \in 0..CurrentCap
  /\ attempt' = Least(attempt + 1, Width - 1)
  /\ UNCHANGED <<order, log>>

\* The session ends with the directive to reconnect: reset.
SessionReconnects ==
  /\ mode = "websocket"
  /\ attempt' = 0 /\ cap' = 0
  /\ UNCHANGED <<mode, delay, order, log>>

\* Polling ends when the WebSocket is to be tried again.
RetryWebSocket ==
  /\ mode = "polling"
  /\ mode' = "websocket"
  /\ UNCHANGED <<attempt, delay, cap, order, log>>

\* A shutdown in either mode, or an error of polling.
End ==
  /\ mode # "ended"
  /\ mode' = "ended"
  /\ UNCHANGED <<attempt, delay, cap, order, log>>

\* The agent is started again and knows nothing.
Restart ==
  /\ mode = "ended"
  /\ mode' = "websocket"
  /\ attempt' = 0 /\ delay' = 0 /\ cap' = 0
  /\ order' = <<>> /\ log' = <<>>

-----------------------------------------------------------------------------
(* DeliveryDeduplicator. *)

\* A wrong version: the newest job is evicted.
BadEvicted == Front(order)

\* What is left when the oldest job is evicted.
Evicted == Tail(order)

\* A message job.available, in either mode: one that is known is ignored.
Accept(j) ==
  /\ mode # "ended"
  /\ Len(log) < MaxAccepted
  /\ j \notin ToSet(order)
  /\ order' = Append(IF Len(order) = Capacity THEN Evicted ELSE order, j)
  /\ log' = Append(log, j)
  /\ UNCHANGED <<mode, attempt, delay, cap>>

-----------------------------------------------------------------------------

Next ==
  \/ SessionFails \/ SessionReconnects \/ RetryWebSocket \/ End \/ Restart
  \/ \E j \in Jobs : Accept(j)

Spec == Init /\ [][Next]_vars

-----------------------------------------------------------------------------
(* Properties. *)

(* One process of the agent accepts a job again only after as many other     *)
(* jobs as the deduplicator holds.                                           *)
RepeatsAreFarApart ==
  \A i, j \in 1..Len(log) : i < j /\ log[i] = log[j] => j - i > Capacity

(* A row of failed sessions never shortens the time an agent may wait, and   *)
(* never brings it to zero, however long the row is.                         *)
CapNeverFalls ==
  [][mode' = "polling" => cap' >= cap /\ cap' > 0]_vars

=============================================================================
