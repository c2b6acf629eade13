---------------------------- MODULE RequestMoves ----------------------------
(***************************************************************************)
(* The lifecycle of a privacy request as operators on values: the table of *)
(* allowed transitions and the moves of a request, reduced to a record of  *)
(* its status and the sequence of its attempts' statuses.  A module with   *)
(* one request makes a state machine of the moves (RequestLifecycle); one  *)
(* with many copies of a request applies them to each (RequestStore).      *)
(***************************************************************************)
EXTENDS Naturals, Sequences

Statuses ==
  {"created", "identity_verification_pending", "identity_verified",
   "planning", "awaiting_approval", "execution_authorized", "executing",
   "completed", "partially_completed", "failed", "needs_review", "cancelled"}

TerminalStatuses == {"completed", "cancelled"}

\* The statuses from which work may be authorized again or planned anew.
UnsettledStatuses == {"partially_completed", "failed", "needs_review"}

OpenAttempt   == {"authorized", "running"}
ClosedAttempt == {"succeeded", "partially_succeeded", "failed",
                  "needs_review", "cancelled"}

\* The table of allowed transitions: the statuses that may follow s.
Transitions(s) ==
  CASE s = "created" ->
         {"identity_verification_pending", "identity_verified", "cancelled"}
    [] s = "identity_verification_pending" ->
         {"identity_verified", "failed", "cancelled"}
    [] s = "identity_verified" -> {"planning", "cancelled"}
    [] s = "planning" ->
         {"awaiting_approval", "execution_authorized", "failed", "cancelled"}
    [] s = "awaiting_approval" ->
         {"execution_authorized", "planning", "cancelled"}
    [] s = "execution_authorized" ->
         {"executing", "awaiting_approval", "cancelled"}
    [] s = "executing" ->
         {"completed", "partially_completed", "failed", "needs_review"}
    [] s = "partially_completed" ->
         {"planning", "execution_authorized", "needs_review", "completed"}
    [] s = "failed" ->
         {"planning", "execution_authorized", "needs_review", "cancelled"}
    [] s = "needs_review" ->
         {"planning", "execution_authorized", "partially_completed",
          "completed", "cancelled"}
    [] OTHER -> {}

\* The status an attempt ends with when its executing request reaches s.
OutcomeOf(s) ==
  CASE s = "completed" -> "succeeded"
    [] s = "partially_completed" -> "partially_succeeded"
    [] OTHER -> s

HasOpenAttempt(r) == r.status \in {"execution_authorized", "executing"}

\* r with status s and, where it has an open attempt, that attempt at a.
MoveWithAttempt(r, s, a) ==
  [status |-> s, attempts |-> [r.attempts EXCEPT ![Len(r.attempts)] = a]]

-----------------------------------------------------------------------------
(* The moves: each is the set of requests that r may become.               *)

\* Before, between and after attempts: only the status moves.
Proceed(r) ==
  {[r EXCEPT !.status = s] :
     s \in IF HasOpenAttempt(r)
             THEN {} ELSE Transitions(r.status) \ {"execution_authorized"}}

\* A new attempt opens; the request leaves planning, approval or an
\* unsettled outcome for execution.
Authorize(r) ==
  IF ~HasOpenAttempt(r) /\ "execution_authorized" \in Transitions(r.status)
    THEN {[status |-> "execution_authorized",
           attempts |-> Append(r.attempts, "authorized")]}
    ELSE {}

\* The agent picks the authorization up.
Start(r) ==
  IF r.status = "execution_authorized"
    THEN {MoveWithAttempt(r, "executing", "running")} ELSE {}

\* The authorization is withdrawn before the agent picked it up.
Withdraw(r) ==
  {MoveWithAttempt(r, s, "cancelled") :
     s \in IF r.status = "execution_authorized"
             THEN Transitions(r.status) \ {"executing"} ELSE {}}

\* The running attempt ends, and the request with it.
Settle(r) ==
  {MoveWithAttempt(r, s, OutcomeOf(s)) :
     s \in IF r.status = "executing" THEN Transitions(r.status) ELSE {}}

\* The request's plan or approval changes and its status does not.
Annotate(r) ==
  IF r.status \in {"planning", "awaiting_approval"} THEN {r} ELSE {}

Moves(r) == Proceed(r) \cup Authorize(r) \cup Start(r) \cup Withdraw(r)
              \cup Settle(r) \cup Annotate(r)

NewRequest == [status |-> "created", attempts |-> << >>]
=============================================================================
