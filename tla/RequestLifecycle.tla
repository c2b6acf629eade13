-------------------------- MODULE RequestLifecycle --------------------------
(***************************************************************************)
(* What a privacy request promises to everybody who looks at it: its       *)
(* status follows the transition table of the domain package, and its      *)
(* execution attempts open and close in step with the status.  Plans,      *)
(* approvals, actors and step scopes are left to module PrivacyRequest,    *)
(* which implements this one.                                              *)
(***************************************************************************)
EXTENDS RequestMoves

VARIABLE request

Init == request = NewRequest

Next ==
  \/ request' \in Proceed(request)
  \/ request' \in Authorize(request)
  \/ request' \in Start(request)
  \/ request' \in Withdraw(request)
  \/ request' \in Settle(request)
  \/ request' \in Annotate(request)

Spec == Init /\ [][Next]_request
=============================================================================
