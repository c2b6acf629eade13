---------------------------- MODULE ConnectorCall ----------------------------
(***************************************************************************)
(* What the agent's runner may rely on when it has a connector change a    *)
(* resource: a call acts at most once, and is answered ok only when it     *)
(* acted.  Every other answer leaves open whether it acted, and it may     *)
(* still act after such an answer.                                         *)
(***************************************************************************)
EXTENDS Naturals

CONSTANT Calls

VARIABLES
  answer,  \* call -> "none" before it is made, "waiting", "ok" or "failed"
  acted    \* call -> how often it acted

Init ==
  /\ answer = [c \in Calls |-> "none"]
  /\ acted = [c \in Calls |-> 0]

Make(c) ==
  /\ answer[c] = "none"
  /\ answer' = [answer EXCEPT ![c] = "waiting"]
  /\ UNCHANGED acted

Act(c) ==
  /\ answer[c] # "none"
  /\ acted[c] = 0
  /\ acted' = [acted EXCEPT ![c] = 1]
  /\ UNCHANGED answer

Answer(c) ==
  /\ answer[c] = "waiting"
  /\ \/ acted[c] = 1 /\ answer' = [answer EXCEPT ![c] = "ok"]
     \/ answer' = [answer EXCEPT ![c] = "failed"]
  /\ UNCHANGED acted

Next == \E c \in Calls : Make(c) \/ Act(c) \/ Answer(c)

Spec == Init /\ [][Next]_<<answer, acted>>

=============================================================================
