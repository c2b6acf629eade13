----------------------------- MODULE MCDelivery -----------------------------
(* Delivery and AgentConnection for TLC.  They share no state: a behaviour of *)
(* both interleaves one of each, and one at a time is run.                    *)
EXTENDS Delivery

CONSTANTS Jobs, Capacity, Base, Maximum, Width, MaxAccepted

(* What the constructors assert: the deduplicator holds something, and the    *)
(* delay has a base, which is not above its maximum.                          *)
ASSUME AgentAssumption ==
  /\ Capacity \in Nat \ {0}
  /\ Base \in Nat \ {0}
  /\ Maximum \in Nat /\ Maximum >= Base
  /\ Width \in Nat \ {0}

VARIABLES
  side,  \* the side that is run
  mode, attempt, delay, cap, order, log

agentVars == <<mode, attempt, delay, cap, order, log>>

agent == INSTANCE AgentConnection

MCInit == side \in {"control", "agent"} /\ Init /\ agent!Init

MCNext ==
  \/ side = "control" /\ Next /\ UNCHANGED <<side, agentVars>>
  \/ side = "agent" /\ agent!Next /\ UNCHANGED <<side, vars>>

MCSpec == MCInit /\ [][MCNext]_<<side, vars, agentVars>> /\ Fairness

(* As in AgentConnection: what the deduplicator promises.                     *)
RepeatsAreFarApart == agent!RepeatsAreFarApart

(* As in AgentConnection: the backoff does not fall.                          *)
CapNeverFalls == agent!CapNeverFalls
=============================================================================
