--------------------------- MODULE MCAgentPairing ---------------------------
(* Small instances of AgentPairing for TLC. *)
EXTENDS AgentPairing, TLC

\* One request that is about to be authorized.
Planned == 1 :> "planning"
Short   == 1 :> 3

\* Two requests of whoever they turn out to be: an old one that is about to be
\* authorized and a new one that waits for its identity.
OldAndNew == 1 :> "planning" @@ 2 :> "identity_verification_pending"
Bounds    == 1 :> 4 @@ 2 :> 4

Symmetry == Permutations(Agents) \cup Permutations(Tokens)
              \cup Permutations(Calls) \cup Permutations(Subjects)
=============================================================================
