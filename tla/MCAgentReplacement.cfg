\* An agent, two that would replace it, and one request with its envelope and
\* its attempt.
CONSTANTS
  Requests = {1}
  FirstStatus <- Planned
  MaxVersion <- Short
  Subjects = {s1}
  Agents = {a1, a2, a3}
  Tokens = {t1, t2}
  Modes = {"none", "drain", "force"}
  Calls = {x1, x2}
  Null = Null
SPECIFICATION Spec
SYMMETRY Symmetry
CHECK_DEADLOCK FALSE
INVARIANTS
  OneActiveAgent
  TokensPairOnce
  EnvelopesCanBeOpened
  AttemptsFollowStatus
