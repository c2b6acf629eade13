\* An agent and its replacement, two requests at a time for one job.
CONSTANTS
  Agents = {a1, a2}
  Jobs = {j1}
  Handlers = {h1, h2}
  Null = Null
  Requests = {"lease", "heartbeat"}
  LeaseTime = 2
  JobTime = 2
  MaxSequence = 2
  MaxTime = 2
SPECIFICATION Spec
SYMMETRY Symmetry
CHECK_DEADLOCK FALSE
INVARIANTS
  MessagesActInOrder
  PromiseIsKept
  RevocationEndsLeases
