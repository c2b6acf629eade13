\* One agent and its polls and sockets, two at a time, three in a row.
CONSTANTS
  Agents = {a1}
  Jobs = {j1}
  Handlers = {h1, h2}
  Null = Null
  Requests = {"poll", "hello"}
  LeaseTime = 2
  JobTime = 4
  MaxSequence = 3
  MaxTime = 1
SPECIFICATION Spec
SYMMETRY Symmetry
CHECK_DEADLOCK FALSE
INVARIANTS
  SessionsDoNotReturn
PROPERTIES
  SessionsEndWithTheirSocket
