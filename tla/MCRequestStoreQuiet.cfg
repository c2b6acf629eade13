\* No handler commands a copy while it is being saved.
CONSTANTS
  q1 = q1
  q2 = q2
  Requests = {q1, q2}
  Planned = q1
  MaxVersion <- ShortBounds
  Copies = {c1, c2}
  Saves = {x1, x2}
  Null = Null
  CommandsDuringSave = FALSE
SPECIFICATION FairSpec
CHECK_DEADLOCK FALSE
INVARIANT AttemptsAgreeWithRow
PROPERTY SaveEnds
