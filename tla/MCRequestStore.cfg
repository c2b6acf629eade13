CONSTANTS
  q1 = q1
  q2 = q2
  Requests = {q1, q2}
  Planned = q1
  MaxVersion <- Bounds
  Copies = {c1, c2}
  Saves = {x1, x2}
  Null = Null
  CommandsDuringSave = TRUE
SPECIFICATION Spec
SYMMETRY Symmetry
CHECK_DEADLOCK FALSE
INVARIANTS
  ChainIsUnbroken
  EachVersionAuditedOnce
  AuditIsLegalHistory
  DroppedEventsAreStored
