\* Two plan versions, two documents, three attempts: a re-plan, a retry and a
\* withdrawn authorization fit into one life of a request.
CONSTANTS
  PlanDocs = {d1, d2}
  StepIds = {s1, s2}
  AttemptIds = {a1, a2, a3}
  Null = Null
  MaxPlanVersion = 2
  MaxVersion = 15
SPECIFICATION Spec
SYMMETRY Symmetry
CHECK_DEADLOCK FALSE
INVARIANTS
  OpenAttemptIsCurrent
  ApprovalBindsPlan
  WorkIsApproved
  AttemptsFollowPlan
PROPERTIES
  AttemptsAreImmutable
  ImplementsLifecycle
