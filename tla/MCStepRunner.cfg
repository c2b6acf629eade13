SPECIFICATION Spec
CONSTANTS
  Steps = {s1, s2, s3}
  Unknown = unknown
  MaxCalls = 2
INVARIANTS
  ExecutedAtMostOnce
  EffectIsRecorded
  PrerequisitesInPlace
  BlockingIsExact
  NeverStuck
SYMMETRY Symmetry
CHECK_DEADLOCK FALSE
