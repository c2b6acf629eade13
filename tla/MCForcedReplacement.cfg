\* A forced replacement.
CONSTANTS
  Requests = {1}
  FirstStatus <- Planned
  MaxVersion <- Short
  Subjects = {s1}
  Agents = {a1, a2, a3}
  Tokens = {t1, t2}
  Modes = {"force"}
  Calls = {x1, x2}
  Null = Null
SPECIFICATION Spec
SYMMETRY Symmetry
CHECK_DEADLOCK FALSE
INVARIANT VersionsAreAudited
