\* Two requests and two subjects, one agent, no replacement.
CONSTANTS
  Requests = {1, 2}
  FirstStatus <- OldAndNew
  MaxVersion <- Bounds
  Subjects = {s1, s2}
  Agents = {a1}
  Tokens = {}
  Modes = {}
  Calls = {x1, x2}
  Null = Null
SPECIFICATION Spec
SYMMETRY Symmetry
CHECK_DEADLOCK FALSE
INVARIANTS
  OneActiveRequest
  VersionsAreAudited
PROPERTIES
  OriginalGoesOn
