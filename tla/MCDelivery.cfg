SPECIFICATION MCSpec
CONSTANTS
  Keys = {k1, k2}
  Hashes = {f1, f2}
  Handlers = {h1, h2}
  Workers = {w1, w2}
  Null = Null
  BatchSize = 2
  Jobs = {j1, j2, j3}
  Capacity = 2
  Base = 2
  Maximum = 20
  Width = 5
  MaxAccepted = 5
CHECK_DEADLOCK FALSE
INVARIANTS KeysActOnce RepeatsAreFarApart
PROPERTIES EventsGetOut CapNeverFalls
