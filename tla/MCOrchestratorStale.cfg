CONSTANTS
  u1 = u1  u2 = u2  u3 = u3  a1 = a1  a2 = a2  j1 = j1  j2 = j2
  Agent = {a1, a2}
  Unit = {u1, u2, u3}
  MaxRepairs = 1  MaxRuns = 4  MaxPlainRuns = 2
  Group <- MCGroup  DependsOn <- MCDependsOn
  Attested = {u1}  Overrides = {u2}
  UnitId = {u1}  Event = {e1, e2, e3}  Job = {j1, j2}  Unlucky = {e2, e3}  NoEvent = NoEvent
SPECIFICATION MCSpec
SYMMETRY Symmetry
INVARIANTS ApprovedCode
CHECK_DEADLOCK FALSE
