CONSTANTS
  UnitId = {u1}
  Event = {e1, e2, e3}
  Job = {j1, j2}
  NoEvent = NoEvent
  Unlucky = {e3}
SPECIFICATION WorkflowSpec
SYMMETRY JobSymmetry
INVARIANTS Reproducible
