CONSTANTS
  UnitId = {u1, u2}
  Event = {e1, e2, e3}
  Job = {j1, j2}
  NoEvent = NoEvent
  Unlucky = {}
SPECIFICATION WorkflowSpec
SYMMETRY JobSymmetry
PROPERTIES NeverForgets
