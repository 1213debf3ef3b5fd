CONSTANTS
  u1 = u1  u2 = u2  u3 = u3  a1 = a1
  Agent = {a1}
  Unit = {u1, u2, u3}
  MaxRepairs = 1  MaxRuns = 4
  Group <- OneGroup  DependsOn <- ThirdAfterFirst
  Attested = {}  Overrides = {}
  Driven = {u3}
SPECIFICATION FairLifecycle
PROPERTIES Settles ReachesVerdict
CHECK_DEADLOCK FALSE
