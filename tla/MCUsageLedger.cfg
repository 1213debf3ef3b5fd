CONSTANTS
  c1 = c1  c2 = c2  a1 = a1  a2 = a2
  Attempt = {a1, a2}  Path <- MCPath  Baseline <- MCBaseline
  Factor = {2}  Convention = {1}  Own = 1  MinSamples = 1
  Clerk = {c1, c2}  Unknown = Unknown
SPECIFICATION UsageSpec
PROPERTIES SectionsImmutable
CHECK_DEADLOCK FALSE
