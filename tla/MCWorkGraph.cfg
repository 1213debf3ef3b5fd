CONSTANTS
  a = a  b = b  c = c  d = d  e = e  d1 = d1  d2 = d2  p = p  q = q  r = r
  Unit = {a, b, c, d, e}  Resource = {p, q, r}  Digest = {d1, d2}
  Nobody = Nobody  NoArtifact = NoArtifact
  Rank <- InOrder  DependsOn <- Graph  Needs <- Ordered
  ReadOnly = {a, b, c}
  Timeout <- One  Output <- Outputs  Tokens <- Budgets  Provider <- Providers  Limit <- Limits
  MaxParallel = 2  TokenBudget = 2
SPECIFICATION FairSpec
INVARIANTS BuiltOnAttested WritersAlone ComposedAsVerified
PROPERTIES Started
