CONSTANTS
  c1 = c1  c2 = c2  a1 = a1  a2 = a2
  ChangeRequest = {a1}  NoRef = NoRef
  Command = {c1, c2}
  MaxEvents = 10  MaxLate = 1
  Past <- MCPast  Route <- MCRoute
  Attempt = {a1, a2}  Path <- MCPath  Baseline <- MCBaseline
  Factor = {2}  Convention = {1, 2}  Own = 1  MinSamples = 1
  Clerk = {c1, c2}  Unknown = Unknown
  Component = {input, output}  Count = {0, 2}  Rate = {1, 3}
  Money = {0, 2, 6, 8}  Units = {2}  None = None
  Files <- MCFiles  MaxFaults = 2
  Task = {"a", "b", "c", "d"}
  DependsOn <- MCDependsOn  Mission <- MCMission  Runtimes <- MCRuntimes
  alias = alias  reaim = reaim  kept = kept
  Rewrite = {alias, reaim}  Reaimed = {reaim}  Old = 0  RosterOf <- MCRoster  Draft <- MCDraft
  Kept = kept  Nothing = Nothing
  LastVersion = 2  MaxCommits = 2  MaxRevisions = 1  MaxTime = 1  MaxStarts = 3  MaxAge = 0
  Limit = 5  Enough = 2  Horizon = 7
  u1 = u1  u2 = u2  WorkUnits = {u1, u2}  NoUnit = NoUnit  Tracker = {"github", "gitlab"}  Undeclared = Undeclared
  Repository = {"forge", "tools"}  RepoOf <- MCRepoOf  IssueRef = "forge#1"  PullRef = "forge!1"
  Histories <- MCHistories  Onward = {"triaged", "planned", "approved", "dispatched", "merged", "live"}
  Labelled <- MCLabelled  MaxSteps = 2
  Number = {1, 2, 3}  Top = 0  Unsaid = 99  Listed = {1, 2}  OtherItems <- MCOtherItems  MaxLevels = 3  MaxMoves = 1
SPECIFICATION MCSpec
SYMMETRY Clerks
INVARIANTS ProjectsHistory CalibrationAgrees HonestMoney OneExport CriticalPathSpans DispatchBound ConsoleTrue
PROPERTIES SectionsKept StableForecast
CHECK_DEADLOCK FALSE
