CONSTANTS
  ci = ci  lint = lint  mine = mine  sample = sample  file = file  secret = secret
  root = root  left = left  right = right  far = far  leaf = leaf  main = main  one = one
  opened = opened  edited = edited  paused = paused  unnumbered = unnumbered
  unit1 = unit1  w1 = w1  w2 = w2
  Workflow = {ci, lint}  Context = {"test", "other"}  Gate = "test"
  Branch = {sample, mine}  Sample = sample
  FilePath = {file, secret}  Forbidden = {secret}  Maybe = Maybe
  Callee = {root, left, right, far, leaf}  Roots = {root}  MaxDepth = 4  PerCaller = 4
  Beyond = Beyond  NoCall = NoCall  Inherit = Inherit
  MaxDepartures = 2
  Profile <- MCProfile  None = None  Broken = Broken  Edited = Edited  Theirs = Theirs
  MaxEdits = 2  MaxAsks = 2
  Approvals = 1  Absent = Absent  Names = {"client-id"}  MaxRuns = 2  MaxTweaks = 2
  BranchName = {main, one}  Issue = {"issue"}  IssueOf <- MCIssueOf  NoIssue = NoIssue
  Unsure = Unsure  Nowhere = Nowhere  Detached = Detached  MaxSegments = 3
  Worker = {w1, w2}  Notice = {opened, edited, paused, unnumbered}
  WorkItem = {unit1}  NoItem = NoItem  NoticeLabels <- MCLabels  ItemOf <- MCItemOf
  MaxDeliveries = 4
  Source = {"code", "wiki", "chat"}  Unnamed = "unnamed"  Fixed = 1  Caveat = 1  MaxRecords = 2
  ApprovalLabel = {"implement", "ready"}  Person = {"ann", "bob"}
  Own = "own"  PullRequest = {"own", "rival"}  Attempts = 2  MaxChanges = 4
SPECIFICATION MCSpec
INVARIANTS DeliveryAdmitted CallsVerified ReadyIsTrue OnboardingKeeps SettingsEnforced LeaseRespected DecidedOnce
  PacketWhole ReadyAtOnce
CHECK_DEADLOCK FALSE
