# A TLA+ model of Forge (agentic-sdlc)

Forge takes issues through planning, implementation, verification, independent
review and repair with AI agents, and hands the result to a person to merge. Its
hard parts are not in the agents but around them: which session may work on an
issue, what a unit of work may do next and on whose word, and what is left of
that when processes die, events come twice and verdicts come late. This directory
models those parts in TLA+, checks them with TLC on small instances, and proves
the main results with TLAPS for instances of every size.

Paths below are relative to `src/src/agentic_sdlc/` unless they start with
`src/`. Modules are translated from the code; the docs are quoted only in the
statements of properties.

## Inventory

| component | state it keeps | operations | interacts with |
|---|---|---|---|
| issue leases (`leases.py`) | marker comments on a GitHub issue, the `in-progress` label, the assignee | `claim`, `renew`, `release`, reconciliation of labels and assignees, inventories, labeler authorization | other sessions, only through the issue; pull requests; the clock |
| orchestration engine (`orchestration.py`, `orchestrate` and `dispatch-packet` in `cli.py`) | one JSON document: units, transitions, event keys, runs, repair counts, lineage | create, transition, cancel, supersede, manual override, start and finish runs, record verification and review | agents (runs, signed outcomes), people, the driver, the orchestrate workflow |
| autonomous driver (`lifecycle.py`, `autonomy.py`) | none of its own | `advance`: one transition per call from a stage result | the engine |
| orchestrate workflow (`src/.github/workflows/reusable-orchestrate.yml`) | an uploaded artifact (the document), a status comment | a job per event: download, apply, upload, comment | GitHub Actions' queue; the engine |
| parallel work graph (`work_graph.py`, `adaptive_scheduler.py`) | statuses, artifact digests, verdicts, leases on paths and resources, tokens spent | `start`, `complete`, `fail`, `invalidate_upstream_change`, final verification, `compose`, `fill_safe_slots` | its caller, a clock passed in |
| event intake (`dispatcher.py`, `checkpoints.py`, `events.py`) | SQLite journal of decided events | `dispatch`: idempotent create and triage | the engine |
| transient retry (`infra_recovery.py`, its workflow) | marker comments on a pull request | classify, decide, record, wait, rerun | GitHub Actions |
| protected merge (`protected_merge.py`, `merge_executor.py`, `merge_evidence.py`, `github_merge.py`, `github_evidence.py`) | none; GitHub's branch protection | collect evidence at one head, decide, merge at that head | GitHub |
| review continuation (`review_continuation.py`, repair workflows) | none | decide repair, merge, block or nothing | the workflows |
| missions (`missions.py`) | counts of active runs, tokens, attempts | check, begin, finish; agent selection | the engine, by way of envelopes |
| event ledger (`event_ledger.py`) | append-only events | append, project to a state | the control center |
| usage and forecasts (`usage_ledger.py`, `capacity_metrics.py`, `schedule_forecast.py`, `efficacy.py`, ...) | append-only records | append, aggregate | reports |
| control center (`control_center.py`, `github_backlog.py`, `project_registry.py`) | none | documents to a dashboard | people |
| packets (`context_builder.py`, `knowledge.py`, `task_spec.py`, `intake.py`, `spec_stage.py`, `harness.py`) | none | select, render, validate | dispatch |
| routing (`executors.py`, `openai_compatible.py`) | none | rank executors; one HTTP client | dispatch |
| policy and gates (`policy.py`, `gates.py`, `git_diff.py`, `pre_review.py`, ...) | none | judge a diff, a path, a command's result | the engine, as verdicts |
| onboarding (`onboard.py`, `scaffold.py`) | files of a checkout, a repository's labels, ruleset and variables | `onboard`, `onboard --apply`, `doctor` | owners and administrators, GitHub |
| commit guard (`templates/hooks/`) | none | judge a shell command before it runs | leases, pull requests, git |

What is hard, and what makes each component correct:

* **Leases.** GitHub has no compare-and-set, so a claim is posted first and
  arbitrated by reading the thread again. Any call may fail, any process may die
  between two calls, time passes between reading a clock and using it. Correct
  means: one holder at a time; a holder starts nothing that an earlier holder has
  already published; a dead session blocks nobody for ever; the label is shown.
* **Engine.** Operations are atomic, but envelopes, results and verdicts are made
  against one state and arrive in another. Correct means: one producing run per
  group; dependencies merged first; repairs counted; nothing offered for merging
  that no independent reviewer approved as it is.
* **Driver.** A waiting unit must be advanced in the end, and bounded repair must
  be bounded.
* **Workflow.** The document is read, changed and written by jobs that overlap.
  No published transition may be lost, no shown one may be missing.
* **Work graph.** Units start, end and are invalidated in any order while their
  leases lapse. Correct means: nothing rests on artifacts that changed; writers
  of a resource are alone; what is composed is what was verified; what is ready
  gets its turn.
* **Intake.** Deliveries come again, late and to two workers, and a worker may
  die between its engine and its journal. Correct means: an event is decided
  once, and what was accepted is not lost.
* **Pull request.** Retry, review, repair and merge run side by side and share
  only GitHub. Correct means: budgets hold whatever dies; what is merged is the
  commit that passed and was approved; a transient failure does not stay.
* **Records.** Events and usage come late, twice or never, and whole files are
  rewritten by overlapping commands. Correct means: what is shown is what
  happened, counted once, and never more than is known.
* **Console.** Documents exported earlier meet a ledger that has moved on, and
  trackers spell their references alike. Correct means: nothing that stands is
  hidden, nothing that is over is told, no issue is dropped.
* **Dispatch and requests.** Many answers, read one after another while people
  and agents go on, are judged as one. Correct means: they were true together,
  or of a state somebody approved.
* **Onboarding and guard.** Partial answers, repeated and interrupted runs, other
  people's edits, commands of which any part may fail. Correct means: "ready" is
  true, an owner's text and a stricter control survive, no leased branch moves.

`PROJECT.json` lists the hazards line by line with the properties that cover them.

## Modules

| module | models | checked by | proved in |
|---|---|---|---|
| `LeaseThread` | how a reader folds the marker comments of an issue into leases (`_open_leases`, `current_lease`) | with `IssueLease` | `IssueLeaseProofs` |
| `IssueLease` | `claim`, `renew`, `release`, `_sync_label`, one GitHub call a step | `MCIssueLease` | `IssueLeaseProofs` |
| `Ticket` | abstract: what leases promise | refined by `IssueLease` | `IssueLeaseProofs` |
| `WorkUnit` | lifecycle graph and run records, as data | with `Orchestrator` | |
| `Orchestrator` | the engine and the guards `cli.py` puts around it | `MCOrchestrator` | `OrchestratorProofs` |
| `Lifecycle` | `AutonomousLifecycleDriver` and the recorded pipeline on the engine (EXTENDS `Orchestrator`) | `MCLifecycle` | |
| `OrchestrateWorkflow` | the jobs of reusable-orchestrate.yml | `MCOrchestrator`, `MCOrchestrateWorkflow` | `OrchestrateWorkflowProofs` |
| `WorkGraph` | `GraphExecutor`, `LeaseManager`, `fill_safe_slots` | `MCWorkGraph` | `WorkGraphProofs` |
| `PullRequest` | transient retry, review continuation, repair, protected merge | `MCPullRequest` | `PullRequestProofs` |
| `EventLedger` | append, fold, migration and the `record-event` file | `MCRecords` | `RecordsProofs` |
| `UsageLedger`, `UsageMoney` | usage records and calibration; what a run cost | `MCRecords`, `MCUsageLedger` | `RecordsProofs` |
| `WriteGroup` | `_write_group`: several documents replaced together | `MCRecords` | `RecordsProofs` |
| `Forecast` | the schedule forecast, over time | `MCRecords` | `RecordsProofs` |
| `PacketDispatch` | `dispatch-packet`, from the request to the run | `MCRecords` | `RecordsProofs` |
| `BacklogExport` | `github-backlog` and the tree built from it | `MCRecords` | `RecordsProofs` |
| `ControlCenter` | incidents against the ledger (EXTENDS `EventLedger`, `BacklogExport`) | `MCRecords` | `RecordsProofs` |
| `Dispatcher` | event intake over the checkpoint journal | `MCSetup` | `DispatcherProofs` |
| `RequestCheck` | `check-request --authorize-labels` | `MCSetup` | `SetupProofs` |
| `ContextPacket` | evidence, budgets and notices of one prompt | `MCSetup` | `RecordsProofs` |
| `BranchRules`, `Doctor` | what doctor concludes of rules, and its report | `MCSetup` | `SetupProofs` |
| `CalleeGraph` | what doctor concludes of nested workflow calls | `MCSetup` | `SetupProofs` |
| `Onboarding` | files written into a checkout | `MCSetup` | `SetupProofs` |
| `RepoSettings` | settings applied to a repository | `MCSetup` | `SetupProofs` |
| `CommitGuard` | the hook that admits or refuses a command | `MCSetup` | `SetupProofs` |

`MCOrchestrator`, `MCRecords` and `MCSetup` each check several components that share
no state: `subject` names the one a behaviour is about, the others rest in one state.

Definitions whose comment begins with "Mutation:" are wrong on purpose. Each is a
plausible bug in the definition that follows it; replacing that definition by it
must break a property, which shows that the property depends on the code. No
specification uses them.

### Leases: `LeaseThread`, `IssueLease`, `Ticket`

The thread is kept as its readers fold it: which sessions have an unreleased
claim, in which order they first claimed, and how long each claim has left
(expiry minus now, so time needs no bound but the longest lifetime, `MaxTTL`).
`AddClaim` and `AddRelease` are what one more marker does to the fold.

`pc[s]` is the next call session `s` makes: a value per `gh` call of the three
operations, so anything may happen between two calls. `lag` is how old the
session's `now` is, up to `MaxLag` ticks, since `renew` and `release` may be
passed one clock reading for all of their reads. `stamp` is what the expiry
computed before a post is worth by now. `mine` is what the session was told.
With `Faults` every call may fail, taking the `except` path the code has for it
(`ClaimPostFails`, `ClaimReadFails`, `BookFails`, `Withdraw`, `Undo`) or killing
the process where there is none (`Crash`). With `Churn` other people open and
close pull requests and the issue. With `AllowForce` operators release other
sessions' leases.

Left out: assignees (the Actions path claims without one, and no decision about
the lease reads them); comments that are not markers, or whose author is not
trusted (they are filtered before the fold); clocks that differ between hosts;
markers cut out of the thread by hand.

`Ticket` is the promise: the issue belongs to at most one session and passes from
one to another only through nobody. `TicketSpec` is `Ticket!Spec` with the holders
(`Holding`) as its owners.

### Engine: `WorkUnit`, `Orchestrator`

A call of `orchestrate` loads the document, applies one operation and writes it
back; an operation is a step. Interleaved are envelopes (`packets`), which are
dispatched against one state of a unit and presented in a later one, runs nobody
finishes, verdicts that are late or repeated, and agents, people and the policy
engine moving units. `Attested` is the set of units kept with `--attestation-key` (an
envelope is refused if its unit has moved on; verdict edges are closed to plain
transitions; outcomes are bound to runs); the others are kept without.

A run keeps what later decisions read: kind, agent, result, cycle, verdict, and
`code`, the position of the producing run whose code it is about. Digests and
signatures become that position. Event keys are fresh in every call; a repeated
key returns without a change, so a retry is a stutter. Left out: run kinds no
decision reads, commit SHAs, artifacts, timestamps, status rendering.

Bounds: `MaxRuns` runs are recorded on one unit; `MaxRepairs` is the code's own
`max_repair_cycles`. `packets` keeps the last envelope of a unit until it is used:
what is wrong with a stale one does not depend on how many there are.

### Driver and pipeline: `Lifecycle`

`Advance` is `advance()` branch by branch; `reported` is the stage result it is
called with, which belongs to the current stage. `Recorded` is the pipeline the
workflows run instead: runs and verdicts, recorded. Units in `Driven` are under
both. `autonomy.py` decides from evidence gathered elsewhere and is one free
choice, `allowed`.

### Workflow: `OrchestrateWorkflow`

A document is known by the event keys in it, by unit. A job goes from `started`
through `restored`, `applied` and `published` to the status comment and may stop
anywhere. `waiting` is the one pending run a concurrency group keeps: a newer
event takes its place. `Unlucky` events are those whose upload may fail, which
the comment step survives (`always()`). `Reproducible` is the workflow's own
statement about its state, which that step breaks (finding 3); `AheadByFailed` is
what is left of it: a comment is ahead of the document by such events alone.

### Work graph: `WorkGraph`

The executor is one object in one thread: a method is a step, and a method that
raises keeps what it had done by then (`TakeLeases` leaves the leases acquired
before the one refused; `Ends` does not block dependents if releasing raised).
`fill_safe_slots` is a step per unit, `scan` the units it has yet to try; nothing
else happens during a scan. `built` and `tree` are history: what each unit was
started on, and what the final verification was about. `Ancestors` is the least
set closed under dependencies, as a definition without recursion. `Started` is said
of graphs whose units name shared resources in one order (`OneOrder`):
`validate_graph` accepts others, of which it is false (see the observations).

`GraphAssumption` is what `validate_graph` accepts, except that two ordered units
may share an owned path here, and that a unit names a resource once (it may name
one twice in the code, and then every `complete` of it raises). Left out:
overlapping write scopes and composition strategies (validated, then only
reported), retries and timeouts (`timeout_seconds` is the leases' lifetime and
nothing else), the audit log.

### Pull request: `PullRequest`

A commit is a number; `ci[h]` is the latest attempt of its CI run and how it went,
`notes[h]` and `fixes` the marker comments as a reader folds them. Each workflow of a
head is a program counter over its jobs and the calls in them, so pushes, manual
re-runs, reviews, labels and conversations may come in between; `JobDies` ends a
workflow after any of them. Whether a log looks transient is an input of the attempt.

A complete run may be re-run whether it failed or passed, and a head may be reviewed
again, the new verdict replacing the old one, which may also be withdrawn. So what the
merge has read may be undone on the same head before it merges. `ended` holds how runs
of the head's CI and reviews have ended: each end is an event that starts a
continuation, perhaps late. `held` is history: which of the facts a merge rests on
were true of its head at one of its calls. A gate that does not pass ends the merge
(`MergeFails`).

### Intake: `Dispatcher`

`dispatch` is a step per read and write: the look-up, the engine's create and
triage, the row. Workers share the journal and keep engines of their own.
`answers` keeps, beside every answer, the row that was on record for it.

### Records: `EventLedger`, `UsageLedger`, `UsageMoney`, `WriteGroup`, `Forecast`

`happened` is a unit's life, of which the ledger gets events late, twice, with
equal times or not at all; `ProjectsHistory` compares the fold with a telling of
that life that does not fold. A command is a read and a write of a whole file, so
two may overlap (`stale`) and a write may be cut short (`torn`). In the usage
ledger one dimension stands for tokens and runtime; ratios are kept in units of
`1/Unit` where the code rounds floats. `SectionsImmutable` is what the documentation
says of the usage ledger, which overlapping commands break (finding 4);
`SectionsKept` makes an exception of what a command wrote over. `WriteGroup` is one
operating system call a step, each of which may fail. `Forecast` runs a graph of
units beside the function that forecasts it. `told` is the running units whose
`startedAt` the document gives; a unit without one starts, for `_schedule`, at the
time of asking, and its start may be told later (`TellStart`).

### Dispatch: `PacketDispatch`, `RequestCheck`, `ContextPacket`

`PacketDispatch` is one dispatch read by read: contract, base, anchor branch,
authorization, run history, findings, roster. Configuration is a version of the
base or a rewrite an agent committed. What is signed may be kept and presented
later (`signed`, `past`). A tester's packet, which takes contract and roster from
the checkout it tests, is left out.

`RequestCheck` asks GitHub one question at a time, judges, asks everything again
and begins anew where an answer moved. Each change has a moment of its own, and
`moments` remembers which texts were sound and who could write at each.

`ContextPacket` admits records one by one, demands what is required, fills the
budget by relevance and gives back optional records until prompt and notices fit.

### Backlog and console: `BacklogExport`, `ControlCenter`

The issues payload and each listing of sub-issues are separate fetches, whole or
short of a page, while `MoveIssue` goes on; a listing names its parent, or its
records do, or both. `had` is every parent an issue had meanwhile.

`ControlCenter` joins what was loaded with the ledger's units (`status`), which
go on after the export (`Proceed`, `Repoint`). References are texts: `truth` says
which tracker each really belongs to, `declared` what the registry says. Where the
registry says nothing, a unit of another tracker with the same reference may
retire an incident; the code chooses that ("disagreement is proven, never
guessed", `control_center.py:1438`), and `MergesTold` and `GatesTold` ask less
there. A unit's references of one spelling are taken to be one request. `lap` is the
gates a unit passed since it was last triaged, told without the ledger's set of
states seen.
Left out: budgets, warnings, redactions, health, dependency waits and sums.

### Onboarding and doctor: `Onboarding`, `RepoSettings`, `BranchRules`, `CalleeGraph`, `Doctor`

`Onboarding` writes file by file, may die between two, and is asked again, for
another mode, with force or after an upgrade, while the owner edits. `RepoSettings`
is one call to GitHub a step, with administrators editing the ruleset in between
and a doctor's judgement of it. `BranchRules` puts a delivery (push, checks of
several workflows, merge queue) beside what doctor says of the rules it read, some
answers refused. `CalleeGraph` is the walk with its stack and depth budget, against
a reference that follows every chain of calls. `Doctor` starts from a repository
that departs from the generated one in up to `MaxDepartures` facts, with refused
answers, and relates a report without complaints to the facts; what the other two
modules show is a fact there.

### Commit guard: `CommitGuard`

The command is built first, then read segment by segment as the guard does, then
run as the shell does, any segment failing. What the lexer makes of a segment is an
input; a selector or script it cannot read is "blind". A target carries the `cd`s
read before it, as the code's does: after another `cd` the same words name another
place, and then the branch a change replaced stays checked.

## Runs

| run | instance | shows |
|---|---|---|
| `lease_safety` | 2 sessions, lifetimes 1 and 2, lag 1, everything that can go wrong; 1.6 million states | `MutualExclusion`, `NoDuplicateWork`, `LabelShown`, `TicketSpec` |
| `lease_fair` | 2 sessions, lifetime 2, faults | `NeverBlocked` |
| `engine` | one at a time: an attested unit with 1 repair and 4 runs; 2 units of one group, the second depending on the first, with 2 runs each and overrides on the first; a document of 1 unit with 3 events, 2 jobs, two unlucky events; 780 thousand states | `FreshReview`, `ApprovedOnce`, `GatesPassed`, `Serialized`, `RepairsNumbered`, `DependenciesFirst`, `NeverForgets`, `AheadByFailed` |
| `stale_review_verdict` | as `engine` | `ApprovedCode` is violated: finding 1 |
| `lifecycle` | 3 units of one group, one driven and dependent | `Settles`, `ReachesVerdict` |
| `workflow_lost_update` | 2 units, 2 jobs | `NeverForgets` is violated: finding 2 |
| `workflow_failed_upload` | 1 unit, one unlucky event | `Reproducible` is violated: finding 3 |
| `ledger_lost_record` | 2 attempts, 2 commands | `SectionsImmutable` is violated: finding 4 |
| `work_graph` | 5 units (2 writers, 3 readers) and 3 resources, 2 at a time, 2 tokens | `BuiltOnAttested`, `WritersAlone`, `ComposedAsVerified`, `Started` |
| `pull_request` | 2 commits, 4 attempts each, 2 retries, 1 repair, people at the first, jobs of the second die; 810 thousand states | `RetryBudget`, `MergesReviewed`, `Recovers` |
| `records` | one component at a time; 1.8 million states | `ProjectsHistory`, `CalibrationAgrees`, `SectionsKept`, `HonestMoney`, `OneExport`, `CriticalPathSpans`, `StableForecast`, `DispatchBound`, `ConsoleTrue` |
| `setup` | one component at a time; 2.4 million states | `DeliveryAdmitted`, `CallsVerified`, `ReadyIsTrue`, `OnboardingKeeps`, `SettingsEnforced`, `LeaseRespected`, `DecidedOnce`, `PacketWhole`, `ReadyAtOnce` |

Type invariants and the inductive invariants behind the theorems hold for every
value of the constants by proof and are not properties of a run.

Why the bounds are enough to be interesting:

* *Leases.* Every conflict is between a holder and one contender. Lifetimes 1 and 2
  let a later claim outlive an earlier one and a renewal shorten a lease; a lag of
  1 lets a clock reading go stale across an expiry. Theorems cover any number of
  sessions, lifetimes and lag.
* *Engine.* Four runs are an implementation, its review, a repair and its review,
  or two implementations with a review each, the shortest histories in which a
  verdict can be about the wrong code; and with a budget of one, runs are left for
  a repair too many. Two units show every conflict inside a
  group. One agent suffices where independence plays no part. Deadlock is not
  checked, since a unit at its `MaxRuns` bound or in a terminal state has nothing
  to do, as in the code.
* *Driver.* One driven unit, the unit it depends on, and another in the same
  group: the waits there are.
* *Workflow.* Two jobs are enough to overlap; a third event fills the queue and
  takes a waiting one's place.
* *Work graph.* Three readers that wait for nothing make the slots run out; the
  third needs what each of the others needs, so it may get half of it, be refused,
  and hold up another. Two writers that share a path come after them, one on top of
  the other, so that invalidation must reach beyond direct dependents. Two digests
  of the first unit and of the last make an artifact change; a lifetime of one tick
  lets a lease lapse under a running unit; two tokens for units that ask for one or
  two make the budget bind; one provider takes one unit at a time.
* *Pull request.* Two commits give a stale answer about the first; four attempts
  leave a manual re-run, of a passed run too, beside two retries; the merge of
  either may be overtaken by re-runs and reviews of the same head, that of the first
  also by labels and conversations. `Recovers` is about the first commit, whose jobs
  do not die.
* *Events.* Two lives, one that needs a repair and one that may be merged, ten
  events in all, one of which comes with a late clock; two commands overlap.
* *Usage, money, export, forecast.* Two attempts whose calibration paths share a
  key; two priced components with counts and rates that collide; three files and
  two failing calls; a diamond of four units, two with a history, started with and
  without a told start, over seven hours.
* *Dispatch.* Two later bases, two commits by agents, which may rewrite an alias
  or re-aim the configuration, one edit of the issue, one tick with a maximal age
  of zero, three runs: an implementation, a review and a repair, or another of
  one.
* *Backlog.* Three issues, listings of two parents, one move, depth three, and
  another tracker's items with the same numbers. The last part of `TreeWhole` is
  said of one departure, a move or short pages: two may balance out in the counts
  GitHub gives, and then an issue can become a root (`github_backlog.py:653`).
* *Console.* Two units, two trackers, two repositories and two ledger events
  after the export, from lives that lead to every gate. Labels' incidents and those
  of change requests are explored apart, since each incident's fate is its own.
* *Intake.* Four deliveries of four events (one held by a label, one without an
  issue) to two workers.
* *Request.* Two approval labels, two people, four changes, two attempts.
* *Packet.* Up to three records of three sources, one required, budgets that one
  notice can break.
* *Rules, callees, doctor.* A gate and another workflow, two requirements or one
  rule over the publisher's branches; answers are refused only where the second
  workflow is silent. Five files nested four deep with four per caller, one of
  them unreadable, calling back or beyond. Two departures at once, since a check
  that masks another needs two.
* *Onboarding and settings.* Three profiles, two edits and two requests; two runs
  and two edits by administrators.
* *Guard.* One issue branch beside `main`, up to three segments joined by `&&` and
  `;`, at most one of them a branch change, and the third only where every look-up
  answers. With two branch changes the branch a failing segment leaves behind
  depends on which of them failed, which the property does not judge.

`CHECK_DEADLOCK FALSE` stands where a bounded instance runs out of things to do.
Symmetry is used where only safety is checked, on sets whose members no
definition tells apart (sessions, agents, jobs).

### Fairness

* `IssueLease`: the clock ticks; a session in the middle of an operation makes its
  next call (`gh` calls have a timeout, so they return or fail); work ends; and,
  strongly, somebody claims now and then, since routines fire on a schedule while
  the issue is claimable on and off. `NeverBlocked` assumes further that from some
  time on the calls of claims succeed (sessions may still die at work), that
  claims are judged before they lapse, and that the issue stays open and
  unpublished. Without these nobody need ever hold it.
* `Lifecycle`: runs end, results are reported, and the step that follows is taken.
  People are not assumed to do anything, so a unit counts as at rest when it is
  ready for a person's merge or blocked.
* `WorkGraph`: the scheduler is called again and again and ends its scans, time
  passes, agents end one way or another. `Fill`, `Tick` and the end of a unit need
  strong fairness because a scan disables them for its duration. `Started` is
  about the time after artifacts stopped changing: each change starts dependents
  over, and nobody bounds the changes.

* `PullRequest`: CI runs end, and a queued retry workflow starts and its jobs go
  on, for GitHub runs what is queued. Nobody is assumed to push, review or re-run;
  jobs of the commits in `Unlucky` may die and nothing is said of those.

## Proofs

All results hold for every value of the constants under the named assumptions of
the modules: bounds are natural numbers, lifetimes lie within `MaxTTL`,
dependencies are units, and for `WorkGraph` the graph is one `validate_graph`
accepts. Each module of proofs has the argument in this order: types, lemmas on
data, one lemma per kind of step, the invariant, the theorems.

* **`IssueLeaseProofs`.** `TypeCorrect`, `LeaseInvariant`, `OnePerTicket`
  (`MutualExclusion`), `ImplementsTicket` (`TicketSpec`). Mutual exclusion is not
  inductive. `LeaseInv` adds what makes it so: a holder's claim is the live one on
  the thread with everybody senior to it lapsed, and has exactly the time left its
  holder was told; a marker under arbitration has the time left it was stamped
  with; who let go believes in nothing. Two holders would each be the most senior
  live claim. A step by another session either appends behind the holder, or
  releases it (a force), and then nobody is told; time takes from the thread what
  it takes from the holder.
  `WorkNotDuplicated` (`NoDuplicateWork`, by `WorkInv`): a claim that was judged and
  is live comes first on the thread, and from its late read of the pull requests on
  nobody else has one open; only a session at work publishes as itself, and two
  are not both first. `LabelIsShown` (`LabelShown`, by `LabelInv`): while a claim past
  its booking is live, the label is on the issue or whoever took it off has yet to
  read the thread again, and will see that claim.
* **`OrchestratorProofs`.** `CodeInv`: the code the last run of a unit is
  about is that of its last producing run, and a fresh envelope is about the same.
  From it: `GroupsSerialized`. With the numbering of repairs (`RepairInv`):
  `RepairsCounted` (a repair is admitted only while the counter is below the budget,
  and the counter is the number of repairs, each with the next cycle), then
  `ReviewedAfterRepair`, where the point is that a review
  stamped with the current cycle began after the repair that opened the cycle.
  `DependenciesMergedFirst` rests on merged being terminal and every way into an
  underway state leading through `dispatched`. `ApprovedIsOffered` and
  `OfferedPassedGates` rest on `ReviewInv`: every review on record was, when it was
  dispatched, about code that passed its gates, goes back to an implementation and has
  no producer in common with its reviewer. A unit implemented once that is offered has
  a clean review of its last cycle, hence of its last code. The hypothesis of one
  implementation is what finding 1 violates.
* **`WorkGraphProofs`.** `Ancestors` is closed under dependencies and transitive
  (lemmas). `WorkGraphInv`: what runs or has completed was built on the artifacts
  its ancestors have, all attested; a scan holds only ready units; a passed final
  verification is about the artifacts attested now. An ended unit had no running
  dependents, since it was not attested; a changed artifact takes all dependents
  with it, and a unit that keeps running has no changed ancestor. From it
  `BuiltOnCurrentArtifacts`, `ComposedWasVerified`, and `WritersSerialized`: of two
  ordered units one is an ancestor, must be attested while the other runs, and so
  does not run; unordered ones share only if both read. No lease is used, which is
  as well, since leases lapse under running units.
* **`PullRequestProofs`.** `TypeCorrect`, `BudgetKept` (`RetryBudget`) and
  `MergedIsReviewed` (`MergesReviewed`). The
  re-runs asked for are at most the attempts recorded because a job that may ask
  stands one behind them: the invariant counts, per head, a rerun job that is due.
  The attempts recorded stay within the budget because the decision to record is
  made from the comments of the same head, of which there is one retry at a time.
  For the merge, what it has read is not stable, since passed runs are re-run and
  verdicts replaced. `Judged` says instead what was so: by each of its calls, the
  facts read up to it are in `held`, provided the head is still the one it was asked
  for. Labels were on at the snapshot, CI and review green at the third call,
  no conversation open at the fourth; `Allowed` makes the two heads one, and the
  pinned request makes that the head at the merge.
* **`OrchestrateWorkflowProofs`.** `CommentsKeepPace` (`AheadByFailed`), `UploadsKeep`. Said of a
  repository with one unit, since with two they are false (finding 2). The group
  admits one run of the unit (`Alone`), so a run that restored the document holds
  the newest one until it publishes (`Holds`), whatever jobs die or are replaced
  in the queue; only an upload that failed leaves a comment ahead of the document.
* **`DispatcherProofs`.** `DispatchInvariant`, `EventsDecidedOnce` (`DecidedOnce`).
  An event has one row, none is rewritten, and an accepted one is of a unit that
  some engine triaged (`Sound`). `Handled` says what a worker at each step has found
  out; another may overtake it, and then its insertion finds that worker's row and
  answers by it. The lemmas on the latest row of a unit justify the look-up.
* **`SetupProofs`.** `ReadyWasSound` (`ReadyAtOnce`): every change has a moment of
  its own and stamps what it changes, so an answer that is the same the second time
  has stood since the first; hence, when the pull requests were read, all the first
  answers were true together (`RequestInv`). `OwnersKeepTheirs`
  (`OnboardingKeeps`): what a run still has to write is, for each path, what the
  whole run was to leave there (`Goal`), given what the owner had when the run was
  admitted (`Admitted`); so a run cut short anywhere leaves each path old or as
  planned, and a planned path keeps the owner's part.
  `GuardedHistory` (`LeaseRespected`): while the guard reads, the branch change it
  carries is the one the command holds, as sure as its operators allow, and every
  segment read has its targets among those found (`ReadSoFar`). While the command
  runs (`Running`), each checkout is on a branch the guard asked about for every
  segment to come, or on the branch the change leads to; and a sure change followed
  by `&&` alone, in one directory, did happen if the status is still good. That last
  part is why dropping the old branch from what is checked is sound. The length of
  the command is not bounded, the number of branch changes is (one).
  `DeliveriesAdmitted` (`DeliveryAdmitted`), over any rules, branches and workflows:
  a ruleset whose scope doctor can tell covers the whole namespace or none of it, so
  the rules of one sample branch speak for all (`CoversAll`), and what GitHub refuses
  of a push is among what doctor objects to (`RejectionForeseen`); a required context
  without an objection has exactly one reporter (`OneReporter`), hence comes
  (`ChecksCome`), and the bound gate came from a workflow before the pull request
  left the opening (`DeliveryInv`). It supposes of the repository (`Standing`) that
  classic protection has the types GitHub knows and that a context reported by two
  active workflows is visible to doctor in both. `ReportsAreTrue` (`ReadyIsTrue`)
  has no bound on how far a repository is from a ready one: each fact the factory
  needs rests on checks that pass only if it holds (`ReadyMeans`), from the ranges of
  the facts alone (`DoctorTypes`).
  `SettingsHold` (`SettingsEnforced`, by `SettingsInv`): a merged ruleset is rule by
  rule no weaker than Forge's (`Mismatched` finds nothing) nor than the one it was
  read from, whatever an administrator had put there; a ruleset doctor does not
  object to is enforced, since for each type Forge sets a last rule exists among
  finitely many and it is the one compared. While the ruleset is as this run left it
  (`settled`), it has that quality; each edit by an administrator ends the claim.
  `CallsStayVerified` (`CallsVerified`, by `CalleeInv`): unless a gap is reported, a
  file is expanded, or waits to be, at least as deep as any file seen calling it plus
  one (`Followed`), so along every chain of calls the levels rise strictly
  (`AllTraced`); hence none repeats a file, none passes the limit, and each is short
  enough to be found reachable. The token of each level is walked through a file once
  or waits to be (`Granted`), and the walk dismisses an entry only for that. Conversely
  what is on the stacks lies on chains, so where all run nothing is reported
  (`SoundWalk`).
* **`RecordsProofs`.** `ExportsStayWhole` (`OneExport`): phase by phase, which files
  were moved aside, moved in and put back (`Progress`), what is left of the list
  (`Left`), and that no old file is lost (`Recoverable`).
  `RunsRestOnTheirPacket` (`DispatchBound`): what a dispatch has read by each of its
  stages is established (`Established`): contract and roster are of a base that was
  current since it began, the head is one that base's policy and gates let pass, the
  text was approved, the agent is not among the producers. Later steps of the world
  do not undo it, and the start compares the unit with the one that was read. That
  there is a last producing run takes a well-founded argument on positions.
  `CalibrationFollowsLedger` (`CalibrationAgrees`) and `SectionsStay`
  (`SectionsKept`), by `UsageInv`: unless a command wrote over what another
  had written, the calibration in its file, and every one a command is about to
  write, counts and sums exactly the records it has observed, of the file as it is;
  and a command writes a file that has every section of the one it read.
  `HonestMoneyHolds` (`HonestMoney`, by `MoneyInv`): whatever is claimed, a recorded
  figure is the cost of all priced components, each known. `ForecastStays`
  (`StableForecast`) and `PathExplainsEnd` (`CriticalPathSpans`): the forecast is a
  function defined by recursion over the graph of units. That it has a value for
  each unit, and only one, follows from the graph having no cycle: of the units
  without one, some would have no dependency among them. From there, with units as
  `ForecastTypes` has them, a step that is neither early nor late leaves each end
  where it was, a late one brings none forward, an hour moves none back by more than an
  hour (`AnHourAtMost`), and the critical path is a chain of ends, each the former plus
  a duration.
  `PacketsWhole` (`PacketWhole`), by `PacketInv`: what is chosen is the mandatory
  records in the order of their ids, then optional ones by relevance; an optional
  record passed over found no room, and what was chosen before it still stands
  whenever a less relevant one does, so none of those is as large; a prompt given up
  on is down to what is mandatory.
  `ProjectionTellsHistory` (`ProjectsHistory`), by `LedgerInv`: a file, and every file
  a command has read, holds events of the unit's life, each once. Where the times tell
  the order, the rank of an event among those recorded is its rank in that life
  (`OrderedById`), and the fold goes through the ranks (`FoldsAlong`). From one
  recorded event to the next it keeps to what was by then: between another state and
  `repairing` lies an entry into `repairing` (`EnteredOnce`), and a merge is seen where
  it happened unless it, or a change of request, is missing (`Claims`); with no gap it
  keeps exactly to it (`Exact`).
  `ConsoleHolds` (`ConsoleTrue`) has three parts. `TreeWholeAlways`, by `BacklogInv`:
  a listing names only issues that were its parent's at some time, and as long as one
  move was made since the first fetch, every whole listing and every count is of the
  families before it or of those after (`OneMove`). So where an issue was left out of
  all links, the parent that was counted last has fewer links than children, and the
  export is refused (`CountsCatch`, `NoneLeftOut`); and a forest without a chain that
  is too deep is rendered to the last item (`AllRendered`).
  `MergesToldAlways`, by `CenterInv`: what the units' projections hold as merged is,
  tracker by tracker, what was merged (`MergesKnown`), so a reference the registry
  ascribes to one tracker was merged there or nowhere. For labels, `LabelInv`: what
  the ledger has seen of a unit since it was last triaged holds the gates it passed
  (`LapHeld`), and a state that proves a dispatch only with a dispatch or a release
  among them (`Honest`), since no other edge leads into such states. Hence a unit
  retires what labels ask for exactly when it did it (`FateTold`); and the unit an
  incident is joined to is the only one with its issue, of no other registered tracker
  (`UnitFound`), and is found where the registry tells whose the issue is (`UnitTold`).

Sums, sorted records and recursive functions are where one would use induction over
data, which the prover's library cannot offer here. Three devices replace it: a sum
over a finite set is the cardinality of a set of pairs, and a sort the count of those
before; a first or last element is
the member of a finite set that no other precedes, which exists as the numbers are
well-founded; and what a recursive definition computes is shown by a counterexample
that would have to be minimal.

Assumptions beyond bounds: `GuardAssumption`, `OnboardAssumption` and
`VersionAssumption` keep marks such as "no branch" or "no file" apart from what they
stand beside; `FilesAssumption` says that the documents of a group are different
files, which `github-backlog` demands of its outputs; `RosterAssumption` says that
rosters people land give an actor one name, without which an agent could review its
own work under another; `DomainAssumption` says that the workflow files are finitely many,
none of them called what other integrations are, and that "cannot be proven" is no
truth value; `UsageAssumption`, `ForecastAssumption` and `PacketAssumption` have
factors, durations and sizes be natural numbers, units and sources finitely many and
dependencies without a cycle; `SettingsAssumption` tells "no ruleset" from a ruleset;
`CalleeAssumption` has finitely many files and a depth limit of at least one call;
`LedgerAssumption` has a unit begin at intake and go along the factory's edges;
`BacklogAssumption` has finitely many issues, the marks "top" and "unsaid" apart from
them, and other documents' items under other providers; `CenterAssumption` has finitely
many units whose lives go along the edges, references that name repositories, and "no
reference", "no unit" and "no provider" apart from those there are.
TLC evaluates each on the instances it runs.

Model-checked only: all liveness (`NeverBlocked`, `Settles`, `ReachesVerdict`,
`Started`, `Recovers`), which is beyond the prover. Every invariant and action
property of a passing run is also the statement of a theorem.

## Findings

1. *An old review carries new code* (`orchestration.py:692`). A review counts for
   its repair cycle, not for the code it judged. After a clean review, a block and
   a second implementation, recording the first review's signed outcome again
   makes the unit ready to merge.
2. *A lost transition* (`src/.github/workflows/reusable-orchestrate.yml:69`). Jobs
   are serialized by unit, the document is shared by all units: of two jobs that
   restored the same document the second upload drops the first one's transition.
3. *A comment ahead of the state* (`src/.github/workflows/reusable-orchestrate.yml:148`).
   The status comment is written under `always()`, also after the upload of the
   document has failed, and then shows a transition no uploaded document holds, where
   lines 7-8 have every transition reproducible from the uploaded document.
4. *A lost record* (`cli.py:2969`). `record-usage` reads the ledger, appends and writes
   the whole file back without a lock; of two commands that read the same file the
   second drops the first one's record, where `docs/usage-accounting.md:51-52` says
   that history is never rewritten. `record-event` (`cli.py:2643`) does the same.

Observations made while modelling, which no run states as a violation; where a
property would meet one, its comment or the bounds above say how it is limited:

* `leases.py:1801`: `renew` reads leases and pull requests before it posts and
  nothing after it won. If its lease lapsed in between, the marker is a fresh
  claim, and another session may have worked and published meanwhile.
* `leases.py:1536`: a session that died between its marker and its label, and
  claims again, finds its own lease and renews it; renewing sets no label. `torn`
  records such a death and `LabelShown` is silent from then on.
* `lifecycle.py:202`: changes requested after the last permitted repair lead to
  `repair-needed` and on to a repair no counter counts, where
  `docs/orchestration.md` escalates.
* `work_graph.py:367`: `start` keeps the leases it acquired before one was refused
  and refreshes them at each retry; readers that name shared resources in opposite
  orders can hold each other up for ever. `validate_graph` accepts such graphs,
  `Started` is not said of them (`OneOrder`).
* `merge_executor.py:74`: the merge request pins the head and nothing else. A check
  that is re-run and fails, or a review that is replaced or withdrawn, on the same head
  after the call that read it does not stop the merge (unless GitHub's own rules do);
  `MergesReviewed` says only that each fact held at some moment of the merge.
* `agent-review-continuation.yml:162`: the repair marker is posted after the repair was
  published. A failure or review of the new head that is decided on before then reads
  the old count and starts a repair with the same cycle number, so more repairs may be
  published than the budget names; repairs that fail leave no marker at all. The
  counter stays within the budget (`RetryBudget`), the number of repairs need not.
* `schedule_forecast.py:374`: a running unit without `startedAt`, which the document
  need not give, is started at the time of asking, so its end and all that wait for it
  move back an hour with every hour. `StableForecast` counts such a unit as late.
* `cli.py:2643`: what finding 4 says of usage is so of events. In `EventLedger` an event
  that a second command wrote over counts as one not recorded, nothing more happens to
  that ledger (`stale`), and `ProjectsHistory` asks of it what it asks of gaps.
* `event_ledger.py:171`: a blocked unit may go on to the release states whatever it
  was blocked in, where the comment at 810 has every state after a merge reachable
  through the merge alone. Merge proof is captured at the merge even so. Release states are
  also among those the console takes to prove a dispatch, each "reachable only
  through a dispatched run" (`control_center.py:175`): a unit blocked in triage and
  then told live retires what its issue's labels still ask for. `Crossed` counts a
  release as a dispatch.
* `control_center.py:1462`: where the registry does not declare a reference's own
  repository, the one the unit last named decides whose the reference is, also after
  the unit went on to a change request elsewhere. `GatesTold` asks of references of
  two trackers only while the unit's repository is still the issue's.
* `usage_ledger.py:1788`: an estimate already corrected by calibration teaches the
  next calibration, so a coefficient learned from it is relative to itself.
* `onboard.py:3681`: a context that two workflows report is seen only where doctor
  can enumerate both names.
* `onboard.py:2245`: after an interrupted run and an upgrade, a forced run refuses
  a guide it wrote itself as edited by the owner. An edit between the read of a
  file and its replacement, and an administrator's edit between `GET` and the
  whole-document `PUT` of a ruleset (2662), are lost.
* `cli.py:1946`: contract and verification base of a dispatch are two reads and may
  come from two successive bases.

## Not modelled

* The assignee that an ended lease hands over (`leases.py:1226-1411`): no decision
  about a lease reads the assignee. The read-only inventories.
* Parsing and rendering: webhook payloads (`events.py`), task texts, policies,
  requests, workflow files, shell syntax, prompts, dashboards. Modules take what a
  parser concludes as an input.
* Pure judgements whose verdicts are inputs: the evaluation of a diff against a
  policy, pre-review checks, gate commands, the log classifier, executor ranking,
  efficacy and factory metrics.
* Validation of documents beyond what decides a step: field shapes, credential
  screening, size budgets and warnings of the console, redactions, aggregates by
  dimension.
* `missions.py`: a sequential in-memory ledger and a parsed registry.
* The implement, plan, spec and review workflows: linear jobs around commands that
  have modules; what they share is the lease and the state document.

`PROJECT.json` gives the reason component by component.

## Plan

Done: leases and their refinement; engine; driver; workflow; work graph; pull
request; intake; ledgers; dispatch, requests and packets; backlog and console;
onboarding, doctor and guard; the theorems above. What would come next:

1. *Assignees.* `IssueLease` extended by ownership of the assignee: hand-over,
   disowning, cleanup markers, reconciliation. A maintainer's assignment is never
   removed, a lease's own is removed in the end.
2. *Composition.* `PacketDispatch` over `Orchestrator` instead of the record of one
   unit, so that the run it may start is one the engine accepts; `RequestCheck`
   as its source of authorization.
3. *Missions.* The ledger of tokens and attempts under overlapping runs.
