---------------------------- MODULE PullRequest -----------------------------
(***************************************************************************)
(* What happens to an agent's pull request after its commit is pushed:     *)
(* CI, the transient-failure retry (infra_recovery.py), independent review *)
(* and its continuation (review_continuation.py), bounded repair, and the  *)
(* protected merge (protected_merge.py, merge_executor.py,                 *)
(* github_evidence.py).  The workflows that call this code run side by     *)
(* side on one pull request and share nothing but GitHub: its head, its    *)
(* check runs, its comments and its labels.                                *)
(*                                                                         *)
(* A commit is a number, in the order the commits are pushed.  Each has    *)
(* one CI run, which may be re-run whether it failed or passed, and every  *)
(* time it passes the review workflow may judge the commit anew: the check *)
(* runs of a head may be undone at any time.                               *)
(* Several workflow runs for one head are serialized by GitHub's           *)
(* concurrency groups, so each head has one retry and one continuation at  *)
(* a time.  Each is started by the end of a run of CI or of the review,    *)
(* perhaps late or more than once: `ended` is what may have started it.    *)
(* Of a commit that is no longer the head nobody reads a review, and what  *)
(* its runs start does nothing: both are kept for the head alone.          *)
(***************************************************************************)
EXTENDS Integers

CONSTANTS
    MaxHead,     \* commits that may be pushed
    MaxRuns,     \* attempts of one CI run
    MaxRetries,  \* --max-attempts (FORGE_MAX_TRANSIENT_RETRIES)
    MaxRepairs,  \* FORGE_MAX_REPAIR_CYCLES
    People,      \* the heads on which people push, re-run CI, relabel, comment
    Unlucky      \* the heads whose workflow jobs may die

Commit == 1 .. MaxHead
ASSUME BoundAssumption ==
    /\ MaxHead \in Nat \ {0} /\ MaxRuns \in Nat \ {0}
    /\ MaxRetries \in Nat \ {0} /\ MaxRepairs \in Nat \ {0}
    /\ People \subseteq Commit /\ Unlucky \subseteq Commit

VARIABLES
    head,     \* the pull request's head commit
    tip,      \* the last commit pushed
    ci,       \* each commit's CI run: its latest attempt and how that went
    verdict,  \* the latest independent review of the head
    ended,    \* how runs of the CI and the review of the head have ended
    cleared,  \* the labels that clear it for an autonomous merge are on
    threads,  \* an unresolved review conversation is open
    notes,    \* the retry markers in the bot's comments, as a reader folds them
    fixes,    \* the repair markers in the bot's comments, folded likewise
    retry,    \* the retry workflow of each head
    asked,    \* re-runs the retry workflow has asked for (history)
    follow,   \* the continuation workflow of each head
    merge,    \* the protected-merge workflow
    held,     \* what was true of the head it is to merge as it went (history)
    merged    \* the commit that was merged, or 0

github == <<head, tip, ci, verdict, ended, cleared, threads, merged>>
merging == <<merge, held>>
bots == <<notes, fixes, retry, asked, follow, merging>>
vars == <<github, bots>>

\* What the log of a failed attempt shows: a platform error alone, or anything
\* that outweighs it (a policy rejection, failing tests) or is unknown.
Failed == {"platform", "substantive"}
Result == {"running", "passed"} \cup Failed
Verdict == {"approve", "changes_requested"}
Ending == {"passed", "failed"} \cup Verdict
Fact == {"cleared", "green", "quiet"}
Note == [attempts : 0 .. MaxRetries, events : SUBSET (1 .. MaxRuns), exhausted : BOOLEAN]
Fixes == [heads : SUBSET Commit, cycle : 0 .. MaxRepairs]

\* The merge workflow: the head it was asked to merge and the head it read.
Collected == [pc : {"idle", "snapshot", "pull", "checks", "threads", "put"},
              expected : 0 .. MaxHead, head : 0 .. MaxHead]
NoMerge == [pc |-> "idle", expected |-> 0, head |-> 0]

\* Type invariant.  What the retry and the repair leave in the comments stays
\* within their budgets: `attempts` and `cycle` are never recorded beyond them.
PullRequestTypeOK ==
    /\ head \in Commit /\ tip \in Commit /\ head <= tip
    /\ ci \in [Commit -> [attempt : 0 .. MaxRuns, result : {"none"} \cup Result]]
    /\ verdict \in {"none"} \cup Verdict /\ ended \in SUBSET Ending
    /\ cleared \in BOOLEAN /\ threads \in BOOLEAN
    /\ notes \in [Commit -> Note] /\ fixes \in Fixes
    /\ retry \in [Commit -> [pc : {"idle", "classify", "record", "block", "rerun"},
                           attempt : 0 .. MaxRuns]]
    /\ asked \in [Commit -> Nat]
    /\ follow \in [Commit -> [pc : {"idle", "repair", "mark"}, cycle : 0 .. MaxRepairs]]
    /\ merge \in Collected /\ held \in SUBSET Fact
    /\ merged \in 0 .. MaxHead

Open == merged = 0
Last(h) == ci[h].result
First == [attempt |-> 1, result |-> "running"]

Init ==
    /\ head = 1 /\ tip = 1
    /\ ci = [h \in Commit |-> IF h = 1 THEN First ELSE [attempt |-> 0, result |-> "none"]]
    /\ verdict = "none" /\ ended = {}
    /\ cleared \in BOOLEAN /\ threads = FALSE
    /\ notes = [h \in Commit |-> [attempts |-> 0, events |-> {}, exhausted |-> FALSE]]
    /\ fixes = [heads |-> {}, cycle |-> 0]
    /\ retry = [h \in Commit |-> [pc |-> "idle", attempt |-> 0]]
    /\ asked = [h \in Commit |-> 0]
    /\ follow = [h \in Commit |-> [pc |-> "idle", cycle |-> 0]]
    /\ merge = NoMerge /\ held = {} /\ merged = 0

-----------------------------------------------------------------------------
(* GitHub, its runners and the people.                                     *)

\* A commit on top of the last one becomes the head, and its CI starts.
Pushed ==
    /\ tip < MaxHead
    /\ tip' = tip + 1 /\ head' = tip + 1
    /\ ci' = [ci EXCEPT ![tip + 1] = First]
    /\ verdict' = "none" /\ ended' = {}

Push ==
    /\ head \in People /\ Open /\ Pushed
    /\ UNCHANGED <<cleared, threads, merged, bots>>


\* An attempt of the CI run ends.
Finish(h) ==
    /\ Last(h) = "running"
    /\ \E result \in Result \ {"running"} :
          /\ ci' = [ci EXCEPT ![h].result = result]
          /\ ended' = IF h # head THEN ended
                       ELSE ended \cup {IF result = "passed" THEN "passed" ELSE "failed"}
    /\ UNCHANGED <<head, tip, verdict, cleared, threads, merged, bots>>

\* GitHub re-runs a run that is complete.
Rerunnable(h) == Last(h) \notin {"none", "running"} /\ ci[h].attempt < MaxRuns
NewAttempt(h) == ci' = [ci EXCEPT ![h] = [attempt |-> @.attempt + 1, result |-> "running"]]

ManualRerun(h) ==
    /\ head \in People /\ Open /\ head = h /\ Rerunnable(h) /\ NewAttempt(h)
    /\ ci[h].attempt - asked[h] < MaxRuns - MaxRetries
    /\ UNCHANGED <<head, tip, verdict, ended, cleared, threads, merged, bots>>

\* The head, once its CI has passed, is judged, or a further review of it
\* begins; what was said before no longer counts.
Review ==
    /\ Open /\ "passed" \in ended
    /\ \/ \E v \in Verdict : verdict' = v /\ ended' = ended \cup {v}
       \/ verdict' = "none" /\ UNCHANGED ended
    /\ UNCHANGED <<head, tip, ci, cleared, threads, merged, bots>>

Relabel ==
    /\ head \in People /\ Open /\ cleared' = ~cleared
    /\ UNCHANGED <<head, tip, ci, verdict, ended, threads, merged, bots>>

Converse ==
    /\ head \in People /\ Open /\ threads' = ~threads
    /\ UNCHANGED <<head, tip, ci, verdict, ended, cleared, merged, bots>>

-----------------------------------------------------------------------------
(* Transient retry: `decide_retry` behind three jobs, classify, record and *)
(* rerun, each of which may be the last that runs.                         *)

Transient(result) == result = "platform"

Retry(h, pc, attempt) ==
    retry' = [retry EXCEPT ![h] = [pc |-> pc, attempt |-> IF pc = "idle" THEN 0 ELSE attempt]]

\* A completion event or the watchdog finds a failed run on the open head.
Discover(h) ==
    /\ Open /\ head = h /\ Last(h) \in Failed
    /\ retry[h].pc = "idle"
    /\ Retry(h, "classify", ci[h].attempt)
    /\ UNCHANGED <<github, notes, fixes, asked, follow, merging>>

\* Mutation: an event is recognised by a retry being in flight, not by its key.
DecisionInFlight(h) ==
    IF head # h \/ ~Transient(Last(h)) \/ (notes[h].events # {} /\ ~notes[h].exhausted) THEN "idle"
    ELSE IF notes[h].attempts >= MaxRetries THEN "block" ELSE "record"

\* `decide_retry`: only a transient failure of the unchanged head that was not
\* acted on yet is retried, and only within the budget.
Decision(h) ==
    IF head # h \/ ~Transient(Last(h)) \/ retry[h].attempt \in notes[h].events THEN "idle"
    ELSE IF notes[h].attempts >= MaxRetries THEN "block" ELSE "record"

\* The classify job: the run must still be the attempt it was started for.
Classify(h) ==
    /\ retry[h].pc = "classify"
    /\ LET bound == Open /\ Last(h) \in Failed /\ ci[h].attempt = retry[h].attempt
       IN Retry(h, IF bound THEN Decision(h) ELSE "idle", retry[h].attempt)
    /\ UNCHANGED <<github, notes, fixes, asked, follow, merging>>

\* `_merge_marker`: a marker raises the attempts, adds its event, and an
\* exhausted record stays exhausted.
Merged(note, attempts, event, exhausted) ==
    [attempts |-> IF attempts > note.attempts THEN attempts ELSE note.attempts,
     events |-> note.events \cup {event},
     exhausted |-> note.exhausted \/ exhausted]

\* Mutation: the marker of a retry repeats the attempts of the one before.
RecordSame(h) ==
    /\ retry[h].pc \in {"record", "block"}
    /\ notes' = [notes EXCEPT ![h] =
          Merged(@, @.attempts, retry[h].attempt, retry[h].pc = "block")]
    /\ Retry(h, IF retry[h].pc = "record" THEN "rerun" ELSE "idle", retry[h].attempt)
    /\ UNCHANGED <<github, fixes, asked, follow, merging>>

\* The record job posts the marker of a retry, or of the exhausted budget.
Record(h) ==
    /\ retry[h].pc \in {"record", "block"}
    /\ notes' = [notes EXCEPT ![h] =
          IF retry[h].pc = "record" THEN Merged(@, @.attempts + 1, retry[h].attempt, FALSE)
                                    ELSE Merged(@, @.attempts, retry[h].attempt, TRUE)]
    /\ Retry(h, IF retry[h].pc = "record" THEN "rerun" ELSE "idle", retry[h].attempt)
    /\ UNCHANGED <<github, fixes, asked, follow, merging>>

\* The rerun job looks at the head once more and asks for the failed jobs.
Rerun(h) ==
    /\ retry[h].pc = "rerun"
    /\ Retry(h, "idle", 0)
    /\ IF Open /\ head = h /\ Last(h) \in Failed /\ Rerunnable(h)
       THEN NewAttempt(h) /\ asked' = [asked EXCEPT ![h] = @ + 1]
       ELSE UNCHANGED <<ci, asked>>
    /\ UNCHANGED <<head, tip, verdict, ended, cleared, threads, merged, notes, fixes, follow, merging>>

-----------------------------------------------------------------------------
(* Continuation: a CI run that failed or a review that asked for changes   *)
(* starts one bounded repair, one that approved starts the protected       *)
(* merge.  It goes by the run that ended, not by what has come since.      *)

\* `decide_review_continuation`, with the merge gates left to the merge itself.
NextAction(v, fresh, cycle) ==
    IF ~fresh THEN "noop"
    ELSE IF v = "approve" THEN "merge"
    ELSE IF cycle >= MaxRepairs THEN "block" ELSE "repair"

\* A head whose repair is recorded is left alone.
Continues(h, v) == NextAction(v, Open /\ head = h /\ h \notin fixes.heads, fixes.cycle)

Follow(h, pc, cycle) == follow' = [follow EXCEPT ![h] = [pc |-> pc, cycle |-> cycle]]
Merging(h) == merge.pc # "idle" /\ merge.expected = h

StartRepair(h) ==
    /\ follow[h].pc = "idle" /\ ~Merging(h)
    /\ ended \cap {"failed", "changes_requested"} # {}
    /\ Continues(h, "changes_requested") = "repair"
    /\ Follow(h, "repair", fixes.cycle + 1)
    /\ UNCHANGED <<github, notes, fixes, retry, asked, merging>>

\* The repair is published on the head it was made for, or not at all.
Publish(h) ==
    /\ follow[h].pc = "repair" /\ Open /\ head = h
    /\ Pushed
    /\ Follow(h, "mark", follow[h].cycle)
    /\ UNCHANGED <<cleared, threads, merged, notes, fixes, retry, asked, merging>>

Abandon(h) ==
    /\ follow[h].pc = "repair"
    /\ Follow(h, "idle", 0)
    /\ UNCHANGED <<github, notes, fixes, retry, asked, merging>>

\* The marker is posted after the repair succeeded.
Mark(h) ==
    /\ follow[h].pc = "mark"
    /\ fixes' = [heads |-> fixes.heads \cup {h},
                 cycle |-> IF follow[h].cycle > fixes.cycle THEN follow[h].cycle ELSE fixes.cycle]
    /\ Follow(h, "idle", 0)
    /\ UNCHANGED <<github, notes, retry, asked, merging>>

\* A job of the retry or of the continuation dies; the workflow ends with it.
JobDies(h) ==
    /\ h \in Unlucky
    /\ \/ retry[h].pc # "idle" /\ Retry(h, "idle", 0) /\ UNCHANGED follow
       \/ follow[h].pc # "idle" /\ Follow(h, "idle", 0) /\ UNCHANGED retry
    /\ UNCHANGED <<github, notes, fixes, asked, merging>>

-----------------------------------------------------------------------------
(* The protected merge: labels from a first snapshot, then the evidence of *)
(* `GitHubMergeEvidenceCollector.collect`, read in three calls, the gates  *)
(* of `evaluate_autonomy`, and one merge request pinned to the head.       *)

others == <<head, tip, ci, verdict, ended, cleared, threads, notes, fixes, retry, asked, follow>>

\* The latest CI attempt of a commit passed and its latest review approved it.
Green(h) == h = head /\ Last(h) = "passed" /\ verdict = "approve"

\* What is true of a commit now.
Facts(h) == {f \in Fact : /\ h = head
                           /\ \/ f = "cleared" /\ cleared
                              \/ f = "green" /\ Green(h)
                              \/ f = "quiet" /\ ~threads}

\* A call of the merge workflow.  One gate that does not pass denies the merge
\* (`evaluate_autonomy`), which is `MergeFails`: the calls in between only read.
Reads(pc, passes) ==
    /\ passes /\ merge' = [merge EXCEPT !.pc = pc]
    /\ held' = held \cup Facts(merge.expected)
    /\ UNCHANGED <<others, merged>>

StartMerge(h) ==
    /\ follow[h].pc = "idle" /\ merge.pc = "idle"
    /\ "approve" \in ended /\ Continues(h, "approve") = "merge"
    /\ merge' = [pc |-> "snapshot", expected |-> h, head |-> 0]
    /\ held' = {}
    /\ UNCHANGED <<others, merged>>

\* Risk, scope and security come from the labels of this first collection.
Snapshot ==
    /\ merge.pc = "snapshot" /\ Open
    /\ Reads("pull", cleared)

\* The second collection reads the pull request, ...
ReadPull ==
    /\ merge.pc = "pull" /\ cleared
    /\ merge' = [merge EXCEPT !.pc = "checks", !.head = head]
    /\ held' = held \cup Facts(merge.expected)
    /\ UNCHANGED <<others, merged>>

\* ... the check runs of the head it read, ...
ReadChecks ==
    /\ merge.pc = "checks"
    /\ Reads("threads", Green(merge.head))

\* ... and the conversations, which must belong to the same head.
ReadThreads ==
    /\ merge.pc = "threads" /\ head = merge.head
    /\ Reads("put", ~threads)

\* The service: evidence of the head expected.
Allowed(m) == m.head = m.expected

\* Mutation: the merge request does not pin the head.
PutUnpinned ==
    /\ merge.pc = "put" /\ Allowed(merge) /\ Open
    /\ merged' = head
    /\ merge' = NoMerge /\ held' = {}
    /\ UNCHANGED others

\* GitHub merges the head the request names, if it still is the head.
Put ==
    /\ merge.pc = "put" /\ Allowed(merge)
    /\ Open /\ head = merge.expected
    /\ merged' = merge.expected
    /\ merge' = NoMerge /\ held' = {}
    /\ UNCHANGED others

\* The service denies, a call fails, or GitHub rejects the merge.
MergeFails ==
    /\ merge.pc # "idle"
    /\ merge' = NoMerge /\ held' = {}
    /\ UNCHANGED <<others, merged>>

-----------------------------------------------------------------------------
RetrySteps(h) == Discover(h) \/ Classify(h) \/ Record(h) \/ Rerun(h)
FollowSteps(h) == StartRepair(h) \/ Publish(h) \/ Abandon(h) \/ Mark(h) \/ StartMerge(h)
MergeSteps == Snapshot \/ ReadPull \/ ReadChecks \/ ReadThreads \/ Put \/ MergeFails
GitHubSteps(h) == Finish(h) \/ ManualRerun(h)

Next ==
    \/ Push \/ Review \/ Relabel \/ Converse
    \/ MergeSteps
    \/ \E h \in Commit : GitHubSteps(h) \/ RetrySteps(h) \/ FollowSteps(h) \/ JobDies(h)

Spec == Init /\ [][Next]_vars

\* CI runs end; a queued retry workflow starts and its jobs go on.
FairSpec ==
    /\ Spec
    /\ \A h \in Commit :
          /\ WF_vars(Finish(h)) /\ WF_vars(Discover(h)) /\ WF_vars(Classify(h))
          /\ WF_vars(Record(h)) /\ WF_vars(Rerun(h))

-----------------------------------------------------------------------------
\* The retry workflow never asks for more re-runs of a head than its comments
\* record, and never records more than the budget: evidence is written before
\* the re-run (reusable-transient-retry.yml), whatever jobs die and whoever
\* else re-runs the CI (infra_recovery.py, decide_retry and record_retry).  Nor
\* do the repair markers, written after the repairs, count past the cycles
\* allowed (review_continuation.py, decide_review_continuation).
RetryBudget ==
    /\ \A h \in Commit : asked[h] <= notes[h].attempts /\ notes[h].attempts <= MaxRetries
    /\ fixes.cycle <= MaxRepairs

\* What is merged is the head the merge was asked for, and of that very commit it
\* was true at moments since the merge began that its latest CI attempt had passed
\* and its latest review approved it, that its labels cleared it and that no
\* conversation was open, though all that is read in several calls while pushes,
\* repairs, re-runs and reviews go on (protected_merge.py, github_evidence.py,
\* merge_executor.py).  It need not all have been true at one moment, nor still be
\* so at the merge: a re-run, review, label or conversation later than the call
\* that reads it is not seen, for only the head is pinned.
MergesReviewed ==
    [][merged' # merged => /\ merged' = head /\ merged' = merge.expected
                           /\ held = Fact]_vars

\* A transient failure of the head does not stay: the run passes, fails for
\* a reason of its own, or the exhausted budget is recorded, unless the head
\* moves on (decide_retry: the event key of each attempt, never an attempt in
\* flight, decides what was acted on).  It is said of the heads whose workflow
\* jobs do not die: an attempt recorded by a job whose successor died is never
\* re-run.
Settled(h) == head # h \/ merged # 0 \/ notes[h].exhausted \/ Last(h) \in {"passed", "substantive"}
Recovers == \A h \in Commit \ Unlucky : Transient(Last(h)) ~> Settled(h)
=============================================================================
