-------------------------- MODULE PullRequestProofs --------------------------
(* The retry budget of PullRequest, and what it merges, for every number   *)
(* of commits, attempts, retries and repairs, whoever acts and whichever   *)
(* jobs die.                                                               *)
EXTENDS PullRequest, TLAPS

\* A retry that is about to be recorded still has budget, one that is recorded
\* but not asked for yet has its attempt counted already, and every retry is of
\* an attempt there is.
Counted(h) ==
    /\ retry[h].pc # "idle" => retry[h].attempt # 0
    /\ retry[h].pc = "record" => notes[h].attempts < MaxRetries
    /\ retry[h].pc = "rerun" => asked[h] < notes[h].attempts
    /\ asked[h] <= notes[h].attempts

\* A CI run has an attempt once it has begun.
CIOK(c) ==
    /\ c \in [Commit -> [attempt : 0 .. MaxRuns, result : {"none"} \cup Result]]
    /\ \A h \in Commit : c[h].result # "none" => c[h].attempt # 0

Inv == PullRequestTypeOK /\ CIOK(ci) /\ \A h \in Commit : Counted(h)

LEMMA Constants ==
    /\ MaxHead \in Nat \ {0} /\ MaxRuns \in Nat \ {0}
    /\ MaxRetries \in Nat \ {0} /\ MaxRepairs \in Nat \ {0}
    /\ 1 \in Commit /\ Commit \subseteq Nat
BY BoundAssumption DEF Commit

LEMMA InitInv == Init => Inv
<1> SUFFICES ASSUME Init PROVE Inv
  OBVIOUS
<1> USE Constants DEF Init
<1>1. head \in Commit /\ tip \in Commit /\ head <= tip
  BY DEF Commit
<1>2. CIOK(ci) /\ verdict = "none" /\ ended = {} /\ held = {}
  BY DEF CIOK, First, Result
<1>3. notes \in [Commit -> Note] /\ asked \in [Commit -> Nat] /\ \A h \in Commit : Counted(h)
  BY DEF Note, Counted
<1>4. fixes \in Fixes
  BY DEF Fixes
<1>5. retry \in [Commit -> [pc : {"idle", "classify", "record", "block", "rerun"}, attempt : 0 .. MaxRuns]]
  OBVIOUS
<1>6. follow \in [Commit -> [pc : {"idle", "repair", "mark"}, cycle : 0 .. MaxRepairs]]
  OBVIOUS
<1>7. merge \in Collected /\ merged \in 0 .. MaxHead
  BY DEF Collected, NoMerge
<1> QED BY <1>1, <1>2, <1>3, <1>4, <1>5, <1>6, <1>7 DEF Inv, PullRequestTypeOK, CIOK

-----------------------------------------------------------------------------
\* What happens to the CI runs keeps them well formed.
LEMMA PushedOK ==
    ASSUME Inv, Pushed
    PROVE  /\ head' \in Commit /\ tip' \in Commit /\ head' <= tip' /\ CIOK(ci')
           /\ head' = tip + 1 /\ tip' = tip + 1 /\ verdict' = "none" /\ ended' = {}
<1>1. tip + 1 \in Commit
  BY Constants DEF Pushed, Inv, PullRequestTypeOK, Commit
<1>2. First \in [attempt : 0 .. MaxRuns, result : {"none"} \cup Result] /\ First.attempt # 0
  BY Constants DEF First, Result
<1>3. CIOK(ci')
  <2>1. CIOK(ci) /\ ci' = [ci EXCEPT ![tip + 1] = First]
    BY DEF Pushed, Inv
  <2> QED BY <1>1, <1>2, <2>1 DEF CIOK
<1> QED BY <1>1, <1>3, Constants DEF Pushed, Commit

LEMMA FinishOK ==
    ASSUME Inv, NEW h \in Commit, Finish(h)
    PROVE  CIOK(ci') /\ ended' \in SUBSET Ending
<1>1. PICK result \in Result :
          /\ ci' = [ci EXCEPT ![h].result = result]
          /\ ended' = IF h # head THEN ended
                      ELSE ended \cup {IF result = "passed" THEN "passed" ELSE "failed"}
  BY DEF Finish
<1>2. ended' \in SUBSET Ending
  BY <1>1 DEF Inv, PullRequestTypeOK, Ending
<1>3. CIOK(ci')
  <2>1. CIOK(ci) /\ Last(h) = "running"
    BY DEF Inv, Finish
  <2>2. ci' = [ci EXCEPT ![h] = [ci[h] EXCEPT !.result = result]]
    BY <1>1
  <2>3. /\ [ci[h] EXCEPT !.result = result] \in [attempt : 0 .. MaxRuns, result : {"none"} \cup Result]
        /\ [ci[h] EXCEPT !.result = result].attempt # 0
    BY <2>1 DEF CIOK, Last
  <2> QED BY <2>1, <2>2, <2>3 DEF CIOK
<1> QED BY <1>2, <1>3

LEMMA NewAttemptOK == ASSUME Inv, NEW h \in Commit, Rerunnable(h), NewAttempt(h) PROVE CIOK(ci')
<1>1. ci[h].attempt + 1 \in 0 .. MaxRuns
  BY Constants DEF Inv, PullRequestTypeOK, Rerunnable
<1> QED BY <1>1 DEF Inv, PullRequestTypeOK, CIOK, NewAttempt, Result

\* One step of a head's retry, and what Counted needs to know of the others.
Pcs == {"idle", "classify", "record", "block", "rerun"}
RetryOK(r) == r \in [Commit -> [pc : Pcs, attempt : 0 .. MaxRuns]]

LEMMA RetryStep ==
    ASSUME Inv, NEW h \in Commit, NEW pc \in Pcs, NEW attempt \in 0 .. MaxRuns, Retry(h, pc, attempt)
    PROVE  /\ RetryOK(retry')
           /\ retry'[h].pc = pc /\ (pc # "idle" => retry'[h].attempt = attempt)
           /\ \A g \in Commit \ {h} : retry'[g] = retry[g]
BY Constants DEF Inv, PullRequestTypeOK, RetryOK, Retry, Pcs

LEMMA FollowStep ==
    ASSUME Inv, NEW h \in Commit, NEW pc \in {"idle", "repair", "mark"},
           NEW cycle \in 0 .. MaxRepairs, Follow(h, pc, cycle)
    PROVE  follow' \in [Commit -> [pc : {"idle", "repair", "mark"}, cycle : 0 .. MaxRepairs]]
BY DEF Inv, PullRequestTypeOK, Follow

-----------------------------------------------------------------------------
\* The steps of GitHub and the people.
LEMMA OutsideInv ==
    ASSUME Inv, Push \/ Review \/ Relabel \/ Converse \/ \E h \in Commit : GitHubSteps(h)
    PROVE  Inv'
<1> USE DEF Inv, PullRequestTypeOK, Counted, CIOK, bots, merging
<1>1. CASE Push
  <2>1. head' \in Commit /\ tip' \in Commit /\ head' <= tip' /\ CIOK(ci') /\ verdict' = "none" /\ ended' = {}
    BY <1>1, PushedOK DEF Push
  <2> QED BY <1>1, <2>1 DEF Push
<1>2. CASE Relabel
  BY <1>2 DEF Relabel
<1>3. CASE Converse
  BY <1>3 DEF Converse
<1>4. ASSUME NEW h \in Commit, Finish(h) PROVE Inv'
  <2>1. CIOK(ci') /\ ended' \in SUBSET Ending
    BY <1>4, FinishOK
  <2> QED BY <1>4, <2>1 DEF Finish
<1>5. ASSUME NEW h \in Commit, ManualRerun(h) PROVE Inv'
  <2>1. CIOK(ci')
    BY <1>5, NewAttemptOK DEF ManualRerun
  <2> QED BY <1>5, <2>1 DEF ManualRerun
<1>6. CASE Review
  BY <1>6 DEF Review, Ending
<1> QED BY <1>1, <1>2, <1>3, <1>4, <1>5, <1>6 DEF GitHubSteps

-----------------------------------------------------------------------------
\* The steps of the retry: only Record raises what is recorded, by one and
\* below the budget; only Rerun raises what was asked, up to what is recorded.
LEMMA DecisionWithinBudget ==
    ASSUME Inv, NEW h \in Commit
    PROVE  Decision(h) \in {"idle", "block", "record"}
           /\ (Decision(h) = "record" => notes[h].attempts < MaxRetries)
<1>1. notes[h].attempts \in Nat /\ MaxRetries \in Nat
  BY Constants DEF Inv, PullRequestTypeOK, Note
<1> QED BY <1>1 DEF Decision

LEMMA RetryInv == ASSUME Inv, NEW h \in Commit, RetrySteps(h) PROVE Inv'
<1>0. /\ retry[h].attempt \in 0 .. MaxRuns /\ notes[h] \in Note
      /\ ci[h].attempt \in 0 .. MaxRuns /\ 0 \in 0 .. MaxRuns
  BY Constants DEF Inv, PullRequestTypeOK
<1>1. CASE Discover(h)
  <2>0. ci[h].attempt # 0
    BY <1>1 DEF Discover, Failed, Last, Inv, CIOK
  <2>1. RetryOK(retry') /\ retry'[h].pc = "classify" /\ retry'[h].attempt # 0 /\ \A g \in Commit \ {h} : retry'[g] = retry[g]
    BY <1>0, <1>1, <2>0, RetryStep DEF Discover, Pcs
  <2>2. \A g \in Commit : Counted(g)'
    BY <1>1, <2>1 DEF Inv, Counted, Discover
  <2> QED BY <1>1, <2>1, <2>2 DEF Inv, PullRequestTypeOK, RetryOK, Pcs, Discover, github, merging
<1>2. CASE Classify(h)
  <2>1. PICK pc \in {"idle", "block", "record"} :
            /\ Retry(h, pc, retry[h].attempt)
            /\ pc = "record" => notes[h].attempts < MaxRetries
    BY <1>2, DecisionWithinBudget DEF Classify
  <2>2. RetryOK(retry') /\ retry'[h].pc = pc /\ (pc # "idle" => retry'[h].attempt = retry[h].attempt)
        /\ \A g \in Commit \ {h} : retry'[g] = retry[g]
    BY <1>0, <2>1, RetryStep DEF Pcs
  <2>3. \A g \in Commit : Counted(g)'
    BY <1>2, <2>1, <2>2 DEF Inv, Counted, Classify
  <2> QED BY <1>2, <2>2, <2>3 DEF Inv, PullRequestTypeOK, RetryOK, Pcs, Classify, github, merging
<1>3. CASE Record(h)
  <2> DEFINE pc == IF retry[h].pc = "record" THEN "rerun" ELSE "idle"
  <2>1. RetryOK(retry') /\ retry'[h].pc = pc /\ (pc # "idle" => retry'[h].attempt = retry[h].attempt)
        /\ \A g \in Commit \ {h} : retry'[g] = retry[g]
    BY <1>0, <1>3, RetryStep DEF Record, Pcs
  <2>3. PICK note \in Note :
            /\ notes' = [notes EXCEPT ![h] = note]
            /\ note.attempts = IF retry[h].pc = "record" THEN notes[h].attempts + 1
                                                        ELSE notes[h].attempts
    <3>1. retry[h].attempt \in 1 .. MaxRuns
      BY <1>0, <1>3, Constants DEF Record, Inv, Counted
    <3>2. retry[h].pc = "record" => notes[h].attempts + 1 \in 0 .. MaxRetries
      BY <1>0, Constants DEF Inv, Counted, Note
    <3> DEFINE note == IF retry[h].pc = "record"
                       THEN Merged(notes[h], notes[h].attempts + 1, retry[h].attempt, FALSE)
                       ELSE Merged(notes[h], notes[h].attempts, retry[h].attempt, TRUE)
    <3>3. notes' = [notes EXCEPT ![h] = note]
      BY <1>3 DEF Record
    <3>4. note \in Note
      BY <1>0, <3>1, <3>2 DEF Merged, Note
    <3>5. note.attempts = IF retry[h].pc = "record" THEN notes[h].attempts + 1 ELSE notes[h].attempts
      BY <1>0, <3>2, Constants DEF Merged, Note
    <3> QED BY <3>3, <3>4, <3>5
  <2>4. asked' = asked /\ asked[h] \in Nat /\ notes[h].attempts \in Nat
    BY <1>0, <1>3 DEF Record, Inv, PullRequestTypeOK, Note
  <2>5. Counted(h)'
    <3>1. notes'[h].attempts = IF retry[h].pc = "record" THEN notes[h].attempts + 1
                                                       ELSE notes[h].attempts
      BY <2>3 DEF Inv, PullRequestTypeOK
    <3>2. asked[h] <= notes[h].attempts /\ retry[h].attempt # 0
      BY <1>3 DEF Inv, Counted, Record
    <3>3. CASE retry[h].pc = "record"
      BY <2>1, <2>4, <3>1, <3>2, <3>3 DEF Counted
    <3>4. CASE retry[h].pc # "record"
      BY <2>1, <2>4, <3>1, <3>2, <3>4 DEF Counted
    <3> QED BY <3>3, <3>4
  <2>6. \A g \in Commit \ {h} : Counted(g)'
    BY <2>1, <2>3, <2>4 DEF Inv, Counted, PullRequestTypeOK
  <2>7. notes' \in [Commit -> Note]
    BY <2>3 DEF Inv, PullRequestTypeOK
  <2> QED BY <1>3, <2>1, <2>5, <2>6, <2>7 DEF Inv, PullRequestTypeOK, RetryOK, Pcs, Record, github, merging
<1>4. CASE Rerun(h)
  <2>1. RetryOK(retry') /\ retry'[h].pc = "idle" /\ \A g \in Commit \ {h} : retry'[g] = retry[g]
    BY <1>0, <1>4, RetryStep DEF Rerun, Pcs
  <2>2. CASE Open /\ head = h /\ Last(h) \in Failed /\ Rerunnable(h)
    <3>1. CIOK(ci') /\ asked' = [asked EXCEPT ![h] = @ + 1]
      BY <1>4, <2>2, NewAttemptOK DEF Rerun
    <3>2. asked' \in [Commit -> Nat] /\ asked'[h] = asked[h] + 1 /\ asked[h] \in Nat
          /\ \A g \in Commit \ {h} : asked'[g] = asked[g]
      BY <3>1 DEF Inv, PullRequestTypeOK
    <3>3. Counted(h)'
      BY <1>0, <1>4, <2>1, <3>2 DEF Inv, Counted, Rerun, Note
    <3>4. \A g \in Commit \ {h} : Counted(g)'
      BY <1>4, <2>1, <3>2 DEF Inv, Counted, Rerun
    <3> QED BY <1>4, <2>1, <3>1, <3>2, <3>3, <3>4 DEF Inv, PullRequestTypeOK, RetryOK, Pcs, Rerun, CIOK, merging
  <2>3. CASE ~(Open /\ head = h /\ Last(h) \in Failed /\ Rerunnable(h))
    <3>1. UNCHANGED <<ci, asked>>
      BY <1>4, <2>3 DEF Rerun
    <3>2. \A g \in Commit : Counted(g)'
      BY <1>4, <2>1, <3>1 DEF Inv, Counted, Rerun
    <3> QED BY <1>4, <2>1, <3>1, <3>2 DEF Inv, PullRequestTypeOK, RetryOK, Pcs, Rerun, merging
  <2> QED BY <2>2, <2>3
<1> QED BY <1>1, <1>2, <1>3, <1>4 DEF RetrySteps

-----------------------------------------------------------------------------
\* The continuation counts its cycles within the budget; neither it nor the
\* merge touches what the retry records.
LEMMA FollowInv == ASSUME Inv, NEW h \in Commit, FollowSteps(h) PROVE Inv'
<1>0. follow[h].cycle \in 0 .. MaxRepairs /\ fixes \in Fixes /\ MaxRepairs \in Nat
  BY Constants DEF Inv, PullRequestTypeOK
<1> USE DEF Inv, Counted
<1>1. CASE StartRepair(h)
  <2>1. fixes.cycle + 1 \in 0 .. MaxRepairs
    BY <1>0, <1>1 DEF StartRepair, Continues, NextAction, Fixes
  <2>2. follow' \in [Commit -> [pc : {"idle", "repair", "mark"}, cycle : 0 .. MaxRepairs]]
    BY <1>1, <2>1, FollowStep DEF StartRepair
  <2> QED BY <1>1, <2>2 DEF PullRequestTypeOK, StartRepair, github, merging
<1>2. CASE Publish(h)
  <2>1. head' \in Commit /\ tip' \in Commit /\ head' <= tip' /\ CIOK(ci')
        /\ verdict' = "none" /\ ended' = {}
    BY <1>2, PushedOK DEF Publish
  <2>2. follow' \in [Commit -> [pc : {"idle", "repair", "mark"}, cycle : 0 .. MaxRepairs]]
    BY <1>0, <1>2, FollowStep DEF Publish
  <2> QED BY <1>2, <2>1, <2>2 DEF PullRequestTypeOK, Publish, merging, CIOK
<1>3. CASE Abandon(h)
  <2>1. follow' \in [Commit -> [pc : {"idle", "repair", "mark"}, cycle : 0 .. MaxRepairs]]
    BY <1>0, <1>3, FollowStep DEF Abandon
  <2> QED BY <1>3, <2>1 DEF PullRequestTypeOK, Abandon, github, merging
<1>4. CASE Mark(h)
  <2>1. follow' \in [Commit -> [pc : {"idle", "repair", "mark"}, cycle : 0 .. MaxRepairs]]
    BY <1>0, <1>4, FollowStep DEF Mark
  <2>2. fixes' \in Fixes
    BY <1>0, <1>4 DEF Mark, Fixes
  <2> QED BY <1>4, <2>1, <2>2 DEF PullRequestTypeOK, Mark, github, merging
<1>5. CASE StartMerge(h)
  <2>1. merge' \in Collected
    BY <1>5, Constants DEF StartMerge, Collected, Commit
  <2> QED BY <1>5, <2>1 DEF PullRequestTypeOK, StartMerge, others
<1> QED BY <1>1, <1>2, <1>3, <1>4, <1>5 DEF FollowSteps

LEMMA DiesInv == ASSUME Inv, NEW h \in Commit, JobDies(h) PROVE Inv'
<1>1. CASE Retry(h, "idle", 0) /\ UNCHANGED follow
  <2>1. RetryOK(retry') /\ retry'[h].pc = "idle" /\ \A g \in Commit \ {h} : retry'[g] = retry[g]
    BY <1>1, RetryStep, Constants DEF Pcs
  <2>2. \A g \in Commit : Counted(g)'
    BY <2>1 DEF Inv, Counted, JobDies
  <2> QED BY <1>1, <2>1, <2>2 DEF Inv, PullRequestTypeOK, RetryOK, Pcs, JobDies, github, merging
<1>2. CASE Follow(h, "idle", 0) /\ UNCHANGED retry
  <2>1. follow' \in [Commit -> [pc : {"idle", "repair", "mark"}, cycle : 0 .. MaxRepairs]]
    BY <1>2, FollowStep, Constants
  <2> QED BY <1>2, <2>1 DEF Inv, Counted, PullRequestTypeOK, JobDies, github, merging
<1> QED BY <1>1, <1>2 DEF JobDies

LEMMA MergeInv == ASSUME Inv, MergeSteps PROVE Inv'
<1> USE DEF Inv, PullRequestTypeOK, Counted, others
<1>1. merge' \in Collected /\ held' \in SUBSET Fact
  <2>1. merge \in Collected /\ head \in 0 .. MaxHead /\ Facts(merge.expected) \subseteq Fact
    BY Constants DEF Commit, Facts
  <2>2. NoMerge \in Collected
    BY Constants DEF NoMerge, Collected
  <2>3. ASSUME NEW pc \in {"pull", "threads", "put"}, NEW passes, Reads(pc, passes)
        PROVE  merge' \in Collected /\ held' \in SUBSET Fact
    BY <2>1, <2>3 DEF Reads, Collected
  <2>4. CASE Snapshot \/ ReadChecks \/ ReadThreads
    BY <2>3, <2>4 DEF Snapshot, ReadChecks, ReadThreads
  <2>5. CASE ReadPull
    BY <2>1, <2>5 DEF ReadPull, Collected
  <2>6. CASE Put \/ MergeFails
    BY <2>2, <2>6 DEF Put, MergeFails
  <2> QED BY <2>4, <2>5, <2>6 DEF MergeSteps
<1>2. merged' \in 0 .. MaxHead
  BY Constants DEF MergeSteps, Snapshot, ReadPull, ReadChecks, ReadThreads, Reads, Put, MergeFails,
                   Collected, Commit
<1>3. UNCHANGED others
  BY DEF MergeSteps, Snapshot, ReadPull, ReadChecks, ReadThreads, Reads, Put, MergeFails
<1> QED BY <1>1, <1>2, <1>3

LEMMA NextInv == ASSUME Inv, [Next]_vars PROVE Inv'
<1>1. CASE UNCHANGED vars
  BY <1>1 DEF vars, github, bots, merging, Inv, PullRequestTypeOK, Counted
<1>2. CASE Next
  BY <1>2, OutsideInv, MergeInv, RetryInv, FollowInv, DiesInv DEF Next
<1> QED BY <1>1, <1>2

-----------------------------------------------------------------------------
LEMMA Invariance == Spec => []Inv
<1>1. Init => Inv
  BY InitInv
<1>2. Inv /\ [Next]_vars => Inv'
  BY NextInv
<1> QED BY <1>1, <1>2, PTL DEF Spec

\* The state is well formed, and the attempts and cycles recorded in the pull
\* request's comments never pass FORGE_MAX_TRANSIENT_RETRIES and
\* FORGE_MAX_REPAIR_CYCLES (decide_retry, decide_review_continuation).
THEOREM TypeCorrect == Spec => []PullRequestTypeOK
<1>1. Inv => PullRequestTypeOK
  BY DEF Inv
<1> QED BY <1>1, Invariance, PTL

\* No head is re-run more often than its comments record, nor recorded more
\* often than the budget allows, whatever jobs die and whoever re-runs CI:
\* reusable-transient-retry.yml writes the evidence before the re-run.
THEOREM BudgetKept == Spec => []RetryBudget
<1>1. Inv => RetryBudget
  BY Constants DEF Inv, Counted, RetryBudget, PullRequestTypeOK, Note, Fixes
<1> QED BY <1>1, Invariance, PTL

-----------------------------------------------------------------------------
\* As long as the head the merge was asked for is the head, what it has read is
\* what was true of that head; a head that has moved on never comes back.
Judged ==
    /\ merge.pc # "idle" => merge.expected \in Commit /\ merge.expected <= tip
    /\ merge.pc # "idle" /\ head = merge.expected =>
          /\ merge.pc # "snapshot" => "cleared" \in held
          /\ merge.pc \in {"threads", "put"} => "green" \in held
          /\ merge.pc = "put" => "quiet" \in held
          /\ merge.pc \in {"checks", "threads", "put"} => merge.head = head

\* The steps of the others leave the head alone or put a new commit in its place.
LEMMA OthersStep ==
    ASSUME Inv, Next, ~MergeSteps, \A h \in Commit : ~StartMerge(h)
    PROVE  /\ UNCHANGED <<merge, held, merged>>
           /\ UNCHANGED <<head, tip>> \/ (head' = tip + 1 /\ tip' = tip + 1)
<1>1. CASE Push
  BY <1>1, PushedOK DEF Push, bots, merging
<1>2. CASE Review \/ Relabel \/ Converse
  BY <1>2 DEF Review, Relabel, Converse, bots, merging
<1>3. ASSUME NEW h \in Commit, GitHubSteps(h)
      PROVE  UNCHANGED <<merge, held, merged, head, tip>>
  BY <1>3 DEF GitHubSteps, Finish, ManualRerun, bots, merging
<1>4. ASSUME NEW h \in Commit, RetrySteps(h)
      PROVE  UNCHANGED <<merge, held, merged, head, tip>>
  BY <1>4 DEF RetrySteps, Discover, Classify, Record, Rerun, github, merging
<1>5. ASSUME NEW h \in Commit, StartRepair(h) \/ Abandon(h) \/ Mark(h) \/ JobDies(h)
      PROVE  UNCHANGED <<merge, held, merged, head, tip>>
  BY <1>5 DEF StartRepair, Abandon, Mark, JobDies, github, merging
<1>6. ASSUME NEW h \in Commit, Publish(h)
      PROVE  UNCHANGED <<merge, held, merged>> /\ head' = tip + 1 /\ tip' = tip + 1
  BY <1>6, PushedOK DEF Publish, merging
<1> QED BY <1>1, <1>2, <1>3, <1>4, <1>5, <1>6 DEF Next, FollowSteps

LEMMA JudgedStays == ASSUME Inv, Judged, [Next]_vars PROVE Judged'
<1>0. /\ merge \in Collected /\ head \in Nat /\ tip \in Nat /\ head <= tip
      /\ merge.expected \in Nat /\ Commit \subseteq Nat
  BY Constants DEF Inv, PullRequestTypeOK, Collected
<1>1. CASE UNCHANGED <<merge, held, head, tip>>
  BY <1>1 DEF Judged
<1>2. CASE UNCHANGED <<merge, held>> /\ head' = tip + 1 /\ tip' = tip + 1
  <2>1. merge.pc # "idle" => merge.expected <= tip' /\ head' # merge'.expected
    BY <1>0, <1>2 DEF Judged
  <2> QED BY <1>2, <2>1 DEF Judged
<1>3. ASSUME NEW h \in Commit, StartMerge(h) PROVE Judged'
  <2>1. merge' = [pc |-> "snapshot", expected |-> h, head |-> 0] /\ UNCHANGED <<head, tip>>
    BY <1>3 DEF StartMerge, others
  <2>2. h = head
    BY <1>3 DEF StartMerge, Continues, NextAction
  <2> QED BY <1>0, <2>1, <2>2 DEF Judged
<1>4. ASSUME NEW pc, merge' = [merge EXCEPT !.pc = pc]
      PROVE  merge'.pc = pc /\ merge'.expected = merge.expected /\ merge'.head = merge.head
  BY <1>0, <1>4 DEF Collected
<1>5. CASE Snapshot
  <2>1. /\ merge'.pc = "pull" /\ merge'.expected = merge.expected /\ cleared
        /\ held' = held \cup Facts(merge.expected) /\ UNCHANGED <<head, tip>> /\ merge.pc = "snapshot"
    BY <1>4, <1>5 DEF Snapshot, Reads, others
  <2>2. head = merge.expected => "cleared" \in held'
    BY <2>1 DEF Facts, Fact
  <2> QED BY <2>1, <2>2 DEF Judged
<1>6. CASE ReadPull
  <2>1. /\ merge'.pc = "checks" /\ merge'.expected = merge.expected /\ merge'.head = head
        /\ held \subseteq held' /\ UNCHANGED <<head, tip>> /\ merge.pc = "pull"
    BY <1>0, <1>6 DEF ReadPull, others, Collected
  <2> QED BY <2>1 DEF Judged
<1>7. CASE ReadChecks
  <2>1. /\ merge'.pc = "threads" /\ merge'.expected = merge.expected /\ merge'.head = merge.head
        /\ held' = held \cup Facts(merge.expected) /\ UNCHANGED <<head, tip>> /\ merge.pc = "checks"
        /\ Green(merge.head)
    BY <1>4, <1>7 DEF ReadChecks, Reads, others
  <2>2. head = merge.expected => "green" \in held' /\ "cleared" \in held'
    BY <2>1 DEF Facts, Fact, Judged
  <2> QED BY <2>1, <2>2 DEF Judged
<1>8. CASE ReadThreads
  <2>1. /\ merge'.pc = "put" /\ merge'.expected = merge.expected /\ merge'.head = merge.head
        /\ held' = held \cup Facts(merge.expected) /\ UNCHANGED <<head, tip>> /\ merge.pc = "threads"
        /\ ~threads
    BY <1>4, <1>8 DEF ReadThreads, Reads, others
  <2>2. head = merge.expected => Fact \subseteq held'
    BY <2>1 DEF Facts, Fact, Judged
  <2>3. \A f \in {"cleared", "green", "quiet"} : f \in Fact
    BY DEF Fact
  <2> QED BY <2>1, <2>2, <2>3 DEF Judged
<1>9. CASE Put \/ MergeFails
  <2>1. merge'.pc = "idle"
    BY <1>9 DEF Put, MergeFails, NoMerge
  <2> QED BY <2>1 DEF Judged
<1>10. CASE UNCHANGED vars
  BY <1>1, <1>10 DEF vars, github, bots, merging
<1> QED BY <1>1, <1>2, <1>3, <1>5, <1>6, <1>7, <1>8, <1>9, <1>10, OthersStep DEF MergeSteps

\* Only the merge request merges, and the head it pins is the one judged.
LEMMA MergesJudged ==
    ASSUME Inv, Judged, [Next]_vars, merged' # merged
    PROVE  merged' = head /\ merged' = merge.expected /\ held = Fact
<1>1. Put
  <2>1. ~UNCHANGED vars
    BY DEF vars, github
  <2>2. \A h \in Commit : ~StartMerge(h)
    BY DEF StartMerge
  <2>3. MergeSteps
    BY <2>1, <2>2, OthersStep
  <2> QED BY <2>3 DEF MergeSteps, Snapshot, ReadPull, ReadChecks, ReadThreads, Reads, MergeFails
<1>2. Fact \subseteq held
  BY <1>1 DEF Put, Judged, Fact
<1>3. held \subseteq Fact
  BY DEF Inv, PullRequestTypeOK
<1> QED BY <1>1, <1>2, <1>3 DEF Put

\* Whatever is pushed, re-run, reviewed, labelled or said while the evidence is
\* read in several calls, the commit that is merged is the head the merge was
\* asked for, and its labels, its green and approved check runs and its quiet
\* conversations were each true of it since the merge began (protected_merge.py,
\* github_evidence.py, merge_executor.py).
THEOREM MergedIsReviewed == Spec => MergesReviewed
<1>1. Init => Judged
  BY DEF Init, NoMerge, Judged
<1>2. Inv /\ Judged /\ [Next]_vars => Judged'
  BY JudgedStays
<1>3. Inv /\ Judged /\ [Next]_vars =>
         [merged' # merged => /\ merged' = head /\ merged' = merge.expected
                              /\ held = Fact]_vars
  BY MergesJudged
<1> QED BY <1>1, <1>2, <1>3, Invariance, PTL DEF Spec, MergesReviewed
=============================================================================
