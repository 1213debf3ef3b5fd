---------------------- MODULE OrchestrateWorkflowProofs ----------------------
(***************************************************************************)
(* What is proved of the CI job that drives the engine, for any number of  *)
(* events and job runs.  The document holds every unit while the group is  *)
(* that of one, so it is said of a repository with one unit: with two, a   *)
(* job forgets what another published (MCOrchestrateWorkflowLost).         *)
(***************************************************************************)
EXTENDS OrchestrateWorkflow, TLAPS

Phases == {"free", "started", "restored", "applied", "published", "unpublished"}

Documents == [UnitId -> SUBSET Event]

Runs == [phase : Phases, unit : UnitId, event : Event \cup {Unused.event}, copy : Documents]

WorkflowTypes ==
    /\ document \in Documents /\ comment \in Documents
    /\ waiting \in [UnitId -> Event \cup {NoEvent}]
    /\ job \in [Job -> Runs]

\* The group admits one job run of a unit at a time.
Alone == \A j, k \in Job : ~At(j, "free") /\ ~At(k, "free") /\ job[j].unit = job[k].unit => j = k

\* The document a job run read, with its event applied.
Grown(j) == [document EXCEPT ![job[j].unit] = @ \cup {job[j].event}]

\* What a job run holds, phase by phase, against the newest document.
Holds(j) ==
    /\ ~At(j, "free") => job[j].event \in Event
    /\ At(j, "restored") \/ At(j, "published") => job[j].copy = document
    /\ At(j, "applied") \/ At(j, "unpublished") => job[j].copy = Grown(j)
    /\ At(j, "unpublished") => job[j].event \in Unlucky

WorkflowInv ==
    /\ WorkflowTypes
    /\ Alone
    /\ \A j \in Job : Holds(j)
    /\ AheadByFailed

-----------------------------------------------------------------------------
LEMMA UnusedRun == ASSUME UnitId # {} PROVE Unused \in Runs
BY DEF Unused, Runs, Phases, Documents, Blank

LEMMA WorkflowStarts == ASSUME UnitId # {} PROVE WorkflowInit => WorkflowInv
<1> SUFFICES ASSUME WorkflowInit PROVE WorkflowInv
  OBVIOUS
<1>1. \A j \in Job : job[j] = Unused
  BY DEF WorkflowInit
<1>2. \A j \in Job : At(j, "free")
  <2>1. Unused.phase = "free"
    BY DEF Unused
  <2> QED
    BY <1>1, <2>1 DEF At
<1>3. \A j \in Job : ~At(j, "restored") /\ ~At(j, "published") /\ ~At(j, "applied") /\ ~At(j, "unpublished")
  BY <1>2 DEF At
<1>4. WorkflowTypes
  <2>1. Blank \in Documents
    BY DEF Blank, Documents
  <2> QED
    BY <2>1, UnusedRun DEF WorkflowInit, WorkflowTypes
<1> QED
  BY <1>2, <1>3, <1>4 DEF WorkflowInv, Alone, Holds, WorkflowInit, AheadByFailed, Blank

\* A step of the job run j that leaves the document alone disturbs no other.
LEMMA OthersHold ==
    ASSUME WorkflowInv, NEW j \in Job, document' = document,
           \A k \in Job \ {j} : job'[k] = job[k],
           NEW k \in Job \ {j}
    PROVE  Holds(k)'
BY DEF WorkflowInv, Holds, At, Grown

\* With one unit, no two job runs are under way.
LEMMA OneAtATime ==
    ASSUME NEW one, UnitId = {one}, WorkflowInv, NEW j \in Job, NEW k \in Job,
           ~At(j, "free"), ~At(k, "free")
    PROVE  j = k
<1>1. job[j].unit = one /\ job[k].unit = one
  BY DEF WorkflowInv, WorkflowTypes, Runs
<1> QED
  BY <1>1 DEF WorkflowInv, Alone

\* Each step keeps the invariant, and the document loses nothing by it.
LEMMA WorkflowKeeps ==
    ASSUME NEW one, UnitId = {one}, WorkflowInv, [WorkflowNext]_workflowVars
    PROVE  WorkflowInv' /\ \A u \in UnitId : document[u] \subseteq document'[u]
<1> USE DEF At, Goes, Frees
<1>0. /\ WorkflowTypes /\ Alone /\ AheadByFailed /\ \A j \in Job : Holds(j) /\ job[j] \in Runs
      /\ Unused \in Runs /\ Unused.phase = "free"
  BY UnusedRun DEF WorkflowInv, WorkflowTypes, Unused
<1>1. ASSUME NEW v \in UnitId, NEW e \in Event, Call(v, e)
      PROVE  WorkflowInv' /\ \A w \in UnitId : document[w] \subseteq document'[w]
  <2>1. UNCHANGED <<document, job, comment>> /\ waiting' \in [UnitId -> Event \cup {NoEvent}]
    BY <1>0, <1>1 DEF Call, WorkflowTypes
  <2> QED
    BY <1>0, <2>1 DEF WorkflowInv, WorkflowTypes, Alone, Holds, Grown, AheadByFailed
<1>2. ASSUME NEW j \in Job, NEW v \in UnitId, Start(j, v)
      PROVE  WorkflowInv' /\ \A w \in UnitId : document[w] \subseteq document'[w]
  <2> DEFINE run == [Unused EXCEPT !.phase = "started", !.unit = v, !.event = waiting[v]]
  <2>1. /\ job' = [job EXCEPT ![j] = run] /\ waiting' = [waiting EXCEPT ![v] = NoEvent]
        /\ UNCHANGED <<document, comment>> /\ waiting[v] \in Event
        /\ \A k \in Job : job[k].phase # "free" => job[k].unit # v
    BY <1>0, <1>2 DEF Start, WorkflowTypes
  <2>2. run \in Runs /\ run.phase = "started" /\ run.event = waiting[v] /\ run.unit = v
    BY <1>0, <2>1 DEF Runs, Phases
  <2> HIDE DEF run
  <2>3. job'[j] = run /\ (\A k \in Job \ {j} : job'[k] = job[k]) /\ job' \in [Job -> Runs]
    BY <1>0, <2>1, <2>2 DEF WorkflowTypes
  <2>4. WorkflowTypes'
    BY <1>0, <2>1, <2>3 DEF WorkflowTypes
  <2>5. Alone'
    BY <1>0, <2>1, <2>2, <2>3 DEF Alone
  <2>6. Holds(j)'
    BY <2>1, <2>2, <2>3 DEF Holds
  <2>7. \A k \in Job : Holds(k)'
    BY <2>1, <2>3, <2>6, OthersHold
  <2> QED
    BY <1>0, <2>1, <2>4, <2>5, <2>7 DEF WorkflowInv, AheadByFailed
<1>3. ASSUME NEW j \in Job, NEW run \in Runs, job' = [job EXCEPT ![j] = run], UNCHANGED waiting,
             run.phase # "free" => run.phase # job[j].phase /\ job[j].phase # "free"
                                      /\ run.unit = job[j].unit /\ run.event = job[j].event
      PROVE  /\ job'[j] = run /\ (\A k \in Job \ {j} : job'[k] = job[k])
             /\ job' \in [Job -> Runs] /\ waiting' \in [UnitId -> Event \cup {NoEvent}] /\ Alone'
             /\ run.phase # "free" => run.event \in Event
  <2>1. job'[j] = run /\ (\A k \in Job \ {j} : job'[k] = job[k]) /\ job' \in [Job -> Runs]
    BY <1>0, <1>3 DEF WorkflowTypes
  <2>2. Alone'
    BY <1>0, <1>3, <2>1 DEF Alone
  <2> QED
    BY <1>0, <1>3, <2>1, <2>2 DEF WorkflowTypes, Holds
<1>4. ASSUME NEW j \in Job, Restore(j)
      PROVE  WorkflowInv' /\ \A w \in UnitId : document[w] \subseteq document'[w]
  <2> DEFINE run == [job[j] EXCEPT !.phase = "restored", !.copy = document]
  <2>1. job' = [job EXCEPT ![j] = run] /\ UNCHANGED <<document, waiting, comment>> /\ job[j].phase = "started"
    BY <1>4 DEF Restore
  <2>2. /\ run \in Runs /\ run.phase = "restored" /\ run.copy = document
        /\ run.unit = job[j].unit /\ run.event = job[j].event
    BY <1>0 DEF Runs, Phases, WorkflowTypes
  <2> HIDE DEF run
  <2>3. /\ job'[j] = run /\ (\A k \in Job \ {j} : job'[k] = job[k])
        /\ job' \in [Job -> Runs] /\ waiting' \in [UnitId -> Event \cup {NoEvent}] /\ Alone' /\ run.event \in Event
    BY <1>3, <2>1, <2>2
  <2>4. Holds(j)'
    BY <2>1, <2>2, <2>3 DEF Holds
  <2>5. \A k \in Job : Holds(k)'
    BY <2>1, <2>3, <2>4, OthersHold
  <2> QED
    BY <1>0, <2>1, <2>3, <2>5 DEF WorkflowInv, WorkflowTypes, AheadByFailed
<1>5. ASSUME NEW j \in Job, Apply(j)
      PROVE  WorkflowInv' /\ \A w \in UnitId : document[w] \subseteq document'[w]
  <2> DEFINE grown == [job[j].copy EXCEPT ![job[j].unit] = @ \cup {job[j].event}]
             run == [job[j] EXCEPT !.phase = "applied", !.copy = grown]
  <2>1. /\ job' = [job EXCEPT ![j] = run] /\ UNCHANGED <<document, waiting, comment>>
        /\ job[j].phase = "restored"
    <3>1. job' = [job EXCEPT ![j].phase = "applied", ![j].copy[job[j].unit] = @ \cup {job[j].event}]
      BY <1>5 DEF Apply
    <3>2. job' = [job EXCEPT ![j] = run]
      BY <1>0, <3>1 DEF WorkflowTypes, Runs
    <3> QED
      BY <1>5, <3>2 DEF Apply
  <2>2. job[j].copy = document /\ job[j].event \in Event /\ job[j].unit \in UnitId
    BY <1>0, <2>1 DEF Holds, Runs
  <2>3. grown \in Documents /\ grown = Grown(j)
    BY <1>0, <2>2 DEF Documents, WorkflowTypes, Grown
  <2> HIDE DEF grown
  <2>4. /\ run \in Runs /\ run.phase = "applied" /\ run.copy = grown
        /\ run.unit = job[j].unit /\ run.event = job[j].event
    BY <1>0, <2>3 DEF Runs, Phases
  <2> HIDE DEF run
  <2>5. /\ job'[j] = run /\ (\A k \in Job \ {j} : job'[k] = job[k])
        /\ job' \in [Job -> Runs] /\ waiting' \in [UnitId -> Event \cup {NoEvent}] /\ Alone' /\ run.event \in Event
    BY <1>3, <2>1, <2>4
  <2>6. Grown(j)' = Grown(j)
    BY <2>1, <2>4, <2>5 DEF Grown
  <2>7. Holds(j)'
    BY <2>3, <2>4, <2>5, <2>6 DEF Holds
  <2>8. \A k \in Job : Holds(k)'
    BY <2>1, <2>5, <2>7, OthersHold
  <2> QED
    BY <1>0, <2>1, <2>5, <2>8 DEF WorkflowInv, WorkflowTypes, AheadByFailed
<1>6. ASSUME NEW j \in Job, Publish(j)
      PROVE  WorkflowInv' /\ \A w \in UnitId : document[w] \subseteq document'[w]
  <2> DEFINE run == [job[j] EXCEPT !.phase = "published"]
  <2>1. /\ job' = [job EXCEPT ![j] = run] /\ UNCHANGED <<waiting, comment>>
        /\ document' = job[j].copy /\ job[j].phase = "applied"
    BY <1>6 DEF Publish
  <2>2. /\ run \in Runs /\ run.phase = "published" /\ run.copy = job[j].copy
        /\ run.unit = job[j].unit /\ run.event = job[j].event
    BY <1>0 DEF Runs, Phases
  <2> HIDE DEF run
  <2>3. /\ job'[j] = run /\ (\A k \in Job \ {j} : job'[k] = job[k])
        /\ job' \in [Job -> Runs] /\ waiting' \in [UnitId -> Event \cup {NoEvent}] /\ Alone' /\ run.event \in Event
    BY <1>3, <2>1, <2>2
  <2>4. job[j].copy = Grown(j) /\ job[j].copy \in Documents
    BY <1>0, <2>1 DEF Holds, Runs
  <2>5. \A w \in UnitId : document[w] \subseteq document'[w]
    BY <1>0, <2>1, <2>4 DEF Grown, WorkflowTypes, Documents
  <2>6. Holds(j)'
    BY <2>1, <2>2, <2>3 DEF Holds
  <2>7. ASSUME NEW k \in Job \ {j} PROVE Holds(k)'
    <3>1. job[k].phase = "free"
      BY <2>1, OneAtATime
    <3> QED
      BY <2>3, <3>1 DEF Holds
  <2>8. AheadByFailed'
    BY <1>0, <2>1, <2>5 DEF AheadByFailed
  <2> QED
    BY <1>0, <2>1, <2>3, <2>4, <2>5, <2>6, <2>7, <2>8 DEF WorkflowInv, WorkflowTypes
<1>7. ASSUME NEW j \in Job, PublishFails(j)
      PROVE  WorkflowInv' /\ \A w \in UnitId : document[w] \subseteq document'[w]
  <2> DEFINE run == [job[j] EXCEPT !.phase = "unpublished"]
  <2>1. /\ job' = [job EXCEPT ![j] = run] /\ UNCHANGED <<document, waiting, comment>>
        /\ job[j].phase = "applied" /\ job[j].event \in Unlucky
    BY <1>7 DEF PublishFails
  <2>2. /\ run \in Runs /\ run.phase = "unpublished" /\ run.copy = job[j].copy
        /\ run.unit = job[j].unit /\ run.event = job[j].event
    BY <1>0 DEF Runs, Phases
  <2> HIDE DEF run
  <2>3. /\ job'[j] = run /\ (\A k \in Job \ {j} : job'[k] = job[k])
        /\ job' \in [Job -> Runs] /\ waiting' \in [UnitId -> Event \cup {NoEvent}] /\ Alone' /\ run.event \in Event
    BY <1>3, <2>1, <2>2
  <2>4. job[j].copy = Grown(j)
    BY <1>0, <2>1 DEF Holds
  <2>5. Grown(j)' = Grown(j)
    BY <2>1, <2>2, <2>3 DEF Grown
  <2>6. Holds(j)'
    BY <2>1, <2>2, <2>3, <2>4, <2>5 DEF Holds
  <2>7. \A k \in Job : Holds(k)'
    BY <2>1, <2>3, <2>6, OthersHold
  <2> QED
    BY <1>0, <2>1, <2>3, <2>7 DEF WorkflowInv, WorkflowTypes, AheadByFailed
<1>8. ASSUME NEW j \in Job, Comment(j) \/ Stop(j)
      PROVE  WorkflowInv' /\ \A w \in UnitId : document[w] \subseteq document'[w]
  <2>1. job' = [job EXCEPT ![j] = Unused] /\ UNCHANGED <<document, waiting>>
    BY <1>8 DEF Comment, Stop
  <2>2. /\ job'[j] = Unused /\ (\A k \in Job \ {j} : job'[k] = job[k])
        /\ job' \in [Job -> Runs] /\ waiting' \in [UnitId -> Event \cup {NoEvent}] /\ Alone'
    BY <1>0, <1>3, <2>1
  <2>3. Holds(j)'
    BY <1>0, <2>2 DEF Holds
  <2>4. \A k \in Job : Holds(k)'
    BY <2>1, <2>2, <2>3, OthersHold
  <2>5. comment' \in Documents /\ AheadByFailed'
    <3>1. CASE Stop(j)
      BY <1>0, <3>1 DEF Stop, AheadByFailed, WorkflowTypes
    <3>2. CASE Comment(j)
      <4>1. /\ job[j].unit = one /\ job[j].copy \in Documents
            /\ comment' = [comment EXCEPT ![one] = job[j].copy[one]]
            /\ job[j].phase = "published" \/ job[j].phase = "unpublished"
        BY <1>0, <3>2 DEF Comment, Runs
      <4>2. \/ job[j].copy[one] \subseteq document[one]
            \/ \E e \in Unlucky : job[j].copy[one] \subseteq document[one] \cup {e}
        <5>1. CASE job[j].phase = "published"
          BY <1>0, <5>1 DEF Holds
        <5>2. CASE job[j].phase = "unpublished"
          <6>1. job[j].copy = Grown(j) /\ job[j].event \in Unlucky
            BY <1>0, <5>2 DEF Holds
          <6>2. Grown(j)[one] = document[one] \cup {job[j].event}
            BY <1>0, <4>1 DEF Grown, WorkflowTypes, Documents
          <6> QED
            BY <6>1, <6>2
        <5> QED
          BY <4>1, <5>1, <5>2
      <4>3. comment' \in Documents /\ comment'[one] = job[j].copy[one]
        BY <1>0, <4>1 DEF WorkflowTypes, Documents
      <4> QED
        BY <2>1, <4>2, <4>3 DEF AheadByFailed
    <3> QED
      BY <1>8, <3>1, <3>2
  <2> QED
    BY <1>0, <2>1, <2>2, <2>4, <2>5 DEF WorkflowInv, WorkflowTypes
<1>9. CASE UNCHANGED workflowVars
  BY <1>0, <1>9 DEF workflowVars, WorkflowInv, WorkflowTypes, Alone, Holds, Grown, AheadByFailed
<1> QED
  BY <1>1, <1>2, <1>4, <1>5, <1>6, <1>7, <1>8, <1>9 DEF WorkflowNext, JobStep

\* In a repository with one unit a status comment is ahead of the newest state
\* document by one event at most, whose upload failed, however job runs start,
\* replace one another in the queue and die (reusable-orchestrate.yml).
THEOREM CommentsKeepPace == ASSUME NEW one, UnitId = {one} PROVE WorkflowSpec => []AheadByFailed
<1>1. WorkflowInit => WorkflowInv
  BY WorkflowStarts
<1>2. WorkflowInv /\ [WorkflowNext]_workflowVars => WorkflowInv'
  BY WorkflowKeeps
<1>3. WorkflowInv => AheadByFailed
  BY DEF WorkflowInv
<1> QED
  BY <1>1, <1>2, <1>3, PTL DEF WorkflowSpec

\* And no upload of the state document forgets a transition an earlier one published.
THEOREM UploadsKeep == ASSUME NEW one, UnitId = {one} PROVE WorkflowSpec => NeverForgets
<1>1. WorkflowInit => WorkflowInv
  BY WorkflowStarts
<1>2. WorkflowInv /\ [WorkflowNext]_workflowVars => WorkflowInv'
  BY WorkflowKeeps
<1> DEFINE Grows == \A u \in UnitId : document[u] \subseteq document'[u]
<1>3. WorkflowInv /\ [WorkflowNext]_workflowVars => Grows
  BY WorkflowKeeps
<1>4. WorkflowSpec => [][Grows]_workflowVars
  <2> HIDE DEF Grows
  <2> QED
    BY <1>1, <1>2, <1>3, PTL DEF WorkflowSpec
<1> QED
  BY <1>4 DEF NeverForgets
=============================================================================
