------------------------- MODULE OrchestrateWorkflow -------------------------
(***************************************************************************)
(* The CI job that drives the engine: reusable-orchestrate.yml.            *)
(*                                                                         *)
(* An event about a work unit starts a job that downloads the newest state *)
(* document, has `sdlcctl orchestrate` apply one action to it, uploads the *)
(* result as the new document and upserts the unit's status comment.  The  *)
(* document holds all units; the concurrency group is that of one unit.    *)
(*                                                                         *)
(* A document is known by the event keys recorded in it, unit by unit.     *)
(***************************************************************************)
CONSTANTS
    UnitId, Event,
    Job,          \* job runs that can be under way at once
    Unlucky,      \* the events whose upload of the document may fail
    NoEvent       \* no event waits

VARIABLES
    document,  \* the newest uploaded state document
    waiting,   \* the event whose job waits for each unit's group
    job,       \* the job runs
    comment    \* the events the status comment of each unit was written from

workflowVars == <<document, waiting, job, comment>>

Blank == [u \in UnitId |-> {}]

\* What a job run is when there is none; its fields other than the phase do not count.
Unused == [phase |-> "free", unit |-> CHOOSE u \in UnitId : TRUE,
           event |-> CHOOSE e \in Event : TRUE, copy |-> Blank]

WorkflowInit ==
    /\ document = Blank /\ comment = Blank
    /\ waiting = [u \in UnitId |-> NoEvent]
    /\ job = [j \in Job |-> Unused]

At(j, phase) == job[j].phase = phase

Goes(j, phase) == job' = [job EXCEPT ![j].phase = phase]

Frees(j) == job' = [job EXCEPT ![j] = Unused]

-----------------------------------------------------------------------------
\* The workflow is called; a group keeps one waiting run, so a newer one takes
\* the place of the one that waits.
Call(u, e) ==
    /\ waiting' = [waiting EXCEPT ![u] = e]
    /\ UNCHANGED <<document, job, comment>>

\* Mutation: no concurrency group.
StartAtOnce(j, u) ==
    /\ At(j, "free") /\ waiting[u] # NoEvent
    /\ job' = [job EXCEPT ![j] = [Unused EXCEPT !.phase = "started", !.unit = u,
                                                !.event = waiting[u]]]
    /\ waiting' = [waiting EXCEPT ![u] = NoEvent]
    /\ UNCHANGED <<document, comment>>

\* A job starts when no other of its unit runs; a running job is not cancelled.
Start(j, u) ==
    /\ At(j, "free") /\ waiting[u] # NoEvent
    /\ \A k \in Job : ~At(k, "free") => job[k].unit # u
    /\ job' = [job EXCEPT ![j] = [Unused EXCEPT !.phase = "started", !.unit = u,
                                                !.event = waiting[u]]]
    /\ waiting' = [waiting EXCEPT ![u] = NoEvent]
    /\ UNCHANGED <<document, comment>>

\* "Restore durable orchestration state".
Restore(j) ==
    /\ At(j, "started")
    /\ job' = [job EXCEPT ![j].phase = "restored", ![j].copy = document]
    /\ UNCHANGED <<document, waiting, comment>>

\* "Apply orchestration action": a key the unit has is a replay that changes
\* nothing and succeeds.
Apply(j) ==
    /\ At(j, "restored")
    /\ job' = [job EXCEPT ![j].phase = "applied",
                          ![j].copy[job[j].unit] = @ \cup {job[j].event}]
    /\ UNCHANGED <<document, waiting, comment>>

\* Mutation: the comment is written before the document is uploaded.
PublishLast(j) ==
    /\ At(j, "applied")
    /\ comment' = [comment EXCEPT ![job[j].unit] = job[j].copy[job[j].unit]]
    /\ Goes(j, "published")
    /\ UNCHANGED <<document, waiting>>

\* "Publish durable orchestration state": the whole document.
Publish(j) ==
    /\ At(j, "applied")
    /\ document' = job[j].copy
    /\ Goes(j, "published")
    /\ UNCHANGED <<waiting, comment>>

\* The upload fails; the comment step runs all the same (`if: always()`).
PublishFails(j) ==
    /\ job[j].event \in Unlucky
    /\ At(j, "applied")
    /\ Goes(j, "unpublished")
    /\ UNCHANGED <<document, waiting, comment>>

\* "Upsert the single status comment".
Comment(j) ==
    /\ At(j, "published") \/ At(j, "unpublished")
    /\ comment' = [comment EXCEPT ![job[j].unit] = job[j].copy[job[j].unit]]
    /\ Frees(j)
    /\ UNCHANGED <<document, waiting>>

\* The engine refuses the action, or the job dies.
Stop(j) ==
    /\ ~At(j, "free")
    /\ Frees(j)
    /\ UNCHANGED <<document, waiting, comment>>

JobStep(j) ==
    \/ \E u \in UnitId : Start(j, u)
    \/ Restore(j)
    \/ Apply(j)
    \/ Publish(j)
    \/ PublishFails(j)
    \/ Comment(j)
    \/ Stop(j)

WorkflowNext ==
    \/ \E u \in UnitId, e \in Event : Call(u, e)
    \/ \E j \in Job : JobStep(j)

WorkflowSpec == WorkflowInit /\ [][WorkflowNext]_workflowVars

-----------------------------------------------------------------------------
\* "State is durable": no upload forgets a transition an earlier one published.
NeverForgets == [][\A u \in UnitId : document[u] \subseteq document'[u]]_workflowVars

\* "Every transition is reproducible from the uploaded state document": a status
\* comment shows nothing the document lacks.  It does not hold: the comment step
\* runs `always()`, after a failed upload too (reusable-orchestrate.yml:148).
Reproducible == \A u \in UnitId : comment[u] \subseteq document[u]

\* What does hold: a status comment is ahead of the document by one event at most,
\* whose upload failed, and by none when no upload fails.  A failed transition is
\* never carried on into a later comment, whatever job runs die in between.
AheadByFailed ==
    \A u \in UnitId :
       \/ comment[u] \subseteq document[u]
       \/ \E e \in Unlucky : comment[u] \subseteq document[u] \cup {e}
=============================================================================
