------------------------------ MODULE Lifecycle ------------------------------
(***************************************************************************)
(* How work units are driven through the engine of Orchestrator.tla: by    *)
(* recording runs and verdicts (`sdlcctl orchestrate`), and the units in   *)
(* `Driven` by AutonomousLifecycleDriver.advance of lifecycle.py as well.  *)
(*                                                                         *)
(* The driver is told the result of the stage a unit is in.  Stages run    *)
(* outside the repository; `reported` is what has been heard of the        *)
(* current one, and a unit that moves on has been told nothing yet.        *)
(***************************************************************************)
EXTENDS Orchestrator

CONSTANT Driven  \* the units the autonomous driver advances

VARIABLE reported  \* the StageResult of each unit's current stage

lifecycle == <<vars, reported>>

Result == {"pending", "passed", "failed", "changes-requested"}

LifecycleInit == Init /\ reported = [u \in Unit |-> "pending"]

\* Results belong to the stage they were reported for.
Moved == reported' = [u \in Unit |-> IF state'[u] = state[u] THEN reported[u] ELSE "pending"]

-----------------------------------------------------------------------------
(* The recorded pipeline.                                                  *)

Move(u, target) == Transition(u, target, "system")

\* The unit is admitted and brought to dispatch by the policy engine.
Admit(u) ==
    \/ Create(u)
    \/ \E target \in {"triaged", "specified", "planned", "approved", "dispatched"} :
          Move(u, target)

\* Nobody has started reviewing the unit since its last repair.
Unreviewed(u) ==
    \A i \in DOMAIN runs[u] : runs[u][i].kind = "review" => runs[u][i].cycle # repairs[u]

\* A run is started; one review is enough for a cycle.
Begin(u) ==
    \E p \in Envelopes(u) :
       /\ p.kind = "review" => Unreviewed(u)
       /\ StartRun(u, p, TRUE)

\* A run ends.
End(u) == \E i \in DOMAIN runs[u] : FinishRun(u, i, "succeeded")

\* The unit follows its finished producing run, and its verdicts are recorded.
Follow(u) ==
    /\ \A i \in DOMAIN runs[u] : runs[u][i].result # "running"
    /\ \/ state[u] = "implementing" /\ Move(u, "verifying")
       \/ state[u] = "repairing" /\ Move(u, "re-reviewing")
       \/ \E passed \in BOOLEAN : RecordVerification(u, passed)
       \/ \E i \in DOMAIN runs[u], clean \in BOOLEAN : RecordReview(u, i, clean)

\* A person merges a unit that is ready.
Merge(u) == Transition(u, "merged", "human")

-----------------------------------------------------------------------------
(* The autonomous driver.                                                  *)

\* A stage of the unit's current state has a result.
Report(u, result) ==
    /\ reported[u] = "pending"
    /\ result = "changes-requested" => state[u] \in {"reviewing", "re-reviewing"}
    /\ state[u] \in {"specified", "implementing", "verifying", "reviewing",
                     "repairing", "re-reviewing"}
    /\ reported' = [reported EXCEPT ![u] = result]
    /\ UNCHANGED vars

\* States the driver leaves without a stage result.
AdvanceFreely(u) ==
    \/ state[u] = "triaged" /\ Move(u, "specified")
    \/ state[u] = "approved" /\ Move(u, "dispatched")
    \/ state[u] = "dispatched" /\ Move(u, "implementing")
    \/ state[u] = "repair-needed" /\ Move(u, "repairing")

\* Where the autonomy policy decides, on evidence from elsewhere; a denial stops
\* the unit, and an allowed merge waits for the protected merge executor.
AdvanceByPolicy(u, allowed) ==
    \/ state[u] = "planned" /\ Move(u, IF allowed THEN "approved" ELSE "blocked")
    \/ state[u] = "ready-for-human-merge" /\ ~allowed /\ Move(u, "blocked")

\* Mutation: a failed planning stage is waited for.
AdvanceOnSuccessOnly(u) ==
    \/ state[u] = "specified" /\ reported[u] = "passed" /\ Move(u, "planned")
    \/ state[u] = "implementing" /\ reported[u] = "passed" /\ Move(u, "verifying")

\* A stage that passed takes the unit on, one that failed ends it.
AdvanceOnResult(u) ==
    \/ state[u] = "specified" /\ reported[u] = "passed" /\ Move(u, "planned")
    \/ state[u] = "specified" /\ reported[u] = "failed" /\ Move(u, "blocked")
    \/ state[u] = "implementing" /\ reported[u] = "passed" /\ Move(u, "verifying")
    \/ state[u] = "repairing" /\ reported[u] = "passed" /\ Move(u, "re-reviewing")
    \/ /\ state[u] \in {"implementing", "repairing", "reviewing", "re-reviewing"}
       /\ reported[u] = "failed"
       /\ Move(u, "failed")

\* Verdicts: the driver escalates a failed verification, never a bad review.
AdvanceOnVerdict(u) ==
    \/ state[u] = "verifying" /\ reported[u] = "passed" /\ Move(u, "reviewing")
    \/ state[u] = "verifying" /\ reported[u] = "failed" /\ Move(u, Repairable(u))
    \/ /\ state[u] \in {"reviewing", "re-reviewing"}
       /\ \/ reported[u] = "passed" /\ Move(u, "ready-for-human-merge")
          \/ reported[u] = "changes-requested" /\ Move(u, "repair-needed")

\* `advance`: at most one transition.
Advance(u) ==
    /\ u \in Driven
    /\ \/ AdvanceFreely(u)
       \/ \E allowed \in BOOLEAN : AdvanceByPolicy(u, allowed)
       \/ AdvanceOnResult(u)
       \/ AdvanceOnVerdict(u)

Hear(u) == u \in Driven /\ \E result \in Result \ {"pending"} : Report(u, result)

-----------------------------------------------------------------------------
Recorded(u) == (Admit(u) \/ Begin(u) \/ End(u) \/ Follow(u) \/ Merge(u)) /\ Moved

LifecycleNext ==
    \E u \in Unit : Recorded(u) \/ (Advance(u) /\ Moved) \/ Hear(u)

LifecycleSpec == LifecycleInit /\ [][LifecycleNext]_lifecycle

\* Runs end, and the steps that follow them are taken; people need not merge.
Fairness ==
    \A u \in Unit :
       /\ WF_lifecycle(Begin(u) /\ Moved)
       /\ WF_lifecycle(End(u) /\ Moved)
       /\ WF_lifecycle(Follow(u) /\ Moved)
       /\ WF_lifecycle(Advance(u) /\ Moved)
       /\ WF_lifecycle(Hear(u))

FairLifecycle == LifecycleSpec /\ Fairness

-----------------------------------------------------------------------------
(* What driving a unit comes to.                                           *)

Settled(u) == state[u] \in Terminal \cup {"blocked", "ready-for-human-merge"}

\* Bounded repair: a dispatched unit whose runs are recorded comes to rest,
\* whatever its verdicts are and however the runs of its concurrency group get
\* in its way.
Settles == \A u \in Unit \ Driven : state[u] = "dispatched" ~> Settled(u)

\* The driver brings work whose dependencies are merged to its first verdict,
\* or stops it, however the stages end and whoever else moves the unit.
Judged(u) == Settled(u) \/ state[u] \in {"reviewing", "repair-needed"}

ReachesVerdict ==
    \A u \in Driven : state[u] = "triaged" /\ DependenciesMerged(u) ~> Judged(u)
=============================================================================
