---------------------------- MODULE Orchestrator ----------------------------
(***************************************************************************)
(* The orchestration engine: `Orchestrator` of orchestration.py, driven by *)
(* `sdlcctl orchestrate` and `sdlcctl dispatch-packet` of cli.py.          *)
(*                                                                         *)
(* One call loads the state document, applies one operation and writes the *)
(* document back, so an operation is one step.  What happens between calls *)
(* is what the steps below interleave: envelopes dispatched against a      *)
(* snapshot of a unit and started later, runs that stay unfinished,        *)
(* verdicts that arrive late, and people, agents and the policy engine     *)
(* moving units.                                                           *)
(*                                                                         *)
(* A command given an --attestation-key refuses a document written without *)
(* it, so the units of one document are attested all or none.              *)
(*                                                                         *)
(* Every operation carries an event key nobody used before; a replayed key *)
(* returns before anything is changed, which is a stuttering step.         *)
(***************************************************************************)
EXTENDS WorkUnit

CONSTANTS
    Unit,        \* identifiers of work units
    Group,       \* the concurrency group each unit is created with
    DependsOn,   \* the units each unit is created to depend on
    Attested,    \* the units of a document that is kept under --attestation-key
    Overrides    \* the units people use manual_override on (a library call)

ASSUME UnitAssumption == DependsOn \in [Unit -> SUBSET Unit]
ASSUME PipelineAssumption == Attested \subseteq Unit /\ Overrides \subseteq Unit

VARIABLES
    state,    \* each unit's lifecycle state
    repairs,  \* repair_count
    runs,     \* the runs recorded on each unit, in order
    packets   \* the envelope last dispatched for each unit, until it is used

vars == <<state, repairs, runs, packets>>

Known(u) == state[u] # "absent"

\* An envelope names its run kind, its agent and the candidate head it was
\* made for.  It is fresh while the unit is as the dispatch saw it: every
\* change of a unit changes `unitStateSha256`.
Packet == [kind : Kind, agent : Agent, code : 0 .. MaxRuns, fresh : BOOLEAN]

TypeOK ==
    /\ state \in [Unit -> State]
    /\ repairs \in [Unit -> 0 .. MaxRepairs]
    /\ runs \in [Unit -> Seq(Run)]
    /\ \A u \in Unit : Len(runs[u]) <= MaxRuns
    /\ packets \in [Unit -> SUBSET Packet]

Init ==
    /\ state = [u \in Unit |-> "absent"]
    /\ repairs = [u \in Unit |-> 0]
    /\ runs = [u \in Unit |-> <<>>]
    /\ packets = [u \in Unit |-> {}]

-----------------------------------------------------------------------------
(* Units and transitions.                                                  *)

Stale(p) == [kind |-> p.kind, agent |-> p.agent, code |-> p.code, fresh |-> FALSE]

\* The unit is no longer what its envelope was dispatched against.
Advanced(u) == packets' = [packets EXCEPT ![u] = {Stale(p) : p \in @}]

\* `_record_transition`.
Enter(u, target) == state' = [state EXCEPT ![u] = target]

\* `create_unit`; creating a unit that exists changes nothing.
Create(u) ==
    /\ ~Known(u)
    /\ Enter(u, "intake")
    /\ UNCHANGED <<repairs, runs, packets>>

\* A dependency the engine does not know is an error, so not merged either.
DependenciesMerged(u) == \A d \in DependsOn[u] : state[d] = "merged"

\* Who may take a unit into `target`.
Authorized(u, target, actor) ==
    /\ target = "merged" => actor = "human"
    /\ target = "approved" => actor # "agent"
    /\ target = "approved" /\ state[u] = "approval-pending" => actor = "human"
    /\ state[u] = "blocked" /\ target \notin Abort => actor = "human"

\* Mutation: dispatch checks only that the dependencies have left the pipeline.
AllowedDependency(u, target, actor) ==
    /\ state[u] \notin Terminal
    /\ <<state[u], target>> \in Edges
    /\ Authorized(u, target, actor)
    /\ target = "dispatched" =>
          \A d \in DependsOn[u] : state[d] \in Terminal

\* The checks of `transition`.
Allowed(u, target, actor) ==
    /\ state[u] \notin Terminal
    /\ <<state[u], target>> \in Edges
    /\ Authorized(u, target, actor)
    /\ target = "dispatched" => DependenciesMerged(u)

\* The edges that belong to a verdict: under a key, only the verification and
\* review actions may take them.
VerdictEdges(s) ==
    CASE s = "verifying" -> {"reviewing", "repair-needed", "blocked"}
      [] s \in {"reviewing", "re-reviewing"} ->
            {"ready-for-human-merge", "repair-needed", "blocked"}
      [] OTHER -> {}

\* `--action transition`; `cancel`, `supersede` and `record_repair_complete`
\* are transitions too.
Transition(u, target, actor) ==
    /\ Allowed(u, target, actor)
    /\ u \in Attested => target \notin VerdictEdges(state[u])
    /\ Enter(u, target)
    /\ Advanced(u)
    /\ UNCHANGED <<repairs, runs>>

\* `manual_override`: a person forces any state but `merged`.
ManualOverride(u, target) ==
    /\ u \in Overrides
    /\ Known(u)
    /\ state[u] \notin Terminal
    /\ target # "merged"
    /\ Enter(u, target)
    /\ Advanced(u)
    /\ UNCHANGED <<repairs, runs>>

-----------------------------------------------------------------------------
(* Dispatch and runs.                                                      *)

\* Mutation: only the latest producer is kept from reviewing.
DispatchEarlierProducer(u, kind, agent) ==
    /\ u \in Attested
    /\ Known(u)
    /\ LET latest == Latest(runs[u])
       IN /\ kind = "review" =>
               /\ latest # 0
               /\ runs[u][latest].result = "succeeded"
               /\ runs[u][latest].clean
               /\ agent # runs[u][latest].agent
          /\ packets' = [packets EXCEPT ![u] =
                {[kind |-> kind, agent |-> agent, code |-> latest, fresh |-> TRUE]}]
    /\ UNCHANGED <<state, repairs, runs>>

\* Mutation: a review is dispatched for code that failed its gates.
DispatchUngated(u, kind, agent) ==
    /\ u \in Attested
    /\ Known(u)
    /\ LET latest == Latest(runs[u])
       IN /\ kind = "review" =>
               /\ latest # 0
               /\ runs[u][latest].result = "succeeded"
               /\ agent \notin Producers(runs[u])
          /\ packets' = [packets EXCEPT ![u] =
                {[kind |-> kind, agent |-> agent, code |-> latest, fresh |-> TRUE]}]
    /\ UNCHANGED <<state, repairs, runs>>

\* `dispatch-packet`: an envelope for the unit as it is now.  A review is
\* dispatched only for the latest producing run's code, finished and passing
\* its gates, to an agent that produced none of the unit's code.
Dispatch(u, kind, agent) ==
    /\ u \in Attested
    /\ Known(u)
    /\ LET latest == Latest(runs[u])
       IN /\ kind = "review" =>
               /\ latest # 0
               /\ runs[u][latest].result = "succeeded"
               /\ runs[u][latest].clean
               /\ agent \notin Producers(runs[u])
          /\ packets' = [packets EXCEPT ![u] =
                {[kind |-> kind, agent |-> agent, code |-> latest, fresh |-> TRUE]}]
    /\ UNCHANGED <<state, repairs, runs>>

\* The envelopes a start-run accepts: under a key, one signed for this very
\* snapshot of the unit; without a key, any the caller writes.
Envelopes(u) ==
    IF u \in Attested THEN {p \in packets[u] : p.fresh}
    ELSE [kind : Kind, agent : Agent, code : {Latest(runs[u])}, fresh : {TRUE}]

Running(v, i) == runs[v][i].kind \in Exclusive /\ runs[v][i].result = "running"

\* Mutation: only the unit's own runs are looked at.
GroupFreeOwn(u) == \A i \in DOMAIN runs[u] : ~Running(u, i)

\* No implementation or repair runs anywhere in the unit's group.
GroupFree(u) ==
    \A v \in Unit : Group[v] = Group[u] => \A i \in DOMAIN runs[v] : ~Running(v, i)

\* Mutation: the last repair of the budget is refused.
MayStartOneShort(u, kind) ==
    /\ kind = "implementation" => state[u] = "dispatched"
    /\ kind = "repair" => state[u] = "repair-needed" /\ repairs[u] + 1 < MaxRepairs
    /\ kind = "review" => state[u] \in {"reviewing", "re-reviewing"}
    /\ kind \in Exclusive => GroupFree(u)

\* Mutation: one repair more than the budget is let start.
MayStartOverBudget(u, kind) ==
    /\ kind = "implementation" => state[u] = "dispatched"
    /\ kind = "repair" => state[u] = "repair-needed" /\ repairs[u] <= MaxRepairs
    /\ kind = "review" => state[u] \in {"reviewing", "re-reviewing"}
    /\ kind \in Exclusive => GroupFree(u)

\* The checks of `start_run`.
MayStart(u, kind) ==
    /\ kind = "implementation" => state[u] = "dispatched"
    /\ kind = "repair" => state[u] = "repair-needed" /\ repairs[u] < MaxRepairs
    /\ kind = "review" => state[u] \in {"reviewing", "re-reviewing"}
    /\ kind \in Exclusive => GroupFree(u)

\* The run `start_run` records: a producing run is about the code it will
\* make, a review about the head in its envelope.
NewRun(u, p, clean) ==
    [kind |-> p.kind, agent |-> p.agent, result |-> "running",
     cycle |-> IF p.kind = "repair" THEN repairs[u] + 1 ELSE repairs[u],
     code |-> IF p.kind \in Exclusive THEN Len(runs[u]) + 1 ELSE p.code,
     clean |-> clean]

\* A producing run takes its unit into the state of being worked on.
StartState(kind, s) ==
    IF kind = "implementation" THEN "implementing"
    ELSE IF kind = "repair" THEN "repairing" ELSE s

\* `start_run`, which counts a repair as it starts.
StartRun(u, p, clean) ==
    /\ Len(runs[u]) < MaxRuns
    /\ MayStart(u, p.kind)
    /\ runs' = [runs EXCEPT ![u] = Append(@, NewRun(u, p, clean))]
    /\ repairs' = [repairs EXCEPT ![u] = IF p.kind = "repair" THEN @ + 1 ELSE @]
    /\ state' = [state EXCEPT ![u] = StartState(p.kind, @)]
    /\ packets' = [packets EXCEPT ![u] = {}]

\* `finish_run`, in whatever state the unit is by then.
FinishRun(u, i, outcome) ==
    /\ runs[u][i].result = "running"
    /\ runs' = [runs EXCEPT ![u] =
                   [runs[u] EXCEPT ![i] = Finished(runs[u][i], outcome)]]
    /\ Advanced(u)
    /\ UNCHANGED <<state, repairs>>

-----------------------------------------------------------------------------
(* Verdicts.                                                               *)

\* What the caller reports is, under a key, what the harness signed for run i.
Signed(u, i, clean) == u \in Attested => (i \in DOMAIN runs[u] /\ runs[u][i].clean = clean)

\* Where work with a negative verdict goes.
Repairable(u) == IF repairs[u] < MaxRepairs THEN "repair-needed" ELSE "blocked"

\* `record_verification`: the verdict on the code of the latest producing run.
RecordVerification(u, passed) ==
    /\ state[u] = "verifying" \/ (state[u] = "re-reviewing" /\ ~passed)
    /\ Signed(u, Latest(runs[u]), passed)
    /\ Enter(u, IF passed THEN "reviewing" ELSE Repairable(u))
    /\ Advanced(u)
    /\ UNCHANGED <<repairs, runs>>

\* Mutation: a verdict from before the latest repair counts.
RecordReviewAnyCycle(u, i, clean) ==
    /\ state[u] \in {"reviewing", "re-reviewing"}
    /\ runs[u][i].kind = "review"
    /\ Signed(u, i, clean)
    /\ Enter(u, IF clean THEN "ready-for-human-merge" ELSE Repairable(u))
    /\ Advanced(u)
    /\ UNCHANGED <<repairs, runs>>

\* `record_review`: the verdict of review run i, stamped with the cycle it saw.
RecordReview(u, i, clean) ==
    /\ state[u] \in {"reviewing", "re-reviewing"}
    /\ runs[u][i].kind = "review"
    /\ runs[u][i].cycle = repairs[u]
    /\ Signed(u, i, clean)
    /\ Enter(u, IF clean THEN "ready-for-human-merge" ELSE Repairable(u))
    /\ Advanced(u)
    /\ UNCHANGED <<repairs, runs>>

-----------------------------------------------------------------------------
Actor == {"human", "agent", "system"}

\* What a run may turn out to show; without a key no verdict is signed, and what
\* the caller reports is what counts.
Verdicts(u) == IF u \in Attested THEN BOOLEAN ELSE {TRUE}

Step(u) ==
    \/ Create(u)
    \/ \E target \in UnitState, actor \in Actor : Transition(u, target, actor)
    \/ \E target \in UnitState : ManualOverride(u, target)
    \/ \E kind \in Kind, agent \in Agent : Dispatch(u, kind, agent)
    \/ \E p \in Envelopes(u), clean \in Verdicts(u) : StartRun(u, p, clean)
    \/ \E i \in DOMAIN runs[u], outcome \in {"succeeded", "failed"} :
          FinishRun(u, i, outcome)
    \/ \E passed \in BOOLEAN : RecordVerification(u, passed)
    \/ \E i \in DOMAIN runs[u], clean \in BOOLEAN : RecordReview(u, i, clean)

Next == \E u \in Unit : Step(u)

Spec == Init /\ [][Next]_vars

-----------------------------------------------------------------------------
(* What the engine promises.                                               *)

\* No two producing runs of one concurrency group run at the same time, though
\* nothing makes a run end when its unit moves on.
Serialized ==
    \A u, v \in Unit : \A i \in DOMAIN runs[u], j \in DOMAIN runs[v] :
       Group[u] = Group[v] /\ Running(u, i) /\ Running(v, j) => u = v /\ i = j

\* The positions of a unit's repair runs.
Mended(u) == {i \in DOMAIN runs[u] : runs[u][i].kind = "repair"}

\* The repair runs of a unit are never more than its budget, whoever sends it back
\* to be repaired, and they are numbered 1, 2, ... in the order they were started:
\* no number is used twice or left out, and repair_count is the last one
\* (start_run, and the verdicts and reviews that compare with it).
RepairsNumbered ==
    \A u \in Unit :
       /\ repairs[u] <= MaxRepairs
       /\ {runs[u][i].cycle : i \in Mended(u)} = 1 .. repairs[u]
       /\ \A i, j \in Mended(u) : j < i => runs[u][j].cycle < runs[u][i].cycle

\* A unit is worked on only when everything it depends on has been merged,
\* whichever way it got there; overrides are people's to answer for.
DependenciesFirst ==
    \A u \in Unit \ Overrides : state[u] \in Underway => DependenciesMerged(u)

\* The unit is offered for merging, or was merged.
Offered(u) == state[u] \in {"ready-for-human-merge", "merged"}

\* A review run that found nothing in code no older than run k's.
ApprovedSince(u, k) ==
    \E i \in DOMAIN runs[u] :
       runs[u][i].kind = "review" /\ runs[u][i].clean /\ runs[u][i].code >= k

\* What is offered for merging was approved after its last repair.
FreshReview ==
    \A u \in Attested \ Overrides : Offered(u) =>
       \A k \in DOMAIN runs[u] : runs[u][k].kind = "repair" => ApprovedSince(u, k)

\* The unit's code is the very code a reviewer approved, who has produced none
\* of it.
Approved(u) ==
    \E i \in DOMAIN runs[u] :
       /\ runs[u][i].kind = "review" /\ runs[u][i].clean
       /\ runs[u][i].code = Latest(runs[u])
       /\ runs[u][i].agent \notin Producers(runs[u])

\* The verdict counts only for the code it judged: what is offered for merging
\* is what a reviewer approved.
ApprovedCode == \A u \in Attested \ Overrides : Offered(u) => Approved(u)

\* Nobody had the work done all over again after it was blocked.
ImplementedOnce(u) ==
    \A i, j \in DOMAIN runs[u] :
       runs[u][i].kind = "implementation" /\ runs[u][j].kind = "implementation" => i = j

\* What is offered for merging is what an independent reviewer approved, however
\* often it was repaired, blocked and resumed since it was implemented.
ApprovedOnce ==
    \A u \in Attested \ Overrides :
       Offered(u) /\ ImplementedOnce(u) => Approved(u)

\* What is offered for merging passed its gates.
GatesPassed ==
    \A u \in Attested \ Overrides :
       Offered(u) /\ ImplementedOnce(u) =>
          Latest(runs[u]) # 0 /\ runs[u][Latest(runs[u])].clean
=============================================================================
