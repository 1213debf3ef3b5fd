--------------------------- MODULE MCOrchestrator ---------------------------
(***************************************************************************)
(* The engine on one unit kept under an attestation key, on two units of   *)
(* one concurrency group kept without, the second depending on the first,  *)
(* and the CI job that drives it, each checked while the others rest:      *)
(* they share no state, and a run of one says nothing of another.          *)
(***************************************************************************)
EXTENDS Orchestrator, OrchestrateWorkflow, TLC

CONSTANTS
    u1, u2, u3, a1, a2, j1, j2,
    MaxPlainRuns  \* bound: runs recorded on a unit that is not attested

VARIABLE subject  \* what this behaviour is about

mcVars == <<subject, vars, workflowVars>>

MCGroup == [u \in Unit |-> IF u = u1 THEN "alone" ELSE "group"]
MCDependsOn == [u \in Unit |-> IF u = u3 THEN {u2} ELSE {}]

\* Who runs what is read at dispatch alone, so one agent does all plain runs.
Plain(u) ==
    /\ Len(runs[u]) <= MaxPlainRuns
    /\ \A v \in Unit : \A i \in DOMAIN runs[u], j \in DOMAIN runs[v] : runs[u][i].agent = runs[v][j].agent

MCInit ==
    /\ subject \in {"attested", "group", "workflow"}
    /\ Init /\ WorkflowInit

MCNext ==
    /\ UNCHANGED subject
    /\ \/ /\ subject = "attested" /\ \E u \in Attested : Step(u)
          /\ UNCHANGED workflowVars
       \/ /\ subject = "group" /\ \E u \in Unit \ Attested : Step(u) /\ Plain(u)'
          /\ UNCHANGED workflowVars
       \/ /\ subject = "workflow" /\ WorkflowNext
          /\ UNCHANGED vars

MCSpec == MCInit /\ [][MCNext]_mcVars

Symmetry == Permutations(Agent) \cup Permutations(Job)
=============================================================================
