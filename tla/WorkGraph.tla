----------------------------- MODULE WorkGraph ------------------------------
(***************************************************************************)
(* The parallel work graph: `GraphExecutor` and its `LeaseManager`         *)
(* (work_graph.py), filled by `fill_safe_slots` (adaptive_scheduler.py).   *)
(*                                                                         *)
(* The executor is one object in one thread, so a method is a step, and a  *)
(* method that raises keeps what it had done by then.  `fill_safe_slots`   *)
(* calls `start` unit by unit; `scan` holds the units it has yet to try,   *)
(* and nothing else is called while it is at work.                         *)
(*                                                                         *)
(* A lease is relative to now: its remaining time, 0 once it is up.        *)
(***************************************************************************)
EXTENDS Naturals, Sequences, FiniteSetsExt

CONSTANTS
    Unit, Resource, Digest, Nobody, NoArtifact,
    Rank,         \* position of each unit in graph.order
    DependsOn,    \* the dependencies of each unit
    Needs,        \* owned paths and shared resources of each unit, in order
    ReadOnly,     \* the units with an empty write set
    Timeout,      \* timeout_seconds of each unit
    Tokens,       \* max_tokens of each unit
    Output,       \* the digests each unit's output may have
    Provider,     \* the provider of each unit
    Limit,        \* provider_limits
    MaxParallel, TokenBudget

\* `_ancestors`: what a unit depends on, directly or by way of others.
Ancestors ==
    [u \in Unit |->
        {v \in Unit : \A A \in SUBSET Unit :
            DependsOn[u] \cup UNION {DependsOn[w] : w \in A} \subseteq A => v \in A}]

Shares(u, v) == \E i \in DOMAIN Needs[u], j \in DOMAIN Needs[v] : Needs[u][i] = Needs[v][j]

\* What `validate_graph` accepts: no cycles, and units that share a resource are
\* ordered or both read-only.  A unit names a resource once, and no owned path is
\* called like a shared resource.
ASSUME GraphAssumption ==
    /\ DependsOn \in [Unit -> SUBSET Unit]
    /\ Rank \in [Unit -> Nat]
    /\ \A u \in Unit, v \in Unit : v \in DependsOn[u] => Rank[v] < Rank[u]
    /\ Needs \in [Unit -> Seq(Resource)]
    /\ \A u \in Unit : \A i, j \in DOMAIN Needs[u] : Needs[u][i] = Needs[u][j] => i = j
    /\ \A u, v \in Unit :
          \/ u = v \/ u \in Ancestors[v] \/ v \in Ancestors[u]
          \/ {u, v} \subseteq ReadOnly
          \/ ~Shares(u, v)

ASSUME BoundsAssumption ==
    /\ Timeout \in [Unit -> Nat \ {0}]
    /\ Tokens \in [Unit -> Nat \ {0}]
    /\ Output \in [Unit -> SUBSET Digest]
    /\ MaxParallel \in Nat \ {0}
    /\ TokenBudget \in Nat

VARIABLES
    status,    \* _status
    artifact,  \* _artifacts: the digest of each unit's output
    verified,  \* _verified
    lease,     \* the leases' holders and remaining times
    spent,     \* _tokens_spent
    final,     \* _final_verification
    scan,      \* the units fill_safe_slots has yet to try
    built,     \* the artifacts each unit was started on (history)
    tree       \* the artifacts the final verification was about (history)

vars == <<status, artifact, verified, lease, spent, final, scan, built, tree>>

Status == {"pending", "running", "completed", "failed", "blocked"}

Artifacts == [Unit -> Digest \cup {NoArtifact}]

Lease == [by : Unit \cup {Nobody}, left : Nat]

Free == [by |-> Nobody, left |-> 0]

WorkGraphTypeOK ==
    /\ status \in [Unit -> Status]
    /\ artifact \in Artifacts
    /\ verified \in [Unit -> BOOLEAN]
    /\ lease \in [Resource -> Lease]
    /\ spent \in Nat
    /\ final \in {"none", "passed", "failed"}
    /\ scan \subseteq {u \in Unit : status[u] = "pending"}
    /\ built \in [Unit -> Artifacts]
    /\ tree \in Artifacts

Nothing == [u \in Unit |-> NoArtifact]

Init ==
    /\ status = [u \in Unit |-> "pending"]
    /\ artifact = Nothing
    /\ verified = [u \in Unit |-> FALSE]
    /\ lease = [r \in Resource |-> Free]
    /\ spent = 0
    /\ final = "none"
    /\ scan = {}
    /\ built = [u \in Unit |-> Nothing]
    /\ tree = Nothing

-----------------------------------------------------------------------------
Running == {u \in Unit : status[u] = "running"}

\* `_is_attested`.
Attested(u) == status[u] = "completed" /\ verified[u] /\ artifact[u] # NoArtifact

\* `ready`.
Ready == {u \in Unit : status[u] = "pending" /\ \A v \in DependsOn[u] : Attested(v)}

Dependents(u) == {v \in Unit : u \in Ancestors[v]}

-----------------------------------------------------------------------------
(* Starting units.                                                         *)

Slots == Cardinality(Running) < MaxParallel

ProviderFree(u) ==
    Cardinality({v \in Running : Provider[v] = Provider[u]}) < Limit[Provider[u]]

BudgetLeft(u) == spent + Tokens[u] <= TokenBudget

\* `acquire` grants what is free, the unit's own, or up.
Grantable(r, u) == lease[r].by \in {u, Nobody} \/ lease[r].left = 0

\* The resources `start` gets hold of before the first that is refused.
Acquired(u) ==
    {Needs[u][i] : i \in {k \in DOMAIN Needs[u] :
                             \A j \in 1 .. k : Grantable(Needs[u][j], u)}}

\* The artifacts the unit is started on.
Inputs(u) == [v \in Unit |-> IF v \in Ancestors[u] THEN artifact[v] ELSE NoArtifact]

\* The unit takes its leases; it runs if it got all of them, and keeps those it
\* got if it did not.
TakeLeases(u) ==
    /\ lease' = [r \in Resource |->
                    IF r \in Acquired(u) THEN [by |-> u, left |-> Timeout[u]] ELSE lease[r]]
    /\ IF \A i \in DOMAIN Needs[u] : Needs[u][i] \in Acquired(u)
       THEN /\ status' = [status EXCEPT ![u] = "running"]
            /\ built' = [built EXCEPT ![u] = Inputs(u)]
       ELSE UNCHANGED <<status, built>>

\* `start`, called for one unit; nothing changes when a bound refuses it.
Start(u) ==
    /\ scan = {}
    /\ u \in Ready
    /\ Slots /\ ProviderFree(u) /\ BudgetLeft(u)
    /\ TakeLeases(u)
    /\ UNCHANGED <<artifact, verified, spent, final, scan, tree>>

\* `fill_safe_slots` is called ...
Fill ==
    /\ scan = {}
    /\ Ready # {}
    /\ scan' = Ready
    /\ UNCHANGED <<status, artifact, verified, lease, spent, final, built, tree>>

\* Mutation: the first unit that has to wait ends the scan.
TryInOrder(u) ==
    /\ u \in scan
    /\ \A v \in scan : Rank[u] <= Rank[v]
    /\ Slots
    /\ scan' = IF ProviderFree(u) /\ BudgetLeft(u) THEN scan \ {u} ELSE {}
    /\ IF ProviderFree(u) /\ BudgetLeft(u)
       THEN TakeLeases(u)
       ELSE UNCHANGED <<status, lease, built>>
    /\ UNCHANGED <<artifact, verified, spent, final, tree>>

\* ... tries the next unit, going on past one that has to wait ...
Try(u) ==
    /\ u \in scan
    /\ \A v \in scan : Rank[u] <= Rank[v]
    /\ Slots
    /\ scan' = scan \ {u}
    /\ IF ProviderFree(u) /\ BudgetLeft(u)
       THEN TakeLeases(u)
       ELSE UNCHANGED <<status, lease, built>>
    /\ UNCHANGED <<artifact, verified, spent, final, tree>>

\* ... and stops when no slot is left.
Full ==
    /\ scan # {}
    /\ ~Slots
    /\ scan' = {}
    /\ UNCHANGED <<status, artifact, verified, lease, spent, final, built, tree>>

-----------------------------------------------------------------------------
(* Units that end.                                                         *)

\* The leases are released in order; one that was lost raises, and the method
\* ends there.
Released(u) ==
    {Needs[u][i] : i \in {k \in DOMAIN Needs[u] :
                             \A j \in 1 .. k : lease[Needs[u][j]].by = u}}

AllReleased(u) == \A i \in DOMAIN Needs[u] : Needs[u][i] \in Released(u)

ReleaseLeases(u) ==
    lease' = [r \in Resource |-> IF r \in Released(u) THEN Free ELSE lease[r]]

\* The unit ends; the dependents of one that failed are blocked, unless the
\* method did not come that far.
Ends(u, outcome) ==
    status' = [v \in Unit |->
        IF v = u THEN outcome
        ELSE IF /\ outcome = "failed" /\ AllReleased(u)
                /\ v \in Dependents(u) /\ status[v] \in {"pending", "running"}
             THEN "blocked"
        ELSE status[v]]

\* `complete`, told the artifact, whether it was verified and the tokens used.
Complete(u, digest, passed, used) ==
    /\ scan = {}
    /\ status[u] = "running"
    /\ spent' = spent + used
    /\ Ends(u, IF passed THEN "completed" ELSE "failed")
    /\ verified' = [verified EXCEPT ![u] = passed]
    /\ artifact' = [artifact EXCEPT ![u] = digest]
    /\ ReleaseLeases(u)
    /\ UNCHANGED <<final, scan, built, tree>>

\* `fail`.
Fail(u) ==
    /\ scan = {}
    /\ status[u] = "running"
    /\ Ends(u, "failed")
    /\ ReleaseLeases(u)
    /\ UNCHANGED <<artifact, verified, spent, final, scan, built, tree>>

-----------------------------------------------------------------------------
(* Changes and fan-in.                                                     *)

\* Mutation: only units that have an output are started over.
InvalidateOutputs(u, digest) ==
    /\ scan = {}
    /\ artifact[u] # digest
    /\ LET reset == {v \in Dependents(u) : status[v] \in {"completed", "blocked"}}
       IN /\ status' = [v \in Unit |-> IF v \in reset THEN "pending" ELSE status[v]]
          /\ verified' = [v \in Unit |-> verified[v] /\ v \notin reset]
          /\ artifact' = [v \in Unit |-> IF v = u THEN digest
                                         ELSE IF v \in reset THEN NoArtifact ELSE artifact[v]]
    /\ final' = "none" /\ tree' = Nothing
    /\ UNCHANGED <<lease, spent, scan, built>>

\* Mutation: only the direct dependents are started over.
InvalidateDirect(u, digest) ==
    /\ scan = {}
    /\ artifact[u] # digest
    /\ LET reset == {v \in Unit : u \in DependsOn[v]
                        /\ status[v] \in {"completed", "running", "blocked"}}
       IN /\ status' = [v \in Unit |-> IF v \in reset THEN "pending" ELSE status[v]]
          /\ verified' = [v \in Unit |-> verified[v] /\ v \notin reset]
          /\ artifact' = [v \in Unit |-> IF v = u THEN digest
                                         ELSE IF v \in reset THEN NoArtifact ELSE artifact[v]]
    /\ final' = "none" /\ tree' = Nothing
    /\ UNCHANGED <<lease, spent, scan, built>>

\* Mutation: the final verification stands.
InvalidateKeepingFinal(u, digest) ==
    /\ scan = {}
    /\ artifact[u] # digest
    /\ LET reset == {v \in Dependents(u) : status[v] \in {"completed", "running", "blocked"}}
       IN /\ status' = [v \in Unit |-> IF v \in reset THEN "pending" ELSE status[v]]
          /\ verified' = [v \in Unit |-> verified[v] /\ v \notin reset]
          /\ artifact' = [v \in Unit |-> IF v = u THEN digest
                                         ELSE IF v \in reset THEN NoArtifact ELSE artifact[v]]
    /\ UNCHANGED <<lease, spent, final, scan, built, tree>>

\* `invalidate_upstream_change`: the dependents start over, the final
\* verification is void, and the leases stay as they are.
Invalidate(u, digest) ==
    /\ scan = {}
    /\ artifact[u] # digest
    /\ LET reset == {v \in Dependents(u) : status[v] \in {"completed", "running", "blocked"}}
       IN /\ status' = [v \in Unit |-> IF v \in reset THEN "pending" ELSE status[v]]
          /\ verified' = [v \in Unit |-> verified[v] /\ v \notin reset]
          /\ artifact' = [v \in Unit |-> IF v = u THEN digest
                                         ELSE IF v \in reset THEN NoArtifact ELSE artifact[v]]
    /\ final' = "none" /\ tree' = Nothing
    /\ UNCHANGED <<lease, spent, scan, built>>

WritersAttested == \A u \in Unit \ ReadOnly : Attested(u)

\* `record_final_verification`.
RecordFinal(passed) ==
    /\ scan = {}
    /\ WritersAttested
    /\ final' = IF passed THEN "passed" ELSE "failed"
    /\ tree' = artifact
    /\ UNCHANGED <<status, artifact, verified, lease, spent, scan, built>>

\* `compose` does not refuse.
Composable ==
    /\ \A u \in Unit : status[u] \notin {"failed", "blocked"}
    /\ WritersAttested
    /\ final = "passed"

Tick ==
    /\ scan = {}
    /\ lease' = [r \in Resource |-> [by |-> lease[r].by,
                    left |-> IF lease[r].left > 0 THEN lease[r].left - 1 ELSE 0]]
    /\ UNCHANGED <<status, artifact, verified, spent, final, scan, built, tree>>

-----------------------------------------------------------------------------
End(u) ==
    \/ Fail(u)
    \/ \E digest \in Output[u], passed \in BOOLEAN, used \in 0 .. Tokens[u] :
          Complete(u, digest, passed, used)

Change(u) == \E digest \in Output[u] : Invalidate(u, digest)

Next ==
    \/ Fill
    \/ Full
    \/ Tick
    \/ \E passed \in BOOLEAN : RecordFinal(passed)
    \/ \E u \in Unit : Start(u) \/ Try(u) \/ End(u) \/ Change(u)

Spec == Init /\ [][Next]_vars

\* The scheduler is called over and over and finishes what it began; time
\* passes, and agents end one way or another.
Fairness ==
    /\ SF_vars(Fill)
    /\ WF_vars(Full)
    /\ SF_vars(Tick)
    /\ WF_vars(\E u \in Unit : Try(u))
    /\ SF_vars(\E u \in Unit : End(u))

FairSpec == Spec /\ Fairness

-----------------------------------------------------------------------------
(* Properties.                                                             *)

\* "`ready()` releases a unit only when every dependency is attested": whatever
\* changes upstream, a unit that runs or has completed was started on the very
\* artifacts its ancestors have, and all of them are attested.
BuiltOnAttested ==
    \A u \in Unit : status[u] \in {"running", "completed"} =>
        \A v \in Ancestors[u] : Attested(v) /\ built[u][v] = artifact[v]

\* "Conflicting units serialize": two units that run at once and share a path or
\* a resource are both read-only, even when leases run out under them.
WritersAlone ==
    \A u, v \in Running : u # v /\ Shares(u, v) => {u, v} \subseteq ReadOnly

\* "Composition never bypasses verification": the writing units are composed
\* from the artifacts the final verification was about.
ComposedAsVerified ==
    Composable => \A u \in Unit \ ReadOnly : tree[u] = artifact[u]

\* From some time on no artifact changes any more.
Quiet == <>[][\A u \in Unit : ~Change(u)]_vars

\* The units name the resources they share in one order.
OneOrder ==
    \E place \in [Resource -> 1 .. Cardinality(Resource)] :
        \A u \in Unit : \A i, j \in DOMAIN Needs[u] :
            i < j => place[Needs[u][i]] < place[Needs[u][j]]

\* A waiting unit never prevents an unrelated one from using a free slot: what is
\* ready is started, unless the token budget is used up, though `start` keeps
\* what it got hold of before a lease was refused.  That is so of graphs whose
\* units name resources in one order, which `validate_graph` does not ask for:
\* of two readers that name two in opposite orders each may get hold of one,
\* refresh it whenever it is tried again, and neither ever starts.
Started ==
    OneOrder /\ Quiet => \A u \in Unit : (u \in Ready) ~> (u \notin Ready \/ ~BudgetLeft(u))
=============================================================================
