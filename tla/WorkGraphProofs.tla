--------------------------- MODULE WorkGraphProofs ---------------------------
(***************************************************************************)
(* What holds of every work graph, whatever its size, leases and bounds.   *)
(***************************************************************************)
EXTENDS WorkGraph, TLAPS

-----------------------------------------------------------------------------
(* Ancestors.                                                              *)

\* A dependency is an ancestor.
LEMMA DependencyIsAncestor ==
    ASSUME NEW u \in Unit, NEW v \in DependsOn[u]
    PROVE  v \in Ancestors[u]
  BY GraphAssumption DEF Ancestors

\* Ancestors of ancestors are ancestors.
LEMMA AncestorsOfAncestors ==
    ASSUME NEW u \in Unit, NEW v \in Ancestors[u], NEW w \in Ancestors[v]
    PROVE  w \in Ancestors[u]
  <1>1. v \in Unit /\ w \in Unit
    BY DEF Ancestors
  <1>2. SUFFICES ASSUME NEW A \in SUBSET Unit,
                        DependsOn[u] \cup UNION {DependsOn[x] : x \in A} \subseteq A
                 PROVE  w \in A
    BY <1>1 DEF Ancestors
  <1>3. v \in A
    BY <1>2 DEF Ancestors
  <1>4. DependsOn[v] \cup UNION {DependsOn[x] : x \in A} \subseteq A
    BY <1>2, <1>3
  <1> QED
    BY <1>1, <1>4 DEF Ancestors

\* Every ancestor is a dependency or an ancestor of one.
LEMMA AncestorByDependency ==
    ASSUME NEW u \in Unit, NEW v \in Ancestors[u]
    PROVE  \E d \in DependsOn[u] : v = d \/ v \in Ancestors[d]
  <1> DEFINE B == {x \in Unit : \E d \in DependsOn[u] : x = d \/ x \in Ancestors[d]}
  <1>1. DependsOn[u] \subseteq Unit
    BY GraphAssumption
  <1>2. ASSUME NEW w \in B, NEW x \in DependsOn[w]
        PROVE  x \in B
    <2>1. w \in Unit /\ x \in Unit /\ x \in Ancestors[w]
      BY <1>2, GraphAssumption, DependencyIsAncestor
    <2>2. PICK d \in DependsOn[u] : w = d \/ w \in Ancestors[d]
      BY <1>2
    <2>3. x \in Ancestors[d]
      BY <1>1, <2>1, <2>2, AncestorsOfAncestors
    <2> QED
      BY <2>1, <2>3
  <1>3. DependsOn[u] \cup UNION {DependsOn[w] : w \in B} \subseteq B
    BY <1>1, <1>2
  <1>4. B \in SUBSET Unit
    OBVIOUS
  <1>5. v \in B
    BY <1>3, <1>4 DEF Ancestors
  <1> QED
    BY <1>5

-----------------------------------------------------------------------------
(* Types.                                                                  *)

\* A unit's outputs have known digests.
LEMMA OutputsAreDigests == \A u \in Unit : Output[u] \subseteq Digest
  BY BoundsAssumption

LEMMA TypeInit == Init => WorkGraphTypeOK
  BY DEF Init, WorkGraphTypeOK, Status, Artifacts, Nothing, Lease, Free

LEMMA LeasesTaken ==
    ASSUME WorkGraphTypeOK, NEW u \in Unit, TakeLeases(u)
    PROVE  /\ lease' \in [Resource -> Lease]
           /\ status' \in [Unit -> Status]
           /\ built' \in [Unit -> Artifacts]
           /\ \A v \in Unit : v # u => status'[v] = status[v] /\ built'[v] = built[v]
           /\ status'[u] \in {status[u], "running"}
           /\ status'[u] = status[u] => built' = built \/ status[u] = "running"
           /\ status'[u] # status[u] => built'[u] = Inputs(u)
  <1>1. lease' \in [Resource -> Lease]
    BY BoundsAssumption DEF TakeLeases, WorkGraphTypeOK, Lease
  <1>2. Inputs(u) \in Artifacts
    BY DEF Inputs, WorkGraphTypeOK, Artifacts
  <1>3. \/ status' = [status EXCEPT ![u] = "running"] /\ built' = [built EXCEPT ![u] = Inputs(u)]
        \/ UNCHANGED <<status, built>>
    BY DEF TakeLeases
  <1> QED
    BY <1>1, <1>2, <1>3 DEF WorkGraphTypeOK, Status

LEMMA TypeNext == WorkGraphTypeOK /\ [Next]_vars => WorkGraphTypeOK'
  <1> SUFFICES ASSUME WorkGraphTypeOK, [Next]_vars PROVE WorkGraphTypeOK'
    OBVIOUS
  <1>1. CASE Fill
    BY <1>1 DEF Fill, WorkGraphTypeOK, Ready
  <1>2. CASE Full
    BY <1>2 DEF Full, WorkGraphTypeOK
  <1>3. CASE Tick
    <2>1. lease' \in [Resource -> Lease]
      BY <1>3 DEF Tick, WorkGraphTypeOK, Lease
    <2> QED
      BY <1>3, <2>1 DEF Tick, WorkGraphTypeOK
  <1>4. ASSUME NEW passed \in BOOLEAN, RecordFinal(passed) PROVE WorkGraphTypeOK'
    BY <1>4 DEF RecordFinal, WorkGraphTypeOK
  <1>5. ASSUME NEW u \in Unit, Start(u) PROVE WorkGraphTypeOK'
    BY <1>5, LeasesTaken DEF Start, WorkGraphTypeOK
  <1>6. ASSUME NEW u \in Unit, Try(u) PROVE WorkGraphTypeOK'
    <2>1. CASE TakeLeases(u)
      BY <1>6, <2>1, LeasesTaken DEF Try, WorkGraphTypeOK
    <2>2. CASE UNCHANGED <<status, lease, built>>
      BY <1>6, <2>2 DEF Try, WorkGraphTypeOK
    <2> QED
      BY <1>6, <2>1, <2>2 DEF Try
  <1>7. ASSUME NEW u \in Unit, End(u) PROVE WorkGraphTypeOK'
    <2>1. ReleaseLeases(u) => lease' \in [Resource -> Lease]
      BY DEF ReleaseLeases, WorkGraphTypeOK, Lease, Free
    <2>2. ASSUME NEW outcome \in Status, Ends(u, outcome)
          PROVE  status' \in [Unit -> Status]
      BY <2>2 DEF Ends, WorkGraphTypeOK, Status
    <2>3. CASE Fail(u)
      BY <1>7, <2>1, <2>2, <2>3 DEF Fail, WorkGraphTypeOK, Status
    <2>4. ASSUME NEW digest \in Digest, NEW passed \in BOOLEAN, NEW used \in 0 .. Tokens[u],
                 Complete(u, digest, passed, used)
          PROVE  WorkGraphTypeOK'
      <3>1. spent' \in Nat
        BY <2>4, BoundsAssumption DEF Complete, WorkGraphTypeOK
      <3>2. status' \in [Unit -> Status]
        BY <2>2, <2>4 DEF Complete, Status
      <3> QED
        BY <2>1, <2>4, <3>1, <3>2 DEF Complete, WorkGraphTypeOK, Artifacts
    <2> QED
      BY <1>7, <2>3, <2>4, OutputsAreDigests DEF End
  <1>8. ASSUME NEW u \in Unit, Change(u) PROVE WorkGraphTypeOK'
    <2>1. PICK digest \in Digest : Invalidate(u, digest)
      BY <1>8, OutputsAreDigests DEF Change
    <2>2. status' \in [Unit -> Status]
      BY <2>1 DEF Invalidate, WorkGraphTypeOK, Status
    <2>3. artifact' \in Artifacts
      BY <2>1 DEF Invalidate, WorkGraphTypeOK, Artifacts
    <2>4. verified' \in [Unit -> BOOLEAN] /\ tree' \in Artifacts
      BY <2>1 DEF Invalidate, WorkGraphTypeOK, Artifacts, Nothing
    <2> QED
      BY <2>1, <2>2, <2>3, <2>4 DEF Invalidate, WorkGraphTypeOK
  <1>9. CASE UNCHANGED vars
    BY <1>9 DEF vars, WorkGraphTypeOK
  <1> QED
    BY <1>1, <1>2, <1>3, <1>4, <1>5, <1>6, <1>7, <1>8, <1>9 DEF Next

\* The executor's state keeps its type, and `fill_safe_slots` only ever tries
\* units that are still pending.
THEOREM TypeCorrect == Spec => []WorkGraphTypeOK
  BY TypeInit, TypeNext, PTL DEF Spec

-----------------------------------------------------------------------------
(* What is built on what.                                                  *)

\* A step that keeps every unit's attestation and artifact, and starts a unit at
\* most on attested ancestors, keeps everything built on them.
LEMMA StartKeepsBuilt ==
    ASSUME WorkGraphTypeOK, BuiltOnAttested, NEW u \in Unit, u \in Ready,
           TakeLeases(u), UNCHANGED <<artifact, verified>>
    PROVE  BuiltOnAttested'
  <1>1. status[u] = "pending"
    BY DEF Ready
  <1>2. \A v \in Unit : Attested(v) => v # u /\ Attested(v)' /\ artifact'[v] = artifact[v]
    BY <1>1, LeasesTaken DEF Attested
  <1>3. \A v \in Ancestors[u] : Attested(v)
    <2> SUFFICES ASSUME NEW v \in Ancestors[u] PROVE Attested(v)
      OBVIOUS
    <2>1. PICK d \in DependsOn[u] : v = d \/ v \in Ancestors[d]
      BY AncestorByDependency
    <2>2. d \in Unit /\ Attested(d)
      BY GraphAssumption DEF Ready
    <2> QED
      BY <2>1, <2>2 DEF BuiltOnAttested, Attested
  <1> SUFFICES ASSUME NEW w \in Unit, status'[w] \in {"running", "completed"},
                      NEW v \in Ancestors[w]
               PROVE  Attested(v)' /\ built'[w][v] = artifact'[v]
    BY DEF BuiltOnAttested
  <1>4. v \in Unit
    BY DEF Ancestors
  <1>5. CASE w = u
    <2>1. built'[u] = Inputs(u)
      BY <1>1, <1>5, LeasesTaken
    <2> QED
      BY <1>2, <1>3, <1>4, <1>5, <2>1 DEF Inputs
  <1>6. CASE w # u
    <2>1. status'[w] = status[w] /\ built'[w] = built[w]
      BY <1>6, LeasesTaken
    <2> QED
      BY <1>2, <1>4, <2>1 DEF BuiltOnAttested
  <1> QED
    BY <1>5, <1>6

\* A unit ends: nothing that runs or has completed is built on it.
LEMMA EndKeepsBuilt ==
    ASSUME WorkGraphTypeOK, BuiltOnAttested, NEW u \in Unit, End(u)
    PROVE  BuiltOnAttested'
  <1>1. status[u] = "running"
    BY DEF End, Fail, Complete
  <1>2. /\ built' = built
        /\ \A w \in Unit \ {u} : /\ status'[w] \in {status[w], "blocked"}
                                 /\ status[w] = "completed" => status'[w] = status[w]
                                 /\ verified'[w] = verified[w]
                                 /\ artifact'[w] = artifact[w]
    BY DEF End, Fail, Complete, Ends, WorkGraphTypeOK, Artifacts
  <1>3. \A v \in Unit : Attested(v) => v # u /\ Attested(v)' /\ artifact'[v] = artifact[v]
    BY <1>1, <1>2 DEF Attested
  <1> SUFFICES ASSUME NEW w \in Unit, status'[w] \in {"running", "completed"},
                      NEW v \in Ancestors[w]
               PROVE  Attested(v)' /\ built'[w][v] = artifact'[v]
    BY DEF BuiltOnAttested
  <1>4. v \in Unit
    BY DEF Ancestors
  <1>5. status[w] \in {"running", "completed"}
    BY <1>1, <1>2
  <1>6. Attested(v) /\ built[w][v] = artifact[v]
    BY <1>5 DEF BuiltOnAttested
  <1> QED
    BY <1>2, <1>3, <1>4, <1>6

\* An artifact changes: whatever was built on it starts over, and whatever goes
\* on has no ancestor that does.
LEMMA ChangeKeepsBuilt ==
    ASSUME WorkGraphTypeOK, BuiltOnAttested, NEW u \in Unit, NEW digest \in Digest,
           Invalidate(u, digest)
    PROVE  BuiltOnAttested'
  <1> SUFFICES ASSUME NEW w \in Unit, status'[w] \in {"running", "completed"},
                      NEW v \in Ancestors[w]
               PROVE  Attested(v)' /\ built'[w][v] = artifact'[v]
    BY DEF BuiltOnAttested
  <1>1. v \in Unit
    BY DEF Ancestors
  <1>2. /\ status'[w] = status[w]
        /\ u \notin Ancestors[w]
    BY DEF Invalidate, Dependents, WorkGraphTypeOK
  <1>3. u \notin Ancestors[v]
    BY <1>2, AncestorsOfAncestors
  <1>4. Attested(v) /\ built[w][v] = artifact[v]
    BY <1>2 DEF BuiltOnAttested
  <1>5. v # u
    BY <1>2
  <1>6. status'[v] = status[v] /\ verified'[v] = verified[v] /\ artifact'[v] = artifact[v]
    BY <1>1, <1>3, <1>5 DEF Invalidate, Dependents, WorkGraphTypeOK
  <1> QED
    BY <1>4, <1>6 DEF Invalidate, Attested

\* The final verification is about the artifacts that are attested now.
FinalOnTree ==
    final = "passed" => \A u \in Unit \ ReadOnly : Attested(u) /\ tree[u] = artifact[u]

\* What is true of a work graph at every moment.
WorkGraphInv ==
    WorkGraphTypeOK /\ BuiltOnAttested /\ scan \subseteq Ready /\ FinalOnTree

LEMMA InvInit == Init => WorkGraphInv
  <1> SUFFICES ASSUME Init PROVE WorkGraphInv
    OBVIOUS
  <1>1. \A u \in Unit : status[u] = "pending"
    BY DEF Init
  <1> QED
    BY <1>1, TypeInit DEF Init, WorkGraphInv, BuiltOnAttested, FinalOnTree

\* Starting a unit touches nothing that is attested or ready but the unit.
LEMMA StartKeepsInv ==
    ASSUME WorkGraphInv, WorkGraphTypeOK', NEW u \in Unit, u \in Ready,
           TakeLeases(u), UNCHANGED <<artifact, verified, final, tree>>,
           scan' \subseteq scan \ {u}
    PROVE  WorkGraphInv'
  <1>1. WorkGraphTypeOK /\ status[u] = "pending"
    BY DEF WorkGraphInv, Ready
  <1>2. BuiltOnAttested'
    BY StartKeepsBuilt DEF WorkGraphInv
  <1>3. \A v \in Unit : Attested(v) => Attested(v)'
    BY <1>1, LeasesTaken DEF Attested
  <1>4. scan' \subseteq Ready'
    <2> SUFFICES ASSUME NEW v \in scan' PROVE v \in Ready'
      OBVIOUS
    <2>1. v \in Ready /\ v # u /\ v \in Unit
      BY DEF WorkGraphInv, Ready
    <2>2. status'[v] = status[v] /\ DependsOn[v] \subseteq Unit
      BY <1>1, <2>1, LeasesTaken, GraphAssumption
    <2> QED
      BY <1>3, <2>1, <2>2 DEF Ready
  <1>5. FinalOnTree'
    BY <1>3 DEF WorkGraphInv, FinalOnTree
  <1> QED
    BY <1>2, <1>4, <1>5 DEF WorkGraphInv

LEMMA EndKeepsInv ==
    ASSUME WorkGraphInv, WorkGraphTypeOK', NEW u \in Unit, End(u)
    PROVE  WorkGraphInv'
  <1>1. status[u] = "running" /\ scan' = {} /\ UNCHANGED <<final, tree>>
    BY DEF End, Fail, Complete
  <1>2. BuiltOnAttested'
    BY EndKeepsBuilt DEF WorkGraphInv
  <1>3. \A w \in Unit \ {u} : /\ status[w] = "completed" => status'[w] = status[w]
                              /\ verified'[w] = verified[w]
                              /\ artifact'[w] = artifact[w]
    BY DEF End, Fail, Complete, Ends, WorkGraphInv, WorkGraphTypeOK, Artifacts
  <1>4. FinalOnTree'
    BY <1>1, <1>3 DEF WorkGraphInv, FinalOnTree, Attested
  <1> QED
    BY <1>1, <1>2, <1>4 DEF WorkGraphInv

LEMMA InvNext == WorkGraphInv /\ [Next]_vars => WorkGraphInv'
  <1> SUFFICES ASSUME WorkGraphInv, [Next]_vars PROVE WorkGraphInv'
    OBVIOUS
  <1>0. WorkGraphTypeOK /\ WorkGraphTypeOK'
    BY TypeNext DEF WorkGraphInv
  <1>1. CASE Fill \/ Full \/ Tick \/ UNCHANGED vars
    <2>1. UNCHANGED <<status, artifact, verified, final, built, tree>>
      BY <1>1 DEF Fill, Full, Tick, vars
    <2>2. scan' \in {Ready, {}, scan}
      BY <1>1 DEF Fill, Full, Tick, vars
    <2> QED
      BY <1>0, <2>1, <2>2 DEF WorkGraphInv, BuiltOnAttested, Ready, Attested, FinalOnTree
  <1>2. ASSUME NEW passed \in BOOLEAN, RecordFinal(passed) PROVE WorkGraphInv'
    BY <1>0, <1>2 DEF RecordFinal, WorkGraphInv, BuiltOnAttested, Ready, Attested,
                      FinalOnTree, WritersAttested
  <1>3. ASSUME NEW u \in Unit, Start(u) PROVE WorkGraphInv'
    BY <1>0, <1>3, StartKeepsInv DEF Start
  <1>4. ASSUME NEW u \in Unit, Try(u) PROVE WorkGraphInv'
    <2>1. u \in Ready /\ scan' = scan \ {u} /\ UNCHANGED <<artifact, verified, final, tree>>
      BY <1>4 DEF Try, WorkGraphInv
    <2>2. CASE TakeLeases(u)
      BY <1>0, <2>1, <2>2, StartKeepsInv
    <2>3. CASE UNCHANGED <<status, lease, built>>
      BY <1>0, <2>1, <2>3 DEF WorkGraphInv, BuiltOnAttested, Ready, Attested, FinalOnTree
    <2> QED
      BY <1>4, <2>2, <2>3 DEF Try
  <1>5. ASSUME NEW u \in Unit, End(u) PROVE WorkGraphInv'
    BY <1>0, <1>5, EndKeepsInv
  <1>6. ASSUME NEW u \in Unit, Change(u) PROVE WorkGraphInv'
    <2>1. PICK digest \in Digest : Invalidate(u, digest)
      BY <1>6, OutputsAreDigests DEF Change
    <2>2. BuiltOnAttested'
      BY <2>1, ChangeKeepsBuilt DEF WorkGraphInv
    <2> QED
      BY <1>0, <2>1, <2>2 DEF Invalidate, WorkGraphInv, FinalOnTree
  <1> QED
    BY <1>1, <1>2, <1>3, <1>4, <1>5, <1>6 DEF Next

LEMMA Invariant == Spec => []WorkGraphInv
  BY InvInit, InvNext, PTL DEF Spec

\* "Downstream work receives digests": in every graph, whatever upstream artifact
\* changes and whenever, what runs or has completed was started on the artifacts
\* its ancestors have now, all of them attested.
THEOREM BuiltOnCurrentArtifacts == Spec => []BuiltOnAttested
  BY Invariant, PTL DEF WorkGraphInv

\* "Conflicting units serialize": the order of the graph alone keeps writers that
\* share a path or a resource from running at once; it needs no lease.
THEOREM WritersSerialized == Spec => []WritersAlone
  <1>1. WorkGraphInv => WritersAlone
    <2> SUFFICES ASSUME WorkGraphInv, NEW u \in Running, NEW v \in Running,
                        u # v, Shares(u, v)
                 PROVE  {u, v} \subseteq ReadOnly
      BY DEF WritersAlone
    <2>1. u \in Unit /\ v \in Unit /\ ~Attested(u) /\ ~Attested(v)
      BY DEF Running, Attested
    <2>2. u \notin Ancestors[v] /\ v \notin Ancestors[u]
      BY <2>1 DEF WorkGraphInv, BuiltOnAttested, Running
    <2> QED
      BY <2>1, <2>2, GraphAssumption
  <1> QED
    BY <1>1, Invariant, PTL

\* "Composition never bypasses verification": what the final verification passed
\* is what is composed.
THEOREM ComposedWasVerified == Spec => []ComposedAsVerified
  <1>1. WorkGraphInv => ComposedAsVerified
    BY DEF WorkGraphInv, FinalOnTree, ComposedAsVerified, Composable
  <1> QED
    BY <1>1, Invariant, PTL
=============================================================================
