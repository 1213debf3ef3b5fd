-------------------------- MODULE OrchestratorProofs --------------------------
(***************************************************************************)
(* What the orchestration engine keeps true for every roster, every set of *)
(* units, concurrency groups, dependencies and budgets.                    *)
(*                                                                         *)
(* The first half establishes which code a unit carries: the newest run    *)
(* names it, because a producing run is about the code it makes and a      *)
(* review about the code its envelope was dispatched for.  The promises of *)
(* Orchestrator.tla follow from that and from the counting of repairs.     *)
(***************************************************************************)
EXTENDS Orchestrator, SequenceTheorems, TLAPS

\* The code the newest run of a unit is about.
CodeOf(rs) == IF rs = <<>> THEN 0 ELSE rs[Len(rs)].code

\* That code is the last producing run's.
Newest(rs) ==
    /\ \A k \in DOMAIN rs : rs[k].kind \in Exclusive => k <= CodeOf(rs)
    /\ \/ CodeOf(rs) = 0
       \/ CodeOf(rs) \in DOMAIN rs /\ rs[CodeOf(rs)].kind \in Exclusive

CodeInv ==
    /\ TypeOK
    /\ \A u \in Unit : Newest(runs[u])
    /\ \A u \in Unit : \A p \in packets[u] : p.fresh => p.code = CodeOf(runs[u])

LEMMA LatestIs ==
    ASSUME NEW rs \in Seq(Run), Newest(rs)
    PROVE  Latest(rs) = CodeOf(rs) /\ CodeOf(rs) \in 0 .. Len(rs)
<1>1. \A k \in DOMAIN rs : k \in Nat /\ k > 0 /\ k <= Len(rs)
  OBVIOUS
<1>2. \A k \in Producing(rs) : k \in DOMAIN rs /\ rs[k].kind \in Exclusive
  BY DEF Producing
<1>3. CASE CodeOf(rs) = 0
  <2>1. Producing(rs) = {}
    BY <1>1, <1>2, <1>3 DEF Newest
  <2> QED BY <2>1, <1>3 DEF Latest
<1>4. CASE CodeOf(rs) \in DOMAIN rs /\ rs[CodeOf(rs)].kind \in Exclusive
  <2>1. CodeOf(rs) \in Producing(rs)
    BY <1>4 DEF Producing
  <2>2. \A j \in Producing(rs) : j <= CodeOf(rs)
    BY <1>2 DEF Newest
  <2>3. \A i \in Producing(rs) :
           (\A j \in Producing(rs) : j <= i) => i = CodeOf(rs)
    BY <1>1, <1>2, <2>1, <2>2
  <2>4. (CHOOSE i \in Producing(rs) : \A j \in Producing(rs) : j <= i) = CodeOf(rs)
    BY <2>1, <2>2, <2>3
  <2> QED BY <2>1, <2>4, <1>1, <1>4 DEF Latest
<1> QED BY <1>3, <1>4 DEF Newest

LEMMA AppendNewest ==
    ASSUME NEW rs \in Seq(Run), Newest(rs), NEW r \in Run,
           r.code = IF r.kind \in Exclusive THEN Len(rs) + 1 ELSE CodeOf(rs)
    PROVE  /\ Append(rs, r) \in Seq(Run)
           /\ Newest(Append(rs, r))
<1> DEFINE ap == Append(rs, r)
<1>1. /\ ap \in Seq(Run) /\ Len(ap) = Len(rs) + 1 /\ ap # <<>>
      /\ \A k \in 1 .. Len(rs) : ap[k] = rs[k]
      /\ ap[Len(rs) + 1] = r
      /\ Len(rs) \in Nat
      /\ DOMAIN ap = 1 .. Len(rs) + 1
      /\ DOMAIN rs = 1 .. Len(rs)
  BY AppendProperties
<1> HIDE DEF ap
<1>2. CodeOf(ap) = r.code
  BY <1>1 DEF CodeOf
<1>3. CodeOf(rs) \in 0 .. Len(rs)
  BY LatestIs
<1>4. CASE r.kind \in Exclusive
  <2>1. CodeOf(ap) = Len(rs) + 1
    BY <1>2, <1>4
  <2>2. CodeOf(ap) \in DOMAIN ap /\ ap[CodeOf(ap)].kind \in Exclusive
    BY <2>1, <1>1, <1>4
  <2>3. \A k \in DOMAIN ap : k <= CodeOf(ap)
    BY <2>1, <1>1
  <2> QED BY <1>1, <2>2, <2>3 DEF Newest, ap
<1>5. CASE r.kind \notin Exclusive
  <2>1. \A k \in DOMAIN ap : ap[k].kind \in Exclusive => k <= CodeOf(ap)
    <3> SUFFICES ASSUME NEW k \in DOMAIN ap, ap[k].kind \in Exclusive
                 PROVE  k <= CodeOf(ap)
      OBVIOUS
    <3>1. k \in DOMAIN rs /\ ap[k] = rs[k]
      BY <1>1, <1>5
    <3> QED BY <3>1, <1>2, <1>5 DEF Newest
  <2>2. CodeOf(ap) = CodeOf(rs)
    BY <1>2, <1>5
  <2>3. CodeOf(ap) = 0 \/ (CodeOf(ap) \in DOMAIN ap /\ ap[CodeOf(ap)].kind \in Exclusive)
    <3>1. CASE CodeOf(rs) = 0
      BY <3>1, <2>2
    <3>2. CASE CodeOf(rs) \in DOMAIN rs /\ rs[CodeOf(rs)].kind \in Exclusive
      <4>1. CodeOf(rs) \in DOMAIN ap /\ ap[CodeOf(rs)] = rs[CodeOf(rs)]
        BY <3>2, <1>1
      <4> QED BY <4>1, <3>2, <2>2
    <3> QED BY <3>1, <3>2 DEF Newest
  <2> QED BY <1>1, <2>1, <2>3 DEF Newest, ap
<1> QED BY <1>4, <1>5

LEMMA FinishNewest ==
    ASSUME NEW rs \in Seq(Run), Newest(rs), NEW i \in DOMAIN rs,
           NEW outcome \in {"succeeded", "failed"},
           NEW fs, fs = [rs EXCEPT ![i] = Finished(rs[i], outcome)]
    PROVE  /\ fs \in Seq(Run) /\ Len(fs) = Len(rs)
           /\ DOMAIN fs = DOMAIN rs
           /\ \A k \in DOMAIN rs : k # i => fs[k] = rs[k]
           /\ fs[i] = Finished(rs[i], outcome)
           /\ Newest(fs) /\ CodeOf(fs) = CodeOf(rs)
<1>1. Finished(rs[i], outcome) \in Run
  <2>1. rs[i] \in Run
    OBVIOUS
  <2> QED BY <2>1 DEF Finished, Run
<1>2. /\ fs \in Seq(Run) /\ Len(fs) = Len(rs) /\ DOMAIN fs = DOMAIN rs
  <2>1. i \in 1 .. Len(rs)
    OBVIOUS
  <2>2. fs \in Seq(Run) /\ Len(fs) = Len(rs)
    BY <1>1, <2>1, ExceptSeq
  <2> QED BY <2>2
<1>3. /\ \A k \in DOMAIN rs : k # i => fs[k] = rs[k]
      /\ fs[i] = Finished(rs[i], outcome)
  OBVIOUS
<1>4. \A k \in DOMAIN rs : fs[k].kind = rs[k].kind /\ fs[k].code = rs[k].code
  BY <1>3 DEF Finished
<1>5. CodeOf(fs) = CodeOf(rs)
  <2>1. Len(rs) \in DOMAIN rs /\ Len(rs) > 0
    OBVIOUS
  <2>2. rs # <<>> /\ fs # <<>>
    BY <2>1, <1>2
  <2> QED BY <2>1, <2>2, <1>2, <1>4 DEF CodeOf
<1>6. Newest(fs)
  <2>1. \A k \in DOMAIN fs : fs[k].kind \in Exclusive => k <= CodeOf(fs)
    BY <1>2, <1>4, <1>5 DEF Newest
  <2>2. CodeOf(fs) = 0 \/ (CodeOf(fs) \in DOMAIN fs /\ fs[CodeOf(fs)].kind \in Exclusive)
    BY <1>2, <1>4, <1>5 DEF Newest
  <2> QED BY <2>1, <2>2 DEF Newest
<1> QED BY <1>2, <1>3, <1>5, <1>6

-----------------------------------------------------------------------------
(* Types, and the code each unit carries.                                  *)

\* A step that gives one unit well-formed values leaves the invariant true.
LEMMA CodeStep ==
    ASSUME CodeInv, NEW u \in Unit,
           NEW st \in State, NEW rp \in 0 .. MaxRepairs, NEW rs \in Seq(Run),
           NEW ps \in SUBSET Packet,
           Len(rs) <= MaxRuns, Newest(rs),
           \A p \in ps : p.fresh => p.code = CodeOf(rs),
           state' = [state EXCEPT ![u] = st],
           repairs' = [repairs EXCEPT ![u] = rp],
           runs' = [runs EXCEPT ![u] = rs],
           packets' = [packets EXCEPT ![u] = ps]
    PROVE  CodeInv'
BY DEF CodeInv, TypeOK

\* What the invariant says of one unit.
LEMMA CodeFacts ==
    ASSUME CodeInv, NEW u \in Unit
    PROVE  /\ state[u] \in State /\ repairs[u] \in 0 .. MaxRepairs
           /\ runs[u] \in Seq(Run) /\ Len(runs[u]) <= MaxRuns
           /\ Newest(runs[u])
           /\ packets[u] \in SUBSET Packet
           /\ \A p \in packets[u] : p.fresh => p.code = CodeOf(runs[u])
           /\ Latest(runs[u]) = CodeOf(runs[u])
           /\ CodeOf(runs[u]) \in 0 .. MaxRuns
           /\ \A i \in DOMAIN runs[u] : runs[u][i] \in Run /\ i \in Nat
           /\ state = [state EXCEPT ![u] = state[u]]
           /\ repairs = [repairs EXCEPT ![u] = repairs[u]]
           /\ runs = [runs EXCEPT ![u] = runs[u]]
           /\ packets = [packets EXCEPT ![u] = packets[u]]
<1>1. /\ state[u] \in State /\ repairs[u] \in 0 .. MaxRepairs
      /\ runs[u] \in Seq(Run) /\ Len(runs[u]) <= MaxRuns
      /\ Newest(runs[u])
      /\ packets[u] \in SUBSET Packet
      /\ \A p \in packets[u] : p.fresh => p.code = CodeOf(runs[u])
  BY DEF CodeInv, TypeOK
<1>2. Latest(runs[u]) = CodeOf(runs[u]) /\ CodeOf(runs[u]) \in 0 .. Len(runs[u])
  BY <1>1, LatestIs
<1>3. CodeOf(runs[u]) \in 0 .. MaxRuns
  BY <1>1, <1>2, BudgetAssumption
<1>4. \A i \in DOMAIN runs[u] : runs[u][i] \in Run /\ i \in Nat
  BY <1>1
<1>5. /\ state = [state EXCEPT ![u] = state[u]]
      /\ repairs = [repairs EXCEPT ![u] = repairs[u]]
      /\ runs = [runs EXCEPT ![u] = runs[u]]
      /\ packets = [packets EXCEPT ![u] = packets[u]]
  BY DEF CodeInv, TypeOK
<1> QED BY <1>1, <1>2, <1>3, <1>4, <1>5

\* Envelopes that have become stale bind nothing.
LEMMA StalePackets ==
    ASSUME NEW ps \in SUBSET Packet
    PROVE  /\ {Stale(p) : p \in ps} \in SUBSET Packet
           /\ \A p \in {Stale(q) : q \in ps} : ~p.fresh
<1>1. \A q \in ps : Stale(q) \in Packet /\ Stale(q).fresh = FALSE
  BY DEF Stale, Packet
<1> QED BY <1>1

\* An operation that only moves the unit keeps the invariant.
LEMMA MoveStep ==
    ASSUME CodeInv, NEW u \in Unit, NEW st \in State,
           Enter(u, st), Advanced(u), UNCHANGED <<repairs, runs>>
    PROVE  CodeInv'
<1> DEFINE ps == {Stale(p) : p \in packets[u]}
<1>1. ps \in SUBSET Packet /\ \A p \in ps : ~p.fresh
  BY CodeFacts, StalePackets
<1>2. packets' = [packets EXCEPT ![u] = ps]
  BY DEF Advanced
<1> HIDE DEF ps
<1> QED BY <1>1, <1>2, CodeFacts, CodeStep DEF Enter

LEMMA StatesCovered ==
    /\ UnitState \subseteq State
    /\ "intake" \in State /\ "blocked" \in State /\ "reviewing" \in State
    /\ "repair-needed" \in State /\ "ready-for-human-merge" \in State
    /\ "implementing" \in State /\ "repairing" \in State
BY DEF State, UnitState, Underway

\* Every envelope a start-run accepts is about the code the unit carries.
LEMMA EnvelopeCode ==
    ASSUME CodeInv, NEW u \in Unit, NEW p \in Envelopes(u)
    PROVE  p \in Packet /\ p.code = CodeOf(runs[u])
<1>1. CASE u \in Attested
  BY <1>1, CodeFacts DEF Envelopes
<1>2. CASE u \notin Attested
  BY <1>2, CodeFacts DEF Envelopes, Packet
<1> QED BY <1>1, <1>2

LEMMA StartRunCode ==
    ASSUME CodeInv, NEW u \in Unit, NEW p \in Envelopes(u), NEW clean \in BOOLEAN,
           StartRun(u, p, clean)
    PROVE  /\ NewRun(u, p, clean) \in Run
           /\ Append(runs[u], NewRun(u, p, clean)) \in Seq(Run)
           /\ CodeInv'
<1> DEFINE r == NewRun(u, p, clean)
<1>1. p \in Packet /\ p.code = CodeOf(runs[u])
  BY EnvelopeCode
<1>2. Len(runs[u]) \in Nat /\ Len(runs[u]) + 1 <= MaxRuns
  BY CodeFacts, BudgetAssumption DEF StartRun
<1>3. p.kind = "repair" => repairs[u] + 1 \in 0 .. MaxRepairs
  BY CodeFacts, BudgetAssumption DEF StartRun, MayStart
<1>4. r \in Run
  BY <1>1, <1>2, <1>3, CodeFacts, BudgetAssumption DEF NewRun, Run, Packet, Kind, Exclusive
<1>5. r.code = IF r.kind \in Exclusive THEN Len(runs[u]) + 1 ELSE CodeOf(runs[u])
  BY <1>1 DEF NewRun
<1> DEFINE rs == Append(runs[u], r)
<1>6. rs \in Seq(Run) /\ Newest(rs) /\ Len(rs) <= MaxRuns
  <2>1. rs \in Seq(Run) /\ Newest(rs)
    BY <1>4, <1>5, CodeFacts, AppendNewest
  <2>2. Len(rs) = Len(runs[u]) + 1
    BY <1>4, CodeFacts, AppendProperties
  <2> QED BY <2>1, <2>2, <1>2
<1> DEFINE st == StartState(p.kind, state[u])
           rp == IF p.kind = "repair" THEN repairs[u] + 1 ELSE repairs[u]
<1>7. st \in State /\ rp \in 0 .. MaxRepairs
  BY <1>3, CodeFacts, StatesCovered DEF StartState
<1>8. /\ state' = [state EXCEPT ![u] = st]
      /\ repairs' = [repairs EXCEPT ![u] = rp]
      /\ runs' = [runs EXCEPT ![u] = rs]
      /\ packets' = [packets EXCEPT ![u] = {}]
  BY DEF StartRun
<1> HIDE DEF r, rs, st, rp
<1>9. CodeInv'
  BY <1>6, <1>7, <1>8, CodeStep
<1> QED BY <1>4, <1>6, <1>9 DEF r, rs

LEMMA FinishRunCode ==
    ASSUME CodeInv, NEW u \in Unit, NEW i \in DOMAIN runs[u],
           NEW outcome \in {"succeeded", "failed"}, FinishRun(u, i, outcome)
    PROVE  CodeInv'
<1> DEFINE fs == [runs[u] EXCEPT ![i] = Finished(runs[u][i], outcome)]
           ps == {Stale(p) : p \in packets[u]}
<1>1. fs \in Seq(Run) /\ Len(fs) <= MaxRuns /\ Newest(fs)
  BY CodeFacts, FinishNewest
<1>2. ps \in SUBSET Packet /\ \A p \in ps : ~p.fresh
  BY CodeFacts, StalePackets
<1>3. /\ runs' = [runs EXCEPT ![u] = fs]
      /\ packets' = [packets EXCEPT ![u] = ps]
      /\ state' = [state EXCEPT ![u] = state[u]]
      /\ repairs' = [repairs EXCEPT ![u] = repairs[u]]
  BY CodeFacts DEF FinishRun, Advanced
<1> HIDE DEF fs, ps
<1> QED BY <1>1, <1>2, <1>3, CodeFacts, CodeStep

LEMMA DispatchCode ==
    ASSUME CodeInv, NEW u \in Unit, NEW kind \in Kind, NEW agent \in Agent,
           Dispatch(u, kind, agent)
    PROVE  CodeInv'
<1> DEFINE p == [kind |-> kind, agent |-> agent, code |-> Latest(runs[u]), fresh |-> TRUE]
           ps == {p}
<1>1. p \in Packet /\ p.code = CodeOf(runs[u])
  BY CodeFacts DEF Packet
<1>2. ps \in SUBSET Packet /\ \A q \in ps : q.fresh => q.code = CodeOf(runs[u])
  BY <1>1
<1>3. /\ packets' = [packets EXCEPT ![u] = ps]
      /\ runs' = [runs EXCEPT ![u] = runs[u]]
      /\ state' = [state EXCEPT ![u] = state[u]]
      /\ repairs' = [repairs EXCEPT ![u] = repairs[u]]
  BY CodeFacts DEF Dispatch
<1>4. /\ state[u] \in State /\ repairs[u] \in 0 .. MaxRepairs
      /\ runs[u] \in Seq(Run) /\ Len(runs[u]) <= MaxRuns /\ Newest(runs[u])
  BY CodeFacts
<1> HIDE DEF p, ps
<1> QED BY <1>2, <1>3, <1>4, CodeStep

LEMMA CreateCode ==
    ASSUME CodeInv, NEW u \in Unit, Create(u)
    PROVE  CodeInv'
<1>1. /\ packets' = [packets EXCEPT ![u] = packets[u]]
      /\ runs' = [runs EXCEPT ![u] = runs[u]]
      /\ state' = [state EXCEPT ![u] = "intake"]
      /\ repairs' = [repairs EXCEPT ![u] = repairs[u]]
  BY CodeFacts DEF Create, Enter
<1> QED BY <1>1, CodeFacts, CodeStep, StatesCovered

LEMMA VerdictMoves ==
    ASSUME NEW u \in Unit
    PROVE  Repairable(u) \in {"repair-needed", "blocked"}
BY DEF Repairable

\* One step of one unit: the case split every invariant below shares.
LEMMA Cases ==
    ASSUME NEW u \in Unit, Step(u)
    PROVE  \/ Create(u)
           \/ \E target \in UnitState, actor \in Actor : Transition(u, target, actor)
           \/ \E target \in UnitState : ManualOverride(u, target)
           \/ \E kind \in Kind, agent \in Agent : Dispatch(u, kind, agent)
           \/ \E p \in Envelopes(u), clean \in BOOLEAN : StartRun(u, p, clean)
           \/ \E i \in DOMAIN runs[u], outcome \in {"succeeded", "failed"} :
                 FinishRun(u, i, outcome)
           \/ \E passed \in BOOLEAN : RecordVerification(u, passed)
           \/ \E i \in DOMAIN runs[u], clean \in BOOLEAN : RecordReview(u, i, clean)
<1>1. Verdicts(u) \subseteq BOOLEAN
  BY DEF Verdicts
<1> QED BY <1>1 DEF Step

LEMMA CodeNext == CodeInv /\ [Next]_vars => CodeInv'
<1> SUFFICES ASSUME CodeInv, [Next]_vars PROVE CodeInv'
  OBVIOUS
<1>1. CASE UNCHANGED vars
  BY <1>1 DEF CodeInv, TypeOK, vars
<1>2. ASSUME NEW u \in Unit, Step(u) PROVE CodeInv'
  <2>1. CASE Create(u)
    BY <2>1, CreateCode
  <2>2. ASSUME NEW target \in UnitState, NEW actor \in Actor, Transition(u, target, actor)
        PROVE  CodeInv'
    BY <2>2, MoveStep, StatesCovered DEF Transition
  <2>3. ASSUME NEW target \in UnitState, ManualOverride(u, target) PROVE CodeInv'
    BY <2>3, MoveStep, StatesCovered DEF ManualOverride
  <2>4. ASSUME NEW kind \in Kind, NEW agent \in Agent, Dispatch(u, kind, agent)
        PROVE  CodeInv'
    BY <2>4, DispatchCode
  <2>5. ASSUME NEW p \in Envelopes(u), NEW clean \in BOOLEAN, StartRun(u, p, clean)
        PROVE  CodeInv'
    BY <2>5, StartRunCode
  <2>6. ASSUME NEW i \in DOMAIN runs[u], NEW outcome \in {"succeeded", "failed"},
               FinishRun(u, i, outcome)
        PROVE  CodeInv'
    BY <2>6, FinishRunCode
  <2>7. ASSUME NEW passed \in BOOLEAN, RecordVerification(u, passed) PROVE CodeInv'
    <3>1. (IF passed THEN "reviewing" ELSE Repairable(u)) \in State
      BY VerdictMoves, StatesCovered
    <3> QED BY <2>7, <3>1, MoveStep DEF RecordVerification
  <2>8. ASSUME NEW i \in DOMAIN runs[u], NEW clean \in BOOLEAN, RecordReview(u, i, clean)
        PROVE  CodeInv'
    <3>1. (IF clean THEN "ready-for-human-merge" ELSE Repairable(u)) \in State
      BY VerdictMoves, StatesCovered
    <3> QED BY <2>8, <3>1, MoveStep DEF RecordReview
  <2> QED BY <1>2, <2>1, <2>2, <2>3, <2>4, <2>5, <2>6, <2>7, <2>8, Cases
<1> QED BY <1>1, <1>2 DEF Next

LEMMA CodeInit == Init => CodeInv
<1> SUFFICES ASSUME Init PROVE CodeInv
  OBVIOUS
<1>1. TypeOK
  <2>1. <<>> \in Seq(Run) /\ Len(<<>>) = 0
    OBVIOUS
  <2> QED BY <2>1, BudgetAssumption DEF Init, TypeOK, State
<1>2. \A u \in Unit : runs[u] = <<>> /\ packets[u] = {}
  BY DEF Init
<1>3. Newest(<<>>)
  BY DEF Newest, CodeOf
<1> QED BY <1>1, <1>2, <1>3 DEF CodeInv

\* The engine's state is well formed, and each unit's newest run names the code
\* the unit carries.
THEOREM TypeCorrect == Spec => []TypeOK
<1>1. CodeInv => TypeOK
  BY DEF CodeInv
<1> QED BY <1>1, CodeInit, CodeNext, PTL DEF Spec

LEMMA CodeAlways == Spec => []CodeInv
BY CodeInit, CodeNext, PTL DEF Spec

-----------------------------------------------------------------------------
(* Repairs and the reviews that follow them.                               *)

Repair(rs, k) == k \in DOMAIN rs /\ rs[k].kind = "repair"

\* Repairs are numbered in order, each number up to the count is one's, every run is stamped with the
\* count it found, and a review stamped no earlier than a repair is about code
\* no older than that repair's.
Numbered(rs, count) ==
    /\ \A i \in DOMAIN rs : rs[i].cycle <= count
    /\ \A k \in DOMAIN rs : Repair(rs, k) => 1 <= rs[k].cycle
    /\ \A n \in 1 .. count : \E k \in DOMAIN rs : Repair(rs, k) /\ rs[k].cycle = n
    /\ \A j, k \in DOMAIN rs :
          Repair(rs, j) /\ Repair(rs, k) /\ j < k => rs[j].cycle < rs[k].cycle
    /\ \A i, k \in DOMAIN rs :
          rs[i].kind = "review" /\ Repair(rs, k) /\ rs[k].cycle <= rs[i].cycle
             => k <= rs[i].code

LEMMA AppendNumbered ==
    ASSUME NEW rs \in Seq(Run), NEW count \in Nat, Newest(rs), Numbered(rs, count),
           NEW r \in Run, NEW next \in Nat,
           next = IF r.kind = "repair" THEN count + 1 ELSE count,
           r.cycle = next,
           r.code = IF r.kind \in Exclusive THEN Len(rs) + 1 ELSE CodeOf(rs)
    PROVE  Numbered(Append(rs, r), next)
<1> DEFINE ap == Append(rs, r)
<1>1. /\ \A k \in 1 .. Len(rs) : ap[k] = rs[k]
      /\ ap[Len(rs) + 1] = r
      /\ Len(rs) \in Nat
      /\ DOMAIN ap = 1 .. Len(rs) + 1
      /\ DOMAIN rs = 1 .. Len(rs)
  BY AppendProperties
<1>2. \A k \in DOMAIN rs : rs[k].cycle \in Nat /\ rs[k].code \in Nat
  <2>1. \A k \in DOMAIN rs : rs[k] \in Run
    OBVIOUS
  <2> QED BY <2>1, BudgetAssumption DEF Run
<1> HIDE DEF ap
<1>3. \A k \in DOMAIN ap : (k \in DOMAIN rs /\ ap[k] = rs[k]) \/ (k = Len(rs) + 1 /\ ap[k] = r)
  BY <1>1
<1>4. \A i \in DOMAIN ap : ap[i].cycle <= next
  BY <1>2, <1>3 DEF Numbered
<1>5. \A k \in DOMAIN ap : Repair(ap, k) => 1 <= ap[k].cycle
  BY <1>3 DEF Numbered, Repair
<1>6. ASSUME NEW j \in DOMAIN ap, NEW k \in DOMAIN ap,
             Repair(ap, j), Repair(ap, k), j < k
      PROVE  ap[j].cycle < ap[k].cycle
  <2>1. j \in DOMAIN rs /\ ap[j] = rs[j]
    BY <1>1, <1>6
  <2>2. CASE k \in DOMAIN rs /\ ap[k] = rs[k]
    BY <1>6, <2>1, <2>2 DEF Numbered, Repair
  <2>3. CASE k = Len(rs) + 1 /\ ap[k] = r
    <3>1. rs[j].cycle <= count /\ next = count + 1
      BY <1>6, <2>1, <2>3 DEF Numbered, Repair
    <3> QED BY <3>1, <2>1, <2>3, <1>2
  <2> QED BY <1>3, <2>2, <2>3
<1>7. ASSUME NEW i \in DOMAIN ap, NEW k \in DOMAIN ap,
             ap[i].kind = "review", Repair(ap, k), ap[k].cycle <= ap[i].cycle
      PROVE  k <= ap[i].code
  <2>1. CASE /\ i \in DOMAIN rs /\ ap[i] = rs[i]
             /\ k \in DOMAIN rs /\ ap[k] = rs[k]
    BY <1>7, <2>1 DEF Numbered, Repair
  <2>2. CASE i = Len(rs) + 1 /\ ap[i] = r
    <3>1. r.kind = "review" /\ r.code = CodeOf(rs) /\ k # i
      BY <1>7, <2>2 DEF Exclusive, Repair
    <3>2. k \in DOMAIN rs /\ rs[k].kind \in Exclusive
      BY <1>3, <1>7, <2>2, <3>1 DEF Exclusive, Repair
    <3> QED BY <2>2, <3>1, <3>2 DEF Newest
  <2>3. CASE i \in DOMAIN rs /\ ap[i] = rs[i] /\ k = Len(rs) + 1 /\ ap[k] = r
    <3>1. r.kind = "repair" /\ r.cycle = count + 1
      BY <1>7, <2>3 DEF Repair
    <3>2. rs[i].cycle <= count
      BY <2>3 DEF Numbered
    <3> QED BY <1>2, <1>7, <2>3, <3>1, <3>2
  <2> QED BY <1>3, <2>1, <2>2, <2>3
<1>8. ASSUME NEW n \in 1 .. next PROVE \E k \in DOMAIN ap : Repair(ap, k) /\ ap[k].cycle = n
  <2>1. CASE n \in 1 .. count
    <3>1. PICK k \in DOMAIN rs : Repair(rs, k) /\ rs[k].cycle = n
      BY <2>1 DEF Numbered
    <3>2. k \in DOMAIN ap /\ ap[k] = rs[k]
      BY <1>1
    <3> QED BY <3>1, <3>2 DEF Repair
  <2>2. CASE n \notin 1 .. count
    <3>1. n = count + 1 /\ r.kind = "repair" /\ next = count + 1
      BY <2>2
    <3>2. Len(rs) + 1 \in DOMAIN ap /\ ap[Len(rs) + 1] = r
      BY <1>1
    <3> QED BY <3>1, <3>2 DEF Repair
  <2> QED BY <2>1, <2>2
<1> QED BY <1>4, <1>5, <1>6, <1>7, <1>8 DEF Numbered, ap

\* The numbering depends on the kinds, cycles and codes of the runs alone.
LEMMA SameNumbered ==
    ASSUME NEW rs, NEW fs, NEW count, Numbered(rs, count), DOMAIN fs = DOMAIN rs,
           \A k \in DOMAIN rs : /\ fs[k].kind = rs[k].kind /\ fs[k].code = rs[k].code
                                /\ fs[k].cycle = rs[k].cycle
    PROVE  Numbered(fs, count)
<1>1. \A k \in DOMAIN rs : Repair(fs, k) <=> Repair(rs, k)
  BY DEF Repair
<1> QED BY <1>1 DEF Numbered

LEMMA FinishNumbered ==
    ASSUME NEW rs \in Seq(Run), NEW count \in Nat, Newest(rs), Numbered(rs, count),
           NEW i \in DOMAIN rs, NEW outcome \in {"succeeded", "failed"},
           NEW fs, fs = [rs EXCEPT ![i] = Finished(rs[i], outcome)]
    PROVE  Numbered(fs, count)
<1>1. /\ DOMAIN fs = DOMAIN rs
      /\ \A k \in DOMAIN rs : k # i => fs[k] = rs[k]
      /\ fs[i] = Finished(rs[i], outcome)
  BY FinishNewest
<1>2. \A k \in DOMAIN rs : /\ fs[k].kind = rs[k].kind /\ fs[k].code = rs[k].code
                          /\ fs[k].cycle = rs[k].cycle
  BY <1>1 DEF Finished
<1> QED BY <1>1, <1>2, SameNumbered

RepairInv ==
    /\ CodeInv
    /\ \A u \in Unit : Numbered(runs[u], repairs[u])

LEMMA RepairNext == RepairInv /\ [Next]_vars => RepairInv'
<1> SUFFICES ASSUME RepairInv, [Next]_vars PROVE RepairInv'
  OBVIOUS
<1>1. CodeInv /\ CodeInv'
  BY CodeNext DEF RepairInv
<1>2. CASE UNCHANGED <<runs, repairs>>
  BY <1>1, <1>2 DEF RepairInv
<1>3. ASSUME NEW u \in Unit, Step(u), ~UNCHANGED <<runs, repairs>>
      PROVE  \A v \in Unit : Numbered(runs'[v], repairs'[v])
  <2>1. /\ runs[u] \in Seq(Run) /\ repairs[u] \in Nat /\ Newest(runs[u])
        /\ Numbered(runs[u], repairs[u])
        /\ u \in DOMAIN runs /\ u \in DOMAIN repairs
        /\ \A v \in Unit : Numbered(runs[v], repairs[v])
    BY <1>1, CodeFacts, BudgetAssumption DEF RepairInv, CodeInv, TypeOK
  <2>2. ASSUME NEW p \in Envelopes(u), NEW clean \in BOOLEAN, StartRun(u, p, clean)
        PROVE  \A v \in Unit : Numbered(runs'[v], repairs'[v])
    <3> DEFINE r == NewRun(u, p, clean)
               next == IF r.kind = "repair" THEN repairs[u] + 1 ELSE repairs[u]
    <3>1. r \in Run /\ p.code = CodeOf(runs[u])
      BY <1>1, <2>2, StartRunCode, EnvelopeCode
    <3>2. /\ next \in Nat /\ r.cycle = next /\ r.kind = p.kind
          /\ r.code = IF r.kind \in Exclusive THEN Len(runs[u]) + 1 ELSE CodeOf(runs[u])
      BY <2>1, <3>1 DEF NewRun
    <3>3. /\ runs' = [runs EXCEPT ![u] = Append(runs[u], r)]
          /\ repairs' = [repairs EXCEPT ![u] = next]
      BY <2>2, <3>2 DEF StartRun
    <3>4. next = IF r.kind = "repair" THEN repairs[u] + 1 ELSE repairs[u]
      OBVIOUS
    <3> HIDE DEF r, next
    <3>5. Numbered(Append(runs[u], r), next)
      BY <2>1, <3>1, <3>2, <3>4, AppendNumbered
    <3> QED BY <2>1, <3>3, <3>5
  <2>3. ASSUME NEW i \in DOMAIN runs[u], NEW outcome \in {"succeeded", "failed"},
               FinishRun(u, i, outcome)
        PROVE  \A v \in Unit : Numbered(runs'[v], repairs'[v])
    <3> DEFINE fs == [runs[u] EXCEPT ![i] = Finished(runs[u][i], outcome)]
    <3>1. runs' = [runs EXCEPT ![u] = fs] /\ repairs' = repairs
      BY <2>3 DEF FinishRun
    <3>2. Numbered(fs, repairs[u])
      BY <2>1, FinishNumbered
    <3> HIDE DEF fs
    <3> QED BY <2>1, <3>1, <3>2
  <2>4. ~Create(u)
    BY <1>3 DEF Create
  <2>5. \A target \in UnitState, actor \in Actor : ~Transition(u, target, actor)
    BY <1>3 DEF Transition
  <2>6. \A target \in UnitState : ~ManualOverride(u, target)
    BY <1>3 DEF ManualOverride
  <2>7. \A kind \in Kind, agent \in Agent : ~Dispatch(u, kind, agent)
    BY <1>3 DEF Dispatch
  <2>8. \A passed \in BOOLEAN : ~RecordVerification(u, passed)
    BY <1>3 DEF RecordVerification
  <2>9. \A i \in DOMAIN runs[u], clean \in BOOLEAN : ~RecordReview(u, i, clean)
    BY <1>3 DEF RecordReview
  <2> QED BY <1>3, <2>2, <2>3, <2>4, <2>5, <2>6, <2>7, <2>8, <2>9, Cases
<1>4. UNCHANGED vars => UNCHANGED <<runs, repairs>>
  BY DEF vars
<1> QED BY <1>1, <1>2, <1>3, <1>4 DEF RepairInv, Next

LEMMA RepairInit == Init => RepairInv
<1>1. Init => \A u \in Unit : runs[u] = <<>>
  BY DEF Init
<1>2. Numbered(<<>>, 0)
  BY DEF Numbered
<1>3. Init => \A u \in Unit : repairs[u] = 0
  BY DEF Init
<1> QED BY <1>1, <1>2, <1>3, CodeInit DEF RepairInv

LEMMA RepairAlways == Spec => []RepairInv
BY RepairInit, RepairNext, PTL DEF Spec

\* The repair runs of a unit never exceed the budget, whoever sends it back to be
\* repaired, and are numbered 1, 2, ... up to repair_count in the order they were
\* started (start_run).
THEOREM RepairsCounted == Spec => []RepairsNumbered
<1>1. RepairInv => RepairsNumbered
  <2> SUFFICES ASSUME RepairInv, NEW u \in Unit
               PROVE  /\ repairs[u] <= MaxRepairs
                      /\ {runs[u][i].cycle : i \in Mended(u)} = 1 .. repairs[u]
                      /\ \A i, j \in Mended(u) : j < i => runs[u][j].cycle < runs[u][i].cycle
    BY DEF RepairsNumbered
  <2>1. Numbered(runs[u], repairs[u]) /\ CodeInv
    BY DEF RepairInv
  <2>2. repairs[u] \in 0 .. MaxRepairs /\ \A i \in DOMAIN runs[u] : runs[u][i] \in Run
    BY <2>1, CodeFacts DEF CodeInv, TypeOK
  <2>3. \A i \in DOMAIN runs[u] : i \in Mended(u) <=> Repair(runs[u], i)
    BY DEF Mended, Repair
  <2>4. ASSUME NEW i \in Mended(u) PROVE runs[u][i].cycle \in 1 .. repairs[u]
    <3>1. i \in DOMAIN runs[u] /\ Repair(runs[u], i)
      BY DEF Mended, Repair
    <3>2. runs[u][i].cycle \in Nat
      BY <2>2, <3>1, BudgetAssumption DEF Run
    <3> QED BY <2>1, <2>2, <3>1, <3>2, BudgetAssumption DEF Numbered
  <2>5. ASSUME NEW n \in 1 .. repairs[u] PROVE \E i \in Mended(u) : runs[u][i].cycle = n
    BY <2>1, <2>3 DEF Numbered, Mended
  <2>6. \A i, j \in Mended(u) : j < i => runs[u][j].cycle < runs[u][i].cycle
    BY <2>1 DEF Numbered, Mended, Repair
  <2>7. {runs[u][i].cycle : i \in Mended(u)} = 1 .. repairs[u]
    BY <2>4, <2>5
  <2>8. repairs[u] <= MaxRepairs
    BY <2>2, BudgetAssumption
  <2> QED BY <2>6, <2>7, <2>8
<1> QED BY <1>1, RepairAlways, PTL

-----------------------------------------------------------------------------
(* Concurrency groups.                                                     *)

LEMMA SerialNext == CodeInv /\ Serialized /\ [Next]_vars => Serialized'
<1> SUFFICES ASSUME CodeInv, Serialized, [Next]_vars PROVE Serialized'
  OBVIOUS
<1>1. CASE UNCHANGED runs
  BY <1>1 DEF Serialized, Running
<1>2. ASSUME NEW u \in Unit, Step(u), ~UNCHANGED runs PROVE Serialized'
  <2>1. /\ runs[u] \in Seq(Run) /\ u \in DOMAIN runs
        /\ DOMAIN runs[u] = 1 .. Len(runs[u]) /\ Len(runs[u]) \in Nat
    BY CodeFacts DEF CodeInv, TypeOK
  <2>2. ASSUME NEW p \in Envelopes(u), NEW clean \in BOOLEAN, StartRun(u, p, clean)
        PROVE  Serialized'
    <3> DEFINE r == NewRun(u, p, clean)
               n == Len(runs[u]) + 1
    <3>1. r \in Run
      BY <2>2, StartRunCode
    <3>2. /\ runs' = [runs EXCEPT ![u] = Append(runs[u], r)]
          /\ r.kind = p.kind
          /\ p.kind \in Exclusive => GroupFree(u)
      BY <2>2 DEF StartRun, MayStart, NewRun
    <3> HIDE DEF r
    <3>3. /\ DOMAIN runs'[u] = 1 .. n
          /\ \A k \in DOMAIN runs[u] : runs'[u][k] = runs[u][k]
          /\ runs'[u][n] = r
      BY <2>1, <3>1, <3>2, AppendProperties
    <3>4. \A v \in Unit : v # u => runs'[v] = runs[v]
      BY <3>2
    <3>5. \A v \in Unit : \A k \in DOMAIN runs'[v] :
             Running(v, k)' => \/ k \in DOMAIN runs[v] /\ Running(v, k)
                               \/ v = u /\ k = n /\ GroupFree(u)
      BY <2>1, <3>2, <3>3, <3>4 DEF Running
    <3> SUFFICES ASSUME NEW v \in Unit, NEW w \in Unit,
                        NEW i \in DOMAIN runs'[v], NEW j \in DOMAIN runs'[w],
                        Group[v] = Group[w], Running(v, i)', Running(w, j)'
                 PROVE  v = w /\ i = j
      BY DEF Serialized
    <3> QED BY <3>5 DEF Serialized, GroupFree
  <2>3. ASSUME NEW i \in DOMAIN runs[u], NEW outcome \in {"succeeded", "failed"},
               FinishRun(u, i, outcome)
        PROVE  Serialized'
    <3> DEFINE fs == [runs[u] EXCEPT ![i] = Finished(runs[u][i], outcome)]
    <3>1. runs' = [runs EXCEPT ![u] = fs]
      BY <2>3 DEF FinishRun
    <3>2. /\ DOMAIN fs = DOMAIN runs[u]
          /\ \A k \in DOMAIN runs[u] : k # i => fs[k] = runs[u][k]
          /\ fs[i].result # "running"
      BY <2>1 DEF Finished
    <3> HIDE DEF fs
    <3>3. \A v \in Unit : DOMAIN runs'[v] = DOMAIN runs[v]
      BY <2>1, <3>1, <3>2
    <3>4. \A v \in Unit : \A k \in DOMAIN runs[v] : Running(v, k)' => Running(v, k)
      BY <2>1, <3>1, <3>2 DEF Running
    <3> QED BY <3>3, <3>4 DEF Serialized
  <2>4. ~Create(u)
    BY <1>2 DEF Create
  <2>5. \A target \in UnitState, actor \in Actor : ~Transition(u, target, actor)
    BY <1>2 DEF Transition
  <2>6. \A target \in UnitState : ~ManualOverride(u, target)
    BY <1>2 DEF ManualOverride
  <2>7. \A kind \in Kind, agent \in Agent : ~Dispatch(u, kind, agent)
    BY <1>2 DEF Dispatch
  <2>8. \A passed \in BOOLEAN : ~RecordVerification(u, passed)
    BY <1>2 DEF RecordVerification
  <2>9. \A i \in DOMAIN runs[u], clean \in BOOLEAN : ~RecordReview(u, i, clean)
    BY <1>2 DEF RecordReview
  <2> QED BY <1>2, <2>2, <2>3, <2>4, <2>5, <2>6, <2>7, <2>8, <2>9, Cases
<1>3. UNCHANGED vars => UNCHANGED runs
  BY DEF vars
<1> QED BY <1>1, <1>2, <1>3 DEF Next

\* A concurrency group never holds two implementation or repair runs at once.
THEOREM GroupsSerialized == Spec => []Serialized
<1>1. Init => Serialized
  BY DEF Init, Serialized
<1> QED BY <1>1, SerialNext, CodeAlways, PTL DEF Spec

-----------------------------------------------------------------------------
(* Dependencies.                                                           *)

\* How a step may change the state of a unit.
LEMMA Moves ==
    ASSUME CodeInv, NEW u \in Unit, Step(u)
    PROVE  /\ \A v \in Unit : v # u => state'[v] = state[v]
           /\ state[u] = "merged" => state'[u] = "merged"
           /\ state'[u] \in Underway =>
                 \/ state[u] \in Underway \/ u \in Overrides
                 \/ state'[u] = "dispatched" /\ DependenciesMerged(u)
<1>1. u \in DOMAIN state /\ state[u] \in State
  BY DEF CodeInv, TypeOK
<1>3. ASSUME NEW target \in UnitState, NEW actor \in Actor, Transition(u, target, actor)
      PROVE  /\ state' = [state EXCEPT ![u] = target]
             /\ state[u] # "merged"
             /\ target \in Underway => state[u] \in Underway \/
                   (target = "dispatched" /\ DependenciesMerged(u))
  <2>1. /\ state' = [state EXCEPT ![u] = target]
        /\ state[u] # "merged"
        /\ <<state[u], target>> \in Edges
        /\ target = "dispatched" => DependenciesMerged(u)
    BY <1>3 DEF Transition, Allowed, Enter, Terminal
  <2>2. target \in Underway /\ target # "dispatched" => state[u] \in Underway
    BY <2>1 DEF Edges, Underway, UnitState, Terminal, Abort
  <2> QED BY <2>1, <2>2
<1>4. ASSUME NEW target \in UnitState, ManualOverride(u, target)
      PROVE  /\ state' = [state EXCEPT ![u] = target]
             /\ state[u] # "merged" /\ u \in Overrides
  BY <1>4 DEF ManualOverride, Enter, Terminal
<1>5. ASSUME NEW kind \in Kind, NEW agent \in Agent, Dispatch(u, kind, agent)
      PROVE  UNCHANGED state
  BY <1>5 DEF Dispatch
<1>6. ASSUME NEW p \in Envelopes(u), NEW clean \in BOOLEAN, StartRun(u, p, clean)
      PROVE  /\ state' = [state EXCEPT ![u] = StartState(p.kind, state[u])]
             /\ state[u] # "merged"
             /\ state[u] \in Underway
  <2>1. p.kind \in Kind
    BY EnvelopeCode DEF Packet
  <2> QED BY <1>6, <2>1 DEF StartRun, MayStart, Kind, Exclusive, Underway
<1>7. ASSUME NEW i \in DOMAIN runs[u], NEW outcome \in {"succeeded", "failed"},
             FinishRun(u, i, outcome)
      PROVE  UNCHANGED state
  BY <1>7 DEF FinishRun
<1>8. ASSUME NEW passed \in BOOLEAN, RecordVerification(u, passed)
      PROVE  /\ \E target \in State : state' = [state EXCEPT ![u] = target]
             /\ state[u] # "merged" /\ state[u] \in Underway
  BY <1>8, VerdictMoves, StatesCovered DEF RecordVerification, Enter, Underway
<1>9. ASSUME NEW i \in DOMAIN runs[u], NEW clean \in BOOLEAN, RecordReview(u, i, clean)
      PROVE  /\ \E target \in State : state' = [state EXCEPT ![u] = target]
             /\ state[u] # "merged" /\ state[u] \in Underway
  BY <1>9, VerdictMoves, StatesCovered DEF RecordReview, Enter, Underway
<1> DEFINE Goal == /\ \A v \in Unit : v # u => state'[v] = state[v]
                   /\ state[u] = "merged" => state'[u] = "merged"
                   /\ state'[u] \in Underway =>
                         \/ state[u] \in Underway \/ u \in Overrides
                         \/ state'[u] = "dispatched" /\ DependenciesMerged(u)
<1>a. ASSUME NEW target, state' = [state EXCEPT ![u] = target], state[u] # "merged",
             \/ state[u] \in Underway \/ target \notin Underway \/ u \in Overrides
             \/ target = "dispatched" /\ DependenciesMerged(u)
      PROVE  Goal
  BY <1>1, <1>a
<1>b. ASSUME UNCHANGED state PROVE Goal
  BY <1>b
<1> HIDE DEF Goal
<1>c. \A target \in UnitState, actor \in Actor : Transition(u, target, actor) => Goal
  BY <1>3, <1>a
<1>d. \A p \in Envelopes(u), clean \in BOOLEAN : StartRun(u, p, clean) => Goal
  BY <1>6, <1>a
<1>e. \A passed \in BOOLEAN : RecordVerification(u, passed) => Goal
  BY <1>8, <1>a
<1>f. \A i \in DOMAIN runs[u], clean \in BOOLEAN : RecordReview(u, i, clean) => Goal
  BY <1>9, <1>a
<1>g. Create(u) => Goal
  BY <1>1, <1>a DEF Create, Enter, Known, Underway
<1>h. /\ \A kind \in Kind, agent \in Agent : Dispatch(u, kind, agent) => Goal
      /\ \A i \in DOMAIN runs[u], outcome \in {"succeeded", "failed"} :
            FinishRun(u, i, outcome) => Goal
  BY <1>5, <1>7, <1>b
<1>j. \A target \in UnitState : ManualOverride(u, target) => Goal
  BY <1>4, <1>a
<1>i. Goal
  BY <1>j, <1>c, <1>d, <1>e, <1>f, <1>g, <1>h, Cases
<1> QED BY <1>i DEF Goal

LEMMA DependenciesNext == CodeInv /\ DependenciesFirst /\ [Next]_vars => DependenciesFirst'
<1> SUFFICES ASSUME CodeInv, DependenciesFirst, [Next]_vars,
                    NEW v \in Unit \ Overrides, state'[v] \in Underway
             PROVE  \A d \in DependsOn[v] : state'[d] = "merged"
  BY DEF DependenciesFirst, DependenciesMerged
<1>1. \A d \in DependsOn[v] : d \in Unit
  BY UnitAssumption
<1>2. CASE UNCHANGED vars
  BY <1>2 DEF vars, DependenciesFirst, DependenciesMerged
<1>3. ASSUME NEW u \in Unit, Step(u)
      PROVE  \A d \in DependsOn[v] : state'[d] = "merged"
  <2>1. \A d \in Unit : state[d] = "merged" => state'[d] = "merged"
    BY <1>3, Moves
  <2>2. DependenciesMerged(v)
    <3>1. CASE state[v] \in Underway
      BY <3>1 DEF DependenciesFirst
    <3>2. CASE state[v] \notin Underway
      BY <1>3, <3>2, Moves
    <3> QED BY <3>1, <3>2
  <2> QED BY <1>1, <2>1, <2>2 DEF DependenciesMerged
<1> QED BY <1>2, <1>3 DEF Next

\* Work that depends on a unit never starts before that unit is merged.
THEOREM DependenciesMergedFirst == Spec => []DependenciesFirst
<1>1. Init => DependenciesFirst
  BY DEF Init, DependenciesFirst, Underway
<1> QED BY <1>1, DependenciesNext, CodeAlways, PTL DEF Spec

-----------------------------------------------------------------------------
(* Reviews after repairs.                                                  *)

Seen(u) ==
    \A k \in DOMAIN runs[u] : runs[u][k].kind = "repair" => ApprovedSince(u, k)

\* Review i found nothing, and is stamped with the current cycle.
Current(u, i) ==
    runs[u][i].kind = "review" /\ runs[u][i].clean /\ runs[u][i].cycle = repairs[u]

\* Such a review has seen every repair.
LEMMA CurrentReview ==
    ASSUME RepairInv, NEW u \in Unit, NEW i \in DOMAIN runs[u], Current(u, i)
    PROVE  \A k \in DOMAIN runs[u] :
              runs[u][k].kind = "repair" => k <= runs[u][i].code
<1> SUFFICES ASSUME NEW k \in DOMAIN runs[u], runs[u][k].kind = "repair"
             PROVE  k <= runs[u][i].code
  OBVIOUS
<1>1. Numbered(runs[u], repairs[u]) /\ CodeInv
  BY DEF RepairInv
<1>2. Repair(runs[u], k) /\ runs[u][k].cycle <= runs[u][i].cycle
  BY <1>1 DEF Repair, Numbered, Current
<1> QED BY <1>1, <1>2 DEF Numbered, Current

LEMMA CurrentSeen ==
    ASSUME RepairInv, NEW u \in Unit, NEW i \in DOMAIN runs[u], Current(u, i)
    PROVE  Seen(u)
<1> SUFFICES ASSUME NEW k \in DOMAIN runs[u], runs[u][k].kind = "repair"
             PROVE  runs[u][i].code >= k
  BY DEF Seen, ApprovedSince, Current
<1>1. CodeInv
  BY DEF RepairInv
<1>2. runs[u][i] \in Run /\ k \in Nat
  BY <1>1, CodeFacts
<1>3. runs[u][i].code \in Nat
  BY <1>2, BudgetAssumption DEF Run
<1> QED BY <1>2, <1>3, CurrentReview

\* How a unit comes to be offered for merging in an attested pipeline.
LEMMA Offers ==
    ASSUME RepairInv, NEW u \in Unit \ Overrides, u \in Attested, Step(u),
           state'[u] \in {"ready-for-human-merge", "merged"}
    PROVE  \/ /\ Offered(u)
              /\ \/ UNCHANGED runs
                 \/ \E i \in DOMAIN runs[u], outcome \in {"succeeded", "failed"} :
                       FinishRun(u, i, outcome)
           \/ (\E i \in DOMAIN runs[u] : Current(u, i)) /\ UNCHANGED runs
<1>1. CodeInv /\ u \in DOMAIN state /\ state[u] \in State
  BY DEF RepairInv, CodeInv, TypeOK
<1>2. ~Create(u)
  BY <1>1 DEF Create, Enter
<1>3. ASSUME NEW target \in UnitState, NEW actor \in Actor, Transition(u, target, actor)
      PROVE  Offered(u) /\ UNCHANGED runs
  <2>1. /\ <<state[u], target>> \in Edges /\ target \notin VerdictEdges(state[u])
        /\ target = state'[u] /\ UNCHANGED runs
    BY <1>1, <1>3 DEF Transition, Allowed, Enter
  <2>2. target = "ready-for-human-merge" => state[u] \in {"reviewing", "re-reviewing"}
    BY <2>1 DEF Edges, UnitState, Underway, Terminal, Abort
  <2>3. target = "merged" => state[u] = "ready-for-human-merge"
    BY <2>1 DEF Edges, UnitState, Underway, Terminal, Abort
  <2>4. state[u] \in {"reviewing", "re-reviewing"} =>
           "ready-for-human-merge" \in VerdictEdges(state[u])
    BY DEF VerdictEdges
  <2> QED BY <2>1, <2>2, <2>3, <2>4 DEF Offered
<1>4. \A target \in UnitState : ~ManualOverride(u, target)
  BY DEF ManualOverride
<1>5. ASSUME NEW kind \in Kind, NEW agent \in Agent, Dispatch(u, kind, agent)
      PROVE  Offered(u) /\ UNCHANGED runs
  BY <1>5 DEF Dispatch, Offered
<1>6. ASSUME NEW p \in Envelopes(u), NEW clean \in BOOLEAN, StartRun(u, p, clean)
      PROVE  FALSE
  <2>1. p.kind \in Kind
    BY <1>1, EnvelopeCode DEF Packet
  <2>2. /\ state'[u] = StartState(p.kind, state[u])
        /\ p.kind = "review" => state[u] \in {"reviewing", "re-reviewing"}
    BY <1>1, <1>6 DEF StartRun, MayStart
  <2> QED BY <2>1, <2>2 DEF StartState, Kind, Exclusive
<1>7. ASSUME NEW i \in DOMAIN runs[u], NEW outcome \in {"succeeded", "failed"},
             FinishRun(u, i, outcome)
      PROVE  Offered(u)
  BY <1>7 DEF FinishRun, Offered
<1>8. \A passed \in BOOLEAN : ~RecordVerification(u, passed)
  BY <1>1, VerdictMoves DEF RecordVerification, Enter
<1>9. ASSUME NEW i \in DOMAIN runs[u], NEW clean \in BOOLEAN, RecordReview(u, i, clean)
      PROVE  Current(u, i) /\ UNCHANGED runs
  <2>1. /\ runs[u][i].kind = "review" /\ runs[u][i].cycle = repairs[u]
        /\ runs[u][i].clean = clean /\ UNCHANGED runs
        /\ state'[u] = IF clean THEN "ready-for-human-merge" ELSE Repairable(u)
    BY <1>1, <1>9 DEF RecordReview, Signed, Enter
  <2>2. clean
    BY <2>1, VerdictMoves
  <2> QED BY <2>1, <2>2 DEF Current
<1> QED BY <1>2, <1>3, <1>4, <1>5, <1>6, <1>7, <1>8, <1>9, Cases

\* A step of one unit records nothing on another.
LEMMA Others ==
    ASSUME CodeInv, NEW u \in Unit, Step(u), NEW v \in Unit, v # u
    PROVE  runs'[v] = runs[v]
<1>1. \A p \in Envelopes(u), clean \in BOOLEAN : StartRun(u, p, clean) => runs'[v] = runs[v]
  BY DEF StartRun, CodeInv, TypeOK
<1>2. \A i \in DOMAIN runs[u], outcome \in {"succeeded", "failed"} :
         FinishRun(u, i, outcome) => runs'[v] = runs[v]
  BY DEF FinishRun, CodeInv, TypeOK
<1>3. \A target \in UnitState, actor \in Actor : Transition(u, target, actor) => UNCHANGED runs
  BY DEF Transition
<1>4. \A target \in UnitState : ManualOverride(u, target) => UNCHANGED runs
  BY DEF ManualOverride
<1>5. \A kind \in Kind, agent \in Agent : Dispatch(u, kind, agent) => UNCHANGED runs
  BY DEF Dispatch
<1>6. \A passed \in BOOLEAN : RecordVerification(u, passed) => UNCHANGED runs
  BY DEF RecordVerification
<1>7. \A i \in DOMAIN runs[u], clean \in BOOLEAN : RecordReview(u, i, clean) => UNCHANGED runs
  BY DEF RecordReview
<1>8. Create(u) => UNCHANGED runs
  BY DEF Create
<1> QED BY <1>1, <1>2, <1>3, <1>4, <1>5, <1>6, <1>7, <1>8, Cases

LEMMA FinishSeen ==
    ASSUME CodeInv, NEW u \in Unit, Seen(u), NEW i \in DOMAIN runs[u],
           NEW outcome \in {"succeeded", "failed"}, FinishRun(u, i, outcome)
    PROVE  Seen(u)'
<1> DEFINE fs == [runs[u] EXCEPT ![i] = Finished(runs[u][i], outcome)]
<1>1. /\ DOMAIN fs = DOMAIN runs[u]
      /\ \A k \in DOMAIN runs[u] : k # i => fs[k] = runs[u][k]
      /\ fs[i] = Finished(runs[u][i], outcome)
  BY CodeFacts, FinishNewest
<1>2. runs'[u] = fs
  BY DEF FinishRun, CodeInv, TypeOK
<1> HIDE DEF fs
<1>3. \A k \in DOMAIN runs[u] :
         /\ runs'[u][k].kind = runs[u][k].kind
         /\ runs'[u][k].clean = runs[u][k].clean
         /\ runs'[u][k].code = runs[u][k].code
  BY <1>1, <1>2 DEF Finished
<1>4. DOMAIN runs'[u] = DOMAIN runs[u]
  BY <1>1, <1>2
<1> QED BY <1>3, <1>4 DEF Seen, ApprovedSince

LEMMA FreshNext == RepairInv /\ FreshReview /\ [Next]_vars => FreshReview'
<1> SUFFICES ASSUME RepairInv, FreshReview, [Next]_vars,
                    NEW v \in Unit \ Overrides, v \in Attested, Offered(v)'
             PROVE  Seen(v)'
  BY PipelineAssumption DEF FreshReview, Seen
<1>1. Offered(v) => Seen(v)
  BY DEF FreshReview, Seen
<1>2. CASE UNCHANGED vars
  BY <1>1, <1>2 DEF vars, Offered, Seen, ApprovedSince
<1>3. ASSUME NEW u \in Unit, Step(u) PROVE Seen(v)'
  <2>1. CodeInv
    BY DEF RepairInv
  <2>2. CASE u = v
    <3>1. state'[u] \in {"ready-for-human-merge", "merged"}
      BY <2>2 DEF Offered
    <3>2. ASSUME NEW i \in DOMAIN runs[u], Current(u, i), UNCHANGED runs PROVE Seen(v)'
      BY <2>2, <3>2, CurrentSeen DEF Seen, ApprovedSince
    <3>4. ASSUME Offered(u), UNCHANGED runs PROVE Seen(v)'
      BY <1>1, <2>2, <3>4 DEF Seen, ApprovedSince
    <3>3. ASSUME NEW i \in DOMAIN runs[u], NEW outcome \in {"succeeded", "failed"},
                 FinishRun(u, i, outcome), Offered(u)
          PROVE  Seen(v)'
      BY <1>1, <2>1, <2>2, <3>3, FinishSeen
    <3> QED BY <1>3, <2>2, <3>1, <3>2, <3>3, <3>4, Offers
  <2>3. CASE u # v
    <3>1. runs'[v] = runs[v]
      BY <1>3, <2>1, <2>3, Others
    <3>2. state'[v] = state[v]
      BY <1>3, <2>1, <2>3, Moves
    <3> QED BY <1>1, <3>1, <3>2 DEF Offered, Seen, ApprovedSince
  <2> QED BY <2>2, <2>3
<1> QED BY <1>2, <1>3 DEF Next

\* In an attested pipeline nothing is offered for merging on a review that has
\* not seen the unit's last repair.
THEOREM ReviewedAfterRepair == Spec => []FreshReview
<1>1. Init => FreshReview
  BY PipelineAssumption DEF Init, FreshReview, Offered
<1> QED BY <1>1, FreshNext, RepairAlways, PTL DEF Spec

-----------------------------------------------------------------------------
(* What the reviewers of an attested pipeline have judged.                 *)

Implemented(rs) == \E j \in DOMAIN rs : rs[j].kind = "implementation"

\* An agent may review what the runs have produced so far: the code is there,
\* passes its gates, and none of it is the agent's.
Fit(rs, agent) ==
    /\ CodeOf(rs) \in DOMAIN rs /\ rs[CodeOf(rs)].kind \in Exclusive /\ rs[CodeOf(rs)].clean
    /\ \A j \in DOMAIN rs : rs[j].kind \in Exclusive => rs[j].agent # agent

\* Review i was about code that passed its gates, was made by others and goes
\* back to an implementation.
Independent(rs, i) ==
    LET c == rs[i].code IN
    /\ c \in DOMAIN rs /\ rs[c].kind \in Exclusive /\ rs[c].clean
    /\ \A j \in DOMAIN rs : j <= c /\ rs[j].kind \in Exclusive => rs[j].agent # rs[i].agent
    /\ \E j \in DOMAIN rs : j <= c /\ rs[j].kind = "implementation"

\* Code comes of an implementation first, and every review is independent.
Reviewed(rs) ==
    /\ \A k \in DOMAIN rs : rs[k].kind \in Exclusive => Implemented(rs)
    /\ \A i \in DOMAIN rs : rs[i].kind = "review" => Independent(rs, i)

\* The states beyond the first verdict.
Judging == {"reviewing", "repair-needed", "repairing", "re-reviewing",
            "ready-for-human-merge", "merged"}

UnitReviewed(u) ==
    /\ Reviewed(runs[u])
    /\ state[u] \in Judging => Implemented(runs[u])
    /\ \A p \in packets[u] : p.fresh /\ p.kind = "review" => Fit(runs[u], p.agent)

ReviewInv == \A u \in Unit \ Overrides : u \in Attested => UnitReviewed(u)

LEMMA AppendReviewed ==
    ASSUME NEW rs \in Seq(Run), Newest(rs), Reviewed(rs), NEW r \in Run,
           r.kind = "repair" => Implemented(rs),
           r.kind = "review" => Fit(rs, r.agent) /\ r.code = CodeOf(rs)
    PROVE  Reviewed(Append(rs, r))
<1> DEFINE ap == Append(rs, r)
           n == Len(rs) + 1
<1>1. /\ \A k \in 1 .. Len(rs) : ap[k] = rs[k]
      /\ ap[n] = r
      /\ Len(rs) \in Nat
      /\ DOMAIN ap = 1 .. n
      /\ DOMAIN rs = 1 .. Len(rs)
  BY AppendProperties
<1> HIDE DEF ap
<1>2. \A k \in DOMAIN ap : (k \in DOMAIN rs /\ ap[k] = rs[k]) \/ (k = n /\ ap[k] = r)
  BY <1>1
<1>3. \A k \in DOMAIN rs : k \in DOMAIN ap /\ ap[k] = rs[k]
  BY <1>1
<1>4. Implemented(rs) \/ r.kind = "implementation" => Implemented(ap)
  BY <1>1, <1>3 DEF Implemented
<1>5. \A k \in DOMAIN ap : ap[k].kind \in Exclusive => Implemented(ap)
  BY <1>2, <1>4 DEF Reviewed, Exclusive
<1>6. ASSUME NEW i \in DOMAIN rs, rs[i].kind = "review"
      PROVE  Independent(ap, i)
  <2>1. Independent(rs, i)
    BY <1>6 DEF Reviewed
  <2>2. \A j \in DOMAIN ap : j <= rs[i].code => j \in DOMAIN rs
    BY <1>1, <2>1 DEF Independent
  <2> QED BY <1>3, <2>1, <2>2 DEF Independent
<1>7. ASSUME r.kind = "review"
      PROVE  Independent(ap, n)
  <2>1. Fit(rs, r.agent) /\ r.code = CodeOf(rs)
    BY <1>7
  <2>2. /\ CodeOf(rs) \in DOMAIN rs /\ CodeOf(rs) \in DOMAIN ap
        /\ ap[CodeOf(rs)] = rs[CodeOf(rs)] /\ rs[CodeOf(rs)].kind \in Exclusive
        /\ rs[CodeOf(rs)].clean
    BY <1>3, <2>1 DEF Fit
  <2>3. \A j \in DOMAIN ap : j <= CodeOf(rs) => j \in DOMAIN rs
    BY <1>1, <2>2
  <2>4. \A j \in DOMAIN ap : j <= CodeOf(rs) /\ ap[j].kind \in Exclusive => ap[j].agent # r.agent
    BY <1>3, <2>1, <2>3 DEF Fit
  <2>5. PICK j \in DOMAIN rs : rs[j].kind = "implementation"
    BY <2>2 DEF Reviewed, Implemented
  <2>6. j <= CodeOf(rs) /\ j \in DOMAIN ap /\ ap[j].kind = "implementation"
    BY <1>3, <2>5 DEF Newest, Exclusive
  <2> QED BY <1>1, <2>1, <2>2, <2>4, <2>6 DEF Independent
<1> QED BY <1>1, <1>2, <1>5, <1>6, <1>7 DEF Reviewed, ap

\* What was judged depends on the kinds, agents, codes and verdicts of the runs
\* alone, which no later step changes.
LEMMA SameReviewed ==
    ASSUME NEW rs, NEW fs, DOMAIN fs = DOMAIN rs,
           \A k \in DOMAIN rs : /\ fs[k].kind = rs[k].kind /\ fs[k].code = rs[k].code
                                /\ fs[k].agent = rs[k].agent /\ fs[k].clean = rs[k].clean
    PROVE  /\ Reviewed(rs) => Reviewed(fs)
           /\ Implemented(rs) => Implemented(fs)
<1>1. Implemented(rs) <=> Implemented(fs)
  BY DEF Implemented
<1>2. \A i \in DOMAIN rs : Independent(rs, i) => Independent(fs, i)
  BY DEF Independent
<1> QED BY <1>1, <1>2 DEF Reviewed

\* A step of one unit leaves the envelopes of another.
LEMMA OtherPackets ==
    ASSUME CodeInv, NEW u \in Unit, Step(u), NEW v \in Unit, v # u
    PROVE  packets'[v] = packets[v]
<1> DEFINE Goal == packets'[v] = packets[v]
<1>1. packets \in [Unit -> SUBSET Packet]
  BY DEF CodeInv, TypeOK
<1>2. Advanced(u) => Goal
  BY <1>1 DEF Advanced
<1>3. \A p \in Envelopes(u), clean \in BOOLEAN : StartRun(u, p, clean) => Goal
  BY <1>1 DEF StartRun
<1>4. \A kind \in Kind, agent \in Agent : Dispatch(u, kind, agent) => Goal
  BY <1>1 DEF Dispatch
<1>5. Create(u) => Goal
  BY DEF Create
<1>6. \A i \in DOMAIN runs[u], outcome \in {"succeeded", "failed"} :
         FinishRun(u, i, outcome) => Advanced(u)
  BY DEF FinishRun
<1>7. /\ \A target \in UnitState, actor \in Actor : Transition(u, target, actor) => Advanced(u)
      /\ \A target \in UnitState : ManualOverride(u, target) => Advanced(u)
  BY DEF Transition, ManualOverride
<1>8. /\ \A passed \in BOOLEAN : RecordVerification(u, passed) => Advanced(u)
      /\ \A i \in DOMAIN runs[u], clean \in BOOLEAN : RecordReview(u, i, clean) => Advanced(u)
  BY DEF RecordVerification, RecordReview
<1> HIDE DEF Goal
<1>9. Goal
  BY <1>2, <1>3, <1>4, <1>5, <1>6, <1>7, <1>8, Cases
<1> QED BY <1>9 DEF Goal

\* Envelopes are as they were, or stale.
LEMMA MoveReviewed ==
    ASSUME CodeInv, NEW u \in Unit, UnitReviewed(u), runs'[u] = runs[u],
           packets'[u] = packets[u] \/ Advanced(u),
           state'[u] \in Judging => state[u] \in Judging \/ Implemented(runs[u])
    PROVE  UnitReviewed(u)'
<1>1. \A p \in packets'[u] : p.fresh => p \in packets[u]
  <2>1. CASE packets'[u] = packets[u]
    BY <2>1
  <2>2. CASE Advanced(u)
    <3> DEFINE ps == {Stale(p) : p \in packets[u]}
    <3>1. packets'[u] = ps
      BY <2>2 DEF Advanced, CodeInv, TypeOK
    <3>2. \A p \in ps : ~p.fresh
      BY CodeFacts, StalePackets
    <3> QED BY <3>1, <3>2
  <2> QED BY <2>1, <2>2
<1>2. /\ Reviewed(runs[u])' = Reviewed(runs[u])
      /\ Implemented(runs[u])' = Implemented(runs[u])
      /\ \A agent : Fit(runs[u], agent)' = Fit(runs[u], agent)
  BY DEF Reviewed, Independent, Implemented, Fit, CodeOf
<1> QED BY <1>1, <1>2 DEF UnitReviewed

\* A unit moves on past its first verdict only on a verdict that was signed for
\* code it has.
LEMMA JudgedMoves ==
    ASSUME CodeInv, NEW u \in Unit \ Overrides, u \in Attested, UnitReviewed(u),
           Step(u), UNCHANGED runs, state'[u] \in Judging
    PROVE  state[u] \in Judging \/ Implemented(runs[u])
<1>1. u \in DOMAIN state /\ state[u] \in State
  BY DEF CodeInv, TypeOK
<1>2. ASSUME NEW target \in UnitState, NEW actor \in Actor, Transition(u, target, actor)
      PROVE  state[u] \in Judging
  <2>1. /\ <<state[u], target>> \in Edges /\ target \notin VerdictEdges(state[u])
        /\ target = state'[u]
    BY <1>1, <1>2 DEF Transition, Allowed, Enter
  <2>2. target \in Judging => state[u] \in Judging \/ state[u] = "verifying"
    BY <2>1 DEF Edges, UnitState, Underway, Terminal, Abort, Judging
  <2>3. state[u] = "verifying" => target \notin Judging
    BY <2>1 DEF Edges, UnitState, Underway, Terminal, Abort, Judging, VerdictEdges
  <2> QED BY <2>1, <2>2, <2>3
<1>3. ASSUME NEW passed \in BOOLEAN, RecordVerification(u, passed)
      PROVE  Implemented(runs[u])
  <2>1. Latest(runs[u]) \in DOMAIN runs[u] /\ Latest(runs[u]) = CodeOf(runs[u])
    BY <1>3, CodeFacts DEF RecordVerification, Signed
  <2>2. CodeOf(runs[u]) # 0
    BY <2>1, CodeFacts
  <2>3. runs[u][CodeOf(runs[u])].kind \in Exclusive
    BY <2>2, CodeFacts DEF Newest
  <2> QED BY <2>1, <2>3 DEF UnitReviewed, Reviewed
<1>4. \A i \in DOMAIN runs[u], clean \in BOOLEAN : RecordReview(u, i, clean) => state[u] \in Judging
  BY DEF RecordReview, Judging
<1>5. ~Create(u)
  BY <1>1 DEF Create, Enter, Judging
<1>6. \A target \in UnitState : ~ManualOverride(u, target)
  BY DEF ManualOverride
<1>7. \A kind \in Kind, agent \in Agent : Dispatch(u, kind, agent) => state[u] \in Judging
  BY DEF Dispatch
<1>8. ASSUME NEW p \in Envelopes(u), NEW clean \in BOOLEAN, StartRun(u, p, clean)
      PROVE  state[u] \in Judging
  BY <1>1, <1>8 DEF StartRun, StartState, MayStart, Judging, Exclusive
<1>9. \A i \in DOMAIN runs[u], outcome \in {"succeeded", "failed"} :
         FinishRun(u, i, outcome) => state[u] \in Judging
  BY DEF FinishRun
<1> QED BY <1>2, <1>3, <1>4, <1>5, <1>6, <1>7, <1>8, <1>9, Cases

LEMMA DispatchReviewed ==
    ASSUME CodeInv, NEW u \in Unit, UnitReviewed(u),
           NEW kind \in Kind, NEW agent \in Agent, Dispatch(u, kind, agent)
    PROVE  UnitReviewed(u)'
<1> DEFINE latest == Latest(runs[u])
           p == [kind |-> kind, agent |-> agent, code |-> latest, fresh |-> TRUE]
<1>1. latest = CodeOf(runs[u]) /\ latest \in 0 .. MaxRuns /\ Newest(runs[u])
  BY CodeFacts
<1>2. packets'[u] = {p}
  BY DEF Dispatch, CodeInv, TypeOK
<1>3. kind = "review" => /\ latest # 0 /\ runs[u][latest].clean
                         /\ agent \notin Producers(runs[u])
  BY DEF Dispatch
<1>4. kind = "review" => Fit(runs[u], agent)
  BY <1>1, <1>3 DEF Fit, Newest, Producers, Producing
<1>5. UNCHANGED <<state, runs>>
  BY DEF Dispatch
<1>6. /\ Reviewed(runs[u])' = Reviewed(runs[u])
      /\ Implemented(runs[u])' = Implemented(runs[u])
      /\ \A a : Fit(runs[u], a)' = Fit(runs[u], a)
  BY <1>5 DEF Reviewed, Independent, Implemented, Fit, CodeOf
<1>7. \A q \in packets'[u] : q.kind = "review" => Fit(runs[u], q.agent)
  BY <1>2, <1>4
<1> QED BY <1>5, <1>6, <1>7 DEF UnitReviewed

LEMMA StartReviewed ==
    ASSUME CodeInv, NEW u \in Unit, u \in Attested, UnitReviewed(u),
           NEW p \in Envelopes(u), NEW clean \in BOOLEAN, StartRun(u, p, clean)
    PROVE  UnitReviewed(u)'
<1> DEFINE r == NewRun(u, p, clean)
           rs == Append(runs[u], r)
<1>1. /\ r \in Run /\ p \in Packet /\ p.code = CodeOf(runs[u])
      /\ runs[u] \in Seq(Run) /\ Newest(runs[u])
  BY StartRunCode, EnvelopeCode, CodeFacts
<1>2. p \in packets[u] /\ p.fresh
  BY DEF Envelopes
<1>3. /\ runs'[u] = rs /\ packets'[u] = {}
      /\ state'[u] = StartState(p.kind, state[u]) /\ MayStart(u, p.kind)
  BY DEF StartRun, CodeInv, TypeOK
<1>4. r.kind = p.kind /\ r.agent = p.agent /\ (p.kind = "review" => r.code = p.code)
  BY DEF NewRun, Exclusive
<1> HIDE DEF r
<1>5. r.kind = "repair" => Implemented(runs[u])
  BY <1>3, <1>4 DEF MayStart, UnitReviewed, Judging
<1>6. r.kind = "review" => Fit(runs[u], r.agent) /\ r.code = CodeOf(runs[u])
  BY <1>1, <1>2, <1>4 DEF UnitReviewed
<1>7. Reviewed(rs)
  BY <1>1, <1>5, <1>6, AppendReviewed DEF UnitReviewed
<1>8. state'[u] \in Judging => Implemented(rs)
  <2>1. state'[u] \in Judging => Implemented(runs[u])
    BY <1>3, <1>4, <1>5 DEF StartState, Judging, UnitReviewed
  <2>2. Implemented(runs[u]) => Implemented(rs)
    BY <1>1, AppendProperties DEF Implemented
  <2> QED BY <2>1, <2>2
<1> HIDE DEF rs
<1>9. Reviewed(runs[u])' = Reviewed(rs) /\ Implemented(runs[u])' = Implemented(rs)
  BY <1>3 DEF Reviewed, Independent, Implemented
<1> QED BY <1>3, <1>7, <1>8, <1>9 DEF UnitReviewed

LEMMA FinishReviewed ==
    ASSUME CodeInv, NEW u \in Unit, UnitReviewed(u), NEW i \in DOMAIN runs[u],
           NEW outcome \in {"succeeded", "failed"}, FinishRun(u, i, outcome)
    PROVE  UnitReviewed(u)'
<1> DEFINE fs == [runs[u] EXCEPT ![i] = Finished(runs[u][i], outcome)]
           ps == {Stale(p) : p \in packets[u]}
<1>1. /\ DOMAIN fs = DOMAIN runs[u]
      /\ \A k \in DOMAIN runs[u] : k # i => fs[k] = runs[u][k]
      /\ fs[i] = Finished(runs[u][i], outcome)
  BY CodeFacts, FinishNewest
<1>2. runs'[u] = fs /\ packets'[u] = ps /\ UNCHANGED state
  BY DEF FinishRun, Advanced, CodeInv, TypeOK
<1>3. \A p \in ps : ~p.fresh
  BY CodeFacts, StalePackets
<1> HIDE DEF fs, ps
<1>4. \A k \in DOMAIN runs[u] :
         /\ fs[k].kind = runs[u][k].kind /\ fs[k].code = runs[u][k].code
         /\ fs[k].agent = runs[u][k].agent /\ fs[k].clean = runs[u][k].clean
  BY <1>1 DEF Finished
<1>5. /\ Reviewed(runs[u]) => Reviewed(fs)
      /\ Implemented(runs[u]) => Implemented(fs)
  BY <1>1, <1>4, SameReviewed
<1>6. Reviewed(runs[u])' = Reviewed(fs) /\ Implemented(runs[u])' = Implemented(fs)
  BY <1>2 DEF Reviewed, Independent, Implemented
<1> QED BY <1>2, <1>3, <1>5, <1>6 DEF UnitReviewed

LEMMA ReviewNext == CodeInv /\ ReviewInv /\ [Next]_vars => ReviewInv'
<1> SUFFICES ASSUME CodeInv, ReviewInv, [Next]_vars, NEW v \in Unit \ Overrides, v \in Attested
             PROVE  UnitReviewed(v)'
  BY DEF ReviewInv
<1>1. UnitReviewed(v)
  BY DEF ReviewInv
<1>2. ASSUME state'[v] = state[v], runs'[v] = runs[v], packets'[v] = packets[v]
      PROVE  UnitReviewed(v)'
  BY <1>1, <1>2, MoveReviewed
<1>3. CASE UNCHANGED vars
  BY <1>2, <1>3 DEF vars
<1>4. ASSUME NEW u \in Unit, Step(u), u # v PROVE UnitReviewed(v)'
  BY <1>2, <1>4, Others, OtherPackets, Moves
<1>5. CASE Step(v)
  <2>1. ASSUME UNCHANGED runs, packets'[v] = packets[v] \/ Advanced(v)
        PROVE  UnitReviewed(v)'
    BY <1>1, <1>5, <2>1, JudgedMoves, MoveReviewed
  <2>2. /\ \A kind \in Kind, agent \in Agent : Dispatch(v, kind, agent) => UnitReviewed(v)'
        /\ \A p \in Envelopes(v), clean \in BOOLEAN : StartRun(v, p, clean) => UnitReviewed(v)'
        /\ \A i \in DOMAIN runs[v], outcome \in {"succeeded", "failed"} :
              FinishRun(v, i, outcome) => UnitReviewed(v)'
    BY <1>1, DispatchReviewed, StartReviewed, FinishReviewed
  <2>3. Create(v) => UnitReviewed(v)'
    BY <2>1 DEF Create
  <2>4. /\ \A target \in UnitState, actor \in Actor : Transition(v, target, actor) => UnitReviewed(v)'
        /\ \A target \in UnitState : ManualOverride(v, target) => UnitReviewed(v)'
    BY <2>1 DEF Transition, ManualOverride
  <2>5. /\ \A passed \in BOOLEAN : RecordVerification(v, passed) => UnitReviewed(v)'
        /\ \A i \in DOMAIN runs[v], clean \in BOOLEAN :
              RecordReview(v, i, clean) => UnitReviewed(v)'
    BY <2>1 DEF RecordVerification, RecordReview
  <2> QED BY <1>5, <2>2, <2>3, <2>4, <2>5, Cases
<1> QED BY <1>3, <1>4, <1>5 DEF Next

LEMMA ReviewAlways == Spec => []ReviewInv
<1>1. Init => ReviewInv
  BY DEF Init, ReviewInv, UnitReviewed, Reviewed, Judging
<1> QED BY <1>1, ReviewNext, CodeAlways, PTL DEF Spec

-----------------------------------------------------------------------------
(* What is offered for merging.                                            *)

\* Nothing was produced after a clean review that bears the current cycle: no
\* repair, which would have opened another, and no second implementation.
LEMMA CurrentApproves ==
    ASSUME RepairInv, NEW u \in Unit, UnitReviewed(u), ImplementedOnce(u),
           NEW i \in DOMAIN runs[u], Current(u, i)
    PROVE  Approved(u)
<1> DEFINE rs == runs[u]
           c == rs[i].code
<1>1. CodeInv /\ rs \in Seq(Run) /\ Newest(rs) /\ Latest(rs) = CodeOf(rs)
  BY CodeFacts DEF RepairInv
<1>2. Independent(rs, i) /\ rs[i].kind = "review" /\ rs[i].clean
  BY DEF UnitReviewed, Reviewed, Current
<1>3. \A k \in DOMAIN rs : rs[k].kind \in Exclusive => k <= c
  <2> SUFFICES ASSUME NEW k \in DOMAIN rs, rs[k].kind \in Exclusive PROVE k <= c
    OBVIOUS
  <2>1. CASE rs[k].kind = "repair"
    BY <2>1, CurrentReview
  <2>2. CASE rs[k].kind = "implementation"
    BY <1>2, <2>2 DEF Independent, ImplementedOnce
  <2> QED BY <2>1, <2>2 DEF Exclusive
<1>4. c \in DOMAIN rs /\ rs[c].kind \in Exclusive
  BY <1>2 DEF Independent
<1>5. CodeOf(rs) = c
  BY <1>1, <1>3, <1>4 DEF Newest
<1>6. rs[i].agent \notin Producers(rs)
  BY <1>2, <1>3 DEF Independent, Producers, Producing
<1> QED BY <1>1, <1>2, <1>5, <1>6 DEF Approved

LEMMA FinishApproved ==
    ASSUME CodeInv, NEW u \in Unit, NEW i \in DOMAIN runs[u],
           NEW outcome \in {"succeeded", "failed"}, FinishRun(u, i, outcome)
    PROVE  /\ ImplementedOnce(u)' => ImplementedOnce(u)
           /\ Approved(u) => Approved(u)'
<1> DEFINE fs == [runs[u] EXCEPT ![i] = Finished(runs[u][i], outcome)]
<1>1. /\ DOMAIN fs = DOMAIN runs[u] /\ fs \in Seq(Run)
      /\ \A k \in DOMAIN runs[u] : k # i => fs[k] = runs[u][k]
      /\ fs[i] = Finished(runs[u][i], outcome)
      /\ Newest(fs) /\ CodeOf(fs) = CodeOf(runs[u])
  BY CodeFacts, FinishNewest
<1>2. runs'[u] = fs
  BY DEF FinishRun, CodeInv, TypeOK
<1> HIDE DEF fs
<1>3. \A k \in DOMAIN runs[u] :
         /\ fs[k].kind = runs[u][k].kind /\ fs[k].code = runs[u][k].code
         /\ fs[k].agent = runs[u][k].agent /\ fs[k].clean = runs[u][k].clean
  BY <1>1 DEF Finished
<1>4. Latest(fs) = Latest(runs[u])
  BY <1>1, CodeFacts, LatestIs
<1>5. Producers(fs) = Producers(runs[u])
  BY <1>1, <1>3 DEF Producers, Producing
<1>6. Latest(runs'[u]) = Latest(runs[u]) /\ Producers(runs'[u]) = Producers(runs[u])
  BY <1>2, <1>4, <1>5
<1>7. ImplementedOnce(u)' => ImplementedOnce(u)
  BY <1>1, <1>2, <1>3 DEF ImplementedOnce
<1>8. Approved(u) => Approved(u)'
  BY <1>1, <1>2, <1>3, <1>6 DEF Approved
<1> QED BY <1>7, <1>8

LEMMA ApprovedNext ==
    RepairInv /\ ReviewInv /\ ApprovedOnce /\ [Next]_vars => ApprovedOnce'
<1> SUFFICES ASSUME RepairInv, ReviewInv, ApprovedOnce, [Next]_vars,
                    NEW v \in Unit \ Overrides, v \in Attested, Offered(v)', ImplementedOnce(v)'
             PROVE  Approved(v)'
  BY PipelineAssumption DEF ApprovedOnce
<1>1. CodeInv /\ UnitReviewed(v) /\ (Offered(v) /\ ImplementedOnce(v) => Approved(v))
  BY DEF RepairInv, ReviewInv, ApprovedOnce
<1>a. ASSUME runs'[v] = runs[v]
      PROVE  (Approved(v) => Approved(v)') /\ ImplementedOnce(v)
  <2>1. ImplementedOnce(v)
    BY <1>a DEF ImplementedOnce
  <2>2. Latest(runs'[v]) = Latest(runs[v]) /\ Producers(runs'[v]) = Producers(runs[v])
    BY <1>a
  <2> QED BY <1>a, <2>1, <2>2 DEF Approved
<1>2. ASSUME runs'[v] = runs[v], Offered(v) PROVE Approved(v)'
  BY <1>1, <1>2, <1>a
<1>3. CASE UNCHANGED vars
  BY <1>2, <1>3 DEF vars, Offered
<1>4. ASSUME NEW u \in Unit, Step(u), u # v PROVE Approved(v)'
  <2>1. runs'[v] = runs[v] /\ state'[v] = state[v]
    BY <1>1, <1>4, Others, Moves
  <2> QED BY <1>2, <2>1 DEF Offered
<1>5. CASE Step(v)
  <2>1. state'[v] \in {"ready-for-human-merge", "merged"}
    BY DEF Offered
  <2>2. ASSUME NEW i \in DOMAIN runs[v], Current(v, i), UNCHANGED runs PROVE Approved(v)'
    <3>1. Approved(v)
      BY <1>1, <1>a, <2>2, CurrentApproves
    <3> QED BY <1>a, <2>2, <3>1
  <2>3. ASSUME NEW i \in DOMAIN runs[v], NEW outcome \in {"succeeded", "failed"},
               FinishRun(v, i, outcome), Offered(v)
        PROVE  Approved(v)'
    BY <1>1, <2>3, FinishApproved
  <2> QED BY <1>2, <1>5, <2>1, <2>2, <2>3, Offers
<1> QED BY <1>3, <1>4, <1>5 DEF Next

\* In an attested pipeline, what is offered for merging is the very code an
\* independent reviewer approved, for a unit that was implemented once, however
\* often it was repaired, blocked and resumed (record_review, dispatch-packet).
THEOREM ApprovedIsOffered == Spec => []ApprovedOnce
<1>1. Init => ApprovedOnce
  BY PipelineAssumption DEF Init, ApprovedOnce, Offered
<1> QED BY <1>1, ApprovedNext, RepairAlways, ReviewAlways, PTL DEF Spec

\* Nor is anything offered for merging whose code has not passed its gates.
THEOREM OfferedPassedGates == Spec => []GatesPassed
<1>1. CodeInv /\ ReviewInv /\ ApprovedOnce => GatesPassed
  <2> SUFFICES ASSUME CodeInv, ReviewInv, ApprovedOnce,
                      NEW u \in Unit \ Overrides, u \in Attested, Offered(u), ImplementedOnce(u)
               PROVE  Latest(runs[u]) # 0 /\ runs[u][Latest(runs[u])].clean
    BY PipelineAssumption DEF GatesPassed
  <2>1. UnitReviewed(u) /\ Approved(u)
    BY DEF ReviewInv, ApprovedOnce
  <2>2. PICK i \in DOMAIN runs[u] :
           runs[u][i].kind = "review" /\ runs[u][i].code = Latest(runs[u])
    BY <2>1 DEF Approved
  <2>3. Independent(runs[u], i)
    BY <2>1, <2>2 DEF UnitReviewed, Reviewed
  <2>4. \A k \in DOMAIN runs[u] : k # 0
    BY CodeFacts
  <2> QED BY <2>2, <2>3, <2>4 DEF Independent
<1> QED BY <1>1, CodeAlways, ReviewAlways, ApprovedIsOffered, PTL
=============================================================================
