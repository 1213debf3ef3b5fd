--------------------------- MODULE PacketDispatch ---------------------------
(***************************************************************************)
(* One dispatch of a work item (`agentic-sdlc dispatch-packet` in cli.py), *)
(* from the request to the run it may start, while everything it reads     *)
(* moves: people land and fetch a new base and edit the issue, time passes *)
(* and agents commit to the candidate, whose commits may also rewrite the  *)
(* configuration.                                                          *)
(*                                                                         *)
(* Configuration stands for what a tree holds of policy, missions,         *)
(* knowledge, gates and roster: a base version, or a rewrite an agent      *)
(* committed.  A tester's packet, built as an implementation's, is left    *)
(* out.                                                                    *)
(***************************************************************************)
EXTENDS Naturals, Sequences, FiniteSets

CONSTANTS
    Rewrite,      \* configurations a candidate's commits may bring
    Reaimed,      \* those that name another default branch
    Old,          \* the version that branch holds at the review target
    RosterOf,     \* [versions and rewrites -> sequence of roster entries]
    Draft(_),     \* commits an agent may make at a position: [config, does, works]
    Kept,         \* a commit that leaves the configuration as it was
    Nothing,
    LastVersion, MaxCommits, MaxRevisions, MaxTime, MaxStarts,  \* bounds
    MaxAge        \* the freshness ceiling of an authorization

ASSUME VersionAssumption == LastVersion \in Nat \ {0} /\ Rewrite \cap 1 .. LastVersion = {}

\* The rosters people land call an agent by one name.
ASSUME RosterAssumption ==
    /\ \A v \in 1 .. LastVersion : DOMAIN RosterOf[v] \subseteq Nat
    /\ \A v, w \in 1 .. LastVersion : \A i \in DOMAIN RosterOf[v], j \in DOMAIN RosterOf[w] :
           RosterOf[v][i].actor = RosterOf[w][j].actor => RosterOf[v][i].id = RosterOf[w][j].id

VARIABLES
    fetched,     \* the base version the review target's default branch holds
    commits,     \* the candidate: a series of commits on version 1
    content,     \* the issue's title and body: how often they were edited
    now,
    signed,      \* the authorization result that check-request signed last
    unit,        \* the engine's record of the work item: phase, runs, findings
    past,        \* its earlier snapshots, as signed state documents
    dispatch,    \* the dispatch under way
    started      \* what the run started last was built from

worldVars == <<fetched, commits, content, now, signed>>
handoverVars == <<worldVars, unit, past, dispatch, started>>

Kind == {"implementation", "repair", "review"}
Tip == Len(commits)
NoDispatch == [stage |-> "idle", kind |-> Nothing, since |-> 0, head |-> 0, contract |-> Nothing, base |-> Nothing,
         text |-> Nothing, approval |-> Nothing, at |-> 0, roster |-> Nothing,
         snapshot |-> Nothing, findings |-> Nothing, agent |-> Nothing]

-----------------------------------------------------------------------------
(* What a tree of the candidate and a series of its commits hold.          *)

\* The configuration as committed at a position of the series.
ConfigAt(n) ==
    LET rewritten == {i \in 1 .. n : commits[i].config # Kept}
    IN  IF rewritten = {} THEN 1 ELSE commits[CHOOSE i \in rewritten : \A j \in rewritten : j <= i].config

\* `collect_commit_diff`: paths and sizes of the end state and of every commit.
Published(n) == {commits[i].does : i \in 1 .. n}

\* `run_gates` in the disposable tree at the head, by some version's definitions.
GatesPass(n, config) == config \in Rewrite \/ config \in commits[n].works

\* `_anchor_branch`: the review target's own default branch, with which the
\* policy must agree.
AnchorAgrees(config) == config \notin Reaimed

Authoritative(config) == IF config \in Reaimed THEN Old ELSE fetched

-----------------------------------------------------------------------------
(* The dispatch, read by read.  Anything amiss refuses it.                 *)

Decline == dispatch' = NoDispatch

BeginDispatch(kind) ==
    /\ dispatch.stage = "idle" /\ (kind = "review" => Tip > 0) /\ Len(unit.runs) < MaxStarts
    /\ dispatch' = [NoDispatch EXCEPT !.stage = "contract", !.kind = kind, !.since = fetched]
    /\ started' = Nothing
    /\ UNCHANGED <<worldVars, unit, past>>

\* Whose contract shapes the packet: the base's for a review or a repair,
\* that of the checkout for an implementation.
\* Mutation: the pinned tree's, whatever the kind.
PinnedContract(kind, n) == ConfigAt(n)
Contract(kind, n) == IF kind = "implementation" THEN ConfigAt(n) ELSE Authoritative(ConfigAt(n))

\* `_build_packet_from_request` before the packet: a review names any head, the
\* others the current checkout.
ReadContract ==
    /\ dispatch.stage = "contract"
    /\ \E n \in (IF dispatch.kind = "review" THEN 1 .. Tip ELSE {Tip}) :
          IF dispatch.kind # "implementation" /\ ~AnchorAgrees(ConfigAt(n)) THEN Decline
          ELSE dispatch' = [dispatch EXCEPT !.stage = IF dispatch.kind = "review" THEN "verify" ELSE "authorize",
                                            !.head = n, !.contract = Contract(dispatch.kind, n)]
    /\ UNCHANGED <<worldVars, unit, past, started>>

\* `_derived_verification`: the base the request names must be the target's now;
\* its gates judge the head, the contract's policy the series.
GatesOf(base) == base

BaseCurrent(base) == base = fetched

Derive ==
    /\ dispatch.stage = "verify"
    /\ \E base \in 1 .. LastVersion :
          IF /\ BaseCurrent(base) /\ AnchorAgrees(ConfigAt(dispatch.head))
             /\ "forbidden" \notin Published(dispatch.head)
             /\ GatesPass(dispatch.head, GatesOf(base))
          THEN dispatch' = [dispatch EXCEPT !.stage = "authorize", !.base = base]
          ELSE Decline
    /\ UNCHANGED <<worldVars, unit, past, started>>

\* `_check_dispatch_authorization` of a signed result for the content the
\* request carries.
Permits(a, text) ==
    /\ a.content = text
    /\ a.continuation => dispatch.kind # "implementation"
    /\ now - a.at <= MaxAge

CheckAuthorization ==
    /\ dispatch.stage = "authorize"
    /\ \/ \E text \in 0 .. content :
             /\ signed # Nothing /\ Permits(signed, text)
             /\ dispatch' = [dispatch EXCEPT !.stage = "roster", !.text = text, !.approval = signed, !.at = now]
       \/ Decline
    /\ UNCHANGED <<worldVars, unit, past, started>>

\* The tree the roster is read from.
RosterPin ==
    CASE dispatch.kind = "review" -> dispatch.base
      [] dispatch.kind = "repair" -> fetched
      [] dispatch.kind = "implementation" -> ConfigAt(dispatch.head)

ReadRoster ==
    /\ dispatch.stage = "roster"
    /\ dispatch' = [dispatch EXCEPT !.stage = "history", !.roster = RosterPin]
    /\ UNCHANGED <<worldVars, unit, past, started>>

\* Every agent that ever produced, by the kind its runs recorded.
Producing(u) == {i \in DOMAIN u.runs : u.runs[i].kind # "review"}
ProducedBy(u) == {u.runs[i].agent : i \in Producing(u)}

\* The run history a dispatch is given: reviewed code is the latest producer's.
LatestProduced(u, n) ==
    \E i \in Producing(u) : u.runs[i].commit = n /\ \A j \in Producing(u) : j <= i

\* `select_agent` and the window check: the first of the roster that may and fits.
Eligible(entry, u) ==
    /\ dispatch.kind \in entry.able /\ entry.fits
    /\ dispatch.kind = "review" => entry.id \notin ProducedBy(u)
Selected(u) ==
    LET roster == RosterOf[dispatch.roster]
        may == {i \in DOMAIN roster : Eligible(roster[i], u)}
    IN  IF may = {} THEN Nothing ELSE roster[CHOOSE i \in may : \A j \in may : i <= j]

\* The snapshot and the findings the caller passes, checked against each other;
\* the envelope signs the snapshot's digest.
ReadHistory ==
    /\ dispatch.stage = "history"
    /\ \E u \in past \union {unit}, findings \in {Nothing, "reported", "rewritten"} :
          IF /\ findings = u.findings
             /\ dispatch.kind = "review" => LatestProduced(u, dispatch.head)
             /\ Selected(u) # Nothing
          THEN dispatch' = [dispatch EXCEPT !.stage = "signed", !.snapshot = u,
                                            !.findings = findings, !.agent = Selected(u)]
          ELSE Decline
    /\ UNCHANGED <<worldVars, unit, past, started>>

-----------------------------------------------------------------------------
(* The engine: `orchestrate` with the attestation key.                     *)

Advance(u) == unit' = u /\ past' = past \union {unit}

\* `start-run`: the envelope binds the kind and the unit as it is now.
Current(u) == u = unit

StartRun ==
    /\ dispatch.stage = "signed" /\ UNCHANGED worldVars
    /\ dispatch' = NoDispatch
    /\ IF Current(dispatch.snapshot) /\ unit.phase = dispatch.kind
       THEN /\ Advance([unit EXCEPT !.phase = IF dispatch.kind = "review" THEN @ ELSE "running",
                         !.runs = Append(@, [kind |-> dispatch.kind, agent |-> dispatch.agent.id,
                                             actor |-> dispatch.agent.actor, commit |-> 0])])
            /\ started' = dispatch
       ELSE UNCHANGED <<unit, past, started>>

LastRun == unit.runs[Len(unit.runs)]
Finished(commit) == [unit.runs EXCEPT ![Len(unit.runs)].commit = commit]

\* `finish-run`: a producing run commits and its commit is recorded, or it
\* fails; its unit is verified either way.
FinishProducing ==
    /\ unit.phase = "running"
    /\ \/ /\ Tip < MaxCommits
          /\ \E d \in Draft(Tip + 1) : commits' = Append(commits, d)
          /\ Advance([unit EXCEPT !.phase = "verifying", !.runs = Finished(Tip + 1)])
       \/ /\ commits' = commits
          /\ Advance([unit EXCEPT !.phase = "verifying"])
    /\ started' = Nothing
    /\ UNCHANGED <<fetched, content, now, signed, dispatch>>

\* The verifier's signed outcome for the latest producer, whatever it judged.
RecordVerification ==
    /\ unit.phase = "verifying"
    /\ \E next \in {"review", "repair"} : Advance([unit EXCEPT !.phase = next])
    /\ UNCHANGED <<worldVars, dispatch, started>>

\* The reviewer's signed findings, and the digest of its report.
RecordReview ==
    /\ unit.phase = "review" /\ LastRun.kind = "review"
    /\ \/ Advance([unit EXCEPT !.phase = "done", !.findings = Nothing])
       \/ Advance([unit EXCEPT !.phase = "repair", !.findings = "reported"])
    /\ started' = Nothing /\ UNCHANGED <<worldVars, dispatch>>

-----------------------------------------------------------------------------
(* People, time and `check-request --authorize-labels`.                    *)

Land == fetched < LastVersion /\ fetched' = fetched + 1 /\ UNCHANGED <<commits, content, now, signed, unit, past, dispatch, started>>
EditContent == content < MaxRevisions /\ content' = content + 1 /\ UNCHANGED <<fetched, commits, now, signed, unit, past, dispatch, started>>
Tick == now < MaxTime /\ now' = now + 1 /\ UNCHANGED <<fetched, commits, content, signed, unit, past, dispatch, started>>

\* Signed for the content the labels were applied to; a continuation tolerates
\* the unit's own pull request.
Authorize ==
    /\ signed' = [content |-> content, at |-> now, continuation |-> Tip > 0]
    /\ UNCHANGED <<fetched, commits, content, now, unit, past, dispatch, started>>

HandoverInit ==
    /\ fetched = 1 /\ commits = <<>> /\ content = 0 /\ now = 0 /\ signed = Nothing
    /\ unit = [phase |-> "implementation", runs |-> <<>>, findings |-> Nothing]
    /\ past = {} /\ dispatch = NoDispatch /\ started = Nothing

HandoverNext ==
    \/ \E kind \in Kind : BeginDispatch(kind)
    \/ ReadContract \/ Derive \/ CheckAuthorization \/ ReadRoster \/ ReadHistory
    \/ StartRun \/ FinishProducing \/ RecordVerification \/ RecordReview
    \/ Land \/ EditContent \/ Tick \/ Authorize

HandoverSpec == HandoverInit /\ [][HandoverNext]_handoverVars

-----------------------------------------------------------------------------
\* A run is started only on what it claims to rest on, however the world moved
\* while its packet was built.  Task text: the content people approved, at most
\* MaxAge before it was checked, and nothing approved for a continuation starts
\* an implementation.  A review or a repair has the contract and the roster of a
\* base people landed, current at the target at some time of the dispatch,
\* and the findings the last review reported.  A review reads the head of the
\* latest producer, no commit of whose series the policy forbids and which
\* passes that base's gates, and is done by no one who produced
\* (`_build_packet_from_request`, `_derived_verification`,
\* `_check_dispatch_authorization`, `_dispatch_packet`, `_orchestrate`).
DispatchBound ==
    started # Nothing =>
        LET u == started.snapshot
            window == started.since .. fetched
        IN  /\ started.approval.content = started.text
            /\ started.at - started.approval.at <= MaxAge
            /\ started.kind = "implementation" => ~started.approval.continuation
            /\ started.findings = u.findings
            /\ started.kind # "implementation" => {started.contract, started.roster} \subseteq window
            /\ started.kind = "review" =>
                 /\ started.base \in window
                 /\ \E i \in Producing(u) :
                        started.head = u.runs[i].commit /\ \A j \in i + 1 .. Len(u.runs) : u.runs[j].kind = "review"
                 /\ \A i \in 1 .. started.head : commits[i].does # "forbidden"
                 /\ started.base \in commits[started.head].works
                 /\ \A i \in Producing(unit) : unit.runs[i].actor # started.agent.actor
=============================================================================
