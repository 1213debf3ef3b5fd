---------------------------- MODULE ControlCenter ---------------------------
(***************************************************************************)
(* The control center (control_center.py) over what the GitHub adapter     *)
(* exported (github_backlog.py) and the ledger's projections of the work   *)
(* units: which incidents still stand when the ledger has moved on since   *)
(* the export, and whose unit an incident is about when two trackers spell *)
(* their references alike.  The ledger knows no tracker; `truth` does.     *)
(*                                                                         *)
(* The console may be built at any moment.  Left out: budgets, warnings    *)
(* and redactions, cross-project data, dependency waits and activity.      *)
(***************************************************************************)
EXTENDS EventLedger, BacklogExport

CONSTANTS
    WorkUnits,   \* work units
    NoUnit,      \* an item or an incident that names none
    Tracker,     \* providers, "github" among them
    Undeclared,  \* a document without a provider
    Repository,
    RepoOf,      \* [references -> the repository they name]
    IssueRef,    \* the issue exported: repo#N
    PullRef,     \* the change request exported: repo!N
    Histories,   \* bound: what the units may have gone through, [WorkUnits -> states]
    Onward,      \* bound: states they go to from there
    Labelled,    \* bound: the label sets considered
    MaxSteps     \* bound: ledger events after the beginning

VARIABLES
    declared,   \* [Repository -> the trackers the registry declares it for]
    status,     \* [WorkUnits -> its projection]
    truth,      \* [WorkUnits -> the trackers of its issue and of its change requests] (history)
    really,     \* change requests that were merged, <<tracker, reference>> (history)
    lap,        \* [WorkUnits -> gates passed since it was last triaged] (history)
    loaded,     \* [items, incidents] of the documents
    steps

ChangeRefs == DOMAIN RepoOf \ {IssueRef}

ASSUME CenterAssumption ==
    /\ RepoOf \in [DOMAIN RepoOf -> Repository] /\ {IssueRef, PullRef} \subseteq DOMAIN RepoOf
    /\ NoRef \notin DOMAIN RepoOf /\ PullRef # IssueRef
    /\ IsFiniteSet(WorkUnits) /\ NoUnit \notin WorkUnits /\ "github" \in Tracker /\ Undeclared \notin Tracker
    /\ \A lives \in Histories, u \in WorkUnits : LET past == lives[u] IN
          /\ past \in Seq(FactoryState) /\ past # <<>> /\ past[1] = "intake"
          /\ \A k \in 2 .. Len(past) : <<past[k - 1], past[k]>> \in FactoryEdges

centerVars == <<declared, status, truth, really, lap, loaded, steps>>

-----------------------------------------------------------------------------
(* github_backlog.py: labels.                                              *)

Row(id, required, missing, kind) == [rule |-> id, required |-> required, missing |-> missing, kind |-> kind]

DispatchRules == <<
    Row("spec-awaiting-human-review", {"drafted"}, {"released"}, "awaiting-spec-review"),
    Row("approved-without-dispatch-labels", {"approve"}, {"ready", "review"}, "dispatch-blocked"),
    Row("approved-without-agent-ready", {"approve", "review"}, {"ready"}, "dispatch-blocked"),
    Row("approved-without-human-review", {"approve", "ready"}, {"review"}, "dispatch-blocked"),
    Row("agent-ready-without-human-review", {"ready"}, {"review"}, "dispatch-blocked"),
    Row("review-required-without-agent-ready", {"review"}, {"ready", "approve", "drafted"}, "dispatch-blocked"),
    Row("spec-without-approval", {"drafted", "review"}, {"approve", "ready"}, "awaiting-human-approval"),
    Row("eligible-awaiting-dispatch-evidence", {"approve", "review", "ready"}, {}, "awaiting-dispatch-evidence"),
    Row("plan-ready-awaiting-dispatch-evidence", {"ready", "review"}, {"approve"}, "awaiting-dispatch-evidence"),
    Row("released-spec-without-dispatch-labels", {"drafted", "released"}, {"approve", "ready", "review"},
        "awaiting-human-approval"),
    Row("untriaged", {}, {"review", "approve", "ready", "drafted"}, "triage-needed")>>

Matches(row, labels) == row.required \subseteq labels /\ row.missing \intersect labels = {}

\* The adapter's records name no unit; `of` is whose they really are.
AdapterIncident(rule, kind, about, item) ==
    [provider |-> "github", rule |-> rule, kind |-> kind, about |-> about, item |-> item,
     unit |-> NoUnit, of |-> "github"]

\* `incidents_from_issues`: the first rule an open issue meets.
LabelIncidents(labels) ==
    LET met == {k \in DOMAIN DispatchRules : Matches(DispatchRules[k], labels)} IN
    {AdapterIncident(DispatchRules[k].rule, DispatchRules[k].kind, IssueRef, IssueRef) :
        k \in {j \in met : \A i \in met : j <= i}}

ReadyMerge == {"clean", "has_hooks"}
Impeded == {"blocked", "behind", "unstable"}

\* `incidents_from_change_requests`, an open one that is no draft.
PullKinds(verdict, failing) ==
    (IF verdict = "dirty" THEN {<<"merge-conflict", "merge-conflict">>} ELSE {})
    \union (IF failing THEN {<<"ci-failed", "deterministic-ci-failed">>} ELSE {})
    \union (IF verdict \in ReadyMerge /\ ~failing THEN {<<"awaiting-merge", "awaiting-human-merge">>} ELSE {})
    \union (IF verdict \in Impeded /\ ~(verdict = "unstable" /\ failing)
            THEN {IF verdict = "behind" THEN <<"merge-state-behind", "branch-behind">>
                  ELSE <<"merge-state-impeded", "unclassified">>}
            ELSE {})

PullIncidents(verdict, failing) ==
    {AdapterIncident(k[1], k[2], PullRef, NoRef) : k \in PullKinds(verdict, failing)}

-----------------------------------------------------------------------------
(* control_center.py: whose reference it is.                               *)

DispatchProven == {"dispatched", "implementing", "verifying", "reviewing", "repair-needed", "repairing",
    "re-reviewing", "ready-for-human-merge", "merged", "failed"} \union Release
PlanProven == DispatchProven \union {"planned", "approval-pending"}
ApprovalProven == DispatchProven \union {"approved"}

\* The repository whose registration decides: the reference's own, else the unit's.
Deciding(u, ref) ==
    IF declared[RepoOf[ref]] # {} THEN {RepoOf[ref]}
    ELSE {r \in {status[u].repo} : declared[r] # {}}

\* `_provider_agrees`: disagreement is proven, never guessed.
Agrees(provider, u, ref) ==
    provider # Undeclared => \A r \in Deciding(u, ref) : declared[r] = {provider}

\* `_positively_identified`
Identified(item, u) ==
    item.provider # Undeclared /\ \E r \in Deciding(u, item.id) : declared[r] = {item.provider}

\* `_index_by_issue_ref`: a reference two units carry names neither.
UnitOfIssue(ref) ==
    LET carriers == {u \in WorkUnits : status[u].issue = ref}
    IN IF Cardinality(carriers) = 1 THEN carriers ELSE {}

ProvidersOf(id) == {i.provider : i \in {j \in loaded.items : j.id = id}}

\* `_contested_issue_refs`
Contested(id) == Cardinality(ProvidersOf(id)) > 1

\* Mutation: a reference of two trackers is joined like any other.
StatusOfContested(item) ==
    IF item.unit # NoUnit THEN {item.unit} \intersect WorkUnits
    ELSE {u \in UnitOfIssue(item.id) : Agrees(item.provider, u, item.id)}

\* `_resolve_state` where it finds a unit; a named unit is authoritative.
StatusOf(item) ==
    IF item.unit # NoUnit THEN {item.unit} \intersect WorkUnits
    ELSE {u \in UnitOfIssue(item.id) : /\ Agrees(item.provider, u, item.id)
                                       /\ Contested(item.id) => Identified(item, u)}

StatusUnder(provider, id) ==
    UNION {StatusOf(i) : i \in {j \in loaded.items : j.provider = provider /\ j.id = id}}

\* `_item_status_for`
ItemStatus(n) ==
    LET exact == StatusUnder(n.provider, n.item)
        providers == ProvidersOf(n.item)
    IN IF n.provider # Undeclared
       THEN IF exact # {} THEN exact
            ELSE IF providers = {Undeclared} THEN StatusUnder(Undeclared, n.item) ELSE {}
       ELSE IF Cardinality(providers) = 1 THEN UNION {StatusUnder(p, n.item) : p \in providers} ELSE {}

-----------------------------------------------------------------------------
(* control_center.py: what has become of an incident.                      *)

\* `_change_request_scoped`: an obstacle to merging the request it is about.
ChangeScoped(n) ==
    \/ n.kind \in {"awaiting-human-merge", "merge-conflict", "branch-behind", "deterministic-ci-failed"}
    \/ n.provider = "github" /\ n.kind = "unclassified" /\ n.rule = "merge-state-impeded"

\* Proven merged: by the unit it names, else by every unit that carries it.
MergedFor(n) ==
    IF n.unit # NoUnit
    THEN \E u \in {n.unit} \intersect WorkUnits :
            Agrees(n.provider, u, n.about) /\ n.about \in status[u].merged
    ELSE LET carriers == {u \in WorkUnits : /\ n.about \in status[u].merged \union {status[u].change}
                                            /\ Agrees(n.provider, u, n.about)}
         IN carriers # {} /\ \A u \in carriers : n.about \in status[u].merged

\* `_LEDGER_RETIREMENT`
Retiring(kind) ==
    CASE kind \in {"dispatch-blocked", "awaiting-dispatch-evidence", "triage-needed", "awaiting-spec-review"} ->
             DispatchProven
      [] kind = "awaiting-human-approval" -> ApprovalProven
      [] OTHER -> {}

AdapterRule(n, rules) == n.provider = "github" /\ n.item # NoRef /\ n.about = n.item /\ n.rule \in rules

PlanRule == {"plan-ready-awaiting-dispatch-evidence"}
HoldRules == {"released-spec-without-dispatch-labels", "spec-without-approval"}

Passed(u, states) == status[u].state \in states \/ status[u].seen \intersect states # {}

\* What a unit the ledger proves does to a label's incident: it retires it, or
\* tells it as the dispatch blocker it has become.
FateBy(n, u) ==
    IF AdapterRule(n, PlanRule \union HoldRules)
    THEN IF Passed(u, DispatchProven) THEN "retired"
         ELSE IF "approved" \in status[u].seen THEN "restated"
         ELSE IF AdapterRule(n, PlanRule) /\ Passed(u, PlanProven) THEN "retired"
         ELSE "kept"
    ELSE IF Passed(u, Retiring(n.kind)) THEN "retired" ELSE "kept"

Fate(n) ==
    LET proven == IF n.unit # NoUnit THEN {n.unit} \intersect WorkUnits ELSE ItemStatus(n)
    IN IF n.about # NoRef /\ ChangeScoped(n) /\ MergedFor(n) THEN "retired"
       ELSE IF proven = {} THEN "kept"
       ELSE FateBy(n, CHOOSE u \in proven : TRUE)

Shown == {n \in loaded.incidents : Fate(n) # "retired"}

-----------------------------------------------------------------------------
(* The units' lives, and the export.                                       *)

\* `_states_seen`: since the unit was last sent back to triage.
SeenNow(seen, state) == (IF state \in {"intake", "triaged"} THEN {} ELSE seen) \union {state}

Gates == {"planned", "approval-pending", "approved", "dispatched"} \union Release

\* The registry tells the truth of the repositories it declares.
Registered(ref) == IF declared[RepoOf[ref]] = {} THEN Tracker ELSE declared[RepoOf[ref]]

CenterInit ==
    /\ declared \in [Repository -> SUBSET Tracker] /\ "github" \in Registered(IssueRef)
    /\ truth \in [WorkUnits -> [issue : Registered(IssueRef),
                               change : {f \in [ChangeRefs -> Tracker] : \A r \in ChangeRefs : f[r] \in Registered(r)}]]
    /\ \E past \in Histories, issue \in [WorkUnits -> {IssueRef, NoRef}],
          change \in [WorkUnits -> {PullRef, NoRef}] :
          /\ status = [u \in WorkUnits |->
                [state |-> Last(past[u]), seen |-> FoldLeft(SeenNow, {}, past[u]), issue |-> issue[u],
                 change |-> change[u], repo |-> RepoOf[IssueRef], merged |-> {}]]
          /\ lap = [u \in WorkUnits |-> {g \in Gates : \E k \in DOMAIN past[u] :
                      past[u][k] = g /\ \A j \in k .. Len(past[u]) : past[u][j] # "triaged"}]
    /\ really = {} /\ steps = 0 /\ loaded = [items |-> {}, incidents |-> {}]

\* A unit goes on; the ledger's `_fold` keeps what was merged under its name.
Proceed(u, state) ==
    /\ steps < MaxSteps /\ <<status[u].state, state>> \in FactoryEdges
    /\ LET change == IF state = "merged" THEN {status[u].change} \ {NoRef} ELSE {} IN
       /\ status' = [status EXCEPT ![u].state = state, ![u].seen = SeenNow(@, state),
                                   ![u].merged = @ \union change]
       /\ really' = really \union {<<truth[u].change[r], r>> : r \in change}
    /\ lap' = [lap EXCEPT ![u] = IF state = "triaged" THEN {} ELSE @ \union ({state} \intersect Gates)]
    /\ steps' = steps + 1
    /\ UNCHANGED <<declared, truth, loaded>>

\* A unit goes on with another change request, perhaps in another repository.
\* (Bound: a unit's references of one spelling are one request.)
Repoint(u, ref, named) ==
    /\ steps < MaxSteps /\ ref \notin status[u].merged \union {status[u].change}
    /\ status' = [status EXCEPT ![u].change = ref, ![u].repo = IF named THEN RepoOf[ref] ELSE @]
    /\ steps' = steps + 1
    /\ UNCHANGED <<declared, truth, really, lap, loaded>>

\* `github-backlog`, and a document of another tracker, or without a provider,
\* beside it.  What becomes of an incident does not depend on the others.
LoadDocuments(incidents, beside) ==
    /\ loaded.items = {}
    /\ loaded' = [items |-> {[provider |-> "github", id |-> IssueRef, unit |-> NoUnit]} \union beside,
                  incidents |-> incidents]
    /\ UNCHANGED <<declared, status, truth, really, lap, steps>>

\* Items another document declares: of another tracker, or the same.
Beside ==
    {{}} \union {{[provider |-> says, id |-> IssueRef, unit |-> NoUnit]} :
                    says \in {"gitlab"} \intersect Registered(IssueRef)}
         \union {{[provider |-> Undeclared, id |-> IssueRef, unit |-> w]} : w \in WorkUnits \union {NoUnit}}

\* Incidents another document tells, of a unit or of none, and one of a request
\* already merged.
Others(of) ==
    {[provider |-> says, rule |-> "other", kind |-> k, about |-> PullRef, item |-> NoRef,
      unit |-> w, of |-> of] :
        says \in {of, Undeclared}, k \in {"awaiting-human-merge", "unclassified"},
        w \in {NoUnit} \union {u \in WorkUnits : status[u].change = PullRef /\ truth[u].change[PullRef] = of}}
    \union
    {[provider |-> of, rule |-> "other", kind |-> k, about |-> IssueRef, item |-> IssueRef,
      unit |-> w, of |-> of] :
        k \in {"dispatch-blocked", "awaiting-human-approval"},
        w \in {NoUnit} \union {u \in WorkUnits : status[u].issue = IssueRef /\ truth[u].issue = of}}

CenterNext ==
    \/ \E u \in WorkUnits, state \in Onward : Proceed(u, state)
    \/ \E u \in WorkUnits, ref \in ChangeRefs, named \in BOOLEAN : Repoint(u, ref, named)
    \/ \E beside \in Beside :
          \/ \E labels \in Labelled : LoadDocuments(LabelIncidents(labels), beside)
          \/ /\ <<"github", PullRef>> \notin really
             /\ \E verdict \in ReadyMerge \union Impeded \union {"dirty", "unknown"}, failing \in BOOLEAN :
                   LoadDocuments(PullIncidents(verdict, failing), beside)
          \/ \E of \in Registered(IssueRef) : \E n \in Others(of) : LoadDocuments({n}, beside)

CenterSpec == CenterInit /\ [][CenterNext]_centerVars

-----------------------------------------------------------------------------
(* What the console shows.                                                 *)

\* The registry tells whose it is, or that nothing tells.
Told(n, ref) == Registered(ref) = {n.of} \/ (n.provider # Undeclared /\ declared[RepoOf[ref]] # {})

\* The units an incident of a change request is about, where the ledger says so
\* and no registration says otherwise.
Carrying(n) == {u \in WorkUnits : /\ status[u].change = n.about /\ truth[u].change[n.about] = n.of
                                  /\ Agrees(n.provider, u, n.about)}

\* An incident of a change request is dropped only when the request was merged,
\* under the tracker it is about; where the registry tells whose the reference is,
\* it is dropped as soon as the ledger proves that of every unit that carries it.
MergesTold ==
    \A n \in loaded.incidents : n.item = NoRef =>
        LET about == IF n.unit # NoUnit THEN {n.unit} ELSE Carrying(n) IN
        IF n \notin Shown
        THEN /\ n.kind = "unclassified" => n.rule = "merge-state-impeded"
             /\ about # {} \/ Told(n, n.about) => <<n.of, n.about>> \in really
        ELSE /\ Registered(n.about) = {n.of} /\ n.provider = n.of
             /\ ChangeScoped(n) /\ <<n.of, n.about>> \in really
             => \E u \in about : n.about \notin status[u].merged

\* Who an incident of labels is about, where the ledger says so.
Subjects(n) == IF n.unit # NoUnit THEN {n.unit}
               ELSE {u \in WorkUnits : status[u].issue = n.item /\ truth[u].issue = n.of}

\* What labels ask for was done since the unit was last triaged.  A release counts
\* as a dispatch, though a blocked unit may go on to one (event_ledger.py:171).
Crossed(n, u) ==
    \/ lap[u] \intersect ({"dispatched"} \union Release) # {}
    \/ n.rule \in PlanRule /\ lap[u] \intersect {"planned", "approval-pending"} # {} /\ "approved" \notin lap[u]
    \/ n.kind = "awaiting-human-approval" /\ n.rule \notin HoldRules /\ "approved" \in lap[u]

\* An incident of labels is dropped only when every unit of the issue did what they
\* ask for, after it was last sent back to triage.  Where the registry tells whose
\* issue it is, it is dropped then; and a hold on an approval that was given is told
\* as what it has become.  Of a reference two trackers declare, a unit of another
\* tracker drops nothing, unless its last change request was in another repository.
GatesTold ==
    \A n \in loaded.incidents : n.item # NoRef =>
        LET carriers == {u \in WorkUnits : status[u].issue = n.item}
            told == declared[RepoOf[n.item]] = {n.of} /\ n.provider = n.of IN
        IF n \notin Shown
        THEN /\ \A u \in Subjects(n) : Crossed(n, u)
             /\ \/ Told(n, n.item)
                \/ Contested(n.item) /\ \A u \in carriers : status[u].repo = RepoOf[n.item]
                => Subjects(n) # {}
        ELSE told /\ Cardinality(Subjects(n)) = 1 /\ (n.unit # NoUnit \/ Cardinality(carriers) = 1)
             => \A u \in Subjects(n) :
                      /\ ~Crossed(n, u)
                      /\ n.rule \in PlanRule \union HoldRules /\ "approved" \in lap[u] => Fate(n) = "restated"

(***************************************************************************)
(* The console hides nothing that stands, tells nothing that is over, and  *)
(* drops no issue of the backlog, however the ledger, the labels and the   *)
(* trackers move between the export and the ledger's reading               *)
(* (build_control_center_snapshot).                                        *)
(***************************************************************************)
ConsoleTrue == TreeWhole /\ MergesTold /\ GatesTold
=============================================================================
