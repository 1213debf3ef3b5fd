---------------------------- MODULE BranchRules ----------------------------
(***************************************************************************)
(* What doctor says of the rules GitHub enforces on a repository, and what *)
(* then happens to a Forge delivery: the publisher pushes its branch, a    *)
(* pull request is opened, workflows report their checks, and the pull     *)
(* request is merged, through a merge queue where there is one.            *)
(*                                                                         *)
(* A rule, a ref pattern and a workflow are kept as what they do to the    *)
(* branches and contexts at hand; a verdict that doctor cannot prove is    *)
(* the third truth value Maybe.                                            *)
(***************************************************************************)
EXTENDS Naturals, FiniteSets

CONSTANTS
    Workflow,      \* workflow files of the default branch
    Context,       \* status-check contexts
    Gate,          \* REQUIRED_CHECK, the context ci.yml's test job reports
    Branch,        \* the branches the publisher pushes, one per issue and run
    Sample,        \* PublisherValue.example: the one whose effective rules are read
    FilePath,          \* file paths a patch may touch
    Forbidden,     \* the policy's forbidden_paths
    Maybe          \* the verdict "cannot be proven"

ASSUME DomainAssumption ==
    /\ Gate \in Context /\ Sample \in Branch /\ Forbidden \subseteq FilePath
    /\ IsFiniteSet(Workflow) /\ "foreign" \notin Workflow
    /\ Maybe \notin BOOLEAN

VARIABLES
    serves,     \* [Workflow -> what it reports and when]
    required,   \* what the default branch's rulesets and classic protection require
    rulesets,   \* rulesets that target branches of the publisher's namespace
    classic,    \* classic protection rules over that namespace
    pushes,     \* push rulesets
    unread,     \* the answers GitHub refuses doctor
    pushResult,     \* what became of the publisher's push
    reports,    \* <<event, workflow, context>> reported for the pull request
    delivery    \* the pull request

world == <<serves, required, rulesets, classic, pushes, unread>>
branchVars == <<world, pushResult, reports, delivery>>

Trigger == {"pull_request", "merge_group"}

\* A workflow runs for every change (does[e] = "every"), for some (a paths or
\* branches filter) or for none, and its jobs report contexts, `known` where
\* doctor can enumerate the name (a literal matrix, a readable callee).

-----------------------------------------------------------------------------
(* Which contexts the default branch's workflows can be proven to report.  *)

\* A disabled workflow responds to no trigger; an unreadable job names nothing.
Contexts(w, e) ==
    IF serves[w].active /\ serves[w].does[e] = "every"
    THEN {j.context : j \in {k \in serves[w].jobs : k.known}} ELSE {}

Produced(e) == UNION {Contexts(w, e) : w \in Workflow}

Producers(c, e) == {w \in Workflow : c \in Contexts(w, e)}

Ambiguous(c) == \E e \in Trigger : Cardinality(Producers(c, e)) > 1

MergeGroupDeclared == \E w \in Workflow : serves[w].active /\ serves[w].does["merge_group"] # "none"

WorkflowsRead == unread \cap {"files", "states"} = {}

-----------------------------------------------------------------------------
(* The default branch: effective rules and classic protection.             *)

Compatible == {"creation", "deletion", "non_fast_forward", "required_linear_history", "pull_request"}

Queued == \E r \in required : r.type = "merge_queue"

\* Mutation: a merge queue is not asked for its own reports.
CheckProblemAtOpening(r) ==
    \/ ~WorkflowsRead \/ r.context \notin Produced("pull_request") \/ Ambiguous(r.context)
    \/ r.app = "foreign" \/ (r.context = Gate /\ r.app # "actions")

\* A required context nothing here reports, reports twice, reports too late for
\* the queue, or that another app must report; and the gate open to any app.
CheckProblem(r) ==
    \/ ~WorkflowsRead
    \/ r.context \notin Produced("pull_request")
    \/ Ambiguous(r.context)
    \/ /\ Queued \/ (r.by = "classic" /\ "rules" \in unread)
       /\ r.context \notin Produced("merge_group")
    \/ r.app = "foreign"
    \/ r.context = Gate /\ r.app # "actions"

EffectiveRuleProblem(r) ==
    CASE r.type = "required_status_checks" -> CheckProblem(r)
      [] r.type = "merge_queue" -> ~WorkflowsRead \/ ~MergeGroupDeclared
      [] OTHER -> r.type \notin Compatible

LegacyProblem(r) ==
    CASE r.type = "required_status_checks" -> CheckProblem(r)
      [] OTHER -> r.type \in {"required_signatures", "restrictions", "lock_branch"}

MergeProblem ==
    \/ "rules" \in unread
    \/ "protection" \in unread
    \/ \E r \in required : IF r.by = "ruleset" THEN EffectiveRuleProblem(r) ELSE LegacyProblem(r)

-----------------------------------------------------------------------------
(* The publisher's branches.                                               *)

\* A pattern matches every branch of the namespace, none, or it cannot be told.
PatternScope(p) ==
    IF p.opaque \/ p.matches \notin {{}, Branch} THEN Maybe ELSE p.matches = Branch

AnyOf(patterns) ==
    IF \E p \in patterns : PatternScope(p) = TRUE THEN TRUE
    ELSE IF \A p \in patterns : PatternScope(p) = FALSE THEN FALSE ELSE Maybe

RulesetScope(s) ==
    LET include == AnyOf(s.include)
        exclude == AnyOf(s.exclude)
    IN IF exclude = TRUE \/ include = FALSE THEN FALSE
       ELSE IF include = TRUE /\ exclude = FALSE THEN TRUE ELSE Maybe

\* Some samples of the namespace are tried; only a proof over all of it counts.
ValueVerdict(r) ==
    IF Sample \notin r.accepts THEN FALSE
    ELSE IF r.opaque \/ r.accepts # Branch THEN Maybe ELSE TRUE

PatternRuleProblem(r) == ValueVerdict(r) # TRUE

Covers(s, b) ==
    (\E p \in s.include : b \in p.matches) /\ ~\E p \in s.exclude : b \in p.matches

\* rules/branches/{sample}: the rules of the active rulesets that cover it.
EffectiveRules(b) == {s.rule : s \in {t \in rulesets : t.enforcement = "active" /\ Covers(t, b)}}

PushCompatible == {"deletion", "non_fast_forward", "required_linear_history", "tag_name_pattern"}

BranchRuleProblem(r) ==
    /\ r.type \notin PushCompatible
    /\ CASE r.type = "branch_name_pattern" -> PatternRuleProblem(r)
         [] r.type = "required_status_checks" -> ~r.spares
         [] OTHER -> TRUE

ScopeProblem(s) == s.enforcement # "disabled" /\ ("detail" \in unread \/ RulesetScope(s) = Maybe)

\* What a classic rule asks of a push that it cannot meet. The allowlist is
\* judged against the credential that pushes; one not determined never passes.
Needs(k) ==
    \/ k.demands
    \/ k.restricts /\ ("allowlist" \in unread \/ "pusher" \in unread \/ ~k.admits)

ClassicProblem(k) == PatternScope(k) # FALSE /\ (PatternScope(k) = Maybe \/ Needs(k))

\* A restricted path is harmless only if the policy forbids that same pattern.
PushRulesetProblem(s) ==
    /\ s.enforcement \notin {"disabled", "evaluate"}
    /\ "detail" \in unread \/ s.limits \/ ~(s.restricts \subseteq Forbidden)

PushProblem ==
    \/ "listed" \in unread
    \/ "branch" \in unread
    \/ "classic" \in unread
    \/ \E s \in rulesets : ScopeProblem(s)
    \/ \E r \in EffectiveRules(Sample) : BranchRuleProblem(r)
    \/ \E k \in classic : ClassicProblem(k)
    \/ \E s \in pushes : PushRulesetProblem(s)

-----------------------------------------------------------------------------
(* What GitHub does.                                                       *)

Refuses(r, b) ==
    CASE r.type = "branch_name_pattern" -> b \notin r.accepts
      [] r.type = "required_status_checks" -> ~r.spares
      [] OTHER -> r.type \notin PushCompatible

Rejected(b, p) ==
    \/ \E r \in EffectiveRules(b) : Refuses(r, b)
    \/ \E k \in classic : b \in k.matches /\ (k.demands \/ (k.restricts /\ ~k.admits))
    \/ \E s \in pushes : s.enforcement = "active" /\ (s.limits \/ p \in s.restricts)

\* The publisher pushes one of its branches with a patch the policy accepts.
Push(b, p) ==
    /\ pushResult = "none" /\ p \notin Forbidden
    /\ pushResult' = IF Rejected(b, p) THEN "rejected" ELSE "accepted"
    /\ UNCHANGED <<world, reports, delivery>>

\* A workflow with a filter may or may not run for this change.
ReportChecks(w, e) ==
    /\ delivery = (IF e = "pull_request" THEN "open" ELSE "queued")
    /\ serves[w].active /\ serves[w].does[e] # "none"
    /\ reports' = reports \union {<<e, w, j.context>> : j \in serves[w].jobs}
    /\ UNCHANGED <<world, pushResult, delivery>>

\* Another integration reports a context of its own choosing.
ForeignReport(c, e) ==
    /\ delivery = (IF e = "pull_request" THEN "open" ELSE "queued")
    /\ reports' = reports \union {<<e, "foreign", c>>}
    /\ UNCHANGED <<world, pushResult, delivery>>

\* A duplicate context leaves the pull request blocked.
Passed(r, e) ==
    LET from == {t[2] : t \in {s \in reports : s[1] = e /\ s[3] = r.context}}
        own == from \ {"foreign"}
    IN CASE r.app = "actions" -> Cardinality(own) = 1
         [] r.app = "any" -> from # {} /\ Cardinality(own) <= 1
         [] r.app = "foreign" -> FALSE

Met(e) ==
    \A r \in required :
        CASE r.type = "required_status_checks" -> Passed(r, e)
          [] OTHER -> r.type \in Compatible \union {"merge_queue"}

Accept ==
    /\ delivery = "open" /\ Met("pull_request")
    /\ delivery' = IF Queued THEN "queued" ELSE "merged"
    /\ UNCHANGED <<world, pushResult, reports>>

Merge ==
    /\ delivery = "queued" /\ Met("merge_group")
    /\ delivery' = "merged"
    /\ UNCHANGED <<world, pushResult, reports>>

BranchNext ==
    \/ \E b \in Branch, p \in FilePath : Push(b, p)
    \/ \E w \in Workflow, e \in Trigger : ReportChecks(w, e)
    \/ \E c \in Context, e \in Trigger : ForeignReport(c, e)
    \/ Accept
    \/ Merge

\* What a repository may ask and report: classic protection knows these types,
\* and a context that two active workflows report is one doctor sees in both. (A
\* second reporter with a filter or a computed name may block a pull request
\* unannounced.)
LegacyTypes == {"required_status_checks", "required_signatures", "restrictions", "lock_branch",
                "required_linear_history", "pull_request"}

Visible(s) == \A w \in Workflow, e \in Trigger : \A j \in s[w].jobs :
    s[w].active /\ (\E v \in Workflow \ {w} : s[v].active /\ \E k \in s[v].jobs : k.context = j.context)
        => j.known /\ s[w].does[e] # "some"

Patterns ==
    classic \union UNION {s.include \union s.exclude : s \in rulesets}

Standing ==
    /\ \A w \in Workflow, e \in Trigger : serves[w].does[e] \in {"none", "some", "every"}
    /\ Visible(serves)
    /\ \A r \in required :
           /\ r.by = "ruleset" \/ (r.by = "classic" /\ r.type \in LegacyTypes)
           /\ r.type = "required_status_checks" => r.app \in {"actions", "any", "foreign"}
    /\ \A p \in Patterns : p.matches \subseteq Branch

BranchStart == Standing /\ pushResult = "none" /\ reports = {} /\ delivery = "open"

BranchSpec == BranchStart /\ [][BranchNext]_branchVars

-----------------------------------------------------------------------------
\* Everything the workflows that run for every change report has been reported.
Quiet(e) ==
    \A w \in Workflow :
        serves[w].active /\ serves[w].does[e] = "every" =>
            \A j \in serves[w].jobs : <<e, w, j.context>> \in reports

(***************************************************************************)
(* Where doctor reports nothing about the rules, the publisher's push of   *)
(* any of its branches is accepted, the pull request is not left waiting   *)
(* for a check that never comes, and it is not merged on the word of       *)
(* another integration: the gate was reported by a workflow of the         *)
(* repository (effective_rule_problems, legacy_protection_problems,        *)
(* publisher_branch_rule_problems and the checks around them).             *)
(***************************************************************************)
DeliveryAdmitted ==
    /\ pushResult = "rejected" => PushProblem
    /\ MergeProblem
       \/ /\ ~(delivery = "open" /\ Quiet("pull_request") /\ ~Met("pull_request"))
          /\ ~(delivery = "queued" /\ Quiet("merge_group") /\ ~Met("merge_group"))
          /\ delivery = "merged" /\ (\E r \in required : r.type = "required_status_checks" /\ r.context = Gate) =>
                 \E w \in Workflow : <<"pull_request", w, Gate>> \in reports
=============================================================================
