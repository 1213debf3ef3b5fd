------------------------------- MODULE Doctor -------------------------------
(***************************************************************************)
(* The readiness report of `sdlcctl doctor`: which of its checks pass over *)
(* a checkout, a repository and a platform that are each other than        *)
(* generated in up to MaxDepartures ways, while GitHub refuses some of the *)
(* answers. What the checks conclude from rules, workflows and nested      *)
(* calls is the subject of BranchRules and CalleeGraph; here it is a fact. *)
(***************************************************************************)
EXTENDS Naturals, FiniteSets

CONSTANT MaxDepartures  \* bound on the departures from a repository that is ready

VARIABLES
    repo,      \* what is true of the repository, its policy and the platform
    local,     \* [ManagedFile -> its state in the checkout]
    pushed,    \* [ManagedFile -> its state on the default branch]
    held,      \* [Credential -> where it is set]
    refused,   \* the answers GitHub does not give
    departures

doctorVars == <<repo, local, pushed, held, refused, departures>>

ManagedFile == {"policy", "guides", "hooks", "plan", "implement", "ci", "routine", "registry"}
Credential == {"client-id", "claude-token", "app-key", "platform-token", "routed-key"}

\* Each fact and what it may become; the first four fix the profile.
Facts ==
    [cloud |-> BOOLEAN, routed |-> BOOLEAN, orgOwned |-> BOOLEAN, platform |-> {"public", "private", "internal"},
     mode |-> {"explicit", "implicit", "invalid"},
     policy |-> {"sound", "unloadable", "id", "fields", "forbidden", "value", "branch", "planner", "no bot", "other bot"},
     agent |-> {"known", "unknown"}, route |-> {"served", "stuck"}, forwards |-> BOOLEAN,
     pins |-> {"one", "several"}, pinned |-> BOOLEAN, calls |-> {"fit", "mismatch", "overreach"},
     inherits |-> BOOLEAN, tokenDefault |-> {"enough", "short"},
     issues |-> BOOLEAN, writable |-> BOOLEAN,
     visibility |-> {"public", "private", "internal"}, sameOwner |-> BOOLEAN,
     access |-> {"none", "user", "organization", "enterprise"},
     actions |-> {"all", "admits", "verified", "denies", "local_only", "disabled"},
     labels |-> BOOLEAN, ruleset |-> {"exact", "weaker", "absent"},
     active |-> BOOLEAN, rules |-> BOOLEAN, pushRules |-> BOOLEAN, branchRules |-> BOOLEAN,
     legacy |-> {"absent", "fits", "blocks"},
     runner |-> {"hosted", "selfhosted", "windows", "slim", "group"},
     ciRunner |-> {"hosted", "selfhosted", "windows", "slim", "group"},
     online |-> {"unix", "windows", "none"},
     forking |-> BOOLEAN, forkRuns |-> BOOLEAN, mergeGroup |-> BOOLEAN,
     app |-> {"exact", "broader", "elsewhere", "other", "absent"}, confirmed |-> BOOLEAN]

Answers ==
    {"repo", "callee", "nested", "token default", "platform", "platform visibility", "access", "actions", "allowlist",
     "contents", "labels", "rulesets", "ruleset", "files", "states", "rules", "listed", "branch",
     "protection", "variables", "secrets", "org variables", "org secrets", "runners", "fork policy",
     "installations", "app", "app repositories"}

Answered(a) == a \notin refused

-----------------------------------------------------------------------------
(* What the checkout says.                                                 *)

Mark(ok, manual) == IF ok THEN "pass" ELSE IF manual THEN "todo" ELSE "fail"

\* The mode is what the policy says, not which files happen to exist.
Cloud == repo.cloud /\ repo.mode = "explicit"
ModeCheck ==
    Mark(repo.mode = "explicit" \/ (repo.mode = "implicit" /\ local["implement"] # "absent"), FALSE)

Required ==
    {"policy", "guides", "hooks", "plan", "ci"} \union (IF Cloud THEN {"routine"} ELSE {"implement"})

Loaded == local["policy"] # "absent" /\ repo.policy # "unloadable"

\* The guards run as onboarding installs them, scripts and settings alike.
HooksSound == local["hooks"] # "edited"

FilesCheck == Mark((\A f \in Required : local[f] # "absent") /\ HooksSound, FALSE)

ProfileCheck ==
    Mark(IF Cloud THEN local["implement"] = "absent" ELSE local["routine"] = "absent", FALSE)

CiCheck == Mark(local["ci"] # "edited", FALSE)

PolicyCheck ==
    Mark(/\ Loaded
         /\ repo.policy \notin {"fields", "forbidden", "value", "planner"}, FALSE)

NameCheck ==
    IF ~Loaded THEN "none" ELSE Mark(Answered("repo") /\ repo.policy # "id", ~Answered("repo"))

\* An agent doctor cannot read may be `route`, so it is checked as one.
Routed == local["registry"] # "absent" \/ repo.routed \/ repo.agent = "unknown"

RoutingCheck ==
    IF ~Routed THEN "none"
    ELSE Mark(/\ local["registry"] = "generated" /\ Loaded
              /\ repo.agent = "known" /\ repo.route = "served" /\ repo.forwards, FALSE)

LeaseBotCheck == Mark(Cloud \/ repo.policy # "no bot", TRUE)

\* One commit of the platform for every caller, or no ref at all.
Pinned == local["plan"] # "absent" /\ repo.pins = "one"
PinCheck == IF local["plan"] = "absent" THEN "none" ELSE Mark(Pinned, FALSE)

\* Workflows by parsed structure, conditions and knobs apart; guides by
\* containment; the rest exactly.
WorkflowsDrift == \E f \in {"plan"} \union (IF Cloud THEN {} ELSE {"implement"}) : local[f] = "edited"
FilesDrift == \E f \in {"guides", "hooks", "routine"} : local[f] = "edited"

DriftCheck == IF ~Loaded THEN "none" ELSE Mark(~WorkflowsDrift /\ ~FilesDrift, FALSE)

RoutineCheck == IF Cloud THEN Mark(repo.confirmed, TRUE) ELSE "none"

-----------------------------------------------------------------------------
(* What the repository and the platform answer.                            *)

IssuesCheck == Mark(Answered("repo") /\ repo.issues, ~Answered("repo"))
WritableCheck == Mark(Answered("repo") /\ repo.writable, ~Answered("repo"))

PlatformCheck ==
    IF ~Pinned THEN "none" ELSE Mark(Answered("callee") /\ repo.pinned, Answered("callee") => repo.pinned)

TokenCheck ==
    IF ~Pinned THEN "none" ELSE Mark(~repo.inherits \/ Answered("token default"), TRUE)

ContractCheck ==
    IF ~Pinned THEN "none"
    ELSE Mark(/\ Answered("callee") /\ Answered("nested") /\ repo.calls = "fit"
              /\ ~(repo.inherits /\ Answered("token default") /\ repo.tokenDefault = "short"), FALSE)

\* Only an explicit `private: false` proves a public platform.
ProvenPublic == Answered("platform") /\ repo.platform = "public"

PlatformAccess ==
    LET caller == IF Answered("repo") THEN repo.visibility ELSE "unread"
        host == IF Answered("platform visibility") THEN repo.platform ELSE "unread"
        level == IF Answered("access") THEN repo.access ELSE "unread"
    IN IF caller = "public" \/ (caller = "internal" /\ host = "private") THEN "fail"
       ELSE Mark(/\ repo.sameOwner /\ level \in {"user", "organization", "enterprise"}
                 /\ caller # "unread"
                 /\ caller = "internal" => host = "internal", TRUE)

AccessCheck ==
    IF ~Answered("platform") THEN "todo"
    ELSE IF repo.platform = "public" THEN "pass" ELSE PlatformAccess

\* A part of the call graph that could not be collected is not proven admitted.
ActionsCheck ==
    IF ~Answered("actions") THEN "todo"
    ELSE CASE repo.actions = "all" -> "pass"
           [] repo.actions \in {"disabled", "local_only"} -> "fail"
           [] repo.actions = "denies" -> Mark(FALSE, ~Answered("allowlist"))
           [] repo.actions = "verified" -> "todo"
           [] repo.actions = "admits" ->
                  Mark(Answered("allowlist") /\ Answered("nested") /\ (Pinned => Answered("callee") /\ repo.pinned), TRUE)

BranchCheck == IF ~Loaded THEN "none" ELSE Mark(Answered("repo") /\ repo.policy # "branch", FALSE)

\* What GitHub runs is what was pushed; a file of another mode must be gone.
PushedCheck ==
    LET managed == Required \union (IF Routed THEN {"registry"} ELSE {})
        owned == {"implement", "routine", "registry"}
    IN Mark(/\ Answered("repo") /\ Answered("contents")
            /\ \A f \in managed \union {g \in {"routine"} : local[g] # "absent"} :
                   /\ local[f] # "absent" /\ pushed[f] = local[f]
                   /\ Loaded /\ f \in {"guides", "hooks", "routine"} => pushed[f] # "edited"
            /\ \A f \in owned \ managed : pushed[f] = "absent", FALSE)

LabelsCheck == Mark(Answered("labels") /\ repo.labels, ~Answered("labels"))

RulesetCheck ==
    Mark(Answered("rulesets") /\ Answered("ruleset") /\ repo.ruleset = "exact", ~Answered("rulesets"))

\* Contexts come from the active workflows of the default branch; a set that is
\* not read in full proves none of them.
ContextsKnown == Answered("files") /\ Answered("states")

ActiveCheck == Mark(Answered("states") /\ repo.active, TRUE)

EffectiveCheck ==
    Mark(/\ Answered("rules") /\ repo.rules
         /\ ContextsKnown \/ repo.ruleset = "absent", TRUE)

PushRulesCheck == Mark(Answered("listed") /\ repo.pushRules, TRUE)

\* The publisher's branch name is read from the pinned workflow; the routine's
\* is known.
BranchRulesCheck ==
    Mark(/\ Cloud \/ (Pinned /\ Answered("callee") /\ repo.pinned)
         /\ Answered("listed") /\ Answered("branch") /\ repo.branchRules, TRUE)

LegacyCheck ==
    Mark(Answered("protection")
         /\ (repo.legacy = "absent" \/ (repo.legacy = "fits" /\ ContextsKnown)), TRUE)

-----------------------------------------------------------------------------
(* Credentials: the repository's own and those its organization shares.    *)

NeedVariables == IF Cloud THEN {} ELSE {"client-id"}
NeedSecrets ==
    {"claude-token"} \union (IF Cloud THEN {} ELSE {"app-key"})
        \union (IF ProvenPublic THEN {} ELSE {"platform-token"})
        \union (IF Routed THEN {"routed-key"} ELSE {})

Seen(c, own, shared) ==
    \/ held[c] = "repository" /\ Answered(own)
    \/ held[c] = "organization" /\ repo.orgOwned /\ Answered(shared)

VariablesCheck ==
    LET lacking == {c \in NeedVariables : ~Seen(c, "variables", "org variables")}
        unverifiable == {c \in lacking : repo.orgOwned /\ ~Answered("org variables") /\ held[c] # "empty"}
    IN IF ~Answered("variables") /\ NeedVariables # {} THEN "todo"
       ELSE IF lacking # {} /\ unverifiable = lacking THEN "warn"
       ELSE Mark(lacking = {}, FALSE)

SecretsCheck ==
    LET lacking == {c \in NeedSecrets : ~Seen(c, "secrets", "org secrets")}
    IN IF lacking # {} /\ repo.orgOwned /\ ~Answered("org secrets") /\ Answered("secrets") THEN "warn"
       ELSE Mark(lacking = {}, TRUE)

-----------------------------------------------------------------------------
(* Runners, forks and the publisher's App.                                 *)

\* Mutation: any runner that is online will do.
AvailableAnywhere(target) ==
    target = "hosted" \/ (target = "selfhosted" /\ Answered("runners") /\ repo.online # "none")

Available(target) ==
    \/ target = "hosted"
    \/ target = "selfhosted" /\ Answered("runners") /\ repo.online = "unix"

\* Windows, a job limit below the workloads' and a target that cannot be proven
\* are failures, not runners to register.
TargetCheck(target) ==
    IF target \in {"windows", "slim", "group"} THEN "fail" ELSE Mark(Available(target), TRUE)

RunnerCheck ==
    IF Pinned /\ ~(Answered("callee") /\ Answered("nested")) THEN "fail" ELSE TargetCheck(repo.runner)
CiRunnerCheck == TargetCheck(repo.ciRunner)

IsolationCheck == IF repo.runner = "hosted" /\ repo.ciRunner = "hosted" THEN "pass" ELSE "warn"

\* Safe only when GitHub proves that one of the two is off.
ForkExposure ==
    IF ~Answered("repo") THEN "unknown"
    ELSE IF repo.visibility = "public" THEN "exposed"
    ELSE IF ~repo.forking THEN "safe"
    ELSE IF ~Answered("fork policy") THEN "unknown"
    ELSE IF repo.forkRuns THEN "exposed" ELSE "safe"

\* The default branch's jobs that run fork code off GitHub's runners; a merge
\* queue runs it whatever the fork policy says.
ForkCheck ==
    LET offHosted == ~(Answered("repo") /\ Answered("files")) \/ repo.ciRunner # "hosted"
        queued == ~(Answered("repo") /\ Answered("files")) \/ (repo.mergeGroup /\ repo.ciRunner # "hosted")
    IN IF ForkExposure = "safe" /\ repo.forking THEN Mark(~queued, FALSE)
       ELSE IF ForkExposure = "safe" THEN "pass"
       ELSE Mark(~offHosted, ForkExposure = "unknown")

\* The App is the one the client ID names, among the installations visible.
AppFound ==
    /\ Answered("installations") /\ Answered("app") /\ Seen("client-id", "variables", "org variables")
    /\ repo.app \in {"exact", "broader", "elsewhere"}

BotCheck ==
    IF Cloud \/ ~AppFound THEN "none" ELSE Mark(repo.policy # "other bot", FALSE)

AppCheck ==
    IF Cloud THEN "pass" ELSE Mark(AppFound /\ Answered("app repositories") /\ repo.app = "exact", TRUE)

-----------------------------------------------------------------------------
Checks ==
    {ModeCheck, FilesCheck, ProfileCheck, CiCheck, PolicyCheck, NameCheck, RoutingCheck, LeaseBotCheck,
     PinCheck, DriftCheck, RoutineCheck, IssuesCheck, WritableCheck, PlatformCheck, TokenCheck,
     ContractCheck, AccessCheck, ActionsCheck, BranchCheck, PushedCheck, LabelsCheck, RulesetCheck,
     ActiveCheck, EffectiveCheck, PushRulesCheck, BranchRulesCheck, LegacyCheck, VariablesCheck,
     SecretsCheck, RunnerCheck, CiRunnerCheck, IsolationCheck, ForkCheck, BotCheck, AppCheck}

Ready == Checks \cap {"todo", "fail"} = {}

-----------------------------------------------------------------------------
(* A repository as onboarding leaves it, and what may become of it.        *)

Generated(cloud, routed) ==
    [f \in ManagedFile |->
        IF f = (IF cloud THEN "implement" ELSE "routine") \/ (f = "registry" /\ ~routed)
        THEN "absent" ELSE "generated"]

DoctorInit ==
    \E cloud, routed, org \in BOOLEAN, host \in Facts.platform :
        /\ ~(cloud /\ routed)
        /\ repo = [cloud |-> cloud, routed |-> routed, orgOwned |-> org, platform |-> host,
                   mode |-> "explicit", policy |-> "sound", agent |-> "known", route |-> "served",
                   forwards |-> TRUE, pins |-> "one", pinned |-> TRUE, calls |-> "fit",
                   inherits |-> FALSE, tokenDefault |-> "enough", issues |-> TRUE, writable |-> TRUE,
                   visibility |-> "private", sameOwner |-> TRUE, access |-> "organization",
                   actions |-> "admits", labels |-> TRUE, ruleset |-> "exact", active |-> TRUE,
                   rules |-> TRUE, pushRules |-> TRUE, branchRules |-> TRUE, legacy |-> "fits",
                   runner |-> "hosted", ciRunner |-> "hosted", online |-> "none", forking |-> FALSE,
                   forkRuns |-> FALSE, mergeGroup |-> FALSE, app |-> "exact", confirmed |-> cloud]
        /\ local = Generated(cloud, routed) /\ pushed = local
        /\ held = [c \in Credential |-> IF org THEN "organization" ELSE "repository"]
        /\ refused = {} /\ departures = 0

Departs == departures < MaxDepartures /\ departures' = departures + 1

Alter(f) ==
    /\ Departs /\ f \notin {"cloud", "routed", "orgOwned", "platform"}
    /\ \E v \in Facts[f] \ {repo[f]} : repo' = [repo EXCEPT ![f] = v]
    /\ UNCHANGED <<local, pushed, held, refused>>

\* A hand edit, a deletion or a leftover, in the checkout, on the branch or both.
EditFile(f) ==
    /\ Departs
    /\ \E v \in {"generated", "edited", "absent"}, where \in {{1}, {2}, {1, 2}} :
           /\ local' = IF 1 \in where THEN [local EXCEPT ![f] = v] ELSE local
           /\ pushed' = IF 2 \in where THEN [pushed EXCEPT ![f] = v] ELSE pushed
    /\ UNCHANGED <<repo, held, refused>>

Move(c) ==
    /\ Departs
    /\ \E v \in {"repository", "organization", "nowhere", "empty"} : held' = [held EXCEPT ![c] = v]
    /\ UNCHANGED <<repo, local, pushed, refused>>

Refuse(a) ==
    /\ Departs /\ refused' = refused \union {a}
    /\ UNCHANGED <<repo, local, pushed, held>>

DoctorNext ==
    \/ \E f \in DOMAIN Facts : Alter(f)
    \/ \E f \in ManagedFile : EditFile(f)
    \/ \E c \in Credential : Move(c)
    \/ \E a \in Answers : Refuse(a)

DoctorSpec == DoctorInit /\ [][DoctorNext]_doctorVars

-----------------------------------------------------------------------------
(* What the factory needs of the repository, whoever can read it.          *)

\* The mode its policy is read in, and the files that mode owns.
Routine == repo.cloud /\ repo.mode = "explicit"
Routes == repo.routed \/ pushed["registry"] # "absent"

\* The default branch holds what onboarding generates for this mode and no
\* launcher of the other.
Launchable ==
    /\ \A f \in {"policy", "guides", "hooks", "plan", "ci"} : pushed[f] # "absent"
    /\ \A f \in {"guides", "hooks", "plan", "ci"} : pushed[f] = "generated"
    /\ IF Routine THEN pushed["routine"] = "generated" /\ pushed["implement"] = "absent"
       ELSE pushed["implement"] = "generated" /\ pushed["routine"] = "absent"
    /\ Routes => pushed["registry"] = "generated" /\ repo.route = "served" /\ repo.forwards
    /\ repo.policy \in {"sound"} \union (IF Routine THEN {"no bot", "other bot"} ELSE {})
    /\ repo.issues /\ repo.writable /\ repo.labels /\ repo.active

\* Every call of the platform is admitted, at one pin, with a token that does.
Callable ==
    /\ repo.pins = "one" /\ repo.pinned /\ repo.calls = "fit"
    /\ repo.inherits => repo.tokenDefault = "enough"
    /\ repo.actions \in {"all", "admits"}
    /\ \/ repo.platform = "public"
       \/ /\ repo.sameOwner /\ repo.access # "none"
          /\ repo.visibility = "private" \/ (repo.visibility = "internal" /\ repo.platform = "internal")

Holds(c) == held[c] = "repository" \/ (held[c] = "organization" /\ repo.orgOwned)

\* Every step a run takes finds its credential.
Credentialed ==
    /\ Holds("claude-token")
    /\ repo.platform # "public" => Holds("platform-token")
    /\ Routes => Holds("routed-key")
    /\ ~Routine => Holds("client-id") /\ Holds("app-key") /\ repo.app = "exact"

\* Every job runs somewhere, and no fork's code on a runner of the owner's.
Hosted ==
    /\ \A target \in {repo.runner, repo.ciRunner} :
           target = "hosted" \/ (target = "selfhosted" /\ repo.online = "unix")
    /\ repo.ciRunner = "hosted"
       \/ ~(\/ repo.visibility = "public"
            \/ repo.forking /\ (repo.forkRuns \/ repo.mergeGroup))

Protected ==
    repo.ruleset = "exact" /\ repo.rules /\ repo.pushRules /\ repo.branchRules /\ repo.legacy # "blocks"

(***************************************************************************)
(* A report without TODO or FAIL speaks of GitHub as it is: approvals      *)
(* launch the generated workflows and nothing else, every call is          *)
(* admitted, every job has a runner and its credentials, the rules protect *)
(* the branch and let deliveries through, and fork code stays off the      *)
(* owner's runners - whatever answers were refused. The one thing a ready  *)
(* report leaves to the owner is a credential of the organization that     *)
(* could not be read, and then it warns (DoctorReport.ok and every check). *)
(***************************************************************************)
ReadyIsTrue ==
    Ready =>
        /\ Launchable /\ Callable /\ Hosted /\ Protected
        /\ Credentialed \/ (repo.orgOwned /\ (VariablesCheck = "warn" \/ SecretsCheck = "warn"))
=============================================================================
