---------------------------- MODULE RepoSettings ----------------------------
(***************************************************************************)
(* `sdlcctl onboard --apply` on the repository itself: labels, the         *)
(* `Protect main` ruleset and variables, call by call (apply_repo_settings)*)
(* with what is merged into a ruleset that exists (merged_ruleset) and     *)
(* what doctor finds wanting in it (ruleset_mismatches).  Calls fail,      *)
(* runs are repeated, and administrators edit the ruleset in between.      *)
(***************************************************************************)
EXTENDS Naturals, Sequences, FiniteSets, SequencesExt

CONSTANTS
    Approvals,  \* [policy] required_approvals
    Absent,     \* no ruleset of that name, no parameter
    Names,      \* the variables asked for
    MaxRuns,    \* bound on the runs of the command
    MaxTweaks   \* bound on the administrators' edits


VARIABLES
    remote,     \* the `Protect main` ruleset of the repository
    labelled,   \* whether the labels are there
    variables,  \* the variables that are set
    seenRules,  \* the ruleset the run has read
    step,       \* "idle", "read", "labels", "ruleset", "variables"
    wrote,      \* whether this run sent the ruleset (history)
    settled,    \* whether the ruleset is as this run left it (history)
    applied,    \* whether the last run came to its end, and it still is (history)
    runs, tweaks

settingsVars == <<remote, labelled, variables, seenRules, step, wrote, settled, applied, runs, tweaks>>

-----------------------------------------------------------------------------
(* Rulesets: a list of rules, several of one type included, under the      *)
(* conditions they apply on.  "pattern" is a type Forge has no rule of.    *)

Check == [context : {"test", "lint"}, app : {"actions", "any", "foreign"}]

BranchRule ==
    [type : {"deletion", "pattern"}]
    \union [type : {"pull_request"}, approvals : Nat, dismiss : BOOLEAN, owners : BOOLEAN]
    \union [type : {"checks"}, strict : BOOLEAN, checks : SUBSET Check]

Ruleset ==
    [enforcement : {"active", "evaluate"}, bypass : BOOLEAN, include : SUBSET {"default", "release"},
     exclude : BOOLEAN, rules : Seq(BranchRule)]

ASSUME SettingsAssumption == Approvals \in Nat /\ Absent \notin Ruleset

\* The gate as a required check, and the app that must report it.
GateBound == [context |-> "test", app |-> "actions"]

\* ruleset_payload. Conversation resolution is a boolean like the one of stale
\* reviews, and no forced pushes a rule without parameters like deletion.
ForgeRules ==
    <<[type |-> "deletion"],
      [type |-> "pull_request", approvals |-> Approvals, dismiss |-> TRUE, owners |-> FALSE],
      [type |-> "checks", strict |-> TRUE, checks |-> {GateBound}]>>

Payload == [enforcement |-> "active", bypass |-> FALSE, include |-> {"default"}, exclude |-> FALSE, rules |-> ForgeRules]

\* The places of the rules of a type.
OfType(rules, t) == {k \in DOMAIN rules : rules[k].type = t}

\* A rule's shortfall against Forge's (_parameter_shortfall).
Weaker(have, want) ==
    CASE want.type = "pull_request" ->
             have.approvals < want.approvals \/ ~have.dismiss
      [] want.type = "checks" ->
             \/ ~have.strict
             \/ \A c \in have.checks : c.context # "test"
             \/ \E c \in have.checks : c.context = "test" /\ c.app # "actions"
      [] OTHER -> FALSE

\* Of several rules of a type the last is the one compared.
Mismatched(actual) ==
    \/ actual.enforcement # "active" \/ actual.bypass \/ actual.exclude
    \/ "default" \notin actual.include
    \/ \E want \in ToSet(ForgeRules) :
           LET same == OfType(actual.rules, want.type)
           IN \/ same = {}
              \/ \E last \in same : (\A k \in same : k <= last) /\ Weaker(actual.rules[last], want)

\* Required checks: the gate bound to Actions once, the others as they are.
MergedChecks(have) == {c \in have : c.context # "test"} \union {GateBound}

\* Mutation: Forge's own number of approvals replaces the one there.
MergedRuleOver(have, want) ==
    CASE want.type = "pull_request" -> [have EXCEPT !.approvals = want.approvals, !.dismiss = TRUE]
      [] want.type = "checks" -> [have EXCEPT !.strict = TRUE, !.checks = MergedChecks(@)]
      [] OTHER -> have

\* _merge_rule_parameters: the stricter side of every parameter.
MergedRule(have, want) ==
    CASE want.type = "pull_request" ->
             [have EXCEPT !.approvals = IF @ > want.approvals THEN @ ELSE want.approvals,
                          !.dismiss = TRUE]
      [] want.type = "checks" -> [have EXCEPT !.strict = TRUE, !.checks = MergedChecks(@)]
      [] OTHER -> have

ForgeRule(t) == CHOOSE want \in ToSet(ForgeRules) : want.type = t
ForgeTypes == {want.type : want \in ToSet(ForgeRules)}

\* Forge's rule of a type none of the rules has.
Lacking(rules, t) == IF OfType(rules, t) = {} THEN <<ForgeRule(t)>> ELSE <<>>

\* Every rule is kept, in order; each of a type Forge sets is raised to its floor.
MergedRules(rules) ==
    [k \in DOMAIN rules |-> IF rules[k].type \in ForgeTypes THEN MergedRule(rules[k], ForgeRule(rules[k].type))
                            ELSE rules[k]]
        \o Lacking(rules, "deletion") \o Lacking(rules, "pull_request") \o Lacking(rules, "checks")

Merged(actual) ==
    [enforcement |-> "active", bypass |-> FALSE, include |-> actual.include \union {"default"},
     exclude |-> FALSE, rules |-> MergedRules(actual.rules)]

-----------------------------------------------------------------------------
(* The run, one call after another.                                        *)

Idle == step = "idle"

\* An archived repository or an answer that is missing refuses before any write.
Begin ==
    /\ Idle /\ runs < MaxRuns /\ runs' = runs + 1
    /\ \/ step' = "labels" /\ seenRules' = remote
       \/ step' = "idle" /\ seenRules' = seenRules
    /\ wrote' = FALSE /\ settled' = FALSE /\ applied' = FALSE
    /\ UNCHANGED <<remote, labelled, variables, tweaks>>

\* A call that raises ends the run where it is.
Raise ==
    /\ step \in {"labels", "ruleset", "variables"}
    /\ step' = "idle"
    /\ UNCHANGED <<remote, labelled, variables, seenRules, wrote, settled, applied, runs, tweaks>>

Label ==
    /\ step = "labels" /\ labelled' = TRUE /\ step' = "ruleset"
    /\ UNCHANGED <<remote, variables, seenRules, wrote, settled, applied, runs, tweaks>>

\* GitHub refuses a second ruleset of the name.
Create ==
    /\ step = "ruleset" /\ seenRules = Absent
    /\ IF remote = Absent
       THEN remote' = Payload /\ step' = "variables" /\ wrote' = TRUE /\ settled' = TRUE
       ELSE step' = "idle" /\ UNCHANGED <<remote, wrote, settled>>
    /\ UNCHANGED <<labelled, variables, seenRules, applied, runs, tweaks>>

Update ==
    /\ step = "ruleset" /\ seenRules # Absent
    /\ IF ~Mismatched(seenRules)
       THEN step' = "variables" /\ settled' = (remote = seenRules) /\ UNCHANGED <<remote, wrote>>
       ELSE IF remote = Absent
       THEN step' = "idle" /\ UNCHANGED <<remote, wrote, settled>>
       ELSE remote' = Merged(seenRules) /\ step' = "variables" /\ wrote' = TRUE /\ settled' = TRUE
    /\ UNCHANGED <<labelled, variables, seenRules, applied, runs, tweaks>>

SetVariables ==
    /\ step = "variables"
    /\ variables' = variables \union Names /\ step' = "idle" /\ applied' = settled
    /\ UNCHANGED <<remote, labelled, seenRules, wrote, settled, runs, tweaks>>

-----------------------------------------------------------------------------
(* The administrators.                                                     *)

Rule ==
    {[type |-> "deletion"], [type |-> "pattern"]}
    \union [type : {"pull_request"}, approvals : {0, Approvals + 1}, dismiss : BOOLEAN, owners : BOOLEAN]
    \union [type : {"checks"}, strict : BOOLEAN,
            checks : {{}, {[context |-> "test", app |-> "any"], GateBound},
                      {[context |-> "lint", app |-> "foreign"]}, {GateBound}}]

Administer(new) ==
    /\ tweaks < MaxTweaks /\ tweaks' = tweaks + 1
    /\ new # remote /\ remote' = new /\ settled' = FALSE /\ applied' = FALSE
    /\ UNCHANGED <<labelled, variables, seenRules, step, wrote, runs>>

Edit ==
    \/ Administer(Absent)
    \/ remote = Absent /\ \E r \in Rule : Administer([Payload EXCEPT !.rules = <<r>>])
    \/ remote # Absent /\
           \/ \E r \in Rule : Administer([remote EXCEPT !.rules = Append(@, r)])
           \/ remote.rules # <<>> /\ Administer([remote EXCEPT !.rules = Tail(@)])
           \/ Administer([remote EXCEPT !.enforcement = "evaluate"])
           \/ Administer([remote EXCEPT !.bypass = TRUE])
           \/ \E i \in SUBSET {"default", "release"} : Administer([remote EXCEPT !.include = i])
           \/ Administer([remote EXCEPT !.exclude = TRUE])

SettingsInit ==
    /\ remote = Absent /\ labelled = FALSE /\ variables = {}
    /\ seenRules = Absent /\ step = "idle" /\ wrote = FALSE /\ settled = FALSE /\ applied = FALSE
    /\ runs = 0 /\ tweaks = 0

SettingsNext == Begin \/ Raise \/ Label \/ Create \/ Update \/ SetVariables \/ Edit

SettingsSpec == SettingsInit /\ [][SettingsNext]_settingsVars

-----------------------------------------------------------------------------
(* What GitHub enforces: the strictest of all the rules together.          *)

Enforces(actual) ==
    /\ actual.enforcement = "active" /\ ~actual.bypass /\ ~actual.exclude /\ "default" \in actual.include
    /\ \E r \in ToSet(actual.rules) : r.type = "deletion"
    /\ \E r \in ToSet(actual.rules) : r.type = "pull_request" /\ r.approvals >= Approvals
    /\ \E r \in ToSet(actual.rules) : r.type = "pull_request" /\ r.dismiss
    /\ \E r \in ToSet(actual.rules) : r.type = "checks" /\ r.strict
    /\ \E r \in ToSet(actual.rules) : r.type = "checks" /\ GateBound \in r.checks

\* Whatever `have` demands `now` demands too.
AsStrict(now, have) ==
    /\ have.include \subseteq now.include /\ (have.enforcement = "active" => now.enforcement = "active")
    /\ Len(now.rules) >= Len(have.rules)
    /\ \A k \in DOMAIN have.rules :
           LET a == have.rules[k]
               b == now.rules[k]
           IN /\ b.type = a.type
              /\ a.type = "pull_request" =>
                     /\ b.approvals >= a.approvals
                     /\ (a.dismiss => b.dismiss) /\ (a.owners => b.owners)
              /\ a.type = "checks" =>
                     /\ a.strict => b.strict
                     /\ \A c \in a.checks :
                            c \in b.checks \/ (c.context = "test" /\ GateBound \in b.checks)

(***************************************************************************)
(* After a run that came to its end GitHub enforces what Forge requires,   *)
(* doctor finds nothing to object and another run would send nothing; no   *)
(* control the run had read is weaker for it; and doctor is never content  *)
(* with a ruleset that enforces less (apply_repo_settings, merged_ruleset, *)
(* ruleset_mismatches).                                                    *)
(***************************************************************************)
SettingsEnforced ==
    /\ applied => labelled /\ Names \subseteq variables /\ remote # Absent /\ Enforces(remote) /\ ~Mismatched(remote)
    /\ wrote /\ seenRules # Absent /\ step = "variables" => AsStrict(Merged(seenRules), seenRules)
    /\ remote # Absent /\ ~Mismatched(remote) => Enforces(remote)
=============================================================================
