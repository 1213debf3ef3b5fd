------------------------------ MODULE MCSetup ------------------------------
(***************************************************************************)
(* What sets a repository up, takes its events in, approves and packs its  *)
(* work and guards its branches, each checked while the others rest: they  *)
(* share no state, and a run of one says nothing of another.               *)
(***************************************************************************)
EXTENDS BranchRules, CalleeGraph, Doctor, Onboarding, RepoSettings, CommitGuard, Dispatcher,
        ContextPacket, RequestCheck

CONSTANTS ci, lint, mine, sample, file, secret, root, left, right, far, leaf,
          main, one, opened, edited, paused, unnumbered, unit1, w1, w2

VARIABLE subject  \* the component this behaviour is about

mcVars == <<subject, branchVars, calleeVars, doctorVars, onboardVars, settingsVars, guardVars, dispatchVars,
            packetVars, requestVars>>

Opt(S) == {{}} \union {{x} : x \in S}
Few(S) == {{x, y} : x, y \in S} \union {{}}

-----------------------------------------------------------------------------
(* BranchRules: a workflow that runs the gate, another beside it, up to    *)
(* two requirements; or one rule over the publisher's branches.            *)

Silent == [active |-> FALSE, does |-> [e \in Trigger |-> "none"], jobs |-> {}]
MCCi == {[active |-> a, does |-> [e \in Trigger |-> IF e = "pull_request" THEN "every" ELSE q],
          jobs |-> {[context |-> Gate, known |-> TRUE]}] : a \in BOOLEAN, q \in {"every", "none"}}
MCOther == {[active |-> TRUE, does |-> [e \in Trigger |-> IF e = "pull_request" THEN d ELSE q], jobs |-> j] :
              d \in {"every", "some", "none"}, q \in {"every", "none"},
              j \in {{}} \union {{[context |-> c, known |-> k]} : c \in Context, k \in BOOLEAN}}

MCCheck == {[by |-> b, type |-> "required_status_checks", context |-> c, app |-> a] :
              b \in {"ruleset", "classic"}, c \in Context, a \in {"any", "actions", "foreign"}}
MCRequirement == {[by |-> "ruleset", type |-> t, context |-> Gate, app |-> "any"] :
                    t \in {"merge_queue", "update", "pull_request"}}
                 \union {[by |-> "classic", type |-> "lock_branch", context |-> Gate, app |-> "any"]}

MCPattern == [matches: SUBSET Branch, opaque: BOOLEAN]
MCRule == {[type |-> "branch_name_pattern", accepts |-> a, opaque |-> o, spares |-> FALSE] :
             a \in SUBSET Branch, o \in BOOLEAN}
          \union {[type |-> t, accepts |-> {}, opaque |-> FALSE, spares |-> s] :
             t \in {"required_status_checks", "creation", "deletion"}, s \in BOOLEAN}
MCRuleset == {[include |-> {i}, exclude |-> x, rule |-> u, enforcement |-> e] :
    i \in MCPattern, x \in Opt(MCPattern), u \in MCRule, e \in {"active", "evaluate", "disabled"}}
MCClassic == [matches: SUBSET Branch, opaque: BOOLEAN, demands: BOOLEAN, restricts: BOOLEAN, admits: BOOLEAN]
MCPushes == [enforcement: {"active", "evaluate", "disabled"}, limits: BOOLEAN, restricts: SUBSET FilePath]

BranchRest ==
    /\ serves = [w \in Workflow |-> Silent] /\ required = {} /\ unread = {}
    /\ rulesets = {} /\ classic = {} /\ pushes = {}

BranchInit ==
    \/ /\ serves \in {s \in [Workflow -> MCCi \union MCOther] : s[ci] \in MCCi /\ s[lint] \in MCOther /\ Visible(s)}
       /\ required \in {a \union b : a \in Opt(MCCheck), b \in Opt(MCRequirement)}
       /\ unread \in Opt({"rules", "files", "protection"})
       /\ unread # {} => serves[lint] = [Silent EXCEPT !.active = TRUE]
       /\ rulesets = {} /\ classic = {} /\ pushes = {}
    \/ /\ serves = [w \in Workflow |-> Silent] /\ required = {}
       /\ unread \in Opt({"listed", "branch", "classic", "detail", "allowlist", "pusher"})
       /\ \/ rulesets \in Opt(MCRuleset) /\ classic = {} /\ pushes = {}
          \/ rulesets = {} /\ classic \in Opt(MCClassic) /\ pushes = {}
          \/ rulesets = {} /\ classic = {} /\ pushes \in Opt(MCPushes)

-----------------------------------------------------------------------------
(* CalleeGraph: five files that call one another, one of them out of       *)
(* reach, calling back or beyond; or three files whose jobs ask for tokens.*)

MCJob(t, s) == [to |-> t, asks |-> s]

CalleeRest ==
    jobs = [f \in Callee |-> {}] /\ readable = Callee /\ grant = 1 /\ misfit = {}

CalleeInit ==
    \/ /\ grant = 1
       /\ \E first \in Few(Callee \ {root}), second \in Few({right, far, leaf}),
             third \in Opt({left, leaf}), fourth \in Opt({leaf}), loop \in Opt(Callee \ {root}), out \in Opt(Callee) :
              /\ loop = {} \/ out = {}
              /\ jobs = [f \in Callee |-> {MCJob(t, Inherit) : t \in
                              (CASE f = root -> first [] f = left -> second [] f = right -> third
                                 [] f = far -> fourth [] f = leaf -> {})
                              \union (IF f \in loop THEN {root} ELSE {})
                              \union (IF f \in out THEN {Beyond} ELSE {})}]
              /\ IF out # {} \/ loop # {} THEN readable = Callee /\ misfit = {}
                 ELSE \/ readable = Callee /\ misfit \in {{}, {<<left, right>>}}
                      \/ misfit = {} /\ \E f \in Callee : readable = Callee \ {f}
    \/ /\ grant \in Level /\ readable = Callee /\ misfit = {}
       /\ \E x, y \in Few({MCJob(t, s) : t \in {left, right, NoCall}, s \in {1, 2, Inherit}}),
             z \in Few({MCJob(NoCall, s) : s \in {1, 2, Inherit}}) :
              jobs = [f \in Callee |-> IF f = root THEN x ELSE IF f = left THEN y ELSE IF f = right THEN z ELSE {}]

-----------------------------------------------------------------------------
DoctorRest == ~repo.cloud /\ ~repo.routed /\ ~repo.orgOwned /\ repo.platform = "public"

MCProfile == {[mode |-> "actions", routed |-> FALSE, commands |-> 1],
              [mode |-> "actions", routed |-> TRUE, commands |-> 1],
              [mode |-> "cloud", routed |-> FALSE, commands |-> 2]}

\* CommitGuard: one branch of an issue, who leases it, and where it is.
MCIssueOf == [b \in BranchName |-> IF b = one THEN "issue" ELSE NoIssue]
Leased(who, payload, failing) ==
    holder = [i \in Issue |-> who] /\ session = payload /\ blocked = failing
At(here, there) ==
    existing = {here, there} /\ head = [c \in Checkout |-> IF c = "here" THEN here ELSE there]
GuardRest == Leased("other", TRUE, {}) /\ proposed = [b \in BranchName |-> FALSE] /\ At(main, main)
GuardSetting ==
    \/ /\ proposed = [b \in BranchName |-> FALSE]
       /\ \/ Leased("other", TRUE, {}) /\ (At(one, main) \/ At(main, one))
          \/ Leased("other", TRUE, {"git"}) /\ At(one, main)
          \/ Leased("other", TRUE, {"lease"}) /\ At(one, main)
          \/ Leased("mine", FALSE, {}) /\ At(main, one)
          \/ Leased("nobody", TRUE, {"pulls"}) /\ At(main, one)
    \/ Leased("nobody", TRUE, {}) /\ At(main, one) /\ proposed = [b \in BranchName |-> b = one]

MCLabels == [e \in Notice |-> {"forge-managed"} \union (IF e = paused THEN {"forge-paused"} ELSE {})]
MCItemOf == [e \in Notice |-> IF e = unnumbered THEN NoItem ELSE unit1]

\* ContextPacket: up to three records, the first required, the third perhaps unreadable.
MCRecord ==
    {[id |-> 1, source |-> "code", relevance |-> 0, size |-> 2, fresh |-> f, place |-> p, secret |-> FALSE, content |-> 1] :
        f \in BOOLEAN, p \in {"seen", "forbidden", "otherTree"}}
    \union {[id |-> 2, source |-> "wiki", relevance |-> v, size |-> z, fresh |-> f, place |-> "seen", secret |-> FALSE, content |-> 1] :
        v \in {0, 2}, z \in {1, 3}, f \in BOOLEAN}
    \union {[id |-> 3, source |-> "chat", relevance |-> 1, size |-> z, fresh |-> TRUE, place |-> "seen", secret |-> FALSE, content |-> 2] :
        z \in {1, 3}}
MCSources(chatty) == [s \in Source |-> [required |-> s = "code", readable |-> s # "chat" \/ chatty]]
NoAsk == [records |-> <<>>, sources |-> MCSources(TRUE), failed |-> {}, highRisk |-> FALSE, budget |-> 5, tokens |-> 5, findings |-> 0]
MCGiven ==
    LET One(src) == {r \in MCRecord : r.source = src}
    IN {<<c>> : c \in One("code")}
       \union {<<x, y>> : x \in One("code"), y \in One("wiki")}
       \union {<<x, y>> : x \in One("wiki"), y \in MCRecord}
       \union {<<x, y, z>> : x \in One("code"), y \in One("wiki"), z \in MCRecord}
PacketAsked ==
    /\ IF subject # "packet" THEN ask = NoAsk
       ELSE \E given \in MCGiven, chatty, risky \in BOOLEAN, lost \in {{}, {"wiki"}, {"code"}}, room \in {5, 7} :
              ask = [records |-> given, sources |-> MCSources(chatty),
                     failed |-> lost, highRisk |-> risky, budget |-> room, tokens |-> 6, findings |-> 0]
    /\ PacketInit

\* RequestCheck: at rest, one of its initial states.
RequestRest ==
    /\ pulls = {} /\ issue.events[1].label = CHOOSE l \in ApprovalLabel : TRUE
    /\ \A i \in 1 .. 2 : issue.events[i].by = CHOOSE who \in Person : TRUE

-----------------------------------------------------------------------------
MCInit ==
    /\ subject \in {"rules", "callees", "doctor", "onboarding", "settings", "guard", "intake",
                   "packet", "request"}
    /\ GuardInit /\ (IF subject = "guard" THEN GuardSetting ELSE GuardRest)
    /\ DoctorInit /\ (subject = "doctor" \/ DoctorRest)
    /\ OnboardInit /\ (subject = "onboarding" \/ asked = CHOOSE p \in Profile : TRUE)
    /\ SettingsInit
    /\ DispatchInit
    /\ PacketAsked
    /\ RequestInit /\ (subject = "request" \/ RequestRest)
    /\ (IF subject = "callees" THEN CalleeInit ELSE CalleeRest) /\ WalkInit
    /\ IF subject = "rules" THEN BranchInit ELSE BranchRest
    /\ BranchStart

MCNext ==
    /\ UNCHANGED subject
    /\ \/ /\ subject = "rules" /\ BranchNext
          /\ UNCHANGED <<calleeVars, doctorVars, onboardVars, settingsVars, guardVars,
                         dispatchVars, packetVars, requestVars>>
       \/ /\ subject = "callees" /\ CalleeNext
          /\ UNCHANGED <<branchVars, doctorVars, onboardVars, settingsVars, guardVars,
                         dispatchVars, packetVars, requestVars>>
       \/ /\ subject = "doctor" /\ DoctorNext
          /\ UNCHANGED <<branchVars, calleeVars, onboardVars, settingsVars, guardVars,
                         dispatchVars, packetVars, requestVars>>
       \/ /\ subject = "onboarding" /\ OnboardNext
          /\ UNCHANGED <<branchVars, calleeVars, doctorVars, settingsVars, guardVars,
                         dispatchVars, packetVars, requestVars>>
       \/ /\ subject = "settings" /\ SettingsNext
          /\ UNCHANGED <<branchVars, calleeVars, doctorVars, onboardVars, guardVars,
                         dispatchVars, packetVars, requestVars>>
       \/ /\ subject = "guard" /\ GuardNext
          /\ Len(segments') < MaxSegments \/ (session /\ blocked = {})
          /\ UNCHANGED <<branchVars, calleeVars, doctorVars, onboardVars, settingsVars,
                         dispatchVars, packetVars, requestVars>>
       \/ /\ subject = "intake" /\ DispatchNext
          /\ UNCHANGED <<branchVars, calleeVars, doctorVars, onboardVars, settingsVars,
                         guardVars, packetVars, requestVars>>
       \/ /\ subject = "packet" /\ PacketNext
          /\ UNCHANGED <<branchVars, calleeVars, doctorVars, onboardVars, settingsVars,
                         guardVars, dispatchVars, requestVars>>
       \/ /\ subject = "request" /\ RequestNext
          /\ UNCHANGED <<branchVars, calleeVars, doctorVars, onboardVars, settingsVars,
                         guardVars, dispatchVars, packetVars>>

MCSpec == MCInit /\ [][MCNext]_mcVars
=============================================================================
