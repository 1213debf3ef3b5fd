------------------------------ MODULE MCRecords -----------------------------
(***************************************************************************)
(* The factory's records, what is told of them and the dispatches that     *)
(* rest on them, each checked while the others rest: they share no state,  *)
(* and a run of one says nothing of another.                               *)
(***************************************************************************)
EXTENDS EventLedger, UsageLedger, UsageMoney, WriteGroup, Forecast, PacketDispatch,
        ControlCenter

CONSTANTS c1, c2, a1, a2, alias, reaim, kept, u1, u2

VARIABLE subject  \* the component this behaviour is about

mcVars == <<subject, ledgerVars, usageVars, moneyVars, groupVars, forecastVars,
            handoverVars, centerVars, backlogVars>>

\* Two units: one that needs a repair, one that may be merged.
MCPast ==
    LET verified == <<"intake", "triaged", "blocked", "dispatched", "implementing", "verifying">>
    IN {verified \o <<"repair-needed">>, verified \o <<"reviewing", "ready-for-human-merge">>}
MCRoute == {"ready-for-human-merge", "repairing", "re-reviewing", "merged", "live"}

MCPath == [a \in Attempt |-> IF a = a1 THEN <<"narrow", "all">> ELSE <<"other", "all">>]
MCBaseline == [a \in Attempt |-> 4]

MCFiles == <<"forecast.json", "forecast.csv", "forecast.md">>

\* A diamond: b and c after a, d after both; a and d have a history of their own.
MCDependsOn == [u \in Task |-> CASE u = "a" -> {}
                                 [] u \in {"b", "c"} -> {"a"}
                                 [] u = "d" -> {"b", "c"}]
MCMission == [u \in Task |-> IF u \in {"a", "d"} THEN "known" ELSE "new"]
MCRuntimes == [m \in {"known", "new"} |-> IF m = "known" THEN <<1, 3, 2>> ELSE <<4>>]

\* PacketDispatch: rosters of two bases, and one that gives an agent another name.
AnyKind == {"implementation", "repair", "review"}
Entry(i, who, able, fits) == [id |-> i, actor |-> who, able |-> able, fits |-> fits]
MCRoster == [v \in {0, 1, 2} \union Rewrite |->
    CASE v = 0 -> <<Entry("a", "a", AnyKind, TRUE)>>
      [] v = 1 -> <<Entry("a", "a", AnyKind, TRUE), Entry("b", "b", AnyKind, TRUE),
                    Entry("c", "c", {"review"}, TRUE)>>
      [] v = 2 -> <<Entry("b", "b", AnyKind, TRUE), Entry("c", "c", {"review"}, FALSE),
                    Entry("a", "a", {"review"}, TRUE), Entry("d", "d", {"review"}, TRUE)>>
      [] OTHER -> <<Entry("x", "a", AnyKind, TRUE)>>]
Commit(config, does, works) == [config |-> config, does |-> does, works |-> works]
MCDraft(n) ==
    IF n = 1 THEN {Commit(alias, "code", {1, 2}), Commit(kept, "forbidden", {1})}
    ELSE {Commit(kept, "undo", {1, 2}), Commit(reaim, "code", {0})}

\* BacklogExport: another tracker's items of the same numbers.
MCOtherItems ==
    {[provider |-> "gitlab", id |-> 1, parent |-> 3], [provider |-> "gitlab", id |-> 3, parent |-> Top]}

\* ControlCenter: two trackers' repositories, and units at the gates.
MCRepoOf == [r \in {"forge#1", "forge!1", "tools!2"} |-> IF r = "tools!2" THEN "tools" ELSE "forge"]
MCHistories ==
    LET triaged == <<"intake", "triaged", "specified">>
        approved == triaged \o <<"planned", "approval-pending", "approved">>
        ran == approved \o <<"dispatched", "implementing", "verifying">>
        ready == ran \o <<"reviewing", "ready-for-human-merge">>
        second == {triaged, ready}
        first == second \union {triaged \o <<"planned">>, approved, approved \o <<"blocked">>, ran \o <<"blocked">>}
    IN {f \in [WorkUnits -> first] : f[u2] \in second}
\* A label set for each rule.
MCLabelled == {DispatchRules[k].required : k \in DOMAIN DispatchRules}
              \union {{"drafted", "review", "released"}}

\* Labels are told of an issue, merges of a change request: one or the other.
OfIssues == \E u \in WorkUnits : status[u].issue = IssueRef
CenterSetting ==
    IF OfIssues
    THEN /\ declared["tools"] = {}
         /\ \A u \in WorkUnits : status[u].change = NoRef /\ \A r \in ChangeRefs : truth[u].change[r] = CHOOSE t \in Registered(r) : TRUE
    ELSE /\ declared["tools"] \in {{}, {"gitlab"}}
         /\ \A u \in WorkUnits : /\ truth[u].issue = "github"
                                  /\ status[u].state \in {"approved", "ready-for-human-merge"}
CenterAsked ==
    IF OfIssues
    THEN /\ \A u \in WorkUnits : status'[u].change = NoRef
         /\ \A n \in loaded'.incidents : n.item # NoRef
    ELSE Cardinality(loaded'.items) <= 1 /\ \A n \in loaded'.incidents : n.item = NoRef
CenterRest ==
    /\ status = [u \in WorkUnits |->
          [state |-> "triaged", seen |-> {"triaged"}, issue |-> NoRef, change |-> NoRef,
           repo |-> RepoOf[IssueRef], merged |-> {}]]
    /\ declared = [r \in Repository |-> {}]
    /\ truth = [u \in WorkUnits |-> [issue |-> "github", change |-> [r \in ChangeRefs |-> "github"]]]
    /\ really = {} /\ lap = [u \in WorkUnits |-> {}] /\ steps = 0 /\ loaded = [items |-> {}, incidents |-> {}]

\* The clerks of the usage ledger are the same two commands.
Clerks == Permutations(Command)

-----------------------------------------------------------------------------
MCInit ==
    /\ subject \in {"events", "usage", "money", "export", "forecast", "handover", "backlog", "console"}
    /\ IF subject = "money" THEN MoneyInit
       ELSE claim = (CHOOSE c \in Claim : TRUE) /\ entry = "submitted"
    /\ IF subject = "events" THEN LedgerInit
       ELSE /\ happened = <<[id |-> 1, state |-> "intake", at |-> 1, ref |-> NoRef]>>
            /\ ledger = <<>> /\ torn = FALSE /\ stale = FALSE
            /\ command = [c \in Command |-> <<>>]
    /\ UsageInit /\ HandoverInit
    /\ BacklogInit /\ (subject = "backlog" \/ family = [n \in Number |-> Top])
    /\ IF subject = "console" THEN CenterInit /\ CenterSetting ELSE CenterRest
    /\ IF subject = "export" THEN GroupInit
       ELSE /\ existed = {} /\ disk = [f \in File |-> "none"] /\ staged = {} /\ backup = {}
            /\ done = 0 /\ phase = "stage" /\ faults = 0
    /\ IF subject = "forecast" THEN ForecastInit
       ELSE /\ progress = [u \in Task |-> "completed"] /\ begun = [u \in Task |-> 0]
            /\ told = {} /\ hour = 0 /\ early = FALSE /\ late = FALSE

MCNext ==
    /\ UNCHANGED subject
    /\ \/ /\ subject = "events" /\ LedgerNext
          /\ UNCHANGED <<usageVars, moneyVars, groupVars, forecastVars,
                         handoverVars, backlogVars, centerVars>>
       \/ /\ subject = "usage" /\ UsageNext
          /\ UNCHANGED <<ledgerVars, moneyVars, groupVars, forecastVars,
                         handoverVars, backlogVars, centerVars>>
       \/ /\ subject = "money" /\ MoneyNext
          /\ UNCHANGED <<ledgerVars, usageVars, groupVars, forecastVars,
                         handoverVars, backlogVars, centerVars>>
       \/ /\ subject = "export" /\ GroupNext
          /\ UNCHANGED <<ledgerVars, usageVars, moneyVars, forecastVars,
                         handoverVars, backlogVars, centerVars>>
       \/ /\ subject = "forecast" /\ ForecastNext
          /\ UNCHANGED <<ledgerVars, usageVars, moneyVars, groupVars,
                         handoverVars, backlogVars, centerVars>>
       \/ /\ subject = "handover" /\ HandoverNext
          /\ UNCHANGED <<ledgerVars, usageVars, moneyVars, groupVars,
                         forecastVars, backlogVars, centerVars>>
       \/ /\ subject = "backlog" /\ BacklogNext
          /\ UNCHANGED <<ledgerVars, usageVars, moneyVars, groupVars,
                         forecastVars, handoverVars, centerVars>>
       \/ /\ subject = "console" /\ CenterNext /\ CenterAsked
          /\ UNCHANGED <<ledgerVars, usageVars, moneyVars, groupVars,
                         forecastVars, handoverVars, backlogVars>>

MCSpec == MCInit /\ [][MCNext]_mcVars
=============================================================================
