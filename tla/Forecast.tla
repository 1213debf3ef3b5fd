------------------------------ MODULE Forecast ------------------------------
(***************************************************************************)
(* The schedule forecast (schedule_forecast.py) beside the work it is      *)
(* about: a graph of units is worked off, and at any moment the forecast   *)
(* is computed anew from what is observed then.  The forecast is a         *)
(* function; what is to be shown is how its answers relate over time.      *)
(***************************************************************************)
EXTENDS Naturals, Sequences, FiniteSets, FiniteSetsExt, SequencesExt

CONSTANTS
    Task,         \* the units of a project's work graph
    DependsOn,    \* DependsOn[u]: the units it builds on
    Mission,      \* Mission[u]: what it is observed under
    Runtimes,     \* Runtimes[m]: runtimes of finished attempts of a mission
    Limit,        \* timeoutSeconds
    Enough,       \* min_samples
    Horizon       \* bound: how long the work is watched

\* `validate_graph` refuses a cycle: of some units one builds on none of them.
ASSUME ForecastAssumption ==
    /\ IsFiniteSet(Task) /\ DependsOn \in [Task -> SUBSET Task]
    /\ \A units \in SUBSET Task : units # {} => \E u \in units : DependsOn[u] \cap units = {}
    /\ Mission \in [Task -> DOMAIN Runtimes] /\ IsFiniteSet(DOMAIN Runtimes)
    /\ \A m \in DOMAIN Runtimes : Runtimes[m] \in Seq(Nat)
    /\ Limit \in Nat /\ Enough \in Nat \ {0}

VARIABLES
    progress,  \* per unit: "pending", "running", "completed", "failed"
    begun,     \* per unit: when it was started
    told,      \* the running units whose startedAt is given: it is optional
    hour,      \* the time the forecast is given as now
    early,     \* whether a unit completed, or proved to have started, sooner than forecast
    late       \* whether a unit took longer or waited, or runs since nobody knows when

forecastVars == <<progress, begun, told, hour, early, late>>

-----------------------------------------------------------------------------
(* Durations.                                                              *)

\* The ceil(q * n)-th smallest sample.
NearestRank(samples, q) ==
    LET rank == (q * Cardinality(DOMAIN samples) + 99) \div 100
    IN CHOOSE v \in {samples[i] : i \in DOMAIN samples} :
          /\ Cardinality({i \in DOMAIN samples : samples[i] <= v}) >= rank
          /\ Cardinality({i \in DOMAIN samples : samples[i] < v}) < rank

\* The project's samples, whatever the mission.
Pooled ==
    LET of == UNION {{m} \X DOMAIN Runtimes[m] : m \in DOMAIN Runtimes}
    IN [p \in of |-> Runtimes[p[1]][p[2]]]

\* `estimate_duration`: the mission's history, the project's, or the limit.
Duration(u, q) ==
    IF Len(Runtimes[Mission[u]]) >= Enough THEN NearestRank(Runtimes[Mission[u]], q)
    ELSE IF Cardinality(DOMAIN Pooled) >= Enough THEN NearestRank(Pooled, q)
    ELSE Limit

-----------------------------------------------------------------------------
(* The forecast.                                                           *)

\* Mutation: a running unit is given its full duration from now on.
FinishAfresh(q) ==
    LET f[u \in Task] ==
            IF progress[u] = "completed" THEN hour
            ELSE Max({hour} \cup {f[d] : d \in DependsOn[u]}) + Duration(u, q)
    IN f

\* A running unit's start: now, when the document does not say.
Since(u) == IF u \in told THEN begun[u] ELSE hour

\* `_schedule`: completed units are done now, a running one ends when its time
\* is over, any other starts when the last unit it depends on has finished.
Finish(q) ==
    LET f[u \in Task] ==
            IF progress[u] = "completed" THEN hour
            ELSE IF progress[u] = "running" THEN Max({hour, Since(u) + Duration(u, q)})
            ELSE Max({hour} \cup {f[d] : d \in DependsOn[u]}) + Duration(u, q)
    IN f

Remaining == {u \in Task : progress[u] # "completed"}

Eta(q) == Max({hour} \cup {Finish(q)[u] : u \in Remaining})

\* Mutation: any unfinished dependency drives a start.
AnyDriver(u, q) ==
    {d \in DependsOn[u] : progress[u] \in {"pending", "failed"} /\ Finish(q)[d] > hour}

\* The dependency that sets a unit's start, if one does (ties: any of them).
Driver(u, q) ==
    {d \in DependsOn[u] : /\ progress[u] \in {"pending", "failed"}
                          /\ Finish(q)[d] > hour
                          /\ \A e \in DependsOn[u] : Finish(q)[e] <= Finish(q)[d]}

\* `_critical_path`: back from the unit that finishes last, driver by driver.
CriticalPath(q) ==
    LET tail == CHOOSE u \in Remaining : Finish(q)[u] = Eta(q)
        back[n \in 0 .. Cardinality(Task)] ==
            IF n = 0 THEN <<tail>>
            ELSE LET path == back[n - 1] IN
                 IF Driver(path[1], q) = {} THEN path
                 ELSE <<CHOOSE d \in Driver(path[1], q) : TRUE>> \o path
    IN IF Remaining = {} THEN <<>> ELSE back[Cardinality(Task)]

\* `_blocking_reasons`, without signals from elsewhere.
BlockingReasons(u) ==
    LET waits == progress[u] \notin {"completed", "running"}
                    /\ \E d \in DependsOn[u] : progress[d] # "completed"
    IN IF waits THEN {"dependency-blocked"}
       ELSE IF progress[u] = "failed" THEN {"unknown"}
       ELSE {}

Runnable(u) == progress[u] = "pending" /\ BlockingReasons(u) = {}

-----------------------------------------------------------------------------
(* The work.  It goes to plan unless `early` or `late`.                    *)

ForecastInit ==
    /\ progress = [u \in Task |-> "pending"]
    /\ begun = [u \in Task |-> 0] /\ told = {}
    /\ hour = 0 /\ early = FALSE /\ late = FALSE

StartTask(u) ==
    /\ progress[u] = "pending" /\ \A d \in DependsOn[u] : progress[d] = "completed"
    /\ progress' = [progress EXCEPT ![u] = "running"]
    /\ begun' = [begun EXCEPT ![u] = hour]
    /\ told' \in {told \cup {u}, told}
    /\ UNCHANGED <<hour, early, late>>

CompleteTask(u) ==
    /\ progress[u] = "running"
    /\ progress' = [progress EXCEPT ![u] = "completed"]
    /\ early' = (early \/ hour < Since(u) + Duration(u, 50))
    /\ told' = told \ {u}
    /\ UNCHANGED <<begun, hour, late>>

\* A failed unit is forecast as one that will be run again.
FailTask(u) ==
    /\ progress[u] = "running"
    /\ progress' = [progress EXCEPT ![u] = "failed"]
    /\ late' = TRUE
    /\ told' = told \ {u}
    /\ UNCHANGED <<begun, hour, early>>

\* A later document says when the unit was started.
TellStart(u) ==
    /\ progress[u] = "running" /\ u \notin told
    /\ told' = told \cup {u}
    /\ early' = TRUE
    /\ UNCHANGED <<progress, begun, hour, late>>

Hour ==
    /\ hour < Horizon
    /\ hour' = hour + 1
    /\ late' = (late \/ \E u \in Task :
                   \/ Runnable(u) \/ progress[u] = "failed"
                   \/ progress[u] = "running" /\ (u \notin told \/ hour >= begun[u] + Duration(u, 50)))
    /\ UNCHANGED <<progress, begun, told, early>>

ForecastNext ==
    \/ Hour
    \/ \E u \in Task : StartTask(u) \/ CompleteTask(u) \/ FailTask(u) \/ TellStart(u)

ForecastSpec == ForecastInit /\ [][ForecastNext]_forecastVars

-----------------------------------------------------------------------------
\* Forecasts made at different times agree: while work goes to plan the expected
\* end stays where it is, it never moves forward unless a unit was quicker than
\* forecast, and with time alone it never moves back by more than the time gone by.
\* A running unit whose startedAt is not given is not to plan: `_schedule` starts
\* it at the time it is asked, so its end moves back an hour with every hour, is
\* always ahead when it completes and comes forward when its start is told.
StableForecast ==
    [][/\ Remaining # {} /\ ~early' =>
             /\ Eta(50)' >= Eta(50)
             /\ ~late' => Eta(50)' = Eta(50)
       /\ Hour => Eta(50)' <= Eta(50) + 1]_forecastVars

\* The critical path explains the expected end: it begins with a unit that runs
\* or waits for nothing that is still to be done, each unit on it starts when
\* the one before finishes, and it ends when the project does.
CriticalPathSpans ==
    LET path == CriticalPath(50)
        ends == Finish(50)
    IN Remaining # {} =>
          /\ ends[path[Len(path)]] = Eta(50)
          /\ progress[path[1]] = "running" \/ ends[path[1]] = hour + Duration(path[1], 50)
          /\ \A k \in 2 .. Len(path) : ends[path[k]] = ends[path[k - 1]] + Duration(path[k], 50)
=============================================================================
