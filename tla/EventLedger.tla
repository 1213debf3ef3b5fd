---------------------------- MODULE EventLedger ----------------------------
(***************************************************************************)
(* The lifecycle event ledger of one work unit (event_ledger.py) and the   *)
(* `record-event` commands that keep it in a file.                         *)
(*                                                                         *)
(* `happened` is what the unit went through; its events reach the ledger   *)
(* late, twice, out of order, with another clock reading, or never.  A     *)
(* command reads the whole file, appends and writes the whole file back.   *)
(* An event's `id` stands for its idempotency key and its event id; `at`   *)
(* is the rank of `occurredAt` as text, which is what the ledger sorts by. *)
(***************************************************************************)
EXTENDS Integers, Sequences, SequencesExt, FiniteSets

CONSTANTS
    ChangeRequest,  \* change request references an event may carry
    NoRef,          \* an event that names none
    Command,        \* record-event commands that may overlap
    Past,           \* the states a unit went through so far, one of these sequences
    Route,          \* bound: the states it visits from there
    MaxEvents,      \* bound: events that happen
    MaxLate         \* bound: events that happened and are not recorded

VARIABLES
    happened,  \* the unit's events, in the order they happened
    ledger,    \* the file: recorded events in order of arrival
    torn,      \* whether a write of it was cut short
    command,   \* per command: nothing, or the event it is for and the file it read
    stale      \* whether a write was based on a file another has replaced

ledgerVars == <<happened, ledger, torn, command, stale>>

Engine == INSTANCE WorkUnit WITH Agent <- {}, MaxRepairs <- 0, MaxRuns <- 0

-----------------------------------------------------------------------------
(* The factory's states: the engine's, and what happens after a merge.     *)

Release == {"deploying", "deployment-verifying", "live", "rolling-back", "rolled-back"}

FactoryState == Engine!UnitState \cup Release

FactoryEdges ==
    Engine!Edges
    \cup ({"merged"} \X {"deploying", "live", "blocked"})
    \cup ({"deploying", "deployment-verifying"} \X {"rolling-back", "blocked", "failed"})
    \cup {<<"deploying", "deployment-verifying">>}
    \cup ({"deploying", "deployment-verifying"} \X {"live"})
    \cup ({"live"} \X {"deploying", "rolling-back", "blocked"})
    \cup ({"rolling-back"} \X {"rolled-back", "blocked", "failed"})
    \cup ({"blocked"} \X {"deploying", "live", "rolling-back"})

Event == [id : Nat, state : FactoryState, at : Int, ref : ChangeRequest \cup {NoRef}]

\* A unit begins at intake and goes along the edges.
ASSUME LedgerAssumption ==
    /\ Route \subseteq FactoryState
    /\ \A past \in Past :
          /\ past \in Seq(FactoryState) /\ past # <<>> /\ past[1] = "intake"
          /\ \A k \in 2 .. Len(past) : <<past[k - 1], past[k]>> \in FactoryEdges

-----------------------------------------------------------------------------
(* The projection.                                                         *)

\* Mutation: events in order of arrival.
OrderedByArrival(events) == events

\* By occurrence time, compared as text, then by arrival.
Ordered(events) ==
    LET before == [i \in DOMAIN events |->
            Cardinality({j \in DOMAIN events : \/ events[j].at < events[i].at
                                               \/ events[j].at = events[i].at /\ j < i})]
    IN [k \in DOMAIN events |-> events[CHOOSE i \in DOMAIN events : before[i] = k - 1]]

Opened == [ok |-> TRUE, state |-> "intake", ref |-> NoRef, merged |-> {}, repairs |-> 0]

\* Later references win; an event never blanks a known one.
Reference(p, e) == IF e.ref = NoRef THEN p.ref ELSE e.ref

\* `_fold`, one event: its state is the unit's or follows from it by an edge;
\* only a change of state counts a repair or proves a merge.
Fold(p, e) ==
    IF ~p.ok THEN p
    ELSE IF e.state = p.state THEN [p EXCEPT !.ref = Reference(p, e)]
    ELSE IF <<p.state, e.state>> \notin FactoryEdges THEN [p EXCEPT !.ok = FALSE]
    ELSE [ok |-> TRUE, state |-> e.state, ref |-> Reference(p, e),
          merged |-> p.merged \cup IF e.state = "merged"
                                   THEN {Reference(p, e)} \ {NoRef} ELSE {},
          repairs |-> p.repairs + IF e.state = "repairing" THEN 1 ELSE 0]

\* `projection`; not ok where the ledger raises.
Projection(events) ==
    LET ordered == Ordered(events)
    IN IF events = <<>> \/ ordered[1].state # "intake" THEN [Opened EXCEPT !.ok = FALSE]
       ELSE FoldLeft(Fold, Opened, ordered)

\* `events_from_orchestrator_document`: a genesis event and one for each
\* transition, with the engine's times and without change requests.
Migrated(events) == [k \in DOMAIN events |-> [events[k] EXCEPT !.ref = NoRef]]

-----------------------------------------------------------------------------
(* What happens, and what is recorded of it.                               *)

\* The events of these numbers, in order.
Only(events, kept) ==
    [k \in 1 .. Cardinality(kept) |->
        events[CHOOSE i \in kept : Cardinality({j \in kept : j < i}) = k - 1]]

LedgerInit ==
    /\ \E past \in Past :
          happened = [k \in DOMAIN past |-> [id |-> k, state |-> past[k], at |-> k, ref |-> NoRef]]
    /\ \E late \in SUBSET DOMAIN happened :
          /\ Cardinality(late) <= MaxLate
          /\ ledger = Only(happened, DOMAIN happened \ late)
    /\ command = [c \in Command |-> <<>>]
    /\ torn = FALSE
    /\ stale = FALSE

Recorded == {ledger[k].id : k \in DOMAIN ledger}
Missing == DOMAIN happened \ Recorded

\* The unit changes state, or its change request is another now.  Its clock
\* may stand still within a second, and fall back between two time zones.
Happen ==
    LET now == happened[Len(happened)] IN
    /\ ~torn /\ ~stale
    /\ Len(happened) < MaxEvents /\ Cardinality(Missing) < MaxLate
    /\ \E state \in Route, ref \in ChangeRequest \cup {NoRef}, at \in {now.at - 1, now.at, now.at + 1} :
          /\ \/ <<now.state, state>> \in FactoryEdges
             \/ state = now.state /\ ref # NoRef
          /\ happened' = Append(happened, [id |-> Len(happened) + 1, state |-> state,
                                           at |-> at, ref |-> ref])
    /\ UNCHANGED <<ledger, torn, command, stale>>

\* A command starts: it reads the file.  Its event may have been recorded before
\* (bound: only the latest is delivered again), and be dated anew.
\* (Bound: nothing is recorded after a write that lost another's event.)
Read(c) ==
    /\ command[c] = <<>> /\ ~torn /\ ~stale
    /\ \E k \in Missing \cup {Len(happened)}, late \in {0, 1} :
          /\ k \in Missing => late = 0
          /\ command' = [command EXCEPT ![c] =
                <<[event |-> [happened[k] EXCEPT !.at = @ + late], seen |-> ledger]>>]
    /\ UNCHANGED <<happened, ledger, torn, stale>>

\* `append`: what the ledger becomes, or nothing where it raises.  A key used
\* before returns the event recorded under it, if it is the same event.
Appended(events, e) ==
    IF \E k \in DOMAIN events : events[k].id = e.id
    THEN IF \E k \in DOMAIN events : events[k] = e THEN {events} ELSE {}
    ELSE {Append(events, e)}

\* The command appends and writes the file, whatever has become of it.
Write(c) ==
    /\ command[c] # <<>>
    /\ LET done == Appended(command[c][1].seen, command[c][1].event) IN
       /\ \/ done # {} /\ ledger' \in done
          \/ done = {} /\ ledger' = ledger
       /\ stale' = (stale \/ (done # {} /\ ledger # command[c][1].seen))
    /\ command' = [command EXCEPT ![c] = <<>>]
    /\ UNCHANGED <<happened, torn>>

\* It dies in the middle of the write, which is done in place.
Tear(c) ==
    /\ command[c] # <<>>
    /\ torn' = TRUE
    /\ command' = [command EXCEPT ![c] = <<>>]
    /\ UNCHANGED <<happened, ledger, stale>>

LedgerNext ==
    \/ Happen
    \/ \E c \in Command : Read(c) \/ Write(c) \/ Tear(c)

LedgerSpec == LedgerInit /\ [][LedgerNext]_ledgerVars

-----------------------------------------------------------------------------
(* What the ledger shows.                                                  *)

\* What a unit went through, told without folding.
ReferenceAt(life, k) ==
    LET named == {i \in 1 .. k : life[i].ref # NoRef}
    IN IF named = {} THEN NoRef ELSE life[CHOOSE i \in named : \A j \in named : j <= i].ref

Entered(life, state) ==
    {k \in DOMAIN life : life[k].state = state /\ (k > 1 => life[k - 1].state # state)}

Lived(life) == [ok |-> TRUE, state |-> life[Len(life)].state,
               ref |-> ReferenceAt(life, Len(life)),
               merged |-> {ReferenceAt(life, k) : k \in Entered(life, "merged")} \ {NoRef},
               repairs |-> Cardinality(Entered(life, "repairing"))]

History == Lived(happened)

\* The recorded times tell the order of what is recorded; within a second,
\* the order of arrival does.
ClocksTell ==
    \A i, j \in DOMAIN ledger : ledger[i].id < ledger[j].id =>
        \/ ledger[i].at < ledger[j].at
        \/ ledger[i].at = ledger[j].at /\ i < j

\* A document of the engine becomes events that replay to its state, unless a
\* clock reading in it went backwards.
ReplaysMigrated ==
    LET engine == /\ \A k \in DOMAIN happened : happened[k].state \notin Release
                  /\ \A k \in 2 .. Len(happened) : happened[k - 1].at <= happened[k].at
        migrated == Projection(Migrated(happened))
    IN engine => migrated.ok /\ migrated.state = History.state /\ migrated.repairs = History.repairs

\* With the merge and every change of request recorded.
MergeKnown == \A k \in Missing : happened[k].ref = NoRef /\ happened[k].state # "merged"

\* A ledger with gaps shows the last state it knows or refuses to fold.  It
\* never counts a repair that was none, and merge proof binds to the change
\* request that was merged: a reference is shown as merged only if it was the
\* unit's when it merged, whatever else is missing.
NeverOvercounts ==
    LET shown == Projection(ledger) IN
    ClocksTell /\ shown.ok =>
        /\ shown.repairs <= History.repairs
        /\ \E e \in Recorded : happened[e].state = shown.state /\ \A f \in Recorded : f <= e
        /\ MergeKnown => shown.merged \subseteq History.merged

\* "Current state is never stored twice, it is projected from the event
\* history": once everything is recorded, in whatever order and however often
\* it was delivered, the projection is what the unit went through; with gaps it
\* claims no more; and the engine's own history projects to the engine's state.
ProjectsHistory ==
    /\ ledger # <<>> /\ Missing = {} /\ ClocksTell => Projection(ledger) = History
    /\ NeverOvercounts
    /\ ReplaysMigrated
    /\ Cardinality(Recorded) = Len(ledger)

=============================================================================
