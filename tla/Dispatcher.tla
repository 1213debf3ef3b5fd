----------------------------- MODULE Dispatcher -----------------------------
(***************************************************************************)
(* Event intake (dispatcher.py) over the checkpoint journal                *)
(* (checkpoints.py): deliveries of the same few events, again, late and to *)
(* two workers at once.  The workers share the journal, a SQLite file; the *)
(* orchestration engine is each worker's own, and a restart may lose it.   *)
(*                                                                         *)
(* An event is what `event_fingerprint` tells apart: kind, action, title   *)
(* and labels.  The heartbeat, the provider's names and the wording of a   *)
(* reason are left out; "later" is any state beyond `triaged`.             *)
(***************************************************************************)
EXTENDS Naturals, Sequences

CONSTANTS
    Worker,         \* processes that dispatch
    Notice,         \* the events, by fingerprint
    NoticeLabels,   \* the labels of an event
    WorkItem,       \* the numbered work items
    NoItem,         \* an event without a number
    ItemOf,         \* the work item an event is about
    MaxDeliveries   \* bound: deliveries, redeliveries included

ASSUME DispatchAssumption ==
    /\ ItemOf \in [Notice -> WorkItem \cup {NoItem}]
    /\ NoItem \notin WorkItem
    /\ MaxDeliveries \in Nat

VARIABLES
    journal,     \* the checkpoint rows, in the order they were inserted
    engine,      \* per worker, the state of each unit in its engine
    at,          \* per worker, the step of its dispatch
    doing,       \* per worker, the delivery it handles
    deliveries,  \* how many deliveries there were
    triaged,     \* history: the items an engine has ever triaged
    answers      \* history: each answer, with the row that was on record for it

dispatchVars == <<journal, engine, at, doing, deliveries, triaged, answers>>

Row(e, item, state, accepted, clock) ==
    [event |-> e, item |-> item, state |-> state, accepted |-> accepted, time |-> clock]

NoRow == Row(NoItem, NoItem, "none", FALSE, 0)

NoDelivery == [event |-> NoItem, time |-> 0, row |-> NoRow]

DispatchInit ==
    /\ journal = <<>>
    /\ engine = [w \in Worker |-> [i \in WorkItem |-> "absent"]]
    /\ at = [w \in Worker |-> "idle"]
    /\ doing = [w \in Worker |-> NoDelivery]
    /\ deliveries = 0
    /\ triaged = {}
    /\ answers = {}

-----------------------------------------------------------------------------
(* The journal.                                                            *)

GetEvent(rows, e) ==
    IF \E n \in DOMAIN rows : rows[n].event = e
    THEN rows[CHOOSE n \in DOMAIN rows : rows[n].event = e] ELSE NoRow

\* The unit's latest row by its own timestamp, the last inserted among equals.
GetUnit(rows, item) ==
    LET about == {n \in DOMAIN rows : rows[n].item = item}
    IN IF about = {} THEN NoRow
       ELSE rows[CHOOSE n \in about : \A k \in about \ {n} :
                     \/ rows[k].time < rows[n].time
                     \/ rows[k].time = rows[n].time /\ k < n]

\* Mutation: a later decision on an event replaces the first.
RecordRowAnew(rows, row) ==
    Append(SelectSeq(rows, LAMBDA r : r.event # row.event), row)

\* The first decision on an event stands.
RecordRow(rows, row) ==
    IF GetEvent(rows, row.event) = NoRow THEN Append(rows, row) ELSE rows

-----------------------------------------------------------------------------
(* dispatch().                                                             *)

\* Why the labels of an event keep it out, if they do.
Marked(e) == "forge-managed" \in NoticeLabels[e]
Held(e) ==
    \/ NoticeLabels[e] \cap {"forge-paused", "security-review-required"} # {}
    \/ "spec-drafted" \in NoticeLabels[e] /\ "spec-approved" \notin NoticeLabels[e]

Refusal(e) == IF ~Marked(e) THEN "ignored" ELSE "blocked"
Admissible(e) == Marked(e) /\ ~Held(e)

Decided(w, row) == doing' = [doing EXCEPT ![w].row = row]
Goto(w, step) == at' = [at EXCEPT ![w] = step]

\* An answer, next to what the journal held for its event when it came in.
Answer(row, due) == answers' = answers \cup {[row |-> row, due |-> due]}

\* A delivery comes in: an event with a row is answered from it, a refused one
\* is about to be recorded, any other is looked up.
Deliver(w, e, clock) ==
    LET row == GetEvent(journal, e)
    IN /\ at[w] = "idle" /\ deliveries < MaxDeliveries
       /\ deliveries' = deliveries + 1
       /\ \/ /\ row # NoRow
             /\ Answer(row, row)
             /\ UNCHANGED <<at, doing>>
          \/ /\ row = NoRow /\ ~Admissible(e)
             /\ doing' = [doing EXCEPT ![w] =
                    [event |-> e, time |-> clock,
                     row |-> Row(e, NoItem, Refusal(e), FALSE, clock)]]
             /\ Goto(w, "record") /\ UNCHANGED answers
          \/ /\ row = NoRow /\ Admissible(e) /\ ItemOf[e] # NoItem
             /\ doing' = [doing EXCEPT ![w] =
                    [event |-> e, time |-> clock, row |-> NoRow]]
             /\ Goto(w, "lookup") /\ UNCHANGED answers
          \/ \* no number: an error, and nothing is decided
             /\ row = NoRow /\ Admissible(e) /\ ItemOf[e] = NoItem
             /\ UNCHANGED <<at, doing, answers>>
       /\ UNCHANGED <<journal, engine, triaged>>

\* A unit with an accepted row is answered with that row's state.
Lookup(w) ==
    LET e == doing[w].event
        prior == GetUnit(journal, ItemOf[e])
    IN /\ at[w] = "lookup"
       /\ \/ /\ prior.accepted
             /\ Decided(w, Row(e, ItemOf[e], prior.state, TRUE, doing[w].time))
             /\ Goto(w, "record")
          \/ /\ ~prior.accepted
             /\ Goto(w, "admit") /\ UNCHANGED doing
       /\ UNCHANGED <<journal, engine, deliveries, triaged, answers>>

\* The engine creates the unit, or finds it, and triages it out of intake.
Admit(w) ==
    LET e == doing[w].event
        item == ItemOf[e]
        now == IF engine[w][item] \in {"absent", "intake"} THEN "triaged"
               ELSE engine[w][item]
    IN /\ at[w] = "admit"
       /\ engine' = [engine EXCEPT ![w][item] = now]
       /\ triaged' = triaged \cup {item}
       /\ Decided(w, Row(e, item, now, TRUE, doing[w].time))
       /\ Goto(w, "record")
       /\ UNCHANGED <<journal, deliveries, answers>>

\* The decision goes on record and is returned, whichever row now stands.
Persist(w) ==
    /\ at[w] = "record"
    /\ journal' = RecordRow(journal, doing[w].row)
    /\ Answer(doing[w].row, NoRow)
    /\ Goto(w, "idle")
    /\ doing' = [doing EXCEPT ![w] = NoDelivery]
    /\ UNCHANGED <<engine, deliveries, triaged>>

-----------------------------------------------------------------------------
(* Around it.                                                              *)

\* The journal fails a read or a write: the dispatch raises, and what the
\* engine was told to do stays done.
StoreError(w) ==
    /\ at[w] # "idle"
    /\ Goto(w, "idle")
    /\ doing' = [doing EXCEPT ![w] = NoDelivery]
    /\ UNCHANGED <<journal, engine, deliveries, triaged, answers>>

\* The process dies, and with it the engine nobody saved.
Restart(w) ==
    /\ Goto(w, "idle")
    /\ doing' = [doing EXCEPT ![w] = NoDelivery]
    /\ engine' = [engine EXCEPT ![w] = [i \in WorkItem |-> "absent"]]
    /\ UNCHANGED <<journal, deliveries, triaged, answers>>

\* Other callers of the engine create a unit and move it on.
EngineMoves(w, item) ==
    /\ \/ /\ engine[w][item] = "absent"
          /\ engine' = [engine EXCEPT ![w][item] = "intake"] /\ UNCHANGED triaged
       \/ /\ engine[w][item] = "triaged"
          /\ engine' = [engine EXCEPT ![w][item] = "later"] /\ UNCHANGED triaged
    /\ UNCHANGED <<journal, at, doing, deliveries, answers>>

DispatchNext ==
    \E w \in Worker :
        \/ \E e \in Notice, clock \in 1 .. 2 : Deliver(w, e, clock)
        \/ Lookup(w) \/ Admit(w) \/ Persist(w) \/ StoreError(w) \/ Restart(w)
        \/ \E i \in WorkItem : EngineMoves(w, i)

DispatchSpec == DispatchInit /\ [][DispatchNext]_dispatchVars

-----------------------------------------------------------------------------
\* Whatever was redelivered, raced, lost or restarted between the steps of
\* dispatch(): two answers to one event agree on whether it was accepted and
\* for which unit; an event that was on record is answered as the row that
\* stands; an accepted event carries the marker and no hold, even when an
\* earlier event of its unit was accepted; and its unit has been triaged by an
\* engine before the answer, so it is not lost in intake.
DecidedOnce ==
    /\ \A a, b \in answers :
           a.row.event = b.row.event =>
               a.row.accepted = b.row.accepted /\ a.row.item = b.row.item
    /\ \A a \in answers :
           a.due # NoRow => a.row = a.due /\ a.row = GetEvent(journal, a.due.event)
    /\ \A a \in answers :
           a.row.accepted =>
               /\ Admissible(a.row.event)
               /\ a.row.state # "intake" /\ a.row.item \in triaged
=============================================================================
