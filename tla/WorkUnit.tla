------------------------------ MODULE WorkUnit ------------------------------
(***************************************************************************)
(* The lifecycle graph of a work unit (`TRANSITIONS` of orchestration.py)  *)
(* and its agent runs, as data: what the engine's operations read.         *)
(*                                                                         *)
(* A run keeps what later decisions depend on: its kind, its agent, its    *)
(* result, the repair cycle it is stamped with, and which producing run's  *)
(* code it is about (`code`, a position in the unit's runs).  `clean` is   *)
(* the verdict its harness signs once and for all: the gates pass on the   *)
(* code a producing run made, or a reviewer has no finding.  Run kinds     *)
(* that no decision reads (planning, context, verification) are left out,  *)
(* and so are identities, digests and artifacts.                           *)
(***************************************************************************)
EXTENDS Naturals, Sequences

CONSTANTS
    Agent,       \* the executors of the roster
    MaxRepairs,  \* max_repair_cycles
    MaxRuns      \* bound: runs recorded on one unit

ASSUME BudgetAssumption == MaxRepairs \in Nat /\ MaxRuns \in Nat

Terminal == {"merged", "failed", "cancelled", "superseded"}
Abort == {"cancelled", "superseded"}

\* The states a unit reaches only by way of `dispatched`.
Underway == {"dispatched", "implementing", "verifying", "reviewing",
             "repair-needed", "repairing", "re-reviewing",
             "ready-for-human-merge", "merged"}

UnitState == {"intake", "triaged", "specified", "planned", "approval-pending",
              "approved", "blocked"} \cup Underway \cup Terminal

\* A unit the engine does not know is "absent".
State == UnitState \cup {"absent"}


\* The transition table; every state that is not terminal can be aborted.
Edges ==
    {<<"intake", "triaged">>, <<"triaged", "specified">>,
     <<"specified", "planned">>, <<"planned", "approval-pending">>,
     <<"planned", "approved">>, <<"approval-pending", "approved">>,
     <<"approved", "dispatched">>, <<"dispatched", "implementing">>,
     <<"implementing", "verifying">>, <<"verifying", "reviewing">>,
     <<"repair-needed", "repairing">>, <<"repairing", "re-reviewing">>,
     <<"ready-for-human-merge", "merged">>}
    \cup ({"reviewing", "re-reviewing"} \X {"ready-for-human-merge"})
    \cup ({"verifying", "reviewing", "re-reviewing"} \X {"repair-needed"})
    \cup ({"implementing", "verifying", "reviewing", "repairing", "re-reviewing"}
             \X {"failed"})
    \cup ((UnitState \ (Terminal \cup {"intake", "implementing", "blocked"}))
             \X {"blocked"})
    \cup ({"blocked"} \X {"triaged", "dispatched"})
    \cup ((UnitState \ Terminal) \X Abort)

-----------------------------------------------------------------------------
(* Runs.                                                                   *)

\* The kinds a concurrency group serializes; they are the ones that produce code.
Exclusive == {"implementation", "repair"}
Kind == Exclusive \cup {"review"}

Run == [kind : Kind, agent : Agent, result : {"running", "succeeded", "failed"},
        cycle : 0 .. MaxRepairs, code : 0 .. MaxRuns, clean : BOOLEAN]

Producing(rs) == {i \in DOMAIN rs : rs[i].kind \in Exclusive}

Producers(rs) == {rs[i].agent : i \in Producing(rs)}

\* The position of the run whose code the unit carries now; 0 before the first.
Latest(rs) ==
    IF Producing(rs) = {} THEN 0
    ELSE CHOOSE i \in Producing(rs) : \A j \in Producing(rs) : j <= i

Finished(run, outcome) ==
    [kind |-> run.kind, agent |-> run.agent, result |-> outcome,
     cycle |-> run.cycle, code |-> run.code, clean |-> run.clean]
=============================================================================
