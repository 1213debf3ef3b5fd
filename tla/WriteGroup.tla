----------------------------- MODULE WriteGroup -----------------------------
(***************************************************************************)
(* `_write_group` of cli.py: the documents of one export replace those of  *)
(* the previous one together, or not at all.  A step is a call to the      *)
(* operating system; calls fail, and the process may die between any two.  *)
(***************************************************************************)
EXTENDS Naturals, Sequences

CONSTANTS
    Files,     \* the destinations, in order
    MaxFaults  \* bound: calls that fail

ASSUME FaultAssumption == MaxFaults \in Nat

\* `github-backlog` refuses two outputs that name the same file.
ASSUME FilesAssumption ==
    /\ DOMAIN Files = 1 .. Len(Files) /\ Len(Files) \in Nat
    /\ \A j, k \in DOMAIN Files : Files[j] = Files[k] => j = k

VARIABLES
    disk,     \* per destination: which export it holds, or none
    staged,   \* destinations with the new export in a scratch file beside them
    backup,   \* destinations whose old file was moved aside
    done,     \* how many destinations the current phase is through with
    phase,    \* "stage", "replace", "put", "restore", "clean", "succeeded", "failed", "dead"
    faults,   \* calls that failed so far
    existed   \* which destinations the previous export left

groupVars == <<disk, staged, backup, done, phase, faults, existed>>

File == {Files[k] : k \in DOMAIN Files}
Previous(f) == IF f \in existed THEN "old" ELSE "none"

GroupInit ==
    /\ existed \in SUBSET File
    /\ disk = [f \in File |-> Previous(f)]
    /\ staged = {} /\ backup = {}
    /\ done = 0 /\ phase = "stage" /\ faults = 0

This == Files[done + 1]
More == done < Len(Files)

Fail == faults < MaxFaults /\ faults' = faults + 1

\* A scratch file is written; if that fails the scratch files are dropped.
Stage ==
    /\ phase = "stage" /\ More
    /\ \/ staged' = staged \cup {This} /\ done' = done + 1 /\ UNCHANGED <<phase, faults>>
       \/ Fail /\ staged' = {} /\ phase' = "failed" /\ UNCHANGED done
    /\ UNCHANGED <<disk, backup, existed>>

Staged ==
    /\ phase = "stage" /\ ~More
    /\ phase' = "replace" /\ done' = 0
    /\ UNCHANGED <<disk, staged, backup, faults, existed>>

\* The old file is moved aside, where there is one ...
MoveAside ==
    /\ phase = "replace" /\ More
    /\ \/ /\ disk' = [disk EXCEPT ![This] = "none"]
          /\ backup' = backup \cup ({This} \cap existed)
          /\ phase' = "put" /\ UNCHANGED <<faults, done>>
       \/ Fail /\ This \in existed /\ phase' = "restore" /\ UNCHANGED <<disk, backup, done>>
    /\ UNCHANGED <<staged, existed>>

\* ... and the new one is moved in; the destination counts as replaced from here.
MoveIn ==
    /\ phase = "put" /\ done' = done + 1
    /\ \/ /\ disk' = [disk EXCEPT ![This] = "new"] /\ staged' = staged \ {This}
          /\ phase' = "replace" /\ UNCHANGED faults
       \/ Fail /\ phase' = "restore" /\ UNCHANGED <<disk, staged>>
    /\ UNCHANGED <<backup, existed>>

\* Mutation: only destinations that were replaced in full are restored.
RestoreReplaced ==
    /\ phase = "restore" /\ done > 0
    /\ LET last == Files[done] IN
       IF disk[last] = "new"
       THEN disk' = [disk EXCEPT ![last] = Previous(last)] /\ backup' = backup \ {last}
       ELSE UNCHANGED <<disk, backup>>
    /\ done' = done - 1
    /\ UNCHANGED <<staged, phase, faults, existed>>

\* Newest first, a destination gets its old file back, or is removed again.
Restore ==
    /\ phase = "restore" /\ done > 0
    /\ \/ LET last == Files[done] IN
          /\ disk' = [disk EXCEPT ![last] = Previous(last)]
          /\ backup' = backup \ {last}
          /\ done' = done - 1 /\ UNCHANGED <<phase, faults>>
       \/ Fail /\ phase' = "failed" /\ UNCHANGED <<disk, backup, done>>
    /\ UNCHANGED <<staged, existed>>

Restored ==
    /\ phase = "restore" /\ done = 0
    /\ staged' = {} /\ phase' = "failed"
    /\ UNCHANGED <<disk, backup, done, faults, existed>>

\* Once everything is replaced the old files are dropped; failing to is an error
\* that changes nothing.
Clean ==
    /\ phase = "replace" /\ ~More
    /\ \/ backup' = {} /\ phase' = "succeeded" /\ UNCHANGED faults
       \/ Fail /\ backup # {} /\ phase' = "failed" /\ UNCHANGED backup
    /\ UNCHANGED <<disk, staged, done, existed>>

Die ==
    /\ phase \notin {"succeeded", "failed", "dead"}
    /\ phase' = "dead"
    /\ UNCHANGED <<disk, staged, backup, done, faults, existed>>

GroupNext == \/ Stage \/ Staged \/ MoveAside \/ MoveIn \/ Restore \/ Restored \/ Clean \/ Die

GroupSpec == GroupInit /\ [][GroupNext]_groupVars

-----------------------------------------------------------------------------
\* "A failure never leaves the set describing two different exports": a command
\* that comes back leaves one export, the new one if it succeeded; and whatever
\* fails or dies, the previous export can be put together again until the new one
\* is in place.
OneExport ==
    /\ phase = "succeeded" => disk = [f \in File |-> "new"]
    /\ phase = "failed" /\ faults = 1 =>
          \/ disk = [f \in File |-> Previous(f)]
          \/ disk = [f \in File |-> "new"] /\ backup # {}
    /\ (\E f \in File : disk[f] # "new") => \A f \in existed : disk[f] = "old" \/ f \in backup
=============================================================================
