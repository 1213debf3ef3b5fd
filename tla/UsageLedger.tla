---------------------------- MODULE UsageLedger ----------------------------
(***************************************************************************)
(* The usage ledger and its estimator (usage_ledger.py): what runs were    *)
(* estimated to take and took, and the correction learned from the two.    *)
(*                                                                         *)
(* `record-usage` and `calibrate-usage` read whole files and write them    *)
(* back, and may overlap.  One dimension stands for tokens and runtime,    *)
(* which are treated alike; ratios are in units of 1/Unit, where the code  *)
(* has floats rounded to six digits.                                       *)
(***************************************************************************)
EXTENDS Naturals, Sequences, FiniteSets, FiniteSetsExt, Functions

CONSTANTS
    Attempt,     \* run attempts
    Path,        \* Path[a]: the calibration keys of an attempt, most specific first
    Baseline,    \* Baseline[a]: the estimate it is given before correction
    Factor,      \* what attempts take, as multiples of their baseline
    Convention,  \* the ways producers derive usage ids
    Own,         \* Forge's own, usage_id_for
    MinSamples,  \* minSamples
    Clerk,       \* commands that may overlap
    Unknown      \* a value nobody observed

ASSUME UsageAssumption ==
    /\ MinSamples \in Nat \ {0} /\ Own \in Convention
    /\ Baseline \in [Attempt -> Nat] /\ Factor \subseteq Nat
    /\ \A a \in Attempt : DOMAIN Path[a] \subseteq Nat

VARIABLES
    estimated,    \* per attempt: nothing, or what estimate-usage answered
    took,         \* per attempt: nothing, or what it took and how it ended
    usage,        \* the ledger file: records by usage id
    calibration,  \* the calibration file
    clerk,        \* per command: nothing, or what it read and is to write
    lapped        \* whether a file was written over by a command that read it before

usageVars == <<estimated, took, usage, calibration, clerk, lapped>>

Unit == 12
Ceiling == 20 * Unit

Key == UNION {{Path[a][k] : k \in DOMAIN Path[a]} : a \in Attempt}
NoSamples == [k \in Key |-> [samples |-> 0, total |-> 0]]

UsageInit ==
    /\ estimated = [a \in Attempt |-> <<>>]
    /\ took = [a \in Attempt |-> <<>>]
    /\ usage = [i \in {} |-> {}]
    /\ calibration = [observed |-> {}, at |-> NoSamples]
    /\ clerk = [c \in Clerk |-> <<>>]
    /\ lapped = FALSE

-----------------------------------------------------------------------------
(* Estimates.                                                              *)

Mean(sample) == sample.total \div sample.samples

\* `coefficient`: the most specific key with enough samples, or none.
Coefficient(a, at) ==
    LET sampled == {k \in DOMAIN Path[a] : at[Path[a][k]].samples >= MinSamples}
    IN IF sampled = {} THEN Unit ELSE Mean(at[Path[a][Min(sampled)]])

\* Python's round of a baseline times its coefficient (halves up, here).
Corrected(a, at) == (2 * Baseline[a] * Coefficient(a, at) + Unit) \div (2 * Unit)

\* `estimate-usage`, before the attempt is dispatched.
Estimate(a) ==
    /\ estimated[a] = <<>>
    /\ estimated' = [estimated EXCEPT ![a] = <<Corrected(a, calibration.at)>>]
    /\ UNCHANGED <<took, usage, calibration, clerk, lapped>>

\* The attempt ends: it took so many times its baseline.
End(a) ==
    /\ estimated[a] # <<>> /\ took[a] = <<>>
    /\ \E f \in Factor :
          took' = [took EXCEPT ![a] =
                      <<[value |-> f * Baseline[a], result |-> "completed"]>>]
    /\ UNCHANGED <<estimated, usage, calibration, clerk, lapped>>

\* It is cancelled, and nobody can tell what it took.
Cancel(a) ==
    /\ estimated[a] # <<>> /\ took[a] = <<>>
    /\ took' = [took EXCEPT ![a] = <<[value |-> Unknown, result |-> "cancelled"]>>]
    /\ UNCHANGED <<estimated, usage, calibration, clerk, lapped>>

-----------------------------------------------------------------------------
(* Records.                                                                *)

\* Mutation: a later section replaces an earlier one.
MergeLatest(existing, incoming) ==
    IF incoming = <<>> THEN {existing} ELSE {incoming}

\* `_merge_section`: a section is filled once; nothing where it raises.
MergeSection(existing, incoming) ==
    IF incoming = <<>> \/ incoming = existing THEN {existing}
    ELSE IF existing = <<>> THEN {incoming}
    ELSE {}

Put(file, i, record) == [j \in DOMAIN file \cup {i} |-> IF j = i THEN record ELSE file[j]]

\* `append`: the file with the record, or nothing where it raises.  One attempt
\* is one record, whatever id a producer derives for it.
Record(file, i, record) ==
    IF \E j \in DOMAIN file : j[1] = i[1] /\ j # i THEN {}
    ELSE IF i \notin DOMAIN file THEN {Put(file, i, record)}
    ELSE {Put(file, i, [estimate |-> e, actual |-> t]) :
             e \in MergeSection(file[i].estimate, record.estimate),
             t \in MergeSection(file[i].actual, record.actual)}

\* What is reported of an attempt: the estimate, what it took, or both; and what
\* another producer knows of it, that it is over.
Reports(a) ==
    {[estimate |-> e, actual |-> t] : e \in {<<>>, estimated[a]}, t \in {<<>>, took[a]}}
       \ {[estimate |-> <<>>, actual |-> <<>>]}

Hearsay == [estimate |-> <<>>, actual |-> <<[value |-> Unknown, result |-> "completed"]>>]

\* A record-usage command reads the ledger.  (Bound: nobody reads it after a write
\* that lost what another recorded.)
ReadUsage(c, a) ==
    /\ clerk[c] = <<>> /\ ~lapped
    /\ \/ \E report \in Reports(a) :
             clerk' = [clerk EXCEPT ![c] =
                 <<[file |-> usage, id |-> <<a, Own>>, record |-> report]>>]
       \/ took[a] # <<>> /\ \E convention \in Convention :
             clerk' = [clerk EXCEPT ![c] =
                 <<[file |-> usage, id |-> <<a, convention>>, record |-> Hearsay]>>]
    /\ UNCHANGED <<estimated, took, usage, calibration, lapped>>

\* It appends, and writes the ledger it read back with the record in it.
WriteUsage(c) ==
    /\ clerk[c] # <<>> /\ "id" \in DOMAIN clerk[c][1]
    /\ LET done == Record(clerk[c][1].file, clerk[c][1].id, clerk[c][1].record) IN
       /\ \/ done = {} /\ UNCHANGED <<usage, lapped>>
          \/ usage' \in done /\ lapped' = (lapped \/ usage # clerk[c][1].file)
    /\ clerk' = [clerk EXCEPT ![c] = <<>>]
    /\ UNCHANGED <<estimated, took, calibration>>

-----------------------------------------------------------------------------
(* Calibration.                                                            *)

\* What an attempt took over what was estimated, kept within bounds.
Ratio(record) ==
    Max({1, Min({Ceiling, (record.actual[1].value * Unit) \div record.estimate[1]})})

Ratios(file, ids) == [i \in ids |-> Ratio(file[i])]

\* `observe`: whether a record counts as seen, and whether it teaches anything.
Observable(record) ==
    /\ record.estimate # <<>> /\ record.actual # <<>>
    /\ record.actual[1].result \notin {"cancelled", "unknown"}

Teaches(record) ==
    /\ Observable(record)
    /\ record.estimate[1] \notin {Unknown, 0} /\ record.actual[1].value # Unknown

OnPath(i, k) == \E n \in DOMAIN Path[i[1]] : Path[i[1]][n] = k

\* Mutation: what was learned from is not remembered.
LearnAgain(cal, file) ==
    LET lessons(k) == {i \in DOMAIN file : Teaches(file[i]) /\ OnPath(i, k)}
    IN [observed |-> {i \in DOMAIN file : Observable(file[i])},
        at |-> [k \in Key |-> [samples |-> cal.at[k].samples + Cardinality(lessons(k)),
                               total |-> cal.at[k].total + SumFunction(Ratios(file, lessons(k)))]]]

\* `observe_all`: every record not observed before, at every key of its path.
Learn(cal, file) ==
    LET seen == {i \in DOMAIN file : Observable(file[i])} \ cal.observed
        lessons(k) == {i \in seen : Teaches(file[i]) /\ OnPath(i, k)}
    IN [observed |-> cal.observed \cup seen,
        at |-> [k \in Key |-> [samples |-> cal.at[k].samples + Cardinality(lessons(k)),
                               total |-> cal.at[k].total + SumFunction(Ratios(file, lessons(k)))]]]

\* A calibrate-usage command reads both files ...
ReadCalibration(c) ==
    /\ clerk[c] = <<>> /\ ~lapped /\ usage # [i \in {} |-> {}]
    /\ clerk' = [clerk EXCEPT ![c] = <<[learned |-> Learn(calibration, usage)]>>]
    /\ UNCHANGED <<estimated, took, usage, calibration, lapped>>

\* ... and writes the calibration.
WriteCalibration(c) ==
    /\ clerk[c] # <<>> /\ "learned" \in DOMAIN clerk[c][1]
    /\ calibration' = clerk[c][1].learned
    /\ clerk' = [clerk EXCEPT ![c] = <<>>]
    /\ UNCHANGED <<estimated, took, usage, lapped>>

UsageNext ==
    \/ \E a \in Attempt : Estimate(a) \/ End(a) \/ Cancel(a)
    \/ \E c \in Clerk : \/ \E a \in Attempt : ReadUsage(c, a)
                        \/ WriteUsage(c)
                        \/ ReadCalibration(c)
                        \/ WriteCalibration(c)

UsageSpec == UsageInit /\ [][UsageNext]_usageVars

-----------------------------------------------------------------------------
StaysOn(i) ==
    /\ {j \in DOMAIN usage' : j[1] = i[1]} = {i}
    /\ usage[i].estimate # <<>> => usage'[i].estimate = usage[i].estimate
    /\ usage[i].actual # <<>> => usage'[i].actual = usage[i].actual

\* "A replayed workflow or duplicated CLI call [...] cannot double-count, and
\* history is never rewritten" (docs/usage-accounting.md): what is recorded of an
\* attempt stays.  It does not hold: record-usage writes back the whole file it
\* read, without a lock, and drops what another command recorded in between.
SectionsImmutable == [][\A i \in DOMAIN usage : StaysOn(i)]_usageVars

\* What does hold: what is recorded of an attempt stays, under one id, whoever
\* reports it again and how, but for a write based on a file that another command
\* has replaced since.  Such a write is exempted here (`lapped'`) with everything
\* it loses; commands that overlap without one are not.
SectionsKept == [][lapped' \/ \A i \in DOMAIN usage : StaysOn(i)]_usageVars

\* "Re-running calibration over the same ledger changes nothing": what was
\* learned at a key is what the attempts observed so far say, each attempt once,
\* however calibrations and records overlap and whatever ids producers derive.
\* Once a ledger was written over by a command that had read an older one, an
\* observed record may be gone and nothing is said.
CalibrationAgrees ==
    lapped \/
    \A k \in Key :
        LET lessons == {i \in calibration.observed : Teaches(usage[i]) /\ OnPath(i, k)}
        IN /\ calibration.at[k].samples = Cardinality({i[1] : i \in lessons})
           /\ calibration.at[k].total = SumFunction(Ratios(usage, lessons))
=============================================================================
