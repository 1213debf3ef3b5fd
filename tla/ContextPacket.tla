--------------------------- MODULE ContextPacket ---------------------------
(***************************************************************************)
(* How the prompt of one run is put together: evidence is admitted record  *)
(* by record, what is required must be there, whole and fresh, and the     *)
(* rest of the budget is filled in order of relevance.  The notices that   *)
(* qualify the evidence are counted only once the pack is built, and then  *)
(* optional records are given back.                                        *)
(***************************************************************************)
EXTENDS Naturals, Sequences, FiniteSets, Functions

CONSTANTS
    Source,
    Unnamed,    \* a failure that names no declared source
    Fixed,      \* bytes of the role, limits, task and verification sections
    Caveat,     \* bytes of one qualification
    MaxRecords  \* MAX_PACK_RECORDS

ASSUME PacketAssumption ==
    Fixed \in Nat /\ Caveat \in Nat /\ MaxRecords \in Nat /\ IsFiniteSet(Source)

VARIABLES
    ask,       \* the request: records, sources, failures, risk, budgets, findings
    packing,   \* "admit", "select", "fit", "ready", "blocked" or "rejected"
    looked,    \* how many records have been looked at
    admitted,  \* records that may enter
    chosen,    \* records that do: the mandatory ones, then the optional ones
    weighed    \* optional records whose turn has passed

packetVars == <<ask, packing, looked, admitted, chosen, weighed>>

\* A retrieved record, with the relevance to the task it will be given.
Evidence ==
    [id : Nat, source : Source, relevance : Nat, size : Nat, fresh : BOOLEAN,
     place : {"seen", "unscoped", "forbidden", "otherTree"}, secret : BOOLEAN, content : Nat]

PackRequest ==
    [records : Seq(Evidence), sources : [Source -> [required : BOOLEAN, readable : BOOLEAN]],
     failed : SUBSET (Source \union {Unnamed}), highRisk : BOOLEAN,
     budget : Nat, tokens : Nat, findings : Nat]

-----------------------------------------------------------------------------
Items(q) == {q[i] : i \in DOMAIN q}
Bytes(q) == SumFunction([i \in DOMAIN q |-> q[i].size])
Least(a, b) == IF a < b THEN a ELSE b
Demanded(r) == ask.sources[r.source].required
Readable(s) == ask.sources[s].readable

\* `authorize_source`, the declared source and the one pinned tree: a record
\* that breaks them fails the request, as do two records with one identity.
Rejects(r) ==
    \/ ~Readable(r.source)
    \/ \E p \in {ask.records[i] : i \in 1 .. looked} : p.id = r.id /\ p # r
    \/ r.place = "otherTree"

\* Kept from the packet: a path the mission may not see, something like a secret.
Excluded(r) == r.place \in {"forbidden", "unscoped"} \/ r.secret

\* Why a required source this mission may read is not satisfied.
Unmet(s) ==
    LET own == {r \in Items(admitted) : r.source = s}
    IN  /\ ask.sources[s].required /\ Readable(s)
        /\ (s \in ask.failed) \/ (own = {}) \/ (\E r \in own : ~r.fresh)

Dated(q) == {i \in DOMAIN q : ~q[i].fresh}

\* The records of a set one after the other, by identity.
ById(S) ==
    CHOOSE q \in [1 .. Cardinality(S) -> S] :
        Items(q) = S /\ \A i, j \in DOMAIN q : i < j => q[i].id < q[j].id

\* Mandatory evidence by identity; optional by relevance, then by identity.
MandatoryOf(q) == ById({r \in Items(q) : Demanded(r)})
Before(r, s) == (r.relevance > s.relevance) \/ (r.relevance = s.relevance /\ r.id < s.id)
Outstanding == {r \in Items(admitted) : ~Demanded(r)} \ weighed
Foremost == CHOOSE r \in Outstanding : \A s \in Outstanding : s = r \/ Before(r, s)

-----------------------------------------------------------------------------
(* The pack of the knowledge layer and the prompt it renders to.           *)

Failures == {s \in ask.failed : s = Unnamed \/ Readable(s)}

\* The same content from another source as an earlier record.
Repeats(q) ==
    {j \in DOMAIN q : \E i \in 1 .. j - 1 :
        /\ q[i].content = q[j].content /\ q[i].source # q[j].source
        /\ \A h \in 1 .. i - 1 : q[h].content # q[i].content}

\* `build_context_pack` refuses a qualified pack for a mission of high risk.
PackRefused(q) == ask.highRisk /\ (Failures # {} \/ Dated(q) # {})

\* What qualifies the evidence: a failed source, a stale record, a repetition.
Notices(q) == Cardinality(Failures) + Cardinality(Dated(q)) + Cardinality(Repeats(q))

\* Mutation: the notices are left out of the count.
PromptUnqualified(q) == Fixed + ask.findings + Bytes(q)

Prompt(q) == Fixed + ask.findings + Bytes(q) + Caveat * Notices(q)

-----------------------------------------------------------------------------
Consider ==
    LET r == ask.records[looked + 1]
    IN  /\ packing = "admit" /\ looked < Len(ask.records)
        /\ IF Rejects(r) THEN packing' = "rejected" /\ UNCHANGED <<looked, admitted>>
           ELSE /\ packing' = packing /\ looked' = looked + 1
                /\ admitted' = IF Excluded(r) \/ r \in Items(admitted) THEN admitted ELSE Append(admitted, r)
        /\ UNCHANGED <<ask, chosen, weighed>>

\* The requirements, over everything admitted, and the room for what is mandatory.
Demand ==
    LET q == MandatoryOf(admitted)
        room == Least(ask.budget, ask.tokens)
    IN  /\ packing = "admit" /\ looked = Len(ask.records)
        /\ packing' = IF \/ \E s \in Source : Unmet(s)
                         \/ ask.highRisk /\ Dated(admitted) # {}
                         \/ Len(q) > MaxRecords
                         \/ Fixed + Bytes(q) > room
                      THEN "blocked" ELSE "select"
        /\ chosen' = q
        /\ UNCHANGED <<ask, looked, admitted, weighed>>

Select ==
    LET r == Foremost
        fits == Len(chosen) < MaxRecords /\ Fixed + Bytes(chosen) + r.size <= Least(ask.budget, ask.tokens)
    IN  /\ packing = "select" /\ Outstanding # {}
        /\ weighed' = weighed \union {r}
        /\ chosen' = IF fits THEN Append(chosen, r) ELSE chosen
        /\ UNCHANGED <<ask, packing, looked, admitted>>

Full == packing = "select" /\ Outstanding = {} /\ packing' = "fit" /\ UNCHANGED <<ask, looked, admitted, chosen, weighed>>

\* The least relevant optional record is given back until the prompt fits.
Fit ==
    /\ packing = "fit" /\ UNCHANGED <<ask, looked, admitted, weighed>>
    /\ IF PackRefused(chosen) THEN packing' = "rejected" /\ UNCHANGED chosen
       ELSE IF Prompt(chosen) <= Least(ask.budget, ask.tokens) THEN packing' = "ready" /\ UNCHANGED chosen
       ELSE IF chosen # <<>> /\ ~Demanded(chosen[Len(chosen)])
            THEN chosen' = SubSeq(chosen, 1, Len(chosen) - 1) /\ UNCHANGED packing
       ELSE packing' = "blocked" /\ UNCHANGED chosen

PacketInit ==
    /\ ask \in PackRequest
    /\ packing = "admit" /\ looked = 0 /\ admitted = <<>> /\ chosen = <<>> /\ weighed = {}

PacketNext == Consider \/ Demand \/ Select \/ Full \/ Fit

PacketSpec == PacketInit /\ [][PacketNext]_packetVars

-----------------------------------------------------------------------------
\* A packet that is built holds, within both budgets and with every notice, all
\* the evidence of every required source the mission may read, fresh, and
\* nothing the mission may not see; what it gave up ranks below what it kept
\* or did not fit.  One that is blocked could not have been built: what is
\* required is missing or does not fit alone
\* (`build_context_packet`, `build_context_pack`).
PacketWhole ==
    LET mandatory == MandatoryOf(admitted)
        room == Least(ask.budget, ask.tokens)
    IN  /\ packing = "ready" =>
              /\ Fixed + ask.findings + Bytes(chosen) + Caveat * Notices(chosen) <= room
              /\ Len(chosen) <= MaxRecords
              /\ \A s \in Source : ask.sources[s].required /\ Readable(s) =>
                    /\ s \notin ask.failed
                    /\ \E r \in Items(chosen) : r.source = s
                    /\ \A i \in DOMAIN ask.records :
                          LET r == ask.records[i]
                          IN  r.source = s => Excluded(r) \/ (r \in Items(chosen) /\ r.fresh)
              /\ \A r \in Items(chosen) : Readable(r.source) /\ ~Excluded(r) /\ r.place # "otherTree"
              /\ ask.highRisk => Failures = {} /\ Dated(admitted) = {}
              /\ \A r \in Items(admitted) \ Items(chosen), s \in Items(chosen) :
                    ~Demanded(s) /\ s.size >= r.size => Before(s, r)
        /\ packing = "blocked" =>
              \/ \E s \in Source : Unmet(s)
              \/ ask.highRisk /\ Dated(admitted) # {}
              \/ Len(mandatory) > MaxRecords
              \/ Fixed + ask.findings + Bytes(mandatory) + Caveat * Notices(mandatory) > room
=============================================================================
