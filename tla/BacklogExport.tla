---------------------------- MODULE BacklogExport ---------------------------
(***************************************************************************)
(* `agentic-sdlc github-backlog` (github_backlog.py): an issues payload    *)
(* and one listing of sub-issues per parent become the tree the control    *)
(* center shows.  The files are fetched one after the other while people   *)
(* move issues about, and any of them may be partial.                      *)
(***************************************************************************)
EXTENDS Naturals, FiniteSets

CONSTANTS
    Number,      \* issues
    Top,         \* no parent
    Unsaid,      \* a field the payload does not carry
    Listed,      \* the issues a listing of sub-issues is fetched for
    OtherItems,  \* items another tracker's document declares
    MaxLevels,   \* MAX_BACKLOG_DEPTH
    MaxMoves     \* bound: issues that are moved meanwhile

VARIABLES
    family,    \* [Number -> its parent], now
    payload,   \* the issues payload, once fetched: [numbers, total]
    listings,  \* the listings fetched, [from, whole, said, entries]: the code
               \* sees the last two fields
    had,       \* [Number -> parents it had since the first fetch] (history)
    moves

ASSUME BacklogAssumption ==
    /\ IsFiniteSet(Number) /\ Listed \subseteq Number
    /\ Top \notin Number /\ Unsaid \notin Number /\ Unsaid # Top
    /\ MaxLevels \in Nat
    /\ \A i \in OtherItems : i.provider # "github"

backlogVars == <<family, payload, listings, had, moves>>

ChildrenOf(p) == {c \in Number : family[c] = p}

-----------------------------------------------------------------------------
(* `parent_links`.  A listing is given as PARENT=path, or bare: then its   *)
(* records name their parent.                                              *)

ParentIn(l, e) == IF l.said # Unsaid THEN l.said ELSE e.ref

Unusable(l) == \E e \in l.entries :
    IF l.said = Unsaid THEN e.ref = Unsaid ELSE e.ref \notin {Unsaid, l.said}

Links(ls) == UNION {{<<e.child, ParentIn(l, e)>> : e \in l.entries} : l \in ls}

LinksRefused(ls) ==
    \/ \E l \in ls : Unusable(l)
    \/ \E a, b \in Links(ls) : a[1] = b[1] /\ a[2] # b[2]
    \/ \E a \in Links(ls) : a[1] = a[2]

DeclaredParents(ls) == {l.said : l \in ls} \ {Unsaid}

-----------------------------------------------------------------------------
(* `backlog_document_from_issues`.                                         *)

\* Mutation: only a listing that maps a child is held to its parent's count.
TruncatedWhereMapped(doc, ls) ==
    \E p \in {a[2] : a \in Links(ls)} \intersect doc.numbers :
        doc.total[p] # Unsaid /\ doc.total[p] > Cardinality({a \in Links(ls) : a[2] = p})

Truncated(doc, ls) ==
    \E p \in ({a[2] : a \in Links(ls)} \union DeclaredParents(ls)) \intersect doc.numbers :
        doc.total[p] # Unsaid /\ doc.total[p] > Cardinality({a \in Links(ls) : a[2] = p})

ChildMissing(doc, ls) == \E a \in Links(ls) : a[1] \notin doc.numbers

IssueItems(doc, ls) ==
    {[provider |-> "github", id |-> n,
      parent |-> IF \E a \in Links(ls) : a[1] = n
                 THEN (CHOOSE a \in Links(ls) : a[1] = n)[2] ELSE Top] : n \in doc.numbers}

-----------------------------------------------------------------------------
(* `_build_backlog_tree`: parents are joined within one tracker.           *)

Above(forest, i) == {p \in forest : p.provider = i.provider /\ p.id = i.parent}
Roots(forest) == {i \in forest : Above(forest, i) = {}}

\* The n-th ancestor of an item, if there is one.
Ancestor(forest, i) ==
    LET up[n \in 0 .. MaxLevels] == IF n = 0 THEN {i} ELSE UNION {Above(forest, p) : p \in up[n - 1]} IN up

\* `_detect_backlog_cycles`: a parent chain too deep, as is one that never ends.
Looping(forest) == \E i \in forest : Ancestor(forest, i)[MaxLevels] # {}

\* What is rendered, from the roots down.
Rendered(forest) ==
    {i \in forest : \E n \in 0 .. MaxLevels : Ancestor(forest, i)[n] \intersect Roots(forest) # {}}

-----------------------------------------------------------------------------
Families == {f \in [Number -> Listed \union {Top}] :
                /\ \A p \in Listed : f[p] # p
                /\ \A p, q \in Listed : ~(f[p] = q /\ f[q] = p)}

BacklogInit ==
    /\ family \in Families
    /\ payload = {} /\ listings = {} /\ moves = 0
    /\ had = [n \in Number |-> {family[n]}]

\* The issues payload: whole or short of one issue, with or without summaries.
FetchIssues ==
    /\ payload = {}
    /\ \E gone \in {{}} \union {{n} : n \in Number}, summaries \in BOOLEAN :
          payload' = {[numbers |-> Number \ gone,
                       total |-> [n \in Number |->
                                     IF summaries THEN Cardinality(ChildrenOf(n)) ELSE Unsaid]]}
    /\ UNCHANGED <<family, listings, had, moves>>

\* One listing, whole or only its first page; a file declared for another
\* parent is known by its records.
FetchListing(p) ==
    /\ \A l \in listings : l.from # p
    /\ \E page \in SUBSET ChildrenOf(p), said \in Listed \union {Unsaid}, ref \in {p, Unsaid} :
          /\ said \in {p, Unsaid} \/ ref = p
          /\ listings' = listings \union
                {[from |-> p, whole |-> page = ChildrenOf(p), said |-> said,
                  entries |-> {[child |-> c, ref |-> ref] : c \in page}]}
    /\ UNCHANGED <<family, payload, had, moves>>

MoveIssue(n, p) ==
    /\ moves < MaxMoves /\ family[n] # p /\ [family EXCEPT ![n] = p] \in Families
    /\ family' = [family EXCEPT ![n] = p]
    /\ had' = [had EXCEPT ![n] = (IF payload = {} /\ listings = {} THEN {} ELSE @) \union {p}]
    /\ moves' = IF payload = {} /\ listings = {} THEN moves ELSE moves + 1
    /\ UNCHANGED <<payload, listings>>

BacklogNext ==
    \/ FetchIssues
    \/ \E p \in Listed : FetchListing(p)
    \/ \E n \in Number, p \in Listed \union {Top} : MoveIssue(n, p)

BacklogSpec == BacklogInit /\ [][BacklogNext]_backlogVars

\* The export, and the console that loads it, refuse none of it.
Exported(doc) ==
    /\ {l.from : l \in listings} = Listed
    /\ ~LinksRefused(listings) /\ ~ChildMissing(doc, listings) /\ ~Truncated(doc, listings)
    /\ ~Looping(IssueItems(doc, listings) \union OtherItems)

-----------------------------------------------------------------------------
(***************************************************************************)
(* "No-drop": the console renders every item; an issue is shown below a    *)
(* parent it really had, one that stayed below a listed parent is shown    *)
(* there, and one that had such a parent at every moment is no root.  The  *)
(* last is said of listings declared for their parents, of payloads with   *)
(* summaries and of one departure, a move or short pages: two may balance  *)
(* out in the counts                                                       *)
(* (backlog_document_from_issues, parent_links, _build_backlog_tree).      *)
(***************************************************************************)
TreeWhole ==
    \A doc \in payload : Exported(doc) =>
        LET forest == IssueItems(doc, listings) \union OtherItems IN
        /\ Rendered(forest) = forest
        /\ \A i \in forest \ OtherItems :
              /\ i.parent # Top => i.parent \in had[i.id]
              /\ \A p \in Above(forest, i) : p \notin OtherItems
              /\ /\ had[i.id] \subseteq doc.numbers \ {Top}
                 /\ \A p \in had[i.id] : doc.total[p] # Unsaid
                 /\ had[i.id] \subseteq DeclaredParents(listings)
                 /\ moves = 0 \/ (moves = 1 /\ \A l \in listings : l.whole)
                 => /\ i.parent # Top
                    /\ Cardinality(had[i.id]) = 1 => had[i.id] = {i.parent}
=============================================================================
