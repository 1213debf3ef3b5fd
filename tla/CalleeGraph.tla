---------------------------- MODULE CalleeGraph ----------------------------
(***************************************************************************)
(* Doctor's walk of the platform's reusable workflows from the callees of  *)
(* the generated callers, at their pins: the call graph first              *)
(* (platform_callee_graph), then the token each chain of calls passes on   *)
(* (token_permission_problems).                                            *)
(*                                                                         *)
(* A platform file at its pin is one node. A job either calls another      *)
(* platform file, calls something doctor cannot follow (Beyond), or      *)
(* runs steps (NoCall); it asks for a token level of its own or inherits.  *)
(***************************************************************************)
EXTENDS Naturals, FiniteSets, SequencesExt

CONSTANTS
    Callee,       \* platform workflow files, each at the SHA it is pinned to
    Roots,      \* the files the generated callers call
    MaxDepth,   \* _CALLEE_GRAPH_MAX_DEPTH, the caller counted as level 1
    PerCaller,  \* _REUSABLE_WORKFLOWS_PER_CALLER
    Beyond,  \* another repository, a branch or tag ref, a ./ call
    NoCall,     \* a job of steps
    Inherit     \* a job (and workflow) without permissions of its own

RootLevel == 2  \* _CALLEE_GRAPH_ROOT_LEVEL

ASSUME CalleeAssumption ==
    /\ IsFiniteSet(Callee) /\ Roots \subseteq Callee /\ NoCall \notin Callee
    /\ MaxDepth \in Nat /\ MaxDepth >= RootLevel /\ PerCaller \in Nat

VARIABLES
    jobs,       \* [Callee -> the jobs of the file]: what GitHub would run
    readable,   \* the files the contents API serves
    grant,      \* the level the callers' jobs pass on
    misfit,     \* <<caller, callee>> whose inputs or secrets do not match
    todo,       \* the stack of nodes to expand
    expanded,   \* [Callee -> deepest level it was expanded at]
    docs,       \* graph.docs
    edges,      \* graph.edges
    called,     \* graph.calls
    gaps,       \* graph.uninspectable
    tokens,     \* the stack of the token walk
    seen,       \* <<file, ceiling>> already walked
    over,       \* files with a job asking more than its chain grants
    stage

platform == <<jobs, readable, grant, misfit>>
calleeVars == <<platform, todo, expanded, docs, edges, called, gaps, tokens, seen, over, stage>>

Level == 0..2

\* Any platform: what its files call, and whether they fit and can be read.
PlatformInit ==
    /\ jobs \in [Callee -> SUBSET [to : Callee \union {Beyond, NoCall}, asks : Level \union {Inherit}]]
    /\ readable \in SUBSET Callee /\ grant \in Level /\ misfit \in SUBSET (Callee \X Callee)

Calls(f) == {j.to : j \in jobs[f]} \ {NoCall}

-----------------------------------------------------------------------------
\* A root that cannot be read is a gap at once; the others wait for expansion.
WalkInit ==
    /\ todo = SetToSeq({[node |-> r, depth |-> RootLevel, path |-> {r}] : r \in Roots \cap readable})
    /\ docs = Roots \cap readable
    /\ gaps = {<<r, "unread">> : r \in Roots \ readable}
    /\ expanded = [f \in Callee |-> 0]
    /\ edges = [f \in Callee |-> {}] /\ called = {}
    /\ tokens = <<>> /\ seen = {} /\ over = {}
    /\ stage = "walk"

\* Mutation: expanded once, a node is done with.
KnownAtAll(f, depth) == expanded[f] > 0

Known(f, depth) == expanded[f] >= depth

\* A node already expanded as deep is skipped; met along a deeper path, it is
\* expanded again, for the nesting limit holds of every path.
Skip ==
    /\ stage = "walk" /\ todo # <<>>
    /\ Known(Last(todo).node, Last(todo).depth)
    /\ todo' = Front(todo)
    /\ UNCHANGED <<platform, expanded, docs, edges, called, gaps, tokens, seen, over, stage>>

Expand ==
    /\ stage = "walk" /\ todo # <<>>
    /\ ~Known(Last(todo).node, Last(todo).depth)
    /\ LET top == Last(todo)
           to == Calls(top.node) \cap Callee
           looped == to \cap top.path
           deep == IF top.depth + 1 > MaxDepth THEN to \ looped ELSE {}
           met == to \ (looped \union deep)
           loaded == met \cap readable
       IN /\ expanded' = [expanded EXCEPT ![top.node] = top.depth]
          /\ edges' = [edges EXCEPT ![top.node] = to]
          /\ called' = called \union {<<top.node, t>> : t \in met}
          /\ docs' = docs \union loaded
          /\ gaps' = gaps
                 \union {<<top.node, "elsewhere">> : t \in Calls(top.node) \cap {Beyond}}
                 \union {<<top.node, "cycle">> : t \in looped}
                 \union {<<top.node, "deep">> : t \in deep}
                 \union {<<t, "unread">> : t \in met \ readable}
          /\ todo' = Front(todo) \o
                 SetToSeq({[node |-> t, depth |-> top.depth + 1, path |-> top.path \union {t}] : t \in loaded})
    /\ UNCHANGED <<platform, tokens, seen, over, stage>>

-----------------------------------------------------------------------------
\* CalleeGraph.reachable over the edges found; unreadable callees included.
Reachable(from) ==
    LET grow[n \in 0..Cardinality(Callee)] ==
            IF n = 0 THEN from
            ELSE grow[n - 1] \union UNION {edges[f] : f \in grow[n - 1]}
    IN grow[Cardinality(Callee)]

TooMany == Cardinality(Reachable(Roots)) > PerCaller

BeginTokens ==
    /\ stage = "walk" /\ todo = <<>>
    /\ stage' = "tokens"
    /\ tokens' = SetToSeq({[node |-> r, ceiling |-> grant, path |-> {}] : r \in Roots})
    /\ UNCHANGED <<platform, todo, expanded, docs, edges, called, gaps, seen, over>>

\* The token only keeps or loses permissions along a chain: what a job asks is
\* cut to its caller's grant, and asking more is a mismatch.
Effective(j, ceiling) ==
    IF j.asks = Inherit THEN ceiling ELSE IF j.asks < ceiling THEN j.asks ELSE ceiling

Walk ==
    /\ stage = "tokens" /\ tokens # <<>>
    /\ LET top == Last(tokens)
           key == <<top.node, top.ceiling>>
       IN IF key \in seen \/ top.node \in top.path \/ Cardinality(top.path) >= MaxDepth
             \/ top.node \notin docs
          THEN tokens' = Front(tokens) /\ UNCHANGED <<seen, over>>
          ELSE /\ seen' = seen \union {key}
               /\ over' = over \union {top.node : j \in {k \in jobs[top.node] :
                                            k.asks # Inherit /\ k.asks > top.ceiling}}
               /\ tokens' = Front(tokens) \o
                      SetToSeq({[node |-> j.to, ceiling |-> Effective(j, top.ceiling),
                                 path |-> top.path \union {top.node}] :
                                j \in {k \in jobs[top.node] : k.to \in Callee}})
    /\ UNCHANGED <<platform, todo, expanded, docs, edges, called, gaps, stage>>

Conclude ==
    /\ stage = "tokens" /\ tokens = <<>>
    /\ stage' = "done"
    /\ UNCHANGED <<platform, todo, expanded, docs, edges, called, gaps, tokens, seen, over>>

CalleeNext == Skip \/ Expand \/ BeginTokens \/ Walk \/ Conclude

CalleeSpec == PlatformInit /\ WalkInit /\ [][CalleeNext]_calleeVars

\* The platform reachable and contract checks pass, and no action is left out of
\* the allowlist check.
NothingReported == gaps = {} /\ called \cap misfit = {} /\ ~TooMany /\ over = {}

-----------------------------------------------------------------------------
(* The reference: every chain of calls GitHub would follow, level by level *)
(* with the token it carries.                                              *)

\* A chain continued by what a job of its last file calls.
Follow(c, j) == [files |-> Append(c.files, j.to), level |-> Effective(j, c.level)]

Longer(C) == UNION {{Follow(c, j) : j \in {k \in jobs[Last(c.files)] : k.to \in Callee}} :
                       c \in {d \in C : Last(d.files) \in readable}}

Chains ==
    LET at[n \in RootLevel..(MaxDepth + 1)] ==
            IF n = RootLevel THEN {[files |-> <<r>>, level |-> grant] : r \in Roots}
            ELSE Longer(at[n - 1])
    IN UNION {at[n] : n \in RootLevel..(MaxDepth + 1)}

Runs(c) ==
    LET f == Last(c.files)
    IN /\ f \in readable
       /\ Len(c.files) <= MaxDepth - RootLevel + 1
       /\ IsInjective(c.files)
       /\ Beyond \notin Calls(f)
       /\ \A j \in jobs[f] : j.asks # Inherit => j.asks <= c.level
       /\ \A i \in 2..Len(c.files) : <<c.files[i - 1], c.files[i]>> \notin misfit

(***************************************************************************)
(* Doctor reports nothing exactly when every chain of reusable workflows   *)
(* from the generated callers can run: each file is readable at its pin,   *)
(* no chain repeats a file or nests past the limit, none leaves the        *)
(* platform, each call fits its callee, no job asks more than the token    *)
(* its chain passes on, and the tree is within the limit per caller        *)
(* (CalleeGraph and the walks over it, though each shared callee is read   *)
(* once and expanded only when met deeper).                                *)
(***************************************************************************)
CallsVerified ==
    stage = "done" =>
        (NothingReported <=>
            /\ \A c \in Chains : Runs(c)
            /\ Cardinality(UNION {Range(c.files) : c \in Chains}) <= PerCaller)
=============================================================================
