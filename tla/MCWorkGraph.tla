----------------------------- MODULE MCWorkGraph -----------------------------
(* Small graphs for WorkGraph.                                             *)
EXTENDS WorkGraph, TLC

CONSTANTS a, b, c, d, e, p, q, r, d1, d2

InOrder == [u \in Unit |-> CASE u = a -> 1 [] u = b -> 2 [] u = c -> 3 [] u = d -> 4 [] u = e -> 5]

\* Three readers that wait for nothing: the last needs what each of the others
\* needs, and may get hold of half of it.  Two writers after them, one on top of
\* the other, that share a path.
Graph == (a :> {}) @@ (b :> {}) @@ (c :> {}) @@ (d :> {a, b, c}) @@ (e :> {d})
Ordered == (a :> <<r>>) @@ (b :> <<q>>) @@ (c :> <<q, r>>) @@ (d :> <<p, q>>) @@ (e :> <<p>>)

One == [u \in Unit |-> 1]
Budgets == [u \in Unit |-> IF u = b THEN 2 ELSE 1]
Providers == [u \in Unit |-> IF u \in {b, c} THEN "cloud" ELSE "local"]
Outputs == [u \in Unit |-> IF u \in {a, e} THEN {d1, d2} ELSE {d1}]
Limits == [x \in {"cloud", "local"} |-> IF x = "cloud" THEN 1 ELSE 3]
=============================================================================
