----------------------------- MODULE MCLifecycle -----------------------------
EXTENDS Lifecycle, TLC

CONSTANTS u1, u2, u3, a1

OneGroup == [u \in Unit |-> "group"]
NoDependencies == [u \in Unit |-> {}]
ThirdAfterFirst == (u1 :> {}) @@ (u2 :> {}) @@ (u3 :> {u1})
=============================================================================
