------------------------------- MODULE Ticket ------------------------------
(***************************************************************************)
(* What leases promise of an issue, without threads, clocks or markers: it *)
(* belongs to one session at most, a session gets it only while it belongs *)
(* to nobody, and it never passes from one session straight to another.    *)
(***************************************************************************)
CONSTANT Session
VARIABLE owner  \* the sessions that hold the issue

Init == owner = {}

Acquire(s) == owner = {} /\ owner' = {s}

\* Released, lapsed, lost to a failure or taken away by an operator.
Yield(s) == owner = {s} /\ owner' = {}

Next == \E s \in Session : Acquire(s) \/ Yield(s)

Spec == Init /\ [][Next]_owner

=============================================================================
