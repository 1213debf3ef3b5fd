---------------------------- MODULE LeaseThread ----------------------------
(***************************************************************************)
(* The comment thread of one issue, as far as leases are concerned.        *)
(*                                                                         *)
(* The code never stores a lease: it appends claim and release markers to  *)
(* the issue's comments and derives every lease by folding over all the    *)
(* trusted markers (`_open_leases`, `current_lease`).  A thread is modelled *)
(* by the result of that fold: which sessions have an unreleased claim     *)
(* (`open`), how long each of them still runs (`left`, negative once it    *)
(* has lapsed) and who claimed before whom (`ahead`).  Appending a marker  *)
(* is then an update of that result.                                       *)
(*                                                                         *)
(* Times are relative to now, so that a behaviour may run forever in a     *)
(* finite state space.  An operation that judges a lease against a clock   *)
(* reading it took `lag` ticks ago sees each lease with `lag` more ticks.  *)
(***************************************************************************)
EXTENDS Integers

CONSTANTS
    Session,  \* the sessions that may claim the issue
    MaxTTL,   \* MAX_TTL_MINUTES
    MaxLag    \* bound: how far back a stale clock reading may reach

ASSUME MaxTTLAssumption == MaxTTL \in Nat \ {0}
ASSUME MaxLagAssumption == MaxLag \in Nat

Remaining == -MaxLag .. MaxTTL

Thread == [open  : SUBSET Session,
           left  : [Session -> Remaining],
           ahead : [Session -> SUBSET Session]]

EmptyThread == [open  |-> {},
                left  |-> [s \in Session |-> 0],
                ahead |-> [s \in Session |-> {}]]

-----------------------------------------------------------------------------
(* What a reader of the thread concludes.                                  *)

\* Mutation: leases that never expire.
LiveAtForever(th, s, lag) == s \in th.open

\* `Lease.live(now)`, with a `now` that was read `lag` ticks ago.
LiveAt(th, s, lag) == s \in th.open /\ th.left[s] + lag > 0

Live(th, s) == LiveAt(th, s, 0)

\* `current_lease`: the live claim whose session claimed earliest ...
Authoritative(th, s, lag) ==
    /\ LiveAt(th, s, lag)
    /\ \A t \in th.ahead[s] : ~LiveAt(th, t, lag)

\* ... or, when none is live, the latest of the expired ones.  The set has at
\* most one element, and none exactly when the thread has no open claim.
Reported(th, lag) ==
    IF \E s \in Session : LiveAt(th, s, lag)
    THEN {s \in th.open : Authoritative(th, s, lag)}
    ELSE {s \in th.open : \A t \in th.open : s \notin th.ahead[t]}

\* Somebody's lease is live: the condition `_sync_label` decides on.
Leased(th, lag) == \E s \in Session : LiveAt(th, s, lag)

-----------------------------------------------------------------------------
(* Appending a marker.                                                     *)

\* A claim marker of session s that runs for e more ticks.  Posted while s's
\* claim is live it supersedes that claim in place; otherwise it is a fresh
\* claim, which queues behind everyone whose claim is on the thread.
AddClaim(th, s, e) ==
    [open  |-> th.open \cup {s},
     left  |-> [th.left EXCEPT ![s] = e],
     ahead |-> IF Live(th, s)
               THEN th.ahead
               ELSE [t \in Session |-> IF t = s THEN th.open \ {s}
                                       ELSE th.ahead[t] \ {s}]]

\* A release marker of session s voids its claim.
AddRelease(th, s) ==
    [open  |-> th.open \ {s},
     left  |-> [th.left EXCEPT ![s] = 0],
     ahead |-> [t \in Session |-> IF t = s THEN {} ELSE th.ahead[t] \ {s}]]

\* One unit of time passes.
Age(th) ==
    [open  |-> th.open,
     left  |-> [s \in Session |->
                   IF s \in th.open /\ th.left[s] > -MaxLag
                   THEN th.left[s] - 1 ELSE th.left[s]],
     ahead |-> th.ahead]

-----------------------------------------------------------------------------
\* Of two open claims one is the earlier.
Ordered(th) ==
    \A s, t \in th.open : s # t => s \in th.ahead[t] \/ t \in th.ahead[s]
=============================================================================
