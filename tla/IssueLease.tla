---------------------------- MODULE IssueLease -----------------------------
(***************************************************************************)
(* Leases on one issue: `claim`, `renew` and `release` of leases.py, run   *)
(* by several sessions at once against the issue's comment thread.         *)
(*                                                                         *)
(* GitHub has no compare-and-set.  Every acquisition posts its marker      *)
(* first and re-reads the thread afterwards; a session keeps the lease     *)
(* only if the re-read names it, and retracts its marker otherwise.  Every *)
(* call to GitHub is a step of its own here, so that anything may happen   *)
(* between two calls: other sessions' markers, time, pull requests, a      *)
(* closed issue, a crash.                                                  *)
(*                                                                         *)
(* Leases carry no assignee in this module (the Actions path claims        *)
(* without one); the assignee's bookkeeping is a separate concern of       *)
(* leases.py and adds no step to the operations below when it is absent.   *)
(*                                                                         *)
(* A step computes a lease's expiry (`clock() + ttl`) together with the    *)
(* read before it; the marker is posted by the next step, any number of    *)
(* ticks later.  An arbitration is judged at the clock of its read.        *)
(***************************************************************************)
EXTENDS LeaseThread

CONSTANTS
    TTL,     \* the lease lifetimes the sessions ask for
    AllowForce,   \* BOOLEAN: operators may release another session's lease
    Faults,  \* BOOLEAN: calls to GitHub may fail, processes may crash
    Churn    \* BOOLEAN: others open and close pull requests and the issue

ASSUME TTLAssumption == TTL \subseteq 1 .. MaxTTL
ASSUME SwitchAssumption ==
    AllowForce \in BOOLEAN /\ Faults \in BOOLEAN /\ Churn \in BOOLEAN

VARIABLES
    thread,     \* the issue's markers, as a reader folds them
    label,      \* the `in-progress` label is on the issue
    issueOpen,  \* the issue's state
    prs,        \* who opened the pull requests that are open for the issue
    pc,         \* the next GitHub call of each session
    lag,        \* ticks since the operation read its `now`
    stamp,      \* ticks left of the expiry in the marker about to be judged
    target,     \* whose lease a release ends
    mine,       \* ticks left of the lease the session was last granted
    resumed,    \* sessions whose renewal was a fresh claim (history)
    torn        \* some process died owing the label to a claim on the thread (history)

vars == <<thread, label, issueOpen, prs, pc, lag, stamp, target, mine, resumed, torn>>
world == <<issueOpen, prs, torn>>
local == <<lag, stamp, target, mine, resumed>>

\* An open pull request of anybody who held no lease when opening it.
Other == "other"
Publisher == Session \cup {Other}

\* The session believes it has the issue, from the arbitration it won until
\* it lets go of it or an operation of it fails.
HolderPC == {"lateIssue", "latePRs", "book", "working",
             "renewPRs", "renewLease", "renewPost", "renewJudge"}

PC == HolderPC \cup
      {"idle", "claimLease", "claimPRs", "extendPRs", "claimPost", "claimJudge",
       "retract", "undo", "releaseRead", "releasePost", "releaseQueued",
       "sync", "unlabel", "resync", "relabel"}

\* A claim that is posted owes the issue its label until it is withdrawn, and so
\* does whoever removes the label, until the thread has been read again.
Owing == {"claimJudge", "lateIssue", "latePRs", "book", "retract", "undo",
          "resync", "relabel"}

TypeOK ==
    /\ thread \in Thread
    /\ label \in BOOLEAN
    /\ issueOpen \in BOOLEAN
    /\ prs \subseteq Publisher
    /\ pc \in [Session -> PC]
    /\ lag \in [Session -> 0 .. MaxLag]
    /\ stamp \in [Session -> Remaining]
    /\ target \in [Session -> Session]
    /\ mine \in [Session -> 0 .. MaxTTL]
    /\ resumed \subseteq Session
    /\ torn \in BOOLEAN

Init ==
    /\ thread = EmptyThread
    /\ label = FALSE
    /\ issueOpen = TRUE
    /\ prs = {}
    /\ pc = [s \in Session |-> "idle"]
    /\ lag = [s \in Session |-> 0]
    /\ stamp = [s \in Session |-> 0]
    /\ target = [s \in Session |-> s]
    /\ mine = [s \in Session |-> 0]
    /\ resumed = {}
    /\ torn = FALSE

-----------------------------------------------------------------------------
(* The ends of an operation.                                               *)

Goto(s, next) == pc' = [pc EXCEPT ![s] = next]

\* The session's operation is over and it has nothing in hand: it was
\* refused, it failed, its process died, or it has let the lease go.
GiveUp(s) ==
    /\ Goto(s, "idle")
    /\ lag' = [lag EXCEPT ![s] = 0]
    /\ stamp' = [stamp EXCEPT ![s] = 0]
    /\ target' = [target EXCEPT ![s] = s]
    /\ mine' = [mine EXCEPT ![s] = 0]

\* The arbitration named the session: it holds the lease it stamped.
Granted(s, next) ==
    /\ Goto(s, next)
    /\ mine' = [mine EXCEPT ![s] = IF stamp[s] > 0 THEN stamp[s] ELSE 0]
    /\ stamp' = [stamp EXCEPT ![s] = 0]
    /\ UNCHANGED <<lag, target>>

\* `expires = clock() + ttl`, for the marker posted next.
Stamped(s, next) ==
    /\ \E ttl \in TTL : stamp' = [stamp EXCEPT ![s] = ttl]
    /\ Goto(s, next)
    /\ UNCHANGED <<lag, target, mine>>


\* The session's operation makes its next call and nothing else changes.
Proceed(s, next) == Goto(s, next) /\ UNCHANGED <<lag, stamp, target, mine>>

\* A read decides whether the operation goes on; a refusal ends it.
ProceedIf(s, ok, next) == IF ok THEN Proceed(s, next) ELSE GiveUp(s)

-----------------------------------------------------------------------------
(* claim                                                                   *)

\* The operation reads its `now` and the issue; a closed one is refused.
BeginClaim(s) ==
    /\ pc[s] = "idle"
    /\ ProceedIf(s, issueOpen, "claimLease")
    /\ UNCHANGED <<thread, label, world, resumed>>

\* The lease the thread reports: somebody's live one refuses, the session's own
\* is renewed, a lapsed one (or none) is there to take.  It is the latest at
\* the time of the read, but its liveness is judged at the older `now`.
ClaimReadLease(s) ==
    /\ pc[s] = "claimLease"
    /\ LET holder == {t \in Reported(thread, 0) : LiveAt(thread, t, lag[s])}
       IN IF holder = {} THEN Proceed(s, "claimPRs")
          ELSE ProceedIf(s, s \in holder, "extendPRs")
    /\ UNCHANGED <<thread, label, world, resumed>>

\* An open pull request for the issue is work the claim would duplicate.
ClaimReadPRs(s) ==
    /\ pc[s] = "claimPRs"
    /\ IF prs = {} THEN Stamped(s, "claimPost") ELSE GiveUp(s)
    /\ UNCHANGED <<thread, label, world, resumed>>

\* A claim of the session's own live lease checks what a renewal checks.
ExtendReadPRs(s) ==
    /\ pc[s] = "extendPRs"
    /\ IF prs = {} THEN Stamped(s, "renewPost") ELSE GiveUp(s)
    /\ UNCHANGED <<thread, label, world, resumed>>

ClaimPost(s) ==
    /\ pc[s] = "claimPost"
    /\ thread' = AddClaim(thread, s, stamp[s])
    /\ resumed' = resumed \ {s}
    /\ Proceed(s, "claimJudge")
    /\ UNCHANGED <<label, world>>

\* The post's answer is lost: the marker may be on the thread or not.
ClaimPostFails(s) ==
    /\ Faults
    /\ pc[s] = "claimPost"
    /\ thread' \in {thread, AddClaim(thread, s, stamp[s])}
    /\ resumed' = resumed \ {s}
    /\ Proceed(s, "retract")
    /\ UNCHANGED <<label, world>>

\* Mutation: a claim that is live is taken for the lease.
ClaimJudgeLiveness(s) ==
    /\ pc[s] = "claimJudge"
    /\ IF Live(thread, s) THEN Granted(s, "lateIssue") ELSE Proceed(s, "retract")
    /\ UNCHANGED <<thread, label, world, resumed>>

\* The re-read of `_post_and_arbitrate`: the earliest live claim wins.
ClaimJudge(s) ==
    /\ pc[s] = "claimJudge"
    /\ IF Authoritative(thread, s, 0)
       THEN Granted(s, "lateIssue") ELSE Proceed(s, "retract")
    /\ UNCHANGED <<thread, label, world, resumed>>

\* The marker is withdrawn; the claim was refused or failed.
Retract(s) ==
    /\ pc[s] = "retract"
    /\ thread' = AddRelease(thread, s)
    /\ GiveUp(s)
    /\ UNCHANGED <<label, world, resumed>>

\* The claim is withdrawn after it won: it stops being a holder's.
Withdraw(s, next) ==
    /\ Goto(s, next)
    /\ mine' = [mine EXCEPT ![s] = 0]
    /\ UNCHANGED <<lag, stamp, target>>

\* The issue and its pull requests are read again once the claim has won.
LateReadIssue(s) ==
    /\ pc[s] = "lateIssue"
    /\ IF issueOpen THEN Proceed(s, "latePRs") ELSE Withdraw(s, "retract")
    /\ UNCHANGED <<thread, label, world, resumed>>

\* Mutation: the pull requests read before the marker are relied on.
LateReadPRsSkipped(s) ==
    /\ pc[s] = "latePRs"
    /\ Proceed(s, "book")
    /\ UNCHANGED <<thread, label, world, resumed>>

LateReadPRs(s) ==
    /\ pc[s] = "latePRs"
    /\ IF prs = {} THEN Proceed(s, "book") ELSE Withdraw(s, "retract")
    /\ UNCHANGED <<thread, label, world, resumed>>

\* The arbitration's or a late read failed: the marker is withdrawn.
ClaimReadFails(s) ==
    /\ Faults
    /\ pc[s] \in {"claimJudge", "lateIssue", "latePRs"}
    /\ Withdraw(s, "retract")
    /\ UNCHANGED <<thread, label, world, resumed>>

\* Work starts: the claim has put the label on the issue and returns.
StartWork(s) ==
    /\ Goto(s, "working")
    /\ lag' = [lag EXCEPT ![s] = 0]
    /\ UNCHANGED <<stamp, target, mine>>

Book(s) ==
    /\ pc[s] = "book"
    /\ label' = TRUE
    /\ StartWork(s)
    /\ UNCHANGED <<thread, world, resumed>>

BookFails(s) ==
    /\ Faults
    /\ pc[s] = "book"
    /\ label' \in {label, TRUE}
    /\ Withdraw(s, "undo")
    /\ UNCHANGED <<thread, world, resumed>>

\* Bookkeeping failed: the claim is withdrawn and the label set right.
Undo(s) ==
    /\ pc[s] = "undo"
    /\ thread' = AddRelease(thread, s)
    /\ Proceed(s, "sync")
    /\ UNCHANGED <<label, world, resumed>>

-----------------------------------------------------------------------------
(* renew                                                                   *)

\* A renewal is a state check too: a closed issue stops the run.
BeginRenew(s) ==
    /\ pc[s] = "working"
    /\ ProceedIf(s, issueOpen, "renewPRs")
    /\ UNCHANGED <<thread, label, world, resumed>>

RenewReadPRs(s) ==
    /\ pc[s] = "renewPRs"
    /\ ProceedIf(s, prs = {}, "renewLease")
    /\ UNCHANGED <<thread, label, world, resumed>>

\* The session must be named by a lease that was live when renewing began.
RenewReadLease(s) ==
    /\ pc[s] = "renewLease"
    /\ IF s \in Reported(thread, lag[s]) /\ LiveAt(thread, s, lag[s])
       THEN Stamped(s, "renewPost") ELSE GiveUp(s)
    /\ UNCHANGED <<thread, label, world, resumed>>

\* The marker extends the lease that is live; a marker that comes too late
\* is a fresh claim and the session resumes with a lease it had lost.
RenewPost(s) ==
    /\ pc[s] = "renewPost"
    /\ thread' = AddClaim(thread, s, stamp[s])
    /\ resumed' = IF Live(thread, s) THEN resumed ELSE resumed \cup {s}
    /\ mine' = [mine EXCEPT ![s] =
                    IF mine[s] > 0 /\ stamp[s] > 0 THEN stamp[s] ELSE 0]
    /\ Goto(s, "renewJudge")
    /\ UNCHANGED <<label, world, lag, stamp, target>>

\* Mutation: a renewal is not arbitrated, only its own expiry is looked at.
RenewJudgeLiveness(s) ==
    /\ pc[s] = "renewJudge"
    /\ IF Live(thread, s) THEN Granted(s, "working") ELSE Withdraw(s, "retract")
    /\ UNCHANGED <<thread, label, world, resumed>>

RenewJudge(s) ==
    /\ pc[s] = "renewJudge"
    /\ IF Authoritative(thread, s, 0)
       THEN /\ Goto(s, "working")
            /\ mine' = [mine EXCEPT ![s] = IF stamp[s] > 0 THEN stamp[s] ELSE 0]
            /\ stamp' = [stamp EXCEPT ![s] = 0]
            /\ lag' = [lag EXCEPT ![s] = 0]
            /\ UNCHANGED target
       ELSE Withdraw(s, "retract")
    /\ UNCHANGED <<thread, label, world, resumed>>

-----------------------------------------------------------------------------
(* release                                                                 *)

\* A release is asked for by whoever has nothing under way: the session that
\* finished its work, its cleanup job, a retry, an operator with --force.
BeginRelease(s) ==
    /\ pc[s] \in {"idle", "working"}
    /\ Withdraw(s, "releaseRead")
    /\ UNCHANGED <<thread, label, world, resumed>>

\* What is released depends on the lease the thread reports: the session's
\* own (or, forced, anybody's) is; behind another session's live lease only
\* a queued claim of its own is; without either, only the label is set right.
ReleaseRead(s) ==
    /\ pc[s] = "releaseRead"
    /\ LET holder == Reported(thread, lag[s]) \ {s}
           blocked == \E t \in holder : LiveAt(thread, t, lag[s])
           own == s \in thread.open
       IN \/ /\ AllowForce
             /\ \E t \in holder : target' = [target EXCEPT ![s] = t]
             /\ Goto(s, "releasePost")
             /\ UNCHANGED <<lag, stamp, mine>>
          \/ own /\ ~blocked /\ Proceed(s, "releasePost")
          \/ own /\ blocked /\ Proceed(s, "releaseQueued")
          \/ ~own /\ ~blocked /\ Proceed(s, "sync")
          \/ ~own /\ blocked /\ GiveUp(s)
    /\ UNCHANGED <<thread, label, world, resumed>>

\* The marker comes first; a holder released by force does not learn of it.
ReleasePost(s) ==
    /\ pc[s] = "releasePost"
    /\ thread' = AddRelease(thread, target[s])
    /\ Goto(s, "sync")
    /\ mine' = [mine EXCEPT ![target[s]] = 0]
    /\ target' = [target EXCEPT ![s] = s]
    /\ UNCHANGED <<label, world, lag, stamp, resumed>>

ReleaseQueued(s) ==
    /\ pc[s] = "releaseQueued"
    /\ thread' = AddRelease(thread, s)
    /\ GiveUp(s)
    /\ UNCHANGED <<label, world, resumed>>

-----------------------------------------------------------------------------
(* _sync_label: remove, re-read, restore; all judged at the old `now`.     *)

SyncRead(s) ==
    /\ pc[s] = "sync"
    /\ Proceed(s, IF Leased(thread, lag[s]) THEN "relabel" ELSE "unlabel")
    /\ UNCHANGED <<thread, label, world, resumed>>

Unlabel(s) ==
    /\ pc[s] = "unlabel"
    /\ label' = FALSE
    /\ Proceed(s, "resync")
    /\ UNCHANGED <<thread, world, resumed>>

\* Mutation: a claimant that arrived during the removal is not looked for.
SyncReadAgainSkipped(s) ==
    /\ pc[s] = "resync"
    /\ GiveUp(s)
    /\ UNCHANGED <<thread, label, world, resumed>>

SyncReadAgain(s) ==
    /\ pc[s] = "resync"
    /\ ProceedIf(s, Leased(thread, lag[s]), "relabel")
    /\ UNCHANGED <<thread, label, world, resumed>>

Relabel(s) ==
    /\ pc[s] = "relabel"
    /\ label' = TRUE
    /\ GiveUp(s)
    /\ UNCHANGED <<thread, world, resumed>>

-----------------------------------------------------------------------------
(* The surroundings.                                                       *)

\* An agent dies at work; a process dies, or a call fails that nothing
\* handles, between any two calls.  The markers it posted stay.
Crash(s) ==
    /\ pc[s] = "working" \/ (Faults /\ pc[s] # "idle")
    /\ GiveUp(s)
    /\ torn' = (torn \/ pc[s] \in Owing)
    /\ UNCHANGED <<thread, label, issueOpen, prs, resumed>>

\* The agent opens its pull request; past its lease it is one more stranger.
Publish(s) ==
    /\ pc[s] = "working"
    /\ prs' = prs \cup {IF mine[s] > 0 THEN s ELSE Other}
    /\ UNCHANGED <<thread, label, issueOpen, torn, pc, local>>

OthersOpenPR ==
    /\ Churn
    /\ prs' = prs \cup {Other}
    /\ UNCHANGED <<thread, label, issueOpen, torn, pc, local>>

ClosePR ==
    /\ Churn
    /\ \E p \in prs : prs' = prs \ {p}
    /\ UNCHANGED <<thread, label, issueOpen, torn, pc, local>>

CloseOrReopen ==
    /\ Churn
    /\ issueOpen' = ~issueOpen
    /\ UNCHANGED <<thread, label, prs, torn, pc, local>>

Tick ==
    /\ thread' = Age(thread)
    /\ mine' = [s \in Session |-> IF mine[s] > 0 THEN mine[s] - 1 ELSE 0]
    /\ stamp' = [s \in Session |->
                    IF pc[s] \in {"claimPost", "claimJudge", "renewPost", "renewJudge"}
                       /\ stamp[s] > -MaxLag
                    THEN stamp[s] - 1 ELSE stamp[s]]
    /\ lag' = [s \in Session |->
                    IF pc[s] \notin {"idle", "working"} /\ lag[s] < MaxLag
                    THEN lag[s] + 1 ELSE lag[s]]
    /\ UNCHANGED <<label, world, pc, target, resumed>>

-----------------------------------------------------------------------------
Step(s) ==
    \/ ClaimReadLease(s) \/ ClaimReadPRs(s) \/ ExtendReadPRs(s)
    \/ ClaimPost(s) \/ ClaimJudge(s) \/ Retract(s)
    \/ LateReadIssue(s) \/ LateReadPRs(s) \/ Book(s) \/ Undo(s)
    \/ RenewReadPRs(s) \/ RenewReadLease(s) \/ RenewPost(s) \/ RenewJudge(s)
    \/ ReleaseRead(s) \/ ReleasePost(s) \/ ReleaseQueued(s)
    \/ SyncRead(s) \/ Unlabel(s) \/ SyncReadAgain(s) \/ Relabel(s)

Failure(s) ==
    ClaimPostFails(s) \/ ClaimReadFails(s) \/ BookFails(s) \/ Crash(s)

EndWork(s) == BeginRenew(s) \/ (pc[s] = "working" /\ BeginRelease(s))

Next ==
    \/ \E s \in Session :
        \/ BeginClaim(s) \/ BeginRenew(s) \/ BeginRelease(s)
        \/ Step(s) \/ Failure(s) \/ Publish(s)
    \/ OthersOpenPR \/ ClosePR \/ CloseOrReopen
    \/ Tick

Spec == Init /\ [][Next]_vars

\* Calls to GitHub return, time passes, work ends one way or another, and the
\* scheduled routine keeps claiming, though not for any session in particular:
\* one that died may never be seen again.
Fairness ==
    /\ WF_vars(Tick)
    /\ \A s \in Session : WF_vars(Step(s)) /\ WF_vars(EndWork(s))
    /\ SF_vars(\E s \in Session : BeginClaim(s))

FairSpec == Spec /\ Fairness

-----------------------------------------------------------------------------
(* Properties.                                                             *)

\* The session holds the issue: it was granted a lease, has not let go of it
\* and nobody ended it, and the expiry it was told has not passed.
Holding(s) == pc[s] \in HolderPC /\ mine[s] > 0

\* "One agent/session per ticket": however claims, renewals, retractions and
\* releases interleave with time and failures, two sessions never hold the
\* issue at once.
MutualExclusion ==
    \A s, t \in Session : Holding(s) /\ Holding(t) => s = t

\* What a holder was told is what the thread says: its claim is the live one
\* and everybody who claimed earlier has lapsed.
HolderOnThread ==
    \A s \in Session : Holding(s) =>
        /\ Authoritative(thread, s, 0)
        /\ thread.left[s] = mine[s]

\* The marker under arbitration, unless somebody released it.
JudgedOnThread ==
    \A s \in Session :
        pc[s] \in {"claimJudge", "renewJudge"} /\ s \in thread.open
            => thread.left[s] = stamp[s]

\* A session that let go of its lease believes in none.
NothingKept == \A s \in Session : pc[s] \notin HolderPC => mine[s] = 0

\* The inductive invariant behind MutualExclusion.
LeaseInv ==
    TypeOK /\ HolderOnThread /\ JudgedOnThread /\ NothingKept /\ Ordered(thread)

\* Nobody works on an issue for which an earlier holder's pull request is
\* open: the late reads of `claim` close the window between its first read of
\* the pull requests and its marker.  A renewal has no late reads, so sessions
\* whose lease lapsed while they renewed (`resumed`) are left out.
NoDuplicateWork ==
    \A s \in Session :
        pc[s] = "working" /\ Holding(s) /\ s \notin resumed
            => prs \subseteq {s, Other}

\* A live lease shows on the issue once nobody is busy setting the label: the
\* second read of `_sync_label` restores what its removal took from a claimant.
\* Unless a process died owing the label: a claim that is made again after that
\* finds its own live lease, renews it, and renewing sets no label.
LabelShown ==
    ~torn => \A s \in Session :
        /\ pc[s] = "working" /\ Holding(s) /\ s \notin resumed
        /\ \A t \in Session : pc[t] \notin {"unlabel", "resync", "relabel"}
        => label

\* Leases implement the ticket: with the holders as its owners, every step of
\* this module is one of Ticket's or leaves the owner alone.
ThisTicket == INSTANCE Ticket WITH owner <- {s \in Session : Holding(s)}

TicketSpec == ThisTicket!Spec

-----------------------------------------------------------------------------
\* From some time on a claim that was posted is judged before it can lapse:
\* GitHub answers faster than a lease runs out.
ClaimsInTime ==
    <>[][Tick => \A s \in Session :
            pc[s] \in {"claimPost", "claimJudge"} => stamp[s] > 1]_vars

\* From some time on calls do not fail any more; agents may still die at work.
Steady == <>[][\A s \in Session : Failure(s) => pc[s] = "working"]_vars

\* From some time on the issue is open and nobody has published for it.
Waiting == <>[](issueOpen /\ prs = {})

\* "Leases expire, so a crashed agent cannot block a ticket forever": whatever
\* claims dead sessions and failed retractions left on the thread, a waiting
\* issue is held again.
NeverBlocked ==
    ClaimsInTime /\ Steady /\ Waiting => []<>(\E s \in Session : Holding(s))

=============================================================================
