-------------------------- MODULE IssueLeaseProofs -------------------------
(***************************************************************************)
(* What is proved of IssueLease for every set of sessions, every choice of *)
(* lifetimes and every bound: its types, the inductive invariant LeaseInv, *)
(* mutual exclusion, that leases implement the ticket, that nobody works   *)
(* beside an earlier holder's pull request, and that leases are shown.     *)
(***************************************************************************)
EXTENDS IssueLease, TLAPS

-----------------------------------------------------------------------------
(* Threads.                                                                *)

\* The fold stays a thread whatever marker is appended and as time passes.
LEMMA EmptyThreadType == EmptyThread \in Thread
  <1>1. 0 \in Remaining
    BY MaxTTLAssumption, MaxLagAssumption DEF Remaining
  <1> QED
    BY <1>1 DEF Thread, EmptyThread

LEMMA AddClaimType ==
    ASSUME NEW th \in Thread, NEW s \in Session, NEW e \in Remaining
    PROVE  AddClaim(th, s, e) \in Thread
  <1>1. [th.left EXCEPT ![s] = e] \in [Session -> Remaining]
    BY DEF Thread
  <1>2. [t \in Session |-> IF t = s THEN th.open \ {s} ELSE th.ahead[t] \ {s}]
            \in [Session -> SUBSET Session]
    BY DEF Thread
  <1> QED
    BY <1>1, <1>2 DEF Thread, AddClaim

LEMMA AddReleaseType ==
    ASSUME NEW th \in Thread, NEW s \in Session
    PROVE  AddRelease(th, s) \in Thread
  <1>1. 0 \in Remaining
    BY MaxTTLAssumption, MaxLagAssumption DEF Remaining
  <1>2. [th.left EXCEPT ![s] = 0] \in [Session -> Remaining]
    BY <1>1 DEF Thread
  <1>3. [t \in Session |-> IF t = s THEN {} ELSE th.ahead[t] \ {s}]
            \in [Session -> SUBSET Session]
    BY DEF Thread
  <1> QED
    BY <1>2, <1>3 DEF Thread, AddRelease

LEMMA AgeType ==
    ASSUME NEW th \in Thread
    PROVE  Age(th) \in Thread
  <1> DEFINE older == [s \in Session |->
                IF s \in th.open /\ th.left[s] > -MaxLag
                THEN th.left[s] - 1 ELSE th.left[s]]
  <1>1. older \in [Session -> Remaining]
    <2> SUFFICES ASSUME NEW s \in Session
                 PROVE  older[s] \in Remaining
      OBVIOUS
    <2>1. th.left[s] \in Remaining
      BY DEF Thread
    <2> QED
      BY <2>1, MaxTTLAssumption, MaxLagAssumption DEF Remaining
  <1> HIDE DEF older
  <1>2. Age(th) = [open |-> th.open, left |-> older, ahead |-> th.ahead]
    BY DEF Age, older
  <1> QED
    BY <1>1, <1>2 DEF Thread

-----------------------------------------------------------------------------
(* Types.                                                                  *)

LEMMA TypeInit == Init => TypeOK
  <1> SUFFICES ASSUME Init PROVE TypeOK
    OBVIOUS
  <1>1. 0 \in Remaining /\ 0 \in 0 .. MaxLag /\ 0 \in 0 .. MaxTTL
    BY MaxTTLAssumption, MaxLagAssumption DEF Remaining
  <1> QED
    BY <1>1, EmptyThreadType DEF Init, TypeOK, PC

\* What a session keeps of its operation.
LocalTypeOK ==
    /\ pc \in [Session -> PC]
    /\ lag \in [Session -> 0 .. MaxLag]
    /\ stamp \in [Session -> Remaining]
    /\ target \in [Session -> Session]
    /\ mine \in [Session -> 0 .. MaxTTL]

LEMMA Zeros ==
    /\ 0 \in Remaining /\ 0 \in 0 .. MaxLag /\ 0 \in 0 .. MaxTTL
    /\ TTL \subseteq Remaining
    /\ \A e \in Remaining : (IF e > 0 THEN e ELSE 0) \in 0 .. MaxTTL
  BY MaxTTLAssumption, MaxLagAssumption, TTLAssumption DEF Remaining

\* Each way an operation goes on or ends keeps them typed.
LEMMA LocalTypes ==
    ASSUME LocalTypeOK, NEW s \in Session, NEW next \in PC,
           \/ GiveUp(s) \/ Proceed(s, next) \/ Withdraw(s, next)
           \/ Granted(s, next) \/ Stamped(s, next) \/ StartWork(s)
    PROVE  LocalTypeOK'
  <1>0. "idle" \in PC /\ "working" \in PC
    BY DEF PC, HolderPC
  <1>1. CASE GiveUp(s)
    BY <1>0, <1>1, Zeros DEF LocalTypeOK, GiveUp, Goto
  <1>2. CASE Proceed(s, next)
    BY <1>2 DEF LocalTypeOK, Proceed, Goto
  <1>3. CASE Withdraw(s, next)
    BY <1>3, Zeros DEF LocalTypeOK, Withdraw, Goto
  <1>4. CASE Granted(s, next)
    <2>1. mine' \in [Session -> 0 .. MaxTTL]
      BY <1>4, Zeros DEF LocalTypeOK, Granted
    <2> QED
      BY <1>4, <2>1, Zeros DEF LocalTypeOK, Granted, Goto
  <1>5. CASE Stamped(s, next)
    BY <1>5, Zeros DEF LocalTypeOK, Stamped, Goto
  <1>6. CASE StartWork(s)
    BY <1>0, <1>6, Zeros DEF LocalTypeOK, StartWork, Goto
  <1> QED
    BY <1>1, <1>2, <1>3, <1>4, <1>5, <1>6

LEMMA TypeStep ==
    ASSUME TypeOK, NEW s \in Session,
           Step(s) \/ Failure(s) \/ Publish(s)
              \/ BeginClaim(s) \/ BeginRenew(s) \/ BeginRelease(s)
    PROVE  TypeOK'
  <1>0. LocalTypeOK /\ HolderPC \subseteq PC
    BY DEF LocalTypeOK, TypeOK, PC
  <1>a. SUFFICES LocalTypeOK' /\ thread' \in Thread /\ label' \in BOOLEAN
                 /\ issueOpen' \in BOOLEAN /\ prs' \subseteq Publisher
                 /\ resumed' \subseteq Session /\ torn' \in BOOLEAN
    BY DEF LocalTypeOK, TypeOK
  <1> USE DEF PC, HolderPC, ProceedIf, world
  <1>1. CASE BeginClaim(s)
    BY <1>1, <1>0, LocalTypes, AddClaimType, AddReleaseType DEF TypeOK, BeginClaim
  <1>2. CASE BeginRenew(s)
    BY <1>2, <1>0, LocalTypes, AddClaimType, AddReleaseType DEF TypeOK, BeginRenew
  <1>3. CASE BeginRelease(s)
    BY <1>3, <1>0, LocalTypes, AddClaimType, AddReleaseType DEF TypeOK, BeginRelease
  <1>4. CASE ClaimReadLease(s)
    BY <1>4, <1>0, LocalTypes, AddClaimType, AddReleaseType DEF TypeOK, ClaimReadLease
  <1>5. CASE ClaimReadPRs(s)
    BY <1>5, <1>0, LocalTypes, AddClaimType, AddReleaseType DEF TypeOK, ClaimReadPRs
  <1>6. CASE ExtendReadPRs(s)
    BY <1>6, <1>0, LocalTypes, AddClaimType, AddReleaseType DEF TypeOK, ExtendReadPRs
  <1>7. CASE ClaimPost(s)
    BY <1>7, <1>0, LocalTypes, AddClaimType, AddReleaseType DEF TypeOK, ClaimPost
  <1>8. CASE ClaimJudge(s)
    BY <1>8, <1>0, LocalTypes, AddClaimType, AddReleaseType DEF TypeOK, ClaimJudge
  <1>9. CASE Retract(s)
    BY <1>9, <1>0, LocalTypes, AddClaimType, AddReleaseType DEF TypeOK, Retract
  <1>10. CASE LateReadIssue(s)
    BY <1>10, <1>0, LocalTypes, AddClaimType, AddReleaseType DEF TypeOK, LateReadIssue
  <1>11. CASE LateReadPRs(s)
    BY <1>11, <1>0, LocalTypes, AddClaimType, AddReleaseType DEF TypeOK, LateReadPRs
  <1>12. CASE Book(s)
    BY <1>12, <1>0, LocalTypes, AddClaimType, AddReleaseType DEF TypeOK, Book
  <1>13. CASE Undo(s)
    BY <1>13, <1>0, LocalTypes, AddClaimType, AddReleaseType DEF TypeOK, Undo
  <1>14. CASE RenewReadPRs(s)
    BY <1>14, <1>0, LocalTypes, AddClaimType, AddReleaseType DEF TypeOK, RenewReadPRs
  <1>15. CASE RenewReadLease(s)
    BY <1>15, <1>0, LocalTypes, AddClaimType, AddReleaseType DEF TypeOK, RenewReadLease
  <1>16. CASE RenewPost(s)
    <2>1. mine' \in [Session -> 0 .. MaxTTL]
      BY <1>16, <1>0, Zeros DEF RenewPost, LocalTypeOK
    <2>2. thread' \in Thread
      BY <1>16, AddClaimType DEF RenewPost, TypeOK
    <2>3. pc' \in [Session -> PC]
      BY <1>16 DEF RenewPost, Goto, TypeOK
    <2> QED
      BY <1>16, <2>1, <2>2, <2>3 DEF RenewPost, TypeOK, LocalTypeOK
  <1>17. CASE RenewJudge(s)
    <2>1. CASE Authoritative(thread, s, 0)
      <3>1. mine' \in [Session -> 0 .. MaxTTL]
        BY <1>17, <2>1, <1>0, Zeros DEF RenewJudge, LocalTypeOK
      <3> QED
        BY <1>17, <2>1, <3>1, <1>0, Zeros DEF RenewJudge, Goto, TypeOK, LocalTypeOK
    <2>2. CASE ~Authoritative(thread, s, 0)
      BY <1>17, <2>2, <1>0, LocalTypes DEF RenewJudge, TypeOK
    <2> QED
      BY <2>1, <2>2
  <1>18. CASE ReleaseRead(s)
    <2>1. CASE \E t \in Session : /\ target' = [target EXCEPT ![s] = t]
                                /\ Goto(s, "releasePost")
                                /\ UNCHANGED <<lag, stamp, mine>>
      BY <1>18, <2>1, <1>0 DEF ReleaseRead, Goto, TypeOK, LocalTypeOK
    <2>2. CASE \/ Proceed(s, "releasePost") \/ Proceed(s, "releaseQueued")
               \/ Proceed(s, "sync") \/ GiveUp(s)
      BY <1>18, <2>2, <1>0, LocalTypes DEF ReleaseRead, TypeOK
    <2>3. Reported(thread, lag[s]) \subseteq Session
      BY DEF Reported, TypeOK, Thread
    <2> QED
      BY <1>18, <2>1, <2>2, <2>3 DEF ReleaseRead
  <1>19. CASE ReleasePost(s)
    <2>1. target[s] \in Session
      BY DEF TypeOK
    <2> QED
      BY <1>19, <2>1, <1>0, AddReleaseType, Zeros
         DEF ReleasePost, Goto, TypeOK, LocalTypeOK
  <1>20. CASE ReleaseQueued(s)
    BY <1>20, <1>0, LocalTypes, AddClaimType, AddReleaseType DEF TypeOK, ReleaseQueued
  <1>21. CASE SyncRead(s)
    BY <1>21, <1>0, LocalTypes, AddClaimType, AddReleaseType DEF TypeOK, SyncRead
  <1>22. CASE Unlabel(s)
    BY <1>22, <1>0, LocalTypes, AddClaimType, AddReleaseType DEF TypeOK, Unlabel
  <1>23. CASE SyncReadAgain(s)
    BY <1>23, <1>0, LocalTypes, AddClaimType, AddReleaseType DEF TypeOK, SyncReadAgain
  <1>24. CASE Relabel(s)
    BY <1>24, <1>0, LocalTypes, AddClaimType, AddReleaseType DEF TypeOK, Relabel
  <1>25. CASE ClaimPostFails(s)
    BY <1>25, <1>0, LocalTypes, AddClaimType, AddReleaseType DEF TypeOK, ClaimPostFails
  <1>26. CASE ClaimReadFails(s)
    BY <1>26, <1>0, LocalTypes, AddClaimType, AddReleaseType DEF TypeOK, ClaimReadFails
  <1>27. CASE BookFails(s)
    BY <1>27, <1>0, LocalTypes, AddClaimType, AddReleaseType DEF TypeOK, BookFails
  <1>28. CASE Crash(s)
    BY <1>28, <1>0, LocalTypes, AddClaimType, AddReleaseType DEF TypeOK, Crash
  <1>29. CASE Publish(s)
    BY <1>29, <1>0 DEF Publish, local, TypeOK, LocalTypeOK, Publisher
  <1> QED
    BY <1>1, <1>2, <1>3, <1>4, <1>5, <1>6, <1>7, <1>8, <1>9, <1>10, <1>11, <1>12, <1>13, <1>14, <1>15, <1>16, <1>17, <1>18, <1>19, <1>20, <1>21, <1>22, <1>23, <1>24, <1>25, <1>26, <1>27, <1>28, <1>29
       DEF Step, Failure

LEMMA TypeSurroundings ==
    ASSUME TypeOK, OthersOpenPR \/ ClosePR \/ CloseOrReopen \/ Tick
    PROVE  TypeOK'
  <1>1. CASE OthersOpenPR
    BY <1>1 DEF OthersOpenPR, TypeOK, local, Publisher
  <1>2. CASE ClosePR
    BY <1>2 DEF ClosePR, TypeOK, local
  <1>3. CASE CloseOrReopen
    BY <1>3 DEF CloseOrReopen, TypeOK, local
  <1>4. CASE Tick
    <2>1. thread' \in Thread
      BY <1>4, AgeType DEF Tick, TypeOK
    <2>2. mine' \in [Session -> 0 .. MaxTTL]
      BY <1>4, MaxTTLAssumption DEF Tick, TypeOK
    <2>3. stamp' \in [Session -> Remaining]
      BY <1>4, MaxTTLAssumption, MaxLagAssumption DEF Tick, TypeOK, Remaining
    <2>4. lag' \in [Session -> 0 .. MaxLag]
      BY <1>4, MaxLagAssumption DEF Tick, TypeOK
    <2> QED
      BY <1>4, <2>1, <2>2, <2>3, <2>4 DEF Tick, TypeOK, world
  <1> QED
    BY <1>1, <1>2, <1>3, <1>4

LEMMA TypeNext == TypeOK /\ [Next]_vars => TypeOK'
  <1> SUFFICES ASSUME TypeOK, [Next]_vars PROVE TypeOK'
    OBVIOUS
  <1>1. CASE UNCHANGED vars
    BY <1>1 DEF vars, TypeOK
  <1>2. CASE Next
    BY <1>2, TypeStep, TypeSurroundings DEF Next
  <1> QED
    BY <1>1, <1>2

\* Every state of every session's operations stays in its bounds, whatever the
\* sessions, the lifetimes and the lag.
THEOREM TypeCorrect == Spec => []TypeOK
  BY TypeInit, TypeNext, PTL DEF Spec

-----------------------------------------------------------------------------
(* What a marker does to the authority of a lease.                         *)

\* Two sessions are never both the earliest live one.
LEMMA Exclusive ==
    ASSUME NEW th \in Thread, Ordered(th), NEW s \in Session, NEW t \in Session,
           Authoritative(th, s, 0), Authoritative(th, t, 0)
    PROVE  s = t
  BY DEF Thread, Ordered, Authoritative, LiveAt

\* Another session's marker does not dethrone a holder: a live senior would
\* have been the holder, and a lapsed one goes to the back.
LEMMA ClaimByOther ==
    ASSUME NEW th \in Thread, NEW s \in Session, NEW t \in Session, s # t,
           NEW e \in Remaining, Authoritative(th, t, 0)
    PROVE  /\ Authoritative(AddClaim(th, s, e), t, 0)
           /\ AddClaim(th, s, e).left[t] = th.left[t]
  BY DEF Thread, AddClaim, Authoritative, Live, LiveAt

\* A holder that extends its lease keeps it.
LEMMA ClaimByHolder ==
    ASSUME NEW th \in Thread, NEW s \in Session, NEW e \in Remaining, e > 0,
           Authoritative(th, s, 0)
    PROVE  /\ Authoritative(AddClaim(th, s, e), s, 0)
           /\ AddClaim(th, s, e).left[s] = e
  BY DEF Thread, AddClaim, Authoritative, Live, LiveAt, Remaining

LEMMA ReleaseByOther ==
    ASSUME NEW th \in Thread, NEW s \in Session, NEW t \in Session, s # t,
           Authoritative(th, t, 0)
    PROVE  /\ Authoritative(AddRelease(th, s), t, 0)
           /\ AddRelease(th, s).left[t] = th.left[t]
  BY DEF Thread, AddRelease, Authoritative, LiveAt

\* The passing of time takes the lease from nobody but those it lapses for.
LEMMA AgeKeeps ==
    ASSUME NEW th \in Thread, NEW t \in Session, th.left[t] > 1,
           Authoritative(th, t, 0)
    PROVE  /\ Authoritative(Age(th), t, 0)
           /\ Age(th).left[t] = th.left[t] - 1
  <1>1. \A u \in Session : th.left[u] \in Int
    BY MaxTTLAssumption, MaxLagAssumption DEF Thread, Remaining
  <1>2. \A u \in Session : Age(th).left[u] =
            IF u \in th.open /\ th.left[u] > -MaxLag
            THEN th.left[u] - 1 ELSE th.left[u]
    BY DEF Age
  <1>3. Age(th).left[t] = th.left[t] - 1 /\ Age(th).left[t] > 0
    BY <1>1, <1>2, MaxLagAssumption DEF Authoritative, LiveAt
  <1>4. \A u \in Session : Age(th).left[u] > 0 => th.left[u] > 0
    BY <1>1, <1>2
  <1>5. Age(th).open = th.open /\ Age(th).ahead = th.ahead
    BY DEF Age
  <1>6. th.ahead[t] \subseteq Session
    BY DEF Thread
  <1>7. \A u \in Session : Age(th).left[u] \in Int
    BY AgeType, MaxTTLAssumption, MaxLagAssumption DEF Thread, Remaining
  <1> QED
    BY <1>1, <1>3, <1>4, <1>5, <1>6, <1>7 DEF Authoritative, LiveAt

LEMMA OrderKept ==
    ASSUME NEW th \in Thread, Ordered(th), NEW s \in Session, NEW e \in Remaining
    PROVE  Ordered(AddClaim(th, s, e)) /\ Ordered(AddRelease(th, s))
  <1>1. Ordered(AddClaim(th, s, e))
    BY DEF Thread, AddClaim, Ordered, Live, LiveAt
  <1>2. Ordered(AddRelease(th, s))
    BY DEF Thread, AddRelease, Ordered
  <1> QED
    BY <1>1, <1>2

LEMMA AgeKeepsOrder ==
    ASSUME NEW th \in Thread, Ordered(th)
    PROVE  Ordered(Age(th))
  BY DEF Thread, Age, Ordered

-----------------------------------------------------------------------------
(* The inductive invariant.                                                *)

\* A step of one session.
StepOf(s) ==
    \/ Step(s) \/ Failure(s) \/ Publish(s)
    \/ BeginClaim(s) \/ BeginRenew(s) \/ BeginRelease(s)

HolderOK(t) ==
    /\ Holding(t) => Authoritative(thread, t, 0) /\ thread.left[t] = mine[t]
    /\ pc[t] \notin HolderPC => mine[t] = 0

JudgedOK(t) ==
    pc[t] \in {"claimJudge", "renewJudge"} /\ t \in thread.open
        => thread.left[t] = stamp[t]

\* A session touches the thread by a marker of its own or by the release of a
\* session that does not hold the issue afterwards.
Claims(s) == \E e \in Remaining : thread' = AddClaim(thread, s, e)

Releases(s, u) == thread' = AddRelease(thread, u) /\ (u = s \/ mine'[u] = 0)

LEMMA ThreadMoves ==
    ASSUME TypeOK, NEW s \in Session, StepOf(s)
    PROVE  thread' = thread \/ Claims(s) \/ \E u \in Session : Releases(s, u)
  <1> USE DEF world, local, Claims, Releases
  <1>1. CASE BeginClaim(s)
    BY <1>1 DEF BeginClaim
  <1>2. CASE BeginRenew(s)
    BY <1>2 DEF BeginRenew
  <1>3. CASE BeginRelease(s)
    BY <1>3 DEF BeginRelease
  <1>4. CASE ClaimReadLease(s)
    BY <1>4 DEF ClaimReadLease
  <1>5. CASE ClaimReadPRs(s)
    BY <1>5 DEF ClaimReadPRs
  <1>6. CASE ExtendReadPRs(s)
    BY <1>6 DEF ExtendReadPRs
  <1>7. CASE ClaimPost(s)
    BY <1>7 DEF ClaimPost, TypeOK
  <1>8. CASE ClaimJudge(s)
    BY <1>8 DEF ClaimJudge
  <1>9. CASE Retract(s)
    BY <1>9 DEF Retract
  <1>10. CASE LateReadIssue(s)
    BY <1>10 DEF LateReadIssue
  <1>11. CASE LateReadPRs(s)
    BY <1>11 DEF LateReadPRs
  <1>12. CASE Book(s)
    BY <1>12 DEF Book
  <1>13. CASE Undo(s)
    BY <1>13 DEF Undo
  <1>14. CASE RenewReadPRs(s)
    BY <1>14 DEF RenewReadPRs
  <1>15. CASE RenewReadLease(s)
    BY <1>15 DEF RenewReadLease
  <1>16. CASE RenewPost(s)
    BY <1>16 DEF RenewPost, TypeOK
  <1>17. CASE RenewJudge(s)
    BY <1>17 DEF RenewJudge
  <1>18. CASE ReleaseRead(s)
    BY <1>18 DEF ReleaseRead
  <1>19. CASE ReleasePost(s)
    <2>1. target[s] \in Session
      BY DEF TypeOK
    <2>2. mine'[target[s]] = 0
      BY <1>19, <2>1 DEF ReleasePost, TypeOK
    <2> QED
      BY <1>19, <2>1, <2>2 DEF ReleasePost
  <1>20. CASE ReleaseQueued(s)
    BY <1>20 DEF ReleaseQueued
  <1>21. CASE SyncRead(s)
    BY <1>21 DEF SyncRead
  <1>22. CASE Unlabel(s)
    BY <1>22 DEF Unlabel
  <1>23. CASE SyncReadAgain(s)
    BY <1>23 DEF SyncReadAgain
  <1>24. CASE Relabel(s)
    BY <1>24 DEF Relabel
  <1>25. CASE ClaimPostFails(s)
    BY <1>25 DEF ClaimPostFails, TypeOK
  <1>26. CASE ClaimReadFails(s)
    BY <1>26 DEF ClaimReadFails
  <1>27. CASE BookFails(s)
    BY <1>27 DEF BookFails
  <1>28. CASE Crash(s)
    BY <1>28 DEF Crash
  <1>29. CASE Publish(s)
    BY <1>29 DEF Publish
  <1> QED
    BY <1>1, <1>2, <1>3, <1>4, <1>5, <1>6, <1>7, <1>8, <1>9, <1>10, <1>11, <1>12, <1>13, <1>14, <1>15, <1>16, <1>17, <1>18, <1>19, <1>20, <1>21, <1>22, <1>23, <1>24, <1>25, <1>26, <1>27, <1>28, <1>29
       DEF StepOf, Step, Failure

\* It leaves the other sessions' operations alone, except that a release ends
\* the lease of the session it names.
LEMMA OthersKept ==
    ASSUME TypeOK, NEW s \in Session, NEW t \in Session, s # t, StepOf(s)
    PROVE  /\ pc'[t] = pc[t] /\ stamp'[t] = stamp[t]
           /\ mine'[t] = mine[t] \/ (mine'[t] = 0 /\ pc'[s] = "sync")
  <1> USE DEF HolderPC, ProceedIf, Proceed, GiveUp, Withdraw, Granted, Stamped, StartWork, Goto, world, local
  <1>1. CASE BeginClaim(s)
    BY <1>1 DEF BeginClaim, TypeOK
  <1>2. CASE BeginRenew(s)
    BY <1>2 DEF BeginRenew, TypeOK
  <1>3. CASE BeginRelease(s)
    BY <1>3 DEF BeginRelease, TypeOK
  <1>4. CASE ClaimReadLease(s)
    BY <1>4 DEF ClaimReadLease, TypeOK
  <1>5. CASE ClaimReadPRs(s)
    BY <1>5 DEF ClaimReadPRs, TypeOK
  <1>6. CASE ExtendReadPRs(s)
    BY <1>6 DEF ExtendReadPRs, TypeOK
  <1>7. CASE ClaimPost(s)
    BY <1>7 DEF ClaimPost, TypeOK
  <1>8. CASE ClaimJudge(s)
    BY <1>8 DEF ClaimJudge, TypeOK
  <1>9. CASE Retract(s)
    BY <1>9 DEF Retract, TypeOK
  <1>10. CASE LateReadIssue(s)
    BY <1>10 DEF LateReadIssue, TypeOK
  <1>11. CASE LateReadPRs(s)
    BY <1>11 DEF LateReadPRs, TypeOK
  <1>12. CASE Book(s)
    BY <1>12 DEF Book, TypeOK
  <1>13. CASE Undo(s)
    BY <1>13 DEF Undo, TypeOK
  <1>14. CASE RenewReadPRs(s)
    BY <1>14 DEF RenewReadPRs, TypeOK
  <1>15. CASE RenewReadLease(s)
    BY <1>15 DEF RenewReadLease, TypeOK
  <1>16. CASE RenewPost(s)
    BY <1>16 DEF RenewPost, TypeOK
  <1>17. CASE RenewJudge(s)
    BY <1>17 DEF RenewJudge, TypeOK
  <1>18. CASE ReleaseRead(s)
    BY <1>18 DEF ReleaseRead, TypeOK
  <1>19. CASE ReleasePost(s)
    BY <1>19 DEF ReleasePost, TypeOK
  <1>20. CASE ReleaseQueued(s)
    BY <1>20 DEF ReleaseQueued, TypeOK
  <1>21. CASE SyncRead(s)
    BY <1>21 DEF SyncRead, TypeOK
  <1>22. CASE Unlabel(s)
    BY <1>22 DEF Unlabel, TypeOK
  <1>23. CASE SyncReadAgain(s)
    BY <1>23 DEF SyncReadAgain, TypeOK
  <1>24. CASE Relabel(s)
    BY <1>24 DEF Relabel, TypeOK
  <1>25. CASE ClaimPostFails(s)
    BY <1>25 DEF ClaimPostFails, TypeOK
  <1>26. CASE ClaimReadFails(s)
    BY <1>26 DEF ClaimReadFails, TypeOK
  <1>27. CASE BookFails(s)
    BY <1>27 DEF BookFails, TypeOK
  <1>28. CASE Crash(s)
    BY <1>28 DEF Crash, TypeOK
  <1>29. CASE Publish(s)
    BY <1>29 DEF Publish, TypeOK
  <1> QED
    BY <1>1, <1>2, <1>3, <1>4, <1>5, <1>6, <1>7, <1>8, <1>9, <1>10, <1>11, <1>12, <1>13, <1>14, <1>15, <1>16, <1>17, <1>18, <1>19, <1>20, <1>21, <1>22, <1>23, <1>24, <1>25, <1>26, <1>27, <1>28, <1>29
       DEF StepOf, Step, Failure

\* So what holds of another session's lease goes on holding.
LEMMA OthersHold ==
    ASSUME TypeOK, NEW s \in Session, NEW t \in Session, s # t, StepOf(s),
           HolderOK(t), JudgedOK(t)
    PROVE  HolderOK(t)' /\ JudgedOK(t)'
  <1>1. /\ pc'[t] = pc[t] /\ stamp'[t] = stamp[t]
        /\ mine'[t] = mine[t] \/ mine'[t] = 0
    BY OthersKept
  <1>2. thread \in Thread
    BY DEF TypeOK
  <1>3. Holding(t)' => Holding(t) /\ mine'[t] = mine[t] /\ mine'[t] # 0
    BY <1>1, MaxTTLAssumption DEF Holding, TypeOK
  <1>4. CASE thread' = thread
    BY <1>1, <1>3, <1>4 DEF HolderOK, JudgedOK, Authoritative, LiveAt
  <1>5. CASE Claims(s)
    <2>1. PICK e \in Remaining : thread' = AddClaim(thread, s, e)
      BY <1>5 DEF Claims
    <2>2. HolderOK(t)'
      <3>1. SUFFICES ASSUME Holding(t)'
                     PROVE  Authoritative(thread', t, 0) /\ thread'.left[t] = mine'[t]
        BY <1>1 DEF HolderOK, Authoritative, LiveAt
      <3>2. Authoritative(thread, t, 0) /\ thread.left[t] = mine[t]
        BY <1>3, <3>1 DEF HolderOK
      <3> QED
        BY <1>2, <1>3, <2>1, <3>1, <3>2, ClaimByOther
    <2>3. thread'.left[t] = thread.left[t] /\ (t \in thread'.open => t \in thread.open)
      BY <1>2, <2>1 DEF AddClaim, Thread
    <2> QED
      BY <1>1, <2>2, <2>3 DEF JudgedOK
  <1>6. CASE \E u \in Session : Releases(s, u)
    <2>1. PICK u \in Session : thread' = AddRelease(thread, u)
                              /\ (u = s \/ mine'[u] = 0)
      BY <1>6 DEF Releases
    <2>2. CASE u = t
      <3>1. ~Holding(t)'
        BY <1>3, <2>1, <2>2
      <3>2. t \notin thread'.open
        BY <2>1, <2>2 DEF AddRelease
      <3> QED
        BY <1>1, <3>1, <3>2 DEF HolderOK, JudgedOK
    <2>3. CASE u # t
      <3>1. HolderOK(t)'
        <4>1. SUFFICES ASSUME Holding(t)'
                       PROVE  Authoritative(thread', t, 0) /\ thread'.left[t] = mine'[t]
          BY <1>1 DEF HolderOK, Authoritative, LiveAt
        <4>2. Authoritative(thread, t, 0) /\ thread.left[t] = mine[t]
          BY <1>3, <4>1 DEF HolderOK
        <4> QED
          BY <1>2, <1>3, <2>1, <2>3, <4>1, <4>2, ReleaseByOther
      <3>2. thread'.left[t] = thread.left[t] /\ (t \in thread'.open => t \in thread.open)
        BY <1>2, <2>1, <2>3 DEF AddRelease, Thread
      <3> QED
        BY <1>1, <3>1, <3>2 DEF JudgedOK
    <2> QED
      BY <2>2, <2>3
  <1> QED
    BY <1>4, <1>5, <1>6, ThreadMoves

\* A step that does not make the session a holder, and posts no marker it would
\* judge, leaves nothing to show about its own lease.
LEMMA OwnIdle ==
    ASSUME TypeOK, NEW s \in Session,
           pc'[s] \notin HolderPC \cup {"claimJudge"}, HolderOK(s),
           mine'[s] = 0 \/ (mine'[s] = mine[s] /\ pc[s] \notin HolderPC)
    PROVE  HolderOK(s)' /\ JudgedOK(s)'
  BY DEF HolderOK, JudgedOK, Holding, HolderPC

\* A step that keeps a holder a holder and does not touch the thread.
LEMMA OwnKept ==
    ASSUME TypeOK, NEW s \in Session, HolderOK(s), thread' = thread,
           mine'[s] = mine[s], pc[s] \in HolderPC,
           pc'[s] \in HolderPC \ {"renewJudge"}
    PROVE  HolderOK(s)' /\ JudgedOK(s)'
  BY DEF HolderOK, JudgedOK, Holding, HolderPC, Authoritative, LiveAt

LEMMA OwnHolds ==
    ASSUME TypeOK, NEW s \in Session, StepOf(s), HolderOK(s), JudgedOK(s)
    PROVE  HolderOK(s)' /\ JudgedOK(s)'
  <1> USE DEF HolderPC, ProceedIf, Proceed, GiveUp, Withdraw, Granted, Stamped, StartWork, Goto, world, local
  <1>1. CASE BeginClaim(s)
    BY <1>1, OwnIdle, OwnKept DEF BeginClaim, TypeOK
  <1>2. CASE BeginRenew(s)
    BY <1>2, OwnIdle, OwnKept DEF BeginRenew, TypeOK
  <1>3. CASE BeginRelease(s)
    BY <1>3, OwnIdle, OwnKept DEF BeginRelease, TypeOK
  <1>4. CASE ClaimReadLease(s)
    BY <1>4, OwnIdle, OwnKept DEF ClaimReadLease, TypeOK
  <1>5. CASE ClaimReadPRs(s)
    BY <1>5, OwnIdle, OwnKept DEF ClaimReadPRs, TypeOK
  <1>6. CASE ExtendReadPRs(s)
    <2>1. mine'[s] = 0 /\ pc'[s] \in {"renewPost", "idle"}
      BY <1>6 DEF ExtendReadPRs, HolderOK, TypeOK
    <2> QED
      BY <2>1 DEF HolderOK, JudgedOK, Holding
  <1>7. CASE ClaimPost(s)
    <2>1. thread'.left[s] = stamp[s] /\ stamp'[s] = stamp[s]
      BY <1>7 DEF ClaimPost, AddClaim, TypeOK, Thread
    <2>2. mine'[s] = 0 /\ pc'[s] = "claimJudge"
      BY <1>7 DEF ClaimPost, HolderOK, TypeOK
    <2> QED
      BY <2>1, <2>2 DEF HolderOK, JudgedOK, Holding
  <1>8. CASE ClaimJudge(s)
    <2>1. CASE Authoritative(thread, s, 0)
      <3>1. thread.left[s] = stamp[s] /\ stamp[s] > 0
        BY <1>8, <2>1 DEF ClaimJudge, JudgedOK, Authoritative, LiveAt, TypeOK, Thread, Remaining
      <3>2. mine'[s] = stamp[s] /\ pc'[s] = "lateIssue" /\ thread' = thread
        BY <1>8, <2>1, <3>1 DEF ClaimJudge, TypeOK
      <3> QED
        BY <2>1, <3>1, <3>2 DEF HolderOK, JudgedOK, Authoritative, LiveAt
    <2>2. CASE ~Authoritative(thread, s, 0)
      BY <1>8, <2>2, OwnIdle DEF ClaimJudge, TypeOK
    <2> QED
      BY <2>1, <2>2
  <1>9. CASE Retract(s)
    BY <1>9, OwnIdle, OwnKept DEF Retract, TypeOK
  <1>10. CASE LateReadIssue(s)
    BY <1>10, OwnIdle, OwnKept DEF LateReadIssue, TypeOK
  <1>11. CASE LateReadPRs(s)
    BY <1>11, OwnIdle, OwnKept DEF LateReadPRs, TypeOK
  <1>12. CASE Book(s)
    BY <1>12, OwnIdle, OwnKept DEF Book, TypeOK
  <1>13. CASE Undo(s)
    BY <1>13, OwnIdle, OwnKept DEF Undo, TypeOK
  <1>14. CASE RenewReadPRs(s)
    BY <1>14, OwnIdle, OwnKept DEF RenewReadPRs, TypeOK
  <1>15. CASE RenewReadLease(s)
    BY <1>15, OwnIdle, OwnKept DEF RenewReadLease, TypeOK
  <1>16. CASE RenewPost(s)
    <2>1. thread'.left[s] = stamp[s] /\ stamp'[s] = stamp[s] /\ pc'[s] = "renewJudge"
      BY <1>16 DEF RenewPost, AddClaim, TypeOK, Thread
    <2>2. CASE mine[s] > 0 /\ stamp[s] > 0
      <3>1. Authoritative(thread, s, 0)
        BY <1>16, <2>2 DEF RenewPost, HolderOK, Holding
      <3>2. Authoritative(thread', s, 0)
        BY <1>16, <2>2, <3>1, ClaimByHolder DEF RenewPost, TypeOK
      <3>3. mine'[s] = stamp[s]
        BY <1>16, <2>2 DEF RenewPost, TypeOK
      <3> QED
        BY <2>1, <3>2, <3>3 DEF HolderOK, JudgedOK, Authoritative, LiveAt
    <2>3. CASE ~(mine[s] > 0 /\ stamp[s] > 0)
      <3>1. mine'[s] = 0
        BY <1>16, <2>3 DEF RenewPost, TypeOK
      <3> QED
        BY <2>1, <3>1 DEF HolderOK, JudgedOK, Holding
    <2> QED
      BY <2>2, <2>3
  <1>17. CASE RenewJudge(s)
    <2>1. CASE Authoritative(thread, s, 0)
      <3>1. thread.left[s] = stamp[s] /\ stamp[s] > 0
        BY <1>17, <2>1 DEF RenewJudge, JudgedOK, Authoritative, LiveAt, TypeOK, Thread, Remaining
      <3>2. mine'[s] = stamp[s] /\ pc'[s] = "working" /\ thread' = thread
        BY <1>17, <2>1, <3>1 DEF RenewJudge, TypeOK
      <3> QED
        BY <2>1, <3>1, <3>2 DEF HolderOK, JudgedOK, Authoritative, LiveAt
    <2>2. CASE ~Authoritative(thread, s, 0)
      BY <1>17, <2>2, OwnIdle DEF RenewJudge, TypeOK
    <2> QED
      BY <2>1, <2>2
  <1>18. CASE ReleaseRead(s)
    BY <1>18, OwnIdle, OwnKept DEF ReleaseRead, TypeOK
  <1>19. CASE ReleasePost(s)
    BY <1>19, OwnIdle, OwnKept DEF ReleasePost, TypeOK
  <1>20. CASE ReleaseQueued(s)
    BY <1>20, OwnIdle, OwnKept DEF ReleaseQueued, TypeOK
  <1>21. CASE SyncRead(s)
    BY <1>21, OwnIdle, OwnKept DEF SyncRead, TypeOK
  <1>22. CASE Unlabel(s)
    BY <1>22, OwnIdle, OwnKept DEF Unlabel, TypeOK
  <1>23. CASE SyncReadAgain(s)
    BY <1>23, OwnIdle, OwnKept DEF SyncReadAgain, TypeOK
  <1>24. CASE Relabel(s)
    BY <1>24, OwnIdle, OwnKept DEF Relabel, TypeOK
  <1>25. CASE ClaimPostFails(s)
    BY <1>25, OwnIdle, OwnKept DEF ClaimPostFails, TypeOK
  <1>26. CASE ClaimReadFails(s)
    BY <1>26, OwnIdle, OwnKept DEF ClaimReadFails, TypeOK
  <1>27. CASE BookFails(s)
    BY <1>27, OwnIdle, OwnKept DEF BookFails, TypeOK
  <1>28. CASE Crash(s)
    BY <1>28, OwnIdle, OwnKept DEF Crash, TypeOK
  <1>29. CASE Publish(s)
    BY <1>29, OwnIdle, OwnKept DEF Publish, TypeOK
  <1> QED
    BY <1>1, <1>2, <1>3, <1>4, <1>5, <1>6, <1>7, <1>8, <1>9, <1>10, <1>11, <1>12, <1>13, <1>14, <1>15, <1>16, <1>17, <1>18, <1>19, <1>20, <1>21, <1>22, <1>23, <1>24, <1>25, <1>26, <1>27, <1>28, <1>29
       DEF StepOf, Step, Failure

\* The invariant, one session at a time.
LEMMA LeaseInvBySession ==
    LeaseInv <=> /\ TypeOK /\ Ordered(thread)
                 /\ \A t \in Session : HolderOK(t) /\ JudgedOK(t)
  BY DEF LeaseInv, HolderOnThread, JudgedOnThread, NothingKept, HolderOK, JudgedOK

LEMMA LeaseInvInit == Init => LeaseInv
  <1> SUFFICES ASSUME Init PROVE LeaseInv
    OBVIOUS
  <1>1. Ordered(thread)
    BY DEF Init, EmptyThread, Ordered
  <1>2. ASSUME NEW t \in Session PROVE HolderOK(t) /\ JudgedOK(t)
    BY <1>2 DEF Init, HolderOK, JudgedOK, Holding, HolderPC
  <1> QED
    BY <1>1, <1>2, TypeInit, LeaseInvBySession

LEMMA LeaseInvStep ==
    ASSUME LeaseInv, NEW s \in Session, StepOf(s)
    PROVE  LeaseInv'
  <1>1. /\ TypeOK /\ Ordered(thread) /\ thread \in Thread
        /\ \A t \in Session : HolderOK(t) /\ JudgedOK(t)
    BY LeaseInvBySession DEF TypeOK
  <1>2. TypeOK'
    BY <1>1, TypeStep DEF StepOf
  <1>3. Ordered(thread)'
    <2>1. CASE thread' = thread
      BY <1>1, <2>1
    <2>2. CASE Claims(s)
      BY <1>1, <2>2, OrderKept DEF Claims
    <2>3. CASE \E u \in Session : Releases(s, u)
      <3>1. PICK u \in Session : thread' = AddRelease(thread, u)
        BY <2>3 DEF Releases
      <3>2. 0 \in Remaining
        BY Zeros
      <3> QED
        BY <1>1, <3>1, <3>2, OrderKept
    <2> QED
      BY <1>1, <2>1, <2>2, <2>3, ThreadMoves
  <1>4. ASSUME NEW t \in Session PROVE HolderOK(t)' /\ JudgedOK(t)'
    <2>1. CASE t = s
      BY <1>1, <2>1, OwnHolds
    <2>2. CASE t # s
      BY <1>1, <2>2, OthersHold
    <2> QED
      BY <2>1, <2>2
  <1> QED
    BY <1>2, <1>3, <1>4
       DEF LeaseInv, HolderOnThread, JudgedOnThread, NothingKept, HolderOK, JudgedOK

LEMMA LeaseInvTick == LeaseInv /\ Tick => LeaseInv'
  <1> SUFFICES ASSUME LeaseInv, Tick PROVE LeaseInv'
    OBVIOUS
  <1>1. /\ TypeOK /\ Ordered(thread) /\ thread \in Thread
        /\ \A t \in Session : HolderOK(t) /\ JudgedOK(t)
    BY LeaseInvBySession DEF TypeOK
  <1>2. TypeOK'
    BY <1>1, TypeSurroundings
  <1>3. Ordered(thread)'
    <2>1. Ordered(Age(thread))
      BY <1>1, AgeKeepsOrder
    <2> QED
      BY <2>1 DEF Tick, Ordered
  <1>4. ASSUME NEW t \in Session PROVE HolderOK(t)' /\ JudgedOK(t)'
    <2>1. pc'[t] = pc[t] /\ thread' = Age(thread)
      BY DEF Tick
    <2>2. mine[t] \in 0 .. MaxTTL /\ mine'[t] = IF mine[t] > 0 THEN mine[t] - 1 ELSE 0
      BY <1>1 DEF Tick, TypeOK
    <2>3. HolderOK(t)'
      <3>1. CASE Holding(t)'
        <4>1. Holding(t) /\ mine[t] > 1 /\ mine'[t] = mine[t] - 1
          BY <2>1, <2>2, <3>1, MaxTTLAssumption DEF Holding
        <4>2. Authoritative(thread, t, 0) /\ thread.left[t] = mine[t]
          BY <1>1, <4>1 DEF HolderOK
        <4>3. Authoritative(thread', t, 0) /\ thread'.left[t] = mine'[t]
          BY <1>1, <2>1, <4>1, <4>2, AgeKeeps
        <4> QED
          BY <2>1, <3>1, <4>3 DEF HolderOK, Holding, Authoritative, LiveAt
      <3>2. CASE ~Holding(t)'
        BY <1>1, <2>1, <2>2, <3>2 DEF HolderOK
      <3> QED
        BY <3>1, <3>2
    <2>4. JudgedOK(t)'
      <3>1. SUFFICES ASSUME pc[t] \in {"claimJudge", "renewJudge"}, t \in thread'.open
                     PROVE  thread'.left[t] = stamp'[t]
        BY <2>1 DEF JudgedOK
      <3>2. t \in thread.open /\ thread.left[t] = stamp[t]
        BY <1>1, <2>1, <3>1 DEF JudgedOK, Age
      <3>3. thread'.left[t] = IF thread.left[t] > -MaxLag
                              THEN thread.left[t] - 1 ELSE thread.left[t]
        BY <2>1, <3>2 DEF Age
      <3>4. stamp'[t] = IF stamp[t] > -MaxLag THEN stamp[t] - 1 ELSE stamp[t]
        BY <3>1 DEF Tick
      <3> QED
        BY <3>2, <3>3, <3>4
    <2> QED
      BY <2>3, <2>4
  <1> QED
    BY <1>2, <1>3, <1>4
       DEF LeaseInv, HolderOnThread, JudgedOnThread, NothingKept, HolderOK, JudgedOK

LEMMA LeaseInvNext == LeaseInv /\ [Next]_vars => LeaseInv'
  <1> SUFFICES ASSUME LeaseInv, [Next]_vars PROVE LeaseInv'
    OBVIOUS
  <1>1. ASSUME NEW s \in Session, StepOf(s) PROVE LeaseInv'
    BY <1>1, LeaseInvStep
  <1>2. CASE Tick
    BY <1>2, LeaseInvTick
  <1>3. CASE OthersOpenPR \/ ClosePR \/ CloseOrReopen \/ UNCHANGED vars
    <2>1. TypeOK'
      BY <1>3, TypeNext DEF LeaseInv, Next
    <2>2. UNCHANGED <<thread, pc, stamp, mine>>
      BY <1>3 DEF OthersOpenPR, ClosePR, CloseOrReopen, vars, local
    <2> QED
      BY <2>1, <2>2 DEF LeaseInv, HolderOnThread, JudgedOnThread, NothingKept,
                        Holding, Authoritative, LiveAt, Ordered
  <1> QED
    BY <1>1, <1>2, <1>3 DEF Next, StepOf

\* LeaseInv is inductive: what a holder was told agrees with the thread in
\* every reachable state.
THEOREM LeaseInvariant == Spec => []LeaseInv
  BY LeaseInvInit, LeaseInvNext, PTL DEF Spec

LEMMA LeaseInvExcludes == LeaseInv => MutualExclusion
  BY Exclusive DEF LeaseInv, TypeOK, HolderOnThread, MutualExclusion

\* "One agent/session per ticket", for any number of sessions.
THEOREM OnePerTicket == Spec => []MutualExclusion
  BY LeaseInvariant, LeaseInvExcludes, PTL

-----------------------------------------------------------------------------
(* Leases implement the ticket.                                            *)

Owners == {s \in Session : Holding(s)}

\* A step of one session makes no other session a holder.
LEMMA OthersGain ==
    ASSUME TypeOK, NEW s \in Session, NEW t \in Session, s # t, StepOf(s), Holding(t)'
    PROVE  Holding(t)
  BY OthersKept, MaxTTLAssumption DEF Holding, TypeOK

\* Only the release of its lease makes another session lose its ticket, and
\* whoever posts that release holds none afterwards.
LEMMA OthersLose ==
    ASSUME TypeOK, NEW s \in Session, NEW t \in Session, s # t, StepOf(s),
           Holding(t), ~Holding(t)'
    PROVE  ~Holding(s)'
  BY OthersKept DEF Holding, HolderPC

LEMMA TicketInit == Init => ThisTicket!Init
  BY DEF Init, ThisTicket!Init, Holding, HolderPC

LEMMA TicketStep ==
    ASSUME LeaseInv, NEW s \in Session, StepOf(s)
    PROVE  ThisTicket!Next \/ UNCHANGED Owners
  <1>1. /\ TypeOK /\ MutualExclusion /\ MutualExclusion'
    BY LeaseInvStep, LeaseInvExcludes, PTL DEF LeaseInv
  <1>2. CASE \E t \in Session : t # s /\ Holding(t) /\ ~Holding(t)'
    <2>1. PICK t \in Session : t # s /\ Holding(t) /\ ~Holding(t)'
      BY <1>2
    <2>2. Owners = {t}
      BY <1>1, <2>1 DEF Owners, MutualExclusion
    <2>3. \A u \in Session : ~Holding(u)'
      BY <1>1, <2>1, OthersLose, OthersGain DEF MutualExclusion
    <2>4. Owners' = {}
      BY <2>3 DEF Owners
    <2> QED
      BY <2>1, <2>2, <2>4 DEF ThisTicket!Next, ThisTicket!Yield, Owners
  <1>3. CASE \A t \in Session : t # s => (Holding(t) <=> Holding(t)')
    <2>1. CASE \E t \in Session : t # s /\ Holding(t)
      <3>1. ~Holding(s) /\ ~Holding(s)'
        BY <1>1, <1>3, <2>1 DEF MutualExclusion
      <3> QED
        BY <1>3, <3>1 DEF Owners
    <2>2. CASE \A t \in Session : t # s => ~Holding(t)
      <3>1. Owners = IF Holding(s) THEN {s} ELSE {}
        BY <2>2 DEF Owners
      <3>2. Owners' = IF Holding(s)' THEN {s} ELSE {}
        BY <1>3, <2>2 DEF Owners
      <3> QED
        BY <3>1, <3>2
           DEF ThisTicket!Next, ThisTicket!Acquire, ThisTicket!Yield, Owners
    <2> QED
      BY <2>1, <2>2
  <1> QED
    BY <1>1, <1>2, <1>3, OthersGain

\* Time only ever takes the ticket away.
LEMMA TicketTick ==
    ASSUME LeaseInv, Tick
    PROVE  ThisTicket!Next \/ UNCHANGED Owners
  <1>1. TypeOK /\ MutualExclusion
    BY LeaseInvExcludes DEF LeaseInv
  <1>2. \A t \in Session : Holding(t)' => Holding(t)
    BY <1>1, MaxTTLAssumption DEF Tick, TypeOK, Holding
  <1>3. Owners' \subseteq Owners
    BY <1>2 DEF Owners
  <1>4. \A t, u \in Owners : t = u
    BY <1>1 DEF Owners, MutualExclusion
  <1>5. Owners' = Owners \/ (Owners' = {} /\ \E t \in Session : Owners = {t})
    BY <1>3, <1>4 DEF Owners
  <1> QED
    BY <1>5 DEF ThisTicket!Next, ThisTicket!Yield, Owners

\* Every behaviour of the leases, with the holders as owners, is one of Ticket.
THEOREM ImplementsTicket == Spec => TicketSpec
  <1>1. LeaseInv /\ [Next]_vars => [ThisTicket!Next]_Owners
    <2> SUFFICES ASSUME LeaseInv, [Next]_vars
                 PROVE  ThisTicket!Next \/ UNCHANGED Owners
      BY DEF Owners
    <2>1. ASSUME NEW s \in Session, StepOf(s)
          PROVE  ThisTicket!Next \/ UNCHANGED Owners
      BY <2>1, TicketStep
    <2>2. CASE Tick
      BY <2>2, TicketTick
    <2>3. CASE OthersOpenPR \/ ClosePR \/ CloseOrReopen \/ UNCHANGED vars
      BY <2>3 DEF OthersOpenPR, ClosePR, CloseOrReopen, vars, local, Owners, Holding
    <2> QED
      BY <2>1, <2>2, <2>3 DEF Next, StepOf
  <1> QED
    BY <1>1, TicketInit, LeaseInvariant, PTL
       DEF Spec, TicketSpec, ThisTicket!Spec, Owners

-----------------------------------------------------------------------------
(* No duplicate work.                                                      *)

\* Once a claim is won, or a claim of the session's own live lease is under way,
\* the session's claim is the first on the thread for as long as it is live; past
\* the last read of the pull requests only its own are open.
Committed == {"book", "working", "renewPRs", "renewLease", "renewPost", "renewJudge"}
Assured == Committed \cup {"extendPRs", "lateIssue", "latePRs"}

AssuredOK(s) ==
    pc[s] \in Assured /\ s \notin resumed /\ Live(thread, s)
        => /\ Authoritative(thread, s, 0)
           /\ pc[s] \in Committed => prs \subseteq {s, Other}

\* A session's step marks no other session as resumed, or not.
LEMMA ResumedKept ==
    ASSUME TypeOK, NEW s \in Session, NEW t \in Session, s # t, StepOf(s)
    PROVE  t \in resumed' <=> t \in resumed
  <1> USE DEF ProceedIf, Proceed, GiveUp, Withdraw, Granted, Stamped, StartWork, Goto, world, local
  <1>1. CASE BeginClaim(s)
    BY <1>1 DEF BeginClaim
  <1>2. CASE BeginRenew(s)
    BY <1>2 DEF BeginRenew
  <1>3. CASE BeginRelease(s)
    BY <1>3 DEF BeginRelease
  <1>4. CASE ClaimReadLease(s)
    BY <1>4 DEF ClaimReadLease
  <1>5. CASE ClaimReadPRs(s)
    BY <1>5 DEF ClaimReadPRs
  <1>6. CASE ExtendReadPRs(s)
    BY <1>6 DEF ExtendReadPRs
  <1>7. CASE ClaimPost(s)
    BY <1>7 DEF ClaimPost
  <1>8. CASE ClaimJudge(s)
    BY <1>8 DEF ClaimJudge
  <1>9. CASE Retract(s)
    BY <1>9 DEF Retract
  <1>10. CASE LateReadIssue(s)
    BY <1>10 DEF LateReadIssue
  <1>11. CASE LateReadPRs(s)
    BY <1>11 DEF LateReadPRs
  <1>12. CASE Book(s)
    BY <1>12 DEF Book
  <1>13. CASE Undo(s)
    BY <1>13 DEF Undo
  <1>14. CASE RenewReadPRs(s)
    BY <1>14 DEF RenewReadPRs
  <1>15. CASE RenewReadLease(s)
    BY <1>15 DEF RenewReadLease
  <1>16. CASE RenewPost(s)
    BY <1>16 DEF RenewPost
  <1>17. CASE RenewJudge(s)
    BY <1>17 DEF RenewJudge
  <1>18. CASE ReleaseRead(s)
    BY <1>18 DEF ReleaseRead
  <1>19. CASE ReleasePost(s)
    BY <1>19 DEF ReleasePost
  <1>20. CASE ReleaseQueued(s)
    BY <1>20 DEF ReleaseQueued
  <1>21. CASE SyncRead(s)
    BY <1>21 DEF SyncRead
  <1>22. CASE Unlabel(s)
    BY <1>22 DEF Unlabel
  <1>23. CASE SyncReadAgain(s)
    BY <1>23 DEF SyncReadAgain
  <1>24. CASE Relabel(s)
    BY <1>24 DEF Relabel
  <1>25. CASE ClaimPostFails(s)
    BY <1>25 DEF ClaimPostFails
  <1>26. CASE ClaimReadFails(s)
    BY <1>26 DEF ClaimReadFails
  <1>27. CASE BookFails(s)
    BY <1>27 DEF BookFails
  <1>28. CASE Crash(s)
    BY <1>28 DEF Crash
  <1>29. CASE Publish(s)
    BY <1>29 DEF Publish
  <1> QED
    BY <1>1, <1>2, <1>3, <1>4, <1>5, <1>6, <1>7, <1>8, <1>9, <1>10, <1>11, <1>12, <1>13, <1>14, <1>15, <1>16, <1>17, <1>18, <1>19, <1>20, <1>21, <1>22, <1>23, <1>24, <1>25, <1>26, <1>27, <1>28, <1>29
       DEF StepOf, Step, Failure

\* Only the agent of a session publishes for it, and only at work.
LEMMA PublishesAtWork ==
    ASSUME TypeOK, NEW s \in Session, StepOf(s)
    PROVE  \/ prs' = prs
           \/ pc[s] = "working" /\ prs' = prs \cup {IF mine[s] > 0 THEN s ELSE Other}
  <1> USE DEF ProceedIf, Proceed, GiveUp, Withdraw, Granted, Stamped, StartWork, Goto, world, local
  <1>1. CASE BeginClaim(s)
    BY <1>1 DEF BeginClaim
  <1>2. CASE BeginRenew(s)
    BY <1>2 DEF BeginRenew
  <1>3. CASE BeginRelease(s)
    BY <1>3 DEF BeginRelease
  <1>4. CASE ClaimReadLease(s)
    BY <1>4 DEF ClaimReadLease
  <1>5. CASE ClaimReadPRs(s)
    BY <1>5 DEF ClaimReadPRs
  <1>6. CASE ExtendReadPRs(s)
    BY <1>6 DEF ExtendReadPRs
  <1>7. CASE ClaimPost(s)
    BY <1>7 DEF ClaimPost
  <1>8. CASE ClaimJudge(s)
    BY <1>8 DEF ClaimJudge
  <1>9. CASE Retract(s)
    BY <1>9 DEF Retract
  <1>10. CASE LateReadIssue(s)
    BY <1>10 DEF LateReadIssue
  <1>11. CASE LateReadPRs(s)
    BY <1>11 DEF LateReadPRs
  <1>12. CASE Book(s)
    BY <1>12 DEF Book
  <1>13. CASE Undo(s)
    BY <1>13 DEF Undo
  <1>14. CASE RenewReadPRs(s)
    BY <1>14 DEF RenewReadPRs
  <1>15. CASE RenewReadLease(s)
    BY <1>15 DEF RenewReadLease
  <1>16. CASE RenewPost(s)
    BY <1>16 DEF RenewPost
  <1>17. CASE RenewJudge(s)
    BY <1>17 DEF RenewJudge
  <1>18. CASE ReleaseRead(s)
    BY <1>18 DEF ReleaseRead
  <1>19. CASE ReleasePost(s)
    BY <1>19 DEF ReleasePost
  <1>20. CASE ReleaseQueued(s)
    BY <1>20 DEF ReleaseQueued
  <1>21. CASE SyncRead(s)
    BY <1>21 DEF SyncRead
  <1>22. CASE Unlabel(s)
    BY <1>22 DEF Unlabel
  <1>23. CASE SyncReadAgain(s)
    BY <1>23 DEF SyncReadAgain
  <1>24. CASE Relabel(s)
    BY <1>24 DEF Relabel
  <1>25. CASE ClaimPostFails(s)
    BY <1>25 DEF ClaimPostFails
  <1>26. CASE ClaimReadFails(s)
    BY <1>26 DEF ClaimReadFails
  <1>27. CASE BookFails(s)
    BY <1>27 DEF BookFails
  <1>28. CASE Crash(s)
    BY <1>28 DEF Crash
  <1>29. CASE Publish(s)
    BY <1>29 DEF Publish
  <1> QED
    BY <1>1, <1>2, <1>3, <1>4, <1>5, <1>6, <1>7, <1>8, <1>9, <1>10, <1>11, <1>12, <1>13, <1>14, <1>15, <1>16, <1>17, <1>18, <1>19, <1>20, <1>21, <1>22, <1>23, <1>24, <1>25, <1>26, <1>27, <1>28, <1>29
       DEF StepOf, Step, Failure

\* Another session's step revives no claim and puts none ahead of one that is
\* first and stays live.
LEMMA OthersNotRevived ==
    ASSUME TypeOK, NEW s \in Session, NEW t \in Session, s # t, StepOf(s),
           Live(thread', t)
    PROVE  /\ Live(thread, t)
           /\ Authoritative(thread, t, 0) => Authoritative(thread', t, 0)
  <1>1. thread \in Thread
    BY DEF TypeOK
  <1>2. CASE thread' = thread
    BY <1>2
  <1>3. CASE Claims(s)
    <2>1. PICK e \in Remaining : thread' = AddClaim(thread, s, e)
      BY <1>3 DEF Claims
    <2>2. Live(thread, t)
      BY <1>1, <2>1 DEF AddClaim, Live, LiveAt, Thread
    <2> QED
      BY <1>1, <2>1, <2>2, ClaimByOther
  <1>4. CASE \E u \in Session : Releases(s, u)
    <2>1. PICK u \in Session : thread' = AddRelease(thread, u)
      BY <1>4 DEF Releases
    <2>2. u # t
      BY <2>1 DEF AddRelease, Live, LiveAt
    <2>3. Live(thread, t)
      BY <1>1, <2>1, <2>2 DEF AddRelease, Live, LiveAt, Thread
    <2> QED
      BY <1>1, <2>1, <2>2, <2>3, ReleaseByOther
  <1> QED
    BY <1>2, <1>3, <1>4, ThreadMoves

\* A holder's publication is its own: no other session is assured meanwhile.
LEMMA AssuredOthers ==
    ASSUME LeaseInv, NEW s \in Session, NEW t \in Session, s # t, StepOf(s),
           AssuredOK(t)
    PROVE  AssuredOK(t)'
  <1>1. TypeOK /\ thread \in Thread /\ Ordered(thread) /\ HolderOK(s)
    BY LeaseInvBySession DEF TypeOK
  <1>2. SUFFICES ASSUME pc'[t] \in Assured, t \notin resumed', Live(thread', t)
                 PROVE  /\ Authoritative(thread', t, 0)
                        /\ pc'[t] \in Committed => prs' \subseteq {t, Other}
    BY DEF AssuredOK, Authoritative, Live, LiveAt, Other
  <1>3. pc'[t] = pc[t] /\ t \notin resumed /\ Live(thread, t)
    BY <1>1, <1>2, OthersKept, ResumedKept, OthersNotRevived
  <1>4. Authoritative(thread, t, 0) /\ (pc[t] \in Committed => prs \subseteq {t, Other})
    BY <1>2, <1>3 DEF AssuredOK
  <1>5. Authoritative(thread', t, 0)
    BY <1>1, <1>2, <1>4, OthersNotRevived
  <1>6. ~(pc[s] = "working" /\ mine[s] > 0)
    <2> SUFFICES ASSUME pc[s] = "working", mine[s] > 0
                 PROVE  FALSE
      OBVIOUS
    <2>1. Authoritative(thread, s, 0)
      BY <1>1 DEF HolderOK, Holding, HolderPC
    <2> QED
      BY <1>1, <1>4, <2>1, Exclusive
  <1> QED
    BY <1>1, <1>3, <1>4, <1>5, <1>6, PublishesAtWork

\* A step that leaves the thread and the pull requests alone assures the session
\* of nothing it was not assured of.
LEMMA AssuredKept ==
    ASSUME NEW s \in Session, AssuredOK(s),
           thread' = thread, prs' = prs, resumed' = resumed,
           pc'[s] \in Assured => pc[s] \in Assured,
           pc'[s] \in Committed => pc[s] \in Committed \/ prs = {}
    PROVE  AssuredOK(s)'
  BY DEF AssuredOK, Authoritative, Live, LiveAt, Committed


LEMMA AssuredOwn ==
    ASSUME LeaseInv, NEW s \in Session, StepOf(s), AssuredOK(s)
    PROVE  AssuredOK(s)'
  <1>0. TypeOK /\ thread \in Thread
    BY DEF LeaseInv, TypeOK
  <1> USE DEF ProceedIf, Proceed, GiveUp, Withdraw, Granted, Stamped, StartWork, Goto, world, local, Assured, Committed
  <1>1. CASE BeginClaim(s)
    BY <1>0, <1>1, AssuredKept DEF BeginClaim, TypeOK
  <1>2. CASE BeginRenew(s)
    BY <1>0, <1>2, AssuredKept DEF BeginRenew, TypeOK
  <1>3. CASE BeginRelease(s)
    BY <1>0, <1>3, AssuredKept DEF BeginRelease, TypeOK
  <1>4. CASE ClaimReadLease(s)
    <2>1. pc'[s] \in Assured => pc'[s] = "extendPRs" /\ s \in Reported(thread, 0)
      BY <1>0, <1>4 DEF ClaimReadLease, TypeOK
    <2>2. Live(thread, s) /\ s \in Reported(thread, 0) => Authoritative(thread, s, 0)
      BY DEF Reported, Live
    <2> QED
      BY <1>0, <1>4, <2>1, <2>2 DEF ClaimReadLease, AssuredOK, Authoritative, Live, LiveAt
  <1>5. CASE ClaimReadPRs(s)
    BY <1>0, <1>5, AssuredKept DEF ClaimReadPRs, TypeOK
  <1>6. CASE ExtendReadPRs(s)
    BY <1>0, <1>6, AssuredKept DEF ExtendReadPRs, TypeOK
  <1>7. CASE ClaimPost(s)
    <2>1. pc'[s] = "claimJudge"
      BY <1>0, <1>7 DEF ClaimPost, TypeOK
    <2> QED
      BY <2>1 DEF AssuredOK
  <1>8. CASE ClaimJudge(s)
    BY <1>0, <1>8 DEF ClaimJudge, AssuredOK, Authoritative, Live, LiveAt, TypeOK
  <1>9. CASE Retract(s)
    BY <1>0, <1>9 DEF Retract, AssuredOK, TypeOK
  <1>10. CASE LateReadIssue(s)
    BY <1>0, <1>10, AssuredKept DEF LateReadIssue, TypeOK
  <1>11. CASE LateReadPRs(s)
    BY <1>0, <1>11, AssuredKept DEF LateReadPRs, TypeOK
  <1>12. CASE Book(s)
    BY <1>0, <1>12, AssuredKept DEF Book, TypeOK
  <1>13. CASE Undo(s)
    BY <1>0, <1>13 DEF Undo, AssuredOK, TypeOK
  <1>14. CASE RenewReadPRs(s)
    BY <1>0, <1>14, AssuredKept DEF RenewReadPRs, TypeOK
  <1>15. CASE RenewReadLease(s)
    BY <1>0, <1>15, AssuredKept DEF RenewReadLease, TypeOK
  <1>16. CASE RenewPost(s)
    <2>1. pc[s] \in Assured /\ pc[s] \in Committed /\ prs' = prs
      BY <1>0, <1>16 DEF RenewPost
    <2>2. CASE ~Live(thread, s)
      BY <1>0, <1>16, <2>2 DEF RenewPost, AssuredOK
    <2>3. CASE Live(thread, s)
      <3>1. s \notin resumed' => s \notin resumed
        BY <1>0, <1>16, <2>3 DEF RenewPost
      <3>2. Authoritative(thread, s, 0) /\ Live(thread', s) => Authoritative(thread', s, 0)
        <4> SUFFICES ASSUME Authoritative(thread, s, 0), Live(thread', s)
                     PROVE  Authoritative(thread', s, 0)
          OBVIOUS
        <4>1. thread' = AddClaim(thread, s, stamp[s]) /\ stamp[s] \in Remaining
          BY <1>0, <1>16 DEF RenewPost, TypeOK
        <4>2. stamp[s] > 0
          BY <1>0, <4>1 DEF AddClaim, Live, LiveAt, Thread, Remaining
        <4> QED
          BY <1>0, <4>1, <4>2, ClaimByHolder
      <3> QED
        BY <2>1, <2>3, <3>1, <3>2 DEF AssuredOK, Live, LiveAt, Authoritative
    <2> QED
      BY <2>2, <2>3
  <1>17. CASE RenewJudge(s)
    <2>1. thread' = thread /\ prs' = prs /\ resumed' = resumed
      BY <1>0, <1>17 DEF RenewJudge
    <2>2. pc'[s] \in Assured => pc[s] \in Committed
      BY <1>0, <1>17 DEF RenewJudge
    <2> QED
      BY <1>0, <1>17, <2>1, <2>2 DEF AssuredOK, Authoritative, Live, LiveAt
  <1>18. CASE ReleaseRead(s)
    BY <1>0, <1>18, AssuredKept DEF ReleaseRead, TypeOK
  <1>19. CASE ReleasePost(s)
    BY <1>0, <1>19 DEF ReleasePost, AssuredOK, TypeOK
  <1>20. CASE ReleaseQueued(s)
    BY <1>0, <1>20 DEF ReleaseQueued, AssuredOK, TypeOK
  <1>21. CASE SyncRead(s)
    BY <1>0, <1>21, AssuredKept DEF SyncRead, TypeOK
  <1>22. CASE Unlabel(s)
    BY <1>0, <1>22, AssuredKept DEF Unlabel, TypeOK
  <1>23. CASE SyncReadAgain(s)
    BY <1>0, <1>23, AssuredKept DEF SyncReadAgain, TypeOK
  <1>24. CASE Relabel(s)
    BY <1>0, <1>24, AssuredKept DEF Relabel, TypeOK
  <1>25. CASE ClaimPostFails(s)
    <2>1. pc'[s] = "retract"
      BY <1>0, <1>25 DEF ClaimPostFails, TypeOK
    <2> QED
      BY <2>1 DEF AssuredOK
  <1>26. CASE ClaimReadFails(s)
    BY <1>0, <1>26, AssuredKept DEF ClaimReadFails, TypeOK
  <1>27. CASE BookFails(s)
    BY <1>0, <1>27, AssuredKept DEF BookFails, TypeOK
  <1>28. CASE Crash(s)
    BY <1>0, <1>28, AssuredKept DEF Crash, TypeOK
  <1>29. CASE Publish(s)
    <2>1. thread' = thread /\ pc' = pc /\ resumed' = resumed
      BY <1>0, <1>29 DEF Publish
    <2>2. prs' \subseteq prs \cup {s, Other}
      BY <1>0, <1>29 DEF Publish
    <2> QED
      BY <2>1, <2>2 DEF AssuredOK, Authoritative, Live, LiveAt
  <1> QED
    BY <1>1, <1>2, <1>3, <1>4, <1>5, <1>6, <1>7, <1>8, <1>9, <1>10, <1>11, <1>12, <1>13, <1>14, <1>15, <1>16, <1>17, <1>18, <1>19, <1>20, <1>21, <1>22, <1>23, <1>24, <1>25, <1>26, <1>27, <1>28, <1>29
       DEF StepOf, Step, Failure

LEMMA AssuredTick ==
    ASSUME LeaseInv, Tick, NEW s \in Session, AssuredOK(s)
    PROVE  AssuredOK(s)'
  <1>1. TypeOK /\ thread \in Thread
    BY DEF LeaseInv, TypeOK
  <1>2. /\ thread' = Age(thread) /\ prs' = prs /\ pc' = pc /\ resumed' = resumed
    BY DEF Tick, world
  <1>3. SUFFICES ASSUME pc[s] \in Assured, s \notin resumed, Live(Age(thread), s)
                 PROVE  Authoritative(Age(thread), s, 0)
                        /\ (pc[s] \in Committed => prs \subseteq {s, Other})
    BY <1>2 DEF AssuredOK, Authoritative, Live, LiveAt
  <1>4. thread.left[s] > 1 /\ Live(thread, s)
    BY <1>1, <1>3, MaxTTLAssumption, MaxLagAssumption
       DEF Age, Live, LiveAt, Thread, Remaining
  <1> QED
    BY <1>1, <1>3, <1>4, AgeKeeps DEF AssuredOK

\* The inductive invariant behind NoDuplicateWork.
WorkInv == LeaseInv /\ \A s \in Session : AssuredOK(s)

LEMMA WorkInvInit == Init => WorkInv
  <1> SUFFICES ASSUME Init PROVE WorkInv
    OBVIOUS
  <1>1. ASSUME NEW s \in Session PROVE AssuredOK(s)
    BY DEF Init, AssuredOK, Assured, Committed
  <1> QED
    BY <1>1, LeaseInvInit DEF WorkInv

LEMMA WorkInvNext == WorkInv /\ [Next]_vars => WorkInv'
  <1> SUFFICES ASSUME WorkInv, [Next]_vars PROVE WorkInv'
    OBVIOUS
  <1>1. LeaseInv /\ LeaseInv' /\ \A t \in Session : AssuredOK(t)
    BY LeaseInvNext DEF WorkInv
  <1>2. SUFFICES ASSUME NEW t \in Session PROVE AssuredOK(t)'
    BY <1>1 DEF WorkInv
  <1>3. ASSUME NEW s \in Session, StepOf(s) PROVE AssuredOK(t)'
    BY <1>1, <1>3, AssuredOwn, AssuredOthers
  <1>4. CASE Tick
    BY <1>1, <1>4, AssuredTick
  <1>5. CASE OthersOpenPR \/ ClosePR \/ CloseOrReopen \/ UNCHANGED vars
    <2>1. UNCHANGED <<thread, pc, resumed>> /\ prs' \subseteq prs \cup {Other}
      BY <1>5 DEF OthersOpenPR, ClosePR, CloseOrReopen, vars, local
    <2> QED
      BY <1>1, <2>1 DEF AssuredOK, Authoritative, Live, LiveAt, Other
  <1> QED
    BY <1>3, <1>4, <1>5 DEF Next, StepOf

\* Whoever works on the issue under a lease that was never lost works alone: the
\* late reads of `claim` leave no earlier holder's pull request open, for any
\* number of sessions and whatever fails.
THEOREM WorkNotDuplicated == Spec => []NoDuplicateWork
  <1>1. WorkInv => NoDuplicateWork
    <2> SUFFICES ASSUME WorkInv, NEW s \in Session,
                        pc[s] = "working", Holding(s), s \notin resumed
                 PROVE  prs \subseteq {s, Other}
      BY DEF NoDuplicateWork
    <2>1. Authoritative(thread, s, 0)
      BY DEF WorkInv, LeaseInv, HolderOnThread
    <2> QED
      BY <2>1 DEF WorkInv, AssuredOK, Assured, Committed, Authoritative, Live
  <1> QED
    BY <1>1, WorkInvInit, WorkInvNext, PTL DEF Spec

-----------------------------------------------------------------------------
(* The label.                                                              *)

\* The label is on the issue, or somebody is about to put it there.
Labelled == label \/ \E t \in Session : pc[t] \in {"resync", "relabel"}

\* A claim that is posted but not booked, or about to be withdrawn, is not shown.
Unbooked == {"claimJudge", "lateIssue", "latePRs", "book", "retract", "undo"}

ShownOK(s) ==
    ~torn /\ s \notin resumed /\ Live(thread, s) /\ pc[s] \notin Unbooked
        => Labelled

\* No process lives down a debt: one that dies owing the label stays recorded.
LEMMA TornStays ==
    ASSUME NEW s \in Session, StepOf(s), torn
    PROVE  torn'
  <1> USE DEF world, local
  <1>1. CASE BeginClaim(s)
    BY <1>1 DEF BeginClaim
  <1>2. CASE BeginRenew(s)
    BY <1>2 DEF BeginRenew
  <1>3. CASE BeginRelease(s)
    BY <1>3 DEF BeginRelease
  <1>4. CASE ClaimReadLease(s)
    BY <1>4 DEF ClaimReadLease
  <1>5. CASE ClaimReadPRs(s)
    BY <1>5 DEF ClaimReadPRs
  <1>6. CASE ExtendReadPRs(s)
    BY <1>6 DEF ExtendReadPRs
  <1>7. CASE ClaimPost(s)
    BY <1>7 DEF ClaimPost
  <1>8. CASE ClaimJudge(s)
    BY <1>8 DEF ClaimJudge
  <1>9. CASE Retract(s)
    BY <1>9 DEF Retract
  <1>10. CASE LateReadIssue(s)
    BY <1>10 DEF LateReadIssue
  <1>11. CASE LateReadPRs(s)
    BY <1>11 DEF LateReadPRs
  <1>12. CASE Book(s)
    BY <1>12 DEF Book
  <1>13. CASE Undo(s)
    BY <1>13 DEF Undo
  <1>14. CASE RenewReadPRs(s)
    BY <1>14 DEF RenewReadPRs
  <1>15. CASE RenewReadLease(s)
    BY <1>15 DEF RenewReadLease
  <1>16. CASE RenewPost(s)
    BY <1>16 DEF RenewPost
  <1>17. CASE RenewJudge(s)
    BY <1>17 DEF RenewJudge
  <1>18. CASE ReleaseRead(s)
    BY <1>18 DEF ReleaseRead
  <1>19. CASE ReleasePost(s)
    BY <1>19 DEF ReleasePost
  <1>20. CASE ReleaseQueued(s)
    BY <1>20 DEF ReleaseQueued
  <1>21. CASE SyncRead(s)
    BY <1>21 DEF SyncRead
  <1>22. CASE Unlabel(s)
    BY <1>22 DEF Unlabel
  <1>23. CASE SyncReadAgain(s)
    BY <1>23 DEF SyncReadAgain
  <1>24. CASE Relabel(s)
    BY <1>24 DEF Relabel
  <1>25. CASE ClaimPostFails(s)
    BY <1>25 DEF ClaimPostFails
  <1>26. CASE ClaimReadFails(s)
    BY <1>26 DEF ClaimReadFails
  <1>27. CASE BookFails(s)
    BY <1>27 DEF BookFails
  <1>28. CASE Crash(s)
    BY <1>28 DEF Crash
  <1>29. CASE Publish(s)
    BY <1>29 DEF Publish
  <1> QED
    BY <1>1, <1>2, <1>3, <1>4, <1>5, <1>6, <1>7, <1>8, <1>9, <1>10, <1>11, <1>12, <1>13, <1>14, <1>15, <1>16, <1>17, <1>18, <1>19, <1>20, <1>21, <1>22, <1>23, <1>24, <1>25, <1>26, <1>27, <1>28, <1>29
       DEF StepOf, Step, Failure

\* Only the removal of `_sync_label` takes the label off the issue.
LEMMA LabelChanges ==
    ASSUME NEW s \in Session, StepOf(s), label, ~Unlabel(s)
    PROVE  label'
  <1> USE DEF world, local
  <1>1. CASE BeginClaim(s)
    BY <1>1 DEF BeginClaim
  <1>2. CASE BeginRenew(s)
    BY <1>2 DEF BeginRenew
  <1>3. CASE BeginRelease(s)
    BY <1>3 DEF BeginRelease
  <1>4. CASE ClaimReadLease(s)
    BY <1>4 DEF ClaimReadLease
  <1>5. CASE ClaimReadPRs(s)
    BY <1>5 DEF ClaimReadPRs
  <1>6. CASE ExtendReadPRs(s)
    BY <1>6 DEF ExtendReadPRs
  <1>7. CASE ClaimPost(s)
    BY <1>7 DEF ClaimPost
  <1>8. CASE ClaimJudge(s)
    BY <1>8 DEF ClaimJudge
  <1>9. CASE Retract(s)
    BY <1>9 DEF Retract
  <1>10. CASE LateReadIssue(s)
    BY <1>10 DEF LateReadIssue
  <1>11. CASE LateReadPRs(s)
    BY <1>11 DEF LateReadPRs
  <1>12. CASE Book(s)
    BY <1>12 DEF Book
  <1>13. CASE Undo(s)
    BY <1>13 DEF Undo
  <1>14. CASE RenewReadPRs(s)
    BY <1>14 DEF RenewReadPRs
  <1>15. CASE RenewReadLease(s)
    BY <1>15 DEF RenewReadLease
  <1>16. CASE RenewPost(s)
    BY <1>16 DEF RenewPost
  <1>17. CASE RenewJudge(s)
    BY <1>17 DEF RenewJudge
  <1>18. CASE ReleaseRead(s)
    BY <1>18 DEF ReleaseRead
  <1>19. CASE ReleasePost(s)
    BY <1>19 DEF ReleasePost
  <1>20. CASE ReleaseQueued(s)
    BY <1>20 DEF ReleaseQueued
  <1>21. CASE SyncRead(s)
    BY <1>21 DEF SyncRead
  <1>22. CASE Unlabel(s)
    BY <1>22 DEF Unlabel
  <1>23. CASE SyncReadAgain(s)
    BY <1>23 DEF SyncReadAgain
  <1>24. CASE Relabel(s)
    BY <1>24 DEF Relabel
  <1>25. CASE ClaimPostFails(s)
    BY <1>25 DEF ClaimPostFails
  <1>26. CASE ClaimReadFails(s)
    BY <1>26 DEF ClaimReadFails
  <1>27. CASE BookFails(s)
    BY <1>27 DEF BookFails
  <1>28. CASE Crash(s)
    BY <1>28 DEF Crash
  <1>29. CASE Publish(s)
    BY <1>29 DEF Publish
  <1> QED
    BY <1>1, <1>2, <1>3, <1>4, <1>5, <1>6, <1>7, <1>8, <1>9, <1>10, <1>11, <1>12, <1>13, <1>14, <1>15, <1>16, <1>17, <1>18, <1>19, <1>20, <1>21, <1>22, <1>23, <1>24, <1>25, <1>26, <1>27, <1>28, <1>29
       DEF StepOf, Step, Failure

\* While a claim is live, whoever took the label off puts it back: its second
\* read, judged at an older clock, sees that claim.
LEMMA LabelledKept ==
    ASSUME TypeOK, NEW s \in Session, StepOf(s), ~torn',
           NEW t \in Session, Live(thread', t), Labelled
    PROVE  Labelled'
  <1>a. CASE \E u \in Session : u # s /\ pc[u] \in {"resync", "relabel"}
    BY <1>a, OthersKept DEF Labelled
  <1>b. CASE pc[s] \in {"resync", "relabel"}
    <2>1. SyncReadAgain(s) \/ Relabel(s) \/ Crash(s)
      <3>1. ~BeginClaim(s) /\ ~BeginRenew(s) /\ ~BeginRelease(s) /\ ~Publish(s)
        BY <1>b DEF BeginClaim, BeginRenew, BeginRelease, Publish
      <3>2. ~ClaimPostFails(s) /\ ~ClaimReadFails(s) /\ ~BookFails(s)
        BY <1>b DEF ClaimPostFails, ClaimReadFails, BookFails
      <3>3. /\ ~ClaimReadLease(s) /\ ~ClaimReadPRs(s) /\ ~ExtendReadPRs(s)
            /\ ~ClaimPost(s) /\ ~ClaimJudge(s) /\ ~Retract(s)
        BY <1>b DEF ClaimReadLease, ClaimReadPRs, ExtendReadPRs, ClaimPost,
                    ClaimJudge, Retract
      <3>4. ~LateReadIssue(s) /\ ~LateReadPRs(s) /\ ~Book(s) /\ ~Undo(s)
        BY <1>b DEF LateReadIssue, LateReadPRs, Book, Undo
      <3>5. ~RenewReadPRs(s) /\ ~RenewReadLease(s) /\ ~RenewPost(s) /\ ~RenewJudge(s)
        BY <1>b DEF RenewReadPRs, RenewReadLease, RenewPost, RenewJudge
      <3>6. /\ ~ReleaseRead(s) /\ ~ReleasePost(s) /\ ~ReleaseQueued(s)
            /\ ~SyncRead(s) /\ ~Unlabel(s)
        BY <1>b DEF ReleaseRead, ReleasePost, ReleaseQueued, SyncRead, Unlabel
      <3> QED
        BY <3>1, <3>2, <3>3, <3>4, <3>5, <3>6 DEF StepOf, Step, Failure
    <2>2. CASE SyncReadAgain(s)
      <3>1. lag[s] \in Nat /\ thread.left[t] \in Int
        BY MaxTTLAssumption, MaxLagAssumption DEF TypeOK, Thread, Remaining
      <3>2. Live(thread, t)
        BY <2>2 DEF SyncReadAgain
      <3>3. Leased(thread, lag[s])
        BY <3>1, <3>2 DEF Leased, Live, LiveAt
      <3> QED
        BY <2>2, <3>3 DEF SyncReadAgain, ProceedIf, Proceed, Goto, TypeOK, Labelled
    <2>3. CASE Relabel(s)
      BY <2>3 DEF Relabel, Labelled
    <2>4. CASE Crash(s)
      BY <1>b, <2>4 DEF Crash, Owing
    <2> QED
      BY <2>1, <2>2, <2>3, <2>4
  <1>c. CASE label
    <2>1. CASE Unlabel(s)
      BY <2>1 DEF Unlabel, Proceed, Goto, TypeOK, Labelled
    <2>2. CASE ~Unlabel(s)
      BY <1>c, <2>2, LabelChanges DEF Labelled
    <2> QED
      BY <2>1, <2>2
  <1> QED
    BY <1>a, <1>b, <1>c DEF Labelled

LEMMA ShownOthers ==
    ASSUME TypeOK, NEW s \in Session, NEW t \in Session, s # t, StepOf(s), ShownOK(t)
    PROVE  ShownOK(t)'
  <1> SUFFICES ASSUME ~torn', t \notin resumed', Live(thread', t), pc'[t] \notin Unbooked
               PROVE  Labelled'
    BY DEF ShownOK, Live, LiveAt, Unbooked
  <1>1. ~torn /\ t \notin resumed /\ Live(thread, t) /\ pc[t] \notin Unbooked
    BY TornStays, ResumedKept, OthersNotRevived, OthersKept
  <1>2. Labelled
    BY <1>1 DEF ShownOK
  <1> QED
    BY <1>2, LabelledKept

\* A step of a session whose claim was shown before it.
LEMMA ShownCarried ==
    ASSUME TypeOK, NEW s \in Session, StepOf(s), ShownOK(s),
           s \notin resumed' => s \notin resumed,
           Live(thread', s) => Live(thread, s),
           pc[s] \notin Unbooked
    PROVE  ShownOK(s)'
  <1> SUFFICES ASSUME ~torn', s \notin resumed', Live(thread', s)
               PROVE  Labelled'
    BY DEF ShownOK, Live, LiveAt
  <1>1. ~torn
    BY TornStays
  <1>2. Labelled
    BY <1>1 DEF ShownOK
  <1> QED
    BY <1>2, LabelledKept

LEMMA ShownOwn ==
    ASSUME TypeOK, NEW s \in Session, StepOf(s), ShownOK(s)
    PROVE  ShownOK(s)'
  <1> USE DEF ProceedIf, Proceed, GiveUp, Withdraw, Granted, Stamped, StartWork, Goto, world, local, Owing, Unbooked
  <1>0. thread \in Thread
    BY DEF TypeOK
  <1>1. CASE BeginClaim(s)
    BY <1>1, ShownCarried DEF BeginClaim
  <1>2. CASE BeginRenew(s)
    BY <1>2, ShownCarried DEF BeginRenew
  <1>3. CASE BeginRelease(s)
    BY <1>3, ShownCarried DEF BeginRelease
  <1>4. CASE ClaimReadLease(s)
    BY <1>4, ShownCarried DEF ClaimReadLease
  <1>5. CASE ClaimReadPRs(s)
    BY <1>5, ShownCarried DEF ClaimReadPRs
  <1>6. CASE ExtendReadPRs(s)
    BY <1>6, ShownCarried DEF ExtendReadPRs
  <1>7. CASE ClaimPost(s)
    BY <1>7 DEF ClaimPost, ShownOK, TypeOK
  <1>8. CASE ClaimJudge(s)
    BY <1>8 DEF ClaimJudge, ShownOK, TypeOK
  <1>9. CASE Retract(s)
    <2>1. ~Live(thread', s)
      BY <1>9 DEF Retract, AddRelease, Live, LiveAt
    <2> QED
      BY <2>1 DEF ShownOK, Live, LiveAt
  <1>10. CASE LateReadIssue(s)
    BY <1>10 DEF LateReadIssue, ShownOK, TypeOK
  <1>11. CASE LateReadPRs(s)
    BY <1>11 DEF LateReadPRs, ShownOK, TypeOK
  <1>12. CASE Book(s)
    BY <1>12 DEF Book, ShownOK, Labelled
  <1>13. CASE Undo(s)
    <2>1. ~Live(thread', s)
      BY <1>13 DEF Undo, AddRelease, Live, LiveAt
    <2> QED
      BY <2>1 DEF ShownOK, Live, LiveAt
  <1>14. CASE RenewReadPRs(s)
    BY <1>14, ShownCarried DEF RenewReadPRs
  <1>15. CASE RenewReadLease(s)
    BY <1>15, ShownCarried DEF RenewReadLease
  <1>16. CASE RenewPost(s)
    <2>1. CASE Live(thread, s)
      BY <1>16, <2>1, ShownCarried DEF RenewPost
    <2>2. CASE ~Live(thread, s)
      BY <1>16, <2>2 DEF RenewPost, ShownOK
    <2> QED
      BY <2>1, <2>2
  <1>17. CASE RenewJudge(s)
    BY <1>17, ShownCarried DEF RenewJudge
  <1>18. CASE ReleaseRead(s)
    BY <1>18, ShownCarried DEF ReleaseRead
  <1>19. CASE ReleasePost(s)
    <2>1. target[s] \in Session
      BY DEF TypeOK
    <2>2. Live(thread', s) => Live(thread, s)
      BY <1>0, <1>19, <2>1 DEF ReleasePost, AddRelease, Live, LiveAt, Thread
    <2> QED
      BY <1>19, <2>2, ShownCarried DEF ReleasePost
  <1>20. CASE ReleaseQueued(s)
    <2>1. ~Live(thread', s)
      BY <1>20 DEF ReleaseQueued, AddRelease, Live, LiveAt
    <2> QED
      BY <2>1 DEF ShownOK, Live, LiveAt
  <1>21. CASE SyncRead(s)
    BY <1>21, ShownCarried DEF SyncRead
  <1>22. CASE Unlabel(s)
    BY <1>22, ShownCarried DEF Unlabel
  <1>23. CASE SyncReadAgain(s)
    BY <1>23, ShownCarried DEF SyncReadAgain
  <1>24. CASE Relabel(s)
    BY <1>24, ShownCarried DEF Relabel
  <1>25. CASE ClaimPostFails(s)
    BY <1>25 DEF ClaimPostFails, ShownOK, TypeOK
  <1>26. CASE ClaimReadFails(s)
    BY <1>26 DEF ClaimReadFails, ShownOK, TypeOK
  <1>27. CASE BookFails(s)
    BY <1>27 DEF BookFails, ShownOK, TypeOK
  <1>28. CASE Crash(s)
    <2>1. CASE pc[s] \in Unbooked
      BY <1>28, <2>1 DEF Crash, ShownOK
    <2>2. CASE pc[s] \notin Unbooked
      BY <1>28, <2>2, ShownCarried DEF Crash
    <2> QED
      BY <2>1, <2>2
  <1>29. CASE Publish(s)
    BY <1>29, ShownCarried DEF Publish
  <1> QED
    BY <1>1, <1>2, <1>3, <1>4, <1>5, <1>6, <1>7, <1>8, <1>9, <1>10, <1>11, <1>12, <1>13, <1>14, <1>15, <1>16, <1>17, <1>18, <1>19, <1>20, <1>21, <1>22, <1>23, <1>24, <1>25, <1>26, <1>27, <1>28, <1>29
       DEF StepOf, Step, Failure

LEMMA ShownTick ==
    ASSUME TypeOK, Tick, NEW s \in Session, ShownOK(s)
    PROVE  ShownOK(s)'
  <1>1. /\ thread' = Age(thread) /\ label' = label /\ torn' = torn
        /\ pc' = pc /\ resumed' = resumed
    BY DEF Tick, world
  <1>2. \A u \in Session : thread.left[u] \in Int
    BY MaxTTLAssumption, MaxLagAssumption DEF TypeOK, Thread, Remaining
  <1>3. Live(thread', s) => Live(thread, s)
    BY <1>1, <1>2 DEF Age, Live, LiveAt
  <1> QED
    BY <1>1, <1>3 DEF ShownOK, Labelled

\* The inductive invariant behind LabelShown.
LabelInv == LeaseInv /\ \A s \in Session : ShownOK(s)

LEMMA LabelInvInit == Init => LabelInv
  <1> SUFFICES ASSUME Init PROVE LabelInv
    OBVIOUS
  <1>1. ASSUME NEW s \in Session PROVE ShownOK(s)
    BY DEF Init, ShownOK, Live, LiveAt, EmptyThread
  <1> QED
    BY <1>1, LeaseInvInit DEF LabelInv

LEMMA LabelInvNext == LabelInv /\ [Next]_vars => LabelInv'
  <1> SUFFICES ASSUME LabelInv, [Next]_vars PROVE LabelInv'
    OBVIOUS
  <1>1. LeaseInv' /\ TypeOK /\ \A t \in Session : ShownOK(t)
    BY LeaseInvNext DEF LabelInv, LeaseInv
  <1>2. SUFFICES ASSUME NEW t \in Session PROVE ShownOK(t)'
    BY <1>1 DEF LabelInv
  <1>3. ASSUME NEW s \in Session, StepOf(s) PROVE ShownOK(t)'
    BY <1>1, <1>3, ShownOwn, ShownOthers
  <1>4. CASE Tick
    BY <1>1, <1>4, ShownTick
  <1>5. CASE OthersOpenPR \/ ClosePR \/ CloseOrReopen \/ UNCHANGED vars
    <2>1. UNCHANGED <<thread, pc, resumed, torn, label>>
      BY <1>5 DEF OthersOpenPR, ClosePR, CloseOrReopen, vars, local
    <2> QED
      BY <1>1, <2>1 DEF ShownOK, Labelled, Live, LiveAt
  <1> QED
    BY <1>3, <1>4, <1>5 DEF Next, StepOf

\* A lease that was booked shows on the issue: the second read of `_sync_label`
\* restores the label a concurrent release took off, for any number of sessions.
THEOREM LabelIsShown == Spec => []LabelShown
  <1>1. LabelInv => LabelShown
    <2> SUFFICES ASSUME LabelInv, ~torn, NEW s \in Session,
                        pc[s] = "working", Holding(s), s \notin resumed,
                        \A t \in Session : pc[t] \notin {"unlabel", "resync", "relabel"}
                 PROVE  label
      BY DEF LabelShown
    <2>1. Authoritative(thread, s, 0)
      BY DEF LabelInv, LeaseInv, HolderOnThread
    <2>2. ShownOK(s) /\ Live(thread, s)
      BY <2>1 DEF LabelInv, Authoritative, Live
    <2> QED
      BY <2>2 DEF ShownOK, Labelled, Unbooked
  <1> QED
    BY <1>1, LabelInvInit, LabelInvNext, PTL DEF Spec

=============================================================================
