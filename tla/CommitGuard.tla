---------------------------- MODULE CommitGuard ----------------------------
(***************************************************************************)
(* The PreToolUse hook that guards git on issue branches                   *)
(* (forge_commit_guard.py).  It reads a shell command segment by segment   *)
(* before anything runs, finds the branches its git may act on, and admits *)
(* it only if each is free of an issue or leased to this session; then the *)
(* shell runs the segments, any of which may fail.                         *)
(*                                                                         *)
(* A segment is what the parser makes of it: what kind of git it is, the   *)
(* checkout it names with -C, the branch it names.  A selector the shell   *)
(* rewrites, an assembled program or an unreadable script is "blind".      *)
(***************************************************************************)
EXTENDS Naturals, Sequences, FiniteSets

CONSTANTS
    BranchName,   \* branches of the one repository
    Issue,        \* the issues their names may carry
    IssueOf,      \* [BranchName -> Issue or NoIssue]: ISSUE_BRANCH
    NoIssue,
    Unsure,       \* UNKNOWN_BRANCH, UNKNOWN_REF, UNRESOLVED_REPO, BRANCH_UNKNOWN
    Nowhere,      \* no branch, no checkout named
    Detached,     \* HEAD
    MaxSegments   \* bound on the length of a command

Checkout == {"here", "there"}

\* A branch change (location, X, replace): where, to what, and whether it is certain.
BranchChange ==
    [location : [cd : SUBSET Nat, in : Checkout \union {Nowhere}, branch : {Nowhere}, ref : {Nowhere}],
     branch : BranchName \union {Detached}, certain : BOOLEAN]

\* The marks are none of what they stand beside.
ASSUME GuardAssumption ==
    /\ IssueOf \in [BranchName -> Issue \union {NoIssue}] /\ NoIssue \notin Issue
    /\ {Unsure, Nowhere, Detached} \cap (BranchName \union Checkout) = {}
    /\ {Unsure, Nowhere} \cap BranchChange = {}
    /\ Unsure # Nowhere /\ Unsure # Detached /\ Nowhere # Detached

VARIABLES
    segments,  \* the command
    session,   \* whether the payload carries a usable session id
    holder,    \* [Issue -> who leases it]
    proposed,  \* [BranchName -> whether a pull request of this repository is open]
    blocked,   \* the lookups that fail: "git", "lease", "pulls"
    existing,  \* local branches
    head,      \* [Checkout -> the branch checked out]
    inside,    \* the `cd`s the guard has read, by their place in the command
    change,    \* the branch change in effect, as the guard has it
    found,     \* the targets found
    cursor,    \* the next segment to read or to run
    verdict,   \* "building", "reading", "admitted", "refused", "ran"
    cwd,       \* the shell's directory
    status,    \* its last exit status
    rewritten  \* branches whose history the command changed (history)

setting == <<session, holder, proposed, blocked, existing>>
guardVars == <<segments, setting, head, inside, change, found, cursor, verdict, cwd, status, rewritten>>

\* Segments that change which branch is checked out, or may.
Movers == {"switch", "create", "detach", "rebase", "rename", "bisect"}

Segment ==
    [op : {"&&", ";"}, does : {"read", "cd", "push-all", "blind"}, in : {Nowhere}, ref : {Nowhere}]
    \union [op : {"&&", ";"}, does : {"push"}, in : {Nowhere}, ref : BranchName]
    \union [op : {"&&", ";"}, does : {"commit", "detach", "bisect"}, in : {Nowhere, "there"}, ref : {Nowhere}]
    \union [op : {"&&", ";"}, does : {"switch", "create", "rebase", "rename"}, in : {Nowhere, "there"}, ref : BranchName]

-----------------------------------------------------------------------------
(* Reading the command.                                                    *)

\* A target carries every `cd` read before it, so two are the same place only with no
\* `cd` between.  The refs a segment names as destinations ride targets of their own.
Target(seg) == [cd |-> inside, in |-> seg.in, branch |-> Nowhere, ref |-> Nowhere]

OwnTargets(seg) ==
    CASE seg.does \in {"read", "cd"} -> {}
      [] seg.does = "blind" -> {[Target(seg) EXCEPT !.ref = Unsure]}
      [] seg.does = "push-all" -> {Target(seg), [Target(seg) EXCEPT !.ref = Unsure]}
      [] seg.does \in {"push", "rename", "rebase"} -> {Target(seg), [Target(seg) EXCEPT !.ref = seg.ref]}
      [] OTHER -> {Target(seg)}

OnBranch(targets, b) == {[t EXCEPT !.branch = b] : t \in targets}

\* Targets after a branch change: the new branch replaces the old one only where
\* it certainly was changed, otherwise both are checked.
Retarget(targets, now) ==
    CASE now = Nowhere -> targets
      [] now = Unsure -> OnBranch(targets, Unsure)
      [] OTHER -> (IF now.certain THEN targets \ {now.location} ELSE targets) \union OnBranch(targets, now.branch)

\* Mutation: a branch change is believed however its successor is joined.
CarriedAlways(seg) == change

\* A change that is not joined by && may not have happened.
Carried(seg) ==
    IF change \in {Nowhere, Unsure} \/ seg.op = "&&" THEN change ELSE [change EXCEPT !.certain = FALSE]

Changed(seg, b, certain) ==
    IF Carried(seg) = Unsure THEN Unsure
    ELSE [location |-> Target(seg), branch |-> b, certain |-> certain]

ReadSegment ==
    /\ verdict = "reading" /\ cursor <= Len(segments)
    /\ cursor' = cursor + 1
    /\ LET seg == segments[cursor]
           own == OwnTargets(seg)
           plain == seg.does = "switch" /\ seg.ref \in existing
       IN /\ inside' = IF seg.does = "cd" THEN inside \union {cursor} ELSE inside
          /\ CASE seg.does = "switch" ->
                    \* A plain switch to a local branch rewrites nothing; otherwise it
                    \* is a path, or creates the branch.
                    /\ found' = found \union
                           Retarget(IF plain THEN {} ELSE own \union OnBranch(own, seg.ref), Carried(seg))
                    /\ change' = Changed(seg, seg.ref, plain)
               [] seg.does = "create" ->
                    /\ found' = found \union Retarget(OnBranch(own, seg.ref), Carried(seg))
                    /\ change' = Changed(seg, seg.ref, TRUE)
               [] seg.does = "detach" ->
                    /\ found' = found \union Retarget(own, Carried(seg))
                    /\ change' = Changed(seg, Detached, TRUE)
               [] seg.does \in {"rebase", "rename"} ->
                    /\ found' = found \union Retarget(own \union OnBranch(own, seg.ref), Carried(seg))
                    /\ change' = Changed(seg, seg.ref, FALSE)
               [] OTHER ->
                    /\ found' = found \union Retarget(own, Carried(seg))
                    /\ change' = IF seg.does = "bisect" THEN Unsure ELSE Carried(seg)
    /\ UNCHANGED <<segments, setting, head, verdict, cwd, status, rewritten>>

-----------------------------------------------------------------------------
(* The verdict.                                                            *)

\* The checkout's branch, asked of git before anything runs.
Probed(checkout) == IF "git" \in blocked THEN Unsure ELSE head[checkout]

\* Where its `cd`s lead and where the hook is: a `cd` may not have happened.
BranchesOf(t) ==
    IF t.ref # Nowhere THEN {t.ref}
    ELSE IF t.branch # Nowhere THEN {t.branch}
    ELSE IF t.in # Nowhere THEN {Probed(t.in)}
    ELSE {Probed("here")} \union (IF t.cd # {} THEN {Probed("there")} ELSE {})

\* Who GitHub says leases the issue (lease_for), and whether a pull request of
\* this repository is open (open_pr_for): an unreadable answer is never "nobody"
\* and proves no pull request.
LeaseOf(i) == IF "lease" \in blocked THEN "unavailable" ELSE holder[i]
ProposedFrom(b) == "pulls" \notin blocked /\ proposed[b]

Admits(b) ==
    /\ b # Unsure
    /\ \/ b = Detached
       \/ IssueOf[b] = NoIssue
       \/ LeaseOf(IssueOf[b]) = "mine" /\ session
       \/ LeaseOf(IssueOf[b]) = "nobody" /\ ProposedFrom(b)

Decide ==
    /\ verdict = "reading" /\ cursor > Len(segments)
    /\ verdict' = IF \A t \in found : \A b \in BranchesOf(t) : Admits(b) THEN "admitted" ELSE "refused"
    /\ cursor' = 1
    /\ UNCHANGED <<segments, setting, head, inside, change, found, cwd, status, rewritten>>

-----------------------------------------------------------------------------
(* The shell and git.                                                      *)

\* The commands considered: at most one branch change.
Extend(seg) ==
    /\ verdict = "building" /\ Len(segments) < MaxSegments
    /\ segments = <<>> => seg.op = "&&"
    /\ seg.does \in Movers => \A k \in DOMAIN segments : segments[k].does \notin Movers
    /\ segments' = Append(segments, seg)
    /\ UNCHANGED <<setting, head, inside, change, found, cursor, verdict, cwd, status, rewritten>>

Submit ==
    /\ verdict = "building" /\ segments # <<>>
    /\ verdict' = "reading" /\ cursor' = 1
    /\ UNCHANGED <<segments, setting, head, inside, change, found, cwd, status, rewritten>>

Place(seg) == IF seg.in # Nowhere THEN seg.in ELSE cwd

\* What a segment does when it succeeds; a detached HEAD has no name to change.
Works(seg) ==
    LET on == head[Place(seg)]
    IN CASE seg.does = "commit" -> rewritten' = rewritten \union {on} /\ UNCHANGED <<head, cwd>>
         [] seg.does = "cd" -> cwd' = "there" /\ UNCHANGED <<head, rewritten>>
         [] seg.does = "switch" -> head' = [head EXCEPT ![Place(seg)] = seg.ref] /\ UNCHANGED <<cwd, rewritten>>
         [] seg.does = "detach" -> head' = [head EXCEPT ![Place(seg)] = Detached] /\ UNCHANGED <<cwd, rewritten>>
         [] seg.does = "create" ->
                head' = [head EXCEPT ![Place(seg)] = seg.ref] /\ rewritten' = rewritten \union {seg.ref}
                    /\ UNCHANGED cwd
         [] seg.does = "rebase" ->
                head' = [head EXCEPT ![Place(seg)] = seg.ref] /\ rewritten' = rewritten \union {seg.ref}
                    /\ UNCHANGED cwd
         [] seg.does = "rename" ->
                /\ on # Detached
                /\ head' = [head EXCEPT ![Place(seg)] = seg.ref]
                /\ rewritten' = rewritten \union {on, seg.ref} /\ UNCHANGED cwd
         [] seg.does = "push" -> rewritten' = rewritten \union {seg.ref} /\ UNCHANGED <<head, cwd>>
         [] seg.does = "push-all" -> rewritten' = rewritten \union existing /\ UNCHANGED <<head, cwd>>
         [] seg.does = "bisect" ->
                /\ \E b \in BranchName : head' = [head EXCEPT ![Place(seg)] = b]
                /\ UNCHANGED <<cwd, rewritten>>
         [] seg.does = "blind" ->
                /\ \E b \in BranchName : rewritten' = rewritten \union {b}
                /\ UNCHANGED <<head, cwd>>
         [] OTHER -> UNCHANGED <<head, cwd, rewritten>>

RunSegment ==
    /\ verdict = "admitted" /\ cursor <= Len(segments)
    /\ LET seg == segments[cursor]
       IN IF seg.op = "&&" /\ ~status
          THEN UNCHANGED <<head, cwd, rewritten, status>>
          ELSE \/ Works(seg) /\ status' = TRUE
               \/ status' = FALSE /\ UNCHANGED <<head, cwd, rewritten>>
    /\ cursor' = cursor + 1
    /\ UNCHANGED <<segments, setting, inside, change, found, verdict>>

GuardInit ==
    /\ segments = <<>> /\ session \in BOOLEAN
    /\ holder \in [Issue -> {"mine", "other", "nobody"}]
    /\ proposed \in [BranchName -> BOOLEAN]
    /\ blocked \in {{}, {"git"}, {"lease"}, {"pulls"}}
    /\ existing \in SUBSET BranchName /\ head \in [Checkout -> existing]
    /\ inside = {} /\ change = Nowhere /\ found = {} /\ cursor = 1 /\ verdict = "building"
    /\ cwd = "here" /\ status = TRUE /\ rewritten = {}

GuardNext ==
    \/ \E seg \in Segment : Extend(seg)
    \/ Submit
    \/ ReadSegment
    \/ Decide
    \/ RunSegment

GuardSpec == GuardInit /\ [][GuardNext]_guardVars

-----------------------------------------------------------------------------
(***************************************************************************)
(* A command the guard admits changes the history of no issue branch that  *)
(* another session leases, or that is free with no pull request open,      *)
(* whichever of its segments fail (commit_branches, _retarget,             *)
(* _decide_branch).  It is said of the commands of Extend: at most one     *)
(* branch change, segments joined by && and ; alone.                       *)
(***************************************************************************)
LeaseRespected ==
    \A b \in rewritten \ {Detached} :
        \/ IssueOf[b] = NoIssue
        \/ holder[IssueOf[b]] = "mine" /\ session
        \/ holder[IssueOf[b]] = "nobody" /\ proposed[b]
=============================================================================
