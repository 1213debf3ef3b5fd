---------------------------- MODULE RequestCheck ----------------------------
(***************************************************************************)
(* `agentic-sdlc check-request --authorize-labels`: is an issue a request  *)
(* people approved, as it now stands?  GitHub answers one question at a    *)
(* time while people go on editing, labelling, closing and reopening; the  *)
(* check judges one set of answers, then asks everything again and begins  *)
(* anew when an answer moved.                                              *)
(*                                                                         *)
(* Every change has a moment of its own: GitHub's times have a resolution  *)
(* of a second, and what is undone within one is not seen.                 *)
(***************************************************************************)
EXTENDS Naturals, Sequences, FiniteSets

CONSTANTS
    ApprovalLabel,        \* the approval labels
    Person,
    Own,          \* the pull request --continuation-pr names
    PullRequest,
    Attempts,     \* CHECK_REQUEST_ATTEMPTS
    MaxChanges    \* bound on what people do

VARIABLES
    clock,        \* moments so far
    issue,        \* [open, text, labels, updated, events, bodyEdited]
    dependency,   \* [closed, updated]
    pulls,        \* open pull requests
    writers,      \* who has write permission
    check,        \* the check under way: [stage, attempt, what it read]
    witness       \* what was true at some moment of this attempt (history)

requestVars == <<clock, issue, dependency, pulls, writers, check, witness>>

FreshCheck(n) == [stage |-> "document", attempt |-> n, document |-> {}, events |-> <<>>,
             asked |-> {}, dependency |-> {}, pulls |-> {}, again |-> <<>>]

Blocking(prs) == prs \ {Own}

-----------------------------------------------------------------------------
(* What the event history says.                                            *)

LabelEvents(events, l) == {i \in DOMAIN events : events[i].label = l}
LatestEvent(S) == CHOOSE i \in S : \A j \in S : j <= i

Applied(events, l) ==
    /\ LabelEvents(events, l) # {}
    /\ events[LatestEvent(LabelEvents(events, l))].on

AppliedAt(events, l) == events[LatestEvent(LabelEvents(events, l))].at
Applier(events, l) == events[LatestEvent(LabelEvents(events, l))].by

\* `_last_content_edit`: titles by the events already read, the body asked for.
LastEdit(events, bodyEdited) ==
    LET times == {bodyEdited} \union {events[i].at : i \in {j \in DOMAIN events : events[j].label = "title"}}
    IN  CHOOSE t \in times : \A s \in times : s <= t

Covered(events, bodyEdited) ==
    \A l \in ApprovalLabel : Applied(events, l) /\ AppliedAt(events, l) > LastEdit(events, bodyEdited)

-----------------------------------------------------------------------------
(* The moments of an attempt (history).                                    *)

Sound(i, d, p) ==
    /\ i.open /\ ApprovalLabel \subseteq i.labels /\ Covered(i.events, i.bodyEdited)
    /\ d.closed /\ Blocking(p) = {}

\* The texts that were sound as they stood, and who could write.
Moment(i, d, p, w) == [texts |-> IF Sound(i, d, p) THEN {i.text} ELSE {}, writers |-> w]
Observe ==
    LET now == Moment(issue', dependency', pulls', writers')
    IN  witness' = [texts |-> witness.texts \union now.texts, writers |-> witness.writers \union now.writers]

-----------------------------------------------------------------------------
(* People.                                                                 *)

Change == clock < MaxChanges /\ clock' = clock + 1 /\ check' = check

Recorded(l, on, who) == Append(issue.events, [label |-> l, on |-> on, by |-> who, at |-> clock + 1])

EditBody ==
    /\ Change /\ issue' = [issue EXCEPT !.text = 1 - @, !.updated = clock + 1, !.bodyEdited = clock + 1]
    /\ UNCHANGED <<dependency, pulls, writers>> /\ Observe

EditTitle ==
    /\ Change
    /\ \E who \in Person :
          issue' = [issue EXCEPT !.text = 1 - @, !.updated = clock + 1, !.events = Recorded("title", TRUE, who)]
    /\ UNCHANGED <<dependency, pulls, writers>> /\ Observe

ToggleLabel ==
    /\ Change
    /\ \E l \in ApprovalLabel, who \in Person :
          issue' = [issue EXCEPT !.labels = IF l \in @ THEN @ \ {l} ELSE @ \union {l},
                                 !.updated = clock + 1, !.events = Recorded(l, l \notin issue.labels, who)]
    /\ UNCHANGED <<dependency, pulls, writers>> /\ Observe

ToggleIssue ==
    /\ Change /\ issue' = [issue EXCEPT !.open = ~@, !.updated = clock + 1]
    /\ UNCHANGED <<dependency, pulls, writers>> /\ Observe

ToggleDependency ==
    /\ Change /\ dependency' = [closed |-> ~dependency.closed, updated |-> clock + 1]
    /\ UNCHANGED <<issue, pulls, writers>> /\ Observe

TogglePull ==
    /\ Change
    /\ \E p \in PullRequest : pulls' = IF p \in pulls THEN pulls \ {p} ELSE pulls \union {p}
    /\ UNCHANGED <<issue, dependency, writers>> /\ Observe

ToggleWriter ==
    /\ Change
    /\ \E who \in Person : writers' = IF who \in writers THEN writers \ {who} ELSE writers \union {who}
    /\ UNCHANGED <<issue, dependency, pulls>> /\ Observe

-----------------------------------------------------------------------------
(* The check.                                                              *)

peopleVars == <<clock, issue, dependency, pulls, writers>>

EndCheck(result) == check' = [check EXCEPT !.stage = result]

\* `_read_issue`, and what the document alone decides: state, policy labels.
Document == [open |-> issue.open, text |-> issue.text, labels |-> issue.labels, updated |-> issue.updated]

ReadDocument ==
    /\ check.stage = "document" /\ UNCHANGED <<peopleVars, witness>>
    /\ check' = [check EXCEPT !.stage = "events", !.document = Document]

ReadEvents ==
    /\ check.stage = "events" /\ UNCHANGED <<peopleVars, witness>>
    /\ IF check.document.open /\ ApprovalLabel \subseteq check.document.labels
       THEN check' = [check EXCEPT !.stage = "edits", !.events = issue.events]
       ELSE EndCheck("refused")

\* `authorize_labeler`: every label last applied, and after the last edit.
DateLabels ==
    /\ check.stage = "edits" /\ UNCHANGED <<peopleVars, witness>>
    /\ IF Covered(check.events, issue.bodyEdited)
       THEN check' = [check EXCEPT !.stage = "permissions", !.asked = {Applier(check.events, l) : l \in ApprovalLabel}]
       ELSE EndCheck("refused")

\* `labeler_permission`, one applier after the other.
AskPermission ==
    /\ check.stage = "permissions" /\ UNCHANGED <<peopleVars, witness>>
    /\ \E who \in check.asked :
          IF who \notin writers THEN EndCheck("refused")
          ELSE check' = [check EXCEPT !.asked = @ \ {who},
                                      !.stage = IF check.asked = {who} THEN "dependencies" ELSE @]

ReadDependencies ==
    /\ check.stage = "dependencies" /\ UNCHANGED <<peopleVars, witness>>
    /\ IF dependency.closed THEN check' = [check EXCEPT !.stage = "pulls", !.dependency = dependency]
       ELSE EndCheck("refused")

ReadPulls ==
    /\ check.stage = "pulls" /\ UNCHANGED <<peopleVars, witness>>
    /\ IF Blocking(pulls) = {} THEN check' = [check EXCEPT !.stage = "again", !.pulls = pulls]
       ELSE EndCheck("refused")

\* The second reading, in the order of the first.
ReadAgain ==
    /\ check.stage = "again" /\ UNCHANGED <<peopleVars, witness>>
    /\ check' = [check EXCEPT !.again = Append(@,
            CASE Len(check.again) = 0 -> Document
              [] Len(check.again) = 1 -> issue.events
              [] Len(check.again) = 2 -> dependency
              [] Len(check.again) = 3 -> pulls),
          !.stage = IF Len(check.again) = 3 THEN "compare" ELSE @]

\* Mutation: of the issue, only the document is compared; what waits on it is not.
StableIssue == check.again[1] = check.document /\ check.again[2] = check.events

\* What must not have moved between the readings.
Stable ==
    /\ check.again[1] = check.document /\ check.again[2] = check.events
    /\ check.again[3] = check.dependency /\ check.again[4] = check.pulls

Compare ==
    /\ check.stage = "compare" /\ UNCHANGED peopleVars
    /\ \/ Blocking(check.again[4]) # {} /\ EndCheck("refused") /\ UNCHANGED witness
       \/ /\ Blocking(check.again[4]) = {} /\ Stable
          /\ EndCheck("ready") /\ UNCHANGED witness
       \/ /\ Blocking(check.again[4]) = {} /\ ~Stable
          /\ IF check.again[1].text # check.document.text \/ check.attempt = Attempts
             THEN EndCheck("refused") /\ UNCHANGED witness
             ELSE check' = FreshCheck(check.attempt + 1) /\ witness' = Moment(issue, dependency, pulls, writers)

RequestNext ==
    \/ EditBody \/ EditTitle \/ ToggleLabel \/ ToggleIssue \/ ToggleDependency \/ TogglePull \/ ToggleWriter
    \/ ReadDocument \/ ReadEvents \/ DateLabels \/ AskPermission \/ ReadDependencies \/ ReadPulls
    \/ ReadAgain \/ Compare

\* Both labels were applied by people, the newest change of all.
RequestInit ==
    /\ clock = 2 /\ check = FreshCheck(1)
    /\ \E applied \in [ApprovalLabel -> Person], order \in {o \in [1 .. 2 -> ApprovalLabel] : o[1] # o[2]} :
          issue = [open |-> TRUE, text |-> 0, labels |-> ApprovalLabel, updated |-> 2, bodyEdited |-> 0,
                   events |-> [i \in 1 .. 2 |-> [label |-> order[i], on |-> TRUE, by |-> applied[order[i]], at |-> i]]]
    /\ dependency = [closed |-> TRUE, updated |-> 0]
    /\ pulls \in SUBSET PullRequest
    /\ writers = Person
    /\ witness = Moment(issue, dependency, pulls, writers)

RequestSpec == RequestInit /\ [][RequestNext]_requestVars

-----------------------------------------------------------------------------
\* A request is called ready only if, at one moment of the attempt that said so,
\* all of it held at once: the issue open with the text the result names, every
\* approval label last applied after the last edit, its dependencies closed and
\* no pull request open but the unit's own; and each who applied a label could
\* write at some moment of it, though no two of the answers were given at the
\* same time (`_check_request`, `authorize_labeler`).
ReadyAtOnce ==
    check.stage = "ready" =>
        /\ check.document.text \in witness.texts
        /\ {Applier(check.events, l) : l \in ApprovalLabel} \subseteq witness.writers
=============================================================================
