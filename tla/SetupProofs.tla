------------------------------ MODULE SetupProofs -----------------------------
(***************************************************************************)
(* What is proved, for every value of their constants, of what stands      *)
(* before a unit's work and around it: `check-request` (RequestCheck),     *)
(* `onboard` (Onboarding, RepoSettings), the commit guard (CommitGuard)    *)
(* and `doctor` (BranchRules, Doctor, CalleeGraph).                        *)
(***************************************************************************)
EXTENDS RequestCheck, Onboarding, RepoSettings, CommitGuard, BranchRules, Doctor,
        CalleeGraph, FiniteSetTheorems, WellFoundedInduction, TLAPS

-----------------------------------------------------------------------------
(* `check-request`: the answers of an attempt hold together.               *)

RequestEvent == [label : ApprovalLabel \cup {"title"}, on : BOOLEAN, by : Person, at : Nat]

Documents == [open : BOOLEAN, text : {0, 1}, labels : SUBSET ApprovalLabel, updated : Nat]

Dependencies == [closed : BOOLEAN, updated : Nat]

Readings == Documents \cup Seq(RequestEvent) \cup Dependencies \cup SUBSET PullRequest

\* The stages from a given one on; a refusal ends the check at any of them.
FromPulls == {"pulls", "again", "compare", "ready"}
FromDependencies == FromPulls \cup {"dependencies"}
FromPermissions == FromDependencies \cup {"permissions"}
FromEdits == FromPermissions \cup {"edits"}
FromEvents == FromEdits \cup {"events"}

Issues == [open : BOOLEAN, text : {0, 1}, labels : SUBSET ApprovalLabel,
           updated : Nat, bodyEdited : Nat, events : Seq(RequestEvent)]

RequestTypes ==
    /\ clock \in Nat
    /\ issue \in Issues
    /\ dependency \in Dependencies
    /\ pulls \subseteq PullRequest
    /\ issue.updated <= clock /\ dependency.updated <= clock
    /\ witness = [texts |-> witness.texts, writers |-> witness.writers]

\* What a check has in hand, at its stage.
CheckTypes ==
    /\ check = [stage |-> check.stage, attempt |-> check.attempt,
                document |-> check.document, events |-> check.events,
                asked |-> check.asked, dependency |-> check.dependency,
                pulls |-> check.pulls, again |-> check.again]
    /\ check.stage \in FromEvents \cup {"document", "refused"}
    /\ check.stage \in FromEvents => check.document \in Documents
    /\ check.stage \in FromPulls => check.dependency \in Dependencies
    /\ check.again \in Seq(Readings)
    /\ check.stage \in {"document", "events", "edits", "permissions", "dependencies", "pulls"}
           => check.again = <<>>
    /\ check.stage = "again" => Len(check.again) <= 3
    /\ check.stage = "compare" => Len(check.again) = 4

\* Every change of the issue or the dependency has a time of its own: as long as
\* the time is the one that was read, so is all that was read with it or after.
IssueStands == issue.updated = check.document.updated
DependencyStands == dependency.updated = check.dependency.updated

AsRead ==
    /\ check.stage \in FromEvents =>
           /\ check.document.updated <= issue.updated
           /\ IssueStands => check.document = Document
    /\ check.stage \in FromEdits =>
           /\ check.document.open /\ ApprovalLabel \subseteq check.document.labels
           /\ IssueStands => check.events = issue.events
    /\ check.stage \in FromPermissions =>
           (IssueStands => Covered(check.events, issue.bodyEdited))
    /\ check.stage \in FromPulls =>
           /\ check.dependency.closed
           /\ check.dependency.updated <= dependency.updated
           /\ DependencyStands => check.dependency = dependency

\* The history has the present moment in it, and those asked for it could write.
Remembered ==
    /\ Sound(issue, dependency, pulls) => issue.text \in witness.texts
    /\ writers \subseteq witness.writers

Appliers == {Applier(check.events, l) : l \in ApprovalLabel}

Asked ==
    /\ check.stage = "permissions" => Appliers \ check.asked \subseteq witness.writers
    /\ check.stage \in FromDependencies => Appliers \subseteq witness.writers

\* The moment the pull requests were read is the one the result is about, unless
\* something has moved that the second reading will find.
IssueMoved ==
    IF check.again = <<>> THEN ~IssueStands ELSE check.again[1] # check.document
DependencyMoved ==
    IF Len(check.again) < 3 THEN ~DependencyStands ELSE check.again[3] # check.dependency

Justified ==
    /\ check.stage \in {"again", "compare"} =>
           check.document.text \in witness.texts \/ IssueMoved \/ DependencyMoved
    /\ check.stage = "ready" => check.document.text \in witness.texts

RequestInv ==
    RequestTypes /\ CheckTypes /\ AsRead /\ Remembered /\ Asked /\ Justified

\* What operators on values are worth in the next state.
LEMMA Primed ==
    /\ \A l : Applier(check.events, l)' = Applier(check'.events, l)
    /\ Covered(check.events, issue.bodyEdited)' = Covered(check'.events, issue'.bodyEdited)
    /\ Sound(issue, dependency, pulls)' = Sound(issue', dependency', pulls')
  BY DEF Applier, LatestEvent, LabelEvents, Covered, Applied, AppliedAt, LastEdit, Sound,
         Blocking

LEMMA RequestInvInit == RequestInit => RequestInv
  <1> SUFFICES ASSUME RequestInit PROVE RequestInv
    OBVIOUS
  <1>1. PICK put \in [ApprovalLabel -> Person], order \in [1 .. 2 -> ApprovalLabel] :
            issue = [open |-> TRUE, text |-> 0, labels |-> ApprovalLabel, updated |-> 2,
                     bodyEdited |-> 0,
                     events |-> [i \in 1 .. 2 |-> [label |-> order[i], on |-> TRUE,
                                                  by |-> put[order[i]], at |-> i]]]
    BY DEF RequestInit
  <1> DEFINE events == [i \in 1 .. 2 |-> [label |-> order[i], on |-> TRUE,
                                          by |-> put[order[i]], at |-> i]]
  <1>2. events \in [1 .. 2 -> RequestEvent]
    BY DEF RequestEvent
  <1>3. events \in Seq(RequestEvent)
    BY <1>2
  <1>4. issue = [open |-> TRUE, text |-> 0, labels |-> ApprovalLabel, updated |-> 2,
                 bodyEdited |-> 0, events |-> events]
    BY <1>1
  <1> HIDE DEF events
  <1>5. RequestTypes
    <2>1. witness = [texts |-> witness.texts, writers |-> witness.writers]
      BY DEF RequestInit, Moment
    <2>2. clock = 2 /\ dependency \in Dependencies /\ dependency.updated <= clock
      BY DEF RequestInit, Dependencies
    <2>3. pulls \subseteq PullRequest
      BY DEF RequestInit
    <2> QED
      BY <1>3, <1>4, <2>1, <2>2, <2>3 DEF RequestTypes, Issues
  <1>6. CheckTypes
    BY DEF RequestInit, CheckTypes, FreshCheck, FromEvents, FromEdits, FromPermissions,
           FromDependencies, FromPulls
  <1>7. AsRead /\ Asked /\ Justified
    BY DEF RequestInit, FreshCheck, AsRead, Asked, Justified, FromEvents, FromEdits,
           FromPermissions, FromDependencies, FromPulls
  <1>8. Remembered
    BY DEF RequestInit, Remembered, Moment
  <1> QED
    BY <1>5, <1>6, <1>7, <1>8 DEF RequestInv

\* Whatever people do, the check holds to what it read.
LEMMA PeopleStep ==
    ASSUME RequestInv, RequestTypes', Change, Observe,
           issue' = issue \/ issue'.updated = clock + 1,
           dependency' = dependency \/ dependency'.updated = clock + 1
    PROVE  RequestInv'
  <1>1. check' = check /\ RequestTypes /\ clock \in Nat
    BY DEF Change, RequestInv, RequestTypes
  <1>2. CheckTypes'
    BY <1>1 DEF RequestInv, CheckTypes
  <1>3. /\ witness.texts \subseteq witness'.texts /\ witness.writers \subseteq witness'.writers
        /\ Sound(issue', dependency', pulls') => issue'.text \in witness'.texts
        /\ writers' \subseteq witness'.writers
    BY DEF Observe, Moment
  <1>4. Remembered'
    BY <1>3, Primed DEF Remembered
  <1>5. Asked'
    <2>1. Appliers' = Appliers
      BY <1>1, Primed DEF Appliers
    <2> QED
      BY <1>1, <1>3, <2>1 DEF RequestInv, Asked
  <1>6. /\ issue.updated <= clock /\ issue.updated \in Nat
        /\ dependency.updated <= clock /\ dependency.updated \in Nat
    BY <1>1 DEF RequestTypes, Dependencies, Issues
  <1>7. check.stage \in FromEvents =>
            /\ check.document.updated \in Nat /\ check.document.updated <= issue.updated
            /\ IssueStands' => issue' = issue
    BY <1>1, <1>6 DEF RequestInv, CheckTypes, AsRead, Documents, IssueStands
  <1>8. check.stage \in FromPulls =>
            /\ check.dependency.updated \in Nat
            /\ check.dependency.updated <= dependency.updated
            /\ DependencyStands' => dependency' = dependency
    BY <1>1, <1>6 DEF RequestInv, CheckTypes, AsRead, Dependencies, DependencyStands
  <1>9. AsRead'
    <2>1. check.stage \in FromEvents => check.document.updated <= issue'.updated
      BY <1>1, <1>6, <1>7
    <2>2. check.stage \in FromPulls => check.dependency.updated <= dependency'.updated
      BY <1>1, <1>6, <1>8
    <2>3. FromEdits \subseteq FromEvents /\ FromPermissions \subseteq FromEvents
      BY DEF FromEdits, FromEvents, FromPermissions
    <2>4. issue' = issue => Document' = Document
      BY DEF Document
    <2>5. issue' = issue => Covered(check.events, issue.bodyEdited)'
                                = Covered(check.events, issue.bodyEdited)
      BY <1>1, Primed
    <2>6. issue' = issue => IssueStands' = IssueStands
      BY <1>1 DEF IssueStands
    <2>7. dependency' = dependency => DependencyStands' = DependencyStands
      BY <1>1 DEF DependencyStands
    <2> QED
      BY <1>1, <1>7, <1>8, <2>1, <2>2, <2>3, <2>4, <2>5, <2>6, <2>7 DEF AsRead, RequestInv
  <1>10. Justified'
    <2>1. check.stage \in {"again", "compare"} =>
              check.stage \in FromEvents /\ check.stage \in FromPulls
      BY DEF FromEvents, FromEdits, FromPermissions, FromDependencies, FromPulls
    <2>2. check.stage \in {"again", "compare"} =>
              /\ IssueMoved => IssueMoved'
              /\ DependencyMoved => DependencyMoved'
      BY <1>1, <1>7, <1>8, <2>1
         DEF IssueMoved, DependencyMoved, IssueStands, DependencyStands
    <2> QED
      BY <1>1, <1>3, <2>2 DEF RequestInv, Justified
  <1> QED
    BY <1>2, <1>4, <1>5, <1>9, <1>10 DEF RequestInv

LEMMA PeopleKeep ==
    ASSUME RequestInv,
           \/ EditBody \/ EditTitle \/ ToggleLabel \/ ToggleIssue
           \/ ToggleDependency \/ TogglePull \/ ToggleWriter
    PROVE  RequestInv'
  <1>1. RequestTypes /\ clock + 1 \in Nat
    BY DEF RequestInv, RequestTypes
  <1>0. issue \in Issues /\ 1 - issue.text \in {0, 1}
    BY <1>1 DEF RequestTypes, Issues
  <1>2. \A l \in ApprovalLabel \cup {"title"}, on \in BOOLEAN, who \in Person :
            Recorded(l, on, who) \in Seq(RequestEvent)
    BY <1>1, <1>0 DEF Recorded, RequestEvent, Issues
  <1>3. witness' = [texts |-> witness'.texts, writers |-> witness'.writers] /\ Observe /\ Change
    BY DEF EditBody, EditTitle, ToggleLabel, ToggleIssue, ToggleDependency, TogglePull,
           ToggleWriter, Observe
  <1>4. CASE EditBody
    <2>1. issue' \in Issues /\ issue'.updated = clock + 1
      BY <1>1, <1>0, <1>4 DEF EditBody, Issues
    <2>2. UNCHANGED <<dependency, pulls, writers>>
      BY <1>4 DEF EditBody
    <2>3. RequestTypes'
      BY <1>1, <1>3, <2>1, <2>2 DEF RequestTypes, Dependencies, Change
    <2> QED
      BY <1>3, <2>1, <2>2, <2>3, PeopleStep
  <1>5. CASE EditTitle
    <2>1. issue' \in Issues /\ issue'.updated = clock + 1
      <3>1. PICK who \in Person :
                issue' = [issue EXCEPT !.text = 1 - @, !.updated = clock + 1,
                                       !.events = Recorded("title", TRUE, who)]
        BY <1>5 DEF EditTitle
      <3>2. Recorded("title", TRUE, who) \in Seq(RequestEvent)
        BY <1>2
      <3> QED
        BY <1>0, <1>1, <3>1, <3>2 DEF Issues
    <2>2. UNCHANGED <<dependency, pulls, writers>>
      BY <1>5 DEF EditTitle
    <2>3. RequestTypes'
      BY <1>1, <1>3, <2>1, <2>2 DEF RequestTypes, Dependencies, Change
    <2> QED
      BY <1>3, <2>1, <2>2, <2>3, PeopleStep
  <1>6. CASE ToggleLabel
    <2>1. issue' \in Issues /\ issue'.updated = clock + 1
      <3>1. PICK l \in ApprovalLabel, who \in Person :
                issue' = [issue EXCEPT !.labels = IF l \in @ THEN @ \ {l} ELSE @ \union {l},
                                       !.updated = clock + 1,
                                       !.events = Recorded(l, l \notin issue.labels, who)]
        BY <1>6 DEF ToggleLabel
      <3>2. Recorded(l, l \notin issue.labels, who) \in Seq(RequestEvent)
        BY <1>2
      <3> QED
        BY <1>0, <1>1, <3>1, <3>2 DEF Issues
    <2>2. UNCHANGED <<dependency, pulls, writers>>
      BY <1>6 DEF ToggleLabel
    <2>3. RequestTypes'
      BY <1>1, <1>3, <2>1, <2>2 DEF RequestTypes, Dependencies, Change
    <2> QED
      BY <1>3, <2>1, <2>2, <2>3, PeopleStep
  <1>7. CASE ToggleIssue
    <2>1. issue' \in Issues /\ issue'.updated = clock + 1
      BY <1>1, <1>0, <1>7 DEF ToggleIssue, Issues
    <2>2. UNCHANGED <<dependency, pulls, writers>>
      BY <1>7 DEF ToggleIssue
    <2>3. RequestTypes'
      BY <1>1, <1>3, <2>1, <2>2 DEF RequestTypes, Dependencies, Change
    <2> QED
      BY <1>3, <2>1, <2>2, <2>3, PeopleStep
  <1>8. CASE ToggleDependency
    <2>1. dependency' \in Dependencies /\ dependency'.updated = clock + 1
      BY <1>1, <1>8 DEF ToggleDependency, Dependencies, RequestTypes
    <2>2. UNCHANGED <<issue, pulls, writers>>
      BY <1>8 DEF ToggleDependency
    <2>3. RequestTypes'
      BY <1>1, <1>3, <2>1, <2>2 DEF RequestTypes, Issues, Change
    <2> QED
      BY <1>3, <2>1, <2>2, <2>3, PeopleStep
  <1>9. CASE TogglePull \/ ToggleWriter
    <2>1. UNCHANGED <<issue, dependency>> /\ pulls' \subseteq PullRequest
      BY <1>1, <1>9 DEF TogglePull, ToggleWriter, RequestTypes
    <2>2. RequestTypes'
      BY <1>1, <1>3, <2>1 DEF RequestTypes, Issues, Dependencies, Change
    <2> QED
      BY <1>3, <2>1, <2>2, PeopleStep
  <1> QED
    BY <1>4, <1>5, <1>6, <1>7, <1>8, <1>9

\* The check's own steps move nothing but the check.
LEMMA CheckStep ==
    ASSUME RequestInv, UNCHANGED <<peopleVars, witness>>,
           CheckTypes', AsRead', Asked', Justified'
    PROVE  RequestInv'
  <1>1. RequestTypes'
    BY DEF RequestInv, RequestTypes, peopleVars
  <1>2. Remembered'
    BY Primed DEF RequestInv, Remembered, peopleVars
  <1> QED
    BY <1>1, <1>2 DEF RequestInv

LEMMA CheckRefused ==
    ASSUME RequestInv, UNCHANGED <<peopleVars, witness>>, EndCheck("refused")
    PROVE  RequestInv'
  <1>1. CheckTypes /\ check' = [check EXCEPT !.stage = "refused"]
    BY DEF RequestInv, EndCheck
  <1> USE DEF FromEvents, FromEdits, FromPermissions, FromDependencies, FromPulls
  <1>2. CheckTypes' /\ check'.stage = "refused"
    BY <1>1 DEF CheckTypes
  <1> QED
    BY <1>2, CheckStep DEF AsRead, Asked, Justified

LEMMA KeepReadDocument ==
    ASSUME RequestInv, ReadDocument
    PROVE  RequestInv'
  <1>1. /\ CheckTypes /\ RequestTypes /\ UNCHANGED <<peopleVars, witness>>
        /\ check.stage = "document"
        /\ check' = [check EXCEPT !.stage = "events", !.document = Document]
    BY DEF RequestInv, ReadDocument
  <1> USE DEF FromEvents, FromEdits, FromPermissions, FromDependencies, FromPulls
  <1>2. Document \in Documents /\ Document.updated = issue.updated /\ issue.updated \in Nat
    BY <1>1 DEF Document, Documents, RequestTypes, Issues
  <1>3. CheckTypes' /\ check'.stage = "events" /\ check'.document = Document
    BY <1>1, <1>2 DEF CheckTypes
  <1>4. AsRead'
    BY <1>1, <1>2, <1>3 DEF AsRead, Document, peopleVars
  <1> QED
    BY <1>1, <1>3, <1>4, CheckStep DEF Asked, Justified

LEMMA KeepReadEvents ==
    ASSUME RequestInv, ReadEvents
    PROVE  RequestInv'
  <1>1. CASE EndCheck("refused")
    BY <1>1, CheckRefused DEF ReadEvents
  <1>2. CASE ~EndCheck("refused")
    <2>1. /\ CheckTypes /\ AsRead /\ UNCHANGED <<peopleVars, witness>>
          /\ check.stage = "events"
          /\ check.document.open /\ ApprovalLabel \subseteq check.document.labels
          /\ check' = [check EXCEPT !.stage = "edits", !.events = issue.events]
      BY <1>2 DEF RequestInv, ReadEvents
    <2> USE DEF FromEvents, FromEdits, FromPermissions, FromDependencies, FromPulls
    <2>2. /\ CheckTypes' /\ check'.stage = "edits" /\ check'.document = check.document
          /\ check'.events = issue.events
      BY <2>1 DEF CheckTypes
    <2>3. AsRead'
      BY <2>1, <2>2 DEF AsRead, IssueStands, Document, peopleVars
    <2> QED
      BY <2>1, <2>2, <2>3, CheckStep DEF Asked, Justified
  <1> QED
    BY <1>1, <1>2

LEMMA KeepDateLabels ==
    ASSUME RequestInv, DateLabels
    PROVE  RequestInv'
  <1>1. CASE EndCheck("refused")
    BY <1>1, CheckRefused DEF DateLabels
  <1>2. CASE ~EndCheck("refused")
    <2>1. /\ CheckTypes /\ AsRead /\ UNCHANGED <<peopleVars, witness>>
          /\ check.stage = "edits" /\ Covered(check.events, issue.bodyEdited)
          /\ check' = [check EXCEPT !.stage = "permissions", !.asked = Appliers]
      BY <1>2 DEF RequestInv, DateLabels, Appliers
    <2> USE DEF FromEvents, FromEdits, FromPermissions, FromDependencies, FromPulls
    <2>2. /\ CheckTypes' /\ check'.stage = "permissions" /\ check'.document = check.document
          /\ check'.events = check.events /\ check'.asked = Appliers
      BY <2>1 DEF CheckTypes
    <2>3. Covered(check.events, issue.bodyEdited)'
      BY <2>1, <2>2, Primed DEF peopleVars
    <2>4. AsRead'
      BY <2>1, <2>2, <2>3 DEF AsRead, IssueStands, Document, peopleVars
    <2>5. Appliers' = Appliers
      BY <2>2, Primed DEF Appliers
    <2>6. Asked' /\ Justified'
      BY <2>2, <2>5 DEF Asked, Justified
    <2> QED
      BY <2>1, <2>2, <2>4, <2>6, CheckStep
  <1> QED
    BY <1>1, <1>2

\* A check that keeps what it read of the issue keeps what that says.
LEMMA IssueAsRead ==
    ASSUME RequestInv, UNCHANGED peopleVars,
           check'.document = check.document, check'.events = check.events,
           check.stage \in FromPermissions, check'.stage \in FromPermissions \ FromPulls
    PROVE  AsRead' /\ Appliers' = Appliers
  <1> USE DEF FromEvents, FromEdits, FromPermissions, FromDependencies, FromPulls
  <1>1. Covered(check.events, issue.bodyEdited)' = Covered(check.events, issue.bodyEdited)
    BY Primed DEF peopleVars
  <1>2. AsRead'
    BY <1>1 DEF RequestInv, AsRead, IssueStands, Document, peopleVars
  <1>3. Appliers' = Appliers
    BY Primed DEF Appliers
  <1> QED
    BY <1>2, <1>3

LEMMA KeepAskPermission ==
    ASSUME RequestInv, AskPermission
    PROVE  RequestInv'
  <1>1. CASE EndCheck("refused")
    BY <1>1, CheckRefused DEF AskPermission
  <1>2. CASE ~EndCheck("refused")
    <2>1. PICK who \in check.asked :
              /\ who \in writers
              /\ check' = [check EXCEPT !.asked = @ \ {who},
                              !.stage = IF check.asked = {who} THEN "dependencies" ELSE @]
      BY <1>2 DEF AskPermission
    <2>2. /\ CheckTypes /\ Asked /\ Remembered /\ UNCHANGED <<peopleVars, witness>>
          /\ check.stage = "permissions"
      BY DEF RequestInv, AskPermission
    <2> USE DEF FromEvents, FromEdits, FromPermissions, FromDependencies, FromPulls
    <2>3. /\ CheckTypes' /\ check'.document = check.document /\ check'.events = check.events
          /\ check'.asked = check.asked \ {who}
          /\ check'.stage = IF check.asked = {who} THEN "dependencies" ELSE "permissions"
      BY <2>1, <2>2 DEF CheckTypes
    <2>4. AsRead' /\ Appliers' = Appliers
      BY <2>2, <2>3, IssueAsRead
    <2>5. who \in witness.writers /\ Appliers \ check.asked \subseteq witness.writers
      BY <2>1, <2>2 DEF Asked, Remembered
    <2>6. Asked' /\ Justified'
      BY <2>2, <2>3, <2>4, <2>5 DEF Asked, Justified
    <2> QED
      BY <2>2, <2>3, <2>4, <2>6, CheckStep
  <1> QED
    BY <1>1, <1>2

LEMMA KeepReadDependencies ==
    ASSUME RequestInv, ReadDependencies
    PROVE  RequestInv'
  <1>1. CASE EndCheck("refused")
    BY <1>1, CheckRefused DEF ReadDependencies
  <1>2. CASE ~EndCheck("refused")
    <2>1. /\ CheckTypes /\ RequestTypes /\ AsRead /\ Asked
          /\ UNCHANGED <<peopleVars, witness>>
          /\ check.stage = "dependencies" /\ dependency.closed
          /\ check' = [check EXCEPT !.stage = "pulls", !.dependency = dependency]
      BY <1>2 DEF RequestInv, ReadDependencies
    <2> USE DEF FromEvents, FromEdits, FromPermissions, FromDependencies, FromPulls
    <2>2. dependency \in Dependencies /\ dependency.updated \in Nat
      BY <2>1 DEF RequestTypes, Dependencies
    <2>3. /\ CheckTypes' /\ check'.stage = "pulls" /\ check'.document = check.document
          /\ check'.events = check.events /\ check'.dependency = dependency
      BY <2>1, <2>2 DEF CheckTypes
    <2>4. Covered(check.events, issue.bodyEdited)' = Covered(check.events, issue.bodyEdited)
      BY <2>1, <2>3, Primed DEF peopleVars
    <2>5. AsRead'
      BY <2>1, <2>2, <2>3, <2>4 DEF AsRead, IssueStands, Document, peopleVars
    <2>6. Appliers' = Appliers
      BY <2>3, Primed DEF Appliers
    <2>7. Asked' /\ Justified'
      BY <2>1, <2>3, <2>6 DEF Asked, Justified
    <2> QED
      BY <2>1, <2>3, <2>5, <2>7, CheckStep
  <1> QED
    BY <1>1, <1>2

\* A check past the dependencies keeps what all its readings say.
LEMMA AllAsRead ==
    ASSUME RequestInv, UNCHANGED <<peopleVars, witness>>,
           check'.document = check.document, check'.events = check.events,
           check'.dependency = check.dependency,
           check.stage \in FromPulls, check'.stage \in FromPulls
    PROVE  AsRead' /\ Asked'
  <1> USE DEF FromEvents, FromEdits, FromPermissions, FromDependencies, FromPulls
  <1>1. Covered(check.events, issue.bodyEdited)' = Covered(check.events, issue.bodyEdited)
    BY Primed DEF peopleVars
  <1>2. AsRead'
    BY <1>1 DEF RequestInv, AsRead, IssueStands, DependencyStands, Document, peopleVars
  <1>3. Appliers' = Appliers
    BY Primed DEF Appliers
  <1> QED
    BY <1>2, <1>3 DEF RequestInv, Asked

\* The moment a result is about: the pull requests were clear when they were
\* read, and unless the second reading differs the issue was sound by then
\* already and the dependency is closed still.
LEMMA KeepReadPulls ==
    ASSUME RequestInv, ReadPulls
    PROVE  RequestInv'
  <1>1. CASE EndCheck("refused")
    BY <1>1, CheckRefused DEF ReadPulls
  <1>2. CASE ~EndCheck("refused")
    <2>1. /\ CheckTypes /\ AsRead /\ Remembered /\ UNCHANGED <<peopleVars, witness>>
          /\ check.stage = "pulls" /\ Blocking(pulls) = {}
          /\ check' = [check EXCEPT !.stage = "again", !.pulls = pulls]
      BY <1>2 DEF RequestInv, ReadPulls
    <2> USE DEF FromEvents, FromEdits, FromPermissions, FromDependencies, FromPulls
    <2>2. /\ CheckTypes' /\ check'.stage = "again" /\ check'.document = check.document
          /\ check'.events = check.events /\ check'.dependency = check.dependency
          /\ check.again = <<>> /\ check'.again = <<>>
      <3>1. check.again = <<>> /\ check.document \in Documents /\ check.dependency \in Dependencies
        BY <2>1 DEF CheckTypes
      <3>2. /\ check'.stage = "again" /\ check'.document = check.document
            /\ check'.events = check.events /\ check'.dependency = check.dependency
            /\ check'.again = check.again
            /\ check' = [stage |-> check'.stage, attempt |-> check'.attempt,
                         document |-> check'.document, events |-> check'.events,
                         asked |-> check'.asked, dependency |-> check'.dependency,
                         pulls |-> check'.pulls, again |-> check'.again]
        BY <2>1 DEF CheckTypes
      <3>3. Len(<<>>) = 0 /\ <<>> \in Seq(Readings)
        OBVIOUS
      <3>4. check'.again \in Seq(Readings) /\ Len(check'.again) <= 3
        BY <3>1, <3>2, <3>3
      <3> QED
        BY <3>1, <3>2, <3>4 DEF CheckTypes
    <2>3. AsRead' /\ Asked'
      BY <2>1, <2>2, AllAsRead
    <2>4. IssueStands /\ DependencyStands => check.document.text \in witness.texts
      <3> SUFFICES ASSUME IssueStands, DependencyStands
                   PROVE  check.document.text \in witness.texts
        OBVIOUS
      <3>1. check.document = Document /\ Covered(check.events, issue.bodyEdited)
            /\ check.events = issue.events /\ dependency.closed
        BY <2>1 DEF AsRead
      <3>2. issue.open /\ ApprovalLabel \subseteq issue.labels /\ check.document.text = issue.text
        BY <2>1, <3>1 DEF AsRead, Document
      <3>3. Sound(issue, dependency, pulls)
        BY <2>1, <3>1, <3>2 DEF Sound
      <3> QED
        BY <2>1, <3>2, <3>3 DEF Remembered
    <2>5. IssueMoved' = ~IssueStands /\ DependencyMoved' = ~DependencyStands
      BY <2>1, <2>2 DEF IssueMoved, DependencyMoved, IssueStands, DependencyStands, peopleVars
    <2>6. Justified'
      BY <2>1, <2>2, <2>4, <2>5 DEF Justified
    <2> QED
      BY <2>1, <2>2, <2>3, <2>6, CheckStep
  <1> QED
    BY <1>1, <1>2

LEMMA KeepReadAgain ==
    ASSUME RequestInv, ReadAgain
    PROVE  RequestInv'
  <1> DEFINE n == Len(check.again)
             reading == CASE n = 0 -> Document [] n = 1 -> issue.events
                          [] n = 2 -> dependency [] n = 3 -> pulls
  <1>1. /\ CheckTypes /\ RequestTypes /\ AsRead /\ Justified
        /\ UNCHANGED <<peopleVars, witness>> /\ check.stage = "again"
        /\ check' = [check EXCEPT !.again = Append(@, reading),
                                  !.stage = IF n = 3 THEN "compare" ELSE @]
    BY DEF RequestInv, ReadAgain
  <1> USE DEF FromEvents, FromEdits, FromPermissions, FromDependencies, FromPulls
  <1>2. check.again \in Seq(Readings) /\ n \in 0 .. 3
    <2>1. check.again \in Seq(Readings) /\ Len(check.again) <= 3
      BY <1>1 DEF CheckTypes
    <2>2. n \in Nat
      BY <2>1
    <2>3. n <= 3
      BY <2>1
    <2> HIDE DEF n
    <2>4. n \in 0 .. 3
      BY <2>2, <2>3
    <2> QED
      BY <2>1, <2>4
  <1>3. Document \in Documents /\ issue.events \in Seq(RequestEvent)
        /\ dependency \in Dependencies /\ pulls \in SUBSET PullRequest
    BY <1>1 DEF Document, Documents, RequestTypes, Issues
  <1>4. reading \in Readings
    BY <1>2, <1>3 DEF Readings
  <1>5. /\ Append(check.again, reading) \in Seq(Readings)
        /\ Len(Append(check.again, reading)) = n + 1
        /\ Append(check.again, reading)[n + 1] = reading
        /\ \A k \in 1 .. n : Append(check.again, reading)[k] = check.again[k]
    BY <1>2, <1>4
  <1>6. (n = 0 => reading = Document) /\ (n = 2 => reading = dependency)
    <2> HIDE DEF n
    <2> QED
      BY <1>2
  <1> HIDE DEF reading
  <1>7. /\ check' = [check EXCEPT !.again = check'.again, !.stage = check'.stage]
        /\ check'.again = Append(check.again, reading)
        /\ check'.stage = IF n = 3 THEN "compare" ELSE "again"
        /\ check'.document = check.document /\ check'.events = check.events
        /\ check'.dependency = check.dependency
    BY <1>1 DEF CheckTypes
  <1>8. CheckTypes'
    <2>1. check' = [stage |-> check'.stage, attempt |-> check'.attempt,
                    document |-> check'.document, events |-> check'.events,
                    asked |-> check'.asked, dependency |-> check'.dependency,
                    pulls |-> check'.pulls, again |-> check'.again]
      BY <1>1 DEF CheckTypes
    <2>2. check'.document \in Documents /\ check'.dependency \in Dependencies
      BY <1>1, <1>7 DEF CheckTypes
    <2>3. check'.again \in Seq(Readings) /\ Len(check'.again) = n + 1
      BY <1>5, <1>7
    <2> HIDE DEF n
    <2> QED
      BY <1>2, <1>7, <2>1, <2>2, <2>3 DEF CheckTypes
  <1>9. AsRead' /\ Asked'
    BY <1>1, <1>7, AllAsRead
  <1>10. IssueMoved => IssueMoved'
    <2>1. CASE n = 0
      <3>0. check.again = <<>>
        BY <1>2, <2>1
      <3>1. check'.again # <<>> /\ check'.again[1] = Document
        <4>1. Len(check'.again) = 1 /\ check'.again[1] = Document
          BY <1>5, <1>6, <1>7, <2>1
        <4> QED
          BY <4>1
      <3>2. ~IssueStands => Document # check.document
        BY DEF IssueStands, Document
      <3> QED
        BY <1>7, <3>0, <3>1, <3>2 DEF IssueMoved
    <2>2. CASE n # 0
      <3>0. n \in 1 .. 3
        BY <1>2, <2>2
      <3>1. check.again # <<>> /\ check'.again # <<>> /\ check'.again[1] = check.again[1]
        <4>1. Len(check'.again) = n + 1 /\ check'.again[1] = check.again[1]
          BY <1>5, <1>7, <3>0
        <4>2. Len(<<>>) = 0
          OBVIOUS
        <4>3. Len(check.again) # 0 /\ Len(check'.again) # 0
          BY <3>0, <4>1
        <4> QED
          BY <4>1, <4>2, <4>3
      <3> QED
        BY <1>7, <3>1 DEF IssueMoved
    <2> QED
      BY <2>1, <2>2
  <1>11. DependencyMoved => DependencyMoved'
    <2>0. Len(check'.again) = n + 1
      BY <1>5, <1>7
    <2>1. CASE n = 2
      <3>1. check'.again[3] = dependency
        BY <1>5, <1>6, <1>7, <2>1
      <3> QED
        BY <1>7, <2>0, <2>1, <3>1 DEF DependencyMoved, DependencyStands
    <2>2. CASE n < 2
      BY <1>1, <1>2, <1>7, <2>0, <2>2 DEF DependencyMoved, DependencyStands, peopleVars
    <2>3. CASE n = 3
      <3>1. check'.again[3] = check.again[3]
        BY <1>5, <1>7, <2>3
      <3> QED
        BY <1>7, <2>0, <2>3, <3>1 DEF DependencyMoved
    <2>4. n = 2 \/ n < 2 \/ n = 3
      <3> HIDE DEF n
      <3> QED
        BY <1>2
    <2> QED
      BY <2>1, <2>2, <2>3, <2>4
  <1>12. Justified'
    BY <1>1, <1>7, <1>10, <1>11 DEF Justified
  <1> QED
    BY <1>1, <1>8, <1>9, <1>12, CheckStep

\* Both readings agree: nothing had moved when the pull requests were read.
LEMMA KeepCompare ==
    ASSUME RequestInv, Compare
    PROVE  RequestInv'
  <1>0. /\ CheckTypes /\ RequestTypes /\ Justified /\ check.stage = "compare"
        /\ UNCHANGED peopleVars
    BY DEF RequestInv, Compare
  <1> USE DEF FromEvents, FromEdits, FromPermissions, FromDependencies, FromPulls
  <1>1. CASE EndCheck("refused") /\ UNCHANGED witness
    BY <1>0, <1>1, CheckRefused
  <1>2. CASE Stable /\ EndCheck("ready") /\ UNCHANGED witness
    <2>1. /\ check' = [check EXCEPT !.stage = "ready"]
          /\ check.again[1] = check.document /\ check.again[3] = check.dependency
      BY <1>2 DEF EndCheck, Stable
    <2>2. /\ CheckTypes' /\ check'.stage = "ready" /\ check'.document = check.document
          /\ check'.events = check.events /\ check'.dependency = check.dependency
      BY <1>0, <2>1 DEF CheckTypes
    <2>3. Len(check.again) = 4 /\ check.again # <<>>
      <3>1. Len(check.again) = 4
        BY <1>0 DEF CheckTypes
      <3>2. Len(<<>>) = 0
        OBVIOUS
      <3> QED
        BY <3>1, <3>2
    <2>4. check.document.text \in witness.texts
      BY <1>0, <2>1, <2>3 DEF Justified, IssueMoved, DependencyMoved
    <2>5. AsRead' /\ Asked'
      BY <1>0, <1>2, <2>2, AllAsRead
    <2>6. Justified'
      BY <1>2, <2>2, <2>4 DEF Justified
    <2> QED
      BY <1>0, <1>2, <2>2, <2>5, <2>6, CheckStep
  <1>3. CASE /\ check' = FreshCheck(check.attempt + 1)
             /\ witness' = Moment(issue, dependency, pulls, writers)
    <2>1. CheckTypes' /\ check'.stage = "document"
      BY <1>3 DEF CheckTypes, FreshCheck
    <2>2. /\ witness'.texts = (IF Sound(issue, dependency, pulls) THEN {issue.text} ELSE {})
          /\ witness'.writers = writers
          /\ witness' = [texts |-> witness'.texts, writers |-> witness'.writers]
      BY <1>3 DEF Moment
    <2>3. RequestTypes'
      BY <1>0, <2>2 DEF RequestTypes, peopleVars
    <2>4. Remembered'
      BY <1>0, <2>2, Primed DEF Remembered, peopleVars
    <2>5. AsRead' /\ Asked' /\ Justified'
      BY <2>1 DEF AsRead, Asked, Justified
    <2> QED
      BY <2>1, <2>3, <2>4, <2>5 DEF RequestInv
  <1> QED
    BY <1>1, <1>2, <1>3 DEF Compare

LEMMA RequestInvNext == RequestInv /\ [RequestNext]_requestVars => RequestInv'
  <1> SUFFICES ASSUME RequestInv, [RequestNext]_requestVars PROVE RequestInv'
    OBVIOUS
  <1>1. CASE RequestNext
    BY <1>1, PeopleKeep, KeepReadDocument, KeepReadEvents, KeepDateLabels,
       KeepAskPermission, KeepReadDependencies, KeepReadPulls, KeepReadAgain, KeepCompare
       DEF RequestNext
  <1>2. CASE UNCHANGED requestVars
    <2>1. UNCHANGED <<peopleVars, witness, check>>
      BY <1>2 DEF requestVars, peopleVars
    <2>2. Appliers' = Appliers
              /\ Covered(check.events, issue.bodyEdited)' = Covered(check.events, issue.bodyEdited)
      BY <2>1, Primed DEF Appliers, peopleVars
    <2>3. CheckTypes' /\ Asked' /\ Justified'
      BY <2>1, <2>2 DEF RequestInv, CheckTypes, Asked, Justified, IssueMoved,
                        DependencyMoved, IssueStands, DependencyStands, peopleVars
    <2>4. AsRead'
      BY <2>1, <2>2 DEF RequestInv, AsRead, IssueStands, DependencyStands, Document, peopleVars
    <2> QED
      BY <2>1, <2>3, <2>4, CheckStep
  <1> QED
    BY <1>1, <1>2

\* A request called ready was ready at one moment of the attempt, though no two
\* answers were given together: the second reading bears out every first one.
THEOREM ReadyWasSound == RequestSpec => []ReadyAtOnce
  <1>1. RequestInv => ReadyAtOnce
    BY DEF RequestInv, Justified, Asked, Appliers, ReadyAtOnce, FromDependencies, FromPulls
  <1> QED
    BY <1>1, RequestInvInit, RequestInvNext, PTL DEF RequestSpec

-----------------------------------------------------------------------------
(* `onboard`: what a run makes of every file.                              *)

\* What the run leaves at a managed path, if it comes to it.
Goal(f) ==
    IF f \in Rendered(asked)
    THEN IF before[f] = None THEN Fresh(asked, f)
         ELSE CASE f = "guide" -> [before["guide"] EXCEPT !.text = Render(asked)]
                [] f = "settings" -> [before["settings"] EXCEPT !.forge = "managed", !.off = FALSE]
                [] OTHER -> Fresh(asked, f)
    ELSE IF forced /\ f \in ModeOwned THEN None ELSE before[f]

OnboardTypes ==
    /\ checkout = [f \in Managed |-> checkout[f]] /\ before = [f \in Managed |-> before[f]]
    /\ {checkout["guide"], before["guide"]} \subseteq Guide \cup {None}
    /\ {checkout["settings"], before["settings"]} \subseteq Settings \cup {None}
    /\ release \in Nat /\ asked \in Profile
    /\ outcome \in {"none", "writing", "done", "refused", "died"}

\* What the run refused to do it does not do.
Admitted ==
    /\ linked \cap Rendered(asked) = {}
    /\ forced => linked \cap ModeOwned = {}
    /\ ~forced => \A f \in Rendered(asked) : before[f] = None
    /\ before["settings"] # None => before["settings"].sound

OnboardInv ==
    /\ OnboardTypes
    /\ outcome \in {"writing", "done", "died"} =>
           /\ Admitted
           /\ \A f \in Managed : checkout[f] \in {before[f], Goal(f)}
    /\ outcome = "writing" =>
           /\ \A k \in DOMAIN plan : \E f \in Managed : plan[k] = [path |-> f, content |-> Goal(f)]
           /\ \A f \in Managed : checkout[f] = Goal(f) \/ \E k \in DOMAIN plan : plan[k].path = f
    /\ outcome = "done" => \A f \in Managed : checkout[f] = Goal(f)
    /\ outcome = "refused" => checkout = before

LEMMA OnboardInvInit == OnboardInit => OnboardInv
  BY DEF OnboardInit, OnboardInv, OnboardTypes, Managed

\* Everything a run may leave is of the kind its place holds.
LEMMA GoalTyped ==
    ASSUME OnboardTypes
    PROVE  /\ Goal("guide") \in Guide
           /\ Goal("settings") \in Settings
  <1>1. Render(asked) \in [release : Nat, profile : Profile]
    BY DEF OnboardTypes, Render
  <1>2. "guide" \in Rendered(asked) /\ "settings" \in Rendered(asked)
    BY DEF Rendered
  <1>3. Goal("guide") = IF before["guide"] = None THEN [notes |-> FALSE, text |-> Render(asked)]
                        ELSE [before["guide"] EXCEPT !.text = Render(asked)]
    BY <1>2 DEF Goal, Fresh
  <1>4. Goal("settings") = IF before["settings"] = None THEN FreshSettings
                           ELSE [before["settings"] EXCEPT !.forge = "managed", !.off = FALSE]
    BY <1>2 DEF Goal, Fresh
  <1>5. Goal("guide") \in Guide
    <2>1. ASSUME NEW g \in Guide, NEW t \in [release : Nat, profile : Profile]
          PROVE  [g EXCEPT !.text = t] \in Guide
      BY DEF Guide
    <2>2. [notes |-> FALSE, text |-> Render(asked)] \in Guide
      BY <1>1 DEF Guide
    <2> QED
      BY <1>1, <1>3, <2>1, <2>2 DEF OnboardTypes
  <1>6. Goal("settings") \in Settings
    <2>1. ASSUME NEW g \in Settings
          PROVE  [g EXCEPT !.forge = "managed", !.off = FALSE] \in Settings
      <3>1. [g EXCEPT !.forge = "managed"] \in Settings
        BY DEF Settings
      <3>2. \A h \in Settings : [h EXCEPT !.off = FALSE] \in Settings
        BY DEF Settings
      <3> QED
        BY <3>1, <3>2
    <2>2. FreshSettings \in Settings
      BY DEF FreshSettings, Settings
    <2> QED
      BY <1>4, <2>1, <2>2 DEF OnboardTypes
  <1> QED
    BY <1>5, <1>6

LEMMA OrderWhole ==
    /\ DOMAIN Order = 1 .. 7 /\ Len(Order) = 7
    /\ \A k \in 1 .. 7 : Order[k] \in Managed
    /\ \A f \in Managed : \E k \in 1 .. 7 : Order[k] = f
  <1>1. /\ Order[1] = "settings" /\ Order[2] = "policy" /\ Order[3] = "guide" /\ Order[4] = "ci"
        /\ Order[5] = "implement" /\ Order[6] = "routine" /\ Order[7] = "registry"
        /\ DOMAIN Order = 1 .. 7 /\ Len(Order) = 7
    BY DEF Order
  <1>2. \A k \in 1 .. 7 : k = 1 \/ k = 2 \/ k = 3 \/ k = 4 \/ k = 5 \/ k = 6 \/ k = 7
    OBVIOUS
  <1>3. \A k \in 1 .. 7 : Order[k] \in Managed
    BY <1>1, <1>2 DEF Managed
  <1>4. \A f \in Managed : \E k \in 1 .. 7 : Order[k] = f
    BY <1>1 DEF Managed
  <1> QED
    BY <1>1, <1>3, <1>4

\* Every merge is computed from what the run found, before its first write.
LEMMA KeepOnboard ==
    ASSUME OnboardInv, NEW p \in Profile, NEW force \in BOOLEAN, Onboard(p, force)
    PROVE  OnboardInv'
  <1>1. /\ OnboardTypes /\ UNCHANGED <<checkout, linked, release>>
        /\ asked' = p /\ forced' = force /\ before' = checkout
    BY DEF OnboardInv, Onboard
  <1>2. CASE outcome' = "refused"
    BY <1>1, <1>2 DEF OnboardInv, OnboardTypes
  <1>3. CASE outcome' # "refused"
    <2>1. ~Refused(p, force) /\ outcome' = "writing" /\ plan' = Planned(p, force)
      BY <1>3 DEF Onboard
    <2>2. OnboardTypes'
      BY <1>1, <2>1 DEF OnboardTypes
    <2>3. Rendered(asked)' = Rendered(p) /\ Rendered(p) \subseteq Managed
      BY <1>1 DEF Rendered, Managed
    <2>4. Admitted'
      BY <1>1, <2>1, <2>3 DEF Admitted, Refused, Existing, SettingsRefused, Rendered
    <2>5. ASSUME NEW f \in Rendered(p) PROVE Goal(f)' = Wanted(p, f)
      BY <1>1, <2>3 DEF Goal, Wanted, Existing, Fresh, MergedGuide, MergedSettings, Render
    <2>6. ASSUME NEW f \in Managed \ Rendered(p)
          PROVE  Goal(f)' = IF force /\ f \in ModeOwned THEN None ELSE checkout[f]
      BY <1>1, <2>3 DEF Goal
    <2> DEFINE writes == {k \in 1 .. 7 : Order[k] \in Rendered(p)}
               removals == {k \in 1 .. 7 : Order[k] \in Stale(p, force)}
    <2>7. plan' = [k \in writes \union {7 + j : j \in removals} |->
                      IF k \in 1 .. 7 THEN [path |-> Order[k], content |-> Wanted(p, Order[k])]
                      ELSE [path |-> Order[k - 7], content |-> None]]
      BY <2>1, OrderWhole DEF Planned
    <2>8. Stale(p, force) = {f \in ModeOwned \ Rendered(p) : force /\ checkout[f] # None}
      BY DEF Stale
    <2>9. ASSUME NEW k \in DOMAIN plan'
          PROVE  \E f \in Managed : plan'[k] = [path |-> f, content |-> Goal(f)']
      <3>1. CASE k \in writes
        <4>1. plan'[k] = [path |-> Order[k], content |-> Wanted(p, Order[k])] /\ Order[k] \in Rendered(p)
          BY <2>7, <3>1
        <4>2. PICK f \in Rendered(p) : f = Order[k]
          BY <4>1
        <4> QED
          BY <2>3, <2>5, <4>1, <4>2
      <3>2. CASE k \notin writes
        <4>1. PICK j \in removals : k = 7 + j
          BY <2>7, <3>2
        <4>2. plan'[k] = [path |-> Order[j], content |-> None]
          BY <2>7, <4>1
        <4>3. PICK f \in Managed \ Rendered(p) : f = Order[j] /\ force /\ f \in ModeOwned
          BY <2>8, OrderWhole
        <4> QED
          BY <2>6, <4>2, <4>3
      <3> QED
        BY <3>1, <3>2
    <2>10. ASSUME NEW f \in Managed
           PROVE  checkout[f] = Goal(f)' \/ \E k \in DOMAIN plan' : plan'[k].path = f
      <3>0. PICK j \in 1 .. 7 : Order[j] = f
        BY OrderWhole
      <3>1. CASE f \in Rendered(p)
        BY <2>7, <3>0, <3>1
      <3>2. CASE f \notin Rendered(p) /\ f \notin Stale(p, force)
        BY <2>6, <2>8, <3>2
      <3>3. CASE f \in Stale(p, force)
        <4>1. 7 + j \in DOMAIN plan' /\ plan'[7 + j].path = Order[7 + j - 7]
          BY <2>7, <3>0, <3>3
        <4> QED
          BY <3>0, <4>1
      <3> QED
        BY <3>1, <3>2, <3>3
    <2> QED
      BY <1>1, <2>1, <2>2, <2>4, <2>9, <2>10 DEF OnboardInv
  <1> QED
    BY <1>2, <1>3

\* A file is swapped in whole; the run is done with the last of them.
LEMMA KeepWriteFile ==
    ASSUME OnboardInv, WriteFile
    PROVE  OnboardInv'
  <1>1. /\ OnboardTypes /\ Admitted /\ outcome = "writing"
        /\ UNCHANGED <<linked, release, asked, forced, before>>
        /\ \A f \in Managed : checkout[f] \in {before[f], Goal(f)}
    BY DEF OnboardInv, WriteFile
  <1>2. PICK k \in DOMAIN plan :
            /\ checkout' = [checkout EXCEPT ![plan[k].path] = plan[k].content]
            /\ plan' = [j \in DOMAIN plan \ {k} |-> plan[j]]
            /\ outcome' = IF DOMAIN plan = {k} THEN "done" ELSE "writing"
    BY DEF WriteFile
  <1> DEFINE path == plan[k].path
  <1>3. path \in Managed /\ plan[k].content = Goal(path)
    BY <1>1 DEF OnboardInv
  <1>4. \A f : Goal(f)' = Goal(f)
    BY <1>1 DEF Goal, Rendered, Fresh, Render
  <1>5. Admitted'
    BY <1>1 DEF Admitted, Rendered
  <1>6. \A f \in Managed : checkout'[f] = IF f = path THEN Goal(f) ELSE checkout[f]
    BY <1>1, <1>2, <1>3 DEF OnboardTypes
  <1>7. OnboardTypes'
    <2>1. checkout' = [f \in Managed |-> checkout'[f]]
      BY <1>1, <1>2 DEF OnboardTypes
    <2>2. {checkout'["guide"]} \subseteq Guide \cup {None} /\ {checkout'["settings"]} \subseteq Settings \cup {None}
      BY <1>1, <1>6, GoalTyped DEF OnboardTypes, Managed
    <2> QED
      BY <1>1, <1>2, <2>1, <2>2 DEF OnboardTypes
  <1>8. \A f \in Managed : checkout'[f] \in {before'[f], Goal(f)'}
    BY <1>1, <1>4, <1>6
  <1>9. \A f \in Managed : checkout'[f] = Goal(f)' \/ \E j \in DOMAIN plan' : plan'[j].path = f
    <2> SUFFICES ASSUME NEW f \in Managed
                 PROVE  checkout'[f] = Goal(f)' \/ \E j \in DOMAIN plan' : plan'[j].path = f
      OBVIOUS
    <2>1. checkout[f] = Goal(f) \/ \E j \in DOMAIN plan : plan[j].path = f
      BY <1>1 DEF OnboardInv
    <2>2. CASE f = path \/ checkout[f] = Goal(f)
      BY <1>4, <1>6, <2>2
    <2>3. CASE f # path /\ checkout[f] # Goal(f)
      BY <1>2, <2>1, <2>3
    <2> QED
      BY <2>2, <2>3
  <1>10. outcome' = "writing" =>
            \A j \in DOMAIN plan' : \E f \in Managed : plan'[j] = [path |-> f, content |-> Goal(f)']
    BY <1>1, <1>2, <1>4 DEF OnboardInv
  <1>11. outcome' = "done" => \A f \in Managed : checkout'[f] = Goal(f)'
    BY <1>2, <1>9
  <1> QED
    BY <1>2, <1>5, <1>7, <1>8, <1>9, <1>10, <1>11 DEF OnboardInv

\* The owner's edits keep guide and settings readable as what they are.
LEMMA KeepOwner ==
    ASSUME OnboardInv,
           Annotate \/ EditGuide \/ EditSettings \/ Upgrade \/ \E f \in Managed : Replace(f) \/ Link(f)
    PROVE  OnboardInv'
  <1>1. OnboardTypes /\ outcome' = "none" /\ UNCHANGED <<asked, forced, before>>
    BY DEF OnboardInv, Annotate, EditGuide, EditSettings, Upgrade, Replace, Link, PutFile, Edits
  <1>2. SUFFICES OnboardTypes'
    BY <1>1 DEF OnboardInv
  <1>3. CASE Upgrade \/ \E f \in Managed : Link(f)
    BY <1>1, <1>3 DEF OnboardTypes, Upgrade, Link
  <1>4. ASSUME NEW f \in Managed, NEW content, PutFile(f, content),
               f = "guide" => content \in Guide \cup {None},
               f = "settings" => content \in Settings \cup {None}
        PROVE  OnboardTypes'
    <2>1. checkout' = [checkout EXCEPT ![f] = content] /\ UNCHANGED release
      BY <1>4 DEF PutFile
    <2>2. checkout' = [g \in Managed |-> checkout'[g]]
          /\ \A g \in Managed : checkout'[g] = IF g = f THEN content ELSE checkout[g]
      BY <1>1, <2>1 DEF OnboardTypes
    <2> QED
      BY <1>1, <1>4, <2>1, <2>2 DEF OnboardTypes, Managed
  <1>5. CASE Annotate
    <2>1. [notes |-> TRUE, text |-> None] \in Guide /\ \A g \in Guide : [g EXCEPT !.notes = TRUE] \in Guide
      BY DEF Guide
    <2> QED
      BY <1>1, <1>4, <1>5, <2>1 DEF Annotate, OnboardTypes, Managed
  <1>6. CASE EditGuide
    <2>1. \A g \in Guide : [g EXCEPT !.text = Edited] \in Guide
      BY DEF Guide
    <2> QED
      BY <1>1, <1>4, <1>6, <2>1 DEF EditGuide, OnboardTypes, Managed
  <1>7. CASE EditSettings
    <2>1. [FreshSettings EXCEPT !.forge = "none"] \in Settings
      BY DEF FreshSettings, Settings
    <2>2. PICK h \in Settings :
              \/ PutFile("settings", [h EXCEPT !.theirs = TRUE])
              \/ PutFile("settings", [h EXCEPT !.off = TRUE])
              \/ PutFile("settings", [h EXCEPT !.sound = FALSE])
              \/ \E g \in {"stale", "twice"} : PutFile("settings", [h EXCEPT !.forge = g])
      BY <1>1, <1>7, <2>1 DEF EditSettings, OnboardTypes
    <2>3. /\ [h EXCEPT !.theirs = TRUE] \in Settings /\ [h EXCEPT !.off = TRUE] \in Settings
          /\ [h EXCEPT !.sound = FALSE] \in Settings
          /\ \A g \in {"stale", "twice"} : [h EXCEPT !.forge = g] \in Settings
      BY DEF Settings
    <2> QED
      BY <1>4, <2>2, <2>3 DEF Managed
  <1>8. ASSUME NEW f \in Managed, Replace(f) PROVE OnboardTypes'
    BY <1>4, <1>8 DEF Replace, ModeOwned
  <1> QED
    BY <1>3, <1>5, <1>6, <1>7, <1>8

LEMMA OnboardInvNext == OnboardInv /\ [OnboardNext]_onboardVars => OnboardInv'
  <1> SUFFICES ASSUME OnboardInv, [OnboardNext]_onboardVars PROVE OnboardInv'
    OBVIOUS
  <1>1. CASE Interrupt
    <2>1. \A f : Goal(f)' = Goal(f)
      BY <1>1 DEF Interrupt, Goal, Rendered, Fresh, Render
    <2>2. OnboardTypes' /\ (Admitted => Admitted')
      BY <1>1 DEF OnboardInv, OnboardTypes, Admitted, Interrupt, Rendered
    <2> QED
      BY <1>1, <2>1, <2>2 DEF OnboardInv, Interrupt
  <1>2. CASE UNCHANGED onboardVars
    <2>1. \A f : Goal(f)' = Goal(f)
      BY <1>2 DEF onboardVars, Goal, Rendered, Fresh, Render
    <2>2. OnboardTypes' /\ (Admitted => Admitted')
      BY <1>2 DEF OnboardInv, OnboardTypes, Admitted, onboardVars, Rendered
    <2> QED
      BY <1>2, <2>1, <2>2 DEF OnboardInv, onboardVars
  <1> QED
    BY <1>1, <1>2, KeepOnboard, KeepWriteFile, KeepOwner DEF OnboardNext

\* Onboarding keeps what the owner wrote, touches nothing it refused to or may
\* not overwrite, and is done only where the checkout is what the profile
\* generates, however runs are cut short and owners edit (`write_onboarding`).
THEOREM OwnersKeepTheirs == OnboardSpec => []OnboardingKeeps
  <1>1. OnboardInv => OnboardingKeeps
    <2> SUFFICES ASSUME OnboardInv PROVE OnboardingKeeps
      OBVIOUS
    <2>1. OnboardTypes /\ Goal("guide") \in Guide /\ Goal("settings") \in Settings
      BY GoalTyped DEF OnboardInv
    <2>2. "guide" \in Rendered(asked) /\ "settings" \in Rendered(asked) /\ Rendered(asked) \subseteq Managed
      BY DEF Rendered, Managed
    <2>3. /\ before["guide"] # None => Goal("guide") = [before["guide"] EXCEPT !.text = Render(asked)]
          /\ before["settings"] # None =>
                 Goal("settings") = [before["settings"] EXCEPT !.forge = "managed", !.off = FALSE]
          /\ before["guide"] = None => Goal("guide") = [notes |-> FALSE, text |-> Render(asked)]
          /\ before["settings"] = None => Goal("settings") = FreshSettings
          /\ \A f \in Rendered(asked) \ {"guide", "settings"} : Goal(f) = Fresh(asked, f)
          /\ \A f \in Managed \ Rendered(asked) : Goal(f) = IF forced /\ f \in ModeOwned THEN None ELSE before[f]
      BY <2>2 DEF Goal, Fresh
    <2>4. ASSUME outcome \in {"writing", "done", "died"} PROVE Keeps(before, checkout)
      <3>1. /\ checkout["guide"] \in {before["guide"], Goal("guide")}
            /\ checkout["settings"] \in {before["settings"], Goal("settings")}
        BY <2>4 DEF OnboardInv, Managed
      <3>2. before["guide"] # None => Goal("guide").notes = before["guide"].notes
        BY <2>1, <2>3 DEF OnboardTypes, Guide
      <3>3. before["settings"] # None => Goal("settings").theirs = before["settings"].theirs
        BY <2>1, <2>3 DEF OnboardTypes, Settings
      <3> QED
        BY <2>1, <3>1, <3>2, <3>3, OnboardAssumption DEF Keeps
    <2>5. ASSUME outcome \in {"writing", "done", "died"},
                 NEW f \in Managed, checkout[f] # before[f]
          PROVE  f \notin linked /\ (forced \/ before[f] = None)
      BY <2>2, <2>3, <2>5 DEF OnboardInv, Admitted
    <2>6. ASSUME outcome = "done"
          PROVE  Installed(asked) /\ (forced => \A f \in ModeOwned \ Rendered(asked) : checkout[f] = None)
      <3>1. \A f \in Managed : checkout[f] = Goal(f)
        BY <2>6 DEF OnboardInv
      <3>2. checkout["guide"].text = Render(asked)
        BY <2>1, <2>2, <2>3, <3>1 DEF OnboardTypes, Guide
      <3>3. checkout["settings"].forge = "managed" /\ checkout["settings"].sound /\ ~checkout["settings"].off
        <4>1. before["settings"] # None => before["settings"].sound
          BY <2>6 DEF OnboardInv, Admitted
        <4>2. checkout["settings"] = Goal("settings")
          BY <2>2, <3>1
        <4>3. CASE before["settings"] = None
          BY <2>3, <4>2, <4>3 DEF FreshSettings
        <4>4. CASE before["settings"] # None
          <5> DEFINE was == before["settings"]
          <5>1. was \in Settings /\ was.sound /\ Goal("settings") = [was EXCEPT !.forge = "managed", !.off = FALSE]
            BY <2>1, <2>3, <4>1, <4>4 DEF OnboardTypes
          <5> HIDE DEF was
          <5>2. [was EXCEPT !.forge = "managed", !.off = FALSE].forge = "managed"
            BY <5>1 DEF Settings
          <5>3. [was EXCEPT !.forge = "managed", !.off = FALSE].off = FALSE
            BY <5>1 DEF Settings
          <5>4. [was EXCEPT !.forge = "managed", !.off = FALSE].sound = was.sound
            BY <5>1 DEF Settings
          <5> QED
            BY <4>2, <5>1, <5>2, <5>3, <5>4
        <4> QED
          BY <4>3, <4>4
      <3> QED
        BY <2>2, <2>3, <3>1, <3>2, <3>3 DEF Installed, ModeOwned, Managed
    <2> QED
      BY <2>4, <2>5, <2>6 DEF OnboardingKeeps, OnboardInv
  <1> QED
    BY <1>1, OnboardInvInit, OnboardInvNext, PTL DEF OnboardSpec

-----------------------------------------------------------------------------
(* The commit guard: every segment of a command is covered by what was     *)
(* found, whichever segments fail.                                         *)

\* Of a command: its branch changes, and what its reading makes of a segment.
Before(k) == 1 .. k - 1
Moves(s, k) == s[k].does \in Movers
CdsBefore(s, k) == {j \in Before(k) : s[j].does = "cd"}

TargetAt(s, k) == [cd |-> CdsBefore(s, k), in |-> s[k].in, branch |-> Nowhere, ref |-> Nowhere]

OwnAt(s, k) ==
    CASE s[k].does \in {"read", "cd"} -> {}
      [] s[k].does = "blind" -> {[TargetAt(s, k) EXCEPT !.ref = Unsure]}
      [] s[k].does = "push-all" -> {TargetAt(s, k), [TargetAt(s, k) EXCEPT !.ref = Unsure]}
      [] s[k].does \in {"push", "rename", "rebase"} ->
             {TargetAt(s, k), [TargetAt(s, k) EXCEPT !.ref = s[k].ref]}
      [] OTHER -> {TargetAt(s, k)}

\* Where a branch change that succeeds leaves HEAD, and whether the guard is sure of it.
Lands(s, m) == IF s[m].does = "detach" THEN Detached ELSE s[m].ref
Certain(s, refs, m) ==
    \/ s[m].does \in {"create", "detach"}
    \/ s[m].does = "switch" /\ s[m].ref \in refs

\* The branch change m as segment n finds it, once its own operator was read.
Left(s, refs, m, n) ==
    IF s[m].does = "bisect" THEN Unsure
    ELSE [location |-> TargetAt(s, m), branch |-> Lands(s, m),
          certain |-> Certain(s, refs, m) /\ \A j \in m + 1 .. n : s[j].op = "&&"]

Mover(s, k) == CHOOSE m \in Before(k) : Moves(s, m)

\* The change before segment k, joined up to segment n.
InEffect(s, refs, k, n) ==
    IF \E m \in Before(k) : Moves(s, m) THEN Left(s, refs, Mover(s, k), n) ELSE Nowhere

\* The targets of a segment, before and after what changed the branch.
Adds(s, refs, k) ==
    CASE s[k].does = "switch" /\ s[k].ref \in refs -> {}
      [] s[k].does = "create" -> OnBranch(OwnAt(s, k), s[k].ref)
      [] s[k].does \in {"switch", "rebase", "rename"} /\ ~(s[k].does = "switch" /\ s[k].ref \in refs) ->
             OwnAt(s, k) \cup OnBranch(OwnAt(s, k), s[k].ref)
      [] OTHER -> OwnAt(s, k)
Checked(s, refs, k) == Retarget(Adds(s, refs, k), InEffect(s, refs, k, k))

OneMover == \A i, j \in DOMAIN segments : Moves(segments, i) /\ Moves(segments, j) => i = j

GuardTypes ==
    /\ segments \in Seq(Segment)
    /\ existing \subseteq BranchName
    /\ head \in [Checkout -> BranchName \cup {Detached}]
    /\ cwd \in Checkout
    /\ status \in BOOLEAN
    /\ cursor \in Nat
    /\ verdict \in {"building", "reading", "admitted", "refused"}

\* While nothing ran, and while the guard reads.
Untouched == rewritten = {} /\ cwd = "here" /\ status = TRUE /\ (verdict = "building" => cursor = 1)

ReadSoFar ==
    /\ cursor \in 1 .. Len(segments) + 1
    /\ inside = CdsBefore(segments, cursor)
    /\ change = InEffect(segments, existing, cursor, cursor - 1)
    /\ \A k \in Before(cursor) : Checked(segments, existing, k) \subseteq found

\* The checkouts a target is looked up in, and the branch it names instead.
Probes(t) == IF t.in # Nowhere THEN {t.in} ELSE {"here"} \cup (IF t.cd # {} THEN {"there"} ELSE {})
Named(t) == IF t.ref # Nowhere THEN t.ref ELSE t.branch

\* What is still to run was asked about the branch a checkout is on, or the
\* command put the checkout there.
Cleared(c) ==
    \A k \in cursor .. Len(segments) : \A t \in Checked(segments, existing, k) :
        Named(t) = Nowhere /\ c \in Probes(t) => Admits(head[c])
Moved(m) == m \in Before(cursor) /\ Moves(segments, m) /\ segments[m].does # "bisect"
PutThere(c) == \E m \in Before(cursor) : Moved(m) /\ head[c] = Lands(segments, m)

\* A change followed by && alone, all of it successful and in one directory, happened.
Happened(m) ==
    /\ status = TRUE
    /\ \A j \in m + 1 .. cursor - 1 : segments[j].op = "&&" /\ segments[j].does # "cd"
    => head[Place(segments[m])] = Lands(segments, m)

Running ==
    /\ cursor \in 1 .. Len(segments) + 1
    /\ cwd = "there" => CdsBefore(segments, cursor) # {}
    /\ \A k \in DOMAIN segments : \A t \in Checked(segments, existing, k) :
           Named(t) # Nowhere => Admits(Named(t))
    /\ \A c \in Checkout : Cleared(c) \/ PutThere(c)
    /\ \A m \in Before(cursor) : Moved(m) => Happened(m)

GuardInv ==
    /\ GuardTypes
    /\ OneMover
    /\ \A b \in rewritten : b = Detached \/ Admits(b)
    /\ verdict \in {"building", "reading"} => Untouched
    /\ verdict = "building" => inside = {} /\ change = Nowhere /\ found = {}
    /\ verdict = "reading" => ReadSoFar
    /\ verdict = "admitted" => Running

LEMMA CommandLength ==
    ASSUME segments \in Seq(Segment)
    PROVE  /\ Len(segments) \in Nat /\ DOMAIN segments = 1 .. Len(segments)
           /\ \A k \in 1 .. Len(segments) : segments[k] \in Segment
OBVIOUS

LEMMA SegmentFields ==
    ASSUME NEW seg \in Segment
    PROVE  /\ seg.op \in {"&&", ";"}
           /\ seg.in \in {Nowhere, "there"}
           /\ seg.does \in {"push", "switch", "create", "rebase", "rename"} => seg.ref \in BranchName
           /\ seg.does \notin {"push", "switch", "create", "rebase", "rename"} => seg.ref = Nowhere
           /\ seg.does \in {"read", "cd", "push-all", "blind", "push"} => seg.in = Nowhere
           /\ seg.does \in Movers \cup {"read", "cd", "push-all", "blind", "push", "commit"}
BY DEF Segment, Movers

\* The one branch change before a segment is the one in effect there.
LEMMA EffectOfMover ==
    ASSUME OneMover, segments \in Seq(Segment),
           NEW k \in 1 .. Len(segments) + 1, NEW n, NEW m \in Before(k), Moves(segments, m)
    PROVE  InEffect(segments, existing, k, n) = Left(segments, existing, m, n)
<1>1. Mover(segments, k) \in Before(k) /\ Moves(segments, Mover(segments, k))
  BY DEF Mover
<1>2. \A j \in Before(k) : j \in DOMAIN segments
  BY DEF Before
<1>3. Mover(segments, k) = m
  BY <1>1, <1>2 DEF OneMover
<1> QED
  BY <1>3 DEF InEffect

LEMMA EffectOfNone ==
    ASSUME NEW k, NEW n, \A m \in Before(k) : ~Moves(segments, m)
    PROVE  InEffect(segments, existing, k, n) = Nowhere
BY DEF InEffect

\* A change that lands somewhere is a record.
LEMMA LeftIsChange ==
    ASSUME segments \in Seq(Segment), NEW m \in DOMAIN segments, Moves(segments, m),
           segments[m].does # "bisect", NEW n \in Nat
    PROVE  /\ Left(segments, existing, m, n) \in BranchChange
           /\ Left(segments, existing, m, n) # Nowhere
           /\ Left(segments, existing, m, n) # Unsure
           /\ Left(segments, existing, m, n) =
                 [location |-> TargetAt(segments, m), branch |-> Lands(segments, m),
                  certain |-> Certain(segments, existing, m) /\ \A j \in m + 1 .. n : segments[j].op = "&&"]
<1> DEFINE left == Left(segments, existing, m, n)
           sure == Certain(segments, existing, m) /\ \A j \in m + 1 .. n : segments[j].op = "&&"
<1>1. left = [location |-> TargetAt(segments, m), branch |-> Lands(segments, m), certain |-> sure]
  BY DEF Left
<1>2. segments[m] \in Segment
  OBVIOUS
<1>3. TargetAt(segments, m) \in [cd : SUBSET Nat, in : Checkout \cup {Nowhere}, branch : {Nowhere}, ref : {Nowhere}]
  <2>1. CdsBefore(segments, m) \subseteq Nat
    BY DEF CdsBefore, Before
  <2>2. segments[m].in \in Checkout \cup {Nowhere}
    BY <1>2, SegmentFields DEF Checkout
  <2> QED
    BY <2>1, <2>2 DEF TargetAt
<1>4. Lands(segments, m) \in BranchName \cup {Detached}
  BY <1>2, SegmentFields DEF Lands, Moves, Movers
<1>5. sure \in BOOLEAN
  OBVIOUS
<1>6. left \in BranchChange
  <2> HIDE DEF sure
  <2> QED
    BY <1>1, <1>3, <1>4, <1>5 DEF BranchChange
<1> QED
  BY <1>1, <1>6, GuardAssumption

\* What the guard carries into the segment it reads is the change in effect there.
LEMMA CarriedIsEffect ==
    ASSUME OneMover, segments \in Seq(Segment), cursor \in DOMAIN segments, ReadSoFar
    PROVE  Carried(segments[cursor]) = InEffect(segments, existing, cursor, cursor)
<1> DEFINE seg == segments[cursor]
<1>0. /\ Len(segments) \in Nat /\ DOMAIN segments = 1 .. Len(segments)
      /\ cursor \in Nat /\ cursor \in 1 .. Len(segments) + 1 /\ cursor >= 1 /\ cursor <= Len(segments)
      /\ seg \in Segment
  BY CommandLength
<1>1. CASE \A m \in Before(cursor) : ~Moves(segments, m)
  BY <1>1, EffectOfNone DEF Carried, ReadSoFar
<1>2. ASSUME NEW m \in Before(cursor), Moves(segments, m)
      PROVE  Carried(seg) = InEffect(segments, existing, cursor, cursor)
  <2>1. change = Left(segments, existing, m, cursor - 1)
    BY <1>0, <1>2, EffectOfMover DEF ReadSoFar
  <2>2. InEffect(segments, existing, cursor, cursor) = Left(segments, existing, m, cursor)
    BY <1>0, <1>2, EffectOfMover
  <2>3. CASE segments[m].does = "bisect"
    BY <2>1, <2>2, <2>3 DEF Left, Carried
  <2>4. CASE segments[m].does # "bisect"
    <3>1. m \in DOMAIN segments /\ m \in Nat /\ m < cursor
      BY <1>0 DEF Before
    <3>2. cursor - 1 \in Nat
      BY <1>0
    <3>3. /\ change \notin {Nowhere, Unsure}
          /\ change = [location |-> TargetAt(segments, m), branch |-> Lands(segments, m),
                       certain |-> Certain(segments, existing, m)
                                      /\ \A j \in m + 1 .. cursor - 1 : segments[j].op = "&&"]
      BY <1>2, <2>1, <2>4, <3>1, <3>2, LeftIsChange
    <3>4. Left(segments, existing, m, cursor) =
             [location |-> TargetAt(segments, m), branch |-> Lands(segments, m),
              certain |-> Certain(segments, existing, m)
                             /\ \A j \in m + 1 .. cursor : segments[j].op = "&&"]
      BY <2>4 DEF Left
    <3>5. CASE seg.op = "&&"
      <4>1. (\A j \in m + 1 .. cursor : segments[j].op = "&&")
               <=> (\A j \in m + 1 .. cursor - 1 : segments[j].op = "&&")
        BY <1>0, <3>1, <3>5
      <4> QED
        BY <2>2, <3>3, <3>4, <3>5, <4>1 DEF Carried
    <3>6. CASE seg.op # "&&"
      <4>1. ~\A j \in m + 1 .. cursor : segments[j].op = "&&"
        <5>1. cursor \in m + 1 .. cursor
          BY <1>0, <3>1
        <5> QED
          BY <3>6, <5>1
      <4>2. Carried(seg) = [location |-> TargetAt(segments, m), branch |-> Lands(segments, m), certain |-> FALSE]
        BY <3>3, <3>6 DEF Carried
      <4> QED
        BY <2>2, <3>4, <4>1, <4>2
    <3> QED
      BY <3>5, <3>6
  <2> QED
    BY <2>3, <2>4
<1> QED
  BY <1>1, <1>2

\* Reading a segment finds its targets and leaves its branch change in effect.
LEMMA ReadsSegment ==
    ASSUME OneMover, segments \in Seq(Segment), existing \subseteq BranchName,
           ReadSoFar, cursor \in DOMAIN segments, ReadSegment
    PROVE  /\ inside' = CdsBefore(segments, cursor + 1)
           /\ found' = found \cup Checked(segments, existing, cursor)
           /\ change' = InEffect(segments, existing, cursor + 1, cursor)
<1> DEFINE seg == segments[cursor]
           now == InEffect(segments, existing, cursor, cursor)
<1>0. /\ Len(segments) \in Nat /\ DOMAIN segments = 1 .. Len(segments)
      /\ cursor \in Nat /\ cursor \in 1 .. Len(segments) + 1 /\ cursor >= 1 /\ cursor <= Len(segments)
      /\ seg \in Segment
  BY CommandLength
<1>1. Carried(seg) = now
  BY CarriedIsEffect
<1>2. Before(cursor + 1) = Before(cursor) \cup {cursor} /\ cursor \notin Before(cursor)
  BY <1>0 DEF Before
<1>3. inside = CdsBefore(segments, cursor)
  BY DEF ReadSoFar
<1>4. inside' = CdsBefore(segments, cursor + 1)
  <2>1. inside' = IF seg.does = "cd" THEN inside \cup {cursor} ELSE inside
    BY DEF ReadSegment
  <2>2. CdsBefore(segments, cursor + 1)
          = CdsBefore(segments, cursor) \cup (IF seg.does = "cd" THEN {cursor} ELSE {})
    BY <1>2 DEF CdsBefore
  <2> QED
    BY <1>3, <2>1, <2>2
<1>5. Target(seg) = TargetAt(segments, cursor)
  BY <1>3 DEF Target, TargetAt
<1>6. OwnTargets(seg) = OwnAt(segments, cursor)
  BY <1>5 DEF OwnTargets, OwnAt
<1>7. found' = found \cup Checked(segments, existing, cursor)
  <2> DEFINE own == OwnAt(segments, cursor)
  <2> HIDE DEF now, own
  <2>1. Checked(segments, existing, cursor) = Retarget(Adds(segments, existing, cursor), now)
    BY DEF Checked, now
  <2>2. CASE seg.does = "switch" /\ seg.ref \in existing
    BY <1>1, <1>6, <2>1, <2>2 DEF ReadSegment, Adds, own
  <2>3. CASE seg.does = "switch" /\ seg.ref \notin existing
    BY <1>1, <1>6, <2>1, <2>3 DEF ReadSegment, Adds, own
  <2>4. CASE seg.does = "create"
    BY <1>1, <1>6, <2>1, <2>4 DEF ReadSegment, Adds, own
  <2>5. CASE seg.does \in {"rebase", "rename"}
    BY <1>1, <1>6, <2>1, <2>5 DEF ReadSegment, Adds, own
  <2>6. CASE seg.does \notin {"switch", "create", "rebase", "rename"}
    BY <1>1, <1>6, <2>1, <2>6 DEF ReadSegment, Adds, own
  <2> QED
    BY <2>2, <2>3, <2>4, <2>5, <2>6
<1>8. CASE Moves(segments, cursor)
  <2>1. now = Nowhere
    <3>1. \A m \in Before(cursor) : ~Moves(segments, m)
      BY <1>0, <1>8 DEF OneMover, Before
    <3> QED
      BY <3>1, EffectOfNone
  <2>2. Nowhere # Unsure
    BY GuardAssumption
  <2>3. InEffect(segments, existing, cursor + 1, cursor) = Left(segments, existing, cursor, cursor)
    <3>1. cursor + 1 \in 1 .. Len(segments) + 1 /\ cursor \in Before(cursor + 1)
      BY <1>0 DEF Before
    <3> QED
      BY <1>8, <3>1, EffectOfMover
  <2>4. \A b, certain : Changed(seg, b, certain)
                          = [location |-> TargetAt(segments, cursor), branch |-> b, certain |-> certain]
    BY <1>1, <1>5, <2>1, <2>2 DEF Changed
  <2>5. Left(segments, existing, cursor, cursor) =
          IF seg.does = "bisect" THEN Unsure
          ELSE [location |-> TargetAt(segments, cursor), branch |-> Lands(segments, cursor),
                certain |-> Certain(segments, existing, cursor)]
    <3>1. cursor + 1 .. cursor = {}
      BY <1>0
    <3>2. Certain(segments, existing, cursor) \in BOOLEAN
      BY DEF Certain
    <3> QED
      BY <3>1, <3>2 DEF Left
  <2>6. change' = Left(segments, existing, cursor, cursor)
    <3>1. CASE seg.does = "switch"
      BY <2>4, <2>5, <3>1 DEF ReadSegment, Lands, Certain
    <3>2. CASE seg.does = "create"
      BY <2>4, <2>5, <3>2 DEF ReadSegment, Lands, Certain
    <3>3. CASE seg.does = "detach"
      BY <2>4, <2>5, <3>3 DEF ReadSegment, Lands, Certain
    <3>4. CASE seg.does \in {"rebase", "rename"}
      BY <2>4, <2>5, <3>4 DEF ReadSegment, Lands, Certain
    <3>5. CASE seg.does = "bisect"
      BY <2>5, <3>5 DEF ReadSegment
    <3> QED
      BY <1>8, <3>1, <3>2, <3>3, <3>4, <3>5 DEF Moves, Movers
  <2> QED
    BY <1>4, <1>7, <2>3, <2>6
<1>9. CASE ~Moves(segments, cursor)
  <2>1. change' = now
    BY <1>1, <1>9 DEF ReadSegment, Moves, Movers
  <2>2. InEffect(segments, existing, cursor + 1, cursor) = now
    <3>1. CASE \A m \in Before(cursor) : ~Moves(segments, m)
      BY <1>2, <1>9, <3>1, EffectOfNone
    <3>2. ASSUME NEW m \in Before(cursor), Moves(segments, m)
          PROVE  InEffect(segments, existing, cursor + 1, cursor) = now
      <4>1. cursor + 1 \in 1 .. Len(segments) + 1 /\ m \in Before(cursor + 1)
        BY <1>0, <1>2
      <4>2. InEffect(segments, existing, cursor + 1, cursor) = Left(segments, existing, m, cursor)
        BY <3>2, <4>1, EffectOfMover
      <4>3. now = Left(segments, existing, m, cursor)
        BY <1>0, <3>2, EffectOfMover
      <4> QED
        BY <4>2, <4>3
    <3> QED
      BY <3>1, <3>2
  <2> QED
    BY <1>4, <1>7, <2>1, <2>2
<1> QED
  BY <1>8, <1>9

\* What is checked of a segment: its targets alone before any branch change, and
\* on the branch the change leaves after it.
LEMMA CheckedPlain ==
    ASSUME NEW k, \A m \in Before(k) : ~Moves(segments, m)
    PROVE  Checked(segments, existing, k) = Adds(segments, existing, k)
BY EffectOfNone, GuardAssumption DEF Checked, Retarget

LEMMA CheckedUnsure ==
    ASSUME OneMover, segments \in Seq(Segment), NEW k \in DOMAIN segments,
           NEW m \in Before(k), Moves(segments, m), segments[m].does = "bisect"
    PROVE  Checked(segments, existing, k) = OnBranch(Adds(segments, existing, k), Unsure)
<1>1. k \in 1 .. Len(segments) + 1
  BY CommandLength
<1>2. InEffect(segments, existing, k, k) = Unsure
  BY <1>1, EffectOfMover DEF Left
<1> QED
  BY <1>2, GuardAssumption DEF Checked, Retarget

LEMMA CheckedMoved ==
    ASSUME OneMover, segments \in Seq(Segment), NEW k \in DOMAIN segments,
           NEW m \in Before(k), Moves(segments, m), segments[m].does # "bisect"
    PROVE  /\ OnBranch(Adds(segments, existing, k), Lands(segments, m)) \subseteq Checked(segments, existing, k)
           /\ \A t \in Adds(segments, existing, k) :
                 \/ t \in Checked(segments, existing, k)
                 \/ /\ t = TargetAt(segments, m)
                    /\ \A j \in m + 1 .. k : segments[j].op = "&&"
<1>1. k \in 1 .. Len(segments) + 1 /\ m \in DOMAIN segments /\ k \in Nat
  <2>1. Len(segments) \in Nat /\ DOMAIN segments = 1 .. Len(segments)
    BY CommandLength
  <2> QED
    BY <2>1 DEF Before
<1> DEFINE now == Left(segments, existing, m, k)
<1>2. InEffect(segments, existing, k, k) = now
  BY <1>1, EffectOfMover
<1>3. /\ now # Nowhere /\ now # Unsure
      /\ now = [location |-> TargetAt(segments, m), branch |-> Lands(segments, m),
                certain |-> Certain(segments, existing, m) /\ \A j \in m + 1 .. k : segments[j].op = "&&"]
  BY <1>1, LeftIsChange
<1>4. Checked(segments, existing, k) =
        (IF now.certain THEN Adds(segments, existing, k) \ {now.location} ELSE Adds(segments, existing, k))
           \cup OnBranch(Adds(segments, existing, k), now.branch)
  <2> HIDE DEF now
  <2> QED
    BY <1>2, <1>3 DEF Checked, Retarget
<1>5. /\ now.location = TargetAt(segments, m) /\ now.branch = Lands(segments, m)
      /\ now.certain => \A j \in m + 1 .. k : segments[j].op = "&&"
  <2> HIDE DEF now
  <2> QED
    BY <1>3
<1> HIDE DEF now
<1> QED
  BY <1>4, <1>5

\* The targets of a segment are records of four fields.
AnyTarget ==
    [cd : SUBSET Nat, in : {Nowhere, "there"},
     branch : BranchName \cup {Nowhere}, ref : BranchName \cup {Nowhere, Unsure}]

LEMMA AddsTargets ==
    ASSUME segments \in Seq(Segment), NEW k \in DOMAIN segments
    PROVE  /\ TargetAt(segments, k) \in AnyTarget
           /\ Adds(segments, existing, k) \subseteq AnyTarget
<1>1. segments[k] \in Segment
  BY CommandLength
<1>2. CdsBefore(segments, k) \subseteq Nat
  BY DEF CdsBefore, Before
<1>3. TargetAt(segments, k) \in AnyTarget
  BY <1>1, <1>2, SegmentFields DEF TargetAt, AnyTarget
<1>4. \A r \in BranchName \cup {Unsure} : [TargetAt(segments, k) EXCEPT !.ref = r] \in AnyTarget
  BY <1>3 DEF AnyTarget
<1>5. OwnAt(segments, k) \subseteq AnyTarget
  <2>1. segments[k].does \in {"push", "rename", "rebase"} => segments[k].ref \in BranchName
    BY <1>1, SegmentFields
  <2> QED
    BY <1>3, <1>4, <2>1 DEF OwnAt
<1>6. ASSUME segments[k].ref \in BranchName
      PROVE  OnBranch(OwnAt(segments, k), segments[k].ref) \subseteq AnyTarget
  <2>1. \A t \in AnyTarget : [t EXCEPT !.branch = segments[k].ref] \in AnyTarget
    BY <1>6 DEF AnyTarget
  <2> QED
    BY <1>5, <2>1 DEF OnBranch
<1>7. segments[k].does \in {"switch", "create", "rebase", "rename"} => segments[k].ref \in BranchName
  BY <1>1, SegmentFields
<1> QED
  BY <1>3, <1>5, <1>6, <1>7 DEF Adds

LEMMA OnBranchFields ==
    ASSUME NEW S \in SUBSET AnyTarget, NEW b
    PROVE  /\ \A t \in S : \E u \in OnBranch(S, b) : u.branch = b /\ u.ref = t.ref /\ u.in = t.in /\ u.cd = t.cd
           /\ \A u \in OnBranch(S, b) : u.branch = b
<1>1. \A t \in AnyTarget : LET u == [t EXCEPT !.branch = b]
                           IN u.branch = b /\ u.ref = t.ref /\ u.in = t.in /\ u.cd = t.cd
  BY DEF AnyTarget
<1> QED
  BY <1>1 DEF OnBranch

\* No mark of ignorance is admitted.
LEMMA UnsureRefused == ~Admits(Unsure)
BY DEF Admits

LEMMA DetachedAdmitted == Admits(Detached)
BY GuardAssumption DEF Admits

\* A ref an admitted command names is one this session may change.
LEMMA RefAnswered ==
    ASSUME OneMover, segments \in Seq(Segment), Running, NEW k \in DOMAIN segments,
           NEW t \in Adds(segments, existing, k), t.ref # Nowhere
    PROVE  Admits(t.ref)
<1> DEFINE adds == Adds(segments, existing, k)
<1>1. adds \in SUBSET AnyTarget
  BY AddsTargets
<1>2. SUFFICES \E u \in Checked(segments, existing, k) : u.ref = t.ref
  BY DEF Running, Named
<1>3. CASE \A m \in Before(k) : ~Moves(segments, m)
  BY <1>3, CheckedPlain
<1>4. ASSUME NEW m \in Before(k), Moves(segments, m)
      PROVE  \E u \in Checked(segments, existing, k) : u.ref = t.ref
  <2>1. CASE segments[m].does = "bisect"
    BY <1>1, <1>4, <2>1, CheckedUnsure, OnBranchFields
  <2>2. CASE segments[m].does # "bisect"
    BY <1>1, <1>4, <2>2, CheckedMoved, OnBranchFields
  <2> QED
    BY <2>1, <2>2
<1> QED
  BY <1>3, <1>4

\* The branch a commit lands on, or a rename takes away, was answered for: HEAD
\* where the segment runs is as the guard saw it, or as the command put it.
LEMMA HeadAnswered ==
    ASSUME GuardTypes, OneMover, Running, cursor \in DOMAIN segments,
           TargetAt(segments, cursor) \in Adds(segments, existing, cursor),
           segments[cursor].op # "&&" \/ status = TRUE
    PROVE  Admits(head[Place(segments[cursor])])
<1> DEFINE seg == segments[cursor]
           own == TargetAt(segments, cursor)
           p == Place(seg)
<1>0. /\ segments \in Seq(Segment)
      /\ Len(segments) \in Nat /\ DOMAIN segments = 1 .. Len(segments)
      /\ cursor \in Nat /\ cursor >= 1 /\ cursor <= Len(segments) /\ cursor \in cursor .. Len(segments)
      /\ seg \in Segment
  BY CommandLength DEF GuardTypes
<1>1. own.in = seg.in /\ own.cd = CdsBefore(segments, cursor) /\ own.ref = Nowhere /\ own.branch = Nowhere
  BY DEF TargetAt
<1>2. p \in Checkout /\ p \in Probes(own)
  <2>1. cwd \in {"here", "there"} /\ (cwd = "there" => own.cd # {})
    BY <1>1 DEF GuardTypes, Checkout, Running
  <2>2. seg.in \in {Nowhere, "there"}
    BY <1>0, SegmentFields
  <2> HIDE DEF seg, own
  <2>3. p \in Checkout
    BY <2>1, <2>2 DEF Place, Checkout
  <2>4. CASE seg.in # Nowhere
    BY <1>1, <2>3, <2>4 DEF Place, Probes
  <2>5. CASE seg.in = Nowhere
    BY <1>1, <2>1, <2>3, <2>5 DEF Place, Probes
  <2> QED
    BY <2>3, <2>4, <2>5
<1>3. Named(own) = Nowhere
  BY <1>1 DEF Named
<1>4. own \in Checked(segments, existing, cursor) /\ Cleared(p) => Admits(head[p])
  BY <1>0, <1>2, <1>3 DEF Cleared
<1>5. Cleared(p) \/ PutThere(p)
  BY <1>2 DEF Running
<1>6. CASE \A m \in Before(cursor) : ~Moves(segments, m)
  <2>1. ~PutThere(p)
    BY <1>6 DEF PutThere, Moved
  <2>2. own \in Checked(segments, existing, cursor)
    BY <1>6, CheckedPlain
  <2> QED
    BY <1>4, <1>5, <2>1, <2>2
<1>7. ASSUME NEW m \in Before(cursor), Moves(segments, m)
      PROVE  Admits(head[p])
  <2>0. m \in DOMAIN segments /\ m \in Nat /\ m < cursor /\ m >= 1 /\ segments[m] \in Segment
    BY <1>0, CommandLength DEF Before
  <2>1. Adds(segments, existing, cursor) \in SUBSET AnyTarget
    BY <1>0, AddsTargets
  <2>2. CASE segments[m].does = "bisect"
    <3>1. \E u \in Checked(segments, existing, cursor) : u.branch = Unsure /\ u.ref = Nowhere
      BY <1>0, <1>1, <1>7, <2>1, <2>2, CheckedUnsure, OnBranchFields
    <3>2. Admits(Unsure)
      BY <3>1, GuardAssumption DEF Running, Named
    <3> QED
      BY <3>2, UnsureRefused
  <2>3. CASE segments[m].does # "bisect"
    <3>1. Lands(segments, m) # Nowhere
      BY <1>7, <2>0, <2>3, SegmentFields, GuardAssumption DEF Lands, Moves, Movers
    <3>2. \E u \in Checked(segments, existing, cursor) : u.branch = Lands(segments, m) /\ u.ref = Nowhere
      BY <1>0, <1>1, <1>7, <2>1, <2>3, CheckedMoved, OnBranchFields
    <3>3. Admits(Lands(segments, m))
      BY <3>1, <3>2 DEF Running, Named
    <3>4. PutThere(p) => Admits(head[p])
      <4>1. ASSUME NEW n \in Before(cursor), Moved(n) PROVE n = m
        BY <1>0, <1>7, <2>0, <4>1 DEF OneMover, Moved, Before
      <4> QED
        BY <3>3, <4>1 DEF PutThere
    <3>5. CASE own \in Checked(segments, existing, cursor)
      BY <1>4, <1>5, <3>4, <3>5
    <3>6. CASE own \notin Checked(segments, existing, cursor)
      <4>1. own = TargetAt(segments, m) /\ \A j \in m + 1 .. cursor : segments[j].op = "&&"
        BY <1>0, <1>7, <2>3, <3>6, CheckedMoved
      <4>2. seg.in = segments[m].in /\ CdsBefore(segments, cursor) = CdsBefore(segments, m)
        BY <1>1, <4>1 DEF TargetAt
      <4>3. \A j \in m + 1 .. cursor - 1 : segments[j].op = "&&" /\ segments[j].does # "cd"
        <5>1. ASSUME NEW j \in m + 1 .. cursor - 1
              PROVE  j \in Before(cursor) /\ j \notin Before(m) /\ j \in m + 1 .. cursor
          BY <1>0, <2>0 DEF Before
        <5> QED
          BY <4>1, <4>2, <5>1 DEF CdsBefore
      <4>4. status = TRUE
        <5>1. cursor \in m + 1 .. cursor
          BY <1>0, <2>0
        <5> QED
          BY <4>1, <5>1
      <4>5. Moved(m)
        BY <1>7, <2>3 DEF Moved
      <4>6. head[Place(segments[m])] = Lands(segments, m)
        BY <4>3, <4>4, <4>5 DEF Running, Happened
      <4>7. Place(segments[m]) = p
        BY <4>2 DEF Place
      <4> QED
        BY <3>3, <4>6, <4>7
    <3> QED
      BY <3>5, <3>6
  <2> QED
    BY <2>2, <2>3
<1> QED
  BY <1>6, <1>7

\* What a segment that runs rewrites was answered for.
LEMMA RewritesAnswered ==
    ASSUME GuardTypes, OneMover, Running, cursor \in DOMAIN segments,
           segments[cursor].op # "&&" \/ status = TRUE, Works(segments[cursor]),
           NEW b \in rewritten' \ rewritten
    PROVE  Admits(b)
<1> DEFINE seg == segments[cursor]
           own == TargetAt(segments, cursor)
<1>0. /\ segments \in Seq(Segment)
      /\ seg \in Segment
  BY CommandLength DEF GuardTypes
<1>1. own \in AnyTarget /\ Adds(segments, existing, cursor) \in SUBSET AnyTarget
  BY <1>0, AddsTargets
<1>2. Nowhere # Unsure /\ Nowhere \notin BranchName
  BY GuardAssumption
<1>3. ASSUME NEW r \in BranchName \cup {Unsure}, [own EXCEPT !.ref = r] \in Adds(segments, existing, cursor)
      PROVE  Admits(r)
  <2>1. [own EXCEPT !.ref = r].ref = r /\ r # Nowhere
    BY <1>1, <1>2 DEF AnyTarget
  <2> QED
    BY <1>0, <1>3, <2>1, RefAnswered
<1>4. CASE seg.does = "commit"
  <2>1. own \in Adds(segments, existing, cursor)
    BY <1>4 DEF Adds, OwnAt
  <2>2. b = head[Place(seg)]
    BY <1>4 DEF Works
  <2> QED
    BY <2>1, <2>2, HeadAnswered
<1>5. CASE seg.does = "push"
  <2>1. b = seg.ref /\ seg.ref \in BranchName
    BY <1>0, <1>5, SegmentFields DEF Works
  <2>2. [own EXCEPT !.ref = seg.ref] \in Adds(segments, existing, cursor)
    BY <1>5 DEF Adds, OwnAt
  <2> QED
    BY <1>3, <2>1, <2>2
<1>6. CASE seg.does \in {"push-all", "blind"}
  <2>1. [own EXCEPT !.ref = Unsure] \in Adds(segments, existing, cursor)
    BY <1>6 DEF Adds, OwnAt
  <2> QED
    BY <1>3, <2>1, UnsureRefused
<1>7. CASE seg.does = "create"
  <2>0. rewritten' = rewritten \cup {seg.ref}
    BY <1>7 DEF Works
  <2>1. b = seg.ref /\ seg.ref \in BranchName
    BY <1>0, <1>7, <2>0, SegmentFields
  <2>2. [own EXCEPT !.branch = seg.ref] \in Adds(segments, existing, cursor)
    BY <1>7 DEF Adds, OwnAt, OnBranch
  <2>3. Len(segments) \in Nat /\ DOMAIN segments = 1 .. Len(segments)
    BY <1>0, CommandLength
  <2>4. \A m \in Before(cursor) : ~Moves(segments, m)
    BY <1>7, <2>3 DEF OneMover, Before, Moves, Movers
  <2>5. [own EXCEPT !.branch = seg.ref] \in Checked(segments, existing, cursor)
    BY <2>2, <2>4, CheckedPlain
  <2>6. Named([own EXCEPT !.branch = seg.ref]) = seg.ref
    BY DEF Named, TargetAt
  <2> QED
    BY <1>2, <2>1, <2>5, <2>6 DEF Running
<1>8. CASE seg.does = "rebase"
  <2>0. rewritten' = rewritten \cup {seg.ref}
    BY <1>8 DEF Works
  <2>1. b = seg.ref /\ seg.ref \in BranchName
    BY <1>0, <1>8, <2>0, SegmentFields
  <2>2. [own EXCEPT !.ref = seg.ref] \in Adds(segments, existing, cursor)
    BY <1>8 DEF Adds, OwnAt
  <2> QED
    BY <1>3, <2>1, <2>2
<1>9. CASE seg.does = "rename"
  <2>1. (b = seg.ref \/ b = head[Place(seg)]) /\ seg.ref \in BranchName
    BY <1>0, <1>9, SegmentFields DEF Works
  <2>2. {own, [own EXCEPT !.ref = seg.ref]} \subseteq Adds(segments, existing, cursor)
    BY <1>9 DEF Adds, OwnAt
  <2> QED
    BY <1>3, <2>1, <2>2, HeadAnswered
<1>10. CASE seg.does \in {"read", "cd", "switch", "detach", "bisect"}
  BY <1>10 DEF Works
<1> QED
  BY <1>0, <1>4, <1>5, <1>6, <1>7, <1>8, <1>9, <1>10, SegmentFields DEF Movers

\* What a segment that runs does to the heads and to the shell's directory.
LEMMA WorksOn ==
    ASSUME GuardTypes, NEW seg \in Segment, Works(seg)
    PROVE  /\ seg.does \notin Movers => head' = head
           /\ seg.does # "cd" => cwd' = cwd
           /\ seg.does = "cd" => cwd' = "there"
           /\ \A c \in Checkout \ {Place(seg)} : head'[c] = head[c]
           /\ head' \in [Checkout -> BranchName \cup {Detached}]
           /\ cwd' \in Checkout
           /\ seg.does \in Movers \ {"bisect"} =>
                 head'[Place(seg)] = IF seg.does = "detach" THEN Detached ELSE seg.ref
<1> DEFINE p == Place(seg)
<1>1. p \in Checkout
  BY SegmentFields DEF Place, Checkout, GuardTypes
<1>2. head \in [Checkout -> BranchName \cup {Detached}] /\ cwd \in Checkout
  BY DEF GuardTypes
<1>3. seg.does \in Movers \cup {"read", "cd", "push-all", "blind", "push", "commit"}
  BY SegmentFields
<1>4. seg.does \in {"switch", "create", "rebase", "rename"} => seg.ref \in BranchName
  BY SegmentFields
<1> HIDE DEF p
<1>5. ASSUME NEW v \in BranchName \cup {Detached}, head' = [head EXCEPT ![p] = v]
      PROVE  /\ \A c \in Checkout \ {p} : head'[c] = head[c]
             /\ head' \in [Checkout -> BranchName \cup {Detached}]
             /\ head'[p] = v
  BY <1>1, <1>2, <1>5
<1>6. CASE seg.does \in {"read", "push-all", "blind", "push", "commit"}
  BY <1>2, <1>6 DEF Works, Movers
<1>7. CASE seg.does = "cd"
  BY <1>2, <1>7 DEF Works, Movers, Checkout
<1>8. CASE seg.does \in {"switch", "create", "rebase", "rename"}
  <2>1. head' = [head EXCEPT ![p] = seg.ref] /\ cwd' = cwd
    BY <1>8 DEF Works, p
  <2> QED
    BY <1>2, <1>4, <1>5, <1>8, <2>1 DEF p, Movers
<1>9. CASE seg.does = "detach"
  <2>1. head' = [head EXCEPT ![p] = Detached] /\ cwd' = cwd
    BY <1>9 DEF Works, p
  <2> QED
    BY <1>2, <1>5, <1>9, <2>1 DEF p, Movers
<1>10. CASE seg.does = "bisect"
  <2>1. PICK v \in BranchName : head' = [head EXCEPT ![p] = v] /\ cwd' = cwd
    BY <1>10 DEF Works, p
  <2> QED
    BY <1>2, <1>5, <1>10, <2>1 DEF p, Movers
<1> QED
  BY <1>3, <1>6, <1>7, <1>8, <1>9, <1>10 DEF Movers

\* The answers stand while the setting does.
LEMMA AnswersStand ==
    ASSUME UNCHANGED setting, NEW b
    PROVE  Admits(b)' <=> Admits(b)
BY DEF setting, Admits, LeaseOf, ProposedFrom

\* Running a segment keeps what is said of the command while it runs.
LEMMA RunsSegment ==
    ASSUME GuardTypes, OneMover, Running, RunSegment
    PROVE  /\ Running'
           /\ \A b \in rewritten' \ rewritten : Admits(b)
           /\ head' \in [Checkout -> BranchName \cup {Detached}]
           /\ cwd' \in Checkout /\ status' \in BOOLEAN /\ cursor' \in Nat
<1> DEFINE seg == segments[cursor]
           p == Place(seg)
           ran == (seg.op # "&&" \/ status = TRUE) /\ Works(seg) /\ status' = TRUE
           idle == head' = head /\ cwd' = cwd /\ rewritten' = rewritten /\ status' = FALSE
<1>0. /\ segments \in Seq(Segment)
      /\ Len(segments) \in Nat /\ DOMAIN segments = 1 .. Len(segments)
      /\ cursor \in Nat /\ cursor >= 1 /\ cursor <= Len(segments) /\ cursor \in DOMAIN segments
      /\ seg \in Segment
  <2>1. segments \in Seq(Segment) /\ Len(segments) \in Nat /\ DOMAIN segments = 1 .. Len(segments)
    BY CommandLength DEF GuardTypes
  <2>2. cursor \in Nat /\ cursor >= 1 /\ cursor <= Len(segments)
    BY <2>1 DEF GuardTypes, Running, RunSegment
  <2> QED
    BY <2>1, <2>2, CommandLength
<1>1. UNCHANGED <<segments, existing, setting>> /\ cursor' = cursor + 1
  BY DEF RunSegment, setting
<1>2. ran \/ idle
  BY DEF RunSegment, GuardTypes
<1> HIDE DEF ran, idle
<1>3. ran => /\ seg.does \notin Movers => head' = head
             /\ seg.does # "cd" => cwd' = cwd
             /\ seg.does = "cd" => cwd' = "there"
             /\ \A c \in Checkout \ {p} : head'[c] = head[c]
             /\ head' \in [Checkout -> BranchName \cup {Detached}]
             /\ cwd' \in Checkout
             /\ seg.does \in Movers \ {"bisect"} => head'[p] = Lands(segments, cursor)
  BY <1>0, WorksOn DEF ran, Lands
<1>4. /\ head' \in [Checkout -> BranchName \cup {Detached}]
      /\ cwd' \in Checkout /\ status' \in BOOLEAN /\ cursor' \in Nat
  <2>1. CASE ran
    BY <1>0, <1>1, <1>3, <2>1 DEF ran
  <2>2. CASE idle
    <3>1. head' = head /\ cwd' = cwd /\ status' = FALSE
      BY <2>2 DEF idle
    <3>2. cursor' \in Nat
      BY <1>0, <1>1
    <3> QED
      BY <3>1, <3>2 DEF GuardTypes
  <2> QED
    BY <1>2, <2>1, <2>2
<1>5. \A b \in rewritten' \ rewritten : Admits(b)
  BY <1>0, <1>2, RewritesAnswered DEF ran, idle
<1>6. Before(cursor') = Before(cursor) \cup {cursor}
  BY <1>0, <1>1 DEF Before
<1>7. cursor' \in 1 .. Len(segments') + 1
  BY <1>0, <1>1
<1>8. cwd' = "there" => CdsBefore(segments', cursor') # {}
  <2>1. CdsBefore(segments, cursor) \subseteq CdsBefore(segments, cursor')
    BY <1>6 DEF CdsBefore
  <2>2. seg.does = "cd" => cursor \in CdsBefore(segments, cursor')
    BY <1>6 DEF CdsBefore
  <2>3. cwd' = cwd \/ seg.does = "cd"
    BY <1>2, <1>3 DEF idle
  <2> QED
    BY <1>1, <2>1, <2>2, <2>3 DEF Running
<1>9. \A k \in DOMAIN segments' : \A t \in Checked(segments', existing', k) :
          Named(t) # Nowhere => Admits(Named(t))'
  BY <1>1, AnswersStand DEF Running
<1>10. ASSUME NEW c \in Checkout PROVE Cleared(c)' \/ PutThere(c)'
  <2>1. CASE head'[c] = head[c]
    <3>1. CASE Cleared(c)
      <4>1. \A k \in cursor' .. Len(segments') : k \in cursor .. Len(segments)
        BY <1>0, <1>1
      <4> QED
        BY <1>1, <2>1, <3>1, <4>1, AnswersStand DEF Cleared
    <3>2. CASE PutThere(c)
      BY <1>1, <1>6, <2>1, <3>2 DEF PutThere, Moved
    <3> QED
      BY <3>1, <3>2 DEF Running
  <2>2. CASE head'[c] # head[c]
    <3>1. ran /\ seg.does \in Movers /\ c = p
      BY <1>2, <1>3, <2>2 DEF idle
    <3>2. CASE seg.does # "bisect"
      <4>1. head'[c] = Lands(segments, cursor)
        BY <1>3, <3>1, <3>2
      <4> QED
        BY <1>1, <1>6, <3>1, <3>2, <4>1 DEF PutThere, Moved, Moves
    <3>3. CASE seg.does = "bisect"
      <4>1. ASSUME NEW k \in cursor' .. Len(segments), NEW t \in Checked(segments, existing, k)
            PROVE  Named(t) # Nowhere
        <5>1. k \in DOMAIN segments /\ cursor \in Before(k)
          BY <1>0, <1>1 DEF Before
        <5>2. Adds(segments, existing, k) \in SUBSET AnyTarget
          BY <1>0, <5>1, AddsTargets
        <5>3. t.branch = Unsure
          BY <1>0, <3>1, <3>3, <5>1, <5>2, CheckedUnsure, OnBranchFields DEF Moves
        <5> QED
          BY <5>3, GuardAssumption DEF Named
      <4> QED
        BY <1>1, <4>1 DEF Cleared
    <3> QED
      BY <3>2, <3>3
  <2> QED
    BY <2>1, <2>2
<1>11. ASSUME NEW m \in Before(cursor'), Moved(m)' PROVE Happened(m)'
  <2>0. Moves(segments, m) /\ segments[m].does # "bisect"
    BY <1>1, <1>11 DEF Moved
  <2>1. SUFFICES ASSUME status' = TRUE,
                        \A j \in m + 1 .. cursor : segments[j].op = "&&" /\ segments[j].does # "cd"
                 PROVE  head'[Place(segments[m])'] = Lands(segments, m)
    <3>1. cursor' - 1 = cursor
      BY <1>0, <1>1
    <3> QED
      BY <1>1, <3>1 DEF Happened
  <2>2. ran
    BY <1>2, <2>1 DEF idle
  <2>3. CASE m = cursor
    <3>1. seg.does \in Movers \ {"bisect"} /\ seg.does # "cd"
      BY <2>0, <2>3 DEF Moves, Movers
    <3>2. cwd' = cwd /\ head'[p] = Lands(segments, cursor)
      BY <1>3, <2>2, <3>1
    <3>3. Place(segments[m])' = p
      BY <1>1, <2>3, <3>2 DEF Place
    <3> QED
      BY <2>3, <3>2, <3>3
  <2>4. CASE m # cursor
    <3>1. m \in Before(cursor) /\ m \in DOMAIN segments /\ m < cursor /\ m \in Nat
      BY <1>0, <1>6, <2>4 DEF Before
    <3>2. cursor \in m + 1 .. cursor /\ \A j \in m + 1 .. cursor - 1 : j \in m + 1 .. cursor
      BY <1>0, <3>1
    <3>3. seg.op = "&&" /\ seg.does # "cd"
      BY <2>1, <3>2
    <3>4. status = TRUE
      BY <2>2, <3>3 DEF ran
    <3>5. seg.does \notin Movers
      BY <1>0, <2>0, <2>4, <3>1 DEF OneMover, Moves
    <3>6. head' = head /\ cwd' = cwd
      BY <1>3, <2>2, <3>3, <3>5
    <3>7. head[Place(segments[m])] = Lands(segments, m)
      BY <2>0, <2>1, <3>1, <3>2, <3>4 DEF Running, Happened, Moved
    <3> QED
      BY <1>1, <3>6, <3>7 DEF Place
  <2> QED
    BY <2>3, <2>4
<1>12. Running'
  BY <1>7, <1>8, <1>9, <1>10, <1>11 DEF Running
<1> QED
  BY <1>4, <1>5, <1>12

LEMMA GuardStarts == GuardInit => GuardInv
<1> SUFFICES ASSUME GuardInit PROVE GuardInv
  OBVIOUS
<1>1. GuardTypes
  BY DEF GuardInit, GuardTypes, Checkout
<1>2. OneMover
  BY DEF GuardInit, OneMover
<1> QED
  BY <1>1, <1>2 DEF GuardInit, GuardInv, Untouched

\* Each step of the guard, the shell and git keeps the invariant.
LEMMA GuardKeeps == GuardInv /\ [GuardNext]_guardVars => GuardInv'
<1> SUFFICES ASSUME GuardInv, [GuardNext]_guardVars PROVE GuardInv'
  OBVIOUS
<1>0. /\ GuardTypes /\ OneMover /\ segments \in Seq(Segment)
      /\ Len(segments) \in Nat /\ DOMAIN segments = 1 .. Len(segments)
      /\ \A b \in rewritten : b = Detached \/ Admits(b)
  BY CommandLength DEF GuardInv, GuardTypes
<1>1. ASSUME NEW seg \in Segment, Extend(seg) PROVE GuardInv'
  <2>1. /\ verdict = "building" /\ verdict' = "building" /\ segments' = Append(segments, seg)
        /\ UNCHANGED <<setting, existing, head, inside, change, found, cursor, cwd, status, rewritten>>
    BY <1>1 DEF Extend, setting
  <2>2. GuardTypes'
    BY <1>0, <2>1 DEF GuardTypes
  <2>3. OneMover'
    <3>1. DOMAIN segments' = 1 .. Len(segments) + 1
      BY <1>0, <2>1
    <3>2. \A k \in 1 .. Len(segments) : segments'[k] = segments[k]
      BY <1>0, <2>1
    <3>3. segments'[Len(segments) + 1] = seg
      BY <1>0, <2>1
    <3>4. seg.does \in Movers => \A k \in DOMAIN segments : segments[k].does \notin Movers
      BY <1>1 DEF Extend
    <3>5. \A k \in DOMAIN segments' : k \in DOMAIN segments \/ k = Len(segments) + 1
      BY <1>0, <3>1
    <3> QED
      BY <1>0, <3>2, <3>3, <3>4, <3>5 DEF OneMover, Moves
  <2>4. \A b : Admits(b)' <=> Admits(b)
    BY <2>1, AnswersStand
  <2>5. Untouched' /\ inside' = {} /\ change' = Nowhere /\ found' = {}
    BY <2>1 DEF GuardInv, Untouched
  <2> QED
    BY <1>0, <2>1, <2>2, <2>3, <2>4, <2>5 DEF GuardInv
<1>2. CASE Submit
  <2>1. /\ verdict = "building" /\ verdict' = "reading" /\ cursor' = 1
        /\ UNCHANGED <<segments, setting, existing, head, inside, change, found, cwd, status, rewritten>>
    BY <1>2 DEF Submit, setting
  <2>2. GuardTypes' /\ OneMover'
    BY <1>0, <2>1 DEF GuardTypes, OneMover
  <2>3. \A b : Admits(b)' <=> Admits(b)
    BY <2>1, AnswersStand
  <2>4. Untouched' /\ inside' = {} /\ change' = Nowhere
    BY <2>1 DEF GuardInv, Untouched
  <2>5. Before(cursor') = {}
    BY <2>1 DEF Before
  <2>6. ReadSoFar'
    <3>1. cursor' \in 1 .. Len(segments') + 1
      BY <1>0, <2>1
    <3>2. CdsBefore(segments', cursor') = {}
      BY <2>5 DEF CdsBefore
    <3>3. InEffect(segments', existing', cursor', cursor' - 1) = Nowhere
      BY <2>5 DEF InEffect
    <3> QED
      BY <2>4, <2>5, <3>1, <3>2, <3>3 DEF ReadSoFar
  <2> QED
    BY <1>0, <2>1, <2>2, <2>3, <2>4, <2>6 DEF GuardInv
<1>3. CASE ReadSegment
  <2>1. /\ verdict = "reading" /\ verdict' = "reading" /\ cursor' = cursor + 1 /\ cursor <= Len(segments)
        /\ UNCHANGED <<segments, setting, existing, head, cwd, status, rewritten>>
    BY <1>3 DEF ReadSegment, setting
  <2>2. GuardTypes' /\ OneMover'
    BY <1>0, <2>1 DEF GuardTypes, OneMover
  <2>3. \A b : Admits(b)' <=> Admits(b)
    BY <2>1, AnswersStand
  <2>4. ReadSoFar /\ cursor \in Nat /\ cursor >= 1 /\ cursor \in DOMAIN segments
    BY <1>0, <2>1 DEF GuardInv, ReadSoFar
  <2>5. /\ inside' = CdsBefore(segments, cursor + 1)
        /\ found' = found \cup Checked(segments, existing, cursor)
        /\ change' = InEffect(segments, existing, cursor + 1, cursor)
    BY <1>0, <1>3, <2>4, ReadsSegment DEF GuardTypes
  <2>6. cursor' - 1 = cursor /\ cursor' \in 1 .. Len(segments) + 1
    BY <1>0, <2>1, <2>4
  <2>7. \A k \in Before(cursor') : k \in Before(cursor) \/ k = cursor
    BY <2>1, <2>4 DEF Before
  <2>8. ReadSoFar'
    BY <2>1, <2>4, <2>5, <2>6, <2>7 DEF ReadSoFar
  <2>9. Untouched'
    BY <2>1 DEF GuardInv, Untouched
  <2> QED
    BY <1>0, <2>1, <2>2, <2>3, <2>8, <2>9 DEF GuardInv
<1>4. CASE Decide
  <2>1. /\ verdict = "reading" /\ cursor > Len(segments) /\ cursor' = 1
        /\ verdict' = IF \A t \in found : \A b \in BranchesOf(t) : Admits(b) THEN "admitted" ELSE "refused"
        /\ UNCHANGED <<segments, setting, existing, head, cwd, status, rewritten>>
    BY <1>4 DEF Decide, setting
  <2>2. GuardTypes' /\ OneMover'
    BY <1>0, <2>1 DEF GuardTypes, OneMover
  <2>3. \A b : Admits(b)' <=> Admits(b)
    BY <2>1, AnswersStand
  <2>4. ASSUME verdict' = "admitted" PROVE Running'
    <3>1. \A t \in found : \A b \in BranchesOf(t) : Admits(b)
      BY <2>1, <2>4
    <3>2. \A k \in DOMAIN segments : Checked(segments, existing, k) \subseteq found
      <4>1. cursor \in Nat /\ ReadSoFar /\ \A k \in DOMAIN segments : k \in Before(cursor)
        BY <1>0, <2>1 DEF GuardInv, GuardTypes, Before
      <4> QED
        BY <4>1 DEF ReadSoFar
    <3>3. cwd = "here"
      BY <2>1 DEF GuardInv, Untouched
    <3>4. cursor' \in 1 .. Len(segments') + 1 /\ Before(cursor') = {}
      BY <1>0, <2>1 DEF Before
    <3>5. \A t \in found : Named(t) # Nowhere => Admits(Named(t))
      BY <3>1 DEF BranchesOf, Named
    <3>6. ASSUME NEW t \in found, Named(t) = Nowhere, NEW c \in Checkout, c \in Probes(t)
          PROVE  Admits(head[c])
      <4>1. t.ref = Nowhere /\ t.branch = Nowhere
        BY <3>6 DEF Named
      <4>2. Probed(c) \in BranchesOf(t)
        BY <3>6, <4>1 DEF BranchesOf, Probes
      <4>3. Admits(Probed(c))
        BY <3>1, <4>2
      <4> QED
        BY <4>3, UnsureRefused DEF Probed
    <3>7. \A c \in Checkout : Cleared(c)'
      <4>1. \A k \in cursor' .. Len(segments) : k \in DOMAIN segments
        BY <1>0, <2>1
      <4> QED
        BY <2>1, <2>3, <3>2, <3>6, <4>1 DEF Cleared
    <3> QED
      BY <2>1, <2>3, <3>2, <3>3, <3>4, <3>5, <3>7 DEF Running
  <2>5. rewritten' = {}
    BY <2>1 DEF GuardInv, Untouched
  <2> QED
    BY <2>1, <2>2, <2>4, <2>5 DEF GuardInv
<1>5. CASE RunSegment
  <2>1. /\ verdict = "admitted" /\ verdict' = "admitted"
        /\ UNCHANGED <<segments, setting, existing>>
    BY <1>5 DEF RunSegment, setting
  <2>2. /\ Running'
        /\ \A b \in rewritten' \ rewritten : Admits(b)
        /\ head' \in [Checkout -> BranchName \cup {Detached}]
        /\ cwd' \in Checkout /\ status' \in BOOLEAN /\ cursor' \in Nat
    BY <1>0, <1>5, <2>1, RunsSegment DEF GuardInv
  <2>3. GuardTypes' /\ OneMover'
    BY <1>0, <2>1, <2>2 DEF GuardTypes, OneMover
  <2>4. \A b : Admits(b)' <=> Admits(b)
    BY <2>1, AnswersStand
  <2> QED
    BY <1>0, <2>1, <2>2, <2>3, <2>4 DEF GuardInv
<1>6. CASE UNCHANGED guardVars
  <2>1. /\ UNCHANGED <<segments, setting, existing, head, inside, change, found, cursor, verdict,
                       cwd, status, rewritten>>
    BY <1>6 DEF guardVars, setting
  <2>2. \A b : Admits(b)' <=> Admits(b)
    BY <2>1, AnswersStand
  <2>3. GuardTypes' /\ OneMover' /\ (Untouched' <=> Untouched) /\ (ReadSoFar' <=> ReadSoFar)
    BY <1>0, <2>1 DEF GuardTypes, OneMover, Untouched, ReadSoFar
  <2>4. Running' <=> Running
    BY <2>1, <2>2 DEF Running, Cleared, PutThere, Moved, Happened, Place
  <2> QED
    BY <1>0, <2>1, <2>2, <2>3, <2>4 DEF GuardInv
<1> QED
  BY <1>1, <1>2, <1>3, <1>4, <1>5, <1>6 DEF GuardNext

\* What the guard admits, a session may change.
LEMMA AdmittedMayChange ==
    ASSUME NEW b, Admits(b), b # Detached
    PROVE  \/ IssueOf[b] = NoIssue
           \/ holder[IssueOf[b]] = "mine" /\ session
           \/ holder[IssueOf[b]] = "nobody" /\ proposed[b]
BY DEF Admits, LeaseOf, ProposedFrom

\* A command the commit guard admits, of any length, changes the history of no issue
\* branch another session leases, and of no free one without an open pull request,
\* whichever of its segments fail (commit_targets, _retarget, _decide_branch).
THEOREM GuardedHistory == GuardSpec => []LeaseRespected
<1>1. GuardInv => LeaseRespected
  BY AdmittedMayChange DEF GuardInv, LeaseRespected
<1> QED
  BY <1>1, GuardStarts, GuardKeeps, PTL DEF GuardSpec

-----------------------------------------------------------------------------
(* `doctor` on rules: what it does not object to lets deliveries through.  *)

\* What is reported was reported by a workflow that runs, or by another app.
Reported ==
    \A t \in reports : \E e \in Trigger :
        \/ \E c : t = <<e, "foreign", c>>
        \/ \E w \in Workflow : /\ serves[w].active /\ serves[w].does[e] # "none"
                               /\ \E j \in serves[w].jobs : t = <<e, w, j.context>>

ReportedBy(e, c) == {t[2] : t \in {s \in reports : s[1] = e /\ s[3] = c}}

\* What was rejected was a branch of the publisher's with a patch the policy accepts;
\* what left the opening had its bound checks from the repository's own workflows.
DeliveryInv ==
    /\ Standing
    /\ Reported
    /\ pushResult = "rejected" => \E b \in Branch, p \in FilePath \ Forbidden : Rejected(b, p)
    /\ delivery = "queued" => Queued
    /\ delivery \in {"queued", "merged"} =>
           \A r \in required :
               r.type = "required_status_checks" /\ r.app = "actions" =>
                   \E w \in Workflow : <<"pull_request", w, r.context>> \in reports

LEMMA TwoAtLeast ==
    ASSUME NEW S, IsFiniteSet(S), NEW a \in S, NEW b \in S, a # b
    PROVE  Cardinality(S) > 1
<1>1. Cardinality(S) \in Nat
  BY FS_CardinalityType
<1>2. Cardinality(S) # 0 /\ Cardinality(S) # 1
  BY FS_EmptySet, FS_Singleton
<1> QED
  BY <1>1, <1>2

\* The checks that passed were reported by a workflow, where they are bound to one.
LEMMA PassedWasReported ==
    ASSUME Reported, NEW r, NEW e \in Trigger, r.app = "actions", Passed(r, e)
    PROVE  \E w \in Workflow : <<e, w, r.context>> \in reports
<1> DEFINE own == ReportedBy(e, r.context) \ {"foreign"}
<1>1. Cardinality(own) = 1
  BY DEF Passed, ReportedBy
<1>2. PICK w \in own : TRUE
  BY <1>1, FS_EmptySet
<1>3. PICK t \in reports : t[1] = e /\ t[3] = r.context /\ t[2] = w
  BY <1>2 DEF ReportedBy
<1>4. w # "foreign"
  BY <1>2
<1>5. PICK d \in Trigger :
        \/ \E c : t = <<d, "foreign", c>>
        \/ \E v \in Workflow : \E j \in serves[v].jobs : t = <<d, v, j.context>>
  BY DEF Reported
<1> QED
  BY <1>3, <1>4, <1>5

LEMMA DeliveryStarts == BranchStart => DeliveryInv
BY DEF BranchStart, DeliveryInv, Reported

LEMMA RulesStand ==
    ASSUME UNCHANGED world
    PROVE  /\ Standing' <=> Standing
           /\ Queued' <=> Queued
           /\ \A b, p : Rejected(b, p)' <=> Rejected(b, p)
BY DEF world, Standing, Patterns, Queued, Rejected, EffectiveRules, Covers

LEMMA DeliveryKeeps == DeliveryInv /\ [BranchNext]_branchVars => DeliveryInv'
<1> SUFFICES ASSUME DeliveryInv, [BranchNext]_branchVars PROVE DeliveryInv'
  OBVIOUS
<1>1. ASSUME NEW b \in Branch, NEW p \in FilePath, Push(b, p) PROVE DeliveryInv'
  BY <1>1, RulesStand DEF Push, DeliveryInv, Reported, world
<1>2. ASSUME NEW w \in Workflow, NEW e \in Trigger, ReportChecks(w, e) PROVE DeliveryInv'
  <2>1. Reported'
    BY <1>2 DEF ReportChecks, DeliveryInv, Reported, world
  <2> QED
    BY <1>2, <2>1, RulesStand DEF ReportChecks, DeliveryInv, world
<1>3. ASSUME NEW c \in Context, NEW e \in Trigger, ForeignReport(c, e) PROVE DeliveryInv'
  <2>1. Reported'
    BY <1>3 DEF ForeignReport, DeliveryInv, Reported, world
  <2> QED
    BY <1>3, <2>1, RulesStand DEF ForeignReport, DeliveryInv, world
<1>4. CASE Accept
  <2>1. \A r \in required :
            r.type = "required_status_checks" /\ r.app = "actions" =>
                \E w \in Workflow : <<"pull_request", w, r.context>> \in reports
    BY <1>4, PassedWasReported DEF Accept, Met, DeliveryInv, Trigger
  <2>2. delivery' = "queued" => Queued
    BY <1>4 DEF Accept
  <2> QED
    BY <1>4, <2>1, <2>2, RulesStand DEF Accept, DeliveryInv, Reported, world
<1>5. CASE Merge
  BY <1>5, RulesStand DEF Merge, DeliveryInv, Reported, world
<1>6. CASE UNCHANGED branchVars
  BY <1>6, RulesStand DEF branchVars, DeliveryInv, Reported, world
<1> QED
  BY <1>1, <1>2, <1>3, <1>4, <1>5, <1>6 DEF BranchNext

\* A pattern whose scope is told speaks of each branch of the namespace.
LEMMA ScopeTold ==
    ASSUME Standing, NEW p \in Patterns, NEW b \in Branch
    PROVE  /\ PatternScope(p) = TRUE => b \in p.matches
           /\ PatternScope(p) = FALSE => b \notin p.matches
BY DomainAssumption DEF PatternScope, Standing

\* A ruleset whose scope is told covers all branches of the publisher's or none.
LEMMA CoversAll ==
    ASSUME Standing, NEW s \in rulesets, RulesetScope(s) # Maybe, NEW b \in Branch, Covers(s, b)
    PROVE  Covers(s, Sample)
<1>1. s.include \subseteq Patterns /\ s.exclude \subseteq Patterns
  BY DEF Patterns
<1>2. RulesetScope(s) = TRUE \/ RulesetScope(s) = FALSE
  BY DEF RulesetScope
<1>3. CASE RulesetScope(s) = TRUE
  <2>1. AnyOf(s.include) = TRUE /\ AnyOf(s.exclude) = FALSE
    BY <1>3 DEF RulesetScope
  <2>2. \E p \in s.include : PatternScope(p) = TRUE
    BY <2>1, DomainAssumption DEF AnyOf
  <2>3. \A p \in s.exclude : PatternScope(p) = FALSE
    BY <2>1, DomainAssumption DEF AnyOf
  <2> QED
    BY <1>1, <2>2, <2>3, ScopeTold, DomainAssumption DEF Covers
<1>4. CASE RulesetScope(s) = FALSE
  <2>1. AnyOf(s.exclude) = TRUE \/ AnyOf(s.include) = FALSE
    BY <1>4, DomainAssumption DEF RulesetScope
  <2>2. CASE AnyOf(s.exclude) = TRUE
    <3>1. \E p \in s.exclude : PatternScope(p) = TRUE
      BY <2>2, DomainAssumption DEF AnyOf
    <3> QED
      BY <1>1, <3>1, ScopeTold DEF Covers
  <2>3. CASE AnyOf(s.include) = FALSE
    <3>1. \A p \in s.include : PatternScope(p) = FALSE
      BY <2>3, DomainAssumption DEF AnyOf
    <3> QED
      BY <1>1, <3>1, ScopeTold DEF Covers
  <2> QED
    BY <2>1, <2>2, <2>3
<1> QED
  BY <1>2, <1>3, <1>4

\* Whatever GitHub may refuse of a legal push, doctor has a word for.
LEMMA RejectionForeseen ==
    ASSUME Standing, NEW b \in Branch, NEW p \in FilePath \ Forbidden, Rejected(b, p)
    PROVE  PushProblem
<1>1. ASSUME NEW s \in rulesets, s.enforcement = "active", Covers(s, b), Refuses(s.rule, b)
      PROVE  PushProblem
  <2>1. CASE RulesetScope(s) = Maybe
    BY <1>1, <2>1 DEF PushProblem, ScopeProblem
  <2>2. CASE RulesetScope(s) # Maybe
    <3>1. s.rule \in EffectiveRules(Sample)
      BY <1>1, <2>2, CoversAll DEF EffectiveRules
    <3>2. BranchRuleProblem(s.rule)
      BY <1>1, DomainAssumption DEF Refuses, BranchRuleProblem, PatternRuleProblem, ValueVerdict,
         PushCompatible
    <3> QED
      BY <3>1, <3>2 DEF PushProblem
  <2> QED
    BY <2>1, <2>2
<1>2. ASSUME NEW k \in classic, b \in k.matches, k.demands \/ (k.restricts /\ ~k.admits)
      PROVE  PushProblem
  <2>0. k \in Patterns
    BY <1>2 DEF Patterns
  <2>1. PatternScope(k) # FALSE
    BY <1>2, <2>0, ScopeTold
  <2>2. Needs(k)
    BY <1>2 DEF Needs
  <2> QED
    BY <2>1, <2>2 DEF ClassicProblem, PushProblem
<1>3. ASSUME NEW s \in pushes, s.enforcement = "active", s.limits \/ p \in s.restricts
      PROVE  PushProblem
  BY <1>3 DEF PushRulesetProblem, PushProblem
<1> QED
  BY <1>1, <1>2, <1>3 DEF Rejected, EffectiveRules

\* A required check with no problem is reported by one workflow, of those that can be
\* told to run for every change and of all that run.
LEMMA OneReporter ==
    ASSUME Standing, Reported, NEW r, NEW e \in Trigger, r.context \in Produced(e),
           ~Ambiguous(r.context), Quiet(e)
    PROVE  \E w \in Workflow : ReportedBy(e, r.context) \ {"foreign"} = {w}
<1>1. PICK w \in Workflow : r.context \in Contexts(w, e)
  BY DEF Produced
<1>2. PICK j \in serves[w].jobs : j.known /\ j.context = r.context
  BY <1>1 DEF Contexts
<1>3. serves[w].active /\ serves[w].does[e] = "every"
  BY <1>1 DEF Contexts
<1>4. <<e, w, r.context>> \in reports
  BY <1>2, <1>3 DEF Quiet
<1>5. w \in ReportedBy(e, r.context) \ {"foreign"}
  <2>1. /\ <<e, w, r.context>>[1] = e /\ <<e, w, r.context>>[2] = w
        /\ <<e, w, r.context>>[3] = r.context
    OBVIOUS
  <2>2. w # "foreign"
    BY DomainAssumption
  <2> QED
    BY <1>4, <2>1, <2>2 DEF ReportedBy
<1>6. ASSUME NEW v \in ReportedBy(e, r.context) \ {"foreign"}, v # w PROVE FALSE
  <2>1. PICK t \in reports : t[1] = e /\ t[3] = r.context /\ t[2] = v
    BY <1>6 DEF ReportedBy
  <2>2. /\ v \in Workflow /\ serves[v].active /\ serves[v].does[e] # "none"
        /\ \E k \in serves[v].jobs : k.context = r.context
    BY <1>6, <2>1 DEF Reported
  <2>3. PICK k \in serves[v].jobs : k.context = r.context
    BY <2>2
  <2>4. k.known /\ serves[v].does[e] # "some"
    BY <1>2, <1>3, <1>6, <2>2, <2>3 DEF Standing, Visible
  <2>5. serves[v].does[e] = "every"
    BY <2>2, <2>4 DEF Standing
  <2>6. r.context \in Contexts(v, e)
    BY <2>2, <2>3, <2>4, <2>5 DEF Contexts
  <2>7. w \in Producers(r.context, e) /\ v \in Producers(r.context, e)
    BY <1>1, <2>2, <2>6 DEF Producers
  <2>8. IsFiniteSet(Producers(r.context, e))
    BY DomainAssumption, FS_Subset DEF Producers
  <2>9. Cardinality(Producers(r.context, e)) > 1
    BY <1>6, <2>7, <2>8, TwoAtLeast
  <2> QED
    BY <2>9 DEF Ambiguous
<1> QED
  BY <1>5, <1>6

\* Where the rules give no reason to report, the checks that come are those required.
LEMMA ChecksCome ==
    ASSUME Standing, Reported, ~MergeProblem, NEW e \in Trigger, e = "merge_group" => Queued, Quiet(e)
    PROVE  Met(e)
<1> SUFFICES ASSUME NEW r \in required
             PROVE  CASE r.type = "required_status_checks" -> Passed(r, e)
                      [] OTHER -> r.type \in Compatible \union {"merge_queue"}
  BY DEF Met
<1>1. CASE r.type = "required_status_checks"
  <2>1. ~CheckProblem(r)
    BY <1>1 DEF MergeProblem, EffectiveRuleProblem, LegacyProblem
  <2>2. r.context \in Produced(e) /\ ~Ambiguous(r.context) /\ r.app # "foreign"
    BY <2>1 DEF CheckProblem, Trigger
  <2>3. PICK w \in Workflow : ReportedBy(e, r.context) \ {"foreign"} = {w}
    BY <2>2, OneReporter
  <2>4. Cardinality(ReportedBy(e, r.context) \ {"foreign"}) = 1
    BY <2>3, FS_Singleton
  <2>5. r.app \in {"actions", "any"}
    BY <1>1, <2>2 DEF Standing
  <2>6. ReportedBy(e, r.context) # {}
    BY <2>3
  <2>7. CASE r.app = "actions"
    BY <1>1, <2>4, <2>7 DEF Passed, ReportedBy
  <2>8. CASE r.app = "any"
    <3>1. Cardinality(ReportedBy(e, r.context) \ {"foreign"}) <= 1
      BY <2>4
    <3> QED
      BY <1>1, <2>6, <2>8, <3>1 DEF Passed, ReportedBy
  <2> QED
    BY <2>5, <2>7, <2>8
<1>2. CASE r.type # "required_status_checks"
  <2>1. CASE r.by = "ruleset"
    BY <1>2, <2>1 DEF MergeProblem, EffectiveRuleProblem
  <2>2. CASE r.by = "classic"
    <3>1. ~LegacyProblem(r)
      BY <2>2 DEF MergeProblem
    <3> QED
      BY <1>2, <2>2, <3>1 DEF LegacyProblem, LegacyTypes, Standing, Compatible
  <2> QED
    BY <2>1, <2>2 DEF Standing
<1> QED
  BY <1>1, <1>2

\* Where doctor reports nothing of the rules, the publisher's pushes are accepted, no
\* pull request waits for a check that never comes and none is merged without the
\* gate from the repository's own workflows: for all rulesets, protections, branches
\* and workflows in which a doubled context is in sight (effective_rule_problems,
\* legacy_protection_problems, publisher_branch_rule_problems).
THEOREM DeliveriesAdmitted == BranchSpec => []DeliveryAdmitted
<1>1. DeliveryInv => DeliveryAdmitted
  <2> SUFFICES ASSUME DeliveryInv PROVE DeliveryAdmitted
    OBVIOUS
  <2>1. pushResult = "rejected" => PushProblem
    BY RejectionForeseen DEF DeliveryInv
  <2>2. ASSUME ~MergeProblem, delivery = "open", Quiet("pull_request") PROVE Met("pull_request")
    BY <2>2, ChecksCome DEF DeliveryInv, Trigger
  <2>3. ASSUME ~MergeProblem, delivery = "queued", Quiet("merge_group") PROVE Met("merge_group")
    BY <2>3, ChecksCome DEF DeliveryInv, Trigger
  <2>4. ASSUME ~MergeProblem, delivery = "merged",
               NEW r \in required, r.type = "required_status_checks", r.context = Gate
        PROVE  \E w \in Workflow : <<"pull_request", w, Gate>> \in reports
    <3>1. r.app = "actions"
      BY <2>4 DEF MergeProblem, EffectiveRuleProblem, LegacyProblem, CheckProblem, DeliveryInv, Standing
    <3> QED
      BY <2>4, <3>1 DEF DeliveryInv
  <2> QED
    BY <2>1, <2>2, <2>3, <2>4 DEF DeliveryAdmitted
<1> QED
  BY <1>1, DeliveryStarts, DeliveryKeeps, PTL DEF BranchSpec

-----------------------------------------------------------------------------
(* `doctor`: what a ready report says is so.                               *)

\* Whatever departs, a fact stays one of those it may become.
DoctorTypes ==
    /\ repo = [f \in DOMAIN Facts |-> repo[f]]
    /\ \A f \in DOMAIN Facts : repo[f] \in Facts[f]
    /\ local \in [ManagedFile -> {"generated", "edited", "absent"}]
    /\ pushed \in [ManagedFile -> {"generated", "edited", "absent"}]
    /\ held \in [Credential -> {"repository", "organization", "nowhere", "empty"}]

\* The names of the facts, for the prover.
LEMMA FactNames ==
    DOMAIN Facts =
        {"cloud", "routed", "orgOwned", "platform", "mode", "policy", "agent",
         "route", "forwards", "pins", "pinned", "calls", "inherits",
         "tokenDefault", "issues", "writable", "visibility", "sameOwner",
         "access", "actions", "labels", "ruleset", "active", "rules",
         "pushRules", "branchRules", "legacy", "runner", "ciRunner", "online",
         "forking", "forkRuns", "mergeGroup", "app", "confirmed"}
BY DEF Facts

LEMMA DoctorStarts == DoctorInit => DoctorTypes
<1> SUFFICES ASSUME DoctorInit PROVE DoctorTypes
  OBVIOUS
<1>1. PICK cloud, routed, org \in BOOLEAN, host \in Facts.platform :
        /\ local = Generated(cloud, routed) /\ pushed = local
        /\ held = [c \in Credential |-> IF org THEN "organization" ELSE "repository"]
  BY DEF DoctorInit
<1>2. /\ local \in [ManagedFile -> {"generated", "edited", "absent"}]
      /\ pushed \in [ManagedFile -> {"generated", "edited", "absent"}]
      /\ held \in [Credential -> {"repository", "organization", "nowhere", "empty"}]
  BY <1>1 DEF Generated
<1>3. repo = [f \in DOMAIN Facts |-> repo[f]]
  BY DEF DoctorInit, Facts
<1>4. /\ repo.cloud \in Facts.cloud /\ repo.routed \in Facts.routed
      /\ repo.orgOwned \in Facts.orgOwned /\ repo.platform \in Facts.platform
      /\ repo.mode \in Facts.mode /\ repo.policy \in Facts.policy
      /\ repo.agent \in Facts.agent /\ repo.route \in Facts.route
      /\ repo.forwards \in Facts.forwards /\ repo.pins \in Facts.pins
      /\ repo.pinned \in Facts.pinned /\ repo.calls \in Facts.calls
      /\ repo.inherits \in Facts.inherits /\ repo.tokenDefault \in Facts.tokenDefault
      /\ repo.issues \in Facts.issues /\ repo.writable \in Facts.writable
      /\ repo.visibility \in Facts.visibility /\ repo.sameOwner \in Facts.sameOwner
  BY DEF DoctorInit, Facts
<1>5. /\ repo.access \in Facts.access /\ repo.actions \in Facts.actions
      /\ repo.labels \in Facts.labels /\ repo.ruleset \in Facts.ruleset
      /\ repo.active \in Facts.active /\ repo.rules \in Facts.rules
      /\ repo.pushRules \in Facts.pushRules /\ repo.branchRules \in Facts.branchRules
      /\ repo.legacy \in Facts.legacy /\ repo.runner \in Facts.runner
      /\ repo.ciRunner \in Facts.ciRunner /\ repo.online \in Facts.online
      /\ repo.forking \in Facts.forking /\ repo.forkRuns \in Facts.forkRuns
      /\ repo.mergeGroup \in Facts.mergeGroup /\ repo.app \in Facts.app
      /\ repo.confirmed \in Facts.confirmed
  BY DEF DoctorInit, Facts
<1>6. \A f \in DOMAIN Facts : repo[f] \in Facts[f]
  BY <1>4, <1>5, FactNames
<1> QED
  BY <1>2, <1>3, <1>6 DEF DoctorTypes

LEMMA DoctorKeeps == DoctorTypes /\ [DoctorNext]_doctorVars => DoctorTypes'
<1> SUFFICES ASSUME DoctorTypes, [DoctorNext]_doctorVars PROVE DoctorTypes'
  OBVIOUS
<1>1. ASSUME NEW f \in DOMAIN Facts, Alter(f) PROVE DoctorTypes'
  BY <1>1 DEF Alter, DoctorTypes
<1>2. ASSUME NEW f \in ManagedFile, EditFile(f) PROVE DoctorTypes'
  <2>1. PICK v \in {"generated", "edited", "absent"}, where \in {{1}, {2}, {1, 2}} :
           /\ local' = IF 1 \in where THEN [local EXCEPT ![f] = v] ELSE local
           /\ pushed' = IF 2 \in where THEN [pushed EXCEPT ![f] = v] ELSE pushed
    BY <1>2 DEF EditFile
  <2>2. local' \in [ManagedFile -> {"generated", "edited", "absent"}]
    BY <2>1 DEF DoctorTypes
  <2>3. pushed' \in [ManagedFile -> {"generated", "edited", "absent"}]
    BY <2>1 DEF DoctorTypes
  <2> QED
    BY <1>2, <2>2, <2>3 DEF EditFile, DoctorTypes
<1>3. ASSUME NEW c \in Credential, Move(c) PROVE DoctorTypes'
  BY <1>3 DEF Move, DoctorTypes
<1>4. ASSUME NEW a \in Answers, Refuse(a) PROVE DoctorTypes'
  BY <1>4 DEF Refuse, DoctorTypes
<1>5. CASE UNCHANGED doctorVars
  BY <1>5 DEF doctorVars, DoctorTypes
<1> QED
  BY <1>1, <1>2, <1>3, <1>4, <1>5 DEF DoctorNext

\* No check of a ready report wants anything done.
Fine(c) == c # "todo" /\ c # "fail"

LEMMA ReadyChecks == ASSUME Ready PROVE \A c \in Checks : Fine(c)
BY DEF Ready, Fine

\* Each fact the factory needs rests on some check that would have failed without it.
LEMMA ReadyMeans ==
    ASSUME DoctorTypes, Ready
    PROVE  /\ Launchable /\ Callable /\ Hosted /\ Protected
           /\ Credentialed \/ (repo.orgOwned /\ (VariablesCheck = "warn" \/ SecretsCheck = "warn"))
<1> DEFINE State == {"generated", "edited", "absent"}
<1>1. /\ \A f \in ManagedFile : local[f] \in State /\ pushed[f] \in State
      /\ \A c \in Credential : held[c] \in {"repository", "organization", "nowhere", "empty"}
  BY DEF DoctorTypes
<1>2. /\ Fine(ModeCheck) /\ Fine(FilesCheck) /\ Fine(ProfileCheck) /\ Fine(CiCheck) /\ Fine(PolicyCheck)
      /\ Fine(NameCheck) /\ Fine(RoutingCheck) /\ Fine(LeaseBotCheck) /\ Fine(PinCheck) /\ Fine(DriftCheck)
      /\ Fine(IssuesCheck) /\ Fine(WritableCheck) /\ Fine(BranchCheck) /\ Fine(PushedCheck)
      /\ Fine(LabelsCheck) /\ Fine(ActiveCheck)
  BY ReadyChecks DEF Checks
<1>3. /\ Fine(PlatformCheck) /\ Fine(TokenCheck) /\ Fine(ContractCheck) /\ Fine(AccessCheck)
      /\ Fine(ActionsCheck) /\ Fine(RulesetCheck) /\ Fine(EffectiveCheck) /\ Fine(PushRulesCheck)
      /\ Fine(BranchRulesCheck) /\ Fine(LegacyCheck) /\ Fine(VariablesCheck) /\ Fine(SecretsCheck)
      /\ Fine(RunnerCheck) /\ Fine(CiRunnerCheck) /\ Fine(ForkCheck) /\ Fine(BotCheck) /\ Fine(AppCheck)
  BY ReadyChecks DEF Checks
<1>4. /\ repo.policy \in Facts.policy /\ repo.mode \in Facts.mode /\ repo.pins \in Facts.pins
      /\ repo.calls \in Facts.calls /\ repo.tokenDefault \in Facts.tokenDefault
      /\ repo.actions \in Facts.actions /\ repo.platform \in Facts.platform
      /\ repo.visibility \in Facts.visibility /\ repo.access \in Facts.access
      /\ repo.legacy \in Facts.legacy /\ repo.app \in Facts.app
      /\ \A f \in {"cloud", "routed", "orgOwned", "inherits", "sameOwner"} : repo[f] \in Facts[f]
  BY FactNames DEF DoctorTypes
<1>5. /\ \A f \in {"policy", "guides", "hooks", "plan", "ci"} : local[f] # "absent"
      /\ local[IF Cloud THEN "routine" ELSE "implement"] # "absent"
      /\ local["hooks"] # "edited" /\ local["ci"] # "edited"
      /\ Loaded
  BY <1>2 DEF Fine, Mark, FilesCheck, Required, HooksSound, CiCheck, PolicyCheck
<1>6. /\ \A f \in {"guides", "hooks", "plan"} : local[f] # "edited"
      /\ local[IF Cloud THEN "routine" ELSE "implement"] # "edited" \/ Cloud
      /\ local["routine"] # "edited"
  BY <1>2, <1>5 DEF Fine, Mark, DriftCheck, WorkflowsDrift, FilesDrift
<1>7. /\ \A f \in Required \cup (IF Routed THEN {"registry"} ELSE {}) : pushed[f] = local[f]
      /\ \A f \in {"implement", "routine", "registry"} \ (Required \cup (IF Routed THEN {"registry"} ELSE {})) :
            pushed[f] = "absent"
  BY <1>2 DEF Fine, Mark, PushedCheck
<1>8. Pinned
  BY <1>2, <1>5 DEF Fine, Mark, Pinned, PinCheck
<1>9. Cloud <=> Routine
  BY DEF Cloud, Routine
<1>10. Cloud \/ (AppFound /\ repo.app = "exact" /\ repo.policy # "other bot")
  BY <1>2, <1>3 DEF Fine, Mark, AppCheck, BotCheck
<1>11. repo.policy \in {"sound"} \union (IF Routine THEN {"no bot", "other bot"} ELSE {})
  <2>1. /\ repo.policy \notin {"unloadable", "fields", "forbidden", "value", "planner", "id", "branch"}
        /\ Cloud \/ repo.policy # "no bot"
    BY <1>2, <1>5 DEF Fine, Mark, PolicyCheck, NameCheck, BranchCheck, LeaseBotCheck, Loaded
  <2> QED
    BY <1>4, <1>9, <1>10, <2>1 DEF Facts
<1>12. Routes => Routed
  BY <1>7 DEF Routes, Routed, Required
<1>13. Routes => pushed["registry"] = "generated" /\ repo.route = "served" /\ repo.forwards
  BY <1>2, <1>7, <1>12 DEF Fine, Mark, RoutingCheck
<1>14. Launchable
  <2>1. \A f \in {"policy", "guides", "hooks", "plan", "ci"} : pushed[f] = local[f]
    BY <1>7 DEF Required
  <2>2. \A f \in {"guides", "hooks", "plan", "ci"} : pushed[f] = "generated"
    BY <1>1, <1>5, <1>6, <2>1 DEF ManagedFile
  <2>3. IF Routine THEN pushed["routine"] = "generated" /\ pushed["implement"] = "absent"
        ELSE pushed["implement"] = "generated" /\ pushed["routine"] = "absent"
    BY <1>1, <1>5, <1>6, <1>7, <1>9 DEF ManagedFile, Required
  <2>4. repo.issues /\ repo.writable /\ repo.labels /\ repo.active
    BY <1>2 DEF Fine, Mark, IssuesCheck, WritableCheck, LabelsCheck, ActiveCheck
  <2> QED
    BY <1>5, <1>11, <1>13, <2>1, <2>2, <2>3, <2>4 DEF Launchable
<1>15. Callable
  <2>1. repo.pins = "one" /\ repo.pinned /\ repo.calls = "fit"
    BY <1>3, <1>8 DEF Fine, Mark, Pinned, PlatformCheck, ContractCheck
  <2>2. repo.inherits => repo.tokenDefault = "enough"
    BY <1>3, <1>4, <1>8 DEF Fine, Mark, TokenCheck, ContractCheck, Facts
  <2>3. repo.actions \in {"all", "admits"}
    BY <1>3, <1>4 DEF Fine, Mark, ActionsCheck, Facts
  <2>4. \/ repo.platform = "public"
        \/ /\ repo.sameOwner /\ repo.access # "none"
           /\ repo.visibility = "private" \/ (repo.visibility = "internal" /\ repo.platform = "internal")
    BY <1>3, <1>4 DEF Fine, Mark, AccessCheck, PlatformAccess, Facts
  <2> QED
    BY <2>1, <2>2, <2>3, <2>4 DEF Callable
<1>16. Hosted
  <2>1. \A target : Fine(TargetCheck(target)) =>
            target = "hosted" \/ (target = "selfhosted" /\ repo.online = "unix")
    BY DEF Fine, Mark, TargetCheck, Available
  <2>2. Fine(TargetCheck(repo.runner)) /\ Fine(TargetCheck(repo.ciRunner))
    BY <1>3 DEF Fine, RunnerCheck, CiRunnerCheck
  <2>3. repo.ciRunner = "hosted"
        \/ ~(repo.visibility = "public" \/ (repo.forking /\ (repo.forkRuns \/ repo.mergeGroup)))
    BY <1>3 DEF Fine, Mark, ForkCheck, ForkExposure
  <2> QED
    BY <2>1, <2>2, <2>3 DEF Hosted
<1>17. Protected
  BY <1>3 DEF Fine, Mark, RulesetCheck, EffectiveCheck, PushRulesCheck, BranchRulesCheck, LegacyCheck, Protected
<1>18. Credentialed \/ (repo.orgOwned /\ (VariablesCheck = "warn" \/ SecretsCheck = "warn"))
  <2>1. \A c, own, shared : Seen(c, own, shared) => Holds(c)
    BY DEF Seen, Holds
  <2>2. VariablesCheck # "warn" => \A c \in NeedVariables : Holds(c)
    BY <1>3, <2>1 DEF Fine, Mark, VariablesCheck
  <2>3. SecretsCheck # "warn" => \A c \in NeedSecrets : Holds(c)
    BY <1>3, <2>1 DEF Fine, Mark, SecretsCheck
  <2>4. VariablesCheck = "warn" => repo.orgOwned
    BY DEF Mark, VariablesCheck
  <2>5. SecretsCheck = "warn" => repo.orgOwned
    BY DEF Mark, SecretsCheck
  <2>6. ASSUME VariablesCheck # "warn", SecretsCheck # "warn" PROVE Credentialed
    <3>1. "claude-token" \in NeedSecrets /\ (repo.platform # "public" => "platform-token" \in NeedSecrets)
      BY DEF NeedSecrets, ProvenPublic
    <3>2. Routes => "routed-key" \in NeedSecrets
      BY <1>12 DEF NeedSecrets
    <3>3. ~Routine => "client-id" \in NeedVariables /\ "app-key" \in NeedSecrets
      BY <1>9 DEF NeedSecrets, NeedVariables
    <3> QED
      BY <1>9, <1>10, <2>2, <2>3, <2>6, <3>1, <3>2, <3>3 DEF Credentialed
  <2> QED
    BY <2>4, <2>5, <2>6
<1> QED
  BY <1>14, <1>15, <1>16, <1>17, <1>18

\* A report of doctor without TODO or FAIL is true of the repository, however far it
\* and the checkout are from what onboarding generates and whatever answers GitHub
\* refuses (DoctorReport.ok and every check).
THEOREM ReportsAreTrue == DoctorSpec => []ReadyIsTrue
<1>1. DoctorTypes => ReadyIsTrue
  BY ReadyMeans DEF ReadyIsTrue
<1> QED
  BY <1>1, DoctorStarts, DoctorKeeps, PTL DEF DoctorSpec

-----------------------------------------------------------------------------
(* The repository's settings: a ruleset merged with Forge's floor.         *)

\* A set of places in a list that is not empty has a last one.
LEMMA Latest ==
    ASSUME NEW N \in Nat, NEW S \in SUBSET (1 .. N), S # {}
    PROVE  \E k \in S : \A j \in S : j <= k
  <1> DEFINE back == {m \in Nat : N - m \in S}
  <1>1. PICK s \in S : TRUE
    OBVIOUS
  <1>2. N - s \in back /\ back \subseteq Nat
    OBVIOUS
  <1>3. PICK m \in back : \A j \in back : ~(<<j, m>> \in OpToRel(<, Nat))
    <2> HIDE DEF back
    <2> QED
      BY <1>2, NatLessThanWellFounded, WFMin
  <1>4. \A j \in back : ~(j < m)
    BY <1>3 DEF OpToRel
  <1>5. \A j \in S : N - j \in back
    OBVIOUS
  <1>6. \A j \in S : ~(N - j < m) /\ j \in Nat
    BY <1>4, <1>5
  <1>7. N - m \in S /\ m \in Nat
    OBVIOUS
  <1>8. \A j \in S : j <= N - m
    BY <1>6, <1>7
  <1> QED
    BY <1>7, <1>8

\* What the kinds of a rule are.
LEMMA ForgeRuleIs ==
    /\ ToSet(ForgeRules) = {ForgeRules[1], ForgeRules[2], ForgeRules[3]}
    /\ ForgeRule("deletion") = [type |-> "deletion"]
    /\ ForgeRule("pull_request") = [type |-> "pull_request", approvals |-> Approvals, dismiss |-> TRUE, owners |-> FALSE]
    /\ ForgeRule("checks") = [type |-> "checks", strict |-> TRUE, checks |-> {GateBound}]
    /\ ForgeTypes = {"deletion", "pull_request", "checks"}
  <1> DEFINE a == [type |-> "deletion"]
             b == [type |-> "pull_request", approvals |-> Approvals, dismiss |-> TRUE, owners |-> FALSE]
             c == [type |-> "checks", strict |-> TRUE, checks |-> {GateBound}]
  <1>1. a.type = "deletion" /\ b.type = "pull_request" /\ c.type = "checks"
    OBVIOUS
  <1>2. ForgeRules = <<a, b, c>>
    BY DEF ForgeRules
  <1> HIDE DEF a, b, c
  <1>3. ToSet(ForgeRules) = {a, b, c} /\ ForgeRules[1] = a /\ ForgeRules[2] = b /\ ForgeRules[3] = c
    BY <1>2 DEF ToSet
  <1>4. ForgeTypes = {"deletion", "pull_request", "checks"}
    BY <1>1, <1>3 DEF ForgeTypes
  <1>5. ForgeRule("deletion") = a /\ ForgeRule("pull_request") = b /\ ForgeRule("checks") = c
    BY <1>1, <1>3 DEF ForgeRule
  <1> QED
    BY <1>3, <1>4, <1>5 DEF a, b, c

LEMMA GateIsCheck == GateBound \in Check /\ GateBound.context = "test" /\ GateBound.app = "actions"
  BY DEF GateBound, Check

LEMMA ForgeRulesTyped ==
    /\ \A t \in ForgeTypes : ForgeRule(t) \in BranchRule /\ ForgeRule(t).type = t
    /\ \A t \in ForgeTypes : ~Weaker(ForgeRule(t), ForgeRule(t))
    /\ ForgeRules \in Seq(BranchRule)
    /\ Len(ForgeRules) = 3
    /\ \A k \in 1 .. 3 : ForgeRules[k] \in {ForgeRule("deletion"), ForgeRule("pull_request"), ForgeRule("checks")}
    /\ ForgeRules[1] = ForgeRule("deletion") /\ ForgeRules[2] = ForgeRule("pull_request")
    /\ ForgeRules[3] = ForgeRule("checks")
  <1>1. ForgeRule("deletion") \in BranchRule
    BY ForgeRuleIs DEF BranchRule
  <1>2. ForgeRule("pull_request") \in BranchRule
    <2>1. Approvals \in Nat
      BY SettingsAssumption
    <2>2. ForgeRule("pull_request") \in
            [type : {"pull_request"}, approvals : Nat, dismiss : BOOLEAN, owners : BOOLEAN]
      <3>1. [type |-> "pull_request", approvals |-> Approvals, dismiss |-> TRUE, owners |-> FALSE] \in
              [type : {"pull_request"}, approvals : Nat, dismiss : BOOLEAN, owners : BOOLEAN]
        BY <2>1
      <3> QED
        BY <3>1, ForgeRuleIs, Zenon
    <2> QED
      BY <2>2, Zenon DEF BranchRule
  <1>3. ForgeRule("checks") \in BranchRule
    <2>1. {GateBound} \in SUBSET Check
      BY GateIsCheck
    <2>2. ForgeRule("checks") \in [type : {"checks"}, strict : BOOLEAN, checks : SUBSET Check]
      <3>1. [type |-> "checks", strict |-> TRUE, checks |-> {GateBound}] \in
              [type : {"checks"}, strict : BOOLEAN, checks : SUBSET Check]
        BY <2>1
      <3> QED
        BY <3>1, ForgeRuleIs, Zenon
    <2> QED
      BY <2>2, Zenon DEF BranchRule
  <1>4. ~Weaker(ForgeRule("deletion"), ForgeRule("deletion"))
    BY ForgeRuleIs DEF Weaker
  <1>5. ~Weaker(ForgeRule("pull_request"), ForgeRule("pull_request"))
    BY ForgeRuleIs, SettingsAssumption DEF Weaker
  <1>6. ~Weaker(ForgeRule("checks"), ForgeRule("checks"))
    BY ForgeRuleIs, GateIsCheck DEF Weaker
  <1>7. \A t \in ForgeTypes : ForgeRule(t).type = t
    BY ForgeRuleIs
  <1>8. ForgeRules = <<ForgeRule("deletion"), ForgeRule("pull_request"), ForgeRule("checks")>>
    BY ForgeRuleIs DEF ForgeRules
  <1>9. ForgeTypes = {"deletion", "pull_request", "checks"}
    BY ForgeRuleIs
  <1> QED
    BY <1>1, <1>2, <1>3, <1>4, <1>5, <1>6, <1>7, <1>8, <1>9

\* The last rule of a type is the one that is compared.
LEMMA Compared ==
    ASSUME NEW r \in Ruleset
    PROVE  Mismatched(r) <=>
             \/ r.enforcement # "active" \/ r.bypass \/ r.exclude \/ "default" \notin r.include
             \/ \E t \in ForgeTypes :
                    \/ OfType(r.rules, t) = {}
                    \/ \E last \in OfType(r.rules, t) :
                           /\ \A k \in OfType(r.rules, t) : k <= last
                           /\ Weaker(r.rules[last], ForgeRule(t))
  <1>1. \A want \in ToSet(ForgeRules) : want.type \in ForgeTypes /\ ForgeRule(want.type) = want
    BY ForgeRuleIs, ForgeRulesTyped
  <1>2. \A t \in ForgeTypes : ForgeRule(t) \in ToSet(ForgeRules) /\ ForgeRule(t).type = t
    BY ForgeRuleIs, ForgeRulesTyped
  <1> QED
    BY <1>1, <1>2, Zenon DEF Mismatched

LEMMA RulesPlaced ==
    ASSUME NEW rules \in Seq(BranchRule), NEW t
    PROVE  /\ OfType(rules, t) \subseteq 1 .. Len(rules)
           /\ OfType(rules, t) # {} =>
                  \E last \in OfType(rules, t) : \A k \in OfType(rules, t) : k <= last
  <1>1. OfType(rules, t) \subseteq 1 .. Len(rules) /\ Len(rules) \in Nat
    BY DEF OfType
  <1> QED
    BY <1>1, Latest

\* Doctor is never content with a ruleset that enforces less.
LEMMA ContentEnforces ==
    ASSUME NEW r \in Ruleset, ~Mismatched(r)
    PROVE  Enforces(r)
  <1>1. r.rules \in Seq(BranchRule) /\ r.enforcement = "active" /\ ~r.bypass /\ ~r.exclude /\ "default" \in r.include
    BY Compared DEF Ruleset
  <1>2. \A t \in ForgeTypes : \E last \in OfType(r.rules, t) : ~Weaker(r.rules[last], ForgeRule(t))
    <2> TAKE t \in ForgeTypes
    <2>1. OfType(r.rules, t) # {}
      BY Compared
    <2>2. PICK last \in OfType(r.rules, t) : \A k \in OfType(r.rules, t) : k <= last
      BY <1>1, <2>1, RulesPlaced
    <2> QED
      BY <2>2, Compared
  <1>3. \A t \in ForgeTypes : \E q \in ToSet(r.rules) : q \in BranchRule /\ q.type = t /\ ~Weaker(q, ForgeRule(t))
    <2> TAKE t \in ForgeTypes
    <2>1. PICK last \in OfType(r.rules, t) : ~Weaker(r.rules[last], ForgeRule(t))
      BY <1>2
    <2>2. last \in DOMAIN r.rules /\ r.rules[last].type = t
      BY <2>1 DEF OfType
    <2>3. r.rules[last] \in ToSet(r.rules) /\ r.rules[last] \in BranchRule
      BY <1>1, <2>2 DEF ToSet
    <2> QED
      BY <2>1, <2>2, <2>3
  <1>4. \E q \in ToSet(r.rules) : q.type = "deletion"
    BY <1>3, ForgeRuleIs
  <1>5. \E q \in ToSet(r.rules) : q.type = "pull_request" /\ q.approvals >= Approvals /\ q.dismiss
    <2>1. PICK q \in ToSet(r.rules) : q \in BranchRule /\ q.type = "pull_request" /\ ~Weaker(q, ForgeRule("pull_request"))
      BY <1>3, ForgeRuleIs
    <2>2. q.approvals \in Nat
      BY <2>1 DEF BranchRule
    <2>3. q.dismiss /\ ~(q.approvals < Approvals)
      BY <2>1, ForgeRuleIs DEF Weaker
    <2> QED
      BY <2>1, <2>2, <2>3, SettingsAssumption
  <1>6. \E q \in ToSet(r.rules) : q.type = "checks" /\ q.strict /\ GateBound \in q.checks
    <2>1. PICK q \in ToSet(r.rules) : q \in BranchRule /\ q.type = "checks" /\ ~Weaker(q, ForgeRule("checks"))
      BY <1>3, ForgeRuleIs
    <2>2. q.checks \subseteq Check
      BY <2>1 DEF BranchRule
    <2>3. q.strict /\ (\E c \in q.checks : c.context = "test") /\ \A c \in q.checks : c.context = "test" => c.app = "actions"
      BY <2>1, ForgeRuleIs DEF Weaker
    <2>4. PICK c \in q.checks : c.context = "test"
      BY <2>3
    <2>5. c = GateBound
      BY <2>2, <2>3, <2>4 DEF Check, GateBound
    <2> QED
      BY <2>1, <2>3, <2>4, <2>5
  <1> QED
    BY <1>1, <1>4, <1>5, <1>6 DEF Enforces

\* Whatever a rule demands the merged one demands too.
NoWeaker(b, a) ==
    /\ b.type = a.type
    /\ a.type = "pull_request" =>
           /\ b.approvals >= a.approvals
           /\ (a.dismiss => b.dismiss) /\ (a.owners => b.owners)
    /\ a.type = "checks" =>
           /\ a.strict => b.strict
           /\ \A c \in a.checks : c \in b.checks \/ (c.context = "test" /\ GateBound \in b.checks)

\* A rule of Forge's type merged with Forge's own: no weaker than either.
LEMMA RuleRaised ==
    ASSUME NEW t \in ForgeTypes, NEW q \in BranchRule, q.type = t
    PROVE  LET b == MergedRule(q, ForgeRule(t)) IN
           b \in BranchRule /\ b.type = t /\ NoWeaker(b, q) /\ ~Weaker(b, ForgeRule(t))
  <1> DEFINE b == MergedRule(q, ForgeRule(t))
  <1>1. CASE t = "deletion"
    <2>1. b = q
      BY <1>1, ForgeRuleIs DEF MergedRule
    <2> QED
      BY <1>1, <2>1, ForgeRuleIs DEF NoWeaker, Weaker
  <1>2. CASE t = "pull_request"
    <2>1. q \in [type : {"pull_request"}, approvals : Nat, dismiss : BOOLEAN, owners : BOOLEAN]
      BY <1>2 DEF BranchRule
    <2> DEFINE n == IF q.approvals > Approvals THEN q.approvals ELSE Approvals
    <2>2. n \in Nat /\ n >= q.approvals /\ n >= Approvals
      BY <2>1, SettingsAssumption
    <2> DEFINE want == ForgeRule(t)
    <2>9. want.type = "pull_request" /\ want.approvals = Approvals
      BY <1>2, ForgeRuleIs
    <2>3. b = [q EXCEPT !.approvals = n, !.dismiss = TRUE]
      <3> HIDE DEF want
      <3>1. MergedRule(q, want) = [q EXCEPT !.approvals = n, !.dismiss = TRUE]
        BY <2>9 DEF MergedRule
      <3> QED
        BY <3>1 DEF want
    <2> HIDE DEF n, b
    <2>4. b \in [type : {"pull_request"}, approvals : Nat, dismiss : BOOLEAN, owners : BOOLEAN]
      BY <2>1, <2>2, <2>3
    <2>5. b.type = "pull_request" /\ b.approvals = n /\ b.dismiss /\ b.owners = q.owners /\ q.type = "pull_request"
      BY <2>1, <2>3
    <2>6. ~Weaker(b, ForgeRule(t))
      BY <1>2, <2>2, <2>5, ForgeRuleIs, SettingsAssumption DEF Weaker
    <2>7. NoWeaker(b, q)
      BY <2>2, <2>5 DEF NoWeaker
    <2>8. b \in BranchRule
      BY <2>4, Zenon DEF BranchRule
    <2> QED
      BY <1>2, <2>5, <2>6, <2>7, <2>8 DEF b
  <1>3. CASE t = "checks"
    <2>1. q \in [type : {"checks"}, strict : BOOLEAN, checks : SUBSET Check]
      BY <1>3 DEF BranchRule
    <2> DEFINE m == MergedChecks(q.checks)
    <2>2. /\ m \in SUBSET Check /\ GateBound \in m
          /\ \A c \in q.checks : c.context = "test" \/ c \in m
          /\ \A c \in m : c.context = "test" => c.app = "actions"
      BY <2>1, GateIsCheck DEF MergedChecks
    <2>3. b = [q EXCEPT !.strict = TRUE, !.checks = m]
      BY <1>3, ForgeRuleIs DEF MergedRule
    <2> HIDE DEF m, b
    <2>4. b \in [type : {"checks"}, strict : BOOLEAN, checks : SUBSET Check]
      BY <2>1, <2>2, <2>3
    <2>5. b.type = "checks" /\ b.checks = m /\ b.strict /\ q.type = "checks"
      BY <2>1, <2>3
    <2>6. ~Weaker(b, ForgeRule(t))
      BY <1>3, <2>2, <2>5, ForgeRuleIs, GateIsCheck DEF Weaker
    <2>7. NoWeaker(b, q)
      BY <2>2, <2>5 DEF NoWeaker
    <2>8. b \in BranchRule
      BY <2>4, Zenon DEF BranchRule
    <2> QED
      BY <1>3, <2>5, <2>6, <2>7, <2>8 DEF b
  <1> QED
    BY <1>1, <1>2, <1>3, ForgeRuleIs

\* The rules of the merged ruleset: the ones there were, raised, then the ones
\* that were lacking.
Raised(rules) ==
    [k \in DOMAIN rules |-> IF rules[k].type \in ForgeTypes THEN MergedRule(rules[k], ForgeRule(rules[k].type))
                            ELSE rules[k]]

LEMMA RaisedRules ==
    ASSUME NEW rules \in Seq(BranchRule)
    PROVE  /\ Raised(rules) \in Seq(BranchRule) /\ Len(Raised(rules)) = Len(rules)
           /\ \A k \in 1 .. Len(rules) :
                  /\ NoWeaker(Raised(rules)[k], rules[k])
                  /\ rules[k].type \in ForgeTypes => ~Weaker(Raised(rules)[k], ForgeRule(rules[k].type))
  <1> DEFINE e(k) == IF rules[k].type \in ForgeTypes THEN MergedRule(rules[k], ForgeRule(rules[k].type)) ELSE rules[k]
  <1>1. ASSUME NEW k \in 1 .. Len(rules)
        PROVE  /\ e(k) \in BranchRule /\ NoWeaker(e(k), rules[k])
               /\ rules[k].type \in ForgeTypes => ~Weaker(e(k), ForgeRule(rules[k].type))
    <2>1. rules[k] \in BranchRule
      OBVIOUS
    <2>2. CASE rules[k].type \in ForgeTypes
      BY <2>1, <2>2, RuleRaised
    <2>3. CASE rules[k].type \notin ForgeTypes
      <3>1. NoWeaker(rules[k], rules[k])
        BY <2>3, ForgeRuleIs DEF NoWeaker
      <3> QED
        BY <2>1, <2>3, <3>1
    <2> QED
      BY <2>2, <2>3
  <1>2. DOMAIN rules = 1 .. Len(rules) /\ Len(rules) \in Nat
    OBVIOUS
  <1>3. Raised(rules) = [k \in 1 .. Len(rules) |-> e(k)]
    BY <1>2 DEF Raised
  <1> HIDE DEF e
  <1> QED
    BY <1>1, <1>2, <1>3

\* A list that keeps the raised rules first, each of Forge's types at its floor.
Kept(rules, s) ==
    /\ s \in Seq(BranchRule) /\ Len(s) >= Len(rules)
    /\ \A k \in 1 .. Len(rules) : s[k] = Raised(rules)[k]
    /\ \A k \in 1 .. Len(s) : s[k].type \in ForgeTypes => ~Weaker(s[k], ForgeRule(s[k].type))

Typed(s, t) == \E k \in 1 .. Len(s) : s[k].type = t

\* Forge's rule of a type is appended where none has the type.
LEMMA LackingAppended ==
    ASSUME NEW rules \in Seq(BranchRule), NEW s, Kept(rules, s), NEW t \in ForgeTypes
    PROVE  LET w == s \o Lacking(rules, t) IN
           Kept(rules, w) /\ Typed(w, t) /\ \A u : Typed(s, u) => Typed(w, u)
  <1> DEFINE w == s \o Lacking(rules, t)
  <1>1. ForgeRule(t) \in BranchRule /\ ~Weaker(ForgeRule(t), ForgeRule(t)) /\ ForgeRule(t).type = t
    BY ForgeRulesTyped
  <1>2. s \in Seq(BranchRule) /\ Len(s) \in Nat /\ Len(rules) \in Nat /\ Len(s) >= Len(rules)
    BY DEF Kept
  <1>3. CASE OfType(rules, t) = {}
    <2>1. w = Append(s, ForgeRule(t))
      BY <1>2, <1>3 DEF Lacking
    <2> DEFINE q == ForgeRule(t)
    <2> HIDE DEF w, q
    <2>2. w \in Seq(BranchRule) /\ Len(w) = Len(s) + 1
      BY <1>1, <1>2, <2>1 DEF q
    <2>3. (\A k \in 1 .. Len(s) : w[k] = s[k]) /\ w[Len(s) + 1] = q
      BY <1>2, <2>1 DEF q
    <2>4. \A k \in 1 .. Len(w) : k \in 1 .. Len(s) \/ k = Len(s) + 1
      BY <1>2, <2>2
    <2>5. \A k \in 1 .. Len(w) : w[k].type \in ForgeTypes => ~Weaker(w[k], ForgeRule(w[k].type))
      <3>1. \A k \in 1 .. Len(s) : s[k].type \in ForgeTypes => ~Weaker(s[k], ForgeRule(s[k].type))
        BY DEF Kept
      <3> QED
        BY <1>1, <2>3, <2>4, <3>1 DEF q
    <2>6. \A k \in 1 .. Len(rules) : w[k] = Raised(rules)[k]
      BY <1>2, <2>3 DEF Kept
    <2>7. Kept(rules, w)
      BY <1>2, <2>2, <2>5, <2>6 DEF Kept
    <2>8. Len(s) + 1 \in 1 .. Len(w) /\ \A k \in 1 .. Len(s) : k \in 1 .. Len(w)
      BY <1>2, <2>2
    <2>9. Typed(w, t) /\ \A u : Typed(s, u) => Typed(w, u)
      BY <1>1, <2>3, <2>8 DEF Typed, q
    <2> QED
      BY <2>7, <2>9 DEF w
  <1>4. CASE OfType(rules, t) # {}
    <2>1. w = s
      BY <1>2, <1>4 DEF Lacking
    <2>2. PICK k \in 1 .. Len(rules) : rules[k].type = t
      BY <1>4 DEF OfType
    <2>3. s[k].type = t /\ k \in 1 .. Len(s)
      BY <1>2, <2>2, RaisedRules DEF Kept, NoWeaker
    <2> HIDE DEF w
    <2>4. Kept(rules, w) /\ Typed(w, t) /\ \A u : Typed(s, u) => Typed(w, u)
      BY <2>1, <2>3 DEF Typed
    <2> QED
      BY <2>4 DEF w
  <1> QED
    BY <1>3, <1>4

\* Every rule there was is still there and no weaker, and every type of Forge's
\* is there with no rule short of it.
LEMMA RulesMerged ==
    ASSUME NEW rules \in Seq(BranchRule)
    PROVE  LET now == MergedRules(rules) IN
           /\ now \in Seq(BranchRule) /\ Len(now) >= Len(rules)
           /\ \A k \in 1 .. Len(rules) : NoWeaker(now[k], rules[k])
           /\ \A k \in 1 .. Len(now) : now[k].type \in ForgeTypes => ~Weaker(now[k], ForgeRule(now[k].type))
           /\ \A t \in ForgeTypes : Typed(now, t)
  <1> DEFINE s0 == Raised(rules)
             s1 == s0 \o Lacking(rules, "deletion")
             s2 == s1 \o Lacking(rules, "pull_request")
             s3 == s2 \o Lacking(rules, "checks")
             now == MergedRules(rules)
  <1>1. now = s3
    BY DEF MergedRules, Raised
  <1>2. "deletion" \in ForgeTypes /\ "pull_request" \in ForgeTypes /\ "checks" \in ForgeTypes
    BY ForgeRuleIs
  <1>3. Kept(rules, s0)
    <2>1. /\ s0 \in Seq(BranchRule) /\ Len(s0) = Len(rules) /\ Len(rules) \in Nat
          /\ \A k \in 1 .. Len(rules) :
                 /\ s0[k].type = rules[k].type
                 /\ rules[k].type \in ForgeTypes => ~Weaker(s0[k], ForgeRule(rules[k].type))
      BY RaisedRules DEF NoWeaker
    <2> QED
      BY <2>1 DEF Kept
  <1> HIDE DEF s0
  <1>4. Kept(rules, s1) /\ Typed(s1, "deletion")
    BY <1>2, <1>3, LackingAppended
  <1> HIDE DEF s1
  <1>5. Kept(rules, s2) /\ Typed(s2, "deletion") /\ Typed(s2, "pull_request")
    BY <1>2, <1>4, LackingAppended
  <1> HIDE DEF s2
  <1>6. Kept(rules, s3) /\ Typed(s3, "deletion") /\ Typed(s3, "pull_request") /\ Typed(s3, "checks")
    BY <1>2, <1>5, LackingAppended
  <1> HIDE DEF s3, now
  <1>7. \A t \in ForgeTypes : Typed(now, t)
    BY <1>1, <1>6, ForgeRuleIs
  <1>8. /\ now \in Seq(BranchRule) /\ Len(now) >= Len(rules)
        /\ \A k \in 1 .. Len(rules) : NoWeaker(now[k], rules[k])
        /\ \A k \in 1 .. Len(now) : now[k].type \in ForgeTypes => ~Weaker(now[k], ForgeRule(now[k].type))
    BY <1>1, <1>6, RaisedRules DEF Kept
  <1> QED
    BY <1>7, <1>8 DEF now

\* The merged ruleset enforces Forge's floor, and nothing in it is weaker than
\* what there was.
LEMMA RulesetMerged ==
    ASSUME NEW r \in Ruleset
    PROVE  Merged(r) \in Ruleset /\ ~Mismatched(Merged(r)) /\ AsStrict(Merged(r), r)
  <1> DEFINE rules == r.rules
             now == MergedRules(rules)
             include == r.include \cup {"default"}
             m == Merged(r)
  <1>1. rules \in Seq(BranchRule) /\ r.include \in SUBSET {"default", "release"}
    BY DEF Ruleset
  <1>2. /\ now \in Seq(BranchRule) /\ Len(now) >= Len(rules)
        /\ \A k \in 1 .. Len(rules) : NoWeaker(now[k], rules[k])
        /\ \A k \in 1 .. Len(now) : now[k].type \in ForgeTypes => ~Weaker(now[k], ForgeRule(now[k].type))
        /\ \A t \in ForgeTypes : Typed(now, t)
    BY <1>1, RulesMerged
  <1>3. include \in SUBSET {"default", "release"} /\ "default" \in include /\ r.include \subseteq include
    BY <1>1
  <1>4. m = [enforcement |-> "active", bypass |-> FALSE, include |-> include, exclude |-> FALSE, rules |-> now]
    BY DEF Merged
  <1> HIDE DEF rules, now, include, m
  <1>5. m \in Ruleset
    BY <1>2, <1>3, <1>4 DEF Ruleset
  <1>6. m.enforcement = "active" /\ m.bypass = FALSE /\ m.include = include /\ m.exclude = FALSE /\ m.rules = now
    BY <1>4
  <1>7. ~Mismatched(m)
    <2>1. ASSUME NEW t \in ForgeTypes
          PROVE  OfType(now, t) # {} /\ \A k \in OfType(now, t) : ~Weaker(now[k], ForgeRule(t))
      <3>1. DOMAIN now = 1 .. Len(now)
        BY <1>2
      <3>2. OfType(now, t) = {k \in 1 .. Len(now) : now[k].type = t}
        BY <3>1 DEF OfType
      <3> QED
        BY <1>2, <3>2 DEF Typed
    <2> QED
      BY <1>3, <1>5, <1>6, <2>1, Compared
  <1>8. AsStrict(m, r)
    <2>1. DOMAIN rules = 1 .. Len(rules)
      BY <1>1
    <2>2. \A k \in DOMAIN r.rules : NoWeaker(m.rules[k], r.rules[k])
      BY <1>2, <1>6, <2>1 DEF rules
    <2>3. r.include \subseteq m.include /\ m.enforcement = "active" /\ Len(m.rules) >= Len(r.rules)
      BY <1>2, <1>3, <1>6 DEF rules
    <2> QED
      BY <2>2, <2>3 DEF AsStrict, NoWeaker
  <1> QED
    BY <1>5, <1>7, <1>8 DEF m

LEMMA PayloadSound == Payload \in Ruleset /\ ~Mismatched(Payload)
  <1> DEFINE include == {"default"}
             rules == ForgeRules
             p == Payload
  <1>1. rules \in Seq(BranchRule) /\ Len(rules) = 3
    BY ForgeRulesTyped
  <1>2. include \in SUBSET {"default", "release"} /\ "default" \in include
    OBVIOUS
  <1>3. p = [enforcement |-> "active", bypass |-> FALSE, include |-> include, exclude |-> FALSE, rules |-> rules]
    BY DEF Payload
  <1>4. ASSUME NEW t \in ForgeTypes
        PROVE  OfType(rules, t) # {} /\ \A k \in OfType(rules, t) : ~Weaker(rules[k], ForgeRule(t))
    <2>1. DOMAIN rules = 1 .. 3
      BY <1>1
    <2>2. \A k \in 1 .. 3 : rules[k].type \in ForgeTypes /\ rules[k] = ForgeRule(rules[k].type)
      BY ForgeRulesTyped, ForgeRuleIs
    <2>3. \E k \in 1 .. 3 : rules[k].type = t
      <3>1. rules[1].type = "deletion" /\ rules[2].type = "pull_request" /\ rules[3].type = "checks"
        BY ForgeRulesTyped, ForgeRuleIs
      <3>2. 1 \in 1 .. 3 /\ 2 \in 1 .. 3 /\ 3 \in 1 .. 3
        OBVIOUS
      <3> QED
        BY <3>1, <3>2, ForgeRuleIs
    <2>4. ~Weaker(ForgeRule(t), ForgeRule(t))
      BY ForgeRulesTyped
    <2>5. OfType(rules, t) = {k \in 1 .. 3 : rules[k].type = t}
      BY <2>1 DEF OfType
    <2> QED
      BY <2>2, <2>3, <2>4, <2>5
  <1> HIDE DEF include, rules, p
  <1>5. p \in Ruleset
    BY <1>1, <1>2, <1>3 DEF Ruleset
  <1>6. p.enforcement = "active" /\ p.bypass = FALSE /\ p.include = include /\ p.exclude = FALSE /\ p.rules = rules
    BY <1>3
  <1>7. ~Mismatched(p)
    BY <1>2, <1>4, <1>5, <1>6, Compared
  <1> QED
    BY <1>5, <1>7 DEF p

\* What a run that is under way has done, and what is still as it left it.
SettingsInv ==
    /\ remote \in Ruleset \cup {Absent} /\ seenRules \in Ruleset \cup {Absent}
    /\ settled \in BOOLEAN /\ applied \in BOOLEAN
    /\ step \in {"idle", "labels", "ruleset", "variables"}
    /\ step \in {"ruleset", "variables"} => labelled
    /\ settled => remote \in Ruleset /\ ~Mismatched(remote)
    /\ applied => labelled /\ Names \subseteq variables /\ remote \in Ruleset /\ ~Mismatched(remote)

LEMMA SettingsInitial == SettingsInit => SettingsInv
  BY DEF SettingsInit, SettingsInv

\* Administrators edit rulesets into rulesets, and end what a run had settled.
LEMMA SettingsEdited ==
    ASSUME SettingsInv, Edit
    PROVE  SettingsInv'
  <1>1. PICK new : Administer(new)
    BY Zenon DEF Edit
  <1>2. Rule \subseteq BranchRule
    <2>1. {[type |-> "deletion"], [type |-> "pattern"]} \subseteq BranchRule
      BY DEF BranchRule
    <2>2. [type : {"pull_request"}, approvals : {0, Approvals + 1}, dismiss : BOOLEAN, owners : BOOLEAN] \subseteq BranchRule
      <3>1. {0, Approvals + 1} \subseteq Nat
        BY SettingsAssumption
      <3> QED
        BY <3>1 DEF BranchRule
    <2>3. ASSUME NEW S \in SUBSET (SUBSET Check)
          PROVE  [type : {"checks"}, strict : BOOLEAN, checks : S] \subseteq BranchRule
      BY DEF BranchRule
    <2>4. {{}, {[context |-> "test", app |-> "any"], GateBound},
           {[context |-> "lint", app |-> "foreign"]}, {GateBound}} \in SUBSET (SUBSET Check)
      BY GateIsCheck DEF Check
    <2> QED
      BY <2>1, <2>2, <2>3, <2>4 DEF Rule
  <1>3. \A x \in Ruleset, q \in BranchRule :
            /\ [x EXCEPT !.rules = <<q>>] \in Ruleset
            /\ [x EXCEPT !.rules = Append(@, q)] \in Ruleset
            /\ x.rules # <<>> => [x EXCEPT !.rules = Tail(@)] \in Ruleset
    <2> TAKE x \in Ruleset, q \in BranchRule
    <2>1. x.rules \in Seq(BranchRule)
      BY DEF Ruleset
    <2>2. /\ <<q>> \in Seq(BranchRule) /\ Append(x.rules, q) \in Seq(BranchRule)
          /\ x.rules # <<>> => Tail(x.rules) \in Seq(BranchRule)
      BY <2>1
    <2>3. \A s \in Seq(BranchRule) : [x EXCEPT !.rules = s] \in Ruleset
      BY DEF Ruleset
    <2> QED
      BY <2>2, <2>3
  <1>4. \A x \in Ruleset :
            /\ [x EXCEPT !.enforcement = "evaluate"] \in Ruleset /\ [x EXCEPT !.bypass = TRUE] \in Ruleset
            /\ [x EXCEPT !.exclude = TRUE] \in Ruleset
            /\ \A i \in SUBSET {"default", "release"} : [x EXCEPT !.include = i] \in Ruleset
    BY DEF Ruleset
  <1>5. remote' \in Ruleset \cup {Absent}
    <2>1. CASE Administer(Absent)
      BY <2>1 DEF Administer
    <2>2. CASE remote = Absent /\ \E q \in Rule : Administer([Payload EXCEPT !.rules = <<q>>])
      <3>1. PICK q \in Rule : remote' = [Payload EXCEPT !.rules = <<q>>]
        BY <2>2, Zenon DEF Administer
      <3> QED
        BY <1>2, <1>3, <3>1, PayloadSound
    <2>3. CASE remote # Absent
      <3>1. remote \in Ruleset
        BY <2>3 DEF SettingsInv
      <3>2. CASE \E q \in Rule : Administer([remote EXCEPT !.rules = Append(@, q)])
        <4>1. PICK q \in Rule : remote' = [remote EXCEPT !.rules = Append(@, q)]
          BY <3>2, Zenon DEF Administer
        <4> QED
          BY <1>2, <1>3, <3>1, <4>1
      <3>3. CASE remote.rules # <<>> /\ Administer([remote EXCEPT !.rules = Tail(@)])
        <4>1. remote' = [remote EXCEPT !.rules = Tail(@)]
          BY <3>3, Zenon DEF Administer
        <4>2. ForgeRule("deletion") \in BranchRule
          BY ForgeRuleIs, ForgeRulesTyped
        <4> QED
          BY <1>3, <3>1, <3>3, <4>1, <4>2
      <3>4. CASE \/ Administer([remote EXCEPT !.enforcement = "evaluate"])
                 \/ Administer([remote EXCEPT !.bypass = TRUE])
                 \/ \E i \in SUBSET {"default", "release"} : Administer([remote EXCEPT !.include = i])
                 \/ Administer([remote EXCEPT !.exclude = TRUE])
        <4>1. \/ remote' = [remote EXCEPT !.enforcement = "evaluate"]
              \/ remote' = [remote EXCEPT !.bypass = TRUE]
              \/ \E i \in SUBSET {"default", "release"} : remote' = [remote EXCEPT !.include = i]
              \/ remote' = [remote EXCEPT !.exclude = TRUE]
          BY <3>4, Zenon DEF Administer
        <4> QED
          BY <1>4, <3>1, <4>1
      <3>5. CASE Administer(Absent)
        BY <3>5 DEF Administer
      <3>6. CASE remote = Absent
        BY <2>3, <3>6
      <3> QED
        BY <3>2, <3>3, <3>4, <3>5, <3>6, Zenon DEF Edit
    <2> QED
      BY <2>1, <2>2, <2>3, Zenon DEF Edit
  <1>6. /\ settled' = FALSE /\ applied' = FALSE /\ step' = step /\ labelled' = labelled
        /\ seenRules' = seenRules
    BY <1>1 DEF Administer
  <1> QED
    BY <1>5, <1>6 DEF SettingsInv

LEMMA SettingsStep ==
    ASSUME SettingsInv, [SettingsNext]_settingsVars
    PROVE  SettingsInv'
  <1>1. CASE Begin
    <2>1. /\ remote' = remote /\ seenRules' \in {remote, seenRules} /\ step' \in {"labels", "idle"}
          /\ settled' = FALSE /\ applied' = FALSE
      BY <1>1 DEF Begin
    <2> QED
      BY <2>1 DEF SettingsInv
  <1>2. CASE Raise
    BY <1>2 DEF Raise, SettingsInv
  <1>3. CASE Label
    BY <1>3 DEF Label, SettingsInv
  <1>4. CASE Create
    <2>1. CASE remote = Absent
      <3>1. /\ step = "ruleset" /\ remote' = Payload /\ step' = "variables" /\ settled' = TRUE
            /\ labelled' = labelled /\ variables' = variables /\ seenRules' = seenRules /\ applied' = applied
        BY <1>4, <2>1 DEF Create
      <3>2. Payload \in Ruleset /\ ~Mismatched(Payload)
        BY PayloadSound
      <3> QED
        BY <3>1, <3>2 DEF SettingsInv
    <2>2. CASE remote # Absent
      <3>1. /\ remote' = remote /\ step' = "idle" /\ settled' = settled
            /\ labelled' = labelled /\ variables' = variables /\ seenRules' = seenRules /\ applied' = applied
        BY <1>4, <2>2 DEF Create
      <3> QED
        BY <3>1 DEF SettingsInv
    <2> QED
      BY <2>1, <2>2
  <1>5. CASE Update
    <2>1. /\ step = "ruleset" /\ seenRules # Absent
          /\ labelled' = labelled /\ variables' = variables /\ seenRules' = seenRules /\ applied' = applied
      BY <1>5 DEF Update
    <2>2. seenRules \in Ruleset
      BY <2>1 DEF SettingsInv
    <2>3. CASE ~Mismatched(seenRules)
      <3>1. step' = "variables" /\ settled' = (remote = seenRules) /\ remote' = remote
        BY <1>5, <2>3 DEF Update
      <3> QED
        BY <2>1, <2>2, <2>3, <3>1 DEF SettingsInv
    <2>4. CASE Mismatched(seenRules) /\ remote = Absent
      <3>1. step' = "idle" /\ settled' = settled /\ remote' = remote
        BY <1>5, <2>4 DEF Update
      <3> QED
        BY <2>1, <3>1 DEF SettingsInv
    <2>5. CASE Mismatched(seenRules) /\ remote # Absent
      <3>1. step' = "variables" /\ settled' = TRUE /\ remote' = Merged(seenRules)
        BY <1>5, <2>5 DEF Update
      <3>2. Merged(seenRules) \in Ruleset /\ ~Mismatched(Merged(seenRules))
        BY <2>2, RulesetMerged
      <3> QED
        BY <2>1, <3>1, <3>2 DEF SettingsInv
    <2> QED
      BY <2>3, <2>4, <2>5
  <1>6. CASE SetVariables
    <2>1. /\ step = "variables" /\ variables' = variables \cup Names /\ step' = "idle" /\ applied' = settled
          /\ remote' = remote /\ labelled' = labelled /\ seenRules' = seenRules /\ settled' = settled
      BY <1>6 DEF SetVariables
    <2> QED
      BY <2>1 DEF SettingsInv
  <1>7. CASE Edit
    BY <1>7, SettingsEdited
  <1>8. CASE UNCHANGED settingsVars
    BY <1>8 DEF settingsVars, SettingsInv
  <1> QED
    BY <1>1, <1>2, <1>3, <1>4, <1>5, <1>6, <1>7, <1>8 DEF SettingsNext

(***************************************************************************)
(* A run of `onboard --apply` that came to its end leaves a ruleset that   *)
(* enforces what Forge requires, for every number of approvals, whatever   *)
(* calls failed and whatever administrators edited before and between; it  *)
(* weakens no rule it had read; and doctor is content with no ruleset that *)
(* enforces less (apply_repo_settings, merged_ruleset, ruleset_mismatches).*)
(***************************************************************************)
THEOREM SettingsHold == SettingsSpec => []SettingsEnforced
  <1>1. SettingsInit => SettingsInv
    BY SettingsInitial
  <1>2. SettingsInv /\ [SettingsNext]_settingsVars => SettingsInv'
    BY SettingsStep
  <1>3. SettingsInv => SettingsEnforced
    <2> SUFFICES ASSUME SettingsInv PROVE SettingsEnforced
      OBVIOUS
    <2>1. Absent \notin Ruleset
      BY SettingsAssumption
    <2>2. remote # Absent /\ ~Mismatched(remote) => Enforces(remote)
      BY ContentEnforces DEF SettingsInv
    <2>3. applied => /\ labelled /\ Names \subseteq variables /\ remote # Absent
                     /\ Enforces(remote) /\ ~Mismatched(remote)
      BY <2>1, <2>2 DEF SettingsInv
    <2>4. seenRules # Absent => AsStrict(Merged(seenRules), seenRules)
      BY RulesetMerged DEF SettingsInv
    <2> QED
      BY <2>2, <2>3, <2>4 DEF SettingsEnforced
  <1> QED
    BY <1>1, <1>2, <1>3, PTL DEF SettingsSpec

-----------------------------------------------------------------------------
(* `doctor`: the walk of the platform's reusable workflows.                *)

\* A set of numbers has a smallest one.
LEMMA Smallest ==
    ASSUME NEW S \in SUBSET Nat, S # {}
    PROVE  \E n \in S : \A m \in S : n <= m
  <1>1. PICK n \in S : \A m \in S : ~(<<m, n>> \in OpToRel(<, Nat))
    BY NatLessThanWellFounded, WFMin
  <1>2. \A m \in S : ~(m < n)
    BY <1>1 DEF OpToRel
  <1> QED
    BY <1>2

\* A stack's members; what is pushed in any order is among them.
LEMMA Ordering ==
    ASSUME NEW S, IsFiniteSet(S)
    PROVE  SetToSeq(S) \in Seq(S) /\ Range(SetToSeq(S)) = S
  <1> DEFINE n == Cardinality(S)
             s == SetToSeq(S)
  <1>1. n \in Nat /\ \E f : f \in Bijection(1 .. n, S)
    BY FS_CardinalityType DEF ExistsBijection
  <1>2. \E f \in [1 .. n -> S] : IsInjective(f)
    <2> HIDE DEF n
    <2> QED BY <1>1 DEF Bijection, Injection
  <1>3. s \in [1 .. n -> S] /\ IsInjective(s)
    <2>1. s = CHOOSE f \in [1 .. n -> S] : IsInjective(f)
      BY DEF SetToSeq
    <2> HIDE DEF n, s
    <2> QED BY <1>2, <2>1
  <1>4. IsFiniteSet(1 .. n) /\ Cardinality(1 .. n) = n
    <2> HIDE DEF n
    <2>1. IsFiniteSet(1 .. n) /\ Cardinality(1 .. n) = IF 1 > n THEN 0 ELSE n - 1 + 1
      BY <1>1, FS_Interval
    <2> QED BY <1>1, <2>1
  <1>5. s \in Surjection(1 .. n, S)
    <2> HIDE DEF s
    <2>1. s \in Injection(1 .. n, S)
      BY <1>3 DEF Injection
    <2>2. Cardinality(1 .. n) = Cardinality(S)
      BY <1>4
    <2> HIDE DEF n
    <2> QED BY <2>1, <2>2, FS_Injection
  <1> HIDE DEF s, n
  <1>6. s \in Seq(S)
    BY <1>1, <1>3
  <1>7. Range(s) = S
    BY <1>3, <1>5 DEF Range, Surjection
  <1> QED
    BY <1>6, <1>7 DEF s

LEMMA Popped ==
    ASSUME NEW X, NEW s \in Seq(X), s # <<>>
    PROVE  /\ Last(s) \in X /\ Last(s) \in Range(s)
           /\ Front(s) \in Seq(X) /\ Range(s) = Range(Front(s)) \cup {Last(s)}
  <1> DEFINE n == Len(s)
             t == Front(s)
  <1>1. n \in Nat \ {0} /\ DOMAIN s = 1 .. n /\ \A i \in 1 .. n : s[i] \in X
    OBVIOUS
  <1>2. Last(s) = s[n] /\ n \in 1 .. n
    BY <1>1 DEF Last
  <1>3. t \in Seq(X) /\ DOMAIN t = 1 .. n - 1 /\ \A i \in 1 .. n - 1 : t[i] = s[i]
    BY <1>1 DEF Front
  <1> HIDE DEF n, t
  <1>4. Range(s) = Range(t) \cup {s[n]}
    <2>1. \A i \in 1 .. n : i \in 1 .. n - 1 \/ i = n
      BY <1>1
    <2>2. \A i \in 1 .. n - 1 : i \in 1 .. n
      BY <1>1
    <2> QED BY <1>1, <1>2, <1>3, <2>1, <2>2 DEF Range
  <1> QED
    BY <1>1, <1>2, <1>3, <1>4 DEF t, Range

LEMMA Pushed ==
    ASSUME NEW X, NEW s \in Seq(X), NEW S \in SUBSET X, IsFiniteSet(S)
    PROVE  s \o SetToSeq(S) \in Seq(X) /\ Range(s \o SetToSeq(S)) = Range(s) \cup S
  <1> DEFINE t == SetToSeq(S)
             u == s \o t
             n == Len(s)
             m == Len(t)
  <1>1. t \in Seq(S) /\ Range(t) = S
    BY Ordering
  <1> HIDE DEF t
  <1>2. t \in Seq(X)
    BY <1>1
  <1>3. /\ n \in Nat /\ m \in Nat /\ DOMAIN s = 1 .. n /\ DOMAIN t = 1 .. m
        /\ u \in Seq(X) /\ DOMAIN u = 1 .. n + m
        /\ \A i \in 1 .. n + m : u[i] = IF i <= n THEN s[i] ELSE t[i - n]
    BY <1>2
  <1> HIDE DEF u, n, m
  <1>4. ASSUME NEW x PROVE x \in Range(u) <=> x \in Range(s) \cup Range(t)
    <2>1. ASSUME NEW i \in 1 .. n + m, x = u[i] PROVE x \in Range(s) \cup Range(t)
      <3>1. CASE i <= n
        BY <1>3, <2>1, <3>1 DEF Range
      <3>2. CASE ~(i <= n)
        <4>1. i - n \in 1 .. m /\ x = t[i - n]
          BY <1>3, <2>1, <3>2
        <4> QED BY <1>3, <4>1 DEF Range
      <3> QED BY <3>1, <3>2
    <2>2. ASSUME NEW i \in 1 .. n, x = s[i] PROVE x \in Range(u)
      <3>1. i \in 1 .. n + m /\ i <= n
        BY <1>3
      <3> QED BY <1>3, <2>2, <3>1 DEF Range
    <2>3. ASSUME NEW i \in 1 .. m, x = t[i] PROVE x \in Range(u)
      <3>1. i + n \in 1 .. n + m /\ ~(i + n <= n) /\ (i + n) - n = i
        BY <1>3
      <3> QED BY <1>3, <2>3, <3>1 DEF Range
    <2> QED BY <1>3, <2>1, <2>2, <2>3 DEF Range
  <1> QED
    BY <1>1, <1>3, <1>4 DEF u, t

LEMMA NothingHeld == Range(<<>>) = {}
  BY DEF Range

\* A recursion that goes up from a number has a value for each.
Climbs(f, x, advance, a, b) == \A n \in a .. b : f[n] = IF n = a THEN x ELSE advance[f[n - 1]]

LEMMA Iterates ==
    ASSUME NEW D, NEW advance \in [D -> D], NEW x \in D, NEW a \in Nat, NEW b \in Nat
    PROVE  \E f \in [a .. b -> D] : Climbs(f, x, advance, a, b)
  <1> DEFINE Goes(f, m) == /\ f \in [a .. m -> D]
                           /\ \A n \in a .. m : f[n] = IF n = a THEN x ELSE advance[f[n - 1]]
             Bad == {m \in Nat : ~\E f : Goes(f, m)}
  <1>1. SUFFICES ASSUME Bad # {} PROVE FALSE
    <2>1. ASSUME Bad = {} PROVE \E f : Goes(f, b)
      <3> HIDE DEF Goes
      <3> QED BY <2>1
    <2>2. Bad = {} => \E f \in [a .. b -> D] : Climbs(f, x, advance, a, b)
      BY <2>1 DEF Climbs
    <2> QED BY <2>2
  <1>2. PICK m \in Bad : \A k \in Bad : m <= k
    <2>1. Bad \in SUBSET Nat
      OBVIOUS
    <2> HIDE DEF Bad
    <2> QED BY <1>1, <2>1, Smallest
  <1>3. CASE m <= a
    <2> DEFINE f == [n \in a .. m |-> x]
    <2>1. \A n \in a .. m : n = a
      BY <1>3
    <2>3. Goes(f, m)
      <3>1. f \in [a .. m -> D] /\ \A n \in a .. m : f[n] = x
        OBVIOUS
      <3> HIDE DEF f
      <3> QED BY <2>1, <3>1
    <2> HIDE DEF f, Goes
    <2> QED BY <1>2, <2>3
  <1>4. CASE ~(m <= a)
    <2>1. m \in Nat /\ m - 1 \in Nat /\ m - 1 < m /\ a <= m - 1
      BY <1>2, <1>4
    <2>2. PICK g : Goes(g, m - 1)
      <3>1. m - 1 \notin Bad
        <4> HIDE DEF Bad
        <4> QED BY <1>2, <2>1
      <3> HIDE DEF Goes
      <3> QED BY <2>1, <3>1
    <2>3. \A n \in a .. m - 1 : g[n] = (IF n = a THEN x ELSE advance[g[n - 1]]) /\ g[n] \in D
      BY <2>2
    <2> DEFINE f == [n \in a .. m |-> IF n = m THEN advance[g[m - 1]] ELSE g[n]]
    <2>4. m - 1 \in a .. m - 1 /\ g[m - 1] \in D
      BY <2>1, <2>3
    <2>5. \A n \in a .. m : f[n] = (IF n = a THEN x ELSE advance[f[n - 1]]) /\ f[n] \in D
      <3> SUFFICES ASSUME NEW n \in a .. m
                   PROVE  f[n] = (IF n = a THEN x ELSE advance[f[n - 1]]) /\ f[n] \in D
        OBVIOUS
      <3>1. CASE n = m
        <4>1. f[n] = advance[g[m - 1]] /\ f[m - 1] = g[m - 1] /\ n # a
          BY <2>1, <3>1
        <4> HIDE DEF f
        <4> QED BY <4>1, <2>4, <3>1
      <3>2. CASE n # m
        <4>1. n \in a .. m - 1 /\ f[n] = g[n]
          BY <2>1, <3>2
        <4>2. CASE n = a
          <5> HIDE DEF f
          <5> QED BY <4>1, <4>2, <2>3
        <4>3. CASE n # a
          <5>1. n - 1 \in a .. m /\ n - 1 # m
            BY <2>1, <3>2, <4>3
          <5>2. f[n - 1] = g[n - 1]
            BY <5>1
          <5> HIDE DEF f
          <5> QED BY <4>1, <4>3, <5>2, <2>3
        <4> QED BY <4>2, <4>3
      <3> QED BY <3>1, <3>2
    <2>6. Goes(f, m)
      <3>1. f = [n \in a .. m |-> f[n]]
        OBVIOUS
      <3> HIDE DEF f
      <3> QED BY <2>5, <3>1
    <2> HIDE DEF f, Goes
    <2> QED BY <1>2, <2>6
  <1> QED
    <2>1. m \in Nat
      BY <1>2
    <2> QED BY <1>3, <1>4

-----------------------------------------------------------------------------
(* Chains of calls.                                                        *)

Job == [to : Callee \cup {Beyond, NoCall}, asks : Level \cup {Inherit}]

ChainRecord == [files : Seq(Callee), level : Level]

First(r) == [files |-> <<r>>, level |-> grant]

LEMMA JobTyped ==
    ASSUME PlatformInit, NEW f \in Callee, NEW j \in jobs[f]
    PROVE  /\ j.to \in Callee \cup {Beyond, NoCall} /\ j.asks \in Level \cup {Inherit}
           /\ \A l \in Level : Effective(j, l) \in Level /\ Effective(j, l) <= l
  <1>1. j \in Job
    BY DEF PlatformInit, Job
  <1>2. j.to \in Callee \cup {Beyond, NoCall} /\ j.asks \in Level \cup {Inherit}
    BY <1>1 DEF Job
  <1> QED
    BY <1>2 DEF Effective, Level

LEMMA JobsFinite == ASSUME PlatformInit, NEW f \in Callee PROVE IsFiniteSet(jobs[f])
  <1> DEFINE A == Callee \cup {Beyond, NoCall}
             B == Level \cup {Inherit}
             g == [p \in A \X B |-> [to |-> p[1], asks |-> p[2]]]
  <1>1. IsFiniteSet(A)
    <2>1. IsFiniteSet(Callee) /\ IsFiniteSet({Beyond}) /\ IsFiniteSet({NoCall})
      BY CalleeAssumption, FS_Singleton
    <2>2. IsFiniteSet(Callee \cup {Beyond})
      BY <2>1, FS_AddElement
    <2>3. IsFiniteSet((Callee \cup {Beyond}) \cup {NoCall})
      BY <2>2, FS_AddElement
    <2>4. A = (Callee \cup {Beyond}) \cup {NoCall}
      OBVIOUS
    <2> QED BY <2>3, <2>4
  <1>2. IsFiniteSet(B)
    <2>1. IsFiniteSet(Level)
      <3>1. IsFiniteSet({0}) /\ IsFiniteSet({0} \cup {1}) /\ IsFiniteSet(({0} \cup {1}) \cup {2})
        BY FS_Singleton, FS_AddElement
      <3>2. Level = ({0} \cup {1}) \cup {2}
        BY DEF Level
      <3> QED BY <3>1, <3>2
    <2> QED BY <2>1, FS_AddElement
  <1>3. IsFiniteSet(A \X B)
    <2> HIDE DEF A, B
    <2> QED BY <1>1, <1>2, FS_Product
  <1>4. \A j \in Job : \E p \in A \X B : g[p] = j
    <2> SUFFICES ASSUME NEW j \in Job PROVE \E p \in A \X B : g[p] = j
      OBVIOUS
    <2>1. j.to \in A /\ j.asks \in B /\ j = [to |-> j.to, asks |-> j.asks]
      BY DEF Job
    <2>2. <<j.to, j.asks>> \in A \X B /\ g[<<j.to, j.asks>>] = [to |-> j.to, asks |-> j.asks]
      BY <2>1
    <2> HIDE DEF g
    <2> QED BY <2>1, <2>2
  <1>5. g \in [A \X B -> Job]
    <2>1. \A p \in A \X B : [to |-> p[1], asks |-> p[2]] \in Job
      BY DEF Job
    <2> HIDE DEF A, B
    <2> QED BY <2>1
  <1> HIDE DEF g, A, B
  <1>6. g \in Surjection(A \X B, Job)
    BY <1>4, <1>5 DEF Surjection
  <1>7. IsFiniteSet(Job)
    BY <1>3, <1>6, FS_Surjection
  <1>8. jobs[f] \subseteq Job
    BY DEF PlatformInit, Job
  <1> QED
    BY <1>7, <1>8, FS_Subset

LEMMA FollowTyped ==
    ASSUME PlatformInit, NEW c \in ChainRecord, c.files # <<>>, NEW j \in jobs[Last(c.files)], j.to \in Callee
    PROVE  /\ Follow(c, j) \in ChainRecord /\ Follow(c, j).files # <<>>
           /\ Len(Follow(c, j).files) = Len(c.files) + 1
           /\ \A i \in 1 .. Len(c.files) : Follow(c, j).files[i] = c.files[i]
           /\ Follow(c, j).files[Len(c.files) + 1] = j.to
           /\ Last(Follow(c, j).files) = j.to /\ Follow(c, j).level = Effective(j, c.level)
           /\ Range(Follow(c, j).files) = Range(c.files) \cup {j.to}
  <1> DEFINE s == c.files
             t == Follow(c, j).files
             n == Len(c.files)
  <1>1. s \in Seq(Callee) /\ c.level \in Level /\ n \in Nat \ {0} /\ DOMAIN s = 1 .. n
    BY DEF ChainRecord
  <1>2. Last(s) \in Callee
    BY <1>1 DEF Last
  <1>3. Effective(j, c.level) \in Level
    BY <1>1, <1>2, JobTyped
  <1>4. t = Append(s, j.to) /\ Follow(c, j).level = Effective(j, c.level)
        /\ Follow(c, j) = [files |-> t, level |-> Effective(j, c.level)]
    BY DEF Follow
  <1> HIDE DEF s, t, n
  <1>5. /\ t \in Seq(Callee) /\ Len(t) = n + 1 /\ DOMAIN t = 1 .. n + 1
        /\ t[n + 1] = j.to /\ \A i \in 1 .. n : t[i] = s[i]
    BY <1>1, <1>4 DEF n
  <1>6. t # <<>> /\ Last(t) = j.to
    BY <1>1, <1>5 DEF Last
  <1>7. Range(t) = Range(s) \cup {j.to}
    <2>1. \A i \in 1 .. n + 1 : i \in 1 .. n \/ i = n + 1
      BY <1>1
    <2>2. n + 1 \in 1 .. n + 1 /\ \A i \in 1 .. n : i \in 1 .. n + 1
      BY <1>1
    <2> QED BY <1>1, <1>5, <2>1, <2>2 DEF Range
  <1>8. Follow(c, j) \in ChainRecord
    BY <1>3, <1>4, <1>5 DEF ChainRecord
  <1> QED
    BY <1>4, <1>5, <1>6, <1>7, <1>8 DEF s, t, n

\* Chains are built file by file, up to a length.
LEMMA ChainsBuilt ==
    ASSUME PlatformInit
    PROVE  \E at : /\ Chains = UNION {at[n] : n \in RootLevel .. (MaxDepth + 1)}
                   /\ at[RootLevel] = {First(r) : r \in Roots}
                   /\ \A n \in RootLevel + 1 .. (MaxDepth + 1) : at[n] = Longer(at[n - 1])
                   /\ \A n \in RootLevel .. (MaxDepth + 1) :
                         at[n] \subseteq {c \in ChainRecord : c.files # <<>>}
  <1> DEFINE R == {c \in ChainRecord : c.files # <<>>}
             D == SUBSET R
             advance == [C \in D |-> Longer(C)]
             start == {First(r) : r \in Roots}
             body(f) == [n \in RootLevel .. (MaxDepth + 1) |->
                            IF n = RootLevel THEN {[files |-> <<r>>, level |-> grant] : r \in Roots}
                            ELSE Longer(f[n - 1])]
             at == CHOOSE f : f = body(f)
  <1>1. start \in D
    <2>1. ASSUME NEW r \in Roots PROVE First(r) \in R
      <3>1. <<r>> \in Seq(Callee) /\ <<r>> # <<>> /\ grant \in Level
        BY CalleeAssumption DEF PlatformInit
      <3>2. First(r) = [files |-> <<r>>, level |-> grant]
        BY DEF First
      <3>3. First(r) \in ChainRecord
        BY <3>1, <3>2 DEF ChainRecord
      <3>4. First(r).files = <<r>>
        BY <3>2
      <3> QED BY <3>1, <3>3, <3>4
    <2> HIDE DEF R
    <2> QED BY <2>1
  <1>2. \A C \in D : Longer(C) \in D
    <2> SUFFICES ASSUME NEW C \in D, NEW e \in Longer(C) PROVE e \in R
      OBVIOUS
    <2>1. PICK c \in C : \E j \in {k \in jobs[Last(c.files)] : k.to \in Callee} : e = Follow(c, j)
      BY DEF Longer
    <2>2. c \in ChainRecord /\ c.files # <<>>
      OBVIOUS
    <2> QED BY <2>1, <2>2, FollowTyped
  <1>3. advance \in [D -> D]
    <2> HIDE DEF D
    <2> QED BY <1>2
  <1>4. PICK f \in [RootLevel .. (MaxDepth + 1) -> D] : \A n \in RootLevel .. (MaxDepth + 1) :
           f[n] = IF n = RootLevel THEN start ELSE advance[f[n - 1]]
    <2> DEFINE high == MaxDepth + 1
    <2>1. RootLevel \in Nat /\ high \in Nat
      BY CalleeAssumption DEF RootLevel
    <2> HIDE DEF D, advance, start, high
    <2>2. \E f \in [RootLevel .. high -> D] : Climbs(f, start, advance, RootLevel, high)
      BY <1>1, <1>3, <2>1, Iterates
    <2> QED BY <2>2 DEF high, Climbs
  <1> DEFINE A == RootLevel .. (MaxDepth + 1)
  <1>5. \A n \in A : n # RootLevel => n - 1 \in A
    BY CalleeAssumption DEF RootLevel
  <1>6. f = body(f)
    <2>1. ASSUME NEW n \in A PROVE f[n] = body(f)[n]
      <3>1. CASE n = RootLevel
        BY <1>4, <3>1 DEF First
      <3>2. CASE n # RootLevel
        <4>1. f[n - 1] \in D
          BY <1>4, <1>5, <3>2
        <4>2. advance[f[n - 1]] = Longer(f[n - 1])
          BY <4>1
        <4> HIDE DEF advance
        <4> QED BY <1>4, <3>2, <4>2
      <3> QED BY <3>1, <3>2
    <2> DEFINE b == body(f)
    <2>2. f = [n \in A |-> f[n]] /\ b = [n \in A |-> b[n]] /\ \A n \in A : f[n] = b[n]
      BY <1>4, <2>1
    <2> HIDE DEF b, A, body
    <2>3. f = b
      BY <2>2
    <2> QED BY <2>3 DEF b
  <1>7. at = body(at)
    <2> HIDE DEF body
    <2> QED BY <1>6, Zenon
  <1>8. Chains = UNION {at[n] : n \in RootLevel .. (MaxDepth + 1)}
    BY DEF Chains
  <1> HIDE DEF at
  <1>9. \A n \in A : at[n] = IF n = RootLevel THEN start ELSE Longer(at[n - 1])
    <2>1. \A n \in A : body(at)[n] = IF n = RootLevel THEN start ELSE Longer(at[n - 1])
      BY DEF First
    <2> HIDE DEF body, start, A
    <2> QED BY <1>7, <2>1
  <1>10. RootLevel \in A /\ \A n \in RootLevel + 1 .. (MaxDepth + 1) : n \in A /\ n # RootLevel
    BY CalleeAssumption DEF RootLevel
  <1>11. ASSUME NEW n \in A PROVE at[n] \in D
    <2> DEFINE Bad == {m \in A : at[m] \notin D}
    <2>1. SUFFICES ASSUME Bad # {} PROVE FALSE
      OBVIOUS
    <2>2. Bad \in SUBSET Nat
      BY CalleeAssumption DEF RootLevel
    <2>3. PICK m \in Bad : \A k \in Bad : m <= k
      <3> HIDE DEF Bad
      <3> QED BY <2>1, <2>2, Smallest
    <2>4. m \in A /\ at[m] \notin D
      OBVIOUS
    <2>5. m # RootLevel
      <3> HIDE DEF D, start
      <3> QED BY <2>4, <1>1, <1>9
    <2>6. m - 1 \in A /\ ~(m <= m - 1)
      BY <2>4, <2>5, <1>5, CalleeAssumption DEF RootLevel
    <2>7. at[m - 1] \in D
      BY <2>3, <2>6
    <2> HIDE DEF D, A, Bad
    <2> QED BY <2>4, <2>5, <2>7, <1>2, <1>9
  <1> QED
    <2>1. at[RootLevel] = start
      BY <1>9, <1>10
    <2>2. \A n \in RootLevel + 1 .. (MaxDepth + 1) : at[n] = Longer(at[n - 1])
      BY <1>9, <1>10
    <2>3. \A n \in RootLevel .. (MaxDepth + 1) : at[n] \subseteq {c \in ChainRecord : c.files # <<>>}
      BY <1>11
    <2>4. at[RootLevel] = {First(r) : r \in Roots}
      BY <2>1
    <2> HIDE DEF R, A, D, start
    <2> QED BY <1>8, <2>2, <2>3, <2>4

LEMMA ChainTyped ==
    ASSUME PlatformInit
    PROVE  /\ \A c \in Chains : c \in ChainRecord /\ c.files # <<>>
           /\ \A r \in Roots : First(r) \in Chains
           /\ \A c \in Chains : Len(c.files) < MaxDepth /\ Last(c.files) \in readable =>
                 \A j \in jobs[Last(c.files)] : j.to \in Callee => Follow(c, j) \in Chains
  <1> DEFINE R == {c \in ChainRecord : c.files # <<>>}
             A == RootLevel .. (MaxDepth + 1)
  <1>1. PICK at : /\ Chains = UNION {at[n] : n \in A}
                  /\ at[RootLevel] = {First(r) : r \in Roots}
                  /\ \A n \in RootLevel + 1 .. (MaxDepth + 1) : at[n] = Longer(at[n - 1])
                  /\ \A n \in A : at[n] \subseteq R
    BY ChainsBuilt
  <1>2. RootLevel \in A /\ MaxDepth \in Nat /\ RootLevel = 2
    BY CalleeAssumption DEF RootLevel
  <1>3. \A c \in Chains : c \in R
    <2> HIDE DEF R, A
    <2> QED BY <1>1
  <1>4. \A r \in Roots : First(r) \in Chains
    <2> HIDE DEF R, A
    <2> QED BY <1>1, <1>2
  <1> DEFINE Bad == {n \in A : \E c \in at[n] : Len(c.files) + 1 # n}
  <1>5. Bad = {}
    <2>1. SUFFICES ASSUME Bad # {} PROVE FALSE
      OBVIOUS
    <2>2. Bad \in SUBSET Nat
      BY <1>2
    <2>3. PICK n \in Bad : \A k \in Bad : n <= k
      <3> HIDE DEF Bad
      <3> QED BY <2>1, <2>2, Smallest
    <2>4. PICK e \in at[n] : Len(e.files) + 1 # n
      OBVIOUS
    <2>5. n # RootLevel
      <3>1. SUFFICES ASSUME n = RootLevel PROVE FALSE
        OBVIOUS
      <3>2. PICK r \in Roots : e = First(r)
        BY <1>1, <2>4, <3>1
      <3>3. e.files = <<r>>
        BY <3>2 DEF First
      <3> QED BY <3>3, <2>4, <3>1, <1>2
    <2>6. n \in RootLevel + 1 .. (MaxDepth + 1) /\ n - 1 \in A /\ ~(n <= n - 1) /\ n \in Nat
      BY <2>3, <2>5, <1>2
    <2>7. n - 1 \notin Bad
      <3> HIDE DEF Bad
      <3> QED BY <2>3, <2>6
    <2>8. PICK c \in at[n - 1] : \E j \in {k \in jobs[Last(c.files)] : k.to \in Callee} : e = Follow(c, j)
      BY <1>1, <2>4, <2>6 DEF Longer
    <2>9. Len(c.files) + 1 = n - 1
      BY <2>6, <2>7, <2>8
    <2>10. c \in R
      <3> HIDE DEF R
      <3> QED BY <1>1, <2>6, <2>8
    <2>11. Len(e.files) = Len(c.files) + 1
      BY <2>8, <2>10, FollowTyped
    <2>12. Len(c.files) \in Nat
      BY <2>10 DEF ChainRecord
    <2> QED BY <2>4, <2>6, <2>9, <2>11, <2>12
  <1>6. ASSUME NEW c \in Chains, Len(c.files) < MaxDepth, Last(c.files) \in readable,
               NEW j \in jobs[Last(c.files)], j.to \in Callee
        PROVE  Follow(c, j) \in Chains
    <2>1. PICK n \in A : c \in at[n]
      <3> HIDE DEF A
      <3> QED BY <1>1
    <2>2. Len(c.files) + 1 = n
      BY <1>5, <2>1
    <2>3. Len(c.files) \in Nat
      BY <1>3 DEF ChainRecord
    <2>4. n + 1 \in RootLevel + 1 .. (MaxDepth + 1) /\ n + 1 \in A /\ (n + 1) - 1 = n
      BY <1>2, <1>6, <2>2, <2>3
    <2>5. Follow(c, j) \in Longer(at[n])
      BY <1>6, <2>1 DEF Longer
    <2>6. Follow(c, j) \in at[n + 1]
      BY <1>1, <2>4, <2>5
    <2> HIDE DEF A
    <2> QED BY <1>1, <2>4, <2>6
  <1> QED
    BY <1>3, <1>4, <1>6

\* What holds of the roots and is kept from a file to the one it calls holds of
\* every chain.
LEMMA ChainsHave ==
    ASSUME PlatformInit, NEW S, \A r \in Roots : First(r) \in S,
           \A c \in Chains : c \in S /\ Last(c.files) \in readable =>
              \A j \in jobs[Last(c.files)] : j.to \in Callee => Follow(c, j) \in S
    PROVE  Chains \subseteq S
  <1> DEFINE A == RootLevel .. (MaxDepth + 1)
  <1>1. PICK at : /\ Chains = UNION {at[n] : n \in A}
                  /\ at[RootLevel] = {First(r) : r \in Roots}
                  /\ \A n \in RootLevel + 1 .. (MaxDepth + 1) : at[n] = Longer(at[n - 1])
    BY ChainsBuilt
  <1>2. MaxDepth \in Nat /\ RootLevel = 2
    BY CalleeAssumption DEF RootLevel
  <1> DEFINE Bad == {n \in A : ~(at[n] \subseteq S)}
  <1>3. Bad = {}
    <2>1. SUFFICES ASSUME Bad # {} PROVE FALSE
      OBVIOUS
    <2>2. Bad \in SUBSET Nat
      BY <1>2
    <2>3. PICK n \in Bad : \A k \in Bad : n <= k
      <3> HIDE DEF Bad
      <3> QED BY <2>1, <2>2, Smallest
    <2>4. PICK e \in at[n] : e \notin S
      OBVIOUS
    <2>5. n # RootLevel
      BY <1>1, <2>4
    <2>6. n \in RootLevel + 1 .. (MaxDepth + 1) /\ n - 1 \in A /\ ~(n <= n - 1) /\ n \in Nat
      BY <2>3, <2>5, <1>2
    <2>7. n - 1 \notin Bad
      <3> HIDE DEF Bad
      <3> QED BY <2>3, <2>6
    <2>8. PICK c \in at[n - 1] : /\ Last(c.files) \in readable
                                 /\ \E j \in {k \in jobs[Last(c.files)] : k.to \in Callee} : e = Follow(c, j)
      BY <1>1, <2>4, <2>6 DEF Longer
    <2>9. c \in S
      BY <2>6, <2>7, <2>8
    <2>10. c \in Chains
      <3> HIDE DEF A
      <3> QED BY <1>1, <2>6, <2>8
    <2> QED BY <2>4, <2>8, <2>9, <2>10
  <1>4. \A n \in A : at[n] \subseteq S
    BY <1>3
  <1> HIDE DEF A
  <1> QED
    BY <1>1, <1>4

\* A chain that runs, and its last file's calls.
LEMMA RunsFacts ==
    ASSUME PlatformInit, NEW c \in Chains, Runs(c)
    PROVE  /\ Last(c.files) \in readable /\ Last(c.files) \in Callee /\ c.level \in Level
           /\ Len(c.files) \in Nat \ {0} /\ Len(c.files) + 1 <= MaxDepth
           /\ Beyond \notin Calls(Last(c.files))
           /\ \A j \in jobs[Last(c.files)] :
                 /\ j.asks # Inherit => j.asks <= c.level
                 /\ j.to \in Callee => Follow(c, j) \in Chains
  <1>1. c \in ChainRecord /\ c.files # <<>>
    BY ChainTyped
  <1>2. c.files \in Seq(Callee) /\ c.level \in Level /\ Len(c.files) \in Nat \ {0}
    BY <1>1 DEF ChainRecord
  <1>3. Last(c.files) \in Callee
    BY <1>2 DEF Last
  <1>4. Last(c.files) \in readable /\ Len(c.files) <= MaxDepth - RootLevel + 1 /\ Beyond \notin Calls(Last(c.files))
        /\ \A j \in jobs[Last(c.files)] : j.asks # Inherit => j.asks <= c.level
    BY DEF Runs
  <1>5. Len(c.files) + 1 <= MaxDepth /\ Len(c.files) < MaxDepth
    <2> DEFINE n == Len(c.files)
    <2>1. n \in Nat /\ n <= MaxDepth - 2 + 1 /\ MaxDepth \in Nat
      BY <1>2, <1>4, CalleeAssumption DEF RootLevel
    <2> HIDE DEF n
    <2>2. n + 1 <= MaxDepth /\ n < MaxDepth
      BY <2>1
    <2> QED BY <2>2 DEF n
  <1>6. \A j \in jobs[Last(c.files)] : j.to \in Callee => Follow(c, j) \in Chains
    BY <1>4, <1>5, ChainTyped
  <1> QED
    BY <1>2, <1>3, <1>4, <1>5, <1>6

-----------------------------------------------------------------------------
(* The invariant of the walk.                                              *)

StackEntry == [node : Callee, depth : RootLevel .. MaxDepth, path : SUBSET Callee]
TokenEntry == [node : Callee, ceiling : Level, path : SUBSET Callee]

WalkTypes ==
    /\ PlatformInit
    /\ todo \in Seq(StackEntry) /\ tokens \in Seq(TokenEntry)
    /\ docs \in SUBSET readable
    /\ expanded \in [Callee -> 0 .. MaxDepth] /\ edges \in [Callee -> SUBSET Callee]
    /\ \A x \in Range(todo) : x.node \in x.path /\ x.node \in docs
    /\ \A f \in Callee : expanded[f] > 0 => f \in docs
    /\ stage = "walk" => tokens = <<>> /\ seen = {} /\ over = {}
    /\ stage # "walk" => todo = <<>>
    /\ stage = "done" => tokens = <<>>

\* The file was expanded at this level or deeper, or waits for it.
MetAt(f, d) == expanded[f] >= d \/ \E x \in Range(todo) : x.node = f /\ x.depth >= d

\* Unless there is a gap, what a file calls is met one level deeper.
Followed == gaps = {} =>
    /\ \A r \in Roots : r \in docs /\ MetAt(r, RootLevel)
    /\ \A f \in Callee : expanded[f] > 0 =>
          /\ edges[f] = Calls(f) \cap Callee /\ Beyond \notin Calls(f)
          /\ \A t \in edges[f] : t \in docs /\ <<f, t>> \in called /\ MetAt(t, expanded[f] + 1)

\* The token of this level was walked through the file, or will be.
Walked(f, l) == <<f, l>> \in seen \/ \E x \in Range(tokens) : x.node = f /\ x.ceiling = l

Granted == gaps = {} /\ stage # "walk" =>
    /\ \A r \in Roots : Walked(r, grant)
    /\ \A f \in Callee, l \in Level : <<f, l>> \in seen =>
          \A j \in jobs[f] : /\ j.asks # Inherit /\ j.asks > l => f \in over
                             /\ j.to \in Callee => Walked(j.to, Effective(j, l))
    /\ \A x \in Range(tokens) :
          /\ IsFiniteSet(x.path) /\ Cardinality(x.path) + RootLevel <= expanded[x.node]
          /\ \A p \in x.path : expanded[p] < expanded[x.node]

\* Where every chain runs, what is met is on a chain and nothing is reported.
AllRun == \A c \in Chains : Runs(c)

SoundWalk == AllRun =>
    /\ gaps = {} /\ called \cap misfit = {} /\ over = {}
    /\ \A x \in Range(todo) : \E c \in Chains :
          Last(c.files) = x.node /\ Len(c.files) + 1 = x.depth /\ Range(c.files) = x.path
    /\ \A x \in Range(tokens) : \E c \in Chains : Last(c.files) = x.node /\ c.level = x.ceiling
    /\ \A f \in Callee : \A t \in edges[f] : \E c \in Chains : Last(c.files) = t

CalleeInv == WalkTypes /\ Followed /\ Granted /\ SoundWalk

LEMMA PlatformStands ==
    ASSUME UNCHANGED platform
    PROVE  /\ PlatformInit' <=> PlatformInit
           /\ jobs' = jobs /\ readable' = readable /\ grant' = grant /\ misfit' = misfit
           /\ Chains' = Chains /\ (AllRun' <=> AllRun)
           /\ \A f : Calls(f)' = Calls(f)
  <1>1. jobs' = jobs /\ readable' = readable /\ grant' = grant /\ misfit' = misfit
    BY DEF platform
  <1>2. \A f : Calls(f)' = Calls(f)
    BY <1>1 DEF Calls
  <1>3. Chains' = Chains
    BY <1>1 DEF Chains, Longer
  <1>4. \A c : Runs(c)' <=> Runs(c)
    BY <1>1 DEF Runs, Calls
  <1>5. AllRun' <=> AllRun
    BY <1>3, <1>4 DEF AllRun
  <1> QED
    BY <1>1, <1>2, <1>3, <1>5 DEF PlatformInit

LEMMA NoneWithin == IsFiniteSet({}) /\ Cardinality({}) = 0
  BY FS_EmptySet

LEMMA CalleeInvInit == PlatformInit /\ WalkInit => CalleeInv
  <1> SUFFICES ASSUME PlatformInit, WalkInit PROVE CalleeInv
    OBVIOUS
  <1> DEFINE S == {[node |-> r, depth |-> RootLevel, path |-> {r}] : r \in Roots \cap readable}
  <1>1. IsFiniteSet(S)
    <2> DEFINE g == [r \in Roots \cap readable |-> [node |-> r, depth |-> RootLevel, path |-> {r}]]
    <2>1. g \in Surjection(Roots \cap readable, S)
      BY DEF Surjection
    <2>2. IsFiniteSet(Roots \cap readable)
      BY CalleeAssumption, FS_Subset
    <2> HIDE DEF S, g
    <2> QED BY <2>1, <2>2, FS_Surjection
  <1>2. S \subseteq StackEntry
    BY CalleeAssumption DEF StackEntry, RootLevel
  <1>3. \A x \in S : x.node \in x.path /\ x.node \in Roots \cap readable /\ x.depth = RootLevel
    OBVIOUS
  <1>4. \A r \in Roots \cap readable : \E x \in S : x.node = r /\ x.depth >= RootLevel
    <2> SUFFICES ASSUME NEW r \in Roots \cap readable PROVE \E x \in S : x.node = r /\ x.depth >= RootLevel
      OBVIOUS
    <2>1. [node |-> r, depth |-> RootLevel, path |-> {r}] \in S
      OBVIOUS
    <2>2. RootLevel >= RootLevel
      BY DEF RootLevel
    <2> HIDE DEF S
    <2> QED BY <2>1, <2>2
  <1>5. \A x \in S : \E r \in Roots \cap readable : x = [node |-> r, depth |-> RootLevel, path |-> {r}]
    OBVIOUS
  <1>6. todo = SetToSeq(S)
    BY DEF WalkInit
  <1> HIDE DEF S
  <1>7. todo \in Seq(StackEntry) /\ Range(todo) = S
    <2>1. SetToSeq(S) \in Seq(S) /\ Range(SetToSeq(S)) = S
      BY <1>1, Ordering
    <2> QED BY <1>2, <1>6, <2>1
  <1>8. /\ docs = Roots \cap readable /\ gaps = {<<r, "unread">> : r \in Roots \ readable}
        /\ expanded = [f \in Callee |-> 0] /\ edges = [f \in Callee |-> {}] /\ called = {}
        /\ tokens = <<>> /\ seen = {} /\ over = {} /\ stage = "walk"
    BY DEF WalkInit
  <1>9. MaxDepth \in Nat /\ Roots \subseteq Callee
    BY CalleeAssumption
  <1>10. WalkTypes
    BY <1>3, <1>7, <1>8, <1>9 DEF WalkTypes
  <1>11. gaps = {} => Roots \subseteq readable
    BY <1>8
  <1>12. Followed
    BY <1>4, <1>7, <1>8, <1>11 DEF Followed, MetAt
  <1>13. Granted
    BY <1>8 DEF Granted
  <1>14. SoundWalk
    <2> SUFFICES ASSUME AllRun PROVE SoundWalk
      BY DEF SoundWalk
    <2>1. ASSUME NEW r \in Roots
          PROVE  /\ First(r) \in Chains /\ r \in readable /\ Last(First(r).files) = r
                 /\ Len(First(r).files) + 1 = 2 /\ Range(First(r).files) = {r}
      <3>1. First(r) \in Chains
        BY ChainTyped
      <3>2. First(r).files = <<r>>
        BY DEF First
      <3>3. Last(<<r>>) = r /\ Len(<<r>>) + 1 = 2 /\ Range(<<r>>) = {r}
        BY DEF Last, Range
      <3> QED BY <3>1, <3>2, <3>3, RunsFacts DEF AllRun
    <2>2. gaps = {}
      BY <1>8, <2>1
    <2>3. ASSUME NEW x \in Range(todo)
          PROVE  \E c \in Chains : Last(c.files) = x.node /\ Len(c.files) + 1 = x.depth /\ Range(c.files) = x.path
      <3>1. PICK r \in Roots \cap readable : x = [node |-> r, depth |-> RootLevel, path |-> {r}]
        BY <1>5, <1>7
      <3>2. x.node = r /\ x.depth = 2 /\ x.path = {r}
        BY <3>1 DEF RootLevel
      <3>3. First(r) \in Chains /\ Last(First(r).files) = r /\ Len(First(r).files) + 1 = 2 /\ Range(First(r).files) = {r}
        BY <2>1
      <3> QED BY <3>2, <3>3
    <2> QED BY <1>8, <2>2, <2>3, NothingHeld DEF SoundWalk
  <1> QED
    BY <1>10, <1>12, <1>13, <1>14 DEF CalleeInv

\* A call of a running chain's last file makes a running chain.
LEMMA CallRuns ==
    ASSUME PlatformInit, AllRun, NEW c \in Chains, NEW t \in Callee, t \in Calls(Last(c.files))
    PROVE  /\ t \in readable /\ t \notin Range(c.files) /\ <<Last(c.files), t>> \notin misfit
           /\ \E e \in Chains : /\ Last(e.files) = t /\ Len(e.files) = Len(c.files) + 1
                                /\ Len(e.files) + 1 <= MaxDepth
                                /\ Range(e.files) = Range(c.files) \cup {t}
  <1> DEFINE n == Len(c.files)
  <1>1. c \in ChainRecord /\ c.files # <<>>
    BY ChainTyped
  <1>2. Runs(c)
    BY DEF AllRun
  <1>3. PICK j \in jobs[Last(c.files)] : j.to = t
    BY DEF Calls
  <1> DEFINE e == Follow(c, j)
  <1>4. e \in Chains
    BY <1>2, <1>3, RunsFacts
  <1>5. Runs(e)
    BY <1>4 DEF AllRun
  <1>6. /\ Len(e.files) = n + 1 /\ \A i \in 1 .. n : e.files[i] = c.files[i]
        /\ e.files[n + 1] = t /\ Last(e.files) = t /\ Range(e.files) = Range(c.files) \cup {t}
        /\ e \in ChainRecord
    BY <1>1, <1>3, FollowTyped
  <1>7. Len(e.files) + 1 <= MaxDepth /\ t \in readable
    BY <1>4, <1>5, <1>6, RunsFacts
  <1>8. n \in Nat \ {0} /\ DOMAIN c.files = 1 .. n /\ Last(c.files) = c.files[n]
    BY <1>1 DEF ChainRecord, Last
  <1>9. DOMAIN e.files = 1 .. n + 1
    BY <1>6 DEF ChainRecord
  <1>10. IsInjective(e.files) /\ \A i \in 2 .. Len(e.files) : <<e.files[i - 1], e.files[i]>> \notin misfit
    BY <1>5 DEF Runs
  <1> HIDE DEF e, n
  <1>11. t \notin Range(c.files)
    <2>1. SUFFICES ASSUME NEW i \in 1 .. n, c.files[i] = t PROVE FALSE
      BY <1>8 DEF Range
    <2>2. i \in 1 .. n + 1 /\ n + 1 \in 1 .. n + 1 /\ i # n + 1
      BY <1>8
    <2> QED BY <1>6, <1>9, <1>10, <2>1, <2>2 DEF IsInjective
  <1>12. <<Last(c.files), t>> \notin misfit
    <2>1. n + 1 \in 2 .. n + 1 /\ (n + 1) - 1 = n /\ n \in 1 .. n
      BY <1>8
    <2>2. <<e.files[n], e.files[n + 1]>> \notin misfit
      BY <1>6, <1>10, <2>1
    <2> QED BY <1>6, <1>8, <2>1, <2>2
  <1> QED
    BY <1>4, <1>6, <1>7, <1>11, <1>12 DEF n

LEMMA KeepSkip == CalleeInv /\ Skip => CalleeInv'
  <1> SUFFICES ASSUME CalleeInv, Skip PROVE CalleeInv'
    OBVIOUS
  <1> DEFINE top == Last(todo)
  <1>1. WalkTypes /\ Followed /\ Granted /\ SoundWalk
    BY DEF CalleeInv
  <1>2. /\ stage = "walk" /\ todo # <<>> /\ todo' = Front(todo) /\ expanded[top.node] >= top.depth
        /\ UNCHANGED <<platform, expanded, docs, edges, called, gaps, tokens, seen, over, stage>>
    BY DEF Skip, Known
  <1>3. todo \in Seq(StackEntry)
    BY <1>1 DEF WalkTypes
  <1>4. top \in StackEntry /\ todo' \in Seq(StackEntry) /\ Range(todo) = Range(todo') \cup {top}
    BY <1>2, <1>3, Popped
  <1> HIDE DEF top
  <1>5. /\ PlatformInit' <=> PlatformInit
        /\ jobs' = jobs /\ readable' = readable /\ grant' = grant /\ misfit' = misfit
        /\ Chains' = Chains /\ (AllRun' <=> AllRun) /\ \A f : Calls(f)' = Calls(f)
    BY <1>2, PlatformStands
  <1>6. WalkTypes'
    BY <1>1, <1>2, <1>4, <1>5 DEF WalkTypes
  <1>7. ASSUME NEW f \in Callee, NEW d \in Nat, MetAt(f, d) PROVE MetAt(f, d)'
    <2>1. CASE expanded[f] >= d
      BY <1>2, <2>1 DEF MetAt
    <2>2. CASE \E x \in Range(todo) : x.node = f /\ x.depth >= d
      <3>1. PICK x \in Range(todo) : x.node = f /\ x.depth >= d
        BY <2>2
      <3>2. CASE x = top
        <4>1. expanded[f] \in Nat /\ top.depth \in Nat
          BY <1>1, <1>4, CalleeAssumption DEF WalkTypes, StackEntry, RootLevel
        <4>2. expanded[f] >= d
          BY <1>2, <3>1, <3>2, <4>1
        <4> QED BY <1>2, <4>2 DEF MetAt
      <3>3. CASE x # top
        BY <1>4, <3>1, <3>3 DEF MetAt
      <3> QED BY <3>2, <3>3
    <2> QED BY <1>7, <2>1, <2>2 DEF MetAt
  <1>8. Followed'
    <2> SUFFICES ASSUME gaps' = {} PROVE Followed'
      BY DEF Followed
    <2>1. ASSUME NEW r \in Roots PROVE r \in docs' /\ MetAt(r, RootLevel)'
      BY <1>1, <1>2, <1>7, CalleeAssumption DEF Followed, RootLevel
    <2>2. ASSUME NEW f \in Callee, expanded'[f] > 0
          PROVE  /\ edges'[f] = Calls(f)' \cap Callee /\ Beyond \notin Calls(f)'
                 /\ \A t \in edges'[f] : t \in docs' /\ <<f, t>> \in called' /\ MetAt(t, expanded[f] + 1)'
      <3>1. /\ edges[f] = Calls(f) \cap Callee /\ Beyond \notin Calls(f)
            /\ \A t \in edges[f] : t \in docs /\ <<f, t>> \in called /\ MetAt(t, expanded[f] + 1)
        BY <1>1, <1>2, <2>2 DEF Followed
      <3>2. expanded[f] + 1 \in Nat
        BY <1>1, CalleeAssumption DEF WalkTypes
      <3>3. ASSUME NEW t \in edges[f] PROVE MetAt(t, expanded[f] + 1)'
        <4>1. PICK d \in Nat : d = expanded[f] + 1
          BY <3>2
        <4>2. t \in Callee /\ MetAt(t, d)
          BY <3>1, <4>1
        <4>3. MetAt(t, d)' /\ expanded'[f] + 1 = d
          BY <1>2, <1>7, <4>1, <4>2
        <4> QED BY <4>3 DEF MetAt
      <3> QED BY <1>2, <1>5, <3>1, <3>3
    <2> QED BY <1>2, <2>1, <2>2 DEF Followed
  <1>9. Granted'
    BY <1>2 DEF Granted
  <1>10. SoundWalk'
    BY <1>1, <1>2, <1>4, <1>5 DEF SoundWalk
  <1> QED
    BY <1>6, <1>8, <1>9, <1>10 DEF CalleeInv

LEMMA KeepExpand == CalleeInv /\ Expand => CalleeInv'
  <1> SUFFICES ASSUME CalleeInv, Expand PROVE CalleeInv'
    OBVIOUS
  <1> DEFINE top == Last(todo)
             to == Calls(top.node) \cap Callee
             looped == to \cap top.path
             deep == IF top.depth + 1 > MaxDepth THEN to \ looped ELSE {}
             met == to \ (looped \cup deep)
             loaded == met \cap readable
             S == {[node |-> t, depth |-> top.depth + 1, path |-> top.path \cup {t}] : t \in loaded}
  <1>1. WalkTypes /\ Followed /\ Granted /\ SoundWalk
    BY DEF CalleeInv
  <1>2. /\ stage = "walk" /\ todo # <<>> /\ ~(expanded[top.node] >= top.depth)
        /\ expanded' = [expanded EXCEPT ![top.node] = top.depth]
        /\ edges' = [edges EXCEPT ![top.node] = to]
        /\ called' = called \cup {<<top.node, t>> : t \in met}
        /\ docs' = docs \cup loaded
        /\ todo' = Front(todo) \o SetToSeq(S)
        /\ UNCHANGED <<platform, tokens, seen, over, stage>>
    BY DEF Expand, Known
  <1>3. gaps' = gaps
           \cup {<<top.node, "elsewhere">> : t \in Calls(top.node) \cap {Beyond}}
           \cup {<<top.node, "cycle">> : t \in looped}
           \cup {<<top.node, "deep">> : t \in deep}
           \cup {<<t, "unread">> : t \in met \ readable}
    BY DEF Expand
  <1>4. PlatformInit /\ todo \in Seq(StackEntry) /\ expanded \in [Callee -> 0 .. MaxDepth]
        /\ edges \in [Callee -> SUBSET Callee] /\ MaxDepth \in Nat
    BY <1>1, CalleeAssumption DEF WalkTypes
  <1>5. top \in StackEntry /\ top \in Range(todo) /\ Front(todo) \in Seq(StackEntry)
        /\ Range(todo) = Range(Front(todo)) \cup {top}
    BY <1>2, <1>4, Popped
  <1>6. top.node \in Callee /\ top.depth \in 2 .. MaxDepth /\ top.path \in SUBSET Callee
        /\ top.depth \in Nat /\ top.depth > 0
    <2> HIDE DEF top
    <2> QED BY <1>4, <1>5 DEF StackEntry, RootLevel
  <1>7. \A t \in loaded : t \in Callee /\ t \in readable /\ t \in to /\ top.depth + 1 \in 2 .. MaxDepth
    <2> HIDE DEF top
    <2>1. \A t \in loaded : ~(top.depth + 1 > MaxDepth)
      OBVIOUS
    <2> HIDE DEF loaded
    <2>2. \A t \in loaded : top.depth + 1 \in 2 .. MaxDepth
      BY <1>4, <1>6, <2>1
    <2> QED BY <2>2 DEF loaded
  <1>8. IsFiniteSet(S)
    <2> DEFINE g == [t \in loaded |-> [node |-> t, depth |-> top.depth + 1, path |-> top.path \cup {t}]]
    <2>1. g \in Surjection(loaded, S)
      <3> HIDE DEF loaded, top
      <3> QED BY DEF Surjection
    <2>2. IsFiniteSet(loaded)
      BY CalleeAssumption, FS_Subset
    <2> HIDE DEF S, g
    <2> QED BY <2>1, <2>2, FS_Surjection
  <1>9. S \subseteq StackEntry
    <2> HIDE DEF loaded, top
    <2> QED BY <1>6, <1>7 DEF StackEntry, RootLevel
  <1>10. \A x \in S : \E t \in loaded : x.node = t /\ x.depth = top.depth + 1 /\ x.path = top.path \cup {t}
    <2> HIDE DEF loaded, top
    <2> QED OBVIOUS
  <1>11. \A t \in loaded : \E x \in S : x.node = t /\ x.depth = top.depth + 1
    <2> HIDE DEF loaded, top
    <2> SUFFICES ASSUME NEW t \in loaded PROVE \E x \in S : x.node = t /\ x.depth = top.depth + 1
      OBVIOUS
    <2>1. [node |-> t, depth |-> top.depth + 1, path |-> top.path \cup {t}] \in S
      OBVIOUS
    <2> HIDE DEF S
    <2> QED BY <2>1
  <1>12. gaps' = {} => gaps = {} /\ Beyond \notin Calls(top.node) /\ looped = {} /\ deep = {} /\ met \subseteq readable
    <2> HIDE DEF looped, deep, met, top
    <2> QED BY <1>3
  <1>13. looped = {} /\ deep = {} => met = to
    OBVIOUS
  <1>14. to \subseteq Callee /\ to \subseteq Calls(top.node) /\ looped \subseteq to \cap top.path
         /\ loaded \subseteq readable /\ met \cap readable = loaded /\ met \subseteq to
         /\ deep \subseteq to /\ (deep # {} => top.depth + 1 > MaxDepth)
    OBVIOUS
  <1>15. to = Calls(top.node) \cap Callee
    OBVIOUS
  <1> HIDE DEF S, loaded, met, deep, looped, to, top
  <1>16. todo' \in Seq(StackEntry) /\ Range(todo') = Range(Front(todo)) \cup S
    BY <1>2, <1>5, <1>8, <1>9, Pushed
  <1>17. /\ PlatformInit' <=> PlatformInit
         /\ jobs' = jobs /\ readable' = readable /\ grant' = grant /\ misfit' = misfit
         /\ Chains' = Chains /\ (AllRun' <=> AllRun) /\ \A f : Calls(f)' = Calls(f)
    BY <1>2, PlatformStands
  <1>18. /\ expanded'[top.node] = top.depth /\ edges'[top.node] = to
         /\ \A f \in Callee : f # top.node => expanded'[f] = expanded[f] /\ edges'[f] = edges[f]
         /\ expanded' \in [Callee -> 0 .. MaxDepth] /\ edges' \in [Callee -> SUBSET Callee]
    <2>1. top.depth \in 0 .. MaxDepth
      BY <1>6
    <2> QED BY <1>2, <1>4, <1>6, <1>14, <2>1
  <1>19. ASSUME NEW f \in Callee, NEW d \in Nat, MetAt(f, d) PROVE MetAt(f, d)'
    <2>1. CASE expanded[f] >= d
      <3>1. CASE f = top.node
        <4>1. expanded[f] \in Nat
          BY <1>4
        <4>2. top.depth >= d
          BY <1>2, <1>6, <2>1, <3>1, <4>1
        <4> QED BY <1>18, <3>1, <4>2 DEF MetAt
      <3>2. CASE f # top.node
        BY <1>18, <2>1, <3>2 DEF MetAt
      <3> QED BY <3>1, <3>2
    <2>2. CASE \E x \in Range(todo) : x.node = f /\ x.depth >= d
      <3>1. PICK x \in Range(todo) : x.node = f /\ x.depth >= d
        BY <2>2
      <3>2. CASE x = top
        BY <1>18, <3>1, <3>2 DEF MetAt
      <3>3. CASE x # top
        BY <1>5, <1>16, <3>1, <3>3 DEF MetAt
      <3> QED BY <3>2, <3>3
    <2> QED BY <1>19, <2>1, <2>2 DEF MetAt
  <1>20. WalkTypes'
    <2>1. docs' \in SUBSET readable'
      BY <1>1, <1>2, <1>14, <1>17 DEF WalkTypes
    <2>2. \A x \in Range(todo') : x.node \in x.path /\ x.node \in docs'
      <3>1. \A x \in Range(Front(todo)) : x.node \in x.path /\ x.node \in docs'
        BY <1>1, <1>2, <1>5 DEF WalkTypes
      <3>2. \A x \in S : x.node \in x.path /\ x.node \in docs'
        BY <1>2, <1>10
      <3> QED BY <1>16, <3>1, <3>2
    <2>3. \A f \in Callee : expanded'[f] > 0 => f \in docs'
      <3>1. top.node \in docs'
        BY <1>1, <1>2, <1>5 DEF WalkTypes
      <3>2. \A f \in Callee : f # top.node /\ expanded'[f] > 0 => f \in docs'
        BY <1>1, <1>2, <1>18 DEF WalkTypes
      <3> QED BY <3>1, <3>2
    <2>4. tokens' \in Seq(TokenEntry) /\ stage' = "walk" /\ tokens' = <<>> /\ seen' = {} /\ over' = {}
      BY <1>1, <1>2 DEF WalkTypes
    <2> QED BY <1>4, <1>16, <1>17, <1>18, <2>1, <2>2, <2>3, <2>4 DEF WalkTypes
  <1>21. Followed'
    <2> SUFFICES ASSUME gaps' = {} PROVE Followed'
      BY DEF Followed
    <2>1. gaps = {} /\ Beyond \notin Calls(top.node) /\ met = to /\ loaded = to
      BY <1>12, <1>13, <1>14
    <2>2. ASSUME NEW r \in Roots PROVE r \in docs' /\ MetAt(r, RootLevel)'
      BY <1>1, <1>2, <1>19, <2>1, CalleeAssumption DEF Followed, RootLevel
    <2>5. PICK n \in Callee, d \in Nat : n = top.node /\ d = top.depth
      BY <1>6
    <2>3. ASSUME NEW t \in to PROVE t \in docs' /\ <<n, t>> \in called' /\ MetAt(t, expanded[n] + 1)'
      <3>1. t \in docs' /\ <<n, t>> \in called'
        BY <1>2, <2>1, <2>5
      <3>2. PICK x \in S : x.node = t /\ x.depth = top.depth + 1
        BY <1>11, <2>1
      <3>3. expanded'[n] + 1 = d + 1 /\ x \in Range(todo') /\ x.node = t /\ x.depth >= d + 1
        BY <1>16, <1>18, <2>5, <3>2
      <3>4. MetAt(t, expanded[n] + 1)'
        BY <3>3 DEF MetAt
      <3> QED BY <3>1, <3>4
    <2>4. ASSUME NEW f \in Callee, expanded'[f] > 0
          PROVE  /\ edges'[f] = Calls(f)' \cap Callee /\ Beyond \notin Calls(f)'
                 /\ \A t \in edges'[f] : t \in docs' /\ <<f, t>> \in called' /\ MetAt(t, expanded[f] + 1)'
      <3>1. CASE f = top.node
        <4>1. f = n /\ edges'[f] = to /\ Calls(f)' = Calls(f)
          BY <1>17, <1>18, <2>5, <3>1
        <4> QED BY <1>15, <2>1, <2>3, <3>1, <4>1
      <3>2. CASE f # top.node
        <4>1. /\ edges[f] = Calls(f) \cap Callee /\ Beyond \notin Calls(f)
              /\ \A t \in edges[f] : t \in docs /\ <<f, t>> \in called /\ MetAt(t, expanded[f] + 1)
          BY <1>1, <1>18, <2>1, <2>4, <3>2 DEF Followed
        <4>2. PICK k \in Nat : k = expanded[f] + 1
          BY <1>4
        <4>3. ASSUME NEW t \in edges[f] PROVE MetAt(t, expanded[f] + 1)'
          <5>1. t \in Callee /\ MetAt(t, k)
            BY <4>1, <4>2
          <5>2. MetAt(t, k)' /\ expanded'[f] + 1 = k
            BY <1>18, <1>19, <3>2, <4>2, <5>1
          <5> QED BY <5>2 DEF MetAt
        <4> QED BY <1>2, <1>17, <1>18, <3>2, <4>1, <4>3
      <3> QED BY <3>1, <3>2
    <2> QED BY <2>2, <2>4 DEF Followed
  <1>22. Granted'
    BY <1>2 DEF Granted
  <1>23. SoundWalk'
    <2> SUFFICES ASSUME AllRun PROVE SoundWalk'
      BY <1>17 DEF SoundWalk
    <2>1. PICK c \in Chains : Last(c.files) = top.node /\ Len(c.files) + 1 = top.depth /\ Range(c.files) = top.path
      BY <1>1, <1>5 DEF SoundWalk
    <2>2. Len(c.files) \in Nat /\ Beyond \notin Calls(top.node)
      BY <2>1, <1>4, RunsFacts DEF AllRun
    <2>3. ASSUME NEW t \in to
          PROVE  /\ t \in readable /\ t \notin top.path /\ <<top.node, t>> \notin misfit /\ ~(top.depth + 1 > MaxDepth)
                 /\ \E e \in Chains : /\ Last(e.files) = t /\ Len(e.files) + 1 = top.depth + 1
                                      /\ Range(e.files) = top.path \cup {t}
      <3>1. t \in Callee /\ t \in Calls(Last(c.files))
        BY <1>14, <2>1
      <3>2. t \in readable /\ t \notin Range(c.files) /\ <<Last(c.files), t>> \notin misfit
        BY <1>4, <3>1, CallRuns
      <3>3. PICK e \in Chains : /\ Last(e.files) = t /\ Len(e.files) = Len(c.files) + 1
                                /\ Len(e.files) + 1 <= MaxDepth
                                /\ Range(e.files) = Range(c.files) \cup {t}
        BY <1>4, <3>1, CallRuns
      <3>4. Len(e.files) + 1 = top.depth + 1 /\ ~(top.depth + 1 > MaxDepth)
        BY <1>4, <1>6, <2>1, <2>2, <3>3
      <3> QED BY <2>1, <3>2, <3>3, <3>4
    <2>4. gaps = {} /\ called \cap misfit = {} /\ over = {}
      BY <1>1 DEF SoundWalk
    <2>5. looped = {} /\ deep = {} /\ met \subseteq readable /\ met \subseteq to
      BY <1>14, <2>3
    <2>6. gaps' = {}
      BY <1>3, <2>2, <2>4, <2>5
    <2>7. called' \cap misfit' = {}
      BY <1>2, <1>17, <2>3, <2>4, <2>5
    <2>8. \A x \in Range(todo') : \E e \in Chains :
             Last(e.files) = x.node /\ Len(e.files) + 1 = x.depth /\ Range(e.files) = x.path
      <3>1. \A x \in Range(Front(todo)) : \E e \in Chains :
               Last(e.files) = x.node /\ Len(e.files) + 1 = x.depth /\ Range(e.files) = x.path
        BY <1>1, <1>5 DEF SoundWalk
      <3>2. ASSUME NEW x \in S PROVE \E e \in Chains :
               Last(e.files) = x.node /\ Len(e.files) + 1 = x.depth /\ Range(e.files) = x.path
        <4>1. PICK t \in loaded : x.node = t /\ x.depth = top.depth + 1 /\ x.path = top.path \cup {t}
          BY <1>10
        <4>2. t \in to
          BY <1>7
        <4> QED BY <2>3, <4>1, <4>2
      <3> QED BY <1>16, <3>1, <3>2
    <2>9. \A f \in Callee : \A t \in edges'[f] : \E e \in Chains : Last(e.files) = t
      <3>1. \A t \in edges'[top.node] : \E e \in Chains : Last(e.files) = t
        BY <1>18, <2>3
      <3>2. ASSUME NEW f \in Callee, f # top.node, NEW t \in edges'[f] PROVE \E e \in Chains : Last(e.files) = t
        BY <1>1, <1>18, <3>2 DEF SoundWalk
      <3> QED BY <3>1, <3>2
    <2>10. \A x \in Range(tokens') : \E e \in Chains : Last(e.files) = x.node /\ e.level = x.ceiling
      BY <1>1, <1>2 DEF SoundWalk
    <2> QED BY <1>2, <1>17, <2>4, <2>6, <2>7, <2>8, <2>9, <2>10 DEF SoundWalk
  <1> QED
    BY <1>20, <1>21, <1>22, <1>23 DEF CalleeInv

LEMMA KeepBeginTokens == CalleeInv /\ BeginTokens => CalleeInv'
  <1> SUFFICES ASSUME CalleeInv, BeginTokens PROVE CalleeInv'
    OBVIOUS
  <1> DEFINE S == {[node |-> r, ceiling |-> grant, path |-> {}] : r \in Roots}
  <1>1. WalkTypes /\ Followed /\ Granted /\ SoundWalk
    BY DEF CalleeInv
  <1>2. /\ stage = "walk" /\ todo = <<>> /\ stage' = "tokens" /\ tokens' = SetToSeq(S)
        /\ UNCHANGED <<platform, todo, expanded, docs, edges, called, gaps, seen, over>>
    BY DEF BeginTokens
  <1>3. PlatformInit /\ seen = {} /\ over = {} /\ grant \in Level /\ Roots \subseteq Callee
    BY <1>1, <1>2, CalleeAssumption DEF WalkTypes, PlatformInit
  <1>4. IsFiniteSet(S)
    <2> DEFINE g == [r \in Roots |-> [node |-> r, ceiling |-> grant, path |-> {}]]
    <2>1. g \in Surjection(Roots, S)
      BY DEF Surjection
    <2>2. IsFiniteSet(Roots)
      BY CalleeAssumption, FS_Subset
    <2> HIDE DEF S, g
    <2> QED BY <2>1, <2>2, FS_Surjection
  <1>5. S \subseteq TokenEntry
    BY <1>3 DEF TokenEntry
  <1>6. \A x \in S : \E r \in Roots : x = [node |-> r, ceiling |-> grant, path |-> {}]
    OBVIOUS
  <1>7. \A r \in Roots : \E x \in S : x.node = r /\ x.ceiling = grant
    <2> SUFFICES ASSUME NEW r \in Roots PROVE \E x \in S : x.node = r /\ x.ceiling = grant
      OBVIOUS
    <2>1. [node |-> r, ceiling |-> grant, path |-> {}] \in S
      OBVIOUS
    <2> HIDE DEF S
    <2> QED BY <2>1
  <1> HIDE DEF S
  <1>8. tokens' \in Seq(TokenEntry) /\ Range(tokens') = S
    <2>1. SetToSeq(S) \in Seq(S) /\ Range(SetToSeq(S)) = S
      BY <1>4, Ordering
    <2> QED BY <1>2, <1>5, <2>1
  <1>9. /\ PlatformInit' <=> PlatformInit
        /\ jobs' = jobs /\ readable' = readable /\ grant' = grant /\ misfit' = misfit
        /\ Chains' = Chains /\ (AllRun' <=> AllRun) /\ \A f : Calls(f)' = Calls(f)
    BY <1>2, PlatformStands
  <1>10. WalkTypes'
    BY <1>1, <1>2, <1>8, <1>9 DEF WalkTypes
  <1>11. Followed'
    BY <1>1, <1>2, <1>9 DEF Followed, MetAt
  <1>12. Granted'
    <2> SUFFICES ASSUME gaps = {} PROVE Granted'
      BY <1>2 DEF Granted
    <2>1. ASSUME NEW x \in S
          PROVE  /\ IsFiniteSet(x.path) /\ Cardinality(x.path) + RootLevel <= expanded[x.node]
                 /\ \A p \in x.path : expanded[p] < expanded[x.node]
      <3>1. PICK r \in Roots : x = [node |-> r, ceiling |-> grant, path |-> {}]
        BY <1>6
      <3>2. x.node = r /\ x.path = {}
        BY <3>1
      <3>3. MetAt(r, RootLevel)
        BY <1>1, <2>1 DEF Followed
      <3>4. expanded[r] >= RootLevel
        BY <1>2, <3>3, NothingHeld DEF MetAt
      <3>5. expanded[r] \in Nat
        BY <1>1, <1>3, CalleeAssumption DEF WalkTypes
      <3>6. IsFiniteSet(x.path) /\ Cardinality(x.path) = 0
        BY <3>2, NoneWithin
      <3> QED BY <3>2, <3>4, <3>5, <3>6 DEF RootLevel
    <2>2. \A r \in Roots : Walked(r, grant)'
      BY <1>7, <1>8, <1>9 DEF Walked
    <2> QED BY <1>2, <1>3, <1>8, <2>1, <2>2 DEF Granted
  <1>13. SoundWalk'
    <2> SUFFICES ASSUME AllRun PROVE SoundWalk'
      BY <1>9 DEF SoundWalk
    <2>1. ASSUME NEW x \in S PROVE \E c \in Chains : Last(c.files) = x.node /\ c.level = x.ceiling
      <3>1. PICK r \in Roots : x = [node |-> r, ceiling |-> grant, path |-> {}]
        BY <1>6
      <3>2. x.node = r /\ x.ceiling = grant
        BY <3>1
      <3>3. First(r) \in Chains
        BY <1>3, ChainTyped
      <3>4. First(r).files = <<r>> /\ First(r).level = grant
        BY DEF First
      <3>5. Last(<<r>>) = r
        BY DEF Last
      <3> QED BY <3>2, <3>3, <3>4, <3>5
    <2> QED BY <1>1, <1>2, <1>8, <1>9, <2>1 DEF SoundWalk
  <1> QED
    BY <1>10, <1>11, <1>12, <1>13 DEF CalleeInv

LEMMA KeepConclude == CalleeInv /\ Conclude => CalleeInv'
  <1> SUFFICES ASSUME CalleeInv, Conclude PROVE CalleeInv'
    OBVIOUS
  <1>1. WalkTypes /\ Followed /\ Granted /\ SoundWalk
    BY DEF CalleeInv
  <1>2. /\ stage = "tokens" /\ tokens = <<>> /\ stage' = "done"
        /\ UNCHANGED <<platform, todo, expanded, docs, edges, called, gaps, tokens, seen, over>>
    BY DEF Conclude
  <1>3. /\ PlatformInit' <=> PlatformInit
        /\ jobs' = jobs /\ readable' = readable /\ grant' = grant /\ misfit' = misfit
        /\ Chains' = Chains /\ (AllRun' <=> AllRun) /\ \A f : Calls(f)' = Calls(f)
    BY <1>2, PlatformStands
  <1>4. WalkTypes'
    BY <1>1, <1>2, <1>3 DEF WalkTypes
  <1>5. Followed'
    BY <1>1, <1>2, <1>3 DEF Followed, MetAt
  <1>6. Granted'
    BY <1>1, <1>2, <1>3 DEF Granted, Walked, Effective
  <1>7. SoundWalk'
    BY <1>1, <1>2, <1>3 DEF SoundWalk
  <1> QED
    BY <1>4, <1>5, <1>6, <1>7 DEF CalleeInv

LEMMA KeepIdle == CalleeInv /\ UNCHANGED calleeVars => CalleeInv'
  <1> SUFFICES ASSUME CalleeInv, UNCHANGED calleeVars PROVE CalleeInv'
    OBVIOUS
  <1>1. WalkTypes /\ Followed /\ Granted /\ SoundWalk
    BY DEF CalleeInv
  <1>2. UNCHANGED <<platform, todo, expanded, docs, edges, called, gaps, tokens, seen, over, stage>>
    BY DEF calleeVars
  <1>3. /\ PlatformInit' <=> PlatformInit
        /\ jobs' = jobs /\ readable' = readable /\ grant' = grant /\ misfit' = misfit
        /\ Chains' = Chains /\ (AllRun' <=> AllRun) /\ \A f : Calls(f)' = Calls(f)
    BY <1>2, PlatformStands
  <1>4. WalkTypes'
    BY <1>1, <1>2, <1>3 DEF WalkTypes
  <1>5. Followed'
    BY <1>1, <1>2, <1>3 DEF Followed, MetAt
  <1>6. Granted'
    BY <1>1, <1>2, <1>3 DEF Granted, Walked, Effective
  <1>7. SoundWalk'
    BY <1>1, <1>2, <1>3 DEF SoundWalk
  <1> QED
    BY <1>4, <1>5, <1>6, <1>7 DEF CalleeInv

LEMMA KeepWalk == CalleeInv /\ Walk => CalleeInv'
  <1> SUFFICES ASSUME CalleeInv, Walk PROVE CalleeInv'
    OBVIOUS
  <1> DEFINE top == Last(tokens)
             key == <<top.node, top.ceiling>>
             J == {k \in jobs[top.node] : k.to \in Callee}
             P == {[node |-> j.to, ceiling |-> Effective(j, top.ceiling), path |-> top.path \cup {top.node}] : j \in J}
             asking == {k \in jobs[top.node] : k.asks # Inherit /\ k.asks > top.ceiling}
             Dismissed == /\ key \in seen \/ top.node \in top.path \/ Cardinality(top.path) >= MaxDepth
                             \/ top.node \notin docs
                          /\ tokens' = Front(tokens) /\ UNCHANGED <<seen, over>>
             Taken == /\ seen' = seen \cup {key} /\ over' = over \cup {top.node : j \in asking}
                      /\ tokens' = Front(tokens) \o SetToSeq(P)
  <1>1. WalkTypes /\ Followed /\ Granted /\ SoundWalk
    BY DEF CalleeInv
  <1>2. /\ stage = "tokens" /\ tokens # <<>>
        /\ UNCHANGED <<platform, todo, expanded, docs, edges, called, gaps, stage>>
    BY DEF Walk
  <1>3. Dismissed \/ Taken
    BY DEF Walk
  <1>4. /\ PlatformInit /\ tokens \in Seq(TokenEntry) /\ expanded \in [Callee -> 0 .. MaxDepth]
        /\ MaxDepth \in Nat /\ todo = <<>>
    BY <1>1, <1>2, CalleeAssumption DEF WalkTypes
  <1>5. top \in TokenEntry /\ top \in Range(tokens) /\ Front(tokens) \in Seq(TokenEntry)
        /\ Range(tokens) = Range(Front(tokens)) \cup {top}
    BY <1>2, <1>4, Popped
  <1>6. top.node \in Callee /\ top.ceiling \in Level /\ top.path \in SUBSET Callee
    <2> HIDE DEF top
    <2> QED BY <1>5 DEF TokenEntry
  <1>7. \A j \in J : j \in jobs[top.node] /\ j.to \in Callee /\ Effective(j, top.ceiling) \in Level
    <2> HIDE DEF top
    <2> QED BY <1>4, <1>6, JobTyped
  <1>8. IsFiniteSet(P)
    <2> DEFINE g == [j \in J |-> [node |-> j.to, ceiling |-> Effective(j, top.ceiling), path |-> top.path \cup {top.node}]]
    <2>1. g \in Surjection(J, P)
      <3> HIDE DEF J, top
      <3> QED BY DEF Surjection
    <2>2. IsFiniteSet(J)
      <3> HIDE DEF top
      <3>1. IsFiniteSet(jobs[top.node])
        BY <1>4, <1>6, JobsFinite
      <3>2. J \subseteq jobs[top.node]
        OBVIOUS
      <3> HIDE DEF J
      <3> QED BY <3>1, <3>2, FS_Subset
    <2> HIDE DEF P, g
    <2> QED BY <2>1, <2>2, FS_Surjection
  <1>9. P \subseteq TokenEntry
    <2> HIDE DEF J, top
    <2> QED BY <1>6, <1>7 DEF TokenEntry
  <1>10. \A x \in P : \E j \in J : /\ x.node = j.to /\ x.ceiling = Effective(j, top.ceiling)
                                   /\ x.path = top.path \cup {top.node}
    <2> HIDE DEF J, top
    <2> QED OBVIOUS
  <1>11. \A j \in jobs[top.node] : j.to \in Callee =>
            \E x \in P : x.node = j.to /\ x.ceiling = Effective(j, top.ceiling)
    <2> SUFFICES ASSUME NEW j \in J PROVE \E x \in P : x.node = j.to /\ x.ceiling = Effective(j, top.ceiling)
      OBVIOUS
    <2> HIDE DEF J, top
    <2>1. [node |-> j.to, ceiling |-> Effective(j, top.ceiling), path |-> top.path \cup {top.node}] \in P
      OBVIOUS
    <2> HIDE DEF P
    <2> QED BY <2>1
  <1>12. \A j \in jobs[top.node] : j.asks # Inherit /\ j.asks > top.ceiling => j \in asking
    OBVIOUS
  <1>13. \A j \in asking : j \in jobs[top.node] /\ j.asks # Inherit /\ j.asks > top.ceiling
    OBVIOUS
  <1> HIDE DEF asking, J, P
  <1>14. /\ tokens' \in Seq(TokenEntry)
         /\ Dismissed => Range(tokens') = Range(Front(tokens))
         /\ Taken => Range(tokens') = Range(Front(tokens)) \cup P
    <2>1. Front(tokens) \o SetToSeq(P) \in Seq(TokenEntry)
          /\ Range(Front(tokens) \o SetToSeq(P)) = Range(Front(tokens)) \cup P
      <3> HIDE DEF top
      <3> QED BY <1>5, <1>8, <1>9, Pushed
    <2> HIDE DEF top
    <2> QED BY <1>3, <1>5, <2>1
  <1>15. /\ PlatformInit' <=> PlatformInit
         /\ jobs' = jobs /\ readable' = readable /\ grant' = grant /\ misfit' = misfit
         /\ Chains' = Chains /\ (AllRun' <=> AllRun) /\ \A f : Calls(f)' = Calls(f)
    BY <1>2, PlatformStands
  <1>16. Dismissed => seen' = seen /\ over' = over
    OBVIOUS
  <1>17. Taken => seen' = seen \cup {key} /\ over' = over \cup {top.node : j \in asking}
    OBVIOUS
  <1>18. ASSUME gaps = {}
         PROVE  /\ IsFiniteSet(top.path) /\ Cardinality(top.path) \in Nat
                /\ Cardinality(top.path) + 2 <= expanded[top.node]
                /\ expanded[top.node] \in Nat /\ expanded[top.node] > 0
                /\ \A p \in top.path : expanded[p] < expanded[top.node]
                /\ Dismissed => key \in seen
    <2> DEFINE m == Cardinality(top.path)
    <2>1. IsFiniteSet(top.path) /\ m + RootLevel <= expanded[top.node]
          /\ \A p \in top.path : expanded[p] < expanded[top.node]
      BY <1>1, <1>2, <1>5, <1>18 DEF Granted
    <2>2. m \in Nat
      <3> HIDE DEF top
      <3> QED BY <2>1, FS_CardinalityType
    <2>3. expanded[top.node] \in 0 .. MaxDepth
      <3> HIDE DEF top
      <3> QED BY <1>4, <1>6
    <2>4. m + 2 <= expanded[top.node] /\ expanded[top.node] > 0 /\ ~(m >= MaxDepth)
      <3> HIDE DEF m, top
      <3> QED BY <1>4, <2>1, <2>2, <2>3 DEF RootLevel
    <2>5. top.node \in docs
      BY <1>1, <1>6, <2>4 DEF WalkTypes
    <2>6. top.node \notin top.path
      <3> HIDE DEF top
      <3> QED BY <2>1, <2>3, <1>6
    <2> QED BY <2>1, <2>2, <2>3, <2>4, <2>5, <2>6
  <1> HIDE DEF Dismissed, Taken
  <1>19. ASSUME gaps = {}, NEW f \in Callee, NEW l \in Level, Walked(f, l) PROVE Walked(f, l)'
    <2>1. CASE <<f, l>> \in seen
      BY <1>3, <1>16, <1>17, <2>1 DEF Walked
    <2>2. CASE \E x \in Range(tokens) : x.node = f /\ x.ceiling = l
      <3>1. PICK x \in Range(tokens) : x.node = f /\ x.ceiling = l
        BY <2>2
      <3>2. CASE x = top
        <4>1. <<f, l>> = key
          BY <3>1, <3>2
        <4>2. key \in seen'
          BY <1>3, <1>16, <1>17, <1>18, <1>19
        <4> HIDE DEF key
        <4> QED BY <4>1, <4>2 DEF Walked
      <3>3. CASE x # top
        <4>1. x \in Range(tokens')
          BY <1>3, <1>5, <1>14, <3>1, <3>3
        <4> QED BY <3>1, <4>1 DEF Walked
      <3> QED BY <3>2, <3>3
    <2> QED BY <1>19, <2>1, <2>2 DEF Walked
  <1>20. WalkTypes'
    <2> HIDE DEF top
    <2> QED BY <1>1, <1>2, <1>14, <1>15 DEF WalkTypes
  <1>21. Followed'
    BY <1>1, <1>2, <1>15 DEF Followed, MetAt
  <1>22. Granted'
    <2> SUFFICES ASSUME gaps = {} PROVE Granted'
      BY <1>2 DEF Granted
    <2>1. \A r \in Roots : Walked(r, grant)'
      <3>1. \A r \in Roots : Walked(r, grant)
        BY <1>1, <1>2 DEF Granted
      <3>2. grant \in Level /\ Roots \subseteq Callee
        BY <1>4, CalleeAssumption DEF PlatformInit
      <3>3. PICK l \in Level : l = grant
        BY <3>2
      <3>4. \A r \in Roots : Walked(r, l)'
        BY <1>19, <3>1, <3>2, <3>3
      <3> QED BY <1>15, <3>3, <3>4 DEF Walked
    <2>2. ASSUME NEW f \in Callee, NEW l \in Level, <<f, l>> \in seen', NEW j \in jobs[f]
          PROVE  /\ j.asks # Inherit /\ j.asks > l => f \in over'
                 /\ j.to \in Callee => Walked(j.to, Effective(j, l))'
      <3>1. over \subseteq over'
        BY <1>3, <1>16, <1>17
      <3>2. CASE <<f, l>> \in seen
        <4>1. j.asks # Inherit /\ j.asks > l => f \in over
          BY <1>1, <1>2, <3>2 DEF Granted
        <4>2. ASSUME j.to \in Callee PROVE Walked(j.to, Effective(j, l))'
          <5>1. Walked(j.to, Effective(j, l))
            BY <1>1, <1>2, <3>2, <4>2 DEF Granted
          <5>2. Effective(j, l) \in Level
            BY <1>4, JobTyped
          <5> QED BY <1>19, <4>2, <5>1, <5>2
        <4> QED BY <3>1, <4>1, <4>2
      <3>3. CASE <<f, l>> \notin seen
        <4>1. Taken /\ f = top.node /\ l = top.ceiling
          BY <1>3, <1>16, <1>17, <2>2, <3>3
        <4>2. j.asks # Inherit /\ j.asks > l => f \in over'
          <5> SUFFICES ASSUME j.asks # Inherit, j.asks > l PROVE f \in over'
            OBVIOUS
          <5>1. j \in asking
            BY <1>12, <4>1
          <5> QED BY <1>17, <4>1, <5>1
        <4>3. ASSUME j.to \in Callee PROVE Walked(j.to, Effective(j, l))'
          <5>1. PICK x \in P : x.node = j.to /\ x.ceiling = Effective(j, l)
            BY <1>11, <4>1, <4>3
          <5>2. x \in Range(tokens')
            BY <1>14, <4>1
          <5> QED BY <5>1, <5>2 DEF Walked, Effective
        <4> QED BY <4>2, <4>3
      <3> QED BY <3>2, <3>3
    <2>3. ASSUME NEW x \in Range(tokens')
          PROVE  /\ IsFiniteSet(x.path) /\ Cardinality(x.path) + RootLevel <= expanded[x.node]
                 /\ \A p \in x.path : expanded[p] < expanded[x.node]
      <3>1. CASE x \in Range(Front(tokens))
        BY <1>1, <1>2, <1>5, <3>1 DEF Granted
      <3>2. CASE x \notin Range(Front(tokens))
        <4>1. x \in P
          BY <1>3, <1>14, <2>3, <3>2
        <4>2. PICK j \in J : x.node = j.to /\ x.path = top.path \cup {top.node}
          BY <1>10, <4>1
        <4> DEFINE e == expanded[top.node]
                   h == expanded[x.node]
                   m == Cardinality(top.path)
                   n == Cardinality(x.path)
        <4>3. m \in Nat /\ m + 2 <= e /\ e \in Nat /\ e > 0 /\ \A p \in top.path : expanded[p] < e
          BY <1>18
        <4>4. IsFiniteSet(x.path) /\ (n = m \/ n = m + 1)
          <5> HIDE DEF top
          <5>1. IsFiniteSet(top.path)
            BY <1>18
          <5> QED BY <4>2, <5>1, FS_AddElement
        <4>5. j.to \in Callee /\ j \in jobs[top.node]
          BY <1>7
        <4>6. h \in Nat
          <5> HIDE DEF top
          <5> QED BY <1>4, <4>2, <4>5
        <4>7. NoCall # j.to
          BY <4>5, CalleeAssumption
        <4>8. j.to \in edges[top.node]
          <5>1. edges[top.node] = Calls(top.node) \cap Callee
            BY <1>1, <1>6, <4>3 DEF Followed
          <5> HIDE DEF top
          <5> QED BY <4>5, <4>7, <5>1 DEF Calls
        <4>9. MetAt(j.to, e + 1)
          BY <1>1, <1>6, <4>3, <4>8 DEF Followed
        <4>10. h >= e + 1
          BY <1>4, <4>2, <4>9, NothingHeld DEF MetAt
        <4>11. n + 2 <= h /\ e < h
          <5> HIDE DEF e, h, n, m
          <5> QED BY <4>3, <4>4, <4>6, <4>10
        <4>12. \A p \in x.path : expanded[p] < h
          <5>1. \A p \in top.path : p \in Callee /\ expanded[p] \in Nat
            <6> HIDE DEF top
            <6> QED BY <1>4, <1>6
          <5>2. \A p \in x.path : p = top.node \/ p \in top.path
            BY <4>2
          <5>3. ASSUME NEW p \in x.path PROVE expanded[p] < h
            <6>1. CASE p = top.node
              BY <4>11, <6>1
            <6>2. CASE p # top.node
              <7>1. expanded[p] < e /\ expanded[p] \in Nat
                BY <4>3, <5>1, <5>2, <6>2
              <7> HIDE DEF e, h
              <7> QED BY <7>1, <4>3, <4>6, <4>11
            <6> QED BY <6>1, <6>2
          <5> QED BY <5>3
        <4> QED BY <4>4, <4>11, <4>12 DEF RootLevel
      <3> QED BY <3>1, <3>2
    <2> HIDE DEF top
    <2> QED BY <1>2, <1>15, <2>1, <2>2, <2>3 DEF Granted
  <1>23. SoundWalk'
    <2> SUFFICES ASSUME AllRun PROVE SoundWalk'
      BY <1>15 DEF SoundWalk
    <2>1. PICK c \in Chains : Last(c.files) = top.node /\ c.level = top.ceiling
      BY <1>1, <1>5 DEF SoundWalk
    <2>2. c \in ChainRecord /\ c.files # <<>>
      BY <1>4, ChainTyped
    <2>3. /\ c.level \in Level
          /\ \A j \in jobs[top.node] : /\ j.asks # Inherit => j.asks <= c.level
                                       /\ j.to \in Callee => Follow(c, j) \in Chains
      BY <2>1, <1>4, RunsFacts DEF AllRun
    <2>4. asking = {}
      <3> SUFFICES ASSUME NEW j \in asking PROVE FALSE
        OBVIOUS
      <3>1. j \in jobs[top.node] /\ j.asks # Inherit /\ j.asks > top.ceiling /\ j.asks <= top.ceiling
        BY <1>13, <2>1, <2>3
      <3>2. j.asks \in Level
        <4> HIDE DEF top
        <4> QED BY <1>4, <1>6, <3>1, JobTyped
      <3> HIDE DEF top
      <3> QED BY <1>6, <3>1, <3>2 DEF Level
    <2>5. gaps = {} /\ called \cap misfit = {} /\ over = {}
      BY <1>1 DEF SoundWalk
    <2>6. over' = {}
      BY <1>3, <1>16, <1>17, <2>4, <2>5
    <2>7. ASSUME NEW x \in P PROVE \E e \in Chains : Last(e.files) = x.node /\ e.level = x.ceiling
      <3>1. PICK j \in J : x.node = j.to /\ x.ceiling = Effective(j, top.ceiling)
        BY <1>10
      <3>2. j \in jobs[Last(c.files)] /\ j.to \in Callee
        BY <1>7, <2>1
      <3>3. Last(Follow(c, j).files) = j.to /\ Follow(c, j).level = Effective(j, c.level)
        BY <1>4, <2>2, <3>2, FollowTyped
      <3> QED BY <2>1, <2>3, <3>1, <3>2, <3>3
    <2>8. \A x \in Range(tokens') : \E e \in Chains : Last(e.files) = x.node /\ e.level = x.ceiling
      BY <1>1, <1>3, <1>5, <1>14, <2>7 DEF SoundWalk
    <2> QED BY <1>1, <1>2, <1>15, <2>5, <2>6, <2>8 DEF SoundWalk
  <1> QED
    BY <1>20, <1>21, <1>22, <1>23 DEF CalleeInv

LEMMA CalleeInvNext == CalleeInv /\ [CalleeNext]_calleeVars => CalleeInv'
  <1>1. CalleeInv /\ CalleeNext => CalleeInv'
    BY KeepSkip, KeepExpand, KeepBeginTokens, KeepWalk, KeepConclude DEF CalleeNext
  <1> QED
    BY <1>1, KeepIdle

-----------------------------------------------------------------------------
(* What the walk's end says of the platform.                               *)

\* What is reachable is found call by call, as many times as there are files.
LEMMA ReachableBuilt ==
    ASSUME edges \in [Callee -> SUBSET Callee]
    PROVE  \E grow : /\ Reachable(Roots) = grow[Cardinality(Callee)] /\ grow[0] = Roots
                     /\ \A n \in 1 .. Cardinality(Callee) :
                           grow[n] = grow[n - 1] \cup UNION {edges[f] : f \in grow[n - 1]}
                     /\ \A n \in 0 .. Cardinality(Callee) : grow[n] \in SUBSET Callee
  <1> DEFINE N == Cardinality(Callee)
             D == SUBSET Callee
             Grown(C) == C \cup UNION {edges[f] : f \in C}
             advance == [C \in D |-> Grown(C)]
             body(g) == [n \in 0 .. Cardinality(Callee) |->
                            IF n = 0 THEN Roots ELSE g[n - 1] \cup UNION {edges[f] : f \in g[n - 1]}]
             grow == CHOOSE g : g = body(g)
  <1>1. N \in Nat /\ Roots \in D
    BY CalleeAssumption, FS_CardinalityType
  <1>2. \A C \in D : Grown(C) \in D
    OBVIOUS
  <1>3. advance \in [D -> D]
    <2> HIDE DEF D, Grown
    <2> QED BY <1>2
  <1>4. PICK g \in [0 .. N -> D] : \A n \in 0 .. N : g[n] = IF n = 0 THEN Roots ELSE advance[g[n - 1]]
    <2>1. 0 \in Nat
      OBVIOUS
    <2> HIDE DEF D, advance, N
    <2>2. \E g \in [0 .. N -> D] : Climbs(g, Roots, advance, 0, N)
      BY <1>1, <1>3, <2>1, Iterates
    <2> QED BY <2>2 DEF Climbs
  <1> DEFINE A == 0 .. N
  <1>5. (\A n \in A : n # 0 => n - 1 \in A) /\ N \in A /\ 0 \in A /\ A \subseteq Nat
        /\ \A n \in 1 .. N : n \in A /\ n # 0
    <2> HIDE DEF N
    <2> QED BY <1>1
  <1>6. g = body(g)
    <2>1. ASSUME NEW n \in A PROVE g[n] = body(g)[n]
      <3>1. CASE n = 0
        BY <1>4, <3>1
      <3>2. CASE n # 0
        <4>1. g[n - 1] \in D
          BY <1>4, <1>5, <3>2
        <4>2. advance[g[n - 1]] = Grown(g[n - 1])
          <5> HIDE DEF Grown, D
          <5> QED BY <4>1
        <4> HIDE DEF advance
        <4> QED BY <1>4, <3>2, <4>2
      <3> QED BY <3>1, <3>2
    <2> DEFINE b == body(g)
    <2>2. g = [n \in A |-> g[n]] /\ b = [n \in A |-> b[n]] /\ \A n \in A : g[n] = b[n]
      BY <1>4, <2>1
    <2> HIDE DEF b, A, body
    <2>3. g = b
      BY <2>2
    <2> QED BY <2>3 DEF b
  <1>7. grow = body(grow)
    <2> HIDE DEF body
    <2> QED BY <1>6, Zenon
  <1>8. Reachable(Roots) = grow[N]
    BY DEF Reachable
  <1> HIDE DEF grow
  <1>9. \A n \in A : grow[n] = IF n = 0 THEN Roots ELSE Grown(grow[n - 1])
    <2>1. \A n \in A : body(grow)[n] = IF n = 0 THEN Roots ELSE Grown(grow[n - 1])
      OBVIOUS
    <2> HIDE DEF body, A, Grown
    <2> QED BY <1>7, <2>1
  <1>10. ASSUME NEW n \in A PROVE grow[n] \in D
    <2> DEFINE Bad == {m \in A : grow[m] \notin D}
    <2>1. SUFFICES ASSUME Bad # {} PROVE FALSE
      OBVIOUS
    <2>2. Bad \in SUBSET Nat
      BY <1>5
    <2>3. PICK m \in Bad : \A k \in Bad : m <= k
      <3> HIDE DEF Bad
      <3> QED BY <2>1, <2>2, Smallest
    <2>4. m \in A /\ grow[m] \notin D
      OBVIOUS
    <2>5. m # 0
      <3> HIDE DEF D, A, Grown
      <3> QED BY <2>4, <1>1, <1>9
    <2>6. m - 1 \in A /\ ~(m <= m - 1)
      BY <2>4, <2>5, <1>5
    <2>7. grow[m - 1] \in D
      BY <2>3, <2>6
    <2> HIDE DEF D, A, Bad, Grown
    <2> QED BY <2>4, <2>5, <2>7, <1>2, <1>9
  <1> QED
    <2>1. grow[0] = Roots /\ \A n \in 1 .. N : grow[n] = Grown(grow[n - 1])
      <3> HIDE DEF A, Grown, N
      <3> QED BY <1>5, <1>9
    <2>2. \A n \in 1 .. N : grow[n] = grow[n - 1] \cup UNION {edges[f] : f \in grow[n - 1]}
      BY <2>1
    <2>3. \A n \in 0 .. N : grow[n] \in SUBSET Callee
      BY <1>10
    <2> QED BY <1>8, <2>1, <2>2, <2>3

\* A set that holds the roots and every call of its members holds what is reachable.
LEMMA ReachableWithin ==
    ASSUME edges \in [Callee -> SUBSET Callee], NEW X \in SUBSET Callee,
           Roots \subseteq X, \A f \in X : edges[f] \subseteq X
    PROVE  Reachable(Roots) \subseteq X
  <1> DEFINE N == Cardinality(Callee)
  <1>1. PICK grow : /\ Reachable(Roots) = grow[N] /\ grow[0] = Roots
                    /\ \A n \in 1 .. N : grow[n] = grow[n - 1] \cup UNION {edges[f] : f \in grow[n - 1]}
    BY ReachableBuilt
  <1>2. N \in Nat
    BY CalleeAssumption, FS_CardinalityType
  <1> HIDE DEF N
  <1> DEFINE Bad == {n \in 0 .. N : ~(grow[n] \subseteq X)}
  <1>3. Bad = {}
    <2>1. SUFFICES ASSUME Bad # {} PROVE FALSE
      OBVIOUS
    <2>2. Bad \in SUBSET Nat
      OBVIOUS
    <2>3. PICK n \in Bad : \A k \in Bad : n <= k
      <3> HIDE DEF Bad
      <3> QED BY <2>1, <2>2, Smallest
    <2>4. n \in 0 .. N /\ ~(grow[n] \subseteq X)
      OBVIOUS
    <2>5. n # 0
      BY <1>1, <2>4
    <2>6. n \in 1 .. N /\ n - 1 \in 0 .. N /\ ~(n <= n - 1)
      BY <1>2, <2>4, <2>5
    <2>7. grow[n - 1] \subseteq X
      BY <2>3, <2>6
    <2>8. grow[n] = grow[n - 1] \cup UNION {edges[f] : f \in grow[n - 1]}
      BY <1>1, <2>6
    <2> QED BY <2>4, <2>7, <2>8
  <1>4. N \in 0 .. N
    BY <1>2
  <1> QED
    BY <1>1, <1>3, <1>4

\* A path of calls from a root is reachable, if no longer than there are files.
LEMMA ReachablePath ==
    ASSUME edges \in [Callee -> SUBSET Callee], NEW s \in Seq(Callee), s # <<>>, s[1] \in Roots,
           \A i \in 2 .. Len(s) : s[i] \in edges[s[i - 1]], Len(s) <= Cardinality(Callee)
    PROVE  Range(s) \subseteq Reachable(Roots)
  <1> DEFINE N == Cardinality(Callee)
             L == Len(s)
  <1>1. PICK grow : /\ Reachable(Roots) = grow[N] /\ grow[0] = Roots
                    /\ \A n \in 1 .. N : grow[n] = grow[n - 1] \cup UNION {edges[f] : f \in grow[n - 1]}
    BY ReachableBuilt
  <1>2. N \in Nat /\ L \in Nat \ {0} /\ DOMAIN s = 1 .. L /\ L <= N
    BY CalleeAssumption, FS_CardinalityType
  <1>3. \A i \in 2 .. L : s[i] \in edges[s[i - 1]]
    OBVIOUS
  <1> HIDE DEF N, L
  <1> DEFINE Less == {n \in 0 .. N : ~(Roots \subseteq grow[n])}
  <1>4. Less = {}
    <2>1. SUFFICES ASSUME Less # {} PROVE FALSE
      OBVIOUS
    <2>2. Less \in SUBSET Nat
      OBVIOUS
    <2>3. PICK n \in Less : \A k \in Less : n <= k
      <3> HIDE DEF Less
      <3> QED BY <2>1, <2>2, Smallest
    <2>4. n \in 0 .. N /\ ~(Roots \subseteq grow[n])
      OBVIOUS
    <2>5. n # 0
      BY <1>1, <2>4
    <2>6. n \in 1 .. N /\ n - 1 \in 0 .. N /\ ~(n <= n - 1)
      BY <1>2, <2>4, <2>5
    <2>7. Roots \subseteq grow[n - 1]
      BY <2>3, <2>6
    <2> QED BY <1>1, <2>4, <2>6, <2>7
  <1> DEFINE Bad == {i \in 1 .. L : \E k \in 0 .. N : k >= i - 1 /\ s[i] \notin grow[k]}
  <1>5. Bad = {}
    <2>1. SUFFICES ASSUME Bad # {} PROVE FALSE
      OBVIOUS
    <2>2. Bad \in SUBSET Nat
      BY <1>2
    <2>3. PICK i \in Bad : \A k \in Bad : i <= k
      <3> HIDE DEF Bad
      <3> QED BY <2>1, <2>2, Smallest
    <2>4. PICK k \in 0 .. N : k >= i - 1 /\ s[i] \notin grow[k]
      OBVIOUS
    <2>5. i \in 1 .. L
      OBVIOUS
    <2>6. i # 1
      BY <1>4, <2>4
    <2>7. i \in 2 .. L /\ i - 1 \in 1 .. L /\ ~(i <= i - 1) /\ k \in 1 .. N /\ k - 1 \in 0 .. N /\ k - 1 >= (i - 1) - 1
      BY <1>2, <2>4, <2>5, <2>6
    <2>8. s[i - 1] \in grow[k - 1]
      BY <2>3, <2>7
    <2>9. s[i] \in edges[s[i - 1]]
      BY <1>3, <2>7
    <2>10. grow[k] = grow[k - 1] \cup UNION {edges[f] : f \in grow[k - 1]}
      BY <1>1, <2>7
    <2> QED BY <2>4, <2>8, <2>9, <2>10
  <1>6. ASSUME NEW i \in 1 .. L PROVE s[i] \in grow[N]
    <2>1. N \in 0 .. N /\ N >= i - 1
      BY <1>2
    <2> QED BY <1>5, <2>1
  <1> QED
    BY <1>1, <1>2, <1>6 DEF Range

\* A chain the finished walk has followed to its end.
Traced(c) ==
    /\ c \in ChainRecord /\ c.files # <<>> /\ c.files[1] \in Roots
    /\ \A i \in 1 .. Len(c.files) : c.files[i] \in docs /\ expanded[c.files[i]] >= i + 1
    /\ \A i, k \in 1 .. Len(c.files) : i < k => expanded[c.files[i]] < expanded[c.files[k]]
    /\ \A i \in 2 .. Len(c.files) : /\ <<c.files[i - 1], c.files[i]>> \in called
                                    /\ c.files[i] \in edges[c.files[i - 1]]
    /\ <<Last(c.files), c.level>> \in seen

\* With nothing reported, every chain was followed.
LEMMA AllTraced ==
    ASSUME CalleeInv, stage = "done", gaps = {}
    PROVE  \A c \in Chains : Traced(c)
  <1>1. WalkTypes /\ Followed /\ Granted
    BY DEF CalleeInv
  <1>2. /\ PlatformInit /\ todo = <<>> /\ tokens = <<>> /\ stage # "walk"
        /\ expanded \in [Callee -> 0 .. MaxDepth] /\ edges \in [Callee -> SUBSET Callee]
        /\ MaxDepth \in Nat /\ Roots \subseteq Callee /\ RootLevel = 2
    BY <1>1, CalleeAssumption DEF WalkTypes, RootLevel
  <1>3. ASSUME NEW f, NEW d, MetAt(f, d) PROVE expanded[f] >= d
    BY <1>2, <1>3, NothingHeld DEF MetAt
  <1>4. ASSUME NEW f, NEW l, Walked(f, l) PROVE <<f, l>> \in seen
    BY <1>2, <1>4, NothingHeld DEF Walked
  <1> DEFINE S == {c \in ChainRecord : Traced(c)}
  <1>5. ASSUME NEW r \in Roots PROVE First(r) \in S
    <2>1. First(r) \in ChainRecord /\ First(r).files # <<>>
      BY <1>2, ChainTyped
    <2>2. First(r).files = <<r>> /\ First(r).level = grant
      BY DEF First
    <2>3. Len(<<r>>) = 1 /\ <<r>>[1] = r /\ Last(<<r>>) = r
      BY DEF Last
    <2>4. r \in docs /\ MetAt(r, RootLevel)
      BY <1>1 DEF Followed
    <2>5. expanded[r] >= 2
      BY <1>2, <1>3, <2>4
    <2>6. <<r, grant>> \in seen
      BY <1>1, <1>2, <1>4 DEF Granted
    <2>7. (\A i \in 1 .. 1 : i = 1) /\ (\A i \in 2 .. 1 : FALSE)
      OBVIOUS
    <2>8. \A i \in 1 .. 1 : <<r>>[i] \in docs /\ expanded[<<r>>[i]] >= i + 1
      BY <2>3, <2>4, <2>5, <2>7
    <2>9. \A i, k \in 1 .. 1 : ~(i < k)
      OBVIOUS
    <2>10. Traced(First(r))
      BY <2>1, <2>2, <2>3, <2>6, <2>7, <2>8, <2>9 DEF Traced
    <2> QED BY <2>1, <2>10
  <1>6. ASSUME NEW c \in ChainRecord, Traced(c), NEW j \in jobs[Last(c.files)], j.to \in Callee
        PROVE  Follow(c, j) \in S
    <2> DEFINE s == c.files
               t == Follow(c, j).files
               n == Len(s)
               f == Last(s)
    <2>1. /\ s \in Seq(Callee) /\ s # <<>> /\ n \in Nat \ {0} /\ DOMAIN s = 1 .. n
          /\ f = s[n] /\ f \in Callee /\ c.level \in Level /\ \A i \in 1 .. n : s[i] \in Callee
      BY <1>6 DEF ChainRecord, Traced, Last
    <2>2. /\ Follow(c, j) \in ChainRecord /\ t # <<>> /\ Len(t) = n + 1
          /\ \A i \in 1 .. n : t[i] = s[i]
          /\ t[n + 1] = j.to /\ Last(t) = j.to /\ Follow(c, j).level = Effective(j, c.level)
      BY <1>2, <1>6, <2>1, FollowTyped
    <2>3. /\ s[1] \in Roots
          /\ \A i \in 1 .. n : s[i] \in docs /\ expanded[s[i]] >= i + 1
          /\ \A i, k \in 1 .. n : i < k => expanded[s[i]] < expanded[s[k]]
          /\ \A i \in 2 .. n : <<s[i - 1], s[i]>> \in called /\ s[i] \in edges[s[i - 1]]
          /\ <<f, c.level>> \in seen
      BY <1>6 DEF Traced
    <2> HIDE DEF s, t, n, f
    <2>4. j.to # NoCall /\ j \in jobs[f]
      BY <1>6, CalleeAssumption DEF f, s
    <2>5. expanded[f] >= n + 1 /\ expanded[f] \in Nat /\ expanded[j.to] \in Nat
      BY <1>2, <1>6, <2>1, <2>3
    <2>6. expanded[f] > 0
      BY <2>1, <2>5
    <2>7. j.to \in edges[f] /\ edges[f] = Calls(f) \cap Callee
      <3>1. edges[f] = Calls(f) \cap Callee
        BY <1>1, <2>1, <2>6 DEF Followed
      <3> QED BY <1>6, <2>4, <3>1 DEF Calls
    <2>8. j.to \in docs /\ <<f, j.to>> \in called /\ MetAt(j.to, expanded[f] + 1)
      BY <1>1, <2>1, <2>6, <2>7 DEF Followed
    <2>9. expanded[j.to] >= expanded[f] + 1
      BY <1>3, <2>8
    <2>10. <<j.to, Effective(j, c.level)>> \in seen
      <3>1. Walked(j.to, Effective(j, c.level))
        BY <1>1, <1>2, <1>6, <2>1, <2>3, <2>4 DEF Granted
      <3> QED BY <1>4, <3>1
    <2>11. \A i \in 1 .. n + 1 : t[i] \in docs /\ expanded[t[i]] >= i + 1
      <3>1. \A i \in 1 .. n : t[i] \in docs /\ expanded[t[i]] >= i + 1
        BY <2>2, <2>3
      <3>2. t[n + 1] \in docs /\ expanded[t[n + 1]] >= (n + 1) + 1
        BY <2>1, <2>2, <2>5, <2>8, <2>9
      <3>3. \A i \in 1 .. n + 1 : i \in 1 .. n \/ i = n + 1
        BY <2>1
      <3> QED BY <3>1, <3>2, <3>3
    <2>12. ASSUME NEW i \in 1 .. n + 1, NEW k \in 1 .. n + 1, i < k PROVE expanded[t[i]] < expanded[t[k]]
      <3>1. CASE k = n + 1
        <4>1. i \in 1 .. n /\ expanded[s[i]] \in Nat
          BY <1>2, <2>1, <2>12, <3>1
        <4>2. expanded[s[i]] <= expanded[f]
          <5>1. CASE i = n
            BY <2>1, <2>5, <5>1
          <5>2. CASE i # n
            <6>1. i < n /\ n \in 1 .. n
              BY <2>1, <4>1, <5>2
            <6>2. expanded[s[i]] < expanded[s[n]]
              BY <2>3, <4>1, <6>1
            <6> QED BY <2>1, <2>5, <4>1, <6>2
          <5> QED BY <5>1, <5>2
        <4> QED BY <2>2, <2>5, <2>9, <3>1, <4>1, <4>2
      <3>2. CASE k # n + 1
        <4>1. i \in 1 .. n /\ k \in 1 .. n
          BY <2>1, <2>12, <3>2
        <4> QED BY <2>2, <2>3, <2>12, <4>1
      <3> QED BY <3>1, <3>2
    <2>13. ASSUME NEW i \in 2 .. n + 1 PROVE <<t[i - 1], t[i]>> \in called /\ t[i] \in edges[t[i - 1]]
      <3>1. CASE i = n + 1
        <4>1. i - 1 = n /\ n \in 1 .. n
          BY <2>1, <3>1
        <4>2. t[i - 1] = f /\ t[i] = j.to
          BY <2>1, <2>2, <3>1, <4>1
        <4> QED BY <2>7, <2>8, <4>2
      <3>2. CASE i # n + 1
        <4>1. i \in 2 .. n /\ i \in 1 .. n /\ i - 1 \in 1 .. n
          BY <2>1, <3>2
        <4> QED BY <2>2, <2>3, <4>1
      <3> QED BY <3>1, <3>2
    <2>14. t[1] \in Roots
      BY <2>1, <2>2, <2>3
    <2>15. Traced(Follow(c, j))
      <3> HIDE DEF Follow
      <3>1. Follow(c, j).files = t
        BY DEF t
      <3> QED BY <2>2, <2>10, <2>11, <2>12, <2>13, <2>14, <3>1 DEF Traced
    <2> QED BY <2>2, <2>15
  <1>7. Chains \subseteq S
    <2>1. \A r \in Roots : First(r) \in S
      BY <1>5
    <2>2. \A c \in Chains : c \in S /\ Last(c.files) \in readable =>
             \A j \in jobs[Last(c.files)] : j.to \in Callee => Follow(c, j) \in S
      BY <1>6
    <2> HIDE DEF S
    <2> QED BY <1>2, <2>1, <2>2, ChainsHave
  <1> QED
    BY <1>7

\* And a followed chain runs, through what the walk found reachable.
LEMMA TracedRuns ==
    ASSUME CalleeInv, stage = "done", NothingReported, NEW c, Traced(c)
    PROVE  Runs(c) /\ Range(c.files) \subseteq Reachable(Roots)
  <1>1. WalkTypes /\ Followed /\ Granted
    BY DEF CalleeInv
  <1>2. gaps = {} /\ called \cap misfit = {} /\ over = {}
    BY DEF NothingReported
  <1>3. /\ PlatformInit /\ stage # "walk" /\ docs \subseteq readable /\ MaxDepth \in Nat /\ RootLevel = 2
        /\ expanded \in [Callee -> 0 .. MaxDepth] /\ edges \in [Callee -> SUBSET Callee]
    BY <1>1, CalleeAssumption DEF WalkTypes, RootLevel
  <1> DEFINE s == c.files
             n == Len(s)
             f == Last(s)
  <1>4. /\ s \in Seq(Callee) /\ s # <<>> /\ n \in Nat \ {0} /\ DOMAIN s = 1 .. n
        /\ f = s[n] /\ f \in Callee /\ c.level \in Level /\ \A i \in 1 .. n : s[i] \in Callee
    BY DEF ChainRecord, Traced, Last
  <1>5. /\ s[1] \in Roots
        /\ \A i \in 1 .. n : s[i] \in docs /\ expanded[s[i]] >= i + 1
        /\ \A i, k \in 1 .. n : i < k => expanded[s[i]] < expanded[s[k]]
        /\ \A i \in 2 .. n : <<s[i - 1], s[i]>> \in called /\ s[i] \in edges[s[i - 1]]
        /\ <<f, c.level>> \in seen
    BY DEF Traced
  <1>6. s = c.files /\ n = Len(c.files) /\ f = Last(c.files)
    OBVIOUS
  <1> HIDE DEF s, n, f
  <1>7. n \in 1 .. n /\ f \in readable
    BY <1>3, <1>4, <1>5
  <1>8. expanded[f] >= n + 1 /\ expanded[f] \in 0 .. MaxDepth
    BY <1>3, <1>4, <1>5, <1>7
  <1>9. n <= MaxDepth - RootLevel + 1 /\ expanded[f] > 0
    BY <1>3, <1>4, <1>8
  <1>10. IsInjective(s)
    <2> SUFFICES ASSUME NEW i \in 1 .. n, NEW k \in 1 .. n, s[i] = s[k], i # k PROVE FALSE
      BY <1>4 DEF IsInjective
    <2>1. i < k \/ k < i
      BY <1>4
    <2>2. expanded[s[i]] \in Nat
      BY <1>3, <1>4
    <2>3. expanded[s[i]] < expanded[s[k]] \/ expanded[s[k]] < expanded[s[i]]
      BY <1>5, <2>1
    <2> QED BY <2>2, <2>3
  <1>11. Beyond \notin Calls(f)
    BY <1>1, <1>2, <1>4, <1>9 DEF Followed
  <1>12. ASSUME NEW j \in jobs[f], j.asks # Inherit PROVE j.asks <= c.level
    <2>1. ~(j.asks > c.level)
      BY <1>1, <1>2, <1>3, <1>4, <1>5, <1>12 DEF Granted
    <2>2. j.asks \in Level
      BY <1>3, <1>4, <1>12, JobTyped
    <2> QED BY <1>4, <2>1, <2>2 DEF Level
  <1>13. \A i \in 2 .. n : <<s[i - 1], s[i]>> \notin misfit
    BY <1>2, <1>5
  <1>14. Runs(c)
    BY <1>6, <1>7, <1>9, <1>10, <1>11, <1>12, <1>13 DEF Runs
  <1>15. n <= Cardinality(Callee)
    <2>1. s \in Injection(1 .. n, Callee)
      <3>1. s \in [1 .. n -> Callee]
        BY <1>4
      <3> QED BY <1>4, <1>10, <3>1 DEF Injection
    <2>2. Cardinality(1 .. n) <= Cardinality(Callee)
      BY <2>1, FS_Injection, CalleeAssumption
    <2>3. Cardinality(1 .. n) = IF 1 > n THEN 0 ELSE n - 1 + 1
      BY <1>4, FS_Interval
    <2>4. Cardinality(1 .. n) = n
      BY <1>4, <2>3
    <2> QED BY <2>2, <2>4
  <1>16. Range(s) \subseteq Reachable(Roots)
    <2>1. \A i \in 2 .. Len(s) : s[i] \in edges[s[i - 1]]
      BY <1>5 DEF n
    <2>2. Len(s) <= Cardinality(Callee)
      BY <1>15 DEF n
    <2> QED BY <1>3, <1>4, <1>5, <2>1, <2>2, ReachablePath
  <1> QED
    BY <1>6, <1>14, <1>16

LEMMA VerifiedAtEnd == CalleeInv => CallsVerified
  <1> SUFFICES ASSUME CalleeInv, stage = "done"
               PROVE  NothingReported <=>
                         /\ AllRun
                         /\ Cardinality(UNION {Range(c.files) : c \in Chains}) <= PerCaller
    BY DEF CallsVerified, AllRun
  <1> DEFINE U == UNION {Range(c.files) : c \in Chains}
  <1>1. WalkTypes /\ SoundWalk
    BY DEF CalleeInv
  <1>2. PlatformInit /\ edges \in [Callee -> SUBSET Callee]
    BY <1>1 DEF WalkTypes
  <1>3. ASSUME NEW c \in Chains PROVE Range(c.files) \subseteq Callee /\ Last(c.files) \in Range(c.files)
    <2>1. c.files \in Seq(Callee) /\ c.files # <<>>
      BY <1>2, ChainTyped DEF ChainRecord
    <2>2. Last(c.files) \in Range(c.files)
      BY <2>1, Popped
    <2>3. Range(c.files) \subseteq Callee
      BY <2>1 DEF Range
    <2> QED BY <2>2, <2>3
  <1>4. U \in SUBSET Callee
    BY <1>3
  <1>5. Reachable(Roots) \subseteq Callee
    BY <1>2, ReachableWithin, CalleeAssumption
  <1>6. /\ IsFiniteSet(U) /\ IsFiniteSet(Reachable(Roots))
        /\ Cardinality(U) \in Nat /\ Cardinality(Reachable(Roots)) \in Nat /\ PerCaller \in Nat
    <2> HIDE DEF U
    <2> QED BY <1>4, <1>5, CalleeAssumption, FS_Subset, FS_CardinalityType
  <1>7. ASSUME NothingReported PROVE AllRun /\ Cardinality(U) <= PerCaller
    <2>1. \A c \in Chains : Traced(c)
      BY <1>7, AllTraced DEF NothingReported
    <2>2. \A c \in Chains : Runs(c) /\ Range(c.files) \subseteq Reachable(Roots)
      BY <1>7, <2>1, TracedRuns
    <2>3. U \subseteq Reachable(Roots)
      BY <2>2
    <2> HIDE DEF U
    <2>4. Cardinality(U) <= Cardinality(Reachable(Roots))
      BY <1>6, <2>3, FS_Subset
    <2>5. ~(Cardinality(Reachable(Roots)) > PerCaller)
      BY <1>7 DEF NothingReported, TooMany
    <2>6. Cardinality(U) <= PerCaller
      BY <1>6, <2>4, <2>5
    <2> QED BY <2>2, <2>6 DEF AllRun
  <1>8. ASSUME AllRun, Cardinality(U) <= PerCaller PROVE NothingReported
    <2>1. /\ gaps = {} /\ called \cap misfit = {} /\ over = {}
          /\ \A f \in Callee : \A t \in edges[f] : \E c \in Chains : Last(c.files) = t
      BY <1>1, <1>8 DEF SoundWalk
    <2>2. \A f \in U : edges[f] \subseteq U
      <3> SUFFICES ASSUME NEW f \in U, NEW t \in edges[f] PROVE t \in U
        OBVIOUS
      <3>1. PICK c \in Chains : Last(c.files) = t
        BY <1>4, <2>1
      <3> QED BY <1>3, <3>1
    <2>3. Roots \subseteq U
      <3> SUFFICES ASSUME NEW r \in Roots PROVE r \in U
        OBVIOUS
      <3>1. First(r) \in Chains /\ First(r).files = <<r>> /\ Last(<<r>>) = r
        BY <1>2, ChainTyped DEF First, Last
      <3> QED BY <1>3, <3>1
    <2> HIDE DEF U
    <2>4. Reachable(Roots) \subseteq U
      BY <1>2, <1>4, <2>2, <2>3, ReachableWithin
    <2>5. Cardinality(Reachable(Roots)) <= Cardinality(U)
      BY <1>6, <2>4, FS_Subset
    <2>6. ~TooMany
      BY <1>6, <1>8, <2>5 DEF TooMany
    <2> QED BY <2>1, <2>6 DEF NothingReported
  <1> QED
    BY <1>7, <1>8

(***************************************************************************)
(* Doctor finds nothing wrong with the calls of the generated callers      *)
(* exactly when every chain GitHub would follow can run, whatever the      *)
(* platform's files call, ask for and take: the walk expands a file again  *)
(* only when it is met deeper, and passes each level of token through it   *)
(* once (platform_callee_graph, token_permission_problems).                *)
(***************************************************************************)
THEOREM CallsStayVerified == CalleeSpec => []CallsVerified
  <1>1. PlatformInit /\ WalkInit => CalleeInv
    BY CalleeInvInit
  <1>2. CalleeInv /\ [CalleeNext]_calleeVars => CalleeInv'
    BY CalleeInvNext
  <1>3. CalleeInv => CallsVerified
    BY VerifiedAtEnd
  <1> QED
    BY <1>1, <1>2, <1>3, PTL DEF CalleeSpec
=============================================================================
