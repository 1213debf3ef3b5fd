----------------------------- MODULE Onboarding -----------------------------
(***************************************************************************)
(* `sdlcctl onboard` in a checkout (write_onboarding): what it refuses,    *)
(* what it merges into files the owner added to, and the files it writes   *)
(* one by one, while the owner edits between runs, the package is upgraded *)
(* and a run dies half way.                                                *)
(*                                                                         *)
(* Two guides behave alike, and so do the workflows every mode installs:   *)
(* one of each stands for them.                                            *)
(***************************************************************************)
EXTENDS Naturals, Sequences, FiniteSets

CONSTANTS
    Profile,    \* what onboarding may be asked for: [mode, routed, commands]
    None,       \* no file; in a guide, no Forge text
    Broken,     \* a policy that does not parse
    Edited,     \* a Forge guide whose text was edited by hand, heading kept
    Theirs,     \* a file of the owner's in a managed place
    MaxEdits,   \* bound on the owner's acts and the upgrades
    MaxAsks     \* bound on the runs

\* A guide with Forge text of some release or the owner's, and the settings.
Guide == [notes : BOOLEAN, text : {None, Edited} \union [release : Nat, profile : Profile]]
Settings == [theirs : BOOLEAN, forge : {"none", "managed", "stale", "twice"}, off : BOOLEAN, sound : BOOLEAN]

ASSUME OnboardAssumption == None \notin Guide /\ None \notin Settings

VARIABLES
    checkout,   \* the managed paths of the checkout
    linked,     \* managed paths that are a symlink or a directory
    release,    \* the installed package: its templates
    asked,      \* the profile of the current or last run
    forced,     \* --force
    plan,       \* what the run has yet to write or remove, by its turn
    outcome,    \* "none", "writing", "done", "refused", "died"
    before,     \* the checkout when the run began (history)
    edits, asks

onboardVars == <<checkout, linked, release, asked, forced, plan, outcome, before, edits, asks>>

Managed == {"settings", "policy", "guide", "ci", "implement", "routine", "registry"}

\* MODE_OWNED_FILES
ModeOwned == {"implement", "routine", "registry"}

\* The order files are written in.
Order == <<"settings", "policy", "guide", "ci", "implement", "routine", "registry">>

Render(p) == [release |-> release, profile |-> p]

FreshSettings == [theirs |-> FALSE, forge |-> "managed", off |-> FALSE, sound |-> TRUE]

\* render_onboarding
Rendered(p) ==
    {"settings", "policy", "guide", "ci"}
        \union (IF p.mode = "actions" THEN {"implement"} ELSE {"routine"})
        \union (IF p.routed THEN {"registry"} ELSE {})

Fresh(p, f) ==
    CASE f = "settings" -> FreshSettings
      [] f = "policy" -> p
      [] f = "guide" -> [notes |-> FALSE, text |-> Render(p)]
      [] OTHER -> Render(p)

-----------------------------------------------------------------------------
(* Merging into what is there.                                             *)

\* The guide texts the installed policy renders with the templates of now.
PreviousGuides == IF checkout["policy"] \in {None, Broken} THEN {} ELSE {Render(checkout["policy"])}

\* A guide with a Forge heading whose text is neither wanted nor a previous one.
GuideRefused(p) ==
    checkout["guide"].text \notin {None, Render(p)} \union PreviousGuides

\* Kept, replaced in place or appended: the notes around it stay.
MergedGuide(p) == [checkout["guide"] EXCEPT !.text = Render(p)]

SettingsRefused == ~checkout["settings"].sound

\* The Forge handlers there are dropped, the managed ones appended once.
MergedSettings == [checkout["settings"] EXCEPT !.forge = "managed", !.off = FALSE]

Existing(p) == {f \in Rendered(p) : checkout[f] # None}

Refused(p, force) ==
    \/ linked \cap (Rendered(p) \union (IF force THEN ModeOwned ELSE {})) # {}
    \/ ~force /\ Existing(p) # {}
    \/ "guide" \in Existing(p) /\ GuideRefused(p)
    \/ "settings" \in Existing(p) /\ SettingsRefused

Wanted(p, f) ==
    IF f \notin Existing(p) THEN Fresh(p, f)
    ELSE CASE f = "guide" -> MergedGuide(p)
           [] f = "settings" -> MergedSettings
           [] OTHER -> Fresh(p, f)

\* Mutation: a forced run leaves the launchers of the other mode.
StaleNever(p, force) == {}

Stale(p, force) == IF force THEN {f \in ModeOwned \ Rendered(p) : checkout[f] # None} ELSE {}

\* Every merge is computed before the first write; removals come last.
Planned(p, force) ==
    LET files == DOMAIN Order
        writes == {k \in files : Order[k] \in Rendered(p)}
        removals == {k \in files : Order[k] \in Stale(p, force)}
    IN [k \in writes \union {Len(Order) + j : j \in removals} |->
           IF k \in files THEN [path |-> Order[k], content |-> Wanted(p, Order[k])]
           ELSE [path |-> Order[k - Len(Order)], content |-> None]]

-----------------------------------------------------------------------------
Onboard(p, force) ==
    /\ outcome # "writing" /\ asks < MaxAsks
    /\ asks' = asks + 1
    /\ asked' = p /\ forced' = force /\ before' = checkout
    /\ IF Refused(p, force)
       THEN outcome' = "refused" /\ plan' = <<>>
       ELSE outcome' = "writing" /\ plan' = Planned(p, force)
    /\ UNCHANGED <<checkout, linked, release, edits>>

\* One file, swapped in whole, or one leftover removed.
WriteFile ==
    /\ outcome = "writing"
    /\ \E k \in DOMAIN plan :
          /\ \A j \in DOMAIN plan : k <= j
          /\ checkout' = [checkout EXCEPT ![plan[k].path] = plan[k].content]
          /\ plan' = [j \in DOMAIN plan \ {k} |-> plan[j]]
          /\ outcome' = IF DOMAIN plan = {k} THEN "done" ELSE "writing"
    /\ UNCHANGED <<linked, release, asked, forced, before, edits, asks>>

Interrupt ==
    /\ outcome = "writing"
    /\ outcome' = "died" /\ plan' = <<>>
    /\ UNCHANGED <<checkout, linked, release, asked, forced, before, edits, asks>>

-----------------------------------------------------------------------------
(* The owner, between runs.                                                *)

Edits ==
    /\ outcome # "writing" /\ edits < MaxEdits
    /\ edits' = edits + 1 /\ outcome' = "none"
    /\ UNCHANGED <<asked, forced, plan, before, asks>>

PutFile(f, content) ==
    /\ Edits /\ f \notin linked
    /\ checkout' = [checkout EXCEPT ![f] = content]
    /\ UNCHANGED <<linked, release>>

Annotate ==
    PutFile("guide", IF checkout["guide"] = None THEN [notes |-> TRUE, text |-> None]
                 ELSE [checkout["guide"] EXCEPT !.notes = TRUE])

EditGuide ==
    /\ checkout["guide"] # None /\ checkout["guide"].text # None
    /\ PutFile("guide", [checkout["guide"] EXCEPT !.text = Edited])

EditSettings ==
    \E s \in {IF checkout["settings"] = None THEN [FreshSettings EXCEPT !.forge = "none"] ELSE checkout["settings"]} :
        \/ PutFile("settings", [s EXCEPT !.theirs = TRUE])
        \/ PutFile("settings", [s EXCEPT !.off = TRUE])
        \/ PutFile("settings", [s EXCEPT !.sound = FALSE])
        \/ s.forge = "managed" /\ \E g \in {"stale", "twice"} : PutFile("settings", [s EXCEPT !.forge = g])

Replace(f) ==
    \/ checkout[f] # None /\ PutFile(f, None)
    \/ f = "policy" /\ PutFile(f, Broken)
    \/ f \in ModeOwned \union {"ci"} /\ PutFile(f, Theirs)

Link(f) ==
    /\ Edits
    /\ linked' = IF f \in linked THEN linked \ {f} ELSE linked \union {f}
    /\ UNCHANGED <<checkout, release>>

\* The package with other templates is installed.
Upgrade ==
    /\ Edits /\ release' = release + 1
    /\ UNCHANGED <<checkout, linked>>

OnboardInit ==
    /\ checkout = [f \in Managed |-> None] /\ linked = {} /\ release = 1
    /\ asked \in Profile /\ forced = FALSE /\ plan = <<>> /\ outcome = "none"
    /\ before = checkout /\ edits = 0 /\ asks = 0

OnboardNext ==
    \/ \E p \in Profile, force \in BOOLEAN : Onboard(p, force)
    \/ WriteFile
    \/ Interrupt
    \/ Annotate
    \/ EditGuide
    \/ EditSettings
    \/ \E f \in Managed : Replace(f) \/ Link(f)
    \/ Upgrade

OnboardSpec == OnboardInit /\ [][OnboardNext]_onboardVars

-----------------------------------------------------------------------------
Keeps(have, now) ==
    /\ have["guide"] # None /\ have["guide"].notes => now["guide"] # None /\ now["guide"].notes
    /\ have["settings"] # None /\ have["settings"].theirs => now["settings"] # None /\ now["settings"].theirs

Installed(p) ==
    /\ \A f \in Rendered(p) \ {"guide", "settings"} : checkout[f] = Fresh(p, f)
    /\ checkout["guide"].text = Render(p)
    /\ checkout["settings"].forge = "managed" /\ checkout["settings"].sound /\ ~checkout["settings"].off

(***************************************************************************)
(* However often it is run, refused, cut short or asked for another mode,  *)
(* onboarding keeps the owner's notes and hooks, changes nothing when it   *)
(* refuses, nothing through a link, and nothing that was there unless      *)
(* forced; and where it says it is done, the checkout is what that profile *)
(* generates, with no other text of Forge's in its guide and, when forced, *)
(* no launcher of another mode (write_onboarding, _merge_guide,            *)
(* _merge_settings, MODE_OWNED_FILES).                                     *)
(***************************************************************************)
OnboardingKeeps ==
    /\ outcome \in {"writing", "done", "died"} => Keeps(before, checkout)
    /\ outcome = "refused" => checkout = before
    /\ outcome \in {"writing", "done", "died"} =>
           \A f \in Managed : checkout[f] # before[f] => f \notin linked /\ (forced \/ before[f] = None)
    /\ outcome = "done" =>
           /\ Installed(asked)
           /\ forced => \A f \in ModeOwned \ Rendered(asked) : checkout[f] = None
=============================================================================
