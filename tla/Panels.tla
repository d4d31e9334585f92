------------------------------- MODULE Panels -------------------------------
(***************************************************************************)
(* The settings panels of the bot (handleToken and the render functions of *)
(* internal/bot/bot.go), with what the service and the table make of what  *)
(* they save.  A panel is a message with buttons; the bot keeps nothing    *)
(* between two taps, the draft travels in the tokens of the buttons.  So a *)
(* panel may be old: others may have changed or deleted the subscription   *)
(* since it was drawn.                                                     *)
(*                                                                         *)
(* A handler is one step: it runs to its end before the next update, and   *)
(* one that fails for want of the database is sent again (PollLoop).       *)
(* Pausing, testing and the hook on GitHub are left to HookSync.           *)
(***************************************************************************)
CONSTANTS
  Messages,    \* messages showing a panel
  Creators,    \* bound: those on which a subscription is created
  Subs,        \* bound: ids of subscriptions, none used twice
  Groups,      \* groups the bot is in
  Branches,    \* branches of the repository
  Actions,     \* pull request actions: opened, merged, closed
  ReleaseModes, \* all, releases, prereleases
  None

Events == {"push", "pull_request", "release"}
Modes == {"all", "default", "selected"}
Destinations == {"dm"} \cup Groups

\* What a panel carries: a new subscription, or the part of one being edited.
Drafts == [dest : Destinations \cup {None}, events : SUBSET Events,
           mode : Modes \cup {None}, names : SUBSET Branches,
           actions : {None} \cup SUBSET Actions, release : ReleaseModes \cup {None}]

NewDraft == [dest |-> None, events |-> {}, mode |-> None, names |-> {},
             actions |-> None, release |-> None]

Creating == {"destination", "events", "settings", "branch", "branchList", "noBranches",
             "pr", "release"}
Editing == {"sub", "menu", "advanced", "editDestination", "editEvents", "editBranch",
            "editBranchList", "noEditBranches", "editPr", "editRelease", "delete"}

ASSUME PanelsAssumption ==
  /\ Creators \subseteq Messages
  /\ None \notin Subs \cup Destinations \cup Modes \cup ReleaseModes
  /\ \A A \in SUBSET Actions : A # None
  /\ "dm" \notin Groups
  /\ Actions # {} /\ "all" \in ReleaseModes

VARIABLES
  panel,     \* the screen of a message, its subscription and its draft
  rows,      \* settings in the table
  alive,     \* ids with a row
  used,      \* ids that ever had one
  \* history
  checked,   \* the group whose administrator the user was found to be, by message
  refused    \* saving buttons whose tap the service or the table refused

vars == <<panel, rows, alive, used, checked, refused>>

----------------------------------------------------------------------------
\* Settings

Toggle(S, x) == IF x \in S THEN S \ {x} ELSE S \cup {x}

UsesBranchFilter(events) == events \cap {"push", "pull_request"} # {}

WithDraftDefaults(d) ==
  [d EXCEPT !.mode = IF @ = None THEN "all" ELSE @,
            !.actions = IF @ = None THEN Actions ELSE @,
            !.release = IF @ = None THEN "all" ELSE @]

\* Mutant: an empty selection stays one.
BranchModeKept(d) == IF UsesBranchFilter(d.events) THEN d.mode ELSE "all"

\* The branch filter of a draft: none without branches to filter, names only for
\* "selected", and "default" when nothing was selected.
BranchMode(d) ==
  IF ~UsesBranchFilter(d.events) THEN "all"
  ELSE IF d.mode = "selected" /\ d.names = {} THEN "default"
  ELSE d.mode

\* Mutant: the names stay when the mode changes.
BranchNamesKept(d) == d.names

BranchNames(d) ==
  IF UsesBranchFilter(d.events) /\ d.mode = "selected" THEN d.names ELSE {}

NormalizeDraftForEvents(draft) ==
  LET d == WithDraftDefaults(draft)
  IN  [d EXCEPT !.mode = BranchMode(d), !.names = BranchNames(d)]

SettingsReady(d) ==
  /\ d.events # {}
  /\ "pull_request" \in d.events => d.actions # {}
  /\ UsesBranchFilter(d.events) /\ d.mode = "selected" => d.names # {}

\* normalizeSettings: what it accepts, and what it makes of it.
Valid(r) ==
  /\ r.events # {}
  /\ "pull_request" \in r.events => r.actions # {}
  /\ UsesBranchFilter(r.events) /\ r.mode = "selected" => r.names # {}

Settings(r) ==
  [r EXCEPT !.mode = IF UsesBranchFilter(r.events) THEN @ ELSE "all",
            !.names = IF UsesBranchFilter(r.events) /\ r.mode = "selected" THEN @ ELSE {}]

\* CHECK constraints of the table.
Storable(r) ==
  /\ r.mode = "selected" <=> r.names # {}
  /\ r.actions # {}

TypeOK ==
  /\ panel \in [Messages -> [screen : {"home"} \cup Creating \cup Editing,
                             sub : Subs \cup {None}, draft : Drafts]]
  /\ \A m \in Messages : panel[m].screen \in Editing <=> panel[m].sub # None
  /\ rows \in [Subs -> Drafts]
  /\ alive \subseteq used /\ used \subseteq Subs
  /\ \A s \in alive :
       /\ None \notin {rows[s].dest, rows[s].mode, rows[s].release}
       /\ rows[s].events # {} /\ Storable(rows[s])
  /\ checked \in [Messages -> Groups \cup {None}]
  /\ refused \subseteq {"create", "edit"}

Home == [screen |-> "home", sub |-> None, draft |-> NewDraft]

Init ==
  /\ panel = [m \in Messages |-> Home]
  /\ rows = [s \in Subs |-> NewDraft]
  /\ alive = {} /\ used = {}
  /\ checked = [m \in Messages |-> None]
  /\ refused = {}

----------------------------------------------------------------------------
\* Screens

Show(m, p) == panel' = [panel EXCEPT ![m] = p]

Screen(screen, d) == [screen |-> screen, sub |-> None, draft |-> d]

On(m, screen) == panel[m].screen = screen
Draft(m) == panel[m].draft
Sub(m) == panel[m].sub

\* A tap that draws a screen and changes nothing else.  A check counts for the
\* draft it was made for.
Draw(m, p) ==
  /\ Show(m, p)
  /\ checked' = [checked EXCEPT ![m] = IF p.screen \in Creating THEN @ ELSE None]
  /\ UNCHANGED <<rows, alive, used, refused>>

RenderDestinationPicker(d) == Screen("destination", d)
RenderEventPicker(d) == Screen("events", WithDraftDefaults(d))
RenderEventSettings(d) == Screen("settings", NormalizeDraftForEvents(d))
RenderBranchSettings(d) == Screen("branch", NormalizeDraftForEvents(d))
RenderPullRequestSettings(d) == Screen("pr", NormalizeDraftForEvents(d))
RenderReleaseSettings(d) == Screen("release", NormalizeDraftForEvents(d))

\* ListBranches may find none, or fail.
RenderBranchList(d) ==
  LET selecting == [NormalizeDraftForEvents(d) EXCEPT !.mode = "selected"]
  IN  {Screen("branchList", selecting), Screen("noBranches", selecting), Home}

\* A screen about subscription s, with the part of it its buttons carry.
Edit(screen, s, d) == [screen |-> screen, sub |-> s, draft |-> d]

RenderSubscription(s) == IF s \in alive THEN Edit("sub", s, NewDraft) ELSE Home

RenderEditMenu(s) ==
  IF s \in alive THEN Edit("menu", s, [NewDraft EXCEPT !.events = rows[s].events]) ELSE Home

RenderEditEvents(s, events) == Edit("editEvents", s, [NewDraft EXCEPT !.events = events])

\* r is the row of s.
AdvancedSettings(s, r) == Edit("advanced", s, [NewDraft EXCEPT !.events = r.events])

RenderAdvancedSettings(s) == IF s \in alive THEN AdvancedSettings(s, rows[s]) ELSE Home

RenderEditBranch(s) ==
  IF s \in alive /\ UsesBranchFilter(rows[s].events)
  THEN Edit("editBranch", s, [NewDraft EXCEPT !.mode = rows[s].mode, !.names = rows[s].names])
  ELSE RenderAdvancedSettings(s)

\* No names means those of the row.
RenderEditBranchList(s, names) ==
  LET selected == IF names = {} THEN rows[s].names ELSE names
      selecting == [NewDraft EXCEPT !.names = selected]
  IN  IF s \in alive
      THEN {Edit("editBranchList", s, selecting), Edit("noEditBranches", s, NewDraft), Home}
      ELSE {Home}

RenderEditPullRequestSettings(s, actions) ==
  IF s \in alive /\ "pull_request" \in rows[s].events
  THEN Edit("editPr", s, [NewDraft EXCEPT !.actions = actions])
  ELSE RenderAdvancedSettings(s)

RenderEditReleaseSettings(s) ==
  IF s \in alive /\ "release" \in rows[s].events
  THEN Edit("editRelease", s, [NewDraft EXCEPT !.release = rows[s].release])
  ELSE RenderAdvancedSettings(s)

----------------------------------------------------------------------------
\* A new subscription

\* /start in another message, or Home.
Leave(m) == Draw(m, Home)

\* The destination picker follows the choice of a repository.
New(m) ==
  /\ On(m, "home") /\ m \in Creators /\ used # Subs
  /\ Draw(m, RenderDestinationPicker(NewDraft))

\* The group of the chosen destination whose administrator the user was found to be.
CheckedFor(dest) == IF dest \in Groups THEN dest ELSE None

\* Mutant: only the picker of an existing subscription asks Telegram.
DestinationUnchecked(m, dest) ==
  Show(m, RenderEventPicker([Draft(m) EXCEPT !.dest = dest])) /\ UNCHANGED checked

\* sub.dest, from the picker and from the Back button of the settings; Telegram's
\* answer to requireGroupAdmin counts for groups only.
Destination(m, dest) ==
  LET d == [Draft(m) EXCEPT !.dest = dest]
  IN  \/ Show(m, RenderEventPicker(d)) /\ checked' = [checked EXCEPT ![m] = CheckedFor(dest)]
      \/ dest \in Groups /\ Show(m, RenderDestinationPicker(d)) /\ UNCHANGED checked

PickDestination(m) ==
  /\ \/ On(m, "destination") /\ \E dest \in Destinations : Destination(m, dest)
     \/ On(m, "settings") /\ Destination(m, Draft(m).dest)
  /\ UNCHANGED <<rows, alive, used, refused>>

ToggleEvent(m) ==
  /\ On(m, "events")
  /\ \E e \in Events :
       Draw(m, RenderEventPicker([Draft(m) EXCEPT !.events = Toggle(@, e)]))

EventPickerButtons(m) ==
  /\ On(m, "events")
  /\ \/ Draft(m).events # {} /\ Draw(m, RenderEventSettings(Draft(m)))
     \/ Draw(m, RenderDestinationPicker(Draft(m)))

EventSettingsButtons(m) ==
  /\ On(m, "settings")
  /\ \/ UsesBranchFilter(Draft(m).events) /\ Draw(m, RenderBranchSettings(Draft(m)))
     \/ "pull_request" \in Draft(m).events /\ Draw(m, RenderPullRequestSettings(Draft(m)))
     \/ "release" \in Draft(m).events /\ Draw(m, RenderReleaseSettings(Draft(m)))

BackToSettings(m) ==
  /\ panel[m].screen \in {"branch", "pr", "release"}
  /\ Draw(m, RenderEventSettings(Draft(m)))

PickBranchMode(m) ==
  /\ On(m, "branch")
  /\ \/ \E mode \in {"all", "default"} \ {Draft(m).mode} :
          Draw(m, RenderEventSettings([Draft(m) EXCEPT !.mode = mode, !.names = {}]))
     \/ \E p \in RenderBranchList([Draft(m) EXCEPT !.mode = "selected"]) : Draw(m, p)

ToggleBranch(m) ==
  /\ On(m, "branchList")
  /\ \E b \in Branches : \E p \in RenderBranchList([Draft(m) EXCEPT !.names = Toggle(@, b)]) :
       Draw(m, p)

BranchListButtons(m) ==
  \/ /\ panel[m].screen \in {"branchList", "noBranches"}
     /\ Draw(m, RenderBranchSettings(Draft(m)))
  \/ /\ On(m, "branchList") /\ Draft(m).names # {}
     /\ Draw(m, RenderEventSettings(Draft(m)))
  \/ /\ On(m, "noBranches")
     /\ Draw(m, RenderEventSettings([Draft(m) EXCEPT !.mode = "all", !.names = {}]))

TogglePullRequestAction(m) ==
  /\ On(m, "pr")
  /\ \E a \in Actions :
       Draw(m, RenderPullRequestSettings([Draft(m) EXCEPT !.actions = Toggle(@, a)]))

PickReleaseMode(m) ==
  /\ On(m, "release")
  /\ \E mode \in ReleaseModes \ {Draft(m).release} :
       Draw(m, RenderEventSettings([Draft(m) EXCEPT !.release = mode]))

\* Ids of the rows with these settings, of which the unique index allows one.
SameConfig(r) == {s \in alive : rows[s] = r}

\* sub.create: an existing subscription is used again.  Whatever else goes wrong
\* is undone (HookSync) and told.
CreateSubscription(m) ==
  LET d == NormalizeDraftForEvents(Draft(m))
      r == Settings(d)
      accepted == Valid(d) /\ Storable(r)
  IN  /\ On(m, "settings") /\ SettingsReady(Draft(m))
      /\ refused' = IF accepted THEN refused ELSE refused \cup {"create"}
      /\ \/ \E s \in Subs \ used :
              /\ accepted /\ SameConfig(r) = {}
              /\ rows' = [rows EXCEPT ![s] = r]
              /\ alive' = alive \cup {s} /\ used' = used \cup {s}
              /\ Show(m, Edit("sub", s, NewDraft))
         \/ /\ \E s \in SameConfig(r) : accepted /\ Show(m, RenderSubscription(s))
            /\ UNCHANGED <<rows, alive, used>>
         \/ Show(m, Home) /\ UNCHANGED <<rows, alive, used>>
      /\ UNCHANGED checked

----------------------------------------------------------------------------
\* Editing a subscription

View(m) ==
  /\ \/ On(m, "home") /\ \E s \in alive : Draw(m, RenderSubscription(s))
     \/ panel[m].screen \in {"menu", "delete"} /\ Draw(m, RenderSubscription(Sub(m)))

SubscriptionButtons(m) ==
  /\ On(m, "sub")
  /\ \/ Draw(m, RenderEditMenu(Sub(m)))
     \/ Draw(m, IF Sub(m) \in alive THEN Edit("delete", Sub(m), NewDraft) ELSE Home)

EditMenuButtons(m) ==
  /\ On(m, "menu")
  /\ \/ Draw(m, RenderEditEvents(Sub(m), Draft(m).events))
     \/ Draw(m, Edit("editDestination", Sub(m), NewDraft))
     \/ Draw(m, RenderAdvancedSettings(Sub(m)))

BackToMenu(m) ==
  /\ panel[m].screen \in {"advanced", "editDestination", "editEvents"}
  /\ Draw(m, RenderEditMenu(Sub(m)))

AdvancedButtons(m) ==
  /\ On(m, "advanced")
  /\ \/ UsesBranchFilter(Draft(m).events) /\ Draw(m, RenderEditBranch(Sub(m)))
     \/ /\ "pull_request" \in Draft(m).events
        /\ Draw(m, RenderEditPullRequestSettings(Sub(m), rows[Sub(m)].actions))
     \/ "release" \in Draft(m).events /\ Draw(m, RenderEditReleaseSettings(Sub(m)))

BackToAdvanced(m) ==
  /\ panel[m].screen \in {"editBranch", "editPr", "editRelease"}
  /\ Draw(m, RenderAdvancedSettings(Sub(m)))

\* One of the Set methods: the row becomes r unless it is gone, the settings are
\* not valid, the table refuses them, or something else fails.
Save(m, valid, r, next) ==
  LET s == Sub(m)
      accepted == valid /\ Storable(r)
  IN  /\ refused' = IF s \in alive /\ ~accepted THEN refused \cup {"edit"} ELSE refused
      /\ \/ /\ s \in alive /\ accepted /\ SameConfig(r) \subseteq {s}
            /\ rows' = [rows EXCEPT ![s] = r]
            /\ Show(m, next)
         \/ Show(m, Home) /\ UNCHANGED rows
      /\ UNCHANGED <<alive, used>>

ToggleEditEvent(m) ==
  /\ On(m, "editEvents")
  /\ \E e \in Events : Draw(m, RenderEditEvents(Sub(m), Toggle(Draft(m).events, e)))

SaveEvents(m) ==
  LET chosen == [rows[Sub(m)] EXCEPT !.events = Draft(m).events]
      r == Settings(chosen)
  IN  /\ On(m, "editEvents") /\ Draft(m).events # {}
      /\ Save(m, Valid(chosen), r, AdvancedSettings(Sub(m), r))
      /\ UNCHANGED checked

\* Mutant: the names stay when the mode changes.
WithBranchNames(r, mode, names) ==
  [r EXCEPT !.mode = mode, !.names = IF mode = "selected" THEN names ELSE @]

\* The row after SetBranch.
WithBranch(r, mode, names) ==
  [r EXCEPT !.mode = mode, !.names = IF mode = "selected" THEN names ELSE {}]

SetBranch(m, mode, names) ==
  LET r == WithBranch(rows[Sub(m)], mode, names)
  IN  /\ Save(m, mode = "selected" => names # {}, r, AdvancedSettings(Sub(m), r))
      /\ UNCHANGED checked

SaveBranch(m) ==
  \/ On(m, "editBranch") /\ \E mode \in {"all", "default"} \ {Draft(m).mode} : SetBranch(m, mode, {})
  \/ On(m, "editBranchList") /\ Draft(m).names # {} /\ SetBranch(m, "selected", Draft(m).names)
  \/ On(m, "noEditBranches") /\ SetBranch(m, "all", {})

EditBranchButtons(m) ==
  \/ /\ On(m, "editBranch")
     /\ \E p \in RenderEditBranchList(Sub(m), Draft(m).names) : Draw(m, p)
  \/ /\ panel[m].screen \in {"editBranchList", "noEditBranches"}
     /\ Draw(m, RenderEditBranch(Sub(m)))

ToggleEditBranch(m) ==
  /\ On(m, "editBranchList")
  /\ \E b \in Branches : \E p \in RenderEditBranchList(Sub(m), Toggle(Draft(m).names, b)) :
       Draw(m, p)

ToggleEditAction(m) ==
  /\ On(m, "editPr")
  /\ \E a \in Actions :
       Draw(m, RenderEditPullRequestSettings(Sub(m), Toggle(Draft(m).actions, a)))

SaveActions(m) ==
  LET r == [rows[Sub(m)] EXCEPT !.actions = Draft(m).actions]
  IN  /\ On(m, "editPr") /\ Draft(m).actions # {}
      /\ Save(m, TRUE, r, AdvancedSettings(Sub(m), r))
      /\ UNCHANGED checked

SaveReleaseMode(m) ==
  /\ On(m, "editRelease")
  /\ \E mode \in ReleaseModes \ {Draft(m).release} :
       LET r == [rows[Sub(m)] EXCEPT !.release = mode]
       IN  Save(m, TRUE, r, AdvancedSettings(Sub(m), r))
  /\ UNCHANGED checked

\* sub.edit.dest.save; a user who is no administrator sees the picker again.
SaveDestination(m) ==
  /\ On(m, "editDestination")
  /\ \E dest \in Destinations :
       \/ /\ Save(m, TRUE, [rows[Sub(m)] EXCEPT !.dest = dest], Edit("sub", Sub(m), NewDraft))
          /\ checked' = [checked EXCEPT ![m] = CheckedFor(dest)]
       \/ dest \in Groups /\ Draw(m, panel[m])

Delete(m) ==
  /\ On(m, "delete")
  /\ alive' \in {alive \ {Sub(m)}, alive}
  /\ rows' = [rows EXCEPT ![Sub(m)] = IF Sub(m) \in alive' THEN @ ELSE NewDraft]
  /\ Show(m, Home)
  /\ UNCHANGED <<used, checked, refused>>

Next ==
  \E m \in Messages :
    \/ Leave(m) \/ New(m) \/ PickDestination(m) \/ ToggleEvent(m) \/ EventPickerButtons(m)
    \/ EventSettingsButtons(m) \/ BackToSettings(m) \/ PickBranchMode(m) \/ ToggleBranch(m)
    \/ BranchListButtons(m) \/ TogglePullRequestAction(m) \/ PickReleaseMode(m)
    \/ CreateSubscription(m)
    \/ View(m) \/ SubscriptionButtons(m) \/ EditMenuButtons(m) \/ BackToMenu(m)
    \/ AdvancedButtons(m) \/ BackToAdvanced(m) \/ ToggleEditEvent(m) \/ SaveEvents(m)
    \/ SaveBranch(m) \/ EditBranchButtons(m) \/ ToggleEditBranch(m) \/ ToggleEditAction(m)
    \/ SaveActions(m) \/ SaveReleaseMode(m) \/ SaveDestination(m) \/ Delete(m)

Spec == Init /\ [][Next]_vars

----------------------------------------------------------------------------
\* Properties

\* A draft with "Specific branches" and none chosen exists on the branch list
\* only: it must not stick as an empty, unusable selection (comment in
\* normalizeDraftForEvents), whichever way the user leaves the list.
NoEmptySelection ==
  \A m \in Messages :
    Draft(m).mode = "selected" /\ Draft(m).names = {}
      => panel[m].screen \in {"branchList", "noBranches"}

\* A subscription is created with exactly the settings its panel shows, although
\* the draft went through tokens and three normalizations (createSubscription).
CreatedAsShown ==
  [][\A m \in Messages, s \in Subs :
       s \in used' \ used /\ On(m, "settings") /\ panel'[m] # panel[m]
         => rows'[s] = Draft(m)]_vars

\* A group becomes the destination of a new or an existing subscription only
\* through a panel on which the user was found to be its administrator after the
\* draft was begun (sub.dest, sub.edit.dest.save; docs/telegram.md).
GroupVerified ==
  [][\A m \in Messages, s \in Subs :
       /\ panel'[m] # panel[m] /\ rows'[s].dest # rows[s].dest /\ rows'[s].dest \in Groups
       => checked'[m] = rows'[s].dest]_vars

\* No Save button that a panel offers is refused by the validation of the service
\* or by a CHECK of the table, however old the panel is and whatever others made
\* of the subscription since (SetEvents, SetBranch, SetPullRequestActions,
\* SetReleaseMode).
EditsAccepted == "edit" \notin refused

\* An incomplete Create stays on screen as a disabled button (docs/telegram.md), so
\* one that is offered is accepted.
CreatesAccepted == "create" \notin refused

=============================================================================
