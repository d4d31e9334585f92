---------------------------- MODULE PanelsProofs ----------------------------
(***************************************************************************)
(* Theorems about the settings panels, for any number of messages,         *)
(* subscriptions, groups and branches.                                     *)
(***************************************************************************)
EXTENDS Panels, TLAPS

\* A draft that lacks nothing, like the settings of a row.
FullDrafts == [dest : Destinations, events : SUBSET Events, mode : Modes,
               names : SUBSET Branches, actions : SUBSET Actions, release : ReleaseModes]

\* The screens that follow the choice of a destination.
Past == Creating \ {"destination"}

EmptySelection(d) == d.mode = "selected" /\ d.names = {}

PanelOK(p) ==
  /\ p \in [screen : {"home"} \cup Creating \cup Editing, sub : Subs \cup {None}, draft : Drafts]
  /\ p.screen \in Editing <=> p.sub # None
  /\ p.screen \in Past => p.draft \in FullDrafts
  /\ p.screen = "settings" => p.draft.mode = BranchMode(p.draft) /\ p.draft.names = BranchNames(p.draft)
  /\ EmptySelection(p.draft) => p.screen \in {"branchList", "noBranches"}
  /\ p.screen = "editPr" => p.draft.actions \in SUBSET Actions

RowOK(r) == r \in FullDrafts /\ r.events # {} /\ Storable(r)

PanelsOK ==
  /\ panel = [m \in Messages |-> panel[m]]
  /\ \A m \in Messages : PanelOK(panel[m])

\* Rows are complete, and used ids stay used.
RowsOK ==
  /\ rows \in [Subs -> Drafts]
  /\ alive \subseteq used /\ used \subseteq Subs
  /\ \A s \in alive : RowOK(rows[s])

\* The group of a draft was checked on its panel.
DraftsChecked ==
  /\ checked \in [Messages -> Groups \cup {None}]
  /\ \A m \in Messages :
       panel[m].screen \in Past /\ panel[m].draft.dest \in Groups => checked[m] = panel[m].draft.dest

IInv == PanelsOK /\ RowsOK /\ DraftsChecked /\ refused \subseteq {"create"}

----------------------------------------------------------------------------
\* Drafts

LEMMA FullIsDraft == FullDrafts \subseteq Drafts
BY DEF FullDrafts, Drafts

LEMMA NewIsDraft == NewDraft \in Drafts /\ ~EmptySelection(NewDraft)
BY PanelsAssumption DEF NewDraft, Drafts, EmptySelection, Modes

LEMMA TogglesSet == ASSUME NEW S, NEW x \in S, NEW T \in SUBSET S PROVE Toggle(T, x) \in SUBSET S
BY DEF Toggle

\* Defaults complete a draft that has a destination.
LEMMA Defaults ==
  ASSUME NEW d \in Drafts, d.dest \in Destinations
  PROVE  /\ WithDraftDefaults(d) \in FullDrafts
         /\ WithDraftDefaults(d).dest = d.dest
         /\ EmptySelection(WithDraftDefaults(d)) <=> EmptySelection(d)
BY PanelsAssumption DEF WithDraftDefaults, Drafts, FullDrafts, EmptySelection, Modes

LEMMA DefaultsFull == ASSUME NEW d \in FullDrafts PROVE WithDraftDefaults(d) = d
BY PanelsAssumption DEF WithDraftDefaults, FullDrafts

\* What normalization makes of a complete draft.
LEMMA Normalized ==
  ASSUME NEW d \in FullDrafts
  PROVE  LET n == NormalizeDraftForEvents(d)
         IN  /\ n = [d EXCEPT !.mode = BranchMode(d), !.names = BranchNames(d)]
             /\ n \in FullDrafts
             /\ n.dest = d.dest
             /\ ~EmptySelection(n)
             /\ n.mode = BranchMode(n) /\ n.names = BranchNames(n)
BY DefaultsFull DEF NormalizeDraftForEvents, FullDrafts, EmptySelection, BranchMode, BranchNames,
     Modes

LEMMA Selecting ==
  ASSUME NEW d \in FullDrafts
  PROVE  LET n == [NormalizeDraftForEvents(d) EXCEPT !.mode = "selected"]
         IN  n \in FullDrafts /\ n.dest = d.dest
<1> DEFINE n == NormalizeDraftForEvents(d)
<1>1. n \in FullDrafts /\ n.dest = d.dest
  BY Normalized
<1> QED
  BY <1>1 DEF FullDrafts, Modes

\* A settings panel is stored as it is shown.
LEMMA SettingsAsShown ==
  ASSUME NEW d \in FullDrafts, d.mode = BranchMode(d), d.names = BranchNames(d)
  PROVE  NormalizeDraftForEvents(d) = d /\ Settings(d) = d
<1>1. NormalizeDraftForEvents(d) = d
  <2>1. NormalizeDraftForEvents(d) = [d EXCEPT !.mode = BranchMode(d), !.names = BranchNames(d)]
    BY Normalized
  <2>2. [d EXCEPT !.mode = d.mode, !.names = d.names] = d
    BY DEF FullDrafts
  <2> QED
    BY <2>1, <2>2
<1>2. Settings(d) = d
  BY DEF Settings, BranchMode, BranchNames, FullDrafts
<1> QED
  BY <1>1, <1>2

----------------------------------------------------------------------------
\* Screens

LEMMA Screens ==
  /\ Past = {"events", "settings", "branch", "branchList", "noBranches", "pr", "release"}
  /\ "home" \notin Creating /\ "home" \notin Editing /\ Creating \cap Editing = {}
BY DEF Past, Creating, Editing

LEMMA HomeOK == PanelOK(Home) /\ Home.screen = "home"
BY NewIsDraft, PanelsAssumption DEF PanelOK, Home, Creating, Editing, Past

LEMMA CreatingOK ==
  ASSUME NEW screen \in Past, NEW d \in FullDrafts,
         EmptySelection(d) => screen \in {"branchList", "noBranches"},
         screen = "settings" => d.mode = BranchMode(d) /\ d.names = BranchNames(d)
  PROVE  PanelOK(Screen(screen, d)) /\ Screen(screen, d).screen = screen
         /\ Screen(screen, d).draft = d
BY FullIsDraft, Screens DEF PanelOK, Screen, Past, Creating, Editing

LEMMA DestinationOK ==
  ASSUME NEW d \in Drafts, ~EmptySelection(d)
  PROVE  /\ PanelOK(RenderDestinationPicker(d))
         /\ RenderDestinationPicker(d).screen = "destination"
BY DEF PanelOK, RenderDestinationPicker, Screen, Past, Creating, Editing

LEMMA EventPickerOK ==
  ASSUME NEW d \in Drafts, d.dest \in Destinations, ~EmptySelection(d)
  PROVE  /\ PanelOK(RenderEventPicker(d))
         /\ RenderEventPicker(d).screen = "events"
         /\ RenderEventPicker(d).draft.dest = d.dest
<1>1. WithDraftDefaults(d) \in FullDrafts /\ WithDraftDefaults(d).dest = d.dest
      /\ ~EmptySelection(WithDraftDefaults(d))
  BY Defaults
<1> QED
  BY <1>1, CreatingOK, Screens DEF RenderEventPicker

\* The screens that normalize the draft.
LEMMA NormalizedOK ==
  ASSUME NEW d \in FullDrafts, NEW screen \in {"settings", "branch", "pr", "release"}
  PROVE  LET p == Screen(screen, NormalizeDraftForEvents(d))
         IN  PanelOK(p) /\ p.screen = screen /\ p.screen \in Past /\ p.draft.dest = d.dest
<1>1. LET n == NormalizeDraftForEvents(d)
      IN  /\ n \in FullDrafts /\ n.dest = d.dest /\ ~EmptySelection(n)
          /\ n.mode = BranchMode(n) /\ n.names = BranchNames(n)
  BY Normalized
<1>2. screen \in Past
  BY Screens
<1> QED
  BY <1>1, <1>2, CreatingOK

LEMMA BranchListOK ==
  ASSUME NEW d \in FullDrafts, NEW p \in RenderBranchList(d)
  PROVE  PanelOK(p) /\ (p.screen \in Past => p.draft.dest = d.dest)
<1> DEFINE n == [NormalizeDraftForEvents(d) EXCEPT !.mode = "selected"]
<1>1. n \in FullDrafts /\ n.dest = d.dest
  BY Selecting
<1>2. p \in {Screen("branchList", n), Screen("noBranches", n), Home}
  BY DEF RenderBranchList
<1>3. CASE p = Home
  BY <1>3, HomeOK, Screens
<1>4. ASSUME NEW screen \in {"branchList", "noBranches"}
      PROVE  PanelOK(Screen(screen, n)) /\ Screen(screen, n).draft = n
  <2> HIDE DEF n
  <2>1. screen \in Past /\ screen # "settings"
    BY Screens
  <2> QED
    BY <1>1, <2>1, CreatingOK
<1> QED
  <2> HIDE DEF n
  <2> QED
    BY <1>1, <1>2, <1>3, <1>4

\* A screen about a subscription.
LEMMA EditOK ==
  ASSUME NEW screen \in Editing, NEW s \in Subs, NEW d \in Drafts, ~EmptySelection(d),
         screen = "editPr" => d.actions \in SUBSET Actions
  PROVE  PanelOK(Edit(screen, s, d)) /\ Edit(screen, s, d).screen \notin Past
BY PanelsAssumption, Screens DEF PanelOK, Edit, Past

\* A panel without a draft of a new subscription.
EditPanel(p) == PanelOK(p) /\ p.screen \notin Past

LEMMA HomeEdit == EditPanel(Home)
BY HomeOK, Screens DEF EditPanel

LEMMA PlainEdit ==
  ASSUME NEW screen \in Editing \ {"editPr"}, NEW s \in Subs
  PROVE  EditPanel(Edit(screen, s, NewDraft))
BY EditOK, NewIsDraft DEF EditPanel

LEMMA EventsEdit ==
  ASSUME NEW screen \in Editing \ {"editPr"}, NEW s \in Subs, NEW events \in SUBSET Events
  PROVE  EditPanel(Edit(screen, s, [NewDraft EXCEPT !.events = events]))
<1>1. [NewDraft EXCEPT !.events = events] \in Drafts
  BY NewIsDraft DEF Drafts
<1>2. ~EmptySelection([NewDraft EXCEPT !.events = events])
  BY NewIsDraft DEF NewDraft, EmptySelection
<1> QED
  BY <1>1, <1>2, EditOK DEF EditPanel

LEMMA RowDraft ==
  ASSUME RowsOK, NEW s \in Subs
  PROVE  rows[s] \in Drafts /\ (s \in alive => RowOK(rows[s]))
BY DEF RowsOK

LEMMA SubscriptionOK ==
  ASSUME RowsOK, NEW s \in Subs
  PROVE  EditPanel(RenderSubscription(s)) /\ EditPanel(RenderEditMenu(s))
<1>1. rows[s].events \in SUBSET Events
  BY RowDraft DEF Drafts
<1>2. {"sub", "menu"} \subseteq Editing \ {"editPr"}
  BY DEF Editing
<1>3. EditPanel(RenderSubscription(s))
  BY <1>2, PlainEdit, HomeEdit DEF RenderSubscription
<1> QED
  BY <1>1, <1>2, <1>3, EventsEdit, HomeEdit DEF RenderEditMenu

LEMMA AdvancedOK ==
  ASSUME NEW s \in Subs, NEW r \in Drafts PROVE EditPanel(AdvancedSettings(s, r))
<1>1. r.events \in SUBSET Events /\ "advanced" \in Editing \ {"editPr"}
  BY DEF Drafts, Editing
<1> QED
  BY <1>1, EventsEdit DEF AdvancedSettings

LEMMA RenderAdvancedOK ==
  ASSUME RowsOK, NEW s \in Subs PROVE EditPanel(RenderAdvancedSettings(s))
BY AdvancedOK, RowDraft, HomeEdit DEF RenderAdvancedSettings

LEMMA EditBranchOK ==
  ASSUME RowsOK, NEW s \in Subs PROVE EditPanel(RenderEditBranch(s))
<1>1. CASE s \in alive /\ UsesBranchFilter(rows[s].events)
  <2> DEFINE d == [NewDraft EXCEPT !.mode = rows[s].mode, !.names = rows[s].names]
  <2>1. RowOK(rows[s])
    BY <1>1, RowDraft
  <2>2. d \in Drafts /\ ~EmptySelection(d)
    BY <2>1, NewIsDraft DEF RowOK, FullDrafts, Drafts, Storable, EmptySelection, NewDraft
  <2>3. "editBranch" \in Editing
    BY DEF Editing
  <2> QED
    BY <1>1, <2>2, <2>3, EditOK DEF RenderEditBranch, EditPanel
<1>2. CASE ~(s \in alive /\ UsesBranchFilter(rows[s].events))
  BY <1>2, RenderAdvancedOK DEF RenderEditBranch
<1> QED
  BY <1>1, <1>2

LEMMA EditBranchListOK ==
  ASSUME RowsOK, NEW s \in Subs, NEW names \in SUBSET Branches,
         NEW p \in RenderEditBranchList(s, names)
  PROVE  EditPanel(p)
<1> DEFINE selected == IF names = {} THEN rows[s].names ELSE names
           d == [NewDraft EXCEPT !.names = selected]
<1>1. selected \in SUBSET Branches
  BY RowDraft DEF Drafts
<1>2. d \in Drafts /\ ~EmptySelection(d)
  BY <1>1, NewIsDraft, PanelsAssumption DEF Drafts, EmptySelection, NewDraft, Modes
<1>3. "editBranchList" \in Editing /\ "noEditBranches" \in Editing
  BY DEF Editing
<1>4. p \in {Edit("editBranchList", s, d), Edit("noEditBranches", s, NewDraft), Home}
  BY DEF RenderEditBranchList
<1> QED
  BY <1>2, <1>3, <1>4, EditOK, NewIsDraft, HomeEdit DEF EditPanel

LEMMA EditPullRequestOK ==
  ASSUME RowsOK, NEW s \in Subs, NEW actions,
         s \in alive => actions \in SUBSET Actions
  PROVE  EditPanel(RenderEditPullRequestSettings(s, actions))
<1>1. CASE s \in alive /\ "pull_request" \in rows[s].events
  <2> DEFINE d == [NewDraft EXCEPT !.actions = actions]
  <2>1. d \in Drafts /\ ~EmptySelection(d) /\ d.actions \in SUBSET Actions
    BY <1>1, NewIsDraft DEF Drafts, EmptySelection, NewDraft
  <2>2. "editPr" \in Editing
    BY DEF Editing
  <2> QED
    BY <1>1, <2>1, <2>2, EditOK DEF RenderEditPullRequestSettings, EditPanel
<1>2. CASE ~(s \in alive /\ "pull_request" \in rows[s].events)
  BY <1>2, RenderAdvancedOK DEF RenderEditPullRequestSettings
<1> QED
  BY <1>1, <1>2

LEMMA EditReleaseOK ==
  ASSUME RowsOK, NEW s \in Subs PROVE EditPanel(RenderEditReleaseSettings(s))
<1>1. CASE s \in alive /\ "release" \in rows[s].events
  <2> DEFINE d == [NewDraft EXCEPT !.release = rows[s].release]
  <2>1. d \in Drafts /\ ~EmptySelection(d)
    BY RowDraft, NewIsDraft DEF Drafts, EmptySelection, NewDraft
  <2>2. "editRelease" \in Editing
    BY DEF Editing
  <2> QED
    BY <1>1, <2>1, <2>2, EditOK DEF RenderEditReleaseSettings, EditPanel
<1>2. CASE ~(s \in alive /\ "release" \in rows[s].events)
  BY <1>2, RenderAdvancedOK DEF RenderEditReleaseSettings
<1> QED
  BY <1>1, <1>2

----------------------------------------------------------------------------
\* Steps that draw

LEMMA OneShown ==
  ASSUME PanelsOK, NEW m \in Messages, NEW p, PanelOK(p), Show(m, p)
  PROVE  PanelsOK' /\ panel'[m] = p /\ \A n \in Messages : n # m => panel'[n] = panel[n]
<1>1. /\ panel' = [n \in Messages |-> panel'[n]]
      /\ panel'[m] = p /\ \A n \in Messages : n # m => panel'[n] = panel[n]
  BY DEF PanelsOK, Show
<1>2. ASSUME NEW n \in Messages PROVE PanelOK(panel'[n])
  BY <1>1 DEF PanelsOK
<1>3. PanelsOK'
  BY <1>1, <1>2 DEF PanelsOK, PanelOK
<1> QED
  BY <1>1, <1>3

\* A draft keeps its destination, and with it the check.
LEMMA Drawn ==
  ASSUME IInv, NEW m \in Messages, NEW p, PanelOK(p), Draw(m, p),
         p.screen \in Past => panel[m].screen \in Past /\ p.draft.dest = panel[m].draft.dest
  PROVE  IInv'
<1>1. PanelsOK' /\ panel'[m] = p /\ \A n \in Messages : n # m => panel'[n] = panel[n]
  BY OneShown DEF IInv, Draw
<1>2. RowsOK'
  BY DEF IInv, RowsOK, Draw, RowOK, Storable, FullDrafts, Drafts, Destinations
<1>3. DraftsChecked'
  BY <1>1 DEF IInv, DraftsChecked, Draw, Past
<1> QED
  BY <1>1, <1>2, <1>3 DEF IInv, Draw

LEMMA DrawnEdit ==
  ASSUME IInv, NEW m \in Messages, NEW p, EditPanel(p), Draw(m, p) PROVE IInv'
BY Drawn DEF EditPanel

\* What a message shows.
LEMMA Shown ==
  ASSUME IInv, NEW m \in Messages
  PROVE  /\ Draft(m) \in Drafts
         /\ panel[m].screen \in Past => Draft(m) \in FullDrafts
         /\ EmptySelection(Draft(m)) => panel[m].screen \in {"branchList", "noBranches"}
         /\ panel[m].screen \in Editing => Sub(m) \in Subs
         /\ On(m, "editPr") => Draft(m).actions \in SUBSET Actions
         /\ On(m, "settings")
              => Draft(m).mode = BranchMode(Draft(m)) /\ Draft(m).names = BranchNames(Draft(m))
<1>1. PanelOK(panel[m])
  BY DEF IInv, PanelsOK
<1> QED
  BY <1>1 DEF PanelOK, Draft, Sub, On

----------------------------------------------------------------------------
\* Steps of a new subscription

\* A screen that normalizes a draft with the destination of the one shown.
LEMMA DrawnNormalized ==
  ASSUME IInv, NEW m \in Messages, panel[m].screen \in Past,
         NEW d \in FullDrafts, d.dest = Draft(m).dest,
         NEW screen \in {"settings", "branch", "pr", "release"},
         Draw(m, Screen(screen, NormalizeDraftForEvents(d)))
  PROVE  IInv'
BY NormalizedOK, Drawn DEF Draft

LEMMA DrawnBranchList ==
  ASSUME IInv, NEW m \in Messages, panel[m].screen \in Past,
         NEW d \in FullDrafts, d.dest = Draft(m).dest,
         NEW p \in RenderBranchList(d), Draw(m, p)
  PROVE  IInv'
BY BranchListOK, Drawn DEF Draft

LEMMA LeaveStep == ASSUME IInv, NEW m \in Messages, Leave(m) PROVE IInv'
BY HomeEdit, DrawnEdit DEF Leave

LEMMA NewStep == ASSUME IInv, NEW m \in Messages, New(m) PROVE IInv'
<1>1. PanelOK(RenderDestinationPicker(NewDraft))
      /\ RenderDestinationPicker(NewDraft).screen \notin Past
  BY DestinationOK, NewIsDraft, Screens
<1> QED
  BY <1>1, Drawn DEF New

LEMMA DestinationStep ==
  ASSUME IInv, NEW m \in Messages, NEW dest \in Destinations, Destination(m, dest),
         UNCHANGED <<rows, alive, used, refused>>, ~EmptySelection(Draft(m))
  PROVE  IInv'
<1> DEFINE d == [Draft(m) EXCEPT !.dest = dest]
<1>1. d \in Drafts /\ d.dest = dest /\ ~EmptySelection(d)
  BY Shown DEF Drafts, EmptySelection
<1>2. RowsOK'
  BY DEF IInv, RowsOK, RowOK, Storable, FullDrafts, Drafts, Destinations
<1>3. CASE Show(m, RenderEventPicker(d)) /\ checked' = [checked EXCEPT ![m] = CheckedFor(dest)]
  <2>1. PanelOK(RenderEventPicker(d)) /\ RenderEventPicker(d).draft.dest = dest
    BY <1>1, EventPickerOK
  <2>2. PanelsOK' /\ panel'[m].draft.dest = dest
        /\ \A n \in Messages : n # m => panel'[n] = panel[n]
    BY <1>3, <2>1, OneShown DEF IInv
  <2>3. DraftsChecked'
    BY <1>3, <2>2 DEF IInv, DraftsChecked, CheckedFor, Past
  <2> QED
    BY <1>2, <2>2, <2>3 DEF IInv
<1>4. CASE Show(m, RenderDestinationPicker(d)) /\ UNCHANGED checked
  <2>1. PanelOK(RenderDestinationPicker(d)) /\ RenderDestinationPicker(d).screen \notin Past
    BY <1>1, DestinationOK, Screens
  <2>2. PanelsOK' /\ panel'[m].screen \notin Past
        /\ \A n \in Messages : n # m => panel'[n] = panel[n]
    BY <1>4, <2>1, OneShown DEF IInv
  <2>3. DraftsChecked'
    BY <1>4, <2>2 DEF IInv, DraftsChecked, Past
  <2> QED
    BY <1>2, <2>2, <2>3 DEF IInv
<1> QED
  BY <1>3, <1>4 DEF Destination

LEMMA PickDestinationStep == ASSUME IInv, NEW m \in Messages, PickDestination(m) PROVE IInv'
<1>1. CASE On(m, "destination") /\ \E dest \in Destinations : Destination(m, dest)
  BY <1>1, DestinationStep, Shown DEF PickDestination, On
<1>2. CASE On(m, "settings") /\ Destination(m, Draft(m).dest)
  <2>1. Draft(m) \in FullDrafts /\ ~EmptySelection(Draft(m))
    BY <1>2, Shown, Screens DEF On
  <2>2. Draft(m).dest \in Destinations
    BY <2>1 DEF FullDrafts
  <2> QED
    BY <1>2, <2>1, <2>2, DestinationStep DEF PickDestination
<1> QED
  BY <1>1, <1>2 DEF PickDestination

LEMMA ToggleEventStep == ASSUME IInv, NEW m \in Messages, ToggleEvent(m) PROVE IInv'
<1>1. PICK e \in Events : Draw(m, RenderEventPicker([Draft(m) EXCEPT !.events = Toggle(@, e)]))
  BY DEF ToggleEvent
<1> DEFINE d == [Draft(m) EXCEPT !.events = Toggle(@, e)]
<1>2. panel[m].screen \in Past /\ Draft(m) \in FullDrafts /\ ~EmptySelection(Draft(m))
  BY Shown, Screens DEF ToggleEvent, On
<1>3. Toggle(Draft(m).events, e) \in SUBSET Events
  BY <1>2, TogglesSet DEF FullDrafts
<1>4. d \in Drafts /\ d.dest = Draft(m).dest /\ d.dest \in Destinations /\ ~EmptySelection(d)
  BY <1>2, <1>3 DEF FullDrafts, Drafts, EmptySelection
<1> QED
  BY <1>1, <1>2, <1>4, EventPickerOK, Drawn DEF Draft

LEMMA EventPickerButtonsStep ==
  ASSUME IInv, NEW m \in Messages, EventPickerButtons(m) PROVE IInv'
<1>1. panel[m].screen \in Past /\ Draft(m) \in FullDrafts /\ ~EmptySelection(Draft(m))
  BY Shown, Screens DEF EventPickerButtons, On
<1>2. CASE Draw(m, RenderEventSettings(Draft(m)))
  BY <1>1, <1>2, DrawnNormalized DEF RenderEventSettings
<1>3. CASE Draw(m, RenderDestinationPicker(Draft(m)))
  BY <1>1, <1>3, Shown, DestinationOK, Drawn, Screens
<1> QED
  BY <1>2, <1>3 DEF EventPickerButtons

LEMMA EventSettingsButtonsStep ==
  ASSUME IInv, NEW m \in Messages, EventSettingsButtons(m) PROVE IInv'
<1>1. panel[m].screen \in Past /\ Draft(m) \in FullDrafts
  BY Shown, Screens DEF EventSettingsButtons, On
<1> QED
  BY <1>1, DrawnNormalized
  DEF EventSettingsButtons, RenderBranchSettings, RenderPullRequestSettings, RenderReleaseSettings

LEMMA BackToSettingsStep == ASSUME IInv, NEW m \in Messages, BackToSettings(m) PROVE IInv'
<1>1. panel[m].screen \in Past /\ Draft(m) \in FullDrafts
  BY Shown, Screens DEF BackToSettings
<1> QED
  BY <1>1, DrawnNormalized DEF BackToSettings, RenderEventSettings

LEMMA PickBranchModeStep == ASSUME IInv, NEW m \in Messages, PickBranchMode(m) PROVE IInv'
<1>1. panel[m].screen \in Past /\ Draft(m) \in FullDrafts
  BY Shown, Screens DEF PickBranchMode, On
<1>2. CASE \E mode \in {"all", "default"} \ {Draft(m).mode} :
             Draw(m, RenderEventSettings([Draft(m) EXCEPT !.mode = mode, !.names = {}]))
  <2>1. PICK mode \in {"all", "default"} :
          Draw(m, RenderEventSettings([Draft(m) EXCEPT !.mode = mode, !.names = {}]))
    BY <1>2
  <2>2. LET d == [Draft(m) EXCEPT !.mode = mode, !.names = {}]
        IN  d \in FullDrafts /\ d.dest = Draft(m).dest
    BY <1>1 DEF FullDrafts, Modes
  <2> QED
    BY <1>1, <2>1, <2>2, DrawnNormalized DEF RenderEventSettings
<1>3. CASE \E p \in RenderBranchList([Draft(m) EXCEPT !.mode = "selected"]) : Draw(m, p)
  <2>1. LET d == [Draft(m) EXCEPT !.mode = "selected"]
        IN  d \in FullDrafts /\ d.dest = Draft(m).dest
    BY <1>1 DEF FullDrafts, Modes
  <2> QED
    BY <1>1, <1>3, <2>1, DrawnBranchList
<1> QED
  BY <1>2, <1>3 DEF PickBranchMode

LEMMA ToggleBranchStep == ASSUME IInv, NEW m \in Messages, ToggleBranch(m) PROVE IInv'
<1>1. panel[m].screen \in Past /\ Draft(m) \in FullDrafts
  BY Shown, Screens DEF ToggleBranch, On
<1>2. PICK b \in Branches :
        \E p \in RenderBranchList([Draft(m) EXCEPT !.names = Toggle(@, b)]) : Draw(m, p)
  BY DEF ToggleBranch
<1>3. Toggle(Draft(m).names, b) \in SUBSET Branches
  BY <1>1, TogglesSet DEF FullDrafts
<1>4. LET d == [Draft(m) EXCEPT !.names = Toggle(@, b)]
      IN  d \in FullDrafts /\ d.dest = Draft(m).dest
  BY <1>1, <1>3 DEF FullDrafts
<1> QED
  BY <1>1, <1>2, <1>4, DrawnBranchList

LEMMA BranchListButtonsStep ==
  ASSUME IInv, NEW m \in Messages, BranchListButtons(m) PROVE IInv'
<1>1. panel[m].screen \in Past /\ Draft(m) \in FullDrafts
  BY Shown, Screens DEF BranchListButtons, On
<1>2. LET d == [Draft(m) EXCEPT !.mode = "all", !.names = {}]
      IN  d \in FullDrafts /\ d.dest = Draft(m).dest
  BY <1>1 DEF FullDrafts, Modes
<1> QED
  BY <1>1, <1>2, DrawnNormalized DEF BranchListButtons, RenderBranchSettings, RenderEventSettings

LEMMA TogglePullRequestActionStep ==
  ASSUME IInv, NEW m \in Messages, TogglePullRequestAction(m) PROVE IInv'
<1>1. panel[m].screen \in Past /\ Draft(m) \in FullDrafts
  BY Shown, Screens DEF TogglePullRequestAction, On
<1>2. PICK a \in Actions :
        Draw(m, RenderPullRequestSettings([Draft(m) EXCEPT !.actions = Toggle(@, a)]))
  BY DEF TogglePullRequestAction
<1>3. Toggle(Draft(m).actions, a) \in SUBSET Actions
  BY <1>1, TogglesSet DEF FullDrafts
<1>4. LET d == [Draft(m) EXCEPT !.actions = Toggle(@, a)]
      IN  d \in FullDrafts /\ d.dest = Draft(m).dest
  BY <1>1, <1>3 DEF FullDrafts
<1> QED
  BY <1>1, <1>2, <1>4, DrawnNormalized DEF RenderPullRequestSettings

LEMMA PickReleaseModeStep == ASSUME IInv, NEW m \in Messages, PickReleaseMode(m) PROVE IInv'
<1>1. panel[m].screen \in Past /\ Draft(m) \in FullDrafts
  BY Shown, Screens DEF PickReleaseMode, On
<1>2. PICK mode \in ReleaseModes : Draw(m, RenderEventSettings([Draft(m) EXCEPT !.release = mode]))
  BY DEF PickReleaseMode
<1>3. LET d == [Draft(m) EXCEPT !.release = mode]
      IN  d \in FullDrafts /\ d.dest = Draft(m).dest
  BY <1>1 DEF FullDrafts
<1> QED
  BY <1>1, <1>2, <1>3, DrawnNormalized DEF RenderEventSettings

\* Rows that change become complete ones under an id in use.
LEMMA RowWritten ==
  ASSUME RowsOK, NEW s \in Subs, NEW r, RowOK(r), rows' = [rows EXCEPT ![s] = r],
         alive' = alive \cup {s}, used' = used \cup {s}
  PROVE  RowsOK'
<1>1. r \in Drafts
  BY FullIsDraft DEF RowOK
<1>2. rows' \in [Subs -> Drafts] /\ alive' \subseteq used' /\ used' \subseteq Subs
  BY <1>1 DEF RowsOK
<1>3. ASSUME NEW t \in alive' PROVE RowOK(rows'[t])
  BY <1>3 DEF RowsOK
<1> QED
  BY <1>2, <1>3 DEF RowsOK, RowOK, Storable, FullDrafts, Drafts, Destinations

LEMMA RowsKept == ASSUME RowsOK, UNCHANGED <<rows, alive, used>> PROVE RowsOK'
BY DEF RowsOK, RowOK, Storable, FullDrafts, Drafts, Destinations

\* Panels without a draft need no check.
LEMMA ChecksKept ==
  ASSUME DraftsChecked, NEW m \in Messages, panel'[m].screen \notin Past,
         \A n \in Messages : n # m => panel'[n] = panel[n],
         checked' \in [Messages -> Groups \cup {None}],
         \A n \in Messages : n # m => checked'[n] = checked[n]
  PROVE  DraftsChecked'
BY DEF DraftsChecked, Past

\* What the Create button stores.
LEMMA Created ==
  ASSUME IInv, NEW m \in Messages, On(m, "settings")
  PROVE  /\ Draft(m) \in FullDrafts
         /\ NormalizeDraftForEvents(Draft(m)) = Draft(m)
         /\ Settings(NormalizeDraftForEvents(Draft(m))) = Draft(m)
BY Shown, Screens, SettingsAsShown DEF On

LEMMA CreateSubscriptionStep ==
  ASSUME IInv, NEW m \in Messages, CreateSubscription(m) PROVE IInv'
<1> DEFINE r == Draft(m)
           accepted == Valid(r) /\ Storable(r)
<1>1. On(m, "settings") /\ r \in FullDrafts /\ UNCHANGED checked /\ refused' \subseteq {"create"}
  BY Created DEF CreateSubscription, IInv
<1>2. \/ \E s \in Subs \ used :
           /\ accepted
           /\ rows' = [rows EXCEPT ![s] = r]
           /\ alive' = alive \cup {s} /\ used' = used \cup {s}
           /\ Show(m, Edit("sub", s, NewDraft))
      \/ /\ \E s \in SameConfig(r) : accepted /\ Show(m, RenderSubscription(s))
         /\ UNCHANGED <<rows, alive, used>>
      \/ Show(m, Home) /\ UNCHANGED <<rows, alive, used>>
  BY Created DEF CreateSubscription
<1>3. CASE \E s \in Subs \ used :
             /\ accepted
             /\ rows' = [rows EXCEPT ![s] = r]
             /\ alive' = alive \cup {s} /\ used' = used \cup {s}
             /\ Show(m, Edit("sub", s, NewDraft))
  <2>1. PICK s \in Subs :
             /\ accepted
             /\ rows' = [rows EXCEPT ![s] = r]
             /\ alive' = alive \cup {s} /\ used' = used \cup {s}
             /\ Show(m, Edit("sub", s, NewDraft))
    BY <1>3
  <2>2. RowOK(r)
    BY <1>1, <2>1 DEF RowOK, Valid
  <2>3. RowsOK'
    BY <2>1, <2>2, RowWritten DEF IInv
  <2>4. EditPanel(Edit("sub", s, NewDraft))
    BY PlainEdit DEF Editing
  <2>5. PanelsOK' /\ panel'[m].screen \notin Past
        /\ \A n \in Messages : n # m => panel'[n] = panel[n]
    BY <2>1, <2>4, OneShown DEF IInv, EditPanel
  <2> QED
    BY <1>1, <2>3, <2>5, ChecksKept DEF IInv, DraftsChecked
<1>4. ASSUME NEW p, EditPanel(p), Show(m, p), UNCHANGED <<rows, alive, used>>
      PROVE  IInv'
  <2>1. PanelsOK' /\ panel'[m].screen \notin Past
        /\ \A n \in Messages : n # m => panel'[n] = panel[n]
    BY <1>4, OneShown DEF IInv, EditPanel
  <2> QED
    BY <1>1, <1>4, <2>1, ChecksKept, RowsKept DEF IInv, DraftsChecked
<1>5. \A s \in SameConfig(r) : EditPanel(RenderSubscription(s))
  BY SubscriptionOK DEF SameConfig, IInv, RowsOK
<1> QED
  BY <1>2, <1>3, <1>4, <1>5, HomeEdit

----------------------------------------------------------------------------
\* Steps of an edit

LEMMA ViewStep == ASSUME IInv, NEW m \in Messages, View(m) PROVE IInv'
<1>1. RowsOK /\ alive \subseteq Subs
  BY DEF IInv, RowsOK
<1>2. CASE \E s \in alive : Draw(m, RenderSubscription(s))
  BY <1>1, <1>2, SubscriptionOK, DrawnEdit
<1>3. CASE panel[m].screen \in {"menu", "delete"} /\ Draw(m, RenderSubscription(Sub(m)))
  <2>1. Sub(m) \in Subs
    BY <1>3, Shown DEF Editing
  <2> QED
    BY <1>1, <1>3, <2>1, SubscriptionOK, DrawnEdit
<1> QED
  BY <1>2, <1>3 DEF View

LEMMA SubscriptionButtonsStep ==
  ASSUME IInv, NEW m \in Messages, SubscriptionButtons(m) PROVE IInv'
<1>1. RowsOK /\ Sub(m) \in Subs
  BY Shown DEF IInv, SubscriptionButtons, On, Editing
<1>2. EditPanel(Edit("delete", Sub(m), NewDraft))
  BY <1>1, PlainEdit DEF Editing
<1> QED
  BY <1>1, <1>2, SubscriptionOK, HomeEdit, DrawnEdit DEF SubscriptionButtons

LEMMA EditMenuButtonsStep ==
  ASSUME IInv, NEW m \in Messages, EditMenuButtons(m) PROVE IInv'
<1>1. RowsOK /\ Sub(m) \in Subs /\ Draft(m).events \in SUBSET Events
  BY Shown DEF IInv, EditMenuButtons, On, Editing, Drafts
<1>2. EditPanel(Edit("editDestination", Sub(m), NewDraft))
  BY <1>1, PlainEdit DEF Editing
<1>3. EditPanel(RenderEditEvents(Sub(m), Draft(m).events))
  BY <1>1, EventsEdit DEF Editing, RenderEditEvents
<1> QED
  BY <1>1, <1>2, <1>3, RenderAdvancedOK, DrawnEdit DEF EditMenuButtons

LEMMA BackToMenuStep == ASSUME IInv, NEW m \in Messages, BackToMenu(m) PROVE IInv'
<1>1. RowsOK /\ Sub(m) \in Subs
  BY Shown DEF IInv, BackToMenu, Editing
<1> QED
  BY <1>1, SubscriptionOK, DrawnEdit DEF BackToMenu

LEMMA AdvancedButtonsStep ==
  ASSUME IInv, NEW m \in Messages, AdvancedButtons(m) PROVE IInv'
<1>1. RowsOK /\ Sub(m) \in Subs
  BY Shown DEF IInv, AdvancedButtons, On, Editing
<1>2. Sub(m) \in alive => rows[Sub(m)].actions \in SUBSET Actions
  BY <1>1, RowDraft DEF RowOK, FullDrafts
<1> QED
  BY <1>1, <1>2, EditBranchOK, EditPullRequestOK, EditReleaseOK, DrawnEdit DEF AdvancedButtons

LEMMA BackToAdvancedStep ==
  ASSUME IInv, NEW m \in Messages, BackToAdvanced(m) PROVE IInv'
<1>1. RowsOK /\ Sub(m) \in Subs
  BY Shown DEF IInv, BackToAdvanced, Editing
<1> QED
  BY <1>1, RenderAdvancedOK, DrawnEdit DEF BackToAdvanced

LEMMA ToggleEditEventStep ==
  ASSUME IInv, NEW m \in Messages, ToggleEditEvent(m) PROVE IInv'
<1>1. Sub(m) \in Subs /\ Draft(m).events \in SUBSET Events
  BY Shown DEF ToggleEditEvent, On, Editing, Drafts
<1>2. \A e \in Events : Toggle(Draft(m).events, e) \in SUBSET Events
  BY <1>1, TogglesSet
<1>3. \A e \in Events : EditPanel(RenderEditEvents(Sub(m), Toggle(Draft(m).events, e)))
  BY <1>1, <1>2, EventsEdit DEF Editing, RenderEditEvents
<1> QED
  BY <1>3, DrawnEdit DEF ToggleEditEvent

LEMMA EditBranchButtonsStep ==
  ASSUME IInv, NEW m \in Messages, EditBranchButtons(m) PROVE IInv'
<1>1. RowsOK /\ Sub(m) \in Subs /\ Draft(m).names \in SUBSET Branches
  BY Shown DEF IInv, EditBranchButtons, On, Editing, Drafts
<1> QED
  BY <1>1, EditBranchListOK, EditBranchOK, DrawnEdit DEF EditBranchButtons

LEMMA ToggleEditBranchStep ==
  ASSUME IInv, NEW m \in Messages, ToggleEditBranch(m) PROVE IInv'
<1>1. RowsOK /\ Sub(m) \in Subs /\ Draft(m).names \in SUBSET Branches
  BY Shown DEF IInv, ToggleEditBranch, On, Editing, Drafts
<1>2. \A b \in Branches : Toggle(Draft(m).names, b) \in SUBSET Branches
  BY <1>1, TogglesSet
<1> QED
  BY <1>1, <1>2, EditBranchListOK, DrawnEdit DEF ToggleEditBranch

LEMMA ToggleEditActionStep ==
  ASSUME IInv, NEW m \in Messages, ToggleEditAction(m) PROVE IInv'
<1>1. RowsOK /\ Sub(m) \in Subs /\ Draft(m).actions \in SUBSET Actions
  BY Shown DEF IInv, ToggleEditAction, On, Editing
<1>2. \A a \in Actions : Toggle(Draft(m).actions, a) \in SUBSET Actions
  BY <1>1, TogglesSet
<1> QED
  BY <1>1, <1>2, EditPullRequestOK, DrawnEdit DEF ToggleEditAction

LEMMA DeleteStep == ASSUME IInv, NEW m \in Messages, Delete(m) PROVE IInv'
<1>1. PanelsOK' /\ panel'[m] = Home /\ \A n \in Messages : n # m => panel'[n] = panel[n]
  BY OneShown, HomeOK DEF IInv, Delete
<1>2. RowsOK'
  <2>1. rows' \in [Subs -> Drafts] /\ alive' \subseteq used' /\ used' \subseteq Subs
    BY NewIsDraft DEF IInv, RowsOK, Delete
  <2>2. ASSUME NEW t \in alive' PROVE RowOK(rows'[t])
    BY <2>2 DEF IInv, RowsOK, Delete
  <2> QED
    BY <2>1, <2>2 DEF RowsOK, RowOK, Storable, FullDrafts, Drafts, Destinations
<1> QED
  BY <1>1, <1>2, HomeEdit, ChecksKept DEF IInv, Delete, EditPanel, DraftsChecked

----------------------------------------------------------------------------
\* Steps that save

\* A button whose row is accepted whenever there is one.
LEMMA SaveStep ==
  ASSUME IInv, NEW m \in Messages, Sub(m) \in Subs, NEW valid, NEW r, NEW next,
         Sub(m) \in alive => valid /\ RowOK(r) /\ EditPanel(next),
         Save(m, valid, r, next),
         checked' \in [Messages -> Groups \cup {None}],
         \A n \in Messages : n # m => checked'[n] = checked[n]
  PROVE  IInv'
<1>1. refused' \subseteq {"create"}
  BY DEF IInv, Save, RowOK
<1>2. CASE /\ Sub(m) \in alive /\ Show(m, next)
           /\ rows' = [rows EXCEPT ![Sub(m)] = r] /\ UNCHANGED <<alive, used>>
  <2>1. alive' = alive \cup {Sub(m)} /\ used' = used \cup {Sub(m)}
    BY <1>2 DEF IInv, RowsOK
  <2>2. RowsOK'
    BY <1>2, <2>1, RowWritten DEF IInv
  <2>3. PanelsOK' /\ panel'[m].screen \notin Past
        /\ \A n \in Messages : n # m => panel'[n] = panel[n]
    BY <1>2, OneShown DEF IInv, EditPanel
  <2> QED
    BY <1>1, <2>2, <2>3, ChecksKept DEF IInv
<1>3. CASE Show(m, Home) /\ UNCHANGED <<rows, alive, used>>
  <2>1. PanelsOK' /\ panel'[m].screen \notin Past
        /\ \A n \in Messages : n # m => panel'[n] = panel[n]
    BY <1>3, OneShown, HomeEdit DEF IInv, EditPanel
  <2> QED
    BY <1>1, <1>3, <2>1, ChecksKept, RowsKept DEF IInv
<1> QED
  BY <1>2, <1>3 DEF Save

\* The buttons that lead back to the advanced settings.
LEMMA AdvancedSaveStep ==
  ASSUME IInv, NEW m \in Messages, Sub(m) \in Subs, NEW valid, NEW r,
         Sub(m) \in alive => valid /\ RowOK(r),
         Save(m, valid, r, AdvancedSettings(Sub(m), r)), UNCHANGED checked
  PROVE  IInv'
<1>1. Sub(m) \in alive => EditPanel(AdvancedSettings(Sub(m), r))
  BY AdvancedOK, FullIsDraft DEF RowOK
<1>2. checked' \in [Messages -> Groups \cup {None}] /\ \A n \in Messages : checked'[n] = checked[n]
  BY DEF IInv, DraftsChecked
<1> QED
  BY <1>1, <1>2, SaveStep

\* Other events make valid settings of a row, whatever they are.
LEMMA EventsRow ==
  ASSUME NEW row, RowOK(row), NEW events \in SUBSET Events, events # {}
  PROVE  LET chosen == [row EXCEPT !.events = events]
         IN  Valid(chosen) /\ RowOK(Settings(chosen)) /\ Settings(chosen).dest = row.dest
<1> DEFINE chosen == [row EXCEPT !.events = events]
<1>1. chosen \in FullDrafts /\ chosen.events = events /\ chosen.mode = row.mode
      /\ chosen.names = row.names /\ chosen.actions = row.actions /\ chosen.dest = row.dest
  BY DEF RowOK, FullDrafts
<1>2. Storable(row)
  BY DEF RowOK
<1>3. Valid(chosen)
  BY <1>1, <1>2 DEF Valid, Storable
<1>4. CASE UsesBranchFilter(events)
  <2>1. Settings(chosen) = chosen
    <3>1. chosen.mode # "selected" => chosen.names = {}
      BY <1>1, <1>2 DEF Storable
    <3> QED
      BY <1>1, <1>4, <3>1 DEF Settings, FullDrafts
  <2> QED
    BY <1>1, <1>2, <1>3, <2>1 DEF RowOK, Storable
<1>5. CASE ~UsesBranchFilter(events)
  <2>1. Settings(chosen) = [chosen EXCEPT !.mode = "all", !.names = {}]
    BY <1>1, <1>5 DEF Settings
  <2>2. Settings(chosen) \in FullDrafts /\ Settings(chosen).events = events
        /\ Settings(chosen).mode = "all" /\ Settings(chosen).names = {}
        /\ Settings(chosen).actions = row.actions /\ Settings(chosen).dest = row.dest
    <3> HIDE DEF chosen
    <3> QED
      BY <1>1, <2>1 DEF FullDrafts, Modes
  <2> QED
    BY <1>2, <1>3, <2>2 DEF RowOK, Storable
<1> QED
  BY <1>4, <1>5

LEMMA SaveEventsStep == ASSUME IInv, NEW m \in Messages, SaveEvents(m) PROVE IInv'
<1> DEFINE chosen == [rows[Sub(m)] EXCEPT !.events = Draft(m).events]
<1>1. Sub(m) \in Subs /\ Draft(m).events \in SUBSET Events /\ Draft(m).events # {}
  BY Shown DEF SaveEvents, On, Editing, Drafts
<1>2. Sub(m) \in alive => Valid(chosen) /\ RowOK(Settings(chosen))
  BY <1>1, RowDraft, EventsRow DEF IInv
<1>3. Save(m, Valid(chosen), Settings(chosen), AdvancedSettings(Sub(m), Settings(chosen)))
      /\ UNCHANGED checked
  BY DEF SaveEvents
<1> HIDE DEF chosen
<1> QED
  BY <1>1, <1>2, <1>3, AdvancedSaveStep

LEMMA BranchRow ==
  ASSUME NEW row, RowOK(row), NEW mode \in Modes, NEW names \in SUBSET Branches,
         mode = "selected" => names # {}
  PROVE  RowOK(WithBranch(row, mode, names)) /\ WithBranch(row, mode, names).dest = row.dest
BY DEF RowOK, FullDrafts, Storable, WithBranch

LEMMA SetBranchStep ==
  ASSUME IInv, NEW m \in Messages, Sub(m) \in Subs, NEW mode \in Modes,
         NEW names \in SUBSET Branches, mode = "selected" => names # {}, SetBranch(m, mode, names)
  PROVE  IInv'
<1> DEFINE r == WithBranch(rows[Sub(m)], mode, names)
<1>1. Sub(m) \in alive => RowOK(r)
  BY RowDraft, BranchRow DEF IInv
<1>2. Save(m, mode = "selected" => names # {}, r, AdvancedSettings(Sub(m), r)) /\ UNCHANGED checked
  BY DEF SetBranch
<1> HIDE DEF r
<1> QED
  BY <1>1, <1>2, AdvancedSaveStep

LEMMA SaveBranchStep == ASSUME IInv, NEW m \in Messages, SaveBranch(m) PROVE IInv'
<1>1. Sub(m) \in Subs /\ Draft(m).names \in SUBSET Branches
  BY Shown DEF SaveBranch, On, Editing, Drafts
<1> QED
  BY <1>1, SetBranchStep DEF SaveBranch, Modes

LEMMA SaveActionsStep == ASSUME IInv, NEW m \in Messages, SaveActions(m) PROVE IInv'
<1> DEFINE r == [rows[Sub(m)] EXCEPT !.actions = Draft(m).actions]
<1>1. Sub(m) \in Subs /\ Draft(m).actions \in SUBSET Actions /\ Draft(m).actions # {}
  BY Shown DEF SaveActions, On, Editing
<1>2. Sub(m) \in alive => RowOK(r)
  BY <1>1, RowDraft DEF IInv, RowOK, FullDrafts, Storable
<1>3. Save(m, TRUE, r, AdvancedSettings(Sub(m), r)) /\ UNCHANGED checked
  BY DEF SaveActions
<1> HIDE DEF r
<1> QED
  BY <1>1, <1>2, <1>3, AdvancedSaveStep

LEMMA SaveReleaseModeStep == ASSUME IInv, NEW m \in Messages, SaveReleaseMode(m) PROVE IInv'
<1>1. Sub(m) \in Subs /\ UNCHANGED checked
  BY Shown DEF SaveReleaseMode, On, Editing
<1>2. PICK mode \in ReleaseModes :
        LET r == [rows[Sub(m)] EXCEPT !.release = mode]
        IN  Save(m, TRUE, r, AdvancedSettings(Sub(m), r))
  BY DEF SaveReleaseMode
<1> DEFINE r == [rows[Sub(m)] EXCEPT !.release = mode]
<1>3. Sub(m) \in alive => RowOK(r)
  BY <1>1, RowDraft DEF IInv, RowOK, FullDrafts, Storable
<1>4. Save(m, TRUE, r, AdvancedSettings(Sub(m), r))
  BY <1>2
<1> HIDE DEF r
<1> QED
  BY <1>1, <1>3, <1>4, AdvancedSaveStep

LEMMA SaveDestinationStep == ASSUME IInv, NEW m \in Messages, SaveDestination(m) PROVE IInv'
<1>1. Sub(m) \in Subs /\ On(m, "editDestination")
  BY Shown DEF SaveDestination, On, Editing
<1>2. CASE Draw(m, panel[m])
  <2>1. EditPanel(panel[m])
    BY <1>1, Screens DEF IInv, PanelsOK, EditPanel, On
  <2> QED
    BY <1>2, <2>1, DrawnEdit
<1>3. ASSUME NEW dest \in Destinations,
             Save(m, TRUE, [rows[Sub(m)] EXCEPT !.dest = dest], Edit("sub", Sub(m), NewDraft)),
             checked' = [checked EXCEPT ![m] = CheckedFor(dest)]
      PROVE  IInv'
  <2> DEFINE r == [rows[Sub(m)] EXCEPT !.dest = dest]
  <2>1. Sub(m) \in alive => RowOK(r)
    BY <1>1, RowDraft DEF IInv, RowOK, FullDrafts, Storable
  <2>2. EditPanel(Edit("sub", Sub(m), NewDraft))
    BY <1>1, PlainEdit DEF Editing
  <2>3. /\ checked' \in [Messages -> Groups \cup {None}]
        /\ \A n \in Messages : n # m => checked'[n] = checked[n]
    BY <1>3 DEF IInv, DraftsChecked, CheckedFor
  <2>4. Save(m, TRUE, r, Edit("sub", Sub(m), NewDraft))
    BY <1>3
  <2> HIDE DEF r
  <2> QED
    BY <1>1, <2>1, <2>2, <2>3, <2>4, SaveStep
<1> QED
  BY <1>2, <1>3 DEF SaveDestination

----------------------------------------------------------------------------
\* The invariant

LEMMA InitIInv == ASSUME Init PROVE IInv
<1>1. PanelsOK
  BY HomeOK DEF Init, PanelsOK
<1>2. RowsOK
  BY NewIsDraft DEF Init, RowsOK
<1>3. DraftsChecked
  BY HomeOK, Screens DEF Init, DraftsChecked
<1> QED
  BY <1>1, <1>2, <1>3 DEF Init, IInv

LEMMA StepIInv == ASSUME IInv, [Next]_vars PROVE IInv'
<1>1. CASE UNCHANGED vars
  BY <1>1 DEF vars, IInv, PanelsOK, PanelOK, RowsOK, RowOK, Storable, DraftsChecked
<1>2. ASSUME NEW m \in Messages,
             \/ Leave(m) \/ New(m) \/ PickDestination(m) \/ ToggleEvent(m)
             \/ EventPickerButtons(m) \/ EventSettingsButtons(m) \/ BackToSettings(m)
             \/ PickBranchMode(m) \/ ToggleBranch(m) \/ BranchListButtons(m)
             \/ TogglePullRequestAction(m) \/ PickReleaseMode(m) \/ CreateSubscription(m)
      PROVE  IInv'
  BY <1>2, LeaveStep, NewStep, PickDestinationStep, ToggleEventStep, EventPickerButtonsStep,
     EventSettingsButtonsStep, BackToSettingsStep, PickBranchModeStep, ToggleBranchStep,
     BranchListButtonsStep, TogglePullRequestActionStep, PickReleaseModeStep,
     CreateSubscriptionStep
<1>3. ASSUME NEW m \in Messages,
             \/ View(m) \/ SubscriptionButtons(m) \/ EditMenuButtons(m) \/ BackToMenu(m)
             \/ AdvancedButtons(m) \/ BackToAdvanced(m) \/ ToggleEditEvent(m) \/ SaveEvents(m)
             \/ SaveBranch(m) \/ EditBranchButtons(m) \/ ToggleEditBranch(m)
             \/ ToggleEditAction(m) \/ SaveActions(m) \/ SaveReleaseMode(m)
             \/ SaveDestination(m) \/ Delete(m)
      PROVE  IInv'
  BY <1>3, ViewStep, SubscriptionButtonsStep, EditMenuButtonsStep, BackToMenuStep,
     AdvancedButtonsStep, BackToAdvancedStep, ToggleEditEventStep, SaveEventsStep,
     SaveBranchStep, EditBranchButtonsStep, ToggleEditBranchStep, ToggleEditActionStep,
     SaveActionsStep, SaveReleaseModeStep, SaveDestinationStep, DeleteStep
<1> QED
  BY <1>1, <1>2, <1>3 DEF Next

LEMMA Invariance == Spec => []IInv
BY InitIInv, StepIInv, PTL DEF Spec

\* Every panel, row and check is of its type (the tokens of the buttons and the
\* row of a subscription).
THEOREM TypeCorrect == Spec => []TypeOK
<1>1. IInv => TypeOK
  <2> SUFFICES ASSUME IInv PROVE TypeOK
    OBVIOUS
  <2>1. panel \in [Messages -> [screen : {"home"} \cup Creating \cup Editing,
                                sub : Subs \cup {None}, draft : Drafts]]
        /\ \A m \in Messages : panel[m].screen \in Editing <=> panel[m].sub # None
    BY DEF IInv, PanelsOK, PanelOK
  <2>2. \A s \in alive : /\ None \notin {rows[s].dest, rows[s].mode, rows[s].release}
                         /\ rows[s].events # {} /\ Storable(rows[s])
    BY PanelsAssumption DEF IInv, RowsOK, RowOK, FullDrafts
  <2> QED
    BY <2>1, <2>2 DEF TypeOK, IInv, RowsOK, DraftsChecked
<1> QED
  BY <1>1, Invariance, PTL

\* "Specific branches" without a branch does not outlive the branch list
\* (normalizeDraftForEvents).
THEOREM SelectionsFilled == Spec => []NoEmptySelection
<1>1. IInv => NoEmptySelection
  BY Shown DEF NoEmptySelection, EmptySelection
<1> QED
  BY <1>1, Invariance, PTL

\* No Save button is refused by the service or by a CHECK of the table, however old
\* its panel is (the Set methods of the service).
THEOREM EditsGoThrough == Spec => []EditsAccepted
<1>1. IInv => EditsAccepted
  BY DEF IInv, EditsAccepted
<1> QED
  BY <1>1, Invariance, PTL

----------------------------------------------------------------------------
\* What a step may write

Navigates(m) ==
  \/ Leave(m) \/ New(m) \/ PickDestination(m) \/ ToggleEvent(m)
  \/ EventPickerButtons(m) \/ EventSettingsButtons(m) \/ BackToSettings(m)
  \/ PickBranchMode(m) \/ ToggleBranch(m) \/ BranchListButtons(m)
  \/ TogglePullRequestAction(m) \/ PickReleaseMode(m)
  \/ View(m) \/ SubscriptionButtons(m) \/ EditMenuButtons(m) \/ BackToMenu(m)
  \/ AdvancedButtons(m) \/ BackToAdvanced(m) \/ ToggleEditEvent(m)
  \/ EditBranchButtons(m) \/ ToggleEditBranch(m) \/ ToggleEditAction(m)

SavesSettings(m) ==
  SaveEvents(m) \/ SaveBranch(m) \/ SaveActions(m) \/ SaveReleaseMode(m)

LEMMA NextSteps ==
  Next <=> \E m \in Messages :
             \/ Navigates(m) \/ CreateSubscription(m) \/ SavesSettings(m)
             \/ SaveDestination(m) \/ Delete(m)
BY DEF Next, Navigates, SavesSettings

LEMMA NavigationKeeps ==
  ASSUME NEW m \in Messages, Navigates(m) PROVE UNCHANGED <<rows, used, refused>>
<1>1. ASSUME NEW p, Draw(m, p) PROVE UNCHANGED <<rows, used, refused>>
  BY <1>1 DEF Draw
<1>2. CASE \/ Leave(m) \/ New(m) \/ PickDestination(m) \/ ToggleEvent(m)
           \/ EventPickerButtons(m) \/ EventSettingsButtons(m) \/ BackToSettings(m)
           \/ PickBranchMode(m) \/ ToggleBranch(m) \/ BranchListButtons(m)
           \/ TogglePullRequestAction(m) \/ PickReleaseMode(m)
  BY <1>1, <1>2 DEF Leave, New, PickDestination, ToggleEvent, EventPickerButtons,
     EventSettingsButtons, BackToSettings, PickBranchMode, ToggleBranch, BranchListButtons,
     TogglePullRequestAction, PickReleaseMode
<1>3. CASE \/ View(m) \/ SubscriptionButtons(m) \/ EditMenuButtons(m) \/ BackToMenu(m)
           \/ AdvancedButtons(m) \/ BackToAdvanced(m) \/ ToggleEditEvent(m)
           \/ EditBranchButtons(m) \/ ToggleEditBranch(m) \/ ToggleEditAction(m)
  BY <1>1, <1>3 DEF View, SubscriptionButtons, EditMenuButtons, BackToMenu, AdvancedButtons,
     BackToAdvanced, ToggleEditEvent, EditBranchButtons, ToggleEditBranch, ToggleEditAction
<1> QED
  BY <1>2, <1>3 DEF Navigates

\* The Set methods other than SetDestination keep the destination.
LEMMA SaveKeeps ==
  ASSUME RowsOK, NEW m \in Messages, Sub(m) \in Subs, NEW valid, NEW r, NEW next,
         Sub(m) \in alive => r.dest = rows[Sub(m)].dest, Save(m, valid, r, next)
  PROVE  used' = used /\ \A s \in Subs : rows'[s].dest = rows[s].dest
BY DEF RowsOK, Save

LEMMA SettingsKeep ==
  ASSUME IInv, NEW m \in Messages, SavesSettings(m)
  PROVE  used' = used /\ \A s \in Subs : rows'[s].dest = rows[s].dest
<1>1. Sub(m) \in Subs /\ RowsOK
  BY Shown DEF SavesSettings, SaveEvents, SaveBranch, SaveActions, SaveReleaseMode, On, Editing, IInv
<1>2. rows[Sub(m)] \in Drafts
  BY <1>1, RowDraft
<1>3. CASE SaveEvents(m)
  <2> DEFINE chosen == [rows[Sub(m)] EXCEPT !.events = Draft(m).events]
  <2>1. Settings(chosen).dest = rows[Sub(m)].dest
    BY <1>2 DEF Settings, Drafts
  <2>2. Save(m, Valid(chosen), Settings(chosen), AdvancedSettings(Sub(m), Settings(chosen)))
    BY <1>3 DEF SaveEvents
  <2> HIDE DEF chosen
  <2> QED
    BY <1>1, <2>1, <2>2, SaveKeeps
<1>4. ASSUME NEW mode, NEW names, SetBranch(m, mode, names)
      PROVE  used' = used /\ \A s \in Subs : rows'[s].dest = rows[s].dest
  <2> DEFINE r == WithBranch(rows[Sub(m)], mode, names)
  <2>1. r.dest = rows[Sub(m)].dest
    BY <1>2 DEF WithBranch, Drafts
  <2>2. Save(m, mode = "selected" => names # {}, r, AdvancedSettings(Sub(m), r))
    BY <1>4 DEF SetBranch
  <2> HIDE DEF r
  <2> QED
    BY <1>1, <2>1, <2>2, SaveKeeps
<1>5. CASE SaveBranch(m)
  BY <1>4, <1>5 DEF SaveBranch
<1>6. CASE SaveActions(m)
  <2> DEFINE r == [rows[Sub(m)] EXCEPT !.actions = Draft(m).actions]
  <2>1. r.dest = rows[Sub(m)].dest /\ Save(m, TRUE, r, AdvancedSettings(Sub(m), r))
    BY <1>2, <1>6 DEF SaveActions, Drafts
  <2> HIDE DEF r
  <2> QED
    BY <1>1, <2>1, SaveKeeps
<1>7. CASE SaveReleaseMode(m)
  <2>1. PICK mode \in ReleaseModes :
          LET r == [rows[Sub(m)] EXCEPT !.release = mode]
          IN  Save(m, TRUE, r, AdvancedSettings(Sub(m), r))
    BY <1>7 DEF SaveReleaseMode
  <2> DEFINE r == [rows[Sub(m)] EXCEPT !.release = mode]
  <2>2. r.dest = rows[Sub(m)].dest /\ Save(m, TRUE, r, AdvancedSettings(Sub(m), r))
    BY <1>2, <2>1 DEF Drafts
  <2> HIDE DEF r
  <2> QED
    BY <1>1, <2>2, SaveKeeps
<1> QED
  BY <1>3, <1>5, <1>6, <1>7 DEF SavesSettings

\* The message a tap changes.
LEMMA Mover ==
  ASSUME PanelsOK, NEW m \in Messages, NEW n \in Messages, NEW p, Show(n, p),
         panel'[m] # panel[m]
  PROVE  m = n
BY DEF PanelsOK, Show

LEMMA CreationWrites ==
  ASSUME IInv, NEW m \in Messages, CreateSubscription(m), NEW s \in Subs,
         rows'[s] # rows[s] \/ s \in used' \ used
  PROVE  rows'[s] = Draft(m) /\ checked' = checked
         /\ \A n \in Messages : panel'[n] # panel[n] => n = m
<1>1. PICK t \in Subs \ used :
        /\ rows' = [rows EXCEPT ![t] = Settings(NormalizeDraftForEvents(Draft(m)))]
        /\ used' = used \cup {t} /\ Show(m, Edit("sub", t, NewDraft)) /\ UNCHANGED checked
  BY DEF CreateSubscription
<1>2. Settings(NormalizeDraftForEvents(Draft(m))) = Draft(m)
  BY Created DEF CreateSubscription
<1>3. rows' = [rows EXCEPT ![t] = Draft(m)] /\ s = t
  BY <1>1, <1>2 DEF IInv, RowsOK
<1> QED
  BY <1>1, <1>3, Mover DEF IInv, RowsOK

\* A subscription is created with the settings its panel shows (createSubscription).
THEOREM ShownIsCreated == Spec => CreatedAsShown
<1> DEFINE AsShown == \A m \in Messages, s \in Subs :
             s \in used' \ used /\ On(m, "settings") /\ panel'[m] # panel[m] => rows'[s] = Draft(m)
<1>1. ASSUME IInv, Next PROVE AsShown
  <2> SUFFICES ASSUME NEW m \in Messages, NEW s \in Subs, s \in used' \ used,
                      panel'[m] # panel[m]
               PROVE  rows'[s] = Draft(m)
    OBVIOUS
  <2>1. PICK n \in Messages : \/ Navigates(n) \/ CreateSubscription(n) \/ SavesSettings(n)
                              \/ SaveDestination(n) \/ Delete(n)
    BY <1>1, NextSteps
  <2>2. SaveDestination(n) \/ Delete(n) => used' = used
    BY DEF SaveDestination, Save, Draw, Delete
  <2>3. CreateSubscription(n)
    BY <1>1, <2>1, <2>2, NavigationKeeps, SettingsKeep
  <2> QED
    BY <1>1, <2>3, CreationWrites
<1>2. IInv /\ [Next]_vars => [AsShown]_vars
  BY <1>1
<1> QED
  BY <1>2, Invariance, PTL DEF Spec, CreatedAsShown

\* A group becomes a destination only through a panel whose user was found to be an
\* administrator of it (requireGroupAdmin).
THEOREM GroupsVerified == Spec => GroupVerified
<1> DEFINE Verified == \A m \in Messages, s \in Subs :
             /\ panel'[m] # panel[m] /\ rows'[s].dest # rows[s].dest /\ rows'[s].dest \in Groups
             => checked'[m] = rows'[s].dest
<1>1. ASSUME IInv, Next PROVE Verified
  <2> SUFFICES ASSUME NEW m \in Messages, NEW s \in Subs, panel'[m] # panel[m],
                      rows'[s].dest # rows[s].dest, rows'[s].dest \in Groups
               PROVE  checked'[m] = rows'[s].dest
    OBVIOUS
  <2>1. PICK n \in Messages : \/ Navigates(n) \/ CreateSubscription(n) \/ SavesSettings(n)
                              \/ SaveDestination(n) \/ Delete(n)
    BY <1>1, NextSteps
  <2>2. CASE CreateSubscription(n)
    <3>1. rows'[s] = Draft(n) /\ checked' = checked /\ m = n
      BY <1>1, <2>2, CreationWrites
    <3>2. On(n, "settings")
      BY <2>2 DEF CreateSubscription
    <3> QED
      BY <1>1, <3>1, <3>2, Screens DEF IInv, DraftsChecked, On, Draft
  <2>3. CASE SaveDestination(n)
    <3>1. PICK dest \in Destinations :
            \/ /\ Save(n, TRUE, [rows[Sub(n)] EXCEPT !.dest = dest], Edit("sub", Sub(n), NewDraft))
               /\ checked' = [checked EXCEPT ![n] = CheckedFor(dest)]
            \/ dest \in Groups /\ Draw(n, panel[n])
      BY <2>3 DEF SaveDestination
    <3>2. Save(n, TRUE, [rows[Sub(n)] EXCEPT !.dest = dest], Edit("sub", Sub(n), NewDraft))
          /\ checked' = [checked EXCEPT ![n] = CheckedFor(dest)]
      BY <3>1 DEF Draw
    <3>3. rows' = [rows EXCEPT ![Sub(n)] = [rows[Sub(n)] EXCEPT !.dest = dest]] /\ \E p : Show(n, p)
      BY <3>2 DEF Save
    <3>4. rows'[s].dest = dest /\ m = n
      BY <1>1, <3>3, Mover DEF IInv, RowsOK, Drafts
    <3> QED
      BY <1>1, <3>2, <3>4 DEF CheckedFor, IInv, DraftsChecked
  <2>4. CASE Delete(n)
    <3>1. rows'[s] = rows[s] \/ rows'[s] = NewDraft
      BY <1>1, <2>4 DEF Delete, IInv, RowsOK
    <3> QED
      BY <3>1, PanelsAssumption DEF NewDraft, Destinations
  <2> QED
    BY <1>1, <2>1, <2>2, <2>3, <2>4, NavigationKeeps, SettingsKeep
<1>2. IInv /\ [Next]_vars => [Verified]_vars
  BY <1>1
<1> QED
  BY <1>2, Invariance, PTL DEF Spec, GroupVerified

----------------------------------------------------------------------------
\* Refused creations

\* No panel offers to create a subscription without a pull request action.
ActionsTicked ==
  \A m \in Messages : On(m, "settings") /\ SettingsReady(Draft(m)) => Draft(m).actions # {}

\* An offered draft with an action passes the service and the table.
LEMMA OfferedFits ==
  ASSUME IInv, NEW m \in Messages, On(m, "settings"), SettingsReady(Draft(m)),
         Draft(m).actions # {}
  PROVE  Valid(NormalizeDraftForEvents(Draft(m)))
         /\ Storable(Settings(NormalizeDraftForEvents(Draft(m))))
<1> DEFINE d == Draft(m)
<1>1. d \in FullDrafts /\ NormalizeDraftForEvents(d) = d /\ Settings(d) = d
  BY Created
<1>2. Valid(d)
  BY DEF SettingsReady, Valid
<1>3. d.mode = BranchMode(d) /\ d.names = BranchNames(d)
  BY DEF IInv, PanelsOK, PanelOK, On, Draft
<1>4. Storable(d)
  BY <1>3 DEF Storable, BranchMode, BranchNames
<1> QED BY <1>1, <1>2, <1>4

\* An offered Create is refused for one reason only, that no pull request action is
\* ticked in the draft: in every behaviour in which none is offered without one,
\* what docs/telegram.md says of an incomplete Create is true.  The run panels_create
\* shows a draft without.
THEOREM CreatesFailWithoutActions == Spec /\ []ActionsTicked => []CreatesAccepted
<1>1. Init => CreatesAccepted
  BY DEF Init, CreatesAccepted
<1>2. IInv /\ ActionsTicked /\ CreatesAccepted /\ [Next]_vars => CreatesAccepted'
  <2> SUFFICES ASSUME IInv, ActionsTicked, CreatesAccepted, Next PROVE CreatesAccepted'
    BY DEF CreatesAccepted, vars
  <2>1. PICK m \in Messages : \/ Navigates(m) \/ CreateSubscription(m) \/ SavesSettings(m)
                              \/ SaveDestination(m) \/ Delete(m)
    BY NextSteps
  <2>2. CASE CreateSubscription(m)
    BY <2>2, OfferedFits DEF CreateSubscription, ActionsTicked, CreatesAccepted
  <2>3. CASE Navigates(m)
    BY <2>3, NavigationKeeps DEF CreatesAccepted
  <2>4. ASSUME NEW valid, NEW r, NEW next, Save(m, valid, r, next) PROVE CreatesAccepted'
    BY <2>4 DEF Save, CreatesAccepted
  <2>5. ASSUME NEW mode, NEW names, SetBranch(m, mode, names) PROVE CreatesAccepted'
    BY <2>4, <2>5 DEF SetBranch
  <2>6. CASE SavesSettings(m)
    BY <2>4, <2>5, <2>6 DEF SavesSettings, SaveEvents, SaveBranch, SaveActions, SaveReleaseMode
  <2>7. CASE SaveDestination(m)
    BY <2>4, <2>7 DEF SaveDestination, Draw, CreatesAccepted
  <2>8. CASE Delete(m)
    BY <2>8 DEF Delete, CreatesAccepted
  <2> QED BY <2>1, <2>2, <2>3, <2>6, <2>7, <2>8
<1> QED BY <1>1, <1>2, Invariance, PTL DEF Spec

=============================================================================
