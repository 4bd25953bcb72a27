---------------------------- MODULE UpdateNotice ----------------------------
(***************************************************************************)
(* mod/OSPlus/scripts/update_notification.lua: a card that tells, once in  *)
(* a session and only while the Home Hub shows, that a release is          *)
(* available.  The engine may destroy, detach or rebuild the hub and the   *)
(* card at any time; calls into the card may fail in the middle of a       *)
(* handler; work goes to the game thread by a queue that outlives a map.   *)
(*                                                                         *)
(* A handler makes several calls of which each may fail (FindFirstOf, the  *)
(* read of a property, a function of the card or its slot, and             *)
(* ExecuteInGameThread), so the Lua functions are operators from a scene   *)
(* to the set of scenes they may end in.  A hook's parameters are taken to *)
(* be readable, and IsValid, GetFullName and GetParent to answer truly.  A *)
(* reference to a destroyed object is FALSE, like no reference: the source *)
(* asks IsValid before each use.  Abstracted: z-order and slot layout,     *)
(* wording, class filters, logging.  The lifecycle generation that a       *)
(* queued task compares is the task's field stale.                         *)
(***************************************************************************)
EXTENDS Integers, Sequences

CONSTANTS
  Version,     \* releases newer than the installed one
  Linked,      \* those whose URL is the release page that the card may open
  None,        \* no version
  MaxTasks,    \* bound on queued game-thread tasks when a callback comes
  MaxTrouble   \* bound on failing engine calls

ASSUME NoticeConstants ==
  None \notin Version /\ Linked \subseteq Version /\ MaxTasks \in Nat /\ MaxTrouble \in Nat

VARIABLES
  lua,         \* the module's fields
  card,        \* the widget, as the player has it
  tasks,       \* ExecuteInGameThread
  told,        \* history: how often each version was announced, and cued (capped at 2);
               \* lost: failed calls have cost Lua its reference to a card that tells of
               \* a release, or the link, and text and link have not both been due since;
               \* blind: a look for the loading screen that shows has failed, and
               \* the loading screen has not told of itself since
  trouble,
  hub,         \* DisplayState of the Home Hub (a hub that is not there is off)
  loading,     \* does a loading screen show? (it may be hidden, or not be there)
  settings     \* does the settings menu cover the hub?

vars == <<lua, card, tasks, told, trouble, hub, loading, settings>>
engine == <<hub, loading, settings>>

Version0 == Version \cup {None}

Fields == [widget : BOOLEAN, hub : BOOLEAN, active : BOOLEAN, settings : BOOLEAN,
           loading : BOOLEAN, pending : Version0,
           notified : SUBSET Version, cued : SUBSET Version, visible : Version0,
           cue : Version0, presQueued : BOOLEAN, locQueued : BOOLEAN,
           recQueued : BOOLEAN, recTried : SUBSET Version]

\* there: constructed; inHost: child of the present hub's UIContainer; up: not
\* collapsed; hits: takes clicks.
Card == [there : BOOLEAN, inHost : BOOLEAN, up : BOOLEAN, hits : BOOLEAN,
         text : Version0, link : Version0]

Task == [kind : {"map", "loading", "notice", "present", "locale", "cue"},
         version : Version0, stale : BOOLEAN]

NoCard == [there |-> FALSE, inHost |-> FALSE, up |-> FALSE, hits |-> FALSE,
           text |-> None, link |-> None]
NewCard == [NoCard EXCEPT !.there = TRUE, !.hits = TRUE]

----------------------------------------------------------------------------
(* Scenes.  ok is the result of the last call. *)

Scene == [lua |-> lua, card |-> card, tasks |-> tasks, told |-> told,
          trouble |-> trouble, ok |-> TRUE]

\* A callback or task ends in one of the scenes.
Ends(scenes) ==
  \E s \in scenes :
    /\ lua' = s.lua /\ card' = s.card /\ tasks' = s.tasks
    /\ told' = s.told /\ trouble' = s.trouble

\* An engine call raises; pcall catches it.
Raises(s) ==
  IF s.trouble < MaxTrouble THEN {[s EXCEPT !.trouble = @ + 1, !.ok = FALSE]} ELSE {}

\* ... and the handler drops its reference to the card.
Loses(s) ==
  {[f EXCEPT !.lua.widget = FALSE, !.told.lost = s.lua.visible # None] : f \in Raises(s)}

\* ExecuteInGameThread: t, where it succeeds, is s with its flag set.
Dispatch(s, t, kind, version) ==
  {[t EXCEPT !.tasks = Append(@, [kind |-> kind, version |-> version, stale |-> FALSE])]}
    \cup Raises(s)

----------------------------------------------------------------------------
(* The Lua functions *)

WidgetIsInHost(s) == s.lua.widget /\ s.lua.hub /\ s.card.inHost

\* attachWidgetToHomeHub, for a live hub.  It may fail before anything is done or
\* with the references renewed, with the card collapsed and taken from its parent,
\* or with the card in its new host but no layout: the next call finds it there.
PrepareHomeHub(s) ==
  LET found == [s EXCEPT !.lua.widget = TRUE, !.lua.hub = TRUE, !.ok = TRUE]
      hidden == [found EXCEPT !.card.up = FALSE]
      placed == [hidden EXCEPT !.card.inHost = TRUE]
  IN  CASE ~s.card.there  -> {[s EXCEPT !.ok = FALSE]}
        [] s.card.inHost  -> {found} \cup Raises(s)
        [] OTHER          -> {[placed EXCEPT !.card.hits = TRUE]} \cup Raises(s)
                               \cup Raises(found) \cup Raises(hidden) \cup Raises(placed)

HideWidget(s) ==
  IF s.lua.widget THEN {[s EXCEPT !.card.up = FALSE]} \cup Loses(s) ELSE {s}

ApplyLocalizedText(s, v) == {[s EXCEPT !.card.text = v, !.ok = TRUE]} \cup Raises(s)

MutApplyReleaseLink_SettingsForgotten(s, v) ==
  LET covered == s.lua.loading
      due == [s EXCEPT !.told.lost = @ /\ s.card.text # v]
      set == [due EXCEPT !.card.link = IF covered \/ v \notin Linked THEN None ELSE v]
      Blocked(f) == {[f EXCEPT !.card.hits = FALSE], [f EXCEPT !.told.lost = TRUE]}
  IN  {[set EXCEPT !.card.hits = ~covered]} \cup Raises(set)
        \cup UNION {Blocked(f) : f \in Raises(due)}

MutApplyReleaseLink_KeepsOldLink(s, v) ==
  LET covered == s.lua.settings \/ s.lua.loading
      due == [s EXCEPT !.told.lost = @ /\ s.card.text # v]
      set == [due EXCEPT !.card.link = IF covered \/ v \notin Linked THEN None ELSE v]
  IN  {[set EXCEPT !.card.hits = ~covered]} \cup Raises(set)
        \cup {[f EXCEPT !.card.hits = ~covered] : f \in Raises(due)}

\* An old cooked widget may lack the setter: then the card takes no clicks.  But
\* SetVisibility, which sees to that, may fail as well, and that goes unnoticed
\* (a card that fails in both counts once in trouble).
ApplyReleaseLink(s, v) ==
  LET covered == s.lua.settings \/ s.lua.loading
      due == [s EXCEPT !.told.lost = @ /\ s.card.text # v]
      set == [due EXCEPT !.card.link = IF covered \/ v \notin Linked THEN None ELSE v]
      Blocked(f) == {[f EXCEPT !.card.hits = FALSE], [f EXCEPT !.told.lost = TRUE]}
  IN  {[set EXCEPT !.card.hits = ~covered]} \cup Raises(set)
        \cup UNION {Blocked(f) : f \in Raises(due)}

RefreshVisibleReleaseLink(s) ==
  IF s.lua.active /\ s.lua.visible # None /\ s.lua.widget
  THEN ApplyReleaseLink(s, s.lua.visible) ELSE {s}

\* Text, then link, then OSPlus_ShowUpdateNotice; ok says whether the card is up.
Present(s, v) ==
  UNION {IF ~t.ok THEN {t}
         ELSE UNION {{[u EXCEPT !.card.up = TRUE, !.ok = TRUE]} \cup Loses(u) :
                     u \in ApplyReleaseLink(t, v)} :
         t \in ApplyLocalizedText(s, v)}

RestoreVisiblePresentation(s) ==
  IF s.lua.visible # None /\ WidgetIsInHost(s) THEN Present(s, s.lua.visible) ELSE {s}

Once(f, v) == [f EXCEPT ![v] = IF @ < 2 THEN @ + 1 ELSE @]

CuePlayed(s, v) ==
  [s EXCEPT !.told.cue = Once(@, v), !.lua.cue = None,
            !.lua.cued = @ \cup {v}, !.lua.recTried = @ \ {v}]

\* One recovery turn for a cue that failed.
QueueCueRecovery(s, v) ==
  IF s.lua.recQueued \/ v \in s.lua.recTried THEN {s}
  ELSE Dispatch(s, [s EXCEPT !.lua.recQueued = TRUE, !.lua.recTried = @ \cup {v}], "cue", v)

MutTryPlayPendingCue_NoneUnchecked(s) ==
  LET v == s.lua.cue
      idle == s.lua.loading \/ ~s.lua.active
      spent == s.lua.visible # v \/ (WidgetIsInHost(s) /\ v \in s.lua.cued)
  IN  CASE idle \/ (~spent /\ ~WidgetIsInHost(s)) -> {s}
        [] ~idle /\ spent -> {[s EXCEPT !.lua.cue = None]}
        [] OTHER -> {CuePlayed(s, v)} \cup UNION {QueueCueRecovery(f, v) : f \in Loses(s)}

MutTryPlayPendingCue_UnderLoading(s) ==
  LET v == s.lua.cue
      idle == v = None \/ ~s.lua.active
      spent == s.lua.visible # v \/ (WidgetIsInHost(s) /\ v \in s.lua.cued)
  IN  CASE idle \/ (~spent /\ ~WidgetIsInHost(s)) -> {s}
        [] ~idle /\ spent -> {[s EXCEPT !.lua.cue = None]}
        [] OTHER -> {CuePlayed(s, v)} \cup UNION {QueueCueRecovery(f, v) : f \in Loses(s)}

\* Nothing to play or no time for it; a cue not of what shows, or that was played.
TryPlayPendingCue(s) ==
  LET v == s.lua.cue
      idle == v = None \/ s.lua.loading \/ ~s.lua.active
      spent == s.lua.visible # v \/ (WidgetIsInHost(s) /\ v \in s.lua.cued)
  IN  CASE idle \/ (~spent /\ ~WidgetIsInHost(s)) -> {s}
        [] ~idle /\ spent -> {[s EXCEPT !.lua.cue = None]}
        [] OTHER -> {CuePlayed(s, v)} \cup UNION {QueueCueRecovery(f, v) : f \in Loses(s)}

MutAnnounced_NotRecorded(s, v) ==
  [s EXCEPT !.told.shown = Once(@, v), !.lua.visible = v, !.lua.pending = None, !.lua.cue = v]

Announced(s, v) ==
  [s EXCEPT !.told.shown = Once(@, v), !.lua.notified = @ \cup {v}, !.lua.visible = v,
            !.lua.pending = None, !.lua.cue = v]

MutShowPending_ConsumedFirst(s) ==
  LET v == s.lua.pending
  IN  IF v \in s.lua.notified THEN {[s EXCEPT !.lua.pending = None]}
      ELSE UNION {IF t.ok THEN TryPlayPendingCue(Announced(t, v)) ELSE {t} :
                  t \in Present([s EXCEPT !.lua.pending = None], v)}

\* Show what is pending in a card that is in its host.
ShowPending(s) ==
  LET v == s.lua.pending
  IN  IF v \in s.lua.notified THEN {[s EXCEPT !.lua.pending = None]}
      ELSE UNION {IF t.ok THEN TryPlayPendingCue(Announced(t, v)) ELSE {t} : t \in Present(s, v)}

TryShowPending(s) ==
  IF ~s.lua.active \/ s.lua.pending = None THEN {s}
  ELSE UNION {IF WidgetIsInHost(t) THEN ShowPending(t) ELSE {t} :
              t \in IF ~WidgetIsInHost(s) /\ s.lua.hub THEN PrepareHomeHub(s) ELSE {s}}

\* A loading screen's state becomes known.
LoadingKnown(s, on) ==
  UNION {TryPlayPendingCue(t) : t \in RefreshVisibleReleaseLink([s EXCEPT !.lua.loading = on])}

\* None is found: a hub that shows is not covered, and otherwise nothing is known.
LoadingAbsent(s) ==
  IF s.lua.active THEN LoadingKnown([s EXCEPT !.told.blind = @ \/ loading], FALSE) ELSE {s}

\* refreshLoadingScreenState: where the look-up fails, or the state of what it
\* finds cannot be read, that counts as a loading screen that is not there.
RefreshLoadingScreenState(s) ==
  LoadingKnown(s, loading)
    \cup UNION {LoadingAbsent(t) : t \in Raises(s) \cup (IF loading THEN {} ELSE {s})}

ShowAndCue(s) == UNION {TryPlayPendingCue(t) : t \in TryShowPending(s)}

\* beginHomeHubShowing
BeginHomeHubShowing(s) ==
  UNION {IF ~t.ok THEN {t}
         ELSE UNION {UNION {ShowAndCue(x) : x \in RefreshLoadingScreenState(u)} :
                     u \in IF t.lua.pending = None /\ t.lua.visible = None
                           THEN HideWidget(t) ELSE RestoreVisiblePresentation(t)} :
         t \in PrepareHomeHub([s EXCEPT !.lua.hub = TRUE, !.lua.active = TRUE])}

\* hideForHomeHubExit
HideForHomeHubExit(s) ==
  LET over == [s EXCEPT !.lua.active = FALSE, !.lua.cue = None]
  IN  {[t EXCEPT !.lua.visible = None, !.told.lost = FALSE] :
       t \in IF s.lua.active \/ s.lua.visible # None THEN HideWidget(over) ELSE {over}}

\* refreshHomeHubState, which may not find the hub or its state.
RefreshHomeHubState(s) ==
  Raises(s) \cup
  CASE hub = "on" -> BeginHomeHubShowing(s)
    [] hub = "in" -> PrepareHomeHub(s)
    [] OTHER      -> {s}

----------------------------------------------------------------------------
(* Queued tasks *)

\* What a task of an earlier map still does: the recovery clears its flag.
RunStale(s, task) == {IF task.kind = "cue" THEN [s EXCEPT !.lua.recQueued = FALSE] ELSE s}

RunNotice(s) ==
  IF ~(s.lua.active /\ s.lua.hub) THEN {s}
  ELSE UNION {IF ~t.ok THEN {t}
              ELSE UNION {UNION {ShowAndCue(x) : x \in RefreshLoadingScreenState(u)} :
                          u \in RestoreVisiblePresentation(t)} :
              t \in PrepareHomeHub(s)}

RunCueRecovery(s, v) ==
  LET over == [s EXCEPT !.lua.recQueued = FALSE]
  IN  IF ~(s.lua.cue = v /\ s.lua.active /\ s.lua.hub) THEN {over}
      ELSE UNION {IF ~t.ok THEN {t}
                  ELSE UNION {TryPlayPendingCue(u) : u \in RestoreVisiblePresentation(t)} :
                  t \in PrepareHomeHub(over)}

RunLocale(s, v) ==
  LET over == [s EXCEPT !.lua.locQueued = FALSE]
  IN  IF ~(s.lua.visible = v /\ s.lua.widget) THEN {over}
      ELSE UNION {IF t.ok THEN ApplyReleaseLink(t, v) ELSE {t} : t \in ApplyLocalizedText(over, v)}

Run(s, task) ==
  IF task.stale THEN RunStale(s, task) ELSE
  CASE task.kind = "map"     -> UNION {RefreshHomeHubState(t) : t \in RefreshLoadingScreenState(s)}
    [] task.kind = "loading" -> RefreshLoadingScreenState(s)
    [] task.kind = "notice"  -> RunNotice(s)
    [] task.kind = "present" -> TryShowPending([s EXCEPT !.lua.presQueued = FALSE])
    [] task.kind = "locale"  -> RunLocale(s, task.version)
    [] task.kind = "cue"     -> RunCueRecovery(s, task.version)

GameThread ==
  /\ tasks # <<>>
  /\ Ends(Run([Scene EXCEPT !.tasks = Tail(@)], Head(tasks)))
  /\ UNCHANGED engine

----------------------------------------------------------------------------
(* Callbacks *)

Room == Len(tasks) < MaxTasks

QueuePresentationAttempt(s) ==
  IF s.lua.presQueued \/ s.lua.pending = None \/ ~s.lua.active THEN {s}
  ELSE Dispatch(s, [s EXCEPT !.lua.presQueued = TRUE], "present", None)

\* M.onUpdateAvailable: from the inbox; the sidecar repeats it at will.
OnUpdateAvailable(v) ==
  /\ Room
  /\ Ends(IF v \in lua.notified THEN {Scene}
          ELSE QueuePresentationAttempt([Scene EXCEPT !.lua.pending = v]))
  /\ UNCHANGED engine

\* What is queued belongs to the last map.
Outdated(ts) == [i \in DOMAIN ts |-> [ts[i] EXCEPT !.stale = TRUE]]

Unplaced(fields) ==
  [fields EXCEPT !.widget = FALSE, !.hub = FALSE, !.active = FALSE, !.settings = FALSE,
                 !.loading = TRUE, !.visible = None, !.cue = None, !.presQueued = FALSE,
                 !.locQueued = FALSE, !.recQueued = FALSE]

MutReset_PresentationStaysQueued(s) ==
  [s EXCEPT !.lua = [Unplaced(s.lua) EXCEPT !.presQueued = s.lua.presQueued],
            !.tasks = Outdated(s.tasks), !.told = [s.told EXCEPT !.lost = FALSE, !.blind = FALSE]]

\* M.reset, which touches no engine object.
Reset(s) ==
  [s EXCEPT !.lua = Unplaced(s.lua), !.tasks = Outdated(s.tasks),
            !.told = [s.told EXCEPT !.lost = FALSE, !.blind = FALSE]]

\* The map-load hook: reset and onMapLoaded.  Menus on top of the hub are gone.
MapLoaded ==
  /\ Room
  /\ Ends(LET s == Reset(Scene) IN Dispatch(s, s, "map", None))
  /\ settings' = FALSE
  /\ UNCHANGED <<hub, loading>>

\* The router reports the hub's new state; CloseSelf ends the visit first.
HubAnimatesIn ==
  /\ hub \in {"off", "closing"} /\ hub' = "in"
  /\ Ends(PrepareHomeHub(Scene))
  /\ UNCHANGED <<loading, settings>>

HubShows ==
  /\ hub \in {"off", "in"} /\ hub' = "on"
  /\ Ends(BeginHomeHubShowing(Scene))
  /\ UNCHANGED <<loading, settings>>

HubClosesSelf ==
  /\ hub = "on" /\ hub' = "closing"
  /\ Ends(HideForHomeHubExit(Scene))
  /\ UNCHANGED <<loading, settings>>

HubHidden ==
  /\ hub \in {"in", "on", "closing"} /\ hub' = "off"
  /\ Ends(HideForHomeHubExit(Scene))
  /\ UNCHANGED <<loading, settings>>

\* setSettingsInputCover
SettingsChanges ==
  /\ settings' = ~settings
  /\ Ends(IF lua.settings = settings' THEN {Scene}
          ELSE RefreshVisibleReleaseLink([Scene EXCEPT !.lua.settings = settings']))
  /\ UNCHANGED <<hub, loading>>

LoadingAnimates ==
  /\ loading' = ~loading
  /\ Ends(LoadingKnown([Scene EXCEPT !.told.blind = FALSE], loading'))
  /\ UNCHANGED <<hub, settings>>

\* onLoadingScreenConstructed: covered, until the task has read its state.
LoadingConstructed ==
  /\ Room
  /\ ~loading
  /\ Ends(UNION {Dispatch(t, t, "loading", None) :
                 t \in RefreshVisibleReleaseLink([Scene EXCEPT !.lua.loading = TRUE,
                                                               !.told.blind = FALSE])})
  /\ UNCHANGED engine

NoticeConstructed ==
  /\ Room
  /\ ~card.there
  /\ Ends(LET s == [Scene EXCEPT !.card = NewCard, !.lua.widget = TRUE]
          IN  Dispatch(s, s, "notice", None))
  /\ UNCHANGED engine

\* refreshLocalizedText
LocaleChanges ==
  /\ Room
  /\ lua.visible # None /\ lua.widget /\ ~lua.locQueued
  /\ Ends(Dispatch(Scene, [Scene EXCEPT !.lua.locQueued = TRUE], "locale", lua.visible))
  /\ UNCHANGED engine

----------------------------------------------------------------------------
(* What the engine does without a word *)

CardDetached ==
  /\ card.inHost
  /\ card' = [card EXCEPT !.inHost = FALSE]
  /\ UNCHANGED <<lua, tasks, told, trouble, engine>>

CardDestroyed ==
  /\ card.there
  /\ card' = NoCard
  /\ lua' = [lua EXCEPT !.widget = FALSE]
  /\ UNCHANGED <<tasks, told, trouble, engine>>

HubRebuilt ==
  /\ hub' = "off"
  /\ lua' = [lua EXCEPT !.hub = FALSE]
  /\ card' = [card EXCEPT !.inHost = FALSE]
  /\ UNCHANGED <<tasks, told, trouble, loading, settings>>

LoadingDestroyed ==
  /\ loading /\ loading' = FALSE
  /\ told' = [told EXCEPT !.blind = FALSE]
  /\ UNCHANGED <<lua, card, tasks, trouble, hub, settings>>

----------------------------------------------------------------------------

\* The mod starts on a map that is loaded already; main.lua calls onMapLoaded.
Init ==
  /\ lua = [widget |-> FALSE, hub |-> FALSE, active |-> FALSE, settings |-> FALSE,
            loading |-> TRUE, pending |-> None, notified |-> {},
            cued |-> {}, visible |-> None, cue |-> None, presQueued |-> FALSE,
            locQueued |-> FALSE, recQueued |-> FALSE, recTried |-> {}]
  /\ card \in {NoCard, NewCard}
  /\ tasks = <<[kind |-> "map", version |-> None, stale |-> FALSE]>>
  /\ told = [shown |-> [v \in Version |-> 0], cue |-> [v \in Version |-> 0],
             lost |-> FALSE, blind |-> FALSE]
  /\ trouble = 0
  /\ hub \in {"off", "in", "on"}
  /\ loading \in BOOLEAN
  /\ settings = FALSE

Callbacks ==
  \/ \E v \in Version : OnUpdateAvailable(v)
  \/ MapLoaded \/ HubAnimatesIn \/ HubShows \/ HubHidden
  \/ HubClosesSelf \/ SettingsChanges \/ LoadingAnimates \/ LoadingConstructed
  \/ NoticeConstructed \/ LocaleChanges

Silently == CardDetached \/ CardDestroyed \/ HubRebuilt \/ LoadingDestroyed

Next == GameThread \/ Callbacks \/ Silently

Spec == Init /\ [][Next]_vars

----------------------------------------------------------------------------
(* Properties *)

\* The module's fields, the card and the queue (update_notification.lua:44-67).
NoticeTypeOK ==
  /\ lua \in Fields
  /\ card \in Card
  /\ tasks \in Seq(Task)
  /\ told \in [shown : [Version -> 0..2], cue : [Version -> 0..2],
               lost : BOOLEAN, blind : BOOLEAN]
  /\ trouble \in 0..MaxTrouble
  /\ hub \in {"off", "in", "on", "closing"}
  /\ loading \in BOOLEAN
  /\ settings \in BOOLEAN

\* "The same release does not animate, sound, or reappear again during that game
\* session" (docs/features/update-availability-notification.md:28): whatever is
\* rebuilt, restored, repeated or recovered, a version is announced at most once
\* and its cue plays at most once.
AnnouncedOnce == \A v \in Version : told.shown[v] <= 1 /\ told.cue[v] <= 1

Clickable == card.there /\ card.inHost /\ card.up /\ card.hits /\ card.link # None

\* A notice of the present visit, but not from failed calls that have cost Lua its
\* reference to the card (455), or the link both its setter and the visibility that
\* makes up for it (303), until text and link are next applied together.
Held == lua.active /\ lua.visible # None /\ ~told.lost

\* "Clicking the card optionally opens the GitHub release page for the displayed
\* version" (docs/features/update-availability-notification.md:29): no later fact
\* retargets it, and no text that is set while the setter of the link fails.
ClickOpensItsText == Clickable /\ Held => card.link = card.text

\* While settings or the loading screen cover the hub, it opens nothing; but after
\* a failed look for it, Lua takes a loading screen that shows for one that is not
\* there.
CoveredTakesNoClick ==
  Clickable /\ Held => ~settings /\ (loading => told.blind /\ ~lua.loading)

\* The cue sounds only in a visit of the hub, and under a loading screen only after
\* a failed look for it.
CueIsTimely ==
  [][told'.cue # told.cue =>
       (loading' => told'.blind) /\ lua'.active /\ hub' # "off"]_vars

\* What is pending stays so until another report replaces it or the card has
\* really come up with it: no call that fails and no map load consumes it.
NothingForgotten ==
  [][lua.pending # None /\ lua'.pending = None => lua.pending \in lua'.notified]_vars

\* A flag that keeps further work from being queued has its task still to
\* come, on this map; otherwise nothing would ever be shown again.
LiveTask(kind) == \E i \in DOMAIN tasks : tasks[i].kind = kind /\ ~tasks[i].stale

NotStuck ==
  /\ lua.presQueued => LiveTask("present")
  /\ lua.locQueued => LiveTask("locale")
  /\ lua.recQueued => LiveTask("cue")

\* attachWidgetToHomeHub collapses the card "so a persistent widget can never
\* expose stale content for one frame" (update_notification.lua:213), but returns
\* before that (204) for a card that is still in its host.  "A widget can survive
\* a map transition as a child of the persistent Home Hub" (617).
NothingStaleShows ==
  hub = "in" /\ card.inHost /\ card.up => card.text = lua.visible
=============================================================================
