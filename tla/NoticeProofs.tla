---------------------------- MODULE NoticeProofs ----------------------------
(***************************************************************************)
(* The update notice, for every set of versions and every number of queued *)
(* tasks and failing calls.  The Lua functions take a scene to the scenes  *)
(* they may end in, so each has a lemma: from a good scene it ends in good *)
(* ones.  The calls that neither announce nor queue anything are Calm.     *)
(***************************************************************************)
EXTENDS UpdateNotice, SequenceTheorems, TLAPS

Told == [shown : [Version -> 0..2], cue : [Version -> 0..2], lost : BOOLEAN, blind : BOOLEAN]

SceneRecord == [lua : Fields, card : Card, tasks : Seq(Task), told : Told,
                trouble : 0..MaxTrouble, ok : BOOLEAN]

\* Scenes in which only a card that is there has a parent or is referred to.
SceneSet == {s \in SceneRecord : s.card.inHost \/ s.lua.widget => s.card.there}

\* What calls into the engine leave alone: all but the card, the references to
\* it and to the hub, and the record of a reference lost.
Calm(s, t) ==
  /\ t \in SceneSet
  /\ t.tasks = s.tasks /\ t.told.shown = s.told.shown /\ t.told.cue = s.told.cue
  /\ t.told.blind = s.told.blind
  /\ t.lua.active = s.lua.active /\ t.lua.settings = s.lua.settings
  /\ t.lua.loading = s.lua.loading /\ t.lua.pending = s.lua.pending
  /\ t.lua.notified = s.lua.notified /\ t.lua.cued = s.lua.cued
  /\ t.lua.visible = s.lua.visible /\ t.lua.cue = s.lua.cue
  /\ t.lua.presQueued = s.lua.presQueued /\ t.lua.locQueued = s.lua.locQueued
  /\ t.lua.recQueued = s.lua.recQueued /\ t.lua.recTried = s.lua.recTried
  /\ s.lua.hub => t.lua.hub

LEMMA CalmTwice ==
  ASSUME NEW s, NEW t, NEW u, Calm(s, t), Calm(t, u)
  PROVE  Calm(s, u)
BY DEF Calm

LEMMA CalmSelf == ASSUME NEW s \in SceneSet PROVE Calm(s, s)
BY DEF Calm

----------------------------------------------------------------------------
(* Calls into the engine *)

LEMMA RaisesCalm ==
  ASSUME NEW s \in SceneSet, NEW t \in Raises(s)
  PROVE  Calm(s, t) /\ ~t.ok /\ t.card = s.card /\ t.lua = s.lua /\ t.told = s.told
<1>1. s.trouble < MaxTrouble /\ t = [s EXCEPT !.trouble = s.trouble + 1, !.ok = FALSE]
  BY DEF Raises
<1>2. s.trouble + 1 \in 0..MaxTrouble
  BY <1>1, NoticeConstants DEF SceneSet, SceneRecord
<1>3. QED
  BY <1>1, <1>2 DEF Calm, SceneSet, SceneRecord

LEMMA LosesCalm ==
  ASSUME NEW s \in SceneSet, NEW t \in Loses(s)
  PROVE  Calm(s, t) /\ ~t.ok /\ t.card = s.card /\ (t.told.lost \/ s.lua.visible = None)
         /\ t.lua.hub = s.lua.hub
<1> DEFINE lost == s.lua.visible # None
<1>0. lost \in BOOLEAN
  OBVIOUS
<1>1. PICK f \in Raises(s) : t = [f EXCEPT !.lua.widget = FALSE, !.told.lost = lost]
  BY DEF Loses
<1> HIDE DEF lost
<1>2. Calm(s, f) /\ ~f.ok /\ f.card = s.card /\ f \in SceneSet /\ f.lua = s.lua
  BY RaisesCalm DEF Calm
<1>3. /\ t \in SceneSet /\ ~t.ok /\ t.card = f.card /\ t.tasks = f.tasks
      /\ t.lua = [f.lua EXCEPT !.widget = FALSE] /\ t.told = [f.told EXCEPT !.lost = lost]
  <2> DEFINE fields == [f.lua EXCEPT !.widget = FALSE]
             history == [f.told EXCEPT !.lost = lost]
  <2>1. fields \in Fields /\ ~fields.widget /\ history \in Told
    BY <1>0, <1>2 DEF SceneSet, SceneRecord, Fields, Told
  <2>2. t = [f EXCEPT !.lua = fields, !.told = history]
    BY <1>1, <1>2 DEF SceneSet, SceneRecord
  <2> HIDE DEF fields, history
  <2>3. t \in SceneSet /\ ~t.ok /\ t.card = f.card /\ t.tasks = f.tasks
        /\ t.lua = fields /\ t.told = history
    BY <1>2, <2>1, <2>2 DEF SceneSet, SceneRecord
  <2>4. QED
    BY <2>3 DEF fields, history
<1>4. /\ t.told.lost = lost /\ t.told.shown = f.told.shown /\ t.told.cue = f.told.cue
      /\ t.told.blind = f.told.blind
  BY <1>2, <1>3 DEF SceneSet, SceneRecord, Told
<1>5. Calm(f, t) /\ t.lua.hub = f.lua.hub
  BY <1>2, <1>3, <1>4 DEF Calm, SceneSet, SceneRecord, Fields
<1>6. QED
  BY <1>2, <1>3, <1>4, <1>5, CalmTwice DEF lost

\* The card comes into its host collapsed, or was there (attachWidgetToHomeHub).
LEMMA PrepareCalm ==
  ASSUME NEW s \in SceneSet, NEW t \in PrepareHomeHub(s)
  PROVE  /\ Calm(s, t) /\ t.told.lost = s.told.lost
         /\ t.card.there = s.card.there /\ (s.lua.widget => t.lua.widget)
         /\ t.card = s.card \/ ~t.card.up
<1> DEFINE found == [s EXCEPT !.lua.widget = TRUE, !.lua.hub = TRUE, !.ok = TRUE]
           hidden == [found EXCEPT !.card.up = FALSE]
           placed == [hidden EXCEPT !.card.inHost = TRUE]
           inside == [placed EXCEPT !.card.hits = TRUE]
<1>1. CASE ~s.card.there
  <2>1. ~s.card.inHost
    BY <1>1 DEF SceneSet
  <2>2. t = [s EXCEPT !.ok = FALSE]
    BY <1>1, <2>1 DEF PrepareHomeHub
  <2>3. QED
    BY <1>1, <2>2 DEF Calm, SceneSet, SceneRecord
<1>2. CASE s.card.there
  <2>1. /\ Calm(s, found) /\ Calm(s, hidden) /\ Calm(s, placed) /\ Calm(s, inside)
        /\ found.lua.widget /\ hidden.lua.widget /\ placed.lua.widget /\ inside.lua.widget
        /\ found.told.lost = s.told.lost /\ hidden.told.lost = s.told.lost
        /\ placed.told.lost = s.told.lost /\ inside.told.lost = s.told.lost
        /\ found.card = s.card /\ ~hidden.card.up /\ ~placed.card.up /\ ~inside.card.up
        /\ hidden.card.there /\ placed.card.there /\ inside.card.there
    <3>1. /\ Calm(s, found) /\ found.lua.widget /\ found.told.lost = s.told.lost
          /\ found.card = s.card
      BY <1>2 DEF Calm, SceneSet, SceneRecord, Fields, Card, Told
    <3>2. /\ Calm(s, hidden) /\ hidden.lua.widget /\ hidden.told.lost = s.told.lost
          /\ ~hidden.card.up /\ hidden.card.there
      BY <1>2 DEF Calm, SceneSet, SceneRecord, Fields, Card, Told
    <3>3. /\ Calm(s, placed) /\ placed.lua.widget /\ placed.told.lost = s.told.lost
          /\ ~placed.card.up /\ placed.card.there
      BY <1>2, ZenonT(40) DEF Calm, SceneSet, SceneRecord, Fields, Card, Told
    <3>4. /\ Calm(s, inside) /\ inside.lua.widget /\ inside.told.lost = s.told.lost
          /\ ~inside.card.up /\ inside.card.there
      BY <1>2, ZenonT(40) DEF Calm, SceneSet, SceneRecord, Fields, Card, Told
    <3>5. QED
      BY <3>1, <3>2, <3>3, <3>4
  <2>2. \/ t = found \/ t = inside \/ t \in Raises(s) \/ t \in Raises(found)
        \/ t \in Raises(hidden) \/ t \in Raises(placed)
    BY <1>2 DEF PrepareHomeHub
  <2> HIDE DEF found, hidden, placed, inside
  <2>3. ASSUME NEW x, t \in Raises(x), x \in SceneSet, Calm(s, x), x.told.lost = s.told.lost,
               x.card.there, s.lua.widget => x.lua.widget, x.card = s.card \/ ~x.card.up
        PROVE  /\ Calm(s, t) /\ t.told.lost = s.told.lost
               /\ t.card.there /\ (s.lua.widget => t.lua.widget)
               /\ t.card = s.card \/ ~t.card.up
    <3>1. Calm(x, t) /\ t.card = x.card /\ t.lua = x.lua /\ t.told = x.told
      BY <2>3, RaisesCalm
    <3>2. QED
      BY <2>3, <3>1, CalmTwice
  <2>4. CASE t = found \/ t = inside
    BY <1>2, <2>1, <2>4
  <2>5. CASE t \in Raises(s)
    BY <1>2, <2>3, <2>5, CalmSelf
  <2>6. CASE t \in Raises(found) \/ t \in Raises(hidden) \/ t \in Raises(placed)
    BY <1>2, <2>1, <2>3, <2>6 DEF Calm
  <2>7. QED
    BY <1>2, <2>2, <2>4, <2>5, <2>6
<1>3. QED
  BY <1>1, <1>2 DEF SceneSet, SceneRecord, Card

LEMMA HideCalm ==
  ASSUME NEW s \in SceneSet, NEW t \in HideWidget(s)
  PROVE  /\ Calm(s, t)
         /\ \/ t = s
            \/ ~t.card.up /\ t.card.there = s.card.there /\ t.lua.widget = s.lua.widget
               /\ t.told.lost = s.told.lost
            \/ t.told.lost \/ s.lua.visible = None
<1>1. CASE t = [s EXCEPT !.card.up = FALSE]
  BY <1>1 DEF Calm, SceneSet, SceneRecord, Card
<1>2. CASE t \in Loses(s)
  BY <1>2, LosesCalm
<1>3. CASE t = s
  BY <1>3, CalmSelf
<1>4. QED
  BY <1>1, <1>2, <1>3 DEF HideWidget

LEMMA TextCalm ==
  ASSUME NEW s \in SceneSet, NEW v \in Version0, NEW t \in ApplyLocalizedText(s, v)
  PROVE  /\ Calm(s, t) /\ t.told = s.told /\ t.lua = s.lua
         /\ \/ t.ok /\ t.card = [s.card EXCEPT !.text = v]
            \/ ~t.ok /\ t.card = s.card
<1>1. CASE t = [s EXCEPT !.card.text = v, !.ok = TRUE]
  BY <1>1 DEF Calm, SceneSet, SceneRecord, Card
<1>2. CASE t \in Raises(s)
  BY <1>2, RaisesCalm
<1>3. QED
  BY <1>1, <1>2 DEF ApplyLocalizedText

Covered(s) == s.lua.settings \/ s.lua.loading

\* What a click then opens, if anything, is v, and only while nothing covers it.
OpensOnly(s, v) == s.card.hits /\ s.card.link # None => s.card.link = v /\ ~Covered(s)

\* What a click opens is the new version at most, unless the setter has failed and
\* the visibility that makes up for it.
LEMMA LinkCalm ==
  ASSUME NEW s \in SceneSet, NEW v \in Version0, NEW t \in ApplyReleaseLink(s, v)
  PROVE  /\ Calm(s, t) /\ t.lua = s.lua /\ (t.told.lost \/ OpensOnly(t, v))
         /\ s.told.lost /\ s.card.text # v => t.told.lost
         /\ t.card.there = s.card.there /\ t.card.inHost = s.card.inHost
         /\ t.card.up = s.card.up /\ t.card.text = s.card.text
<1> DEFINE link == IF Covered(s) \/ v \notin Linked THEN None ELSE v
           lost == s.told.lost /\ s.card.text # v
           due == [s EXCEPT !.told.lost = lost]
           set == [due EXCEPT !.card.link = link]
           open == [set EXCEPT !.card.hits = ~Covered(s)]
           Blocked(f) == {[f EXCEPT !.card.hits = FALSE], [f EXCEPT !.told.lost = TRUE]}
<1>1. link \in Version0 /\ lost \in BOOLEAN
  BY DEF Version0
<1>2. (link # None => link = v /\ ~Covered(s)) /\ (s.told.lost /\ s.card.text # v => lost)
  OBVIOUS
<1>3. \/ t = open \/ t \in Raises(set)
      \/ \E f \in Raises(due) : t \in Blocked(f)
  BY DEF ApplyReleaseLink, Covered
<1> HIDE DEF link, lost
<1>4. /\ Calm(s, due) /\ due.lua = s.lua /\ due.told.lost = lost /\ due.card = s.card
      /\ Calm(s, set) /\ set.lua = s.lua /\ set.told.lost = lost
      /\ set.card = [s.card EXCEPT !.link = link]
      /\ Calm(s, open) /\ open.lua = s.lua /\ open.told.lost = lost
      /\ open.card = [s.card EXCEPT !.link = link, !.hits = ~Covered(s)]
  <2>1. /\ due \in SceneSet /\ due.lua = s.lua /\ due.card = s.card /\ due.tasks = s.tasks
        /\ due.told = [s.told EXCEPT !.lost = lost]
    BY <1>1 DEF SceneSet, SceneRecord, Told
  <2> HIDE DEF due
  <2>2. /\ set \in SceneSet /\ set.lua = s.lua /\ set.tasks = s.tasks
        /\ set.card = [s.card EXCEPT !.link = link] /\ set.told = due.told
    BY <1>1, <2>1 DEF SceneSet, SceneRecord, Card
  <2> HIDE DEF set
  <2>3. (~Covered(s)) \in BOOLEAN
    BY DEF Covered
  <2>4. /\ open \in SceneSet /\ open.lua = s.lua /\ open.tasks = s.tasks
        /\ open.card = [s.card EXCEPT !.link = link, !.hits = ~Covered(s)]
        /\ open.told = due.told
    BY <2>2, <2>3 DEF SceneSet, SceneRecord, Card
  <2> HIDE DEF open
  <2>5. due.told.lost = lost /\ due.told.shown = s.told.shown /\ due.told.cue = s.told.cue
        /\ due.told.blind = s.told.blind
    BY <2>1 DEF SceneSet, SceneRecord, Told
  <2>6. QED
    BY <2>1, <2>2, <2>4, <2>5 DEF Calm
<1> HIDE DEF due, set, open
<1>5. CASE t = open \/ t \in Raises(set)
  <2>1. /\ Calm(s, t) /\ t.lua = s.lua /\ t.told.lost = lost
        /\ t.card = set.card \/ t.card = open.card
    <3>1. CASE t = open
      BY <1>4, <3>1
    <3>2. CASE t \in Raises(set)
      <4>1. set \in SceneSet
        BY <1>4 DEF Calm
      <4>2. QED
        BY <1>4, <3>2, <4>1, RaisesCalm, CalmTwice
    <3>3. QED
      BY <1>5, <3>1, <3>2
  <2>2. /\ t.card.link = link /\ t.card.there = s.card.there /\ t.card.inHost = s.card.inHost
        /\ t.card.up = s.card.up /\ t.card.text = s.card.text
    BY <1>4, <2>1 DEF SceneSet, SceneRecord, Card
  <2>3. OpensOnly(t, v)
    BY <1>2, <2>1, <2>2 DEF OpensOnly, Covered
  <2>4. QED
    BY <1>2, <2>1, <2>2, <2>3
<1>6. ASSUME NEW f \in Raises(due), t = [f EXCEPT !.card.hits = FALSE]
      PROVE  /\ Calm(s, t) /\ t.lua = s.lua /\ t.told.lost = lost /\ ~t.card.hits
             /\ t.card.there = s.card.there /\ t.card.inHost = s.card.inHost
             /\ t.card.up = s.card.up /\ t.card.text = s.card.text
  <2>1. Calm(s, f) /\ f.card = s.card /\ f.lua = s.lua /\ f.told.lost = lost
    <3>1. due \in SceneSet
      BY <1>4 DEF Calm
    <3>2. QED
      BY <1>4, <1>6, <3>1, RaisesCalm, CalmTwice
  <2>2. f \in SceneSet
    BY <2>1 DEF Calm
  <2>3. /\ t \in SceneSet /\ t.lua = f.lua /\ t.told = f.told /\ t.tasks = f.tasks
        /\ t.card = [f.card EXCEPT !.hits = FALSE]
    BY <1>6, <2>2 DEF SceneSet, SceneRecord, Card
  <2>4. Calm(f, t)
    BY <2>3 DEF Calm
  <2>5. QED
    BY <2>1, <2>2, <2>3, <2>4, CalmTwice DEF SceneSet, SceneRecord, Card
<1>7. ASSUME NEW f \in Raises(due), t = [f EXCEPT !.told.lost = TRUE]
      PROVE  Calm(s, t) /\ t.lua = s.lua /\ t.told.lost /\ t.card = s.card
  <2>1. Calm(s, f) /\ f.card = s.card /\ f.lua = s.lua
    <3>1. due \in SceneSet
      BY <1>4 DEF Calm
    <3>2. QED
      BY <1>4, <1>7, <3>1, RaisesCalm, CalmTwice
  <2>2. f \in SceneSet
    BY <2>1 DEF Calm
  <2>3. /\ t \in SceneSet /\ t.lua = f.lua /\ t.card = f.card /\ t.tasks = f.tasks
        /\ t.told = [f.told EXCEPT !.lost = TRUE]
    BY <1>7, <2>2 DEF SceneSet, SceneRecord, Told
  <2>4. /\ t.told.lost /\ t.told.shown = f.told.shown /\ t.told.cue = f.told.cue
        /\ t.told.blind = f.told.blind
    BY <2>2, <2>3 DEF SceneSet, SceneRecord, Told
  <2>5. Calm(f, t)
    BY <2>3, <2>4 DEF Calm
  <2>6. QED
    BY <2>1, <2>3, <2>4, <2>5, CalmTwice
<1>8. QED
  BY <1>2, <1>3, <1>5, <1>6, <1>7 DEF OpensOnly

----------------------------------------------------------------------------
(* What a good scene is *)

\* What was announced and cued is on record, so it is not done again.
OnceIn(s) ==
  \A v \in Version :
    /\ s.told.shown[v] <= 1 /\ s.told.cue[v] <= 1
    /\ v \notin s.lua.notified => s.told.shown[v] = 0
    /\ v \notin s.lua.cued => s.told.cue[v] = 0

Waits(s, kind) == \E i \in DOMAIN s.tasks : s.tasks[i].kind = kind /\ ~s.tasks[i].stale

FlagsAnswered(s) ==
  /\ s.lua.presQueued => Waits(s, "present")
  /\ s.lua.locQueued => Waits(s, "locale")
  /\ s.lua.recQueued => Waits(s, "cue")

\* A visible release is one of this visit, and unless a failed call has cost the
\* reference, the card is known and shows that release ...
Trusty(s) ==
  s.lua.visible # None =>
    /\ s.lua.active
    /\ ~s.told.lost /\ s.card.there => s.lua.widget
    /\ ~s.told.lost /\ s.card.inHost /\ s.card.up => s.card.text = s.lua.visible

\* ... and opens no other.
Faithful(s) ==
  /\ Trusty(s)
  /\ s.lua.visible # None /\ ~s.told.lost /\ s.card.inHost /\ s.card.up
       => OpensOnly(s, s.lua.visible)

Good(s) == s \in SceneSet /\ OnceIn(s) /\ FlagsAnswered(s) /\ Faithful(s)

\* What a function may bring about beside: it consumes what is pending only by
\* announcing it, and plays a cue only in a visit that nothing covers.
Brings(s, t) ==
  /\ t.lua.active = s.lua.active /\ t.lua.settings = s.lua.settings
  /\ t.lua.loading = s.lua.loading /\ (s.lua.hub => t.lua.hub)
  /\ s.lua.notified \subseteq t.lua.notified
  /\ t.lua.pending # s.lua.pending =>
       t.lua.pending = None /\ s.lua.pending \in t.lua.notified
  /\ t.told.blind = s.told.blind
  /\ t.told.cue # s.told.cue => t.lua.active /\ t.lua.hub /\ ~t.lua.loading

LEMMA BringsTwice ==
  ASSUME NEW s, NEW t, NEW u, Brings(s, t), Brings(t, u)
  PROVE  Brings(s, u)
BY DEF Brings

LEMMA CalmBrings ==
  ASSUME NEW s, NEW t, Calm(s, t)
  PROVE  /\ Brings(s, t)
         /\ OnceIn(s) => OnceIn(t)
         /\ FlagsAnswered(s) => FlagsAnswered(t)
BY DEF Calm, Brings, OnceIn, FlagsAnswered, Waits

\* Fields that neither the card nor what it shows depends on.
LEMMA SameFaith ==
  ASSUME NEW s, NEW t, Faithful(s), t.card = s.card, t.told.lost = s.told.lost,
         t.lua.visible = s.lua.visible, t.lua.active = s.lua.active,
         t.lua.widget = s.lua.widget, t.lua.settings = s.lua.settings,
         t.lua.loading = s.lua.loading
  PROVE  Faithful(t)
BY DEF Faithful, Trusty, OpensOnly, Covered

\* Once the reference is lost the card promises nothing.
LEMMA LostFaith ==
  ASSUME NEW s, NEW t, Faithful(s), Calm(s, t), t.told.lost \/ s.lua.visible = None
  PROVE  Faithful(t)
BY DEF Faithful, Trusty, Calm

LEMMA RaisesGood ==
  ASSUME NEW s, Good(s), NEW t \in Raises(s)
  PROVE  Good(t) /\ Calm(s, t) /\ t.lua = s.lua /\ t.told = s.told
<1>1. Calm(s, t) /\ t.card = s.card /\ t.lua = s.lua /\ t.told = s.told
  BY RaisesCalm DEF Good
<1>2. Faithful(t)
  BY <1>1, SameFaith DEF Good
<1>3. QED
  BY <1>1, <1>2, CalmBrings DEF Good, Calm

LEMMA LosesGood ==
  ASSUME NEW s, Good(s), NEW t \in Loses(s)
  PROVE  Good(t) /\ Calm(s, t) /\ t.lua.hub = s.lua.hub
<1>1. Calm(s, t) /\ (t.told.lost \/ s.lua.visible = None) /\ t.lua.hub = s.lua.hub
  BY LosesCalm DEF Good
<1>2. QED
  BY <1>1, LostFaith, CalmBrings DEF Good, Calm

LEMMA PrepareGood ==
  ASSUME NEW s, Good(s), NEW t \in PrepareHomeHub(s)
  PROVE  Good(t) /\ Calm(s, t)
<1>1. /\ Calm(s, t) /\ t.told.lost = s.told.lost
      /\ t.card.there = s.card.there /\ (s.lua.widget => t.lua.widget)
      /\ t.card = s.card \/ ~t.card.up
  BY PrepareCalm DEF Good
<1>2. Faithful(t)
  BY <1>1 DEF Good, Faithful, Trusty, OpensOnly, Covered, Calm
<1>3. QED
  BY <1>1, <1>2, CalmBrings DEF Good, Calm

LEMMA HideGood ==
  ASSUME NEW s, Good(s), NEW t \in HideWidget(s)
  PROVE  Good(t) /\ Calm(s, t)
<1>1. /\ Calm(s, t)
      /\ \/ t = s
         \/ ~t.card.up /\ t.card.there = s.card.there /\ t.lua.widget = s.lua.widget
            /\ t.told.lost = s.told.lost
         \/ t.told.lost \/ s.lua.visible = None
  BY HideCalm DEF Good
<1>2. Faithful(t)
  BY <1>1, LostFaith DEF Good, Faithful, Trusty, Calm
<1>3. QED
  BY <1>1, <1>2, CalmBrings DEF Good, Calm

----------------------------------------------------------------------------
(* Text and link *)

\* A card that shows the visible release gets its link anew.
LEMMA LinkGood ==
  ASSUME NEW s \in SceneSet, OnceIn(s), FlagsAnswered(s), Trusty(s), s.lua.visible # None,
         s.lua.widget, NEW t \in ApplyReleaseLink(s, s.lua.visible)
  PROVE  Good(t) /\ Calm(s, t) /\ t.lua.hub = s.lua.hub
<1>0. s.lua.visible \in Version0
  BY DEF SceneSet, SceneRecord, Fields
<1>1. /\ Calm(s, t) /\ t.lua = s.lua /\ (t.told.lost \/ OpensOnly(t, s.lua.visible))
      /\ s.told.lost /\ s.card.text # s.lua.visible => t.told.lost
      /\ t.card.there = s.card.there /\ t.card.inHost = s.card.inHost
      /\ t.card.up = s.card.up /\ t.card.text = s.card.text
  BY <1>0, LinkCalm
<1>2. Faithful(t)
  BY <1>1 DEF Faithful, Trusty
<1>3. QED
  BY <1>1, <1>2, CalmBrings DEF Good, Calm

\* After settings or the loading screen have changed.
LEMMA RefreshLinkGood ==
  ASSUME NEW s \in SceneSet, OnceIn(s), FlagsAnswered(s), Trusty(s),
         NEW t \in RefreshVisibleReleaseLink(s)
  PROVE  Good(t) /\ Calm(s, t) /\ t.lua.hub = s.lua.hub
<1>1. CASE s.lua.active /\ s.lua.visible # None /\ s.lua.widget
  BY <1>1, LinkGood DEF RefreshVisibleReleaseLink
<1>2. CASE ~(s.lua.active /\ s.lua.visible # None /\ s.lua.widget)
  <2>1. t = s
    BY <1>2 DEF RefreshVisibleReleaseLink
  <2>2. Faithful(s)
    BY <1>2 DEF Faithful, Trusty, SceneSet
  <2>3. QED
    BY <2>1, <2>2, CalmSelf DEF Good
<1>3. QED
  BY <1>1, <1>2

\* Present fails at the text with nothing done, or loses the card, or ends with
\* the card up, about v.
LEMMA PresentEnds ==
  ASSUME NEW s \in SceneSet, NEW v \in Version0, NEW t \in Present(s, v)
  PROVE  /\ Calm(s, t)
         /\ \/ ~t.ok /\ t.card = s.card /\ t.lua = s.lua /\ t.told = s.told
            \/ ~t.ok /\ (t.told.lost \/ s.lua.visible = None)
            \/ /\ t.ok /\ t.card.up /\ t.card.text = v /\ (t.told.lost \/ OpensOnly(t, v))
               /\ t.lua = s.lua /\ t.card.there = s.card.there
<1>1. PICK x \in ApplyLocalizedText(s, v) :
        t \in IF ~x.ok THEN {x}
              ELSE UNION {{[u EXCEPT !.card.up = TRUE, !.ok = TRUE]} \cup Loses(u) :
                          u \in ApplyReleaseLink(x, v)}
  BY DEF Present
<1>2. /\ Calm(s, x) /\ x.told = s.told /\ x.lua = s.lua
      /\ \/ x.ok /\ x.card = [s.card EXCEPT !.text = v]
         \/ ~x.ok /\ x.card = s.card
  BY TextCalm
<1>3. CASE ~x.ok
  BY <1>1, <1>2, <1>3
<1>4. CASE x.ok
  <2>1. PICK u \in ApplyReleaseLink(x, v) :
          t \in {[u EXCEPT !.card.up = TRUE, !.ok = TRUE]} \cup Loses(u)
    BY <1>1, <1>4
  <2>2. x \in SceneSet /\ x.card.text = v /\ x.card.there = s.card.there
    BY <1>2, <1>4 DEF Calm, SceneSet, SceneRecord, Card
  <2>3. /\ Calm(x, u) /\ u.lua = x.lua /\ (u.told.lost \/ OpensOnly(u, v))
        /\ u.card.there = x.card.there /\ u.card.text = v
    BY <2>2, LinkCalm
  <2>4. u \in SceneSet /\ Calm(s, u)
    BY <1>2, <2>3, CalmTwice DEF Calm
  <2>5. CASE t \in Loses(u)
    <3>1. Calm(u, t) /\ ~t.ok /\ (t.told.lost \/ u.lua.visible = None)
      BY <2>4, <2>5, LosesCalm
    <3>2. u.lua.visible = s.lua.visible
      BY <1>2, <2>3
    <3>3. QED
      BY <2>4, <3>1, <3>2, CalmTwice
  <2>6. CASE t = [u EXCEPT !.card.up = TRUE, !.ok = TRUE]
    <3>1. /\ Calm(u, t) /\ t.ok /\ t.card.up /\ t.card.text = u.card.text /\ t.lua = u.lua
          /\ t.card.hits = u.card.hits /\ t.card.link = u.card.link
          /\ t.told = u.told /\ t.card.there = u.card.there
      BY <2>4, <2>6 DEF Calm, SceneSet, SceneRecord, Card
    <3>2. Calm(s, t)
      BY <2>4, <3>1, CalmTwice
    <3>3. QED
      BY <1>2, <2>2, <2>3, <3>1, <3>2 DEF OpensOnly, Covered
  <2>7. QED
    BY <2>1, <2>5, <2>6
<1>5. QED
  BY <1>3, <1>4

LEMMA RestoreGood ==
  ASSUME NEW s, Good(s), NEW t \in RestoreVisiblePresentation(s)
  PROVE  Good(t) /\ Calm(s, t)
<1>1. CASE t = s
  BY <1>1, CalmSelf DEF Good
<1>2. CASE s.lua.visible # None /\ WidgetIsInHost(s) /\ t \in Present(s, s.lua.visible)
  <2>1. s \in SceneSet /\ s.lua.visible \in Version0
    BY DEF Good, SceneSet, SceneRecord, Fields
  <2>2. /\ Calm(s, t)
        /\ \/ ~t.ok /\ t.card = s.card /\ t.lua = s.lua /\ t.told = s.told
           \/ ~t.ok /\ (t.told.lost \/ s.lua.visible = None)
           \/ /\ t.ok /\ t.card.up /\ t.card.text = s.lua.visible
              /\ (t.told.lost \/ OpensOnly(t, s.lua.visible))
              /\ t.lua = s.lua /\ t.card.there = s.card.there
    BY <1>2, <2>1, PresentEnds
  <2>3. Faithful(t)
    BY <1>2, <2>2, LostFaith, SameFaith DEF Good, Faithful, Trusty, WidgetIsInHost
  <2>4. QED
    BY <2>2, <2>3, CalmBrings DEF Good, Calm
<1>3. QED
  BY <1>1, <1>2 DEF RestoreVisiblePresentation

----------------------------------------------------------------------------
(* Announcing, cueing and queueing *)

TaskKind == {"map", "loading", "notice", "present", "locale", "cue"}

\* ExecuteInGameThread raises, with nothing done, or has queued the task: only
\* the flag that this task answers may be set with it.
LEMMA DispatchGood ==
  ASSUME NEW s, Good(s), NEW t \in SceneSet, OnceIn(t), Faithful(t), t.tasks = s.tasks,
         NEW kind \in TaskKind, NEW version \in Version0,
         t.lua.presQueued => s.lua.presQueued \/ kind = "present",
         t.lua.locQueued => s.lua.locQueued \/ kind = "locale",
         t.lua.recQueued => s.lua.recQueued \/ kind = "cue",
         NEW x \in Dispatch(s, t, kind, version)
  PROVE  /\ Good(x)
         /\ \/ x.lua = s.lua /\ x.told = s.told
            \/ x.lua = t.lua /\ x.told = t.told
<1> DEFINE task == [kind |-> kind, version |-> version, stale |-> FALSE]
<1>1. CASE x \in Raises(s)
  BY <1>1, RaisesGood
<1>2. CASE x = [t EXCEPT !.tasks = Append(t.tasks, task)]
  <2>1. task \in Task /\ task.kind = kind /\ ~task.stale
    BY DEF Task, TaskKind
  <2>2. t.tasks \in Seq(Task)
    BY DEF SceneSet, SceneRecord
  <2> HIDE DEF task
  <2>a. Append(t.tasks, task) \in Seq(Task)
    BY <2>1, <2>2
  <2>3. /\ x.tasks = Append(t.tasks, task) /\ x.lua = t.lua /\ x.told = t.told
        /\ x.card = t.card /\ x \in SceneSet
    <3> DEFINE queue == Append(t.tasks, task)
    <3>1. queue \in Seq(Task) /\ x = [t EXCEPT !.tasks = queue]
      BY <1>2, <2>a
    <3> HIDE DEF queue
    <3>2. /\ x.tasks = queue /\ x.lua = t.lua /\ x.told = t.told
          /\ x.card = t.card /\ x \in SceneSet
      BY <3>1 DEF SceneSet, SceneRecord
    <3>3. QED
      BY <3>2 DEF queue
  <2>4. Waits(x, kind)
    <3>1. /\ Len(x.tasks) \in DOMAIN x.tasks /\ x.tasks[Len(x.tasks)] = task
      BY <2>1, <2>2, <2>3
    <3>2. QED
      BY <2>1, <3>1 DEF Waits
  <2>5. ASSUME NEW k, Waits(s, k)
        PROVE  Waits(x, k)
    <3>1. PICK i \in DOMAIN s.tasks : s.tasks[i].kind = k /\ ~s.tasks[i].stale
      BY <2>5 DEF Waits
    <3>2. i \in DOMAIN x.tasks /\ x.tasks[i] = s.tasks[i]
      BY <2>1, <2>2, <2>3, <3>1
    <3>3. QED
      BY <3>1, <3>2 DEF Waits
  <2>6. FlagsAnswered(x)
    BY <2>3, <2>4, <2>5 DEF FlagsAnswered, Good
  <2>7. OnceIn(x) /\ Faithful(x)
    BY <2>3, SameFaith DEF OnceIn
  <2>8. QED
    BY <2>3, <2>6, <2>7 DEF Good
<1>3. QED
  BY <1>1, <1>2 DEF Dispatch

\* The cue is played once: its version was not on record and is now.
LEMMA CueGood ==
  ASSUME NEW s, Good(s), NEW v \in Version, v \notin s.lua.cued,
         s.lua.active, s.lua.hub, ~s.lua.loading
  PROVE  /\ Good(CuePlayed(s, v)) /\ Brings(s, CuePlayed(s, v))
         /\ CuePlayed(s, v).lua.hub = s.lua.hub
<1> DEFINE t == CuePlayed(s, v)
           once == Once(s.told.cue, v)
<1>1. s.told.cue \in [Version -> 0..2] /\ s.told.cue[v] = 0
  BY DEF Good, OnceIn, SceneSet, SceneRecord, Told
<1>2. /\ once \in [Version -> 0..2] /\ once[v] = 1
      /\ \A w \in Version \ {v} : once[w] = s.told.cue[w]
  BY <1>1 DEF Once
<1> HIDE DEF once
<1>3. t = [s EXCEPT !.told.cue = once, !.lua.cue = None,
                    !.lua.cued = s.lua.cued \cup {v}, !.lua.recTried = s.lua.recTried \ {v}]
  BY DEF CuePlayed, once
<1>4. s \in SceneSet
  BY DEF Good
<1> HIDE DEF t
<1>5. t \in SceneSet
  BY <1>2, <1>3, <1>4, ZenonT(40) DEF SceneSet, SceneRecord, Fields, Told, Version0
<1>6. /\ t.told.cue = once /\ t.told.shown = s.told.shown /\ t.told.lost = s.told.lost
      /\ t.told.blind = s.told.blind
      /\ t.lua.cued = s.lua.cued \cup {v} /\ t.card = s.card /\ t.tasks = s.tasks
      /\ t.lua = [s.lua EXCEPT !.cue = None, !.cued = s.lua.cued \cup {v},
                               !.recTried = s.lua.recTried \ {v}]
  BY <1>3, <1>4 DEF SceneSet, SceneRecord, Fields, Told
<1>7. /\ t.lua.active = s.lua.active /\ t.lua.settings = s.lua.settings
      /\ t.lua.loading = s.lua.loading /\ t.lua.hub = s.lua.hub /\ t.lua.widget = s.lua.widget
      /\ t.lua.notified = s.lua.notified /\ t.lua.pending = s.lua.pending
      /\ t.lua.visible = s.lua.visible /\ t.lua.presQueued = s.lua.presQueued
      /\ t.lua.locQueued = s.lua.locQueued /\ t.lua.recQueued = s.lua.recQueued
  BY <1>4, <1>6 DEF SceneSet, SceneRecord, Fields
<1>8. OnceIn(t)
  BY <1>2, <1>6, <1>7 DEF Good, OnceIn
<1>9. FlagsAnswered(t) /\ Faithful(t)
  BY <1>6, <1>7, SameFaith, ZenonT(40) DEF Good, FlagsAnswered, Waits
<1>10. QED
  BY <1>5, <1>6, <1>7, <1>8, <1>9 DEF Good, Brings, t

\* Fields of which a good scene's goodness does not depend: the cue that is
\* wanted, and the versions whose recovery was tried.
LEMMA CueForgotten ==
  ASSUME NEW s, Good(s)
  PROVE  /\ Good([s EXCEPT !.lua.cue = None]) /\ Brings(s, [s EXCEPT !.lua.cue = None])
         /\ [s EXCEPT !.lua.cue = None].lua.hub = s.lua.hub
<1> DEFINE t == [s EXCEPT !.lua.cue = None]
<1>1. s \in SceneSet
  BY DEF Good
<1>2. t \in SceneSet
  BY <1>1 DEF SceneSet, SceneRecord, Fields, Version0
<1>3. /\ t.told = s.told /\ t.card = s.card /\ t.tasks = s.tasks
      /\ t.lua = [s.lua EXCEPT !.cue = None]
  BY <1>1 DEF SceneSet, SceneRecord
<1> HIDE DEF t
<1>4. /\ t.lua.active = s.lua.active /\ t.lua.settings = s.lua.settings
      /\ t.lua.loading = s.lua.loading /\ t.lua.hub = s.lua.hub /\ t.lua.widget = s.lua.widget
      /\ t.lua.notified = s.lua.notified /\ t.lua.pending = s.lua.pending
      /\ t.lua.visible = s.lua.visible /\ t.lua.presQueued = s.lua.presQueued
      /\ t.lua.locQueued = s.lua.locQueued /\ t.lua.recQueued = s.lua.recQueued
      /\ t.lua.cued = s.lua.cued
  BY <1>1, <1>3 DEF SceneSet, SceneRecord, Fields
<1>5. Good(t) /\ Brings(s, t)
  BY <1>2, <1>3, <1>4, SameFaith DEF Good, FlagsAnswered, Waits, OnceIn, Brings
<1>6. QED
  BY <1>4, <1>5 DEF t

LEMMA RecoveryGood ==
  ASSUME NEW s, Good(s), NEW v \in Version, NEW x \in QueueCueRecovery(s, v)
  PROVE  Good(x) /\ Brings(s, x) /\ x.lua.hub = s.lua.hub
<1> DEFINE t == [s EXCEPT !.lua.recQueued = TRUE, !.lua.recTried = s.lua.recTried \cup {v}]
<1>1. s \in SceneSet
  BY DEF Good
<1>2. t \in SceneSet
  BY <1>1 DEF SceneSet, SceneRecord, Fields
<1>3. /\ t.told = s.told /\ t.card = s.card /\ t.tasks = s.tasks
      /\ t.lua.active = s.lua.active /\ t.lua.settings = s.lua.settings
      /\ t.lua.loading = s.lua.loading /\ t.lua.hub = s.lua.hub /\ t.lua.widget = s.lua.widget
      /\ t.lua.notified = s.lua.notified /\ t.lua.pending = s.lua.pending
      /\ t.lua.visible = s.lua.visible /\ t.lua.presQueued = s.lua.presQueued
      /\ t.lua.locQueued = s.lua.locQueued /\ t.lua.cued = s.lua.cued
  BY <1>1 DEF SceneSet, SceneRecord, Fields
<1>4. CASE x = s
  BY <1>4 DEF Brings
<1>5. CASE x \in Dispatch(s, t, "cue", v)
  <2> HIDE DEF t
  <2>1. OnceIn(t) /\ Faithful(t)
    BY <1>3, SameFaith DEF Good, OnceIn
  <2>2. /\ Good(x)
        /\ \/ x.lua = s.lua /\ x.told = s.told
           \/ x.lua = t.lua /\ x.told = t.told
    BY <1>2, <1>3, <1>5, <2>1, DispatchGood DEF TaskKind, Version0
  <2>3. QED
    BY <1>3, <2>2 DEF Brings
<1>6. QED
  BY <1>4, <1>5 DEF QueueCueRecovery

LEMMA TryPlayGood ==
  ASSUME NEW s, Good(s), NEW t \in TryPlayPendingCue(s)
  PROVE  Good(t) /\ Brings(s, t) /\ t.lua.hub = s.lua.hub
<1> DEFINE v == s.lua.cue
<1>1. v \in Version0
  BY DEF Good, SceneSet, SceneRecord, Fields
<1>2. CASE t = s
  BY <1>2 DEF Brings
<1>3. CASE t = [s EXCEPT !.lua.cue = None]
  BY <1>3, CueForgotten
<1>4. CASE /\ v # None /\ ~s.lua.loading /\ s.lua.active /\ WidgetIsInHost(s)
           /\ v \notin s.lua.cued
           /\ \/ t = CuePlayed(s, v)
              \/ \E f \in Loses(s) : t \in QueueCueRecovery(f, v)
  <2>1. v \in Version /\ s.lua.hub
    BY <1>1, <1>4 DEF Version0, WidgetIsInHost
  <2>2. CASE t = CuePlayed(s, v)
    BY <1>4, <2>1, <2>2, CueGood
  <2>3. ASSUME NEW f \in Loses(s), t \in QueueCueRecovery(f, v)
        PROVE  Good(t) /\ Brings(s, t) /\ t.lua.hub = s.lua.hub
    <3>1. Good(f) /\ Calm(s, f) /\ f.lua.hub = s.lua.hub
      BY LosesGood
    <3>2. Good(t) /\ Brings(f, t) /\ t.lua.hub = f.lua.hub
      BY <2>1, <2>3, <3>1, RecoveryGood
    <3>3. QED
      BY <3>1, <3>2, CalmBrings, BringsTwice
  <2>4. QED
    BY <1>4, <2>2, <2>3
<1>5. QED
  <2> DEFINE idle == v = None \/ s.lua.loading \/ ~s.lua.active
             spent == s.lua.visible # v \/ (WidgetIsInHost(s) /\ v \in s.lua.cued)
  <2>1. CASE idle \/ (~spent /\ ~WidgetIsInHost(s))
    BY <1>2, <2>1 DEF TryPlayPendingCue
  <2>2. CASE ~idle /\ spent
    BY <1>3, <2>2 DEF TryPlayPendingCue
  <2>3. CASE ~idle /\ ~spent /\ WidgetIsInHost(s)
    <3>1. t \in {CuePlayed(s, v)} \cup UNION {QueueCueRecovery(f, v) : f \in Loses(s)}
      BY <2>3 DEF TryPlayPendingCue
    <3>2. QED
      BY <1>4, <2>3, <3>1
  <2>4. QED
    BY <2>1, <2>2, <2>3

\* A card that has come up with a version not on record announces it.
LEMMA AnnouncedGood ==
  ASSUME NEW s \in SceneSet, OnceIn(s), FlagsAnswered(s), NEW v \in Version,
         v \notin s.lua.notified, s.lua.pending = v, s.lua.active, s.lua.widget,
         s.card.text = v, s.told.lost \/ OpensOnly(s, v)
  PROVE  /\ Good(Announced(s, v)) /\ Brings(s, Announced(s, v))
         /\ Announced(s, v).lua.hub = s.lua.hub
<1> DEFINE t == Announced(s, v)
           once == Once(s.told.shown, v)
<1>1. s.told.shown \in [Version -> 0..2] /\ s.told.shown[v] = 0
  BY DEF OnceIn, SceneSet, SceneRecord, Told
<1>2. /\ once \in [Version -> 0..2] /\ once[v] = 1
      /\ \A w \in Version \ {v} : once[w] = s.told.shown[w]
  BY <1>1 DEF Once
<1> HIDE DEF once
<1>3. t = [s EXCEPT !.told.shown = once, !.lua.notified = s.lua.notified \cup {v},
                    !.lua.visible = v, !.lua.pending = None, !.lua.cue = v]
  BY DEF Announced, once
<1> HIDE DEF t
<1>4. t \in SceneSet
  <2> DEFINE fields == [s.lua EXCEPT !.notified = s.lua.notified \cup {v}, !.visible = v,
                                     !.pending = None, !.cue = v]
             history == [s.told EXCEPT !.shown = once]
  <2>1. s.lua \in Fields /\ v \in Version0 /\ None \in Version0
        /\ s.lua.notified \cup {v} \in SUBSET Version
    BY DEF SceneSet, SceneRecord, Fields, Version0
  <2>2. fields \in Fields /\ fields.widget = s.lua.widget
    BY <2>1 DEF Fields
  <2>3. history \in Told
    BY <1>2 DEF SceneSet, SceneRecord, Told
  <2>4. t = [s EXCEPT !.lua = fields, !.told = history]
    BY <1>3 DEF SceneSet, SceneRecord
  <2> HIDE DEF fields, history
  <2>5. QED
    BY <2>2, <2>3, <2>4 DEF SceneSet, SceneRecord
<1>5. /\ t.told.cue = s.told.cue /\ t.told.shown = once /\ t.told.lost = s.told.lost
      /\ t.told.blind = s.told.blind
      /\ t.card = s.card /\ t.tasks = s.tasks
      /\ t.lua = [s.lua EXCEPT !.notified = s.lua.notified \cup {v}, !.visible = v,
                               !.pending = None, !.cue = v]
  BY <1>3 DEF SceneSet, SceneRecord, Fields, Told
<1>6. /\ t.lua.active = s.lua.active /\ t.lua.settings = s.lua.settings
      /\ t.lua.loading = s.lua.loading /\ t.lua.hub = s.lua.hub /\ t.lua.widget = s.lua.widget
      /\ t.lua.notified = s.lua.notified \cup {v} /\ t.lua.pending = None
      /\ t.lua.visible = v /\ t.lua.presQueued = s.lua.presQueued
      /\ t.lua.locQueued = s.lua.locQueued /\ t.lua.recQueued = s.lua.recQueued
      /\ t.lua.cued = s.lua.cued
  BY <1>5, ZenonT(40) DEF SceneSet, SceneRecord, Fields
<1>7. OnceIn(t)
  BY <1>2, <1>5, <1>6 DEF OnceIn
<1>8. FlagsAnswered(t)
  BY <1>5, <1>6 DEF FlagsAnswered, Waits
<1>9. Faithful(t)
  BY <1>5, <1>6 DEF Faithful, Trusty, OpensOnly, Covered
<1>10. QED
  BY <1>4, <1>5, <1>6, <1>7, <1>8, <1>9 DEF Good, Brings, t

\* A report that was shown already is dropped.
LEMMA DropGood ==
  ASSUME NEW s, Good(s), s.lua.pending \in s.lua.notified
  PROVE  Good([s EXCEPT !.lua.pending = None]) /\ Brings(s, [s EXCEPT !.lua.pending = None])
<1> DEFINE t == [s EXCEPT !.lua.pending = None]
<1>1. s \in SceneSet
  BY DEF Good
<1>2. t \in SceneSet
  BY <1>1 DEF SceneSet, SceneRecord, Fields, Version0
<1>3. /\ t.told = s.told /\ t.card = s.card /\ t.tasks = s.tasks
      /\ t.lua = [s.lua EXCEPT !.pending = None]
  BY <1>1 DEF SceneSet, SceneRecord
<1> HIDE DEF t
<1>4. /\ t.lua.active = s.lua.active /\ t.lua.settings = s.lua.settings
      /\ t.lua.loading = s.lua.loading /\ t.lua.hub = s.lua.hub /\ t.lua.widget = s.lua.widget
      /\ t.lua.notified = s.lua.notified /\ t.lua.pending = None
      /\ t.lua.visible = s.lua.visible /\ t.lua.presQueued = s.lua.presQueued
      /\ t.lua.locQueued = s.lua.locQueued /\ t.lua.recQueued = s.lua.recQueued
      /\ t.lua.cued = s.lua.cued
  BY <1>1, <1>3 DEF SceneSet, SceneRecord, Fields
<1>5. Good(t) /\ Brings(s, t)
  BY <1>2, <1>3, <1>4, SameFaith, ZenonT(40) DEF Good, FlagsAnswered, Waits, OnceIn, Brings
<1>6. QED
  BY <1>5 DEF t

LEMMA ShowPendingGood ==
  ASSUME NEW s, Good(s), s.lua.active, s.lua.pending # None, WidgetIsInHost(s),
         NEW t \in ShowPending(s)
  PROVE  Good(t) /\ Brings(s, t)
<1> DEFINE v == s.lua.pending
<1>1. v \in Version /\ s \in SceneSet
  BY DEF Good, SceneSet, SceneRecord, Fields, Version0
<1>2. CASE v \in s.lua.notified
  BY <1>2, DropGood DEF ShowPending
<1>3. CASE v \notin s.lua.notified
  <2>1. PICK x \in Present(s, v) :
          t \in IF x.ok THEN TryPlayPendingCue(Announced(x, v)) ELSE {x}
    BY <1>3 DEF ShowPending
  <2>2. /\ Calm(s, x)
        /\ \/ ~x.ok /\ x.card = s.card /\ x.lua = s.lua /\ x.told = s.told
           \/ ~x.ok /\ (x.told.lost \/ s.lua.visible = None)
           \/ /\ x.ok /\ x.card.up /\ x.card.text = v /\ (x.told.lost \/ OpensOnly(x, v))
              /\ x.lua = s.lua /\ x.card.there = s.card.there
    BY <1>1, PresentEnds DEF Version0
  <2>3. OnceIn(x) /\ FlagsAnswered(x) /\ Brings(s, x) /\ x \in SceneSet
    BY <2>2, CalmBrings DEF Good, Calm
  <2>4. CASE ~x.ok
    <3>1. Faithful(x)
      BY <2>2, <2>4, LostFaith, SameFaith DEF Good
    <3>2. QED
      BY <2>1, <2>3, <2>4, <3>1 DEF Good
  <2>5. CASE x.ok
    <3>1. /\ v \notin x.lua.notified /\ x.lua.pending = v /\ x.lua.active /\ x.lua.widget
          /\ x.card.text = v /\ (x.told.lost \/ OpensOnly(x, v))
      BY <1>3, <2>2, <2>5 DEF WidgetIsInHost
    <3>2. Good(Announced(x, v)) /\ Brings(x, Announced(x, v))
      BY <1>1, <2>3, <3>1, AnnouncedGood
    <3>3. Good(t) /\ Brings(Announced(x, v), t)
      BY <2>1, <2>5, <3>2, TryPlayGood
    <3>4. QED
      BY <2>3, <3>2, <3>3, BringsTwice
  <2>6. QED
    BY <2>4, <2>5
<1>4. QED
  BY <1>2, <1>3

\* Without a reference to the hub nothing happens.
LEMMA TryShowGood ==
  ASSUME NEW s, Good(s), NEW t \in TryShowPending(s)
  PROVE  Good(t) /\ Brings(s, t) /\ (t = s \/ s.lua.hub)
<1>1. CASE ~s.lua.active \/ s.lua.pending = None
  BY <1>1 DEF TryShowPending, Brings
<1>2. CASE ~(~s.lua.active \/ s.lua.pending = None)
  <2>1. PICK x \in (IF ~WidgetIsInHost(s) /\ s.lua.hub THEN PrepareHomeHub(s) ELSE {s}) :
          t \in IF WidgetIsInHost(x) THEN ShowPending(x) ELSE {x}
    BY <1>2 DEF TryShowPending
  <2>2. /\ Good(x) /\ Brings(s, x) /\ (x = s \/ s.lua.hub)
        /\ x.lua.active = s.lua.active /\ x.lua.pending = s.lua.pending
    <3>1. CASE x = s
      BY <3>1 DEF Brings
    <3>2. CASE s.lua.hub /\ x \in PrepareHomeHub(s)
      BY <3>2, PrepareGood, CalmBrings DEF Calm
    <3>3. QED
      BY <2>1, <3>1, <3>2
  <2>3. CASE WidgetIsInHost(x)
    <3>1. Good(t) /\ Brings(x, t)
      BY <1>2, <2>1, <2>2, <2>3, ShowPendingGood
    <3>2. s.lua.hub
      BY <2>2, <2>3 DEF WidgetIsInHost
    <3>3. QED
      BY <2>2, <3>1, <3>2, BringsTwice
  <2>4. CASE ~WidgetIsInHost(x)
    BY <2>1, <2>2, <2>4
  <2>5. QED
    BY <2>3, <2>4
<1>3. QED
  BY <1>1, <1>2

LEMMA ShowAndCueGood ==
  ASSUME NEW s, Good(s), NEW t \in ShowAndCue(s)
  PROVE  Good(t) /\ Brings(s, t)
<1>1. PICK x \in TryShowPending(s) : t \in TryPlayPendingCue(x)
  BY DEF ShowAndCue
<1>2. Good(x) /\ Brings(s, x)
  BY TryShowGood
<1>3. Good(t) /\ Brings(x, t)
  BY <1>1, <1>2, TryPlayGood
<1>4. QED
  BY <1>2, <1>3, BringsTwice

----------------------------------------------------------------------------
(* The functions that learn whether the hub or a loading screen shows *)

\* Like Brings, where c says that a loading screen really covers the hub, and
\* Lua may only now learn that the hub shows, or that it is covered, or fail to.
Moves(s, t, c) ==
  /\ t.lua.settings = s.lua.settings
  /\ s.lua.active => t.lua.active
  /\ s.lua.hub => t.lua.hub
  /\ s.lua.notified \subseteq t.lua.notified
  /\ t.lua.pending # s.lua.pending =>
       t.lua.pending = None /\ s.lua.pending \in t.lua.notified
  /\ s.told.blind => t.told.blind
  /\ t.told.cue # s.told.cue => t.lua.active /\ t.lua.hub /\ (c => t.told.blind)

LEMMA MovesTwice ==
  ASSUME NEW c, NEW s, NEW t, NEW u, Moves(s, t, c), Moves(t, u, c)
  PROVE  Moves(s, u, c)
BY DEF Moves

LEMMA BringsMoves ==
  ASSUME NEW c \in BOOLEAN, NEW s, NEW t, Brings(s, t), c => s.lua.loading \/ s.told.blind
  PROVE  Moves(s, t, c) /\ (c => t.lua.loading \/ t.told.blind)
BY DEF Brings, Moves

LEMMA CalmMoves ==
  ASSUME NEW c \in BOOLEAN, NEW s, NEW t, Calm(s, t), c => s.lua.loading \/ s.told.blind
  PROVE  Moves(s, t, c) /\ (c => t.lua.loading \/ t.told.blind)
BY DEF Calm, Moves

LEMMA LoadingGood ==
  ASSUME NEW s, Good(s), NEW on \in BOOLEAN, NEW t \in LoadingKnown(s, on),
         NEW c \in BOOLEAN, c => on \/ s.told.blind
  PROVE  /\ Good(t) /\ Moves(s, t, c) /\ t.lua.loading = on /\ t.told.blind = s.told.blind
         /\ t.lua.active = s.lua.active /\ t.lua.hub = s.lua.hub
<1> DEFINE w == [s EXCEPT !.lua.loading = on]
<1>1. PICK x \in RefreshVisibleReleaseLink(w) : t \in TryPlayPendingCue(x)
  BY DEF LoadingKnown
<1>2. s \in SceneSet
  BY DEF Good
<1>3. w \in SceneSet
  BY <1>2 DEF SceneSet, SceneRecord, Fields
<1>4. /\ w.told = s.told /\ w.card = s.card /\ w.tasks = s.tasks
      /\ w.lua = [s.lua EXCEPT !.loading = on]
  BY <1>2 DEF SceneSet, SceneRecord
<1> HIDE DEF w
<1>5. /\ w.lua.active = s.lua.active /\ w.lua.settings = s.lua.settings
      /\ w.lua.loading = on /\ w.lua.hub = s.lua.hub /\ w.lua.widget = s.lua.widget
      /\ w.lua.notified = s.lua.notified /\ w.lua.pending = s.lua.pending
      /\ w.lua.visible = s.lua.visible /\ w.lua.presQueued = s.lua.presQueued
      /\ w.lua.locQueued = s.lua.locQueued /\ w.lua.recQueued = s.lua.recQueued
      /\ w.lua.cued = s.lua.cued
  BY <1>2, <1>4 DEF SceneSet, SceneRecord, Fields
<1>6. OnceIn(w) /\ FlagsAnswered(w) /\ Trusty(w)
  BY <1>4, <1>5 DEF Good, OnceIn, FlagsAnswered, Waits, Faithful, Trusty
<1>7. Good(x) /\ Calm(w, x) /\ x.lua.hub = w.lua.hub
  BY <1>3, <1>6, RefreshLinkGood
<1>8. Good(t) /\ Brings(x, t) /\ t.lua.hub = x.lua.hub
  BY <1>1, <1>7, TryPlayGood
<1>9. Brings(w, t)
  BY <1>7, <1>8, CalmBrings, BringsTwice
<1>10. QED
  BY <1>4, <1>5, <1>7, <1>8, <1>9 DEF Brings, Moves

\* A look that found nothing is believed while the hub shows, and recorded as a
\* blind one if a loading screen shows.
LEMMA AbsentGood ==
  ASSUME NEW s, Good(s), loading \in BOOLEAN, loading => s.lua.loading \/ s.told.blind,
         NEW t \in LoadingAbsent(s)
  PROVE  /\ Good(t) /\ Moves(s, t, loading) /\ (loading => t.lua.loading \/ t.told.blind)
         /\ t.lua.active = s.lua.active /\ t.lua.hub = s.lua.hub
<1>1. CASE ~s.lua.active
  BY <1>1 DEF LoadingAbsent, Moves
<1>2. CASE s.lua.active
  <2> DEFINE blind == s.told.blind \/ loading
             w == [s EXCEPT !.told.blind = blind]
  <2>1. s \in SceneSet /\ blind \in BOOLEAN
    BY DEF Good, SceneSet, SceneRecord, Told
  <2>2. t \in LoadingKnown(w, FALSE)
    BY <1>2 DEF LoadingAbsent
  <2>3. (loading => blind) /\ (s.told.blind => blind)
    OBVIOUS
  <2> HIDE DEF blind
  <2>4. /\ w \in SceneSet /\ w.lua = s.lua /\ w.card = s.card /\ w.tasks = s.tasks
        /\ w.told = [s.told EXCEPT !.blind = blind]
    BY <2>1 DEF SceneSet, SceneRecord, Told
  <2> HIDE DEF w
  <2>5. /\ w.told.blind = blind /\ w.told.cue = s.told.cue
        /\ w.told.shown = s.told.shown /\ w.told.lost = s.told.lost
    BY <2>1, <2>4 DEF SceneSet, SceneRecord, Told
  <2>a. Faithful(w)
    BY <2>4, <2>5, SameFaith DEF Good
  <2>b. OnceIn(w) /\ FlagsAnswered(w)
    BY <2>4, <2>5 DEF Good, OnceIn, FlagsAnswered, Waits
  <2>6. Good(w) /\ Moves(s, w, loading)
    BY <2>3, <2>4, <2>5, <2>a, <2>b DEF Good, Moves
  <2>7. /\ Good(t) /\ Moves(w, t, loading) /\ t.told.blind = w.told.blind
        /\ t.lua.active = w.lua.active /\ t.lua.hub = w.lua.hub
    BY <2>2, <2>3, <2>5, <2>6, LoadingGood
  <2>8. QED
    BY <2>3, <2>4, <2>5, <2>6, <2>7, MovesTwice
<1>3. QED
  BY <1>1, <1>2

LEMMA RefreshLoadingGood ==
  ASSUME NEW s, Good(s), loading \in BOOLEAN, loading => s.lua.loading \/ s.told.blind,
         NEW t \in RefreshLoadingScreenState(s)
  PROVE  /\ Good(t) /\ Moves(s, t, loading) /\ (loading => t.lua.loading \/ t.told.blind)
         /\ t.lua.active = s.lua.active /\ t.lua.hub = s.lua.hub
<1>1. CASE t \in LoadingKnown(s, loading)
  BY <1>1, LoadingGood
<1>2. CASE t \in LoadingAbsent(s)
  BY <1>2, AbsentGood
<1>3. ASSUME NEW f \in Raises(s), t \in LoadingAbsent(f)
      PROVE  /\ Good(t) /\ Moves(s, t, loading) /\ (loading => t.lua.loading \/ t.told.blind)
             /\ t.lua.active = s.lua.active /\ t.lua.hub = s.lua.hub
  <2>1. Good(f) /\ f.lua = s.lua /\ f.told = s.told
    BY <1>3, RaisesGood
  <2>2. /\ Good(t) /\ Moves(f, t, loading) /\ (loading => t.lua.loading \/ t.told.blind)
        /\ t.lua.active = f.lua.active /\ t.lua.hub = f.lua.hub
    BY <1>3, <2>1, AbsentGood
  <2>3. QED
    BY <2>1, <2>2 DEF Moves
<1>4. QED
  BY <1>1, <1>2, <1>3 DEF RefreshLoadingScreenState

LEMMA RefreshThenShow ==
  ASSUME NEW s, Good(s), loading \in BOOLEAN, loading => s.lua.loading \/ s.told.blind,
         NEW x \in RefreshLoadingScreenState(s), NEW t \in ShowAndCue(x)
  PROVE  Good(t) /\ Moves(s, t, loading) /\ (loading => t.lua.loading \/ t.told.blind)
         /\ t.lua.active = s.lua.active
<1>1. /\ Good(x) /\ Moves(s, x, loading) /\ (loading => x.lua.loading \/ x.told.blind)
      /\ x.lua.active = s.lua.active
  BY RefreshLoadingGood
<1>2. Good(t) /\ Brings(x, t)
  BY <1>1, ShowAndCueGood
<1>3. t.lua.active = x.lua.active
  BY <1>2 DEF Brings
<1>4. QED
  BY <1>1, <1>2, <1>3, BringsMoves, MovesTwice

LEMMA BeginGood ==
  ASSUME NEW s, Good(s), loading \in BOOLEAN, loading => s.lua.loading \/ s.told.blind,
         NEW t \in BeginHomeHubShowing(s)
  PROVE  Good(t) /\ Moves(s, t, loading) /\ (loading => t.lua.loading \/ t.told.blind)
<1> DEFINE w == [s EXCEPT !.lua.hub = TRUE, !.lua.active = TRUE]
<1>1. s \in SceneSet
  BY DEF Good
<1>2. w \in SceneSet
  BY <1>1 DEF SceneSet, SceneRecord, Fields
<1>3. /\ w.told = s.told /\ w.card = s.card /\ w.tasks = s.tasks
      /\ w.lua = [s.lua EXCEPT !.hub = TRUE, !.active = TRUE]
  BY <1>1 DEF SceneSet, SceneRecord
<1>4. PICK x \in PrepareHomeHub(w) :
        t \in IF ~x.ok THEN {x}
              ELSE UNION {UNION {ShowAndCue(z) : z \in RefreshLoadingScreenState(u)} :
                          u \in IF x.lua.pending = None /\ x.lua.visible = None
                                THEN HideWidget(x) ELSE RestoreVisiblePresentation(x)}
  BY DEF BeginHomeHubShowing
<1> HIDE DEF w
<1>5. /\ w.lua.active /\ w.lua.settings = s.lua.settings
      /\ w.lua.loading = s.lua.loading /\ w.lua.hub /\ w.lua.widget = s.lua.widget
      /\ w.lua.notified = s.lua.notified /\ w.lua.pending = s.lua.pending
      /\ w.lua.visible = s.lua.visible /\ w.lua.presQueued = s.lua.presQueued
      /\ w.lua.locQueued = s.lua.locQueued /\ w.lua.recQueued = s.lua.recQueued
      /\ w.lua.cued = s.lua.cued
  BY <1>1, <1>3 DEF SceneSet, SceneRecord, Fields
<1>6. Good(w) /\ Moves(s, w, loading) /\ (loading => w.lua.loading \/ w.told.blind)
  BY <1>2, <1>3, <1>5
     DEF Good, OnceIn, FlagsAnswered, Waits, Faithful, Trusty, OpensOnly, Covered, Moves
<1>7. Good(x) /\ Moves(s, x, loading) /\ (loading => x.lua.loading \/ x.told.blind)
  BY <1>6, PrepareGood, CalmMoves, MovesTwice
<1>8. CASE ~x.ok
  BY <1>4, <1>7, <1>8
<1>9. CASE x.ok
  <2>1. PICK u \in (IF x.lua.pending = None /\ x.lua.visible = None
                    THEN HideWidget(x) ELSE RestoreVisiblePresentation(x)) :
          t \in UNION {ShowAndCue(z) : z \in RefreshLoadingScreenState(u)}
    BY <1>4, <1>9
  <2>2. Good(u) /\ Calm(x, u)
    BY <1>7, HideGood, RestoreGood
  <2>3. Moves(s, u, loading) /\ (loading => u.lua.loading \/ u.told.blind)
    BY <1>7, <2>2, CalmMoves, MovesTwice
  <2>4. QED
    BY <2>1, <2>2, <2>3, RefreshThenShow, MovesTwice
<1>10. QED
  BY <1>8, <1>9

----------------------------------------------------------------------------
(* The invariant and the steps *)

\* What Lua knows of the engine is what the engine shows, or more cautious, but for
\* a loading screen that it failed to find.
Agrees ==
  /\ hub \in {"off", "in", "on", "closing"} /\ loading \in BOOLEAN /\ settings \in BOOLEAN
  /\ lua.settings = settings
  /\ loading => lua.loading \/ told.blind
  /\ lua.active /\ lua.hub => hub # "off"

NoticeInv == Good(Scene) /\ Agrees

Timely == told'.cue # told.cue => (loading' => told'.blind) /\ lua'.active /\ hub' # "off"

Remembered == lua.pending # None /\ lua'.pending = None => lua.pending \in lua'.notified

\* What is pending may be replaced, but goes away only by an announcement.
Remembers(s, t) ==
  s.lua.pending # None /\ t.lua.pending = None => s.lua.pending \in t.lua.notified

\* A handler that ends in a good scene.
LEMMA EndsGood ==
  ASSUME NoticeInv, NEW t, Good(t), Remembers(Scene, t),
         lua' = t.lua, card' = t.card, tasks' = t.tasks, told' = t.told, trouble' = t.trouble,
         t.told.cue # told.cue => t.lua.active /\ t.lua.hub /\ (loading' => t.told.blind),
         hub' \in {"off", "in", "on", "closing"}, loading' \in BOOLEAN, settings' \in BOOLEAN,
         t.lua.settings = settings', loading' => t.lua.loading \/ t.told.blind,
         t.lua.active /\ t.lua.hub => hub' # "off"
  PROVE  NoticeInv' /\ Timely /\ Remembered
<1>1. /\ Scene'.lua = t.lua /\ Scene'.card = t.card /\ Scene'.tasks = t.tasks
      /\ Scene'.told = t.told
  BY DEF Scene
<1>2. Scene' \in SceneSet
  BY DEF Scene, Good, SceneSet, SceneRecord
<1>3. OnceIn(Scene') /\ FlagsAnswered(Scene') /\ Faithful(Scene')
  BY <1>1, SameFaith DEF Good, OnceIn, FlagsAnswered, Waits
<1>4. Good(Scene')
  BY <1>2, <1>3 DEF Good
<1>5. Agrees' /\ Timely /\ Remembered
  BY DEF Agrees, Timely, Remembered, Remembers, Scene
<1>6. NoticeInv' <=> Good(Scene') /\ Agrees'
  BY DEF NoticeInv, Good, OnceIn, FlagsAnswered, Waits, Faithful, Trusty, OpensOnly, Covered,
         Scene, SceneSet, SceneRecord
<1>7. QED
  BY <1>4, <1>5, <1>6

\* The same for a handler that Moves and leaves the hub and settings as they are.
LEMMA MovesEnd ==
  ASSUME NoticeInv, NEW t, Good(t), Moves(Scene, t, loading'),
         lua' = t.lua, card' = t.card, tasks' = t.tasks, told' = t.told, trouble' = t.trouble,
         loading' => t.lua.loading \/ t.told.blind, t.lua.active /\ t.lua.hub => hub' # "off",
         hub' \in {"off", "in", "on", "closing"}, loading' \in BOOLEAN, settings' = settings
  PROVE  NoticeInv' /\ Timely /\ Remembered
<1>1. t.lua.settings = settings' /\ settings' \in BOOLEAN
  BY DEF NoticeInv, Agrees, Moves, Scene
<1>2. Remembers(Scene, t)
  BY DEF Remembers, Moves
<1>3. t.told.cue # told.cue => t.lua.active /\ t.lua.hub /\ (loading' => t.told.blind)
  BY DEF Moves, Scene
<1>4. QED
  BY <1>1, <1>2, <1>3, EndsGood

LEMMA SceneFacts ==
  ASSUME NoticeInv
  PROVE  /\ Good(Scene) /\ Scene \in SceneSet
         /\ Scene.lua = lua /\ Scene.told = told /\ Scene.tasks = tasks
         /\ loading \in BOOLEAN /\ settings \in BOOLEAN
         /\ hub \in {"off", "in", "on", "closing"}
         /\ loading => Scene.lua.loading \/ Scene.told.blind
BY DEF NoticeInv, Agrees, Good, Scene

\* The visit ends: nothing is visible, and nothing is promised of the card.
LEMMA ExitGood ==
  ASSUME NEW s, Good(s), NEW t \in HideForHomeHubExit(s)
  PROVE  /\ Good(t) /\ Remembers(s, t) /\ t.told.cue = s.told.cue /\ ~t.lua.active
         /\ t.lua.settings = s.lua.settings /\ t.lua.loading = s.lua.loading
         /\ t.told.blind = s.told.blind
<1> DEFINE over == [s EXCEPT !.lua.active = FALSE, !.lua.cue = None]
<1>1. PICK x \in (IF s.lua.active \/ s.lua.visible # None THEN HideWidget(over) ELSE {over}) :
        t = [x EXCEPT !.lua.visible = None, !.told.lost = FALSE]
  BY DEF HideForHomeHubExit
<1>2. s \in SceneSet
  BY DEF Good
<1>3. over \in SceneSet
  BY <1>2 DEF SceneSet, SceneRecord, Fields, Version0
<1>4. /\ over.told = s.told /\ over.card = s.card /\ over.tasks = s.tasks
      /\ over.lua = [s.lua EXCEPT !.active = FALSE, !.cue = None]
  BY <1>2 DEF SceneSet, SceneRecord
<1> HIDE DEF over
<1>5. /\ ~over.lua.active /\ over.lua.settings = s.lua.settings
      /\ over.lua.loading = s.lua.loading
      /\ over.lua.notified = s.lua.notified /\ over.lua.pending = s.lua.pending
      /\ over.lua.presQueued = s.lua.presQueued
      /\ over.lua.locQueued = s.lua.locQueued /\ over.lua.recQueued = s.lua.recQueued
      /\ over.lua.cued = s.lua.cued
  BY <1>2, <1>4 DEF SceneSet, SceneRecord, Fields
<1>6. Calm(over, x)
  BY <1>1, <1>3, HideCalm, CalmSelf
<1>7. x \in SceneSet
  BY <1>6 DEF Calm
<1>8. t \in SceneSet
  BY <1>1, <1>7, ZenonT(40) DEF SceneSet, SceneRecord, Fields, Told, Version0
<1>9. /\ t.told.cue = x.told.cue /\ t.told.shown = x.told.shown /\ t.tasks = x.tasks
      /\ t.told.blind = x.told.blind
      /\ t.lua = [x.lua EXCEPT !.visible = None]
  BY <1>1, <1>7 DEF SceneSet, SceneRecord, Told
<1>10. /\ t.lua.active = x.lua.active /\ t.lua.settings = x.lua.settings
       /\ t.lua.loading = x.lua.loading
       /\ t.lua.notified = x.lua.notified /\ t.lua.pending = x.lua.pending
       /\ t.lua.visible = None /\ t.lua.presQueued = x.lua.presQueued
       /\ t.lua.locQueued = x.lua.locQueued /\ t.lua.recQueued = x.lua.recQueued
       /\ t.lua.cued = x.lua.cued
  BY <1>7, <1>9 DEF SceneSet, SceneRecord, Fields
<1>11. OnceIn(t) /\ FlagsAnswered(t)
  BY <1>4, <1>5, <1>6, <1>9, <1>10 DEF Calm, Good, OnceIn, FlagsAnswered, Waits
<1>12. Faithful(t)
  BY <1>10 DEF Faithful, Trusty
<1>13. /\ t.lua.pending = s.lua.pending /\ t.told.cue = s.told.cue /\ ~t.lua.active
       /\ t.lua.settings = s.lua.settings /\ t.lua.loading = s.lua.loading
       /\ t.told.blind = s.told.blind
  BY <1>4, <1>5, <1>6, <1>9, <1>10 DEF Calm
<1>14. QED
  BY <1>8, <1>11, <1>12, <1>13 DEF Good, Remembers

\* A map load makes all queued tasks stale and all flags false with them.
LEMMA ResetGood ==
  ASSUME NEW s, Good(s)
  PROVE  /\ Good(Reset(s)) /\ Reset(s).told.cue = s.told.cue
         /\ Reset(s).lua.pending = s.lua.pending /\ Reset(s).lua.notified = s.lua.notified
         /\ ~Reset(s).lua.active /\ ~Reset(s).lua.settings /\ Reset(s).lua.loading
<1> DEFINE t == Reset(s)
           stale == [i \in DOMAIN s.tasks |-> [s.tasks[i] EXCEPT !.stale = TRUE]]
           fields == [s.lua EXCEPT !.widget = FALSE, !.hub = FALSE, !.active = FALSE,
                        !.settings = FALSE, !.loading = TRUE, !.visible = None,
                        !.cue = None, !.presQueued = FALSE, !.locQueued = FALSE,
                        !.recQueued = FALSE]
           history == [s.told EXCEPT !.lost = FALSE, !.blind = FALSE]
<1>1. s \in SceneSet
  BY DEF Good
<1>2. stale \in Seq(Task)
  <2>1. s.tasks \in Seq(Task)
    BY <1>1 DEF SceneSet, SceneRecord
  <2>2. \A x \in Task : [x EXCEPT !.stale = TRUE] \in Task
    BY DEF Task
  <2>3. DOMAIN s.tasks = 1..Len(s.tasks) /\ Len(s.tasks) \in Nat
    BY <2>1
  <2>4. \A i \in 1..Len(s.tasks) : [s.tasks[i] EXCEPT !.stale = TRUE] \in Task
    BY <2>1, <2>2
  <2>5. QED
    BY <2>3, <2>4, IsASeq
<1>3. s.lua \in Fields /\ None \in Version0
  BY <1>1 DEF SceneSet, SceneRecord, Version0
<1>4. fields \in Fields /\ ~fields.widget
  BY <1>3 DEF Fields
<1>5. history \in Told /\ history.cue = s.told.cue /\ history.shown = s.told.shown
  BY <1>1 DEF SceneSet, SceneRecord, Told
<1>6. /\ ~fields.active /\ ~fields.settings /\ fields.loading
      /\ fields.notified = s.lua.notified /\ fields.pending = s.lua.pending
      /\ fields.visible = None /\ ~fields.presQueued /\ ~fields.locQueued
      /\ ~fields.recQueued /\ fields.cued = s.lua.cued
  BY <1>3 DEF Fields
<1>7. t = [s EXCEPT !.lua = fields, !.tasks = stale, !.told = history]
  BY DEF Reset, Unplaced, Outdated
<1> HIDE DEF t, stale, fields, history
<1>8. /\ t.lua = fields /\ t.tasks = stale /\ t.told = history /\ t \in SceneSet
  BY <1>1, <1>2, <1>4, <1>5, <1>7 DEF SceneSet, SceneRecord
<1>9. OnceIn(t) /\ FlagsAnswered(t) /\ Faithful(t)
  BY <1>5, <1>6, <1>8 DEF Good, OnceIn, FlagsAnswered, Faithful, Trusty
<1>10. QED
  BY <1>5, <1>6, <1>8, <1>9 DEF Good, t

----------------------------------------------------------------------------
(* The tasks of the game thread *)

\* A task whose flag is taken back when it runs.
LEMMA UnqueuedGood ==
  ASSUME NEW s \in SceneSet, OnceIn(s), Faithful(s),
         NEW t \in {[s EXCEPT !.lua.presQueued = FALSE], [s EXCEPT !.lua.locQueued = FALSE],
                    [s EXCEPT !.lua.recQueued = FALSE]},
         t.lua.presQueued => Waits(s, "present"),
         t.lua.locQueued => Waits(s, "locale"),
         t.lua.recQueued => Waits(s, "cue")
  PROVE  /\ Good(t) /\ Brings(s, t) /\ t.lua.hub = s.lua.hub /\ t.card = s.card
         /\ t.lua.visible = s.lua.visible /\ t.told = s.told
<1>1. t \in SceneSet
  <2>1. /\ [s EXCEPT !.lua.presQueued = FALSE] \in SceneSet
        /\ [s EXCEPT !.lua.locQueued = FALSE] \in SceneSet
    BY DEF SceneSet, SceneRecord, Fields
  <2>2. [s EXCEPT !.lua.recQueued = FALSE] \in SceneSet
    BY DEF SceneSet, SceneRecord, Fields
  <2>3. QED
    BY <2>1, <2>2
<1>2. t.told = s.told /\ t.card = s.card /\ t.tasks = s.tasks
  BY DEF SceneSet, SceneRecord
<1>3. /\ t.lua.active = s.lua.active /\ t.lua.settings = s.lua.settings
      /\ t.lua.loading = s.lua.loading /\ t.lua.hub = s.lua.hub /\ t.lua.widget = s.lua.widget
      /\ t.lua.notified = s.lua.notified /\ t.lua.pending = s.lua.pending
      /\ t.lua.visible = s.lua.visible /\ t.lua.cued = s.lua.cued
  BY DEF SceneSet, SceneRecord, Fields
<1>4. OnceIn(t) /\ FlagsAnswered(t) /\ Faithful(t)
  BY <1>2, <1>3, SameFaith DEF OnceIn, FlagsAnswered, Waits
<1>5. QED
  BY <1>1, <1>2, <1>3, <1>4 DEF Good, Brings

LEMMA RunNoticeGood ==
  ASSUME NEW s, Good(s), loading \in BOOLEAN, loading => s.lua.loading \/ s.told.blind,
         NEW t \in RunNotice(s)
  PROVE  /\ Good(t) /\ Moves(s, t, loading) /\ (loading => t.lua.loading \/ t.told.blind)
         /\ t = s \/ (s.lua.active /\ s.lua.hub)
<1>1. CASE ~(s.lua.active /\ s.lua.hub)
  BY <1>1 DEF RunNotice, Moves
<1>2. CASE s.lua.active /\ s.lua.hub
  <2>1. PICK x \in PrepareHomeHub(s) :
          t \in IF ~x.ok THEN {x}
                ELSE UNION {UNION {ShowAndCue(z) : z \in RefreshLoadingScreenState(u)} :
                            u \in RestoreVisiblePresentation(x)}
    BY <1>2 DEF RunNotice
  <2>2. Good(x) /\ Moves(s, x, loading) /\ (loading => x.lua.loading \/ x.told.blind)
    BY PrepareGood, CalmMoves
  <2>3. CASE ~x.ok
    BY <1>2, <2>1, <2>2, <2>3
  <2>4. CASE x.ok
    <3>1. PICK u \in RestoreVisiblePresentation(x) :
            t \in UNION {ShowAndCue(z) : z \in RefreshLoadingScreenState(u)}
      BY <2>1, <2>4
    <3>2. Good(u) /\ Moves(x, u, loading) /\ (loading => u.lua.loading \/ u.told.blind)
      BY <2>2, RestoreGood, CalmMoves
    <3>3. Moves(s, u, loading)
      BY <2>2, <3>2, MovesTwice
    <3>4. QED
      BY <1>2, <3>1, <3>2, <3>3, RefreshThenShow, MovesTwice
  <2>5. QED
    BY <2>3, <2>4
<1>3. QED
  BY <1>1, <1>2

\* The second half of a cue recovery.
LEMMA RetryGood ==
  ASSUME NEW s, Good(s),
         NEW t \in UNION {IF ~x.ok THEN {x}
                          ELSE UNION {TryPlayPendingCue(u) : u \in RestoreVisiblePresentation(x)} :
                          x \in PrepareHomeHub(s)}
  PROVE  Good(t) /\ Brings(s, t)
<1>1. PICK x \in PrepareHomeHub(s) :
        t \in IF ~x.ok THEN {x}
              ELSE UNION {TryPlayPendingCue(u) : u \in RestoreVisiblePresentation(x)}
  OBVIOUS
<1>2. Good(x) /\ Brings(s, x)
  BY PrepareGood, CalmBrings
<1>3. CASE ~x.ok
  BY <1>1, <1>2, <1>3
<1>4. CASE x.ok
  <2>1. PICK u \in RestoreVisiblePresentation(x) : t \in TryPlayPendingCue(u)
    BY <1>1, <1>4
  <2>2. Good(u) /\ Brings(s, u)
    BY <1>2, RestoreGood, CalmBrings, BringsTwice
  <2>3. QED
    BY <2>1, <2>2, TryPlayGood, BringsTwice
<1>5. QED
  BY <1>3, <1>4

\* New text and the same link, for what is visible.
LEMMA RetextGood ==
  ASSUME NEW s, Good(s), s.lua.widget,
         NEW t \in UNION {IF x.ok THEN ApplyReleaseLink(x, s.lua.visible) ELSE {x} :
                          x \in ApplyLocalizedText(s, s.lua.visible)}
  PROVE  Good(t) /\ Calm(s, t) /\ t.lua.hub = s.lua.hub
<1> DEFINE v == s.lua.visible
<1>1. s \in SceneSet /\ v \in Version0
  BY DEF Good, SceneSet, SceneRecord, Fields
<1>2. PICK x \in ApplyLocalizedText(s, v) : t \in IF x.ok THEN ApplyReleaseLink(x, v) ELSE {x}
  OBVIOUS
<1>3. /\ Calm(s, x) /\ x.told = s.told /\ x.lua = s.lua
      /\ \/ x.ok /\ x.card = [s.card EXCEPT !.text = v]
         \/ ~x.ok /\ x.card = s.card
  BY <1>1, TextCalm
<1>4. x \in SceneSet /\ OnceIn(x) /\ FlagsAnswered(x)
  BY <1>3, CalmBrings DEF Good, Calm
<1>5. CASE ~x.ok
  <2>1. Faithful(x)
    BY <1>3, <1>5, SameFaith DEF Good
  <2>2. QED
    BY <1>2, <1>3, <1>4, <1>5, <2>1 DEF Good
<1>6. CASE x.ok
  <2>1. /\ x.card.there = s.card.there /\ x.card.text = v
    BY <1>1, <1>3, <1>6 DEF SceneSet, SceneRecord, Card
  <2>2. Trusty(x)
    BY <1>3, <2>1 DEF Good, Faithful, Trusty
  <2>3. CASE v # None
    BY <1>2, <1>3, <1>4, <1>6, <2>2, <2>3, LinkGood, CalmTwice
  <2>4. CASE v = None
    <3>1. Calm(x, t) /\ t.lua = x.lua
      BY <1>1, <1>2, <1>4, <1>6, LinkCalm
    <3>2. Faithful(t)
      BY <1>3, <2>4, <3>1 DEF Faithful, Trusty
    <3>3. QED
      BY <1>3, <1>4, <3>1, <3>2, CalmTwice, CalmBrings DEF Good, Calm
  <2>5. QED
    BY <2>3, <2>4
<1>7. QED
  BY <1>5, <1>6

LEMMA GameThreadStep ==
  ASSUME NoticeInv, GameThread
  PROVE  NoticeInv' /\ Timely /\ Remembered
<1> DEFINE w == [Scene EXCEPT !.tasks = Tail(tasks)]
           task == Head(tasks)
<1>a. /\ Good(Scene) /\ Scene \in SceneSet /\ Scene.lua = lua /\ Scene.told = told
      /\ Scene.tasks = tasks /\ loading \in BOOLEAN /\ hub \in {"off", "in", "on", "closing"}
      /\ loading => Scene.lua.loading \/ Scene.told.blind
  BY SceneFacts
<1>1. PICK t \in Run(w, task) :
        /\ lua' = t.lua /\ card' = t.card /\ tasks' = t.tasks /\ told' = t.told
        /\ trouble' = t.trouble
  BY <1>a DEF GameThread, Ends, Scene
<1>2. tasks \in Seq(Task) /\ tasks # <<>>
  BY <1>a DEF SceneSet, SceneRecord, GameThread
<1>3. task \in Task /\ Tail(tasks) \in Seq(Task)
  BY <1>2
<1>4. /\ w \in SceneSet /\ w.lua = lua /\ w.told = told /\ w.card = Scene.card
      /\ w.tasks = Tail(tasks)
  <2> DEFINE rest == Tail(tasks)
  <2>1. rest \in Seq(Task) /\ w = [Scene EXCEPT !.tasks = rest]
    BY <1>3
  <2> HIDE DEF rest
  <2>2. w \in SceneSet /\ w.lua = lua /\ w.told = told /\ w.card = Scene.card /\ w.tasks = rest
    BY <1>a, <2>1 DEF SceneSet, SceneRecord
  <2>3. QED
    BY <2>2 DEF rest
<1> HIDE DEF w, task
<1>5. /\ OnceIn(w) /\ Faithful(w) /\ Moves(Scene, w, loading)
      /\ loading => w.lua.loading \/ w.told.blind
  BY <1>a, <1>4, SameFaith DEF Good, OnceIn, Moves
<1>6. ASSUME NEW k, Waits(Scene, k)
      PROVE  Waits(w, k) \/ (task.kind = k /\ ~task.stale)
  <2>1. PICK i \in DOMAIN tasks : tasks[i].kind = k /\ ~tasks[i].stale
    BY <1>6, <1>a DEF Waits
  <2>2. CASE i = 1
    BY <1>2, <2>1, <2>2 DEF task
  <2>3. CASE i # 1
    <3>1. i - 1 \in DOMAIN Tail(tasks) /\ Tail(tasks)[i - 1] = tasks[i]
      BY <1>2, <2>1, <2>3
    <3>2. QED
      BY <1>4, <2>1, <3>1 DEF Waits
  <2>4. QED
    BY <2>2, <2>3
<1>7. /\ w.lua.presQueued => Waits(w, "present") \/ (task.kind = "present" /\ ~task.stale)
      /\ w.lua.locQueued => Waits(w, "locale") \/ (task.kind = "locale" /\ ~task.stale)
      /\ w.lua.recQueued => Waits(w, "cue") \/ (task.kind = "cue" /\ ~task.stale)
  BY <1>a, <1>4, <1>6 DEF Good, FlagsAnswered
<1>8. lua.active /\ lua.hub => hub # "off"
  BY DEF NoticeInv, Agrees
<1>u. UNCHANGED <<hub, loading, settings>>
  BY DEF GameThread, engine
\* It suffices that the task moves from the scene without it.
<1>m. ASSUME Good(t), Moves(w, t, loading), loading => t.lua.loading \/ t.told.blind,
             t.lua.active /\ t.lua.hub => hub # "off"
      PROVE  NoticeInv' /\ Timely /\ Remembered
  BY <1>1, <1>5, <1>a, <1>m, <1>u, MovesEnd, MovesTwice
<1>b. ASSUME Good(t), Brings(w, t), (t.lua.active /\ t.lua.hub) => hub # "off"
      PROVE  NoticeInv' /\ Timely /\ Remembered
  BY <1>5, <1>a, <1>b, <1>m, BringsMoves
<1>9. CASE task.stale
  <2>1. Good(w)
    BY <1>4, <1>5, <1>7, <1>9 DEF Good, FlagsAnswered
  <2>2. t \in RunStale(w, task)
    BY <1>1, <1>9 DEF Run
  <2>3. CASE t = w
    BY <1>4, <1>8, <1>b, <2>1, <2>3 DEF Brings
  <2>4. CASE t = [w EXCEPT !.lua.recQueued = FALSE]
    <3>1. /\ w.lua.presQueued => Waits(w, "present")
          /\ w.lua.locQueued => Waits(w, "locale")
          /\ t.lua.presQueued = w.lua.presQueued /\ t.lua.locQueued = w.lua.locQueued
          /\ ~t.lua.recQueued
      BY <1>4, <1>7, <1>9, <2>4 DEF SceneSet, SceneRecord, Fields
    <3>2. Good(t) /\ Brings(w, t) /\ t.lua.hub = w.lua.hub
      BY <1>4, <1>5, <2>4, <3>1, UnqueuedGood
    <3>3. QED
      BY <1>4, <1>8, <1>b, <3>2 DEF Brings
  <2>5. QED
    BY <2>2, <2>3, <2>4 DEF RunStale
<1>10. CASE ~task.stale /\ task.kind \in {"map", "loading", "notice"}
  <2>1. Good(w)
    BY <1>4, <1>5, <1>7, <1>10 DEF Good, FlagsAnswered
  <2>2. CASE task.kind = "loading"
    <3>1. t \in RefreshLoadingScreenState(w)
      BY <1>1, <1>10, <2>2 DEF Run
    <3>2. /\ Good(t) /\ Moves(w, t, loading) /\ (loading => t.lua.loading \/ t.told.blind)
          /\ t.lua.active = w.lua.active /\ t.lua.hub = w.lua.hub
      BY <1>a, <1>5, <2>1, <3>1, RefreshLoadingGood
    <3>3. QED
      BY <1>4, <1>8, <1>m, <3>2
  <2>3. CASE task.kind = "notice"
    <3>1. t \in RunNotice(w)
      BY <1>1, <1>10, <2>3 DEF Run
    <3>2. /\ Good(t) /\ Moves(w, t, loading) /\ (loading => t.lua.loading \/ t.told.blind)
          /\ t = w \/ (w.lua.active /\ w.lua.hub)
      BY <1>a, <1>5, <2>1, <3>1, RunNoticeGood
    <3>3. QED
      BY <1>4, <1>8, <1>m, <3>2
  <2>4. CASE task.kind = "map"
    <3>1. PICK x \in RefreshLoadingScreenState(w) : t \in RefreshHomeHubState(x)
      BY <1>1, <1>10, <2>4 DEF Run
    <3>2. /\ Good(x) /\ Moves(w, x, loading) /\ (loading => x.lua.loading \/ x.told.blind)
          /\ x.lua.active = w.lua.active /\ x.lua.hub = w.lua.hub
      BY <1>a, <1>5, <2>1, RefreshLoadingGood
    <3>a. CASE t \in Raises(x)
      <4>1. Good(t) /\ t.lua = x.lua /\ t.told = x.told
        BY <3>2, <3>a, RaisesGood
      <4>2. Moves(w, t, loading)
        BY <3>2, <4>1 DEF Moves
      <4>3. QED
        BY <1>4, <1>8, <1>m, <3>2, <4>1, <4>2
    <3>3. CASE hub = "on" /\ t \notin Raises(x)
      <4>1. t \in BeginHomeHubShowing(x)
        BY <3>1, <3>3 DEF RefreshHomeHubState
      <4>2. Good(t) /\ Moves(x, t, loading) /\ (loading => t.lua.loading \/ t.told.blind)
        BY <1>a, <3>2, <4>1, BeginGood
      <4>3. QED
        BY <1>m, <3>2, <3>3, <4>2, MovesTwice
    <3>4. CASE hub = "in" /\ t \notin Raises(x)
      <4>1. t \in PrepareHomeHub(x)
        BY <3>1, <3>4 DEF RefreshHomeHubState
      <4>2. Good(t) /\ Moves(x, t, loading) /\ (loading => t.lua.loading \/ t.told.blind)
        BY <1>a, <3>2, <4>1, PrepareGood, CalmMoves
      <4>3. QED
        BY <1>m, <3>2, <3>4, <4>2, MovesTwice
    <3>5. CASE hub \notin {"on", "in"} /\ t \notin Raises(x)
      <4>1. t = x
        BY <3>1, <3>5 DEF RefreshHomeHubState
      <4>2. QED
        BY <1>4, <1>8, <1>m, <3>2, <4>1
    <3>6. QED
      BY <3>a, <3>3, <3>4, <3>5
  <2>5. QED
    BY <1>10, <2>2, <2>3, <2>4
<1>11. CASE ~task.stale /\ task.kind = "present"
  <2> DEFINE over == [w EXCEPT !.lua.presQueued = FALSE]
  <2>1. t \in TryShowPending(over)
    BY <1>1, <1>11 DEF Run
  <2>2. /\ over.lua.locQueued = w.lua.locQueued /\ over.lua.recQueued = w.lua.recQueued
        /\ ~over.lua.presQueued
    BY <1>4 DEF SceneSet, SceneRecord, Fields
  <2>3. Good(over) /\ Brings(w, over) /\ over.lua.hub = w.lua.hub
    BY <1>4, <1>5, <1>7, <1>11, <2>2, UnqueuedGood
  <2> HIDE DEF over
  <2>4. Good(t) /\ Brings(over, t) /\ (t = over \/ over.lua.hub)
    BY <2>1, <2>3, TryShowGood
  <2>5. t.lua.active = w.lua.active /\ (t.lua.hub => w.lua.hub)
    BY <2>3, <2>4 DEF Brings
  <2>6. QED
    BY <1>4, <1>8, <1>b, <2>3, <2>4, <2>5, BringsTwice
<1>12. CASE ~task.stale /\ task.kind = "locale"
  <2> DEFINE over == [w EXCEPT !.lua.locQueued = FALSE]
  <2>1. t \in RunLocale(w, task.version)
    BY <1>1, <1>12 DEF Run
  <2>2. /\ over.lua.presQueued = w.lua.presQueued /\ over.lua.recQueued = w.lua.recQueued
        /\ ~over.lua.locQueued
    BY <1>4 DEF SceneSet, SceneRecord, Fields
  <2>3. /\ Good(over) /\ Brings(w, over) /\ over.lua.hub = w.lua.hub
        /\ over.lua.visible = w.lua.visible
    BY <1>4, <1>5, <1>7, <1>12, <2>2, UnqueuedGood
  <2>a. over.lua.widget = w.lua.widget
    BY <1>4 DEF SceneSet, SceneRecord, Fields
  <2>4. \/ t = over
        \/ /\ w.lua.visible = task.version /\ w.lua.widget
           /\ t \in UNION {IF x.ok THEN ApplyReleaseLink(x, task.version) ELSE {x} :
                           x \in ApplyLocalizedText(over, task.version)}
    BY <2>1 DEF RunLocale
  <2> HIDE DEF over
  <2>5. CASE t = over
    BY <1>4, <1>8, <1>b, <2>3, <2>5 DEF Brings
  <2>6. CASE t # over
    <3>1. Good(t) /\ Calm(over, t) /\ t.lua.hub = over.lua.hub
      BY <2>3, <2>a, <2>4, <2>6, RetextGood
    <3>2. Brings(w, t)
      BY <2>3, <3>1, CalmBrings, BringsTwice
    <3>3. QED
      BY <1>4, <1>8, <1>b, <2>3, <3>1, <3>2 DEF Brings
  <2>7. QED
    BY <2>5, <2>6
<1>13. CASE ~task.stale /\ task.kind = "cue"
  <2> DEFINE over == [w EXCEPT !.lua.recQueued = FALSE]
  <2>1. t \in RunCueRecovery(w, task.version)
    BY <1>1, <1>13 DEF Run
  <2>2. /\ over.lua.presQueued = w.lua.presQueued /\ over.lua.locQueued = w.lua.locQueued
        /\ ~over.lua.recQueued
    BY <1>4 DEF SceneSet, SceneRecord, Fields
  <2>3. Good(over) /\ Brings(w, over) /\ over.lua.hub = w.lua.hub
    BY <1>4, <1>5, <1>7, <1>13, <2>2, UnqueuedGood
  <2>4. \/ t = over
        \/ /\ w.lua.active /\ w.lua.hub
           /\ t \in UNION {IF ~x.ok THEN {x}
                           ELSE UNION {TryPlayPendingCue(u) : u \in RestoreVisiblePresentation(x)} :
                           x \in PrepareHomeHub(over)}
    BY <2>1 DEF RunCueRecovery
  <2> HIDE DEF over
  <2>5. CASE t = over
    BY <1>4, <1>8, <1>b, <2>3, <2>5 DEF Brings
  <2>6. CASE t # over
    BY <1>4, <1>8, <1>b, <2>3, <2>4, <2>6, RetryGood, BringsTwice
  <2>7. QED
    BY <2>5, <2>6
<1>14. QED
  BY <1>3, <1>9, <1>10, <1>11, <1>12, <1>13 DEF Task

----------------------------------------------------------------------------
(* Callbacks *)

\* A change that concerns neither the history nor the flags.
LEMMA FieldsGood ==
  ASSUME NEW s, Good(s), NEW t \in SceneSet, t.tasks = s.tasks,
         t.told.shown = s.told.shown, t.told.cue = s.told.cue,
         t.lua.notified = s.lua.notified, t.lua.cued = s.lua.cued,
         t.lua.presQueued = s.lua.presQueued, t.lua.locQueued = s.lua.locQueued,
         t.lua.recQueued = s.lua.recQueued
  PROVE  /\ OnceIn(t) /\ FlagsAnswered(t)
         /\ Faithful(t) => Good(t)
BY DEF Good, OnceIn, FlagsAnswered, Waits

LEMMA ReportStep ==
  ASSUME NoticeInv, NEW v \in Version, OnUpdateAvailable(v)
  PROVE  NoticeInv' /\ Timely /\ Remembered
<1> DEFINE w == [Scene EXCEPT !.lua.pending = v]
           flagged == [w EXCEPT !.lua.presQueued = TRUE]
<1>a. /\ Good(Scene) /\ Scene \in SceneSet /\ Scene.lua = lua /\ Scene.told = told
      /\ loading \in BOOLEAN /\ settings \in BOOLEAN /\ hub \in {"off", "in", "on", "closing"}
      /\ loading => Scene.lua.loading \/ Scene.told.blind
  BY SceneFacts
<1>b. UNCHANGED <<hub, loading, settings>>
  BY DEF OnUpdateAvailable, engine
<1>c. lua.settings = settings /\ (lua.active /\ lua.hub => hub # "off")
  BY DEF NoticeInv, Agrees
<1>1. PICK t \in (IF v \in lua.notified THEN {Scene} ELSE QueuePresentationAttempt(w)) :
        /\ lua' = t.lua /\ card' = t.card /\ tasks' = t.tasks /\ told' = t.told
        /\ trouble' = t.trouble
  BY DEF OnUpdateAvailable, Ends
<1>2. /\ w \in SceneSet /\ w.told = told /\ w.card = Scene.card /\ w.tasks = Scene.tasks
      /\ w.lua = [lua EXCEPT !.pending = v]
  BY <1>a DEF SceneSet, SceneRecord, Fields, Version0
<1>3. /\ w.lua.active = lua.active /\ w.lua.settings = lua.settings
      /\ w.lua.loading = lua.loading /\ w.lua.hub = lua.hub /\ w.lua.widget = lua.widget
      /\ w.lua.notified = lua.notified /\ w.lua.pending = v
      /\ w.lua.visible = lua.visible /\ w.lua.presQueued = lua.presQueued
      /\ w.lua.locQueued = lua.locQueued /\ w.lua.recQueued = lua.recQueued
      /\ w.lua.cued = lua.cued
  BY <1>a, <1>2 DEF SceneSet, SceneRecord, Fields
<1> HIDE DEF w
<1>4. Good(w)
  <2>1. Faithful(w)
    BY <1>a, <1>2, <1>3, SameFaith DEF Good
  <2>2. QED
    BY <1>a, <1>2, <1>3, <2>1, FieldsGood
<1>5. /\ flagged \in SceneSet /\ flagged.tasks = w.tasks /\ flagged.told = w.told
      /\ flagged.card = w.card /\ flagged.lua = [w.lua EXCEPT !.presQueued = TRUE]
  BY <1>2 DEF SceneSet, SceneRecord, Fields
<1>6. /\ flagged.lua.active = w.lua.active /\ flagged.lua.settings = w.lua.settings
      /\ flagged.lua.loading = w.lua.loading /\ flagged.lua.hub = w.lua.hub
      /\ flagged.lua.widget = w.lua.widget
      /\ flagged.lua.notified = w.lua.notified /\ flagged.lua.pending = w.lua.pending
      /\ flagged.lua.visible = w.lua.visible
      /\ flagged.lua.locQueued = w.lua.locQueued /\ flagged.lua.recQueued = w.lua.recQueued
      /\ flagged.lua.cued = w.lua.cued
  BY <1>2, <1>5 DEF SceneSet, SceneRecord, Fields
<1> HIDE DEF flagged
<1>7. OnceIn(flagged) /\ Faithful(flagged)
  BY <1>4, <1>5, <1>6, SameFaith DEF Good, OnceIn
<1>8. t = Scene \/ t = w \/ t \in Dispatch(w, flagged, "present", None)
  BY <1>1 DEF QueuePresentationAttempt, flagged
<1>9. CASE t = Scene
  BY <1>1, <1>a, <1>b, <1>c, <1>9, EndsGood DEF Remembers
<1>10. CASE t # Scene
  <2>1. Good(t) /\ (t.lua = w.lua \/ t.lua = flagged.lua) /\ t.told = told
    <3>1. CASE t = w
      BY <1>2, <1>4, <3>1
    <3>2. CASE t \in Dispatch(w, flagged, "present", None)
      <4>1. "present" \in TaskKind /\ None \in Version0
        BY DEF TaskKind, Version0
      <4>2. /\ Good(t)
            /\ \/ t.lua = w.lua /\ t.told = w.told
               \/ t.lua = flagged.lua /\ t.told = flagged.told
        <5>1. /\ flagged.lua.locQueued => w.lua.locQueued
              /\ flagged.lua.recQueued => w.lua.recQueued
          BY <1>6
        <5>2. flagged \in SceneSet /\ flagged.tasks = w.tasks
          BY <1>5
        <5>3. QED
          BY <1>4, <1>7, <3>2, <4>1, <5>1, <5>2, DispatchGood
      <4>3. QED
        BY <1>2, <1>5, <4>2
    <3>3. QED
      BY <1>8, <1>10, <3>1, <3>2
  <2>2. /\ t.lua.pending = v /\ v # None /\ t.lua.active = lua.active /\ t.lua.hub = lua.hub
        /\ t.lua.settings = settings /\ t.lua.loading = lua.loading
    BY <1>3, <1>6, <1>c, <2>1, NoticeConstants
  <2>3. QED
    BY <1>1, <1>a, <1>b, <1>c, <2>1, <2>2, EndsGood DEF Remembers
<1>11. QED
  BY <1>9, <1>10

\* The hub's steps, a new map and the loading screen's animation.
LEMMA HubStep ==
  ASSUME NoticeInv,
         HubAnimatesIn \/ HubShows \/ HubClosesSelf \/ HubHidden \/ MapLoaded \/ LoadingAnimates
  PROVE  NoticeInv' /\ Timely /\ Remembered
<1>a. /\ Good(Scene) /\ Scene \in SceneSet /\ Scene.lua = lua /\ Scene.told = told
      /\ loading \in BOOLEAN /\ settings \in BOOLEAN /\ hub \in {"off", "in", "on", "closing"}
      /\ loading => Scene.lua.loading \/ Scene.told.blind
  BY SceneFacts
<1>b. lua.settings = settings /\ (lua.active /\ lua.hub => hub # "off")
  BY DEF NoticeInv, Agrees
<1>1. CASE HubAnimatesIn
  <2>1. PICK t \in PrepareHomeHub(Scene) :
          /\ lua' = t.lua /\ card' = t.card /\ tasks' = t.tasks /\ told' = t.told
          /\ trouble' = t.trouble
    BY <1>1 DEF HubAnimatesIn, Ends
  <2>2. Good(t) /\ Moves(Scene, t, loading) /\ (loading => t.lua.loading \/ t.told.blind)
    BY <1>a, PrepareGood, CalmMoves
  <2>3. hub' = "in" /\ loading' = loading /\ settings' = settings
    BY <1>1 DEF HubAnimatesIn
  <2>4. QED
    BY <1>a, <2>1, <2>2, <2>3, MovesEnd
<1>2. CASE HubShows
  <2>1. PICK t \in BeginHomeHubShowing(Scene) :
          /\ lua' = t.lua /\ card' = t.card /\ tasks' = t.tasks /\ told' = t.told
          /\ trouble' = t.trouble
    BY <1>2 DEF HubShows, Ends
  <2>2. Good(t) /\ Moves(Scene, t, loading) /\ (loading => t.lua.loading \/ t.told.blind)
    BY <1>a, BeginGood
  <2>3. hub' = "on" /\ loading' = loading /\ settings' = settings
    BY <1>2 DEF HubShows
  <2>4. QED
    BY <1>a, <2>1, <2>2, <2>3, MovesEnd
<1>3. CASE HubClosesSelf \/ HubHidden
  <2>1. PICK t \in HideForHomeHubExit(Scene) :
          /\ lua' = t.lua /\ card' = t.card /\ tasks' = t.tasks /\ told' = t.told
          /\ trouble' = t.trouble
    BY <1>3 DEF HubClosesSelf, HubHidden, Ends
  <2>2. /\ Good(t) /\ Remembers(Scene, t) /\ t.told.cue = told.cue /\ ~t.lua.active
        /\ t.lua.settings = lua.settings /\ t.lua.loading = lua.loading
        /\ t.told.blind = told.blind
    BY <1>a, ExitGood
  <2>3. hub' \in {"off", "closing"} /\ loading' = loading /\ settings' = settings
    BY <1>3 DEF HubClosesSelf, HubHidden
  <2>4. QED
    BY <1>a, <1>b, <2>1, <2>2, <2>3, EndsGood
<1>4. CASE MapLoaded
  <2> DEFINE s == Reset(Scene)
  <2>1. PICK t \in Dispatch(s, s, "map", None) :
          /\ lua' = t.lua /\ card' = t.card /\ tasks' = t.tasks /\ told' = t.told
          /\ trouble' = t.trouble
    BY <1>4 DEF MapLoaded, Ends
  <2>2. /\ Good(s) /\ s.told.cue = told.cue
        /\ s.lua.pending = lua.pending /\ s.lua.notified = lua.notified
        /\ ~s.lua.active /\ ~s.lua.settings /\ s.lua.loading
    BY <1>a, ResetGood
  <2> HIDE DEF s
  <2>3. Good(t) /\ t.lua = s.lua /\ t.told = s.told
    BY <2>1, <2>2, DispatchGood DEF Good, TaskKind, Version0
  <2>4. settings' = FALSE /\ hub' = hub /\ loading' = loading
    BY <1>4 DEF MapLoaded
  <2>5. s.lua.settings = settings'
    BY <2>2, <2>4 DEF Good, SceneSet, SceneRecord, Fields
  <2>6. Remembers(Scene, t)
    BY <1>a, <2>2, <2>3 DEF Remembers
  <2>7. QED
    BY <1>a, <2>1, <2>2, <2>3, <2>4, <2>5, <2>6, EndsGood
<1>5. CASE LoadingAnimates
  <2> DEFINE w == [Scene EXCEPT !.told.blind = FALSE]
  <2>1. PICK t \in LoadingKnown(w, loading') :
          /\ lua' = t.lua /\ card' = t.card /\ tasks' = t.tasks /\ told' = t.told
          /\ trouble' = t.trouble
    BY <1>5 DEF LoadingAnimates, Ends
  <2>2. loading' \in BOOLEAN /\ hub' = hub /\ settings' = settings
    BY <1>5, <1>a DEF LoadingAnimates
  <2>3. /\ w \in SceneSet /\ w.lua = lua /\ w.card = Scene.card /\ w.tasks = Scene.tasks
        /\ w.told = [told EXCEPT !.blind = FALSE]
    BY <1>a DEF SceneSet, SceneRecord, Told
  <2> HIDE DEF w
  <2>4. w.told.cue = told.cue /\ w.told.shown = told.shown /\ w.told.lost = told.lost
    BY <1>a, <2>3 DEF SceneSet, SceneRecord, Told
  <2>5. Good(w)
    BY <1>a, <2>3, <2>4, SameFaith DEF Good, OnceIn, FlagsAnswered, Waits
  <2>6. /\ Good(t) /\ Moves(w, t, loading') /\ t.lua.loading = loading'
        /\ t.lua.active = lua.active /\ t.lua.hub = lua.hub
    BY <2>1, <2>2, <2>3, <2>5, LoadingGood
  <2>7. /\ Remembers(Scene, t) /\ t.lua.settings = lua.settings
        /\ t.told.cue # told.cue => t.lua.active /\ t.lua.hub /\ (loading' => t.told.blind)
    BY <1>a, <2>3, <2>4, <2>6 DEF Moves, Remembers
  <2>8. QED
    BY <1>a, <1>b, <2>1, <2>2, <2>6, <2>7, EndsGood
<1>6. QED
  BY <1>1, <1>2, <1>3, <1>4, <1>5

\* Something comes to cover the hub, or no longer does.
LEMMA CoverStep ==
  ASSUME NoticeInv, SettingsChanges \/ LoadingConstructed
  PROVE  NoticeInv' /\ Timely /\ Remembered
<1>a. /\ Good(Scene) /\ Scene \in SceneSet /\ Scene.lua = lua /\ Scene.told = told
      /\ loading \in BOOLEAN /\ settings \in BOOLEAN /\ hub \in {"off", "in", "on", "closing"}
      /\ loading => Scene.lua.loading \/ Scene.told.blind
  BY SceneFacts
<1>b. lua.settings = settings /\ (lua.active /\ lua.hub => hub # "off")
  BY DEF NoticeInv, Agrees
\* The scene with the changed field, from which the link is set anew.
<1>w. ASSUME NEW w \in SceneSet, w.card = Scene.card, w.tasks = Scene.tasks,
             w.told.shown = told.shown, w.told.cue = told.cue, w.told.lost = told.lost,
             w.lua.active = lua.active, w.lua.hub = lua.hub, w.lua.widget = lua.widget,
             w.lua.notified = lua.notified, w.lua.pending = lua.pending,
             w.lua.visible = lua.visible, w.lua.presQueued = lua.presQueued,
             w.lua.locQueued = lua.locQueued, w.lua.recQueued = lua.recQueued,
             w.lua.cued = lua.cued, NEW t \in RefreshVisibleReleaseLink(w)
      PROVE  /\ Good(t) /\ t.told.cue = told.cue /\ Remembers(Scene, t)
             /\ t.lua.settings = w.lua.settings /\ t.lua.loading = w.lua.loading
             /\ t.lua.active = lua.active /\ t.lua.hub = lua.hub
             /\ t.told.blind = w.told.blind
  <2>1. OnceIn(w) /\ FlagsAnswered(w)
    BY <1>a, <1>w, FieldsGood
  <2>2. Trusty(w)
    BY <1>a, <1>w DEF Good, Faithful, Trusty
  <2>3. Good(t) /\ Calm(w, t) /\ t.lua.hub = w.lua.hub
    BY <1>w, <2>1, <2>2, RefreshLinkGood
  <2>4. QED
    BY <1>a, <1>w, <2>3 DEF Calm, Remembers
<1>1. CASE SettingsChanges
  <2> DEFINE w == [Scene EXCEPT !.lua.settings = settings']
  <2>1. settings' = ~settings /\ hub' = hub /\ loading' = loading
    BY <1>1 DEF SettingsChanges
  <2>2. PICK t \in RefreshVisibleReleaseLink(w) :
          /\ lua' = t.lua /\ card' = t.card /\ tasks' = t.tasks /\ told' = t.told
          /\ trouble' = t.trouble
    BY <1>1, <1>a, <1>b, <2>1 DEF SettingsChanges, Ends
  <2>3. settings' \in BOOLEAN
    BY <1>a, <2>1
  <2>4. /\ w \in SceneSet /\ w.told = told /\ w.card = Scene.card /\ w.tasks = Scene.tasks
        /\ w.lua = [lua EXCEPT !.settings = settings']
    BY <1>a, <2>3 DEF SceneSet, SceneRecord, Fields
  <2> HIDE DEF w
  <2>5. /\ w.lua.active = lua.active /\ w.lua.hub = lua.hub /\ w.lua.widget = lua.widget
        /\ w.lua.notified = lua.notified /\ w.lua.pending = lua.pending
        /\ w.lua.visible = lua.visible /\ w.lua.presQueued = lua.presQueued
        /\ w.lua.locQueued = lua.locQueued /\ w.lua.recQueued = lua.recQueued
        /\ w.lua.cued = lua.cued
        /\ w.lua.settings = settings' /\ w.lua.loading = lua.loading
    BY <1>a, <2>4 DEF SceneSet, SceneRecord, Fields
  <2>6. /\ Good(t) /\ t.told.cue = told.cue /\ Remembers(Scene, t)
        /\ t.lua.settings = settings' /\ t.lua.loading = lua.loading
        /\ t.lua.active = lua.active /\ t.lua.hub = lua.hub /\ t.told.blind = told.blind
    BY <1>w, <2>4, <2>5
  <2>7. QED
    BY <1>a, <1>b, <2>1, <2>2, <2>3, <2>6, EndsGood
<1>2. CASE LoadingConstructed
  <2> DEFINE w == [Scene EXCEPT !.lua.loading = TRUE, !.told.blind = FALSE]
  <2>1. PICK x \in RefreshVisibleReleaseLink(w) : \E t \in Dispatch(x, x, "loading", None) :
          /\ lua' = t.lua /\ card' = t.card /\ tasks' = t.tasks /\ told' = t.told
          /\ trouble' = t.trouble
    BY <1>2 DEF LoadingConstructed, Ends
  <2>2. PICK t \in Dispatch(x, x, "loading", None) :
          /\ lua' = t.lua /\ card' = t.card /\ tasks' = t.tasks /\ told' = t.told
          /\ trouble' = t.trouble
    BY <2>1
  <2>3. UNCHANGED <<hub, loading, settings>>
    BY <1>2 DEF LoadingConstructed, engine
  <2>4. /\ w \in SceneSet /\ w.card = Scene.card /\ w.tasks = Scene.tasks
        /\ w.told = [told EXCEPT !.blind = FALSE] /\ w.lua = [lua EXCEPT !.loading = TRUE]
    BY <1>a DEF SceneSet, SceneRecord, Fields, Told
  <2> HIDE DEF w
  <2>a. w.told.cue = told.cue /\ w.told.shown = told.shown /\ w.told.lost = told.lost
    BY <1>a, <2>4 DEF SceneSet, SceneRecord, Told
  <2>5. /\ w.lua.active = lua.active /\ w.lua.hub = lua.hub /\ w.lua.widget = lua.widget
        /\ w.lua.notified = lua.notified /\ w.lua.pending = lua.pending
        /\ w.lua.visible = lua.visible /\ w.lua.presQueued = lua.presQueued
        /\ w.lua.locQueued = lua.locQueued /\ w.lua.recQueued = lua.recQueued
        /\ w.lua.cued = lua.cued
        /\ w.lua.settings = lua.settings /\ w.lua.loading
    BY <1>a, <2>4 DEF SceneSet, SceneRecord, Fields
  <2>6. /\ Good(x) /\ x.told.cue = told.cue /\ Remembers(Scene, x)
        /\ x.lua.settings = lua.settings /\ x.lua.loading
        /\ x.lua.active = lua.active /\ x.lua.hub = lua.hub
    BY <1>w, <2>4, <2>a, <2>5, ZenonT(40)
  <2>7. "loading" \in TaskKind /\ None \in Version0 /\ x \in SceneSet
    BY <2>6 DEF TaskKind, Version0, Good
  <2>8. Good(t) /\ t.lua = x.lua /\ t.told = x.told
    BY <2>2, <2>6, <2>7, DispatchGood DEF Good
  <2>9. Remembers(Scene, t)
    BY <2>6, <2>8 DEF Remembers
  <2>10. QED
    BY <1>a, <1>b, <2>2, <2>3, <2>6, <2>8, <2>9, EndsGood
<1>3. QED
  BY <1>1, <1>2

\* A new card is known at once and collapsed; a new language is for a later turn.
LEMMA QueueStep ==
  ASSUME NoticeInv, NoticeConstructed \/ LocaleChanges
  PROVE  NoticeInv' /\ Timely /\ Remembered
<1>a. /\ Good(Scene) /\ Scene \in SceneSet /\ Scene.lua = lua /\ Scene.told = told
      /\ loading \in BOOLEAN /\ settings \in BOOLEAN /\ hub \in {"off", "in", "on", "closing"}
      /\ loading => Scene.lua.loading \/ Scene.told.blind
  BY SceneFacts
<1>b. lua.settings = settings /\ (lua.active /\ lua.hub => hub # "off")
  BY DEF NoticeInv, Agrees
<1>1. CASE NoticeConstructed
  <2> DEFINE w == [Scene EXCEPT !.card = NewCard, !.lua.widget = TRUE]
  <2>1. PICK t \in Dispatch(w, w, "notice", None) :
          /\ lua' = t.lua /\ card' = t.card /\ tasks' = t.tasks /\ told' = t.told
          /\ trouble' = t.trouble
    BY <1>1 DEF NoticeConstructed, Ends
  <2>2. UNCHANGED <<hub, loading, settings>>
    BY <1>1 DEF NoticeConstructed, engine
  <2>3. NewCard \in Card /\ NewCard.there /\ ~NewCard.inHost
    BY DEF NewCard, NoCard, Card, Version0
  <2>4. /\ w \in SceneSet /\ w.told = told /\ w.card = NewCard /\ w.tasks = Scene.tasks
        /\ w.lua = [lua EXCEPT !.widget = TRUE]
    BY <1>a, <2>3 DEF SceneSet, SceneRecord, Fields
  <2> HIDE DEF w
  <2>5. /\ w.lua.active = lua.active /\ w.lua.hub = lua.hub /\ w.lua.widget
        /\ w.lua.notified = lua.notified /\ w.lua.pending = lua.pending
        /\ w.lua.visible = lua.visible /\ w.lua.presQueued = lua.presQueued
        /\ w.lua.locQueued = lua.locQueued /\ w.lua.recQueued = lua.recQueued
        /\ w.lua.cued = lua.cued
        /\ w.lua.settings = lua.settings /\ w.lua.loading = lua.loading
    BY <1>a, <2>4 DEF SceneSet, SceneRecord, Fields
  <2>6. Faithful(w)
    BY <1>a, <2>3, <2>4, <2>5 DEF Good, Faithful, Trusty
  <2>7. Good(w)
    BY <1>a, <2>4, <2>5, <2>6, FieldsGood
  <2>8. "notice" \in TaskKind /\ None \in Version0
    BY DEF TaskKind, Version0
  <2>9. Good(t) /\ t.lua = w.lua /\ t.told = w.told
    BY <2>1, <2>4, <2>7, <2>8, DispatchGood DEF Good
  <2>10. Remembers(Scene, t)
    BY <1>a, <2>5, <2>9 DEF Remembers
  <2>11. QED
    BY <1>a, <1>b, <2>1, <2>2, <2>4, <2>5, <2>9, <2>10, EndsGood
<1>2. CASE LocaleChanges
  <2> DEFINE flagged == [Scene EXCEPT !.lua.locQueued = TRUE]
  <2>1. PICK t \in Dispatch(Scene, flagged, "locale", lua.visible) :
          /\ lua' = t.lua /\ card' = t.card /\ tasks' = t.tasks /\ told' = t.told
          /\ trouble' = t.trouble
    BY <1>2 DEF LocaleChanges, Ends
  <2>2. UNCHANGED <<hub, loading, settings>>
    BY <1>2 DEF LocaleChanges, engine
  <2>3. /\ flagged \in SceneSet /\ flagged.told = told /\ flagged.card = Scene.card
        /\ flagged.tasks = Scene.tasks /\ flagged.lua = [lua EXCEPT !.locQueued = TRUE]
    BY <1>a DEF SceneSet, SceneRecord, Fields
  <2> HIDE DEF flagged
  <2>4. /\ flagged.lua.active = lua.active /\ flagged.lua.hub = lua.hub
        /\ flagged.lua.widget = lua.widget
        /\ flagged.lua.notified = lua.notified /\ flagged.lua.pending = lua.pending
        /\ flagged.lua.visible = lua.visible /\ flagged.lua.presQueued = lua.presQueued
        /\ flagged.lua.recQueued = lua.recQueued /\ flagged.lua.cued = lua.cued
        /\ flagged.lua.settings = lua.settings /\ flagged.lua.loading = lua.loading
    BY <1>a, <2>3 DEF SceneSet, SceneRecord, Fields
  <2>5. OnceIn(flagged) /\ Faithful(flagged)
    BY <1>a, <2>3, <2>4, SameFaith DEF Good, OnceIn
  <2>6. "locale" \in TaskKind /\ lua.visible \in Version0
    BY <1>a DEF TaskKind, SceneSet, SceneRecord, Fields
  <2>7. /\ Good(t)
        /\ \/ t.lua = lua /\ t.told = told
           \/ t.lua = flagged.lua /\ t.told = flagged.told
    <3>1. /\ flagged.lua.presQueued => Scene.lua.presQueued
          /\ flagged.lua.recQueued => Scene.lua.recQueued
      BY <1>a, <2>4
    <3>2. flagged \in SceneSet /\ flagged.tasks = Scene.tasks
      BY <2>3
    <3>3. /\ Good(t)
          /\ \/ t.lua = Scene.lua /\ t.told = Scene.told
             \/ t.lua = flagged.lua /\ t.told = flagged.told
      BY <1>a, <2>1, <2>5, <2>6, <3>1, <3>2, DispatchGood
    <3>4. QED
      BY <1>a, <3>3
  <2>8. Remembers(Scene, t)
    BY <1>a, <2>4, <2>7 DEF Remembers
  <2>9. QED
    BY <1>a, <1>b, <2>1, <2>2, <2>3, <2>4, <2>7, <2>8, EndsGood
<1>3. QED
  BY <1>1, <1>2

\* What the engine does without a word only takes from the card or the hub.
LEMMA SilentStep ==
  ASSUME NoticeInv, Silently
  PROVE  NoticeInv' /\ Timely /\ Remembered
<1>a. /\ Good(Scene) /\ Scene \in SceneSet /\ Scene.lua = lua /\ Scene.told = told
      /\ Scene.tasks = tasks
      /\ loading \in BOOLEAN /\ settings \in BOOLEAN /\ hub \in {"off", "in", "on", "closing"}
      /\ loading => Scene.lua.loading \/ Scene.told.blind
  BY SceneFacts
<1>b. lua.settings = settings /\ (lua.active /\ lua.hub => hub # "off")
  BY DEF NoticeInv, Agrees
<1>c. /\ Scene.card = card /\ Scene.trouble = trouble /\ card \in Card /\ lua \in Fields
      /\ told \in Told
      /\ (card.inHost \/ lua.widget => card.there)
  BY <1>a DEF Scene, SceneSet, SceneRecord
\* A scene that differs in the card and the references only.
<1>w. ASSUME NEW cards \in Card, NEW fields \in Fields,
             cards.inHost \/ fields.widget => cards.there,
             \/ cards.up = card.up /\ cards.inHost = card.inHost /\ cards = card
             \/ ~cards.inHost,
             cards.there => fields.widget = lua.widget /\ cards.there = card.there,
             fields.active = lua.active, fields.settings = lua.settings,
             fields.loading = lua.loading, fields.notified = lua.notified,
             fields.pending = lua.pending, fields.visible = lua.visible,
             fields.presQueued = lua.presQueued, fields.locQueued = lua.locQueued,
             fields.recQueued = lua.recQueued, fields.cued = lua.cued,
             fields.hub => lua.hub /\ hub' = hub,
             NEW history \in Told, history.cue = told.cue, history.shown = told.shown,
             history.lost = told.lost, loading' => history.blind = told.blind,
             lua' = fields, card' = cards, tasks' = tasks, told' = history, trouble' = trouble,
             hub' \in {"off", "in", "on", "closing"}, loading' \in BOOLEAN,
             loading' => loading, settings' = settings
      PROVE  NoticeInv' /\ Timely /\ Remembered
  <2> DEFINE w == [Scene EXCEPT !.lua = fields, !.card = cards, !.told = history]
  <2>1. /\ w \in SceneSet /\ w.lua = fields /\ w.card = cards /\ w.told = history
        /\ w.tasks = tasks /\ w.trouble = trouble
    BY <1>a, <1>c, <1>w DEF SceneSet, SceneRecord
  <2> HIDE DEF w
  <2>2. Faithful(w)
    BY <1>a, <1>c, <1>w, <2>1 DEF Good, Faithful, Trusty, OpensOnly, Covered
  <2>3. Good(w)
    BY <1>a, <1>w, <2>1, <2>2, FieldsGood
  <2>4. Remembers(Scene, w)
    BY <1>a, <1>w, <2>1 DEF Remembers
  <2>5. w.lua.active /\ w.lua.hub => hub' # "off"
    BY <1>b, <1>w, <2>1
  <2>6. w.lua.settings = settings' /\ settings' \in BOOLEAN
        /\ (loading' => w.lua.loading \/ w.told.blind)
    BY <1>a, <1>b, <1>w, <2>1
  <2>7. QED
    BY <1>w, <2>1, <2>3, <2>4, <2>5, <2>6, EndsGood
<1>1. CASE CardDetached
  <2> DEFINE cards == [card EXCEPT !.inHost = FALSE]
  <2>1. cards \in Card /\ ~cards.inHost /\ cards.there = card.there
    BY <1>c DEF Card
  <2>2. /\ card' = cards /\ lua' = lua /\ tasks' = tasks /\ told' = told /\ trouble' = trouble
        /\ hub' = hub /\ loading' = loading /\ settings' = settings
    BY <1>1 DEF CardDetached, engine
  <2> HIDE DEF cards
  <2>3. QED
    BY <1>a, <1>c, <1>w, <2>1, <2>2
<1>2. CASE CardDestroyed
  <2> DEFINE fields == [lua EXCEPT !.widget = FALSE]
  <2>1. NoCard \in Card /\ ~NoCard.inHost /\ ~NoCard.there
    BY DEF NoCard, Card, Version0
  <2>2. /\ fields \in Fields /\ ~fields.widget
        /\ fields.active = lua.active /\ fields.settings = lua.settings
        /\ fields.loading = lua.loading /\ fields.notified = lua.notified
        /\ fields.pending = lua.pending /\ fields.visible = lua.visible
        /\ fields.presQueued = lua.presQueued /\ fields.locQueued = lua.locQueued
        /\ fields.recQueued = lua.recQueued /\ fields.cued = lua.cued
        /\ fields.hub = lua.hub
    BY <1>c DEF Fields
  <2>3. /\ card' = NoCard /\ lua' = fields /\ tasks' = tasks /\ told' = told
        /\ trouble' = trouble /\ hub' = hub /\ loading' = loading /\ settings' = settings
    BY <1>2 DEF CardDestroyed, engine
  <2> HIDE DEF fields
  <2>4. QED
    BY <1>a, <1>c, <1>w, <2>1, <2>2, <2>3
<1>3. CASE HubRebuilt
  <2> DEFINE cards == [card EXCEPT !.inHost = FALSE]
             fields == [lua EXCEPT !.hub = FALSE]
  <2>1. cards \in Card /\ ~cards.inHost /\ cards.there = card.there
    BY <1>c DEF Card
  <2>2. /\ fields \in Fields /\ ~fields.hub
        /\ fields.active = lua.active /\ fields.settings = lua.settings
        /\ fields.loading = lua.loading /\ fields.notified = lua.notified
        /\ fields.pending = lua.pending /\ fields.visible = lua.visible
        /\ fields.presQueued = lua.presQueued /\ fields.locQueued = lua.locQueued
        /\ fields.recQueued = lua.recQueued /\ fields.cued = lua.cued
        /\ fields.widget = lua.widget
    BY <1>c DEF Fields
  <2>3. /\ card' = cards /\ lua' = fields /\ tasks' = tasks /\ told' = told
        /\ trouble' = trouble /\ hub' = "off" /\ loading' = loading /\ settings' = settings
    BY <1>3 DEF HubRebuilt
  <2> HIDE DEF cards, fields
  <2>4. QED
    BY <1>a, <1>c, <1>w, <2>1, <2>2, <2>3
<1>4. CASE LoadingDestroyed
  <2> DEFINE history == [told EXCEPT !.blind = FALSE]
  <2>a. /\ history \in Told /\ history.cue = told.cue /\ history.shown = told.shown
        /\ history.lost = told.lost
    BY <1>c DEF Told
  <2>1. /\ card' = card /\ lua' = lua /\ tasks' = tasks /\ told' = history
        /\ trouble' = trouble /\ hub' = hub /\ loading' = FALSE /\ settings' = settings
    BY <1>4 DEF LoadingDestroyed
  <2> HIDE DEF history
  <2>2. QED
    BY <1>a, <1>c, <1>w, <2>a, <2>1
<1>5. QED
  BY <1>1, <1>2, <1>3, <1>4 DEF Silently

----------------------------------------------------------------------------
(* The theorems *)

LEMMA InitGood == Init => NoticeInv
<1> SUFFICES ASSUME Init
             PROVE  NoticeInv
  OBVIOUS
<1>0. NoCard \in Card /\ ~NoCard.inHost /\ NewCard \in Card /\ ~NewCard.inHost
  BY DEF NoCard, NewCard, Card, Version0
<1>1. lua \in Fields /\ told \in Told /\ trouble \in 0..MaxTrouble /\ card \in Card
  <2>1. lua \in Fields
    BY DEF Init, Fields, Version0
  <2>2. told \in Told /\ trouble \in 0..MaxTrouble
    BY NoticeConstants DEF Init, Told
  <2>3. QED
    BY <1>0, <2>1, <2>2 DEF Init
<1>2. tasks \in Seq(Task)
  <2>1. [kind |-> "map", version |-> None, stale |-> FALSE] \in Task
    BY DEF Task, Version0
  <2>2. QED
    BY <2>1 DEF Init
<1>3. ~lua.widget /\ ~card.inHost
  BY <1>0 DEF Init
<1>4. Scene \in SceneSet
  BY <1>1, <1>2, <1>3 DEF Scene, SceneSet, SceneRecord
<1>5. OnceIn(Scene) /\ FlagsAnswered(Scene) /\ Faithful(Scene)
  BY DEF Init, Scene, OnceIn, FlagsAnswered, Faithful, Trusty
<1>6. Agrees
  BY DEF Init, Agrees
<1>7. QED
  BY <1>4, <1>5, <1>6 DEF NoticeInv, Good

LEMMA NoticeStep ==
  NoticeInv /\ [Next]_vars => NoticeInv' /\ (Timely \/ UNCHANGED vars)
                                /\ (Remembered \/ UNCHANGED vars)
<1> SUFFICES ASSUME NoticeInv, [Next]_vars
             PROVE  /\ NoticeInv' /\ (Timely \/ UNCHANGED vars)
                    /\ (Remembered \/ UNCHANGED vars)
  OBVIOUS
<1>1. CASE UNCHANGED vars
  BY <1>1 DEF vars, NoticeInv, Good, OnceIn, FlagsAnswered, Waits, Faithful, Trusty, OpensOnly,
              Covered, Scene, SceneSet, SceneRecord, Agrees
<1>2. CASE Next
  BY <1>2, GameThreadStep, ReportStep, HubStep, CoverStep, QueueStep, SilentStep
     DEF Next, Callbacks
<1>3. QED
  BY <1>1, <1>2

LEMMA AlwaysGood == Spec => []NoticeInv
BY InitGood, NoticeStep, PTL DEF Spec

\* The types of the fields, the card, the queue and the history.
THEOREM NoticeTypes == Spec => []NoticeTypeOK
<1>1. NoticeInv => NoticeTypeOK
  <2> SUFFICES ASSUME NoticeInv
               PROVE  NoticeTypeOK
    OBVIOUS
  <2>1. Scene \in SceneRecord /\ Agrees
    BY DEF NoticeInv, Good, SceneSet
  <2>2. /\ lua \in Fields /\ card \in Card /\ tasks \in Seq(Task) /\ told \in Told
        /\ trouble \in 0..MaxTrouble
    BY <2>1 DEF Scene, SceneRecord
  <2>3. QED
    BY <2>1, <2>2 DEF NoticeTypeOK, Agrees, Told
<1>2. QED
  BY <1>1, AlwaysGood, PTL

\* A version is announced once and cued once, whatever is rebuilt, restored,
\* repeated or recovered (tryShowPending, tryPlayPendingCue).
THEOREM NoticeOnce == Spec => []AnnouncedOnce
<1>1. NoticeInv => AnnouncedOnce
  BY DEF NoticeInv, Good, OnceIn, Scene, AnnouncedOnce
<1>2. QED
  BY <1>1, AlwaysGood, PTL

\* A click opens the release that the card shows (applyReleaseLink), until failed
\* calls have cost the reference or both guards of the link.
THEOREM NoticeLink == Spec => []ClickOpensItsText
<1>1. NoticeInv => ClickOpensItsText
  BY DEF NoticeInv, Good, Faithful, Trusty, OpensOnly, Scene, ClickOpensItsText, Clickable, Held
<1>2. QED
  BY <1>1, AlwaysGood, PTL

\* Under settings it opens nothing, and under a loading screen only after a look for
\* it has failed.
THEOREM NoticeCovered == Spec => []CoveredTakesNoClick
<1>1. NoticeInv => CoveredTakesNoClick
  BY DEF NoticeInv, Good, Faithful, Trusty, OpensOnly, Covered, Agrees, Scene,
         CoveredTakesNoClick, Clickable, Held
<1>2. QED
  BY <1>1, AlwaysGood, PTL

\* No flag stays set without the task that takes it back.
THEOREM NoticeNotStuck == Spec => []NotStuck
<1>1. NoticeInv => NotStuck
  BY DEF NoticeInv, Good, FlagsAnswered, Waits, Scene, NotStuck, LiveTask
<1>2. QED
  BY <1>1, AlwaysGood, PTL

\* The cue sounds only in a visit of the hub that no loading screen covers, or none
\* that a look for it has found.
THEOREM NoticeCue == Spec => CueIsTimely
<1>1. NoticeInv /\ [Next]_vars =>
        [told'.cue # told.cue =>
           (loading' => told'.blind) /\ lua'.active /\ hub' # "off"]_vars
  BY NoticeStep DEF Timely
<1>2. QED
  BY <1>1, AlwaysGood, PTL DEF Spec, CueIsTimely

\* Only an announcement consumes what is pending.
THEOREM NoticeRemembers == Spec => NothingForgotten
<1>1. NoticeInv /\ [Next]_vars =>
        [lua.pending # None /\ lua'.pending = None => lua.pending \in lua'.notified]_vars
  BY NoticeStep DEF Remembered
<1>2. QED
  BY <1>1, AlwaysGood, PTL DEF Spec, NothingForgotten
=============================================================================
