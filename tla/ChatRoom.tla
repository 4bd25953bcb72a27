------------------------------ MODULE ChatRoom ------------------------------
(***************************************************************************)
(* The room lifecycle of the Lua chat module, mod/OSPlus/scripts/chat.lua, *)
(* with its side of the two IPC files (ipc.lua) and the callbacks main.lua *)
(* wires: when the player joins and leaves the relay room of a match, when *)
(* opponents' names may be shown, and which snapshots and lines it takes   *)
(* from the inbox.  Lua runs one callback at a time: one action each.      *)
(*                                                                         *)
(* Abstracted: the widget and its presentation, texts, the 50-line cap of  *)
(* the history, and tick counts (a timer is armed or not; when it is, it   *)
(* may fire).  The files are the lines written and not yet read.           *)
(***************************************************************************)
EXTENDS Integers, Sequences

CONSTANTS
  Seed,          \* CurrentMatchSeed values: non-zero integers
  NoSeed,        \* no GameState, or its seed is 0
  NoRoom, NoTeam, NoUser,
  Friendly,      \* the display name identity.lua resolves for the local player
  Fallback,      \* getBestLocalName() until then
  Named,         \* may the display name be known from the start: a set of BOOLEANs
  Role,          \* [team, spectator] records the engine may show
  Audience,      \* what parseChatAudience may return: [audience, target] records
  MaxRetries,    \* ROOM_MAX_RETRIES
  MaxRev,        \* bound on the revisions of one session
  MaxLines,      \* bound on the lines waiting in the outbox
  MaxGame        \* bound on what the engine and the player do

Team == {0, 1}

\* What is assumed of the constants; PresenceChain states it.
ChatRoomConstants ==
  /\ Seed \subseteq Int \ {0}
  /\ NoSeed \notin Seed
  /\ NoTeam \notin Team
  /\ Named \subseteq BOOLEAN
  /\ Role \subseteq [team : Team \cup {NoTeam}, spectator : BOOLEAN]
  /\ Audience \subseteq [audience : {"all", "team"}, target : Team \cup {NoTeam}]
  /\ MaxRetries \in Nat /\ MaxRev \in Nat /\ MaxLines \in Nat /\ MaxGame \in Nat

VARIABLES
  game,      \* what the engine shows: seed, phase, team, spectator, display name
  played,    \* history: the seeds whose gameplay (phase 5) has begun
  cur,       \* M.currentRoom, currentSeed, currentTeam, currentSpectator, ...
  rev,       \* M.presenceRevision
  gate,      \* presenceSeed and opponentsRevealed
  presence,  \* M.presence
  over,      \* history: the rooms of matches that chat.lua has seen end
  heard,     \* the rooms that the lines in M.messages were said in
  clock,     \* inMatch, the two timers, roomRetries, and a typed line not yet polled
  outbox, inbox

chatVars == <<game, played, over, cur, rev, gate, presence, heard, clock, outbox, inbox>>

\* seedToCode: eight base-32 digits of |seed|, so a code for each absolute value.
SeedToCode(seed) == IF seed < 0 THEN -seed ELSE seed

Room == {SeedToCode(seed) : seed \in Seed}

Nowhere == [room |-> NoRoom, seed |-> NoSeed, team |-> NoTeam, spectator |-> FALSE,
            user |-> NoUser, reveal |-> FALSE]

Sealed == [seed |-> NoSeed, revealed |-> FALSE]

Init ==
  /\ game \in [seed: {NoSeed}, playing: {FALSE}, team: {0}, spectator: {FALSE},
               named: Named, changes: {0}]
  /\ played = {} /\ over = {}
  /\ cur = Nowhere /\ rev = 0 /\ gate = Sealed
  /\ presence = {} /\ heard = {}
  \* main.lua calls chat.onMapLoaded() for the map already loaded
  /\ clock = [inMatch |-> FALSE, probe |-> TRUE, delay |-> FALSE, retries |-> 0, typed |-> FALSE]
  /\ outbox = <<>> /\ inbox = <<>>

Write(line) == Len(outbox) < MaxLines /\ outbox' = Append(outbox, line)

----------------------------------------------------------------------------
(* The engine, as chat.lua reads it *)

InMatch == game.seed # NoSeed

Happens(g) == game.changes < MaxGame /\ game' = [g EXCEPT !.changes = @ + 1]

Changed(g) ==
  /\ Happens(g)
  /\ UNCHANGED <<over, cur, rev, gate, presence, heard, clock, outbox, inbox>>

\* A match replicates its seed before gameplay: bans and selection come first.
NewMatch(seed) ==
  /\ seed # game.seed
  /\ Changed([game EXCEPT !.seed = seed, !.playing = FALSE])
  /\ UNCHANGED played

GameplayBegins ==
  /\ InMatch /\ ~game.playing
  /\ Changed([game EXCEPT !.playing = TRUE])
  /\ played' = played \cup {game.seed}

\* A draft between two sets, or a phase that cannot be read.
GameplayPauses ==
  /\ game.playing
  /\ Changed([game EXCEPT !.playing = FALSE])
  /\ UNCHANGED played

MatchGone ==
  /\ InMatch
  /\ Changed([game EXCEPT !.seed = NoSeed, !.playing = FALSE])
  /\ UNCHANGED played

\* AssignedTeam and the spectator signals replicate on their own.
Reassigned(r) ==
  /\ r # [team |-> game.team, spectator |-> game.spectator]
  /\ Changed([game EXCEPT !.team = r.team, !.spectator = r.spectator])
  /\ UNCHANGED played

\* identity.resolveDisplayName() succeeds, and caches its result for good.
NameResolved ==
  /\ ~game.named
  /\ Changed([game EXCEPT !.named = TRUE])
  /\ UNCHANGED played

\* readLocalPlayerChatState: a spectator has no team.
LocalTeam == IF game.spectator THEN NoTeam ELSE game.team

----------------------------------------------------------------------------
(* tryJoinRoom *)

\* The permission that tryJoinRoom computes first: a new seed withdraws it,
\* observed gameplay grants it, and for the same seed it stays.
GateNow ==
  [seed |-> game.seed,
   revealed |-> \/ game.seed = gate.seed /\ gate.revealed
                \/ InMatch /\ game.playing]

CurNow == IF game.seed = gate.seed THEN cur ELSE [cur EXCEPT !.reveal = FALSE]

Username ==
  CASE game.named -> Friendly
    [] ~game.named /\ cur.user # NoUser -> cur.user
    [] OTHER -> Fallback

Wanted ==
  [room |-> IF InMatch THEN SeedToCode(game.seed) ELSE NoRoom, seed |-> game.seed,
   team |-> LocalTeam, spectator |-> game.spectator, user |-> Username,
   reveal |-> GateNow.revealed]

Missing == ~InMatch \/ ~game.named

MayRetry == Missing /\ clock.retries < MaxRetries

MutNextRev_Reused == rev

NextRev == rev + 1

\* The cached join is void and the names it brought are gone.
Invalidate(c) ==
  /\ rev < MaxRev
  /\ gate' = GateNow /\ rev' = NextRev /\ presence' = {} /\ cur' = c

Kept(c) == [c EXCEPT !.seed = NoSeed]

JoinUnchanged(t) ==
  /\ Wanted = CurNow
  /\ gate' = GateNow /\ cur' = CurNow /\ clock' = t
  /\ UNCHANGED <<rev, presence, outbox>>

JoinRetry(t) ==
  /\ Wanted # CurNow /\ MayRetry
  /\ Invalidate(Kept(CurNow))
  /\ clock' = [t EXCEPT !.retries = @ + 1, !.delay = TRUE]
  /\ UNCHANGED outbox

JoinGiveUp(t) ==
  /\ Wanted # CurNow /\ ~MayRetry /\ ~InMatch
  /\ Invalidate(Kept(CurNow))
  /\ clock' = t
  /\ UNCHANGED outbox

JoinRoom(t) ==
  /\ Wanted # CurNow /\ ~MayRetry /\ InMatch
  /\ Invalidate(Wanted)
  /\ clock' = t
  /\ Write([type |-> "room_change", room |-> Wanted.room, user |-> Wanted.user,
            team |-> Wanted.team, spectator |-> Wanted.spectator,
            reveal |-> Wanted.reveal, rev |-> rev'])

TryJoinRoom(t) == JoinUnchanged(t) \/ JoinRetry(t) \/ JoinGiveUp(t) \/ JoinRoom(t)

----------------------------------------------------------------------------
(* leaveRoom and its callers *)

MutNamesLeft_Kept == presence

\* Presence is room-scoped: the names go with the room.
NamesLeft == IF cur.room = NoRoom THEN presence ELSE {}

\* Without a room only the permission is dropped; currentSeed and the other
\* fields are already unset then.
LeaveRoom ==
  /\ gate' = Sealed
  /\ over' = over \cup ({cur.room} \ {NoRoom})
  /\ IF cur.room = NoRoom
     THEN cur' = [cur EXCEPT !.reveal = FALSE] /\ UNCHANGED outbox
     ELSE cur' = Nowhere /\ Write([type |-> "room_leave"])

EndMatch ==
  /\ LeaveRoom
  /\ presence' = NamesLeft /\ heard' = {}
  /\ clock' = [clock EXCEPT !.inMatch = FALSE, !.probe = TRUE]
  /\ UNCHANGED <<game, played, rev, inbox>>

\* OnRep_MatchState fires.
OnMatchStateChanged == clock.inMatch /\ ~InMatch /\ EndMatch

\* LoadMapPostHook: truncateInbox, chat.reset, chat.onMapLoaded.  The old
\* widget goes with the map, and the line typed into it.
MapLoaded ==
  /\ Happens(game)
  /\ LeaveRoom
  /\ presence' = {} /\ heard' = {} /\ inbox' = <<>>
  /\ clock' = [inMatch |-> FALSE, probe |-> TRUE, delay |-> FALSE, retries |-> 0, typed |-> FALSE]
  /\ UNCHANGED <<played, rev>>

----------------------------------------------------------------------------
(* tickMatchProbe *)

ProbeFires ==
  /\ clock.probe /\ InMatch
  /\ clock' = [clock EXCEPT !.inMatch = TRUE, !.probe = FALSE, !.delay = TRUE, !.retries = 0]
  /\ UNCHANGED <<game, played, over, cur, rev, gate, presence, heard, outbox, inbox>>

DelayFires ==
  /\ ~clock.probe /\ clock.delay
  /\ TryJoinRoom([clock EXCEPT !.delay = FALSE])
  /\ UNCHANGED <<game, played, over, heard, inbox>>

RoomCheckFires ==
  /\ ~clock.probe /\ ~clock.delay /\ clock.inMatch
  /\ \/ ~InMatch /\ EndMatch
     \/ InMatch /\ TryJoinRoom(clock) /\ UNCHANGED <<game, played, over, heard, inbox>>

TickMatchProbe == ProbeFires \/ DelayFires \/ RoomCheckFires

----------------------------------------------------------------------------
(* Chat lines and the inbox *)

\* The player opens the input, only in a match, and enters a line.
TypeLine ==
  /\ clock.inMatch /\ ~clock.typed /\ Audience # {}
  /\ Happens(game)
  /\ clock' = [clock EXCEPT !.typed = TRUE]
  /\ UNCHANGED <<played, over, cur, rev, gate, presence, heard, outbox, inbox>>

\* pollPending; "tag" is history: the room the chat module was in.
PollPending(a) ==
  /\ clock.typed
  /\ clock' = [clock EXCEPT !.typed = FALSE]
  /\ heard' = heard \cup ({cur.room} \ {NoRoom})
  /\ Write([type |-> "chat", audience |-> a.audience, target |-> a.target, tag |-> cur.room])
  /\ UNCHANGED <<game, played, over, cur, rev, gate, presence, inbox>>

MutAccepts_NoRevision(f) ==
  f.kind = "presence" /\ cur.room # NoRoom /\ f.room = cur.room /\ f.reveal = cur.reveal

\* setPresence
Accepts(f) ==
  /\ f.kind = "presence"
  /\ cur.room # NoRoom /\ f.room = cur.room
  /\ f.rev = rev /\ f.reveal = cur.reveal

\* readInbox takes all the new lines: the last acceptable snapshot wins and
\* every chat line is added, whatever room it was said in.
ReadInbox ==
  /\ inbox # <<>>
  /\ inbox' = <<>>
  /\ LET taken == {i \in 1..Len(inbox) : Accepts(inbox[i])} IN
     IF taken = {} THEN UNCHANGED presence
     ELSE \E i \in taken : /\ \A j \in taken : j <= i
                           /\ presence' = inbox[i].members
  /\ heard' = heard \cup {inbox[i].room : i \in {j \in 1..Len(inbox) : inbox[j].kind = "chat"}}
  /\ UNCHANGED <<game, played, over, cur, rev, gate, clock, outbox>>

Engine ==
  \/ \E seed \in Seed : NewMatch(seed)
  \/ GameplayBegins \/ GameplayPauses \/ MatchGone \/ NameResolved
  \/ \E r \in Role : Reassigned(r)

Lua ==
  \/ TickMatchProbe \/ OnMatchStateChanged \/ MapLoaded \/ ReadInbox
  \/ TypeLine
  \/ \E a \in Audience : PollPending(a)
=============================================================================
