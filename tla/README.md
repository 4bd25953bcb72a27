# OSPlus: TLA+ specifications

OSPlus adds chat, profiles and update notices to a game. Four programs take part:

* the **mod**, Lua scripts that run inside the game (`mod/OSPlus/scripts`);
* the **sidecar**, one Node process beside each game (`sidecar/`);
* the **relay**, one Node process on a server (`server/`), with a WebSocket half (rooms,
  presence, chat) and an HTTP half (profiles, update projection);
* the game engine, which the mod reads and hooks but does not control.

Mod and sidecar talk through files: Lua appends lines to `outbox.jsonl` and reads
`inbox.jsonl`, the sidecar does the opposite, and `heartbeat.txt` tells the sidecar that the
game lives. Sidecar and relay talk over one WebSocket and over HTTPS.

## 1. Inventory

| Component | State it keeps | Operations | What makes it correct |
|---|---|---|---|
| Relay, `server/index.js` | `rooms`, `connsPerIp`, fields `_room`, `_team`, ... of each socket | connection, join, leave, chat, ping, rate limit, close, shutdown | the two records of membership agree; no connection is counted twice or never released; everyone who stays is told of every change; team talk stays in the team |
| Chat module, `chat.lua` | current room and context, `presenceRevision`, permission to show opponents, member list, history, timers | match probe, tryJoinRoom, leaveRoom, endMatch, map load, setPresence, addMessage, pollPending | no opponent's name before gameplay; the list shown is the one of the present room; talk stays in its room and its match |
| Sidecar, `sidecar/index.js` | cached room context, WebSocket, outbox offset | outbox dispatch, connect, open, message, close, keepalive, watchdog | rejoins after a reconnect; stale snapshots never pass; ends with the game |
| IPC, `ipc.lua`, `main.lua` and `sidecar/index.js` | two files, an offset into each, the processes of one session or two | boot, launch, append, poll, truncate, watch | a sidecar takes its session's lines once and in order; so does Lua |
| Profile chain, `profile.lua`, `sidecar/profile.js`, `server/api/**` | one emitted snapshot; pending payload and timer; tables `auth_tokens`, `profiles` | tick, PUT, pair, retry; handlePut, handlePair | a player's identity stays bound to the token that claimed it first; a row is written by its owner only; an upsert is stored, refused or given up, never forgotten |
| Update chain, `server/updates`, `sidecar/update.js`, `update_notification.lua` | cached release (twice); pending, shown and cued versions | getLatest, refresh; check; onUpdateAvailable, reset, home-hub events | one notice per version, none for a release that is not newer; a failure never erases what is known |
| Heartbeat, `ipc.lua`, `sidecar/index.js` | file mtime, uptime | write, check | the sidecar ends soon after the game and not before |
| HTTP listener and dispatchers, `server/index.js`, `server/api/index.js`, `server/updates/index.js` | requests in flight, their bodies | route, read the body, answer, give back | each request is answered once, and the process goes on |
| Emote loadout and catalogue, localization, ping wheel, JSON, config, log | tables and engine objects | look-ups, engine writes | outside the model; see section 7 |

What is hard in this system:

* three queues (outbox, WebSocket, inbox) lie between the decision to change rooms and the
  snapshot that answers it, so an answer to an earlier question may arrive after a later one;
* the sidecar reconnects by itself and joins again from a cache, while lines wait;
* the relay runs handlers for sockets that are already closing, and learns late, if ever, that a
  network has died;
* engine state (seed, phase, team, spectator, display name) replicates in pieces, in any order;
* handlers on the HTTP side await between a look-up and a write; clients time out and retry
  requests that are still being served;
* the files outlive both processes: the sidecar of the last session may still run, and the last
  heartbeat still lies there, when the next game boots.

`PROJECT.json` lists every component, and each of these hazards at the line where it bites.

## 2. Modules

| Module | Models | State |
|---|---|---|
| `Relay` | WebSocket half of `server/index.js` | `state`, `ctx`, `rooms`, `conns`, `down`, `serving` |
| `RoomService` | abstract: what the relay promises its clients | `who`, `phase`, `mail`, `serving` |
| `RelayProofs` | theorems about `Relay`, and the refinement of `RoomService` | |
| `ChatRoom` | room lifecycle of `chat.lua`, its side of `ipc.lua`, wiring of `main.lua` | `game`, `cur`, `rev`, `gate`, `presence`, `heard`, `clock`, `outbox`, `inbox` and histories |
| `Sidecar` | chat half of `sidecar/index.js` | `cache`, `link`, `outbox`, `inbox`, `up`, `down` |
| `PresenceChain` | `ChatRoom` + `Sidecar` + `Relay` and other players' sockets | all of these, `trouble` |
| `ChainProofs`, `ArrivalProofs` | theorems about it: what a snapshot may show; that the right one arrives | |
| `ProfileApi` | profile routes, `server/api/**` | `tokens`, `profiles`, `call`, history `bound` |
| `ProfileSync` | `profile.lua`, `sidecar/profile.js`, over `ProfileApi` | those, `life`, `flow`, `trouble` |
| `ProfileProofs` | theorems about both | |
| `UpdateProjection` | `server/updates/index.js` | `github`, `cached`, `fresh`, `backoff`, `flight`, `waiting` |
| `UpdateChain` | `sidecar/update.js` over `UpdateProjection` | those, `client`, `req`, `releases`, `trouble` |
| `UpdateProofs` | theorems about both | |
| `UpdateNotice` | `update_notification.lua` with the engine around it | `lua`, `card`, `tasks`, `told`, `trouble`, `hub`, `loading`, `settings` |
| `NoticeProofs` | theorems about it | |
| `FileIpc` | outbox and inbox with both sides' offsets, boot and launch of `main.lua` | `game`, `session`, `outbox`, `inbox`, `inboxOffset`, `heard`, `told`, `refused`, `proc` |
| `LineQueue` | abstract: what the outbox promises its reader | `queue`, `got`, `reading` |
| `Heartbeat` | the watchdog, with time, over `FileIpc` | those, `beat`, `up`, `done`, `stalled`, `alone`, `hurt`, `trouble` |
| `SessionProofs` | theorems about both, and the refinement of `LineQueue` | |
| `HttpService` | HTTP listener and dispatchers of the relay | `up`, `req` |
| `HttpProofs` | theorem about it | |
| `MCRelay`, `MCPresenceChain`, `MCProfileSync`, `MCUpdateChain`, `MCUpdateNotice`, `MCHeartbeat`, `MCHttpService` | instances for TLC | |

### Relay

`rooms` is the code's map, whose domain are the rooms that exist; `conns` is `connsPerIp`;
`ctx[s]` are the underscore fields of a socket object; `down[s]` are the frames sent to `s` and
not yet received. Every message type and every event of a socket is an action: `Connect`,
`RefusedGone`, `BeginClose` (a close frame, or the rate limit), `Close`, `Join`, `Leave`,
`ChatAll`, `ChatTeam`, `Ping`, `Shutdown`, `Restart`. Node runs a handler to its end before the
next, so a handler is one step. A socket that is `closing` still runs its message handler, as in
the `ws` library. `Join` leaves the old room *before* the code is validated, as the source does,
so a malformed code costs the old room. Frames carry, besides what is on the wire, the roles
their sender and hearer had when they were built: history, for properties only.

`RoomService` is the relay without books. A room is the set of sockets that say they are in it, the load of an address is the number of
its live sockets, and a step either moves one socket, after which everybody open in the rooms it left or entered has been told (`Told`: by snapshots
only, none listing more than the last, which is exact), or passes talk on, or neither. Under `who <- ctx`, `phase <- state`, `mail <- down` every handler
must be one such step: `IsRoomService`. Bounds of queues and codes of rooms do not occur in it.

### ChatRoom

One action per callback: the parts of `tickMatchProbe` (probe, settle delay, periodic check),
`onMatchStateChanged`, the load-map hook, `readInbox`, `open`/`pollPending`. `tryJoinRoom` is
`TryJoinRoom`, with a disjunct for each way it ends: unchanged, retry, give up, join. UE4SS runs
one Lua callback at a time, whichever thread calls it, which is why a callback is one step. Engine state changes by `NewMatch`, `GameplayBegins`, `GameplayPauses`,
`MatchGone`, `Reassigned`, `NameResolved`, at any moment and independently.
Timers count ticks in the code; here a timer is armed or not and may fire once armed.

### Sidecar

`RoomChange`, `LeaveCurrentRoom`, `ForwardLine` are the cases of the outbox dispatch; `Dial`,
`OnOpen`, `OnClosing`, `OnClose`, `OnMessage` the events of the WebSocket. What a send does while
the socket is not open (the line is dropped, the cache stays) is the code's.

### PresenceChain

The composition conjoins a step of one component with the step of the other it takes part in: a
message leaves `up[s]` in the same step in which the relay handles it, `Dial` is the relay's
`Connect`, a broken connection is the sidecar's `OnClose` with nothing on the relay's side.
`RateLimited` drops a message and begins to close, and goes on dropping while the window lasts.
`RelayRestarts` empties the relay and every queue. Frames towards peers, and towards connections
that the sidecar has given up, are not observed; `Drain` removes them before any other step.

Left out of the chain: `Shutdown` (checked in `Relay` alone; a restart covers its effect here), the
refusals of the connection cap (the cap admits every socket of the instance), lines that
`parseChatAudience` rejects, and the `update_check` line that a match end also writes.

### ProfileApi

`tokens` is the table `auth_tokens`, `profiles` the table of that name, `call` the HTTP requests in
flight. Both handlers await scrypt between a look-up and a write, so each is two actions with
anything in between: `PairLooksUp` and `PairInserts`, `PutReadsRows` and then `PutUnknown` or
`PutMatches`. `authenticate` hashes a *snapshot* of the rows (`matches`) and its `SELECT` has no
`ORDER BY`, so which of several matching rows decides is left open. `ServerError`, a scrypt that fails on
the matching row (`PutUnknown` with matches left), `MaintainerDeletes` (the recovery that a 409 asks for) and `RelayRestarts`
are the failures. `ApiSpec` is the API under any clients at all: it is the abstract specification
that `ProfileSync` implements.

### ProfileSync

`life[i]` is what one sidecar keeps for its upsert, `flow[c]` the call of `sendUpsert` that waits for the
request in slot `c`. `Emitted` is Lua's one line per session with the PUT it causes; each answer is an action
(`PutStored`, `PutUnauthorised`, `Paired`, `PairConflicts`, `PutAgainRefused`, ...), named for what the code does with that
status; `RetryFires` and `PendingExpires` are the timer, which nothing keeps from overlapping its own earlier call;
`TransportError` is a timeout or a dead connection, *after which the relay may go on serving*. `Relaunch` is a new
session, with the same token or, if the file was deleted, a fresh one.

Abstracted: the validation of payloads and the answers 400, 404, 405 and 413 that this client does not
provoke; the columns of a row, `created_at` and `last_seen_at`; `GET`; hashing, which is equality of tokens; the three
intervals, each of which elapses at some time.

### UpdateProjection and UpdateChain

`cached` is the relay's manifest with the upstream ETag it came with; `fresh` and `backoff` say whether the TTL and
the 60 seconds after a failure are running, so that time is only the order in which they end (`Ages`). `flight` is the promise
`refreshInFlight`: `Awaits` starts or joins it, `RefreshEnds` is what follows its await, and answers all handlers in `waiting` at once.
A release is its version, and both ETags are the release, because each is a function of the manifest.

`client[c]` are the variables of `createUpdateClient`, `req[c]` its one request in flight. `CheckCached` and `CheckAsks` are the two
ways a check goes; `Reads` is all that follows the await. A client treats a dead connection, a status, bad JSON and a bad
schema alike, so all are status 503 here; the request remembers the release of the refused answer, since a wrong client might use it.
Every emission is read by Lua or lost to a truncation of the inbox, which counts as trouble.

### UpdateNotice

`lua` are the module's fields, `card` the widget as the player has it, and the two differ: the engine detaches, destroys
and rebuilds without telling (`Silently`). `tasks` is `ExecuteInGameThread`, whose closures outlive a map; the
comparison of `lifecycleGeneration` is the field `stale`. One handler makes several engine calls and each may raise (`FindFirstOf`, the read of a property, a function of the card
or its slot, `ExecuteInGameThread`), with what the earlier ones did remaining, so each Lua function is an operator from a *scene* to the set of scenes in which it
may end, and functions compose by `UNION`. Callbacks are actions (`OnUpdateAvailable`, `MapLoaded`, the four states of the hub as its
router reports them, settings, loading screen, construction of either widget, change of language), and `GameThread` runs the next task.

Taken from the engine: a hook's parameters are readable, and `IsValid`, `GetFullName` and `GetParent` answer truly.
Left out: which widget class reports (the handlers filter), the layout of the slot, and the callbacks
`OnNavigatedTo`, `OnNavigatedAway`, `OnNavBack`, which UE4SS gives to the first that registers, and that is the chat module; the
two triggers of a check, which change nothing else here.

### FileIpc and LineQueue

`outbox` and `inbox` are the files; an element is a line, known by the session it was written in. `main.lua`'s boot is four steps, since the other
process runs between any two of them: `BootEmpties` (the inbox), `BootPrimes` (the first heartbeat), `BootSweeps` (taskkill), `BootLaunches`. `proc[s]`
is the sidecar that session `s` launched; that of the last session may live on through the first two steps. The sidecar's start takes the file's length
as its offset (`ProcessStarts`) and `fs.watchFile` takes a first stat of its own later (`WatchBegins`); from then a change is noticed (`OutboxChanged`),
and `readNewOutboxLines` is its stat (`StatOutbox`) and its read (`ReadOutbox`), between which Lua may append. `TruncateInbox` resets Lua's offset
whether or not the file opens. What a process remembers goes with it (`GameEnds`, `Over`), except what the properties ask of it. `LineQueue` is the queue this amounts to for one sidecar: lines that anybody puts, a start that
discards what waits, takes from the front.

Taken from the runtime, not from the code: a line is one write, because it is shorter than the buffers of either runtime; Lua callbacks exclude
each other; the executable that a game starts runs before the next game's taskkill; the mod is not reloaded within a game.
The branch of `readNewOutboxLines` for a file that became shorter is left out, since nothing in the program shortens the outbox. A missing `outbox.jsonl` is one without lines, as for the two
catches of a failed stat (`sidecar/index.js` 106 to 108 and 115 to 117); a file that is there is taken to answer stat, open and read. (Where it did not, the line would wait for the next change,
and a sidecar that could not take the size at its start would begin with the file's first line.)

### Heartbeat

A unit is five seconds, which is both the period of Lua's write and that of the sidecar's check. In a unit each running loop has one turn (`done`), in any
order, and `Tick` ends it. A file written `n` units ago is between `n - 1` and `n + 1` units old, so at a limit the check may go either way (`MayExit`,
`MayStay`). `beat` is the age of the file, which may be missing; `up` the uptime, counted only while it is missing, as the grace
period concerns that case alone. `Stalls`, `Suspended`, `Killed`, writes and launches that fail are the troubles. `Next` of `FileIpc` is what each step does
to the files.

### HttpService

`req[r].at` is the await that a handler rests on, `answers` how often `writeHead` was called. `Arrives` runs a handler to its first await;
`Updated`, `BodyGrows`, `BodyTooLarge`, `BodyEnds`, `RouteAnswers` are what ends one; `FallsThrough` is the rest of the listener for a request that neither
dispatcher owns. `ClientGone` may come at each of them. What routes answer is the subject of `ProfileApi` and `UpdateProjection`.

## 3. Runs

| Run | Checks | Instance |
|---|---|---|
| `relay` | `TypeOK`, `MembershipAgrees`, `ConnectionsCounted`, `LastSnapshotCurrent`, `TeamTalkConfined`, `IsRoomService` | 3 sockets of one address, cap 2, 2 rooms, 5 kinds of join (two teams, revealed, spectator, malformed); at most 3 frames per queue |
| `chain_privacy` | `PregamePrivacy`, `TagsIdentifyContext`, `CaughtUp` | 2 seeds, both teams, a peer that changes sides, 1 retry, 3 engine events, 2 troubles |
| `chain_settles` | `TalkStaysInItsRoom`, `RestsSettled`, `EventuallySettled` | 2 seeds, unnamed at first, with a teammate and 1 retry, 1 trouble, under `FairSpec` |
| `old_talk` | `NoOldMatchTalk`, expected to fail | a peer that talks |
| `profile` | `ApiTypeOK`, `WrittenByOwner`, `OneFate`, `TofuBinding`, `EventuallyDecided` | 2 installs, 3 tokens, 2 IDs, 2 requests at once, under `FairSpec` |
| `profile_5xx` | `ServerErrorsRetried`, expected to fail | 1 trouble |
| `profile_own_conflict` | `ConflictMeansOtherToken`, expected to fail | 1 trouble |
| `updates` | `UpdateTypeOK`, `RevalidatesTheSame`, `ClientInStep`, `EventuallyTold` | 2 clients, releases 1 to 3 with 1 installed, 2 changes at GitHub, 2 troubles, under `FairSpec` |
| `notice` | `NoticeTypeOK`, `AnnouncedOnce`, `ClickOpensItsText`, `CoveredTakesNoClick`, `NotStuck`, `CueIsTimely`, `NothingForgotten` | 2 releases (symmetric), 1 failing call (a setter with the call that makes up for it counts as one); callbacks come when at most 1 task is queued |
| `notice_stale` | `NothingStaleShows`, expected to fail | no failing call |
| `session` | `IpcTypeOK`, `OwnLinesOnly`, `HeardInOrder`, `LingersBriefly`, `KeepsCompany`, `OutboxIsQueue`, `EndsWithGame`, `KeepsReading` | 2 sessions, 2 lines out, 2 lines in, time-out 2 and grace 3 units, 1 trouble, under `FairSpec` |
| `http_over_cap` | `UnownedIsUnanswered`, expected to fail | 2 requests, bodies of up to 1 chunk |

Bounds and why they suffice.
*Sockets*: the cap must be reachable and passed (three sockets, cap two); a room needs a leaver and
two survivors of different standing, which three sockets give.
*Chain*: two connections are what a reconnect needs (the old one, still alive at the relay, and the
new one); a second reconnect uses the first again. Two seeds give every order of old and new match;
queues of two hold an answer to the old question and one to the new (in `chain_privacy` one waits in the inbox and two before it). `MaxGame` and `MaxTrouble` count what the environment
does, never what the programs do: every retry, rejoin and reconnect that follows is free.
`MaxRev` is above what those budgets can cause, so no revision is cut off.
*Profiles*: a race for an ID needs two tokens and two requests; a second ID lets one token own two rows, which is
how a PUT meets another ID's row; the third token is the one a player gets after deleting the file. Two
troubles cover a request given up and then a restart, a deletion or a second time-out.
*Updates*: two changes at GitHub make a newer release and a withdrawal, so that either cache may hold more than the
other or less; two clients share a refresh. *Notice*: two releases, since all mistakes are about confusing one with the
other; two tasks, one of them stale or of another kind; one failing call, where the link's two guards, its setter and the `SetVisibility`
that makes up for it, may fail together as one: both must fail for a click to open the wrong page. Two such failures were tried as well, with the same result and 3.8 million states.
*Session*: two sessions are what a leftover needs (file, heartbeat or process); two lines let one be appended while another is read, and
two into the inbox have an order, within one session or across a truncation. Time-out and grace period have the ratio of the code's 20 and 30 seconds, at half as many checks
each; the least time-out that survives a late beat is two units, and the theorems hold for every pair.
Deadlock checking is off in the chain, for profiles, for the notice and for sessions: with the budgets spent and every upsert decided, or the last game ended, the system
may rightly stop. It is on for `relay` and `updates`.

What they show: the relay keeps its books under every order of handlers; no delayed snapshot
shows an opponent early, although neither Lua nor the sidecar compares the team or the user of a
snapshot, because the revision stands for them (`TagsIdentifyContext`); a line meets
the relay in exactly the room it was typed in; and the chain settles. `CaughtUp` is the other half of privacy: what both ends drop as stale is never the snapshot
that counts, since none comes after it. It speaks of any moment at which no change of room is under way, whatever else still is; `RestsSettled` of those at which nothing is:
the chain cannot stop anywhere but where `EventuallySettled` wants it. `TalkStaysInItsRoom` has one exception, stated with it:
after the relay's rate limit has dropped a join or a leave and is closing the connection, a line that
comes later may still reach the room the relay has for the socket.

`old_talk` is a disagreement between code and comment: `endMatch` clears the history so that "old match's
messages don't leak into the next one", but a line that is still in a queue at that moment is
added to the next match's history, as nothing on the way back compares rooms.

`profile_5xx` and `profile_own_conflict` are two more. The client's header promises a retry on every 5xx, but a 5xx
on the PUT that follows a successful pairing is final. A comment reads a 409 as another player's token, but it may be
the client's own: a pairing it had given up inserts the row after the next attempt's PUT has read the table.

`notice_stale`: the comment in `attachWidgetToHomeHub` has the card collapsed so that stale content is never exposed, but
a card that survived a map load inside its hub is not collapsed when the hub animates in again. It takes a hub that is hidden
between the map load and the task that the map load queues.

`http_over_cap`: the API's dispatcher says of its result that true means a request it has answered. After a 413 it returns the value of `writeJson`,
which is undefined, so the listener takes the request for nobody's and answers it again; headers have been sent, the second `writeHead` throws,
and nothing handles that rejection.

`session` shows that the files do what the rest of the project assumes of them: the queues between `ChatRoom` and `Sidecar` lose nothing but what a truncation removes, and
what a sidecar finds at its start. Two things its properties except, both for the reader to know. A line written between the start of the sidecar and the first stat of its watcher
is noticed only with the next one, hence `Noticeable` in `KeepsReading`. And lines that wait when a sidecar starts are skipped, since it starts at the
end of the file: `docs/architecture/relay.md` (111 to 115) praises files as surviving a restart of the sidecar without the loss of queued messages, which
holds of the file but not of what a new process reads of it. The same document speaks of 30 seconds of grace at start-up (line 92); in the code they apply only while
the file is missing, and a file of the last session ends the sidecar at its first check. `KeepsCompany` shows why that does no harm: Lua
writes the file before it launches anything.

The notice promises less where calls fail, and its properties say exactly what. `ClickOpensItsText` and `CoveredTakesNoClick` except a card of which a failed call has cost Lua
the reference (line 455), as nobody updates it, and one whose text was set while both the setter of the link and the `SetVisibility` that makes up for it failed (303, an ignored
`pcall`): the old link then stays under the new text. Either lasts until the release has had its text and its link applied together again (`told.lost`). `CoveredTakesNoClick` and `CueIsTimely` except a
loading screen that a look for it has failed to find (`told.blind`): `refreshLoadingScreenState` takes a look-up that raises, or a state that cannot be read, for
"absence of a loading-screen object", which its comment calls "a concrete proof" (568), so in a visit of the hub one failed read uncovers the link and releases the cue under a
loading screen. That lasts until the screen animates or is constructed again, and the link is covered as soon as a later look succeeds (`~lua.loading`).

## 4. Fairness

`FairSpec` assumes weak fairness of four things: the Lua tick loop (`LoopAsync` calls it every
30 ms), the sidecar's event loop (it watches the outbox by polling, its reconnect timer and
keepalive are armed whenever the socket is closed or silent), the relay's event loop (it handles what has arrived), and `Drain`,
which stands for reading by others. Nothing makes engine, player, peers or failures
act, so a liveness property cannot rest on them. The pong timeout is why `HangUpStep` is fair: a
connection the relay has dropped is noticed.

`ProfileSync!FairSpec` assumes weak fairness of each slot's handlers and of reading its answer (two event loops), of
noticing that a connection is dead, and of the retry timer, which is an interval. A client's own time-out while
the request is alive, the 30 minutes, a new session and every failure are not fair.

`UpdateChain!FairSpec` assumes that handlers run, that GitHub's answer or the time-out of the request for it comes, that TTL,
backoff and cooldown elapse, and that the player plays on: matches are queued for and completed, which is what asks for checks.

`Heartbeat!FairSpec` assumes that time passes, that Lua's loop runs unless it is stalled, and that the sidecar's event loop starts, watches and checks. Nobody has to
start, end or resume the game, or to write a line.

## 5. Proofs

`RelayProofs` proves, for every finite set of sockets and every set of rooms, addresses and join messages
(assumptions `RelayConstants`, `SocketsFinite`):

* `RelayTypes`: `Spec => []TypeOK`
* `RelayMembership`: `Spec => []MembershipAgrees`
* `RelayConnections`: `Spec => []ConnectionsCounted`
* `RelayTeamTalk`: `Spec => []TeamTalkConfined`
* `RelaySnapshots`: `Spec => []LastSnapshotCurrent`
* `RelayIsRoomService`: `Spec => IsRoomService`, that is `Spec => Service!Spec`

`TypeOK` is not inductive: `removeFromRoom` looks up `rooms[ctx[s].room]`, which has a value only if the
membership records agree. `Consistent == TypeOK /\ MembershipAgrees` is, and the proof has one step for
each action. `ConnectionsCounted` adds arithmetic of cardinalities: connect adds one element to
`AttachedFrom`, close removes one. `TeamTalkConfined` quantifies over positions of a queue; the
proof uses that queues are sequences over a set `ConfinedFrame`, which `Append` and `Tail` preserve. `LastSnapshotCurrent` is inductive with `Consistent`: a step does one of two things
for a client that is in a room after it (`StepTells`). It sends it, last of all, the snapshot of the result (`Sends`; `JustTold`, then `OthersTold`, `LeavingTold` and `JoiningTold` for
`removeFromRoom` and a join that lands); or the right list stays right, as members at most begin to close, and the last snapshot the last (`SameView`, `SameLast`; `StillTold`, `TalkingTold`).
The chain's proofs use this lemma again.

For the refinement, `BooksRight` says that the map of rooms holds exactly those who say so, which is `MembershipAgrees`, and the refusal of a connection agrees by `ConnectionsCounted`. `SnapshotLists` turns what
`broadcastPresence` builds from its arguments into a listing of the state after the step. `RestInformed` and `RoomsInformed` are the two ways membership changes;
a join into the room one is in tells the others twice (`TwiceTold`), the first time without the newcomer.

`ChainProofs` proves, for every set of seeds, roles, audiences, own sockets and peers, whatever the peers join with, and for every bound (assumption `ChainConstants` of `PresenceChain`):

* `ChainTags`: `Spec => []TagsIdentifyContext`
* `ChainPrivacy`: `Spec => []PregamePrivacy`
* `ChainTalk`: `Spec => []TalkStaysInItsRoom`

The first two rest on `ChainInv`. A revision stands for one context, and what the outbox, the sidecar's cache, the messages on their way up, the relay's
fields of a socket, the frames on their way down and the inbox hold of it are copies: `Live` collects them all, `OneClaimEach` says that copies with one revision are equal, that none
is ahead of Lua's counter, and that those with the last revision name the present user, team and role and claim the permission only for a match whose gameplay was seen
(`GateHonest`). Every step but a new join copies or forgets (`NothingClaimed`), and a new join has a new revision (`Claimed`). With `Discreet`, what
`broadcastPresence` lists without the permission, an accepted snapshot shows no opponent. No type of a frame, of a line or of another player's fields is needed: queues are sequences over what they hold (`IsQueue`).
`ChainTalk` adds `Routes`: a queue leads through places, a place being the room and roles that its reader has been given so far. The outbox leads from the place in the sidecar's cache to that of the chat module, the messages on an open connection from the place
the relay has for it to the one in the cache (`Leads`), and each chat line stands where its room is the present one.

`ArrivalProofs` proves for the same chain, under the same assumptions:

* `ChainCaughtUp`: `Spec => []CaughtUp`
* `ChainRelay`: `MembershipAgrees`, `ConnectionsCounted`, `LastSnapshotCurrent` and `TeamTalkConfined` of the relay in the chain
* `ChainRests`: `Spec => []RestsSettled`

It instantiates `RelayProofs` (as `RP`), so `ChainConstants` has to yield what `Relay` assumes: finitely many sockets, names and join messages of the sort that the relay's
normalisation lets pass (`AnyJoin`), peers among them. `Relaying` is what `RelayProofs` found inductive: in every step of the chain the relay does a step of its own or none (`StepsOfRelay`), except where frames are read or drained, which disturbs none of it. From `Routes` it
follows that with no change of room under way the relay's place for the player is Lua's (`RoutesEnd`), and so are the tags. `InboxRight` says the rest: at such a moment, with no snapshot
left in the relay's queue, the newest one in the inbox that Lua would accept, or the list on screen if there is none, is right (`ReadRight`). Its preservation has four cases: Lua reads (`GameArrives`), the sidecar
passes a frame on (`SidecarArrives`), the relay acts, which either sends or leaves the list right by `StepTells` (`RelayArrives`), and the sidecar's message is handled (`MessageArrives`, where a join of one's own always sends: `JoinSends`).
`ChainRests` adds `Watching`: Lua is in a room only while it watches a match, and shows no names outside a room. It is the safety half of `EventuallySettled`; what remains to TLC is that the chain comes to rest.

`ProfileProofs` proves, for every set of IDs, tokens, slots and installs (assumptions `ApiConstants`, `SyncConstants`):

* `ApiTypes`, `ApiBinding`, `ApiOwner`: `ApiTypeOK`, `TofuBinding` and `WrittenByOwner` of `ApiSpec`, whatever the clients do
* `SyncIsApi`: `Spec => ApiSpec`, the system with its real clients is one of those
* `SyncBinding`, `SyncOwner`: the same two properties of `Spec`, through `SyncIsApi`
* `SyncFate`: `Spec => []OneFate`

`WrittenByOwner` is not inductive: a PUT writes on the word of a snapshot, whose row may be deleted meanwhile. `Owned` adds that every
row that exists, and every row in a snapshot, is in the history `bound`, which only grows. `TofuBinding` needs types
only: the primary key decides at the insert, not the earlier look-up. `OneFate` needs `FirstAlone`: while the first call of a payload
runs there is no other, and before the payload none; retries may overlap, and a retry that ends late leaves `pending` as it is or clears it.

`UpdateProofs` proves, for every set of clients and releases and every installed version (assumptions `ProjectionConstants`, `ChainConstants`):

* `UpdateTypes`: `Spec => []UpdateTypeOK`
* `UpdateRevalidation`: `Spec => []RevalidatesTheSame`
* `UpdateInStep`: `Spec => []ClientInStep`

The invariant `UpdateInv` says of both caches the same: an ETag is kept with the release it came with, the request on its way carries
the ETag of what is cached, since nothing else changes the cache meanwhile, and a 304 is said of the ETag that was sent. At the relay
that rests on the single shared refresh, at the client on its single request.

`SessionProofs` proves, for every number of sessions, lines and troubles, every time-out above one unit and every grace period (assumptions `IpcConstants`, `HeartbeatConstants`):

* `IpcTypes`, `OwnLines`, `HearsInOrder`, `OutboxQueue`: `IpcTypeOK`, `OwnLinesOnly`, `HeardInOrder` and `OutboxIsQueue` of `FileIpc!Spec`
* `Implements`: `HSpec => Spec`, and `FilesUnderWatchdog`: the four with the watchdog, through it
* `Lingers`, `Company`: `HSpec => []LingersBriefly`, `HSpec => []KeepsCompany`

`OutboxQueue` is a refinement: under `queue <- Waiting(s)`, the part of the file beyond the offset, every step of the files is a step of `LineQueue` or a stutter. `OwnLinesOnly` is
not inductive: a sidecar reads what its session wrote because it is alone (`OneByOne`), later ones have not started (`Unstarted`), and all beyond its offset
is its own (`Own`, `Offsets`). `HeardInOrder` needs that what Lua has heard is older than what waits in the inbox (`InboxOrder`, `HeardOrder`). `LingersBriefly` needs
that the age of the file, or the uptime where there is none, keeps up with the time spent alone (`AgedInv`); `KeepsCompany` that the file is fresh before the launch and
at most a unit old while the game runs well (`Beating`). TLC has checked each of these on the instance of the run `session`.

`NoticeProofs` proves, for every set of versions and every number of queued tasks and failing calls (assumption `NoticeConstants`), all that the run `notice` checks:

* `NoticeTypes`, `NoticeOnce`, `NoticeLink`, `NoticeCovered`, `NoticeNotStuck`: `NoticeTypeOK`, `AnnouncedOnce`, `ClickOpensItsText`, `CoveredTakesNoClick` and `NotStuck`
* `NoticeCue`, `NoticeRemembers`: the action properties `CueIsTimely` and `NothingForgotten`

The functions take scenes to scenes, and so do the lemmas: from a `Good` scene each function ends in `Good` ones only, whichever of its calls raise. Most are `Calm`: they leave
what was told, the queue and the flags alone. What `Good` adds to the properties: what was announced or cued is on record (`OnceIn`); a visible release is one of this visit, and
unless failed calls have cost the reference or both guards of the link (`told.lost`) the card is known and shows that release (`Trusty`) and opens no other (`Faithful`, of which `LinkCalm` is the core); only a card that is there has a parent or is referred to (`SceneSet`). `Agrees` adds that
Lua's notion of settings, loading screen and hub is the engine's or more cautious, save for a loading screen that a look has failed to find; without it a click under a loading screen that Lua has not heard of would be possible. In the middle
of `Present` the card shows a version that is not yet the visible one, so `PresentEnds` speaks of its three ends, not of its steps.

`HttpProofs` proves, for every set of requests and every cap, `AnswersOnce`: `Spec => []OneAnswer`: as long as no body is over the cap, no request is answered
twice and the process runs. It says where the fault of `http_over_cap` lies: nowhere else.

Only model-checked: the liveness properties `EventuallySettled` (of which `ChainRests` is the safety half), `EventuallyTold`, `EventuallyDecided`, `EndsWithGame` and `KeepsReading`.
Out of the prover's reach: liveness and `ENABLED`;
induction over data; `RECURSIVE` operators, of which there are none here.

## 6. Plan

In this order; each with its runs, and proofs where named.

1. *Done*: `Relay`, `RoomService`, `ChatRoom`, `Sidecar`, `PresenceChain`, `RelayProofs`, `ChainProofs`, `ArrivalProofs`.
2. *Done*: `ProfileApi`, `ProfileSync`, `ProfileProofs`: profile client and API, timeouts, overlapping retries, lost token rows.
3. *Done*: `UpdateProjection`, `UpdateChain`, `UpdateProofs`. An order of publications was considered and left out: each cache has one request in flight, so none can go back in it.
4. *Done*: `UpdateNotice`, `NoticeProofs`. To come: that a pending release is shown in the end, under fairness of the game thread.
5. *Done*: `FileIpc`, `LineQueue`, `Heartbeat`, `SessionProofs`.
6. *Done*: `HttpService`, `HttpProofs`.
7. *Done*: `RoomService`, an abstract relay that `Relay` implements, with the refinement proved. To come: the same of the relay in the chain, whose clients may give a connection up.
8. Pure algorithms against reference definitions: audience parsing, version comparison.

## 7. Not modelled

Hazards without a property, and why: how long a ghost socket stays at the relay (nothing in the code bounds it); an older PUT that is
written after a newer one and a token bound to two IDs (states the model reaches, where no document says what should be); a card that has lost its reference or its link (see section 3).

The presentation of chat and notices (widgets, focus, sound), engine reads behind identity, localization
and emotes, JSON and logging; the ping wheel, which `main.lua` does not load; installers,
build scripts, the bundled UE4SS, the explorer mod, and the documents' probes. `PROJECT.json` gives a reason for each.
