--------------------------- MODULE PresenceChain ---------------------------
(***************************************************************************)
(* One player's chat module and sidecar, the relay, and the sockets of     *)
(* other players: the path a room change takes up and a snapshot takes     *)
(* back, with everything that may overtake it.  The relay is Relay, the    *)
(* game side ChatRoom, the process between them Sidecar; they share the    *)
(* IPC files and the queues of each socket.                                *)
(***************************************************************************)
EXTENDS Integers, Sequences, FiniteSets

CONSTANTS
  Seed, NoSeed, NoRoom, NoTeam, NoUser, NoSocket, Malformed,
  Friendly, Fallback, Named, Role, Audience, MaxRetries, MaxRev, MaxLines, MaxGame,
  MySocket,        \* the connections this sidecar may open, one at a time
  Peer,            \* the sockets of other players
  PeerName, PeerJoin,
  PeerTalks,       \* whether other players write chat
  MaxUp, MaxInbox, MaxDown,
  MaxTrouble       \* bound on peers' actions, lost connections and restarts

VARIABLES
  game, played, over, cur, rev, gate, presence, heard, clock, outbox, inbox,
  cache, link, up,
  state, ctx, rooms, conns, down, serving,
  trouble

Socket == MySocket \cup Peer
Room == {IF seed < 0 THEN -seed ELSE seed : seed \in Seed}

\* Those who join, and what a join may ask for once the relay has normalised it.
Player == {Friendly, Fallback, PeerName}
AnyJoin == [room : Room \cup {NoRoom, Malformed}, user : Player, team : {0, 1, NoTeam},
            spectator : BOOLEAN, reveal : BOOLEAN, rev : Nat]

\* All sockets count against one address here, and the cap leaves room for
\* them: refusals are Relay's subject.
C == INSTANCE ChatRoom
S == INSTANCE Sidecar
R == INSTANCE Relay WITH Ip <- {"ip"}, IpOf <- [s \in Socket |-> "ip"],
                         User <- Player, JoinMsg <- AnyJoin,
                         MaxConnsPerIp <- Cardinality(Socket)

ASSUME ChainConstants ==
  /\ C!ChatRoomConstants /\ S!SidecarConstants
  /\ MySocket \cap Peer = {} /\ IsFiniteSet(Socket)
  /\ MaxTrouble \in Nat /\ MaxDown \in Nat
  /\ {NoRoom, Malformed} \cap Room = {} /\ NoRoom # Malformed
  /\ NoUser \notin Player /\ PeerJoin \subseteq AnyJoin

chatSide  == <<game, played, over, cur, rev, gate, presence, heard, clock>>
relaySide == <<state, ctx, rooms, conns, serving>>
vars == <<game, played, over, cur, rev, gate, presence, heard, clock, outbox, inbox,
          cache, link, up, state, ctx, rooms, conns, down, serving, trouble>>

\* The other players' clients have connected before: R!Init after R!Connect.
PeersIn ==
  /\ state = [s \in Socket |-> IF s \in Peer THEN "open" ELSE "absent"]
  /\ conns = [i \in {"ip"} |-> Cardinality(Peer)]
  /\ ctx = [s \in Socket |-> R!NoContext]
  /\ rooms = [r \in {} |-> {}]
  /\ down = [s \in Socket |-> <<>>]
  /\ serving = TRUE

Init == C!Init /\ S!Init /\ PeersIn /\ trouble = 0

----------------------------------------------------------------------------
(* Frames nobody listens to: those of other players, who are not observed, *)
(* and of connections the sidecar has given up.  They are gone at once.    *)

Unheard == {s \in Socket \ {link.sock} : down[s] # <<>>}

Drain ==
  /\ Unheard # {}
  /\ down' = [s \in Socket |-> IF s = link.sock THEN down[s] ELSE <<>>]
  /\ UNCHANGED <<chatSide, outbox, inbox, cache, link, up, relaySide, trouble>>

Quiet == Unheard = {}

Trouble == trouble < MaxTrouble /\ trouble' = trouble + 1

----------------------------------------------------------------------------
(* The game and the sidecar *)

Others == <<cache, link, up, down, relaySide, trouble>>

EngineStep == Quiet /\ C!Engine /\ UNCHANGED Others
LuaStep    == Quiet /\ C!Lua /\ UNCHANGED Others
TickStep   == Quiet /\ C!TickMatchProbe /\ UNCHANGED Others
ReadStep   == Quiet /\ C!ReadInbox /\ UNCHANGED Others

LineStep    == Quiet /\ S!HandleLine /\ UNCHANGED <<chatSide, relaySide, trouble>>
MessageStep == Quiet /\ S!OnMessage /\ UNCHANGED <<chatSide, relaySide, trouble>>
OpenStep    == Quiet /\ S!OnOpen /\ UNCHANGED <<chatSide, relaySide, trouble>>

\* The relay accepts the connection the sidecar dials.
DialStep ==
  \E s \in MySocket :
    /\ Quiet /\ up[s] = <<>>
    /\ S!Dial(s)
    /\ R!Connect(s)
    /\ UNCHANGED <<chatSide, trouble>>

\* The relay has begun to close and the sidecar has read all it sent before.
ClosingStep ==
  /\ Quiet /\ S!OnClosing
  /\ state[link.sock] = "closing" /\ down[link.sock] = <<>>
  /\ UNCHANGED <<chatSide, relaySide, trouble>>

\* The relay's end is gone: the sidecar learns it from the connection, or from
\* a pong that never comes.
HangUpStep ==
  /\ Quiet /\ S!OnClose
  /\ state[link.sock] = "absent" \/ link.state = "closing"
  /\ UNCHANGED <<chatSide, relaySide, trouble>>

\* The network fails under a live connection; the relay may not notice.
BreakStep ==
  /\ Quiet /\ Trouble
  /\ S!OnClose
  /\ UNCHANGED <<chatSide, relaySide>>

----------------------------------------------------------------------------
(* The relay *)

\* The next message on s; one that is refused or finds no handler has no effect.
Handle(s, m) ==
  CASE m.type = "join" -> R!Join(s, m.context)
    [] m.type = "leave" -> R!Leave(s)
    [] m.type = "chat" /\ m.audience = "all" /\ R!InRoom(s) -> R!ChatAll(s)
    [] m.type = "chat" /\ m.audience = "team" /\ R!InRoom(s) /\ R!MayTarget(s, m.target) ->
         R!ChatTeam(s, m.target)
    [] OTHER -> UNCHANGED <<relaySide, down>>

RelayStep(s) ==
  /\ Quiet /\ up[s] # <<>> /\ R!Attached(s)
  /\ Handle(s, Head(up[s]))
  /\ up' = [up EXCEPT ![s] = Tail(@)]
  /\ UNCHANGED <<chatSide, outbox, inbox, cache, link, trouble>>

Apart == <<chatSide, outbox, inbox, cache, link>>

\* A close frame ends a connection after what was sent before it; a connection
\* that breaks takes the rest along.
RelayClose(s) ==
  /\ Quiet
  /\ \/ state[s] = "closing" /\ UNCHANGED trouble
     \/ state[s] = "open" /\ Trouble
  /\ R!Close(s)
  /\ up' = [up EXCEPT ![s] = <<>>]
  /\ UNCHANGED Apart

\* One message too many: it is dropped and the connection is closed.  As long
\* as the window lasts, so is what follows; then messages are handled again,
\* until the close handshake ends.
RateLimited(s) ==
  /\ Quiet /\ up[s] # <<>>
  /\ \/ R!BeginClose(s) /\ Trouble
     \/ state[s] = "closing" /\ UNCHANGED <<relaySide, down, trouble>>
  /\ up' = [up EXCEPT ![s] = Tail(@)]
  /\ UNCHANGED Apart

RelayRestarts ==
  /\ Quiet /\ Trouble
  /\ R!Restart
  /\ up' = [s \in MySocket |-> <<>>]
  /\ UNCHANGED Apart

\* Other players do whatever the protocol allows.
PeerStep ==
  /\ Quiet /\ Trouble
  /\ \E p \in Peer :
       \/ R!Connect(p) \/ R!Leave(p) \/ R!Close(p)
       \/ \E m \in PeerJoin : R!Join(p, m)
       \/ PeerTalks /\ R!ChatAll(p)
  /\ UNCHANGED <<Apart, up>>

Next ==
  \/ Drain
  \/ EngineStep \/ LuaStep
  \/ LineStep \/ MessageStep \/ OpenStep \/ DialStep \/ ClosingStep \/ HangUpStep \/ BreakStep
  \/ \E s \in MySocket : RelayStep(s) \/ RelayClose(s) \/ RateLimited(s)
  \/ RelayRestarts
  \/ PeerStep

Spec == Init /\ [][Next]_vars

LuaLoop == TickStep \/ ReadStep
SidecarLoop == LineStep \/ MessageStep \/ OpenStep \/ DialStep \/ ClosingStep \/ HangUpStep
RelayLoop == \E s \in MySocket : RelayStep(s)

\* What keeps running: the 30 ms loop of Lua, the sidecar's event loop with its
\* file watch, reconnect timer and keepalive, and the relay's.  Nothing makes
\* the engine, the player, other players or the network's failures happen.
Fairness == WF_vars(Drain) /\ WF_vars(LuaLoop) /\ WF_vars(SidecarLoop) /\ WF_vars(RelayLoop)

FairSpec == Spec /\ Fairness

----------------------------------------------------------------------------
(* Properties *)

IsMe(m) == m.user \in {Friendly, Fallback}

SameSide(m) == ~cur.spectator /\ cur.team \in C!Team /\ ~m.spectator /\ m.team = cur.team

\* Before the gameplay of its match has been observed, the chat list shows a
\* player only its own side: whatever was queued, delayed, replayed by a
\* reconnect or left in the inbox when seed, team or role changed
\* (docs/learnings/chat-pregame-presence-privacy.md; chat.lua setPresence).
PregamePrivacy ==
  \A m \in presence : IsMe(m) \/ SameSide(m) \/ cur.seed \in played

\* Every snapshot between the relay and the chat module.
InFlight ==
  {inbox[i] : i \in 1..Len(inbox)}
    \cup UNION {{down[s][i] : i \in 1..Len(down[s])} : s \in MySocket}

\* What the tags stand for: a snapshot that carries the present room, revision
\* and permission was built for the present user, team and role.  Lua and the
\* sidecar compare only the tags.
TagsIdentifyContext ==
  \A f \in InFlight : f.kind = "presence" =>
    /\ C!Accepts(f) => f.to = [user |-> cur.user, team |-> cur.team, spectator |-> cur.spectator]
    /\ S!MatchesCache(f) => f.to = [user |-> cache.user, team |-> cache.team,
                                    spectator |-> cache.spectator]

\* A line meets the relay in the room it was typed in, whatever rooms were
\* joined, left or rejoined on the way, and with no room if there was none.
\* (Once the rate limit has dropped a join or a leave and is closing the
\* connection, this no longer holds: a line that comes after the window goes to
\* the room the relay still has for the socket.)
TalkStaysInItsRoom ==
  \A s \in MySocket : up[s] # <<>> /\ Head(up[s]).type = "chat" /\ state[s] = "open" =>
    ctx[s].room = Head(up[s]).tag

\* What the relay has to know of this player in the present room.
Mine == [room |-> cur.room, user |-> cur.user, team |-> cur.team,
         spectator |-> cur.spectator, reveal |-> cur.reveal, rev |-> rev]

\* tryJoinRoom has asked for the present room and not found anything new since.
Joined == cur.room # NoRoom /\ cur.seed # NoSeed

OnlyTalk(q) == \A i \in 1..Len(q) : q[i].type = "chat"

NoSnapshots(q) == \A i \in 1..Len(q) : q[i].kind # "presence"

\* The connection is up and no change of room is under way on it.
Arrived ==
  /\ link.state = "open" /\ state[link.sock] = "open"
  /\ OnlyTalk(outbox) /\ OnlyTalk(up[link.sock])

\* Where nothing is under way any more, nothing has been lost: the relay has this
\* player where Lua is, as Lua is, and the list on screen is the one the members
\* of the room call for.  There is no later snapshot to make up for one that
\* the sidecar or Lua has dropped as stale (setPresence, presenceMatchesCurrentContext).
CaughtUp ==
  Arrived =>
    /\ ctx[link.sock].room = cur.room
    /\ Joined => ctx[link.sock] = Mine
    /\ Joined /\ NoSnapshots(inbox) /\ NoSnapshots(down[link.sock]) =>
         /\ R!MustList(link.sock) \subseteq presence
         /\ presence \subseteq R!MayList(link.sock)

\* chat.lua:972: "Clears chat history so old match's messages don't leak into
\* the next one": what is shown in a room was not said in a match that ended
\* before.  The code does not keep this promise: addMessage takes a line that
\* was still on its way when the match ended.
NoOldMatchTalk ==
  cur.room # NoRoom => heard \cap over \subseteq {cur.room}

\* The snapshot the relay would build for this player now.
Listed ==
  {R!MemberOf(ctx[m]) : m \in R!Disclosed(link.sock, rooms[cur.room], ctx)}

\* The list on screen is the relay's, and there is none outside a match.
Settled ==
  IF game.seed = NoSeed
  THEN cur.room = NoRoom /\ presence = {}
  ELSE /\ cur.seed = game.seed /\ cur.team = C!LocalTeam /\ cur.user = C!Username
       /\ link.state = "open" /\ cur.room \in DOMAIN rooms /\ link.sock \in rooms[cur.room]
       /\ presence = Listed

\* Lua's loop has nothing left to do about the room.
LuaRests ==
  IF C!InMatch THEN ~clock.probe /\ ~clock.delay /\ C!Wanted = C!CurNow ELSE ~clock.inMatch

\* No line, message or snapshot is under way, and no socket is being closed.
AllQuiet ==
  /\ LuaRests /\ outbox = <<>> /\ inbox = <<>>
  /\ link.state = "open" /\ state[link.sock] = "open"
  /\ up[link.sock] = <<>> /\ down[link.sock] = <<>>
  /\ \A s \in Socket : state[s] # "closing"

\* The chain comes to rest nowhere else: where no timer, file or queue has
\* anything left to give, there is no stale list or forgotten room that only
\* a later event would put right.
RestsSettled == AllQuiet => Settled

\* Once engine, players and network leave it alone, the chain settles: no lost
\* connection, retry or dropped snapshot leaves a player with a stale list.
EventuallySettled == <>[]Settled
=============================================================================
