------------------------------- MODULE Relay -------------------------------
(***************************************************************************)
(* The WebSocket half of the relay, server/index.js: connections counted   *)
(* per address, rooms as in-memory sets of sockets, and the fan-out of     *)
(* presence snapshots, chat and pings.  Node runs every handler to its     *)
(* end, so a handler is one action.                                        *)
(*                                                                         *)
(* Abstracted: JSON, names and texts (a name is a model value), the clock  *)
(* of the rate limit (any message may be one too many), and the replies    *)
(* "joined", "left", "error", which the sidecar only logs.  A message that *)
(* is rejected with an error or dropped (bad JSON, unknown type, bad       *)
(* audience, empty text) changes nothing and is a stuttering step.         *)
(***************************************************************************)
EXTENDS Integers, Sequences, FiniteSets

CONSTANTS
  Socket,          \* server-side socket objects
  Ip,              \* client addresses
  IpOf,            \* the address a socket connects from
  Room,            \* room codes that match ROOM_CODE_RE
  User,            \* sanitized usernames
  JoinMsg,         \* the join requests clients send
  MaxConnsPerIp,   \* MAX_CONNS_PER_IP
  MaxDown,         \* bound on the frames queued towards one socket
  NoRoom, Malformed, NoTeam, NoUser

Team == {0, 1}
Open == "open"

\* What the relay remembers of a member: ws._room, ws._username, ws._team, ...
Context == [room: Room \cup {NoRoom}, user: User \cup {NoUser}, team: Team \cup {NoTeam},
            spectator: BOOLEAN, reveal: BOOLEAN, rev: Nat]

\* A join as it stands after normalisation.  NoRoom: the field is absent;
\* Malformed: the code fails ROOM_CODE_RE.
JoinType == [room: Room \cup {NoRoom, Malformed}, user: User, team: Team \cup {NoTeam},
             spectator: BOOLEAN, reveal: BOOLEAN, rev: Nat]

Member == [user: User \cup {NoUser}, team: Team \cup {NoTeam}, spectator: BOOLEAN]

\* Frames towards a client.  Only the user part of a member is on the wire;
\* the roles they had when the frame was built, and the fields "to" and (for
\* chat) "room", are history that properties refer to.
PresenceFrame == [kind: {"presence"}, room: Room, members: SUBSET Member,
                  rev: Nat, reveal: BOOLEAN, to: Member]
TalkFrame == [kind: {"chat", "ping"}, room: Room, from: Member, to: Member,
              audience: {"all", "team"}, target: Team \cup {NoTeam}]
Frame == PresenceFrame \cup TalkFrame

ASSUME RelayConstants ==
  /\ IpOf \in [Socket -> Ip]
  /\ JoinMsg \subseteq JoinType
  /\ MaxConnsPerIp \in Nat /\ MaxDown \in Nat
  /\ {NoRoom, Malformed} \cap Room = {}
  /\ NoRoom # Malformed
  /\ NoTeam \notin Team
  /\ NoUser \notin User

ASSUME SocketsFinite == IsFiniteSet(Socket)

VARIABLES
  state,     \* readyState; "refused": closed by the cap, no handlers attached
  ctx,       \* the fields of each socket object
  rooms,     \* Map roomCode -> Set<ws>; its domain are the rooms that exist
  conns,     \* Map ip -> count; a missing entry is 0
  down,      \* frames sent to a socket and not yet received by its client
  serving    \* FALSE once shutdown() has been called

relayVars == <<state, ctx, rooms, conns, down, serving>>

NoContext == [room |-> NoRoom, user |-> NoUser, team |-> NoTeam,
              spectator |-> FALSE, reveal |-> FALSE, rev |-> 0]

Init ==
  /\ state = [s \in Socket |-> "absent"]
  /\ ctx = [s \in Socket |-> NoContext]
  /\ rooms = [r \in {} |-> {}]
  /\ conns = [i \in Ip |-> 0]
  /\ down = [s \in Socket |-> <<>>]
  /\ serving = TRUE

\* Sockets whose message and close handlers are attached.
Attached(s) == state[s] \in {Open, "closing"}

\* A handler step sends at most two frames to one socket.
Capacity == \A s \in Socket : Len(down[s]) + 2 <= MaxDown

----------------------------------------------------------------------------
(* Presence *)

MemberOf(c) == [user |-> c.user, team |-> c.team, spectator |-> c.spectator]

IsPlayer(c) == ~c.spectator /\ c.team \in Team

\* The names broadcastPresence discloses to r among the members of its room.
Disclosed(r, members, cs) ==
  {m \in members : /\ state[m] = Open
                   /\ \/ m = r
                      \/ cs[r].reveal
                      \/ IsPlayer(cs[r]) /\ ~cs[m].spectator /\ cs[m].team = cs[r].team}

Snapshot(r, room, members, cs) ==
  [kind |-> "presence", room |-> room,
   members |-> {MemberOf(cs[m]) : m \in Disclosed(r, members, cs)},
   rev |-> cs[r].rev, reveal |-> cs[r].reveal, to |-> MemberOf(cs[r])]

\* The queues q after broadcastPresence(room): every open member gets its own.
WithPresence(q, room, members, cs) ==
  [r \in Socket |-> IF r \in members /\ state[r] = Open
                    THEN Append(q[r], Snapshot(r, room, members, cs))
                    ELSE q[r]]

----------------------------------------------------------------------------
(* removeFromRoom *)

InRoom(s) == ctx[s].room # NoRoom

Rest(s) == rooms[ctx[s].room] \ {s}

CtxLeft(s) ==
  [ctx EXCEPT ![s] = [@ EXCEPT !.room = NoRoom, !.reveal = FALSE, !.rev = 0]]

MutRoomsLeft_KeepsEmpty(s) ==
  IF InRoom(s) THEN [rooms EXCEPT ![ctx[s].room] = Rest(s)] ELSE rooms

RoomsLeft(s) ==
  CASE ~InRoom(s) -> rooms
    [] InRoom(s) /\ Rest(s) = {} -> [r \in DOMAIN rooms \ {ctx[s].room} |-> rooms[r]]
    [] OTHER -> [rooms EXCEPT ![ctx[s].room] = Rest(s)]

MutDownLeft_Silent(s) == down

DownLeft(s) ==
  IF InRoom(s) /\ Rest(s) # {}
  THEN WithPresence(down, ctx[s].room, Rest(s), CtxLeft(s))
  ELSE down

----------------------------------------------------------------------------
(* Connections *)

\* wss.on("connection"): over the cap the socket is closed before any handler
\* is attached and the count stays; otherwise the socket object starts afresh.
Connect(s) ==
  /\ serving /\ state[s] = "absent"
  /\ ctx' = [ctx EXCEPT ![s] = NoContext]
  /\ IF conns[IpOf[s]] + 1 > MaxConnsPerIp
     THEN /\ state' = [state EXCEPT ![s] = "refused"]
          /\ UNCHANGED conns
     ELSE /\ state' = [state EXCEPT ![s] = Open]
          /\ conns' = [conns EXCEPT ![IpOf[s]] = @ + 1]
  /\ UNCHANGED <<rooms, down, serving>>

\* A refused socket finishes closing; nothing was registered for it.
RefusedGone(s) ==
  /\ state[s] = "refused"
  /\ state' = [state EXCEPT ![s] = "absent"]
  /\ UNCHANGED <<ctx, rooms, conns, down, serving>>

\* The client's close frame arrives, or the rate limit calls ws.close(): the
\* socket is CLOSING, still a member, and still receives messages.
BeginClose(s) ==
  /\ state[s] = Open
  /\ state' = [state EXCEPT ![s] = "closing"]
  /\ UNCHANGED <<ctx, rooms, conns, down, serving>>

MutCloseHandler_KeepsCount(s) ==
  /\ state' = [state EXCEPT ![s] = "absent"]
  /\ ctx' = [ctx EXCEPT ![s] = NoContext]
  /\ rooms' = RoomsLeft(s)
  /\ down' = [DownLeft(s) EXCEPT ![s] = <<>>]
  /\ UNCHANGED conns

CloseHandler(s) ==
  /\ state' = [state EXCEPT ![s] = "absent"]
  /\ ctx' = [ctx EXCEPT ![s] = NoContext]
  /\ rooms' = RoomsLeft(s)
  /\ down' = [DownLeft(s) EXCEPT ![s] = <<>>]
  /\ conns' = [conns EXCEPT ![IpOf[s]] = IF @ > 0 THEN @ - 1 ELSE 0]

\* ws.on("close"), after a handshake or because the TCP connection broke: what
\* the client has not received by now it never will, and the socket object goes.
Close(s) ==
  /\ Attached(s) /\ Capacity
  /\ CloseHandler(s)
  /\ UNCHANGED serving

----------------------------------------------------------------------------
(* Messages *)

MutJoinTargets_AnyCode(m) == IF m.room = NoRoom THEN Room ELSE {m.room}

\* The rooms a join may land in: none for a malformed code, a random one
\* (generateRoomCode) when no code is given.
JoinTargets(m) ==
  CASE m.room = Malformed -> {}
    [] m.room = NoRoom -> Room
    [] OTHER -> {m.room}

JoinedCtx(s, room, m) ==
  [CtxLeft(s) EXCEPT ![s] = [room |-> room, user |-> m.user, team |-> m.team,
                             spectator |-> m.spectator, reveal |-> m.reveal, rev |-> m.rev]]

JoinedRooms(s, room) ==
  LET left == RoomsLeft(s) IN
  [r \in DOMAIN left \cup {room} |->
     (IF r \in DOMAIN left THEN left[r] ELSE {}) \cup (IF r = room THEN {s} ELSE {})]

\* case "join": out of the old room first, whatever the new code is worth.
Join(s, m) ==
  /\ Attached(s) /\ Capacity
  /\ \/ /\ JoinTargets(m) = {}
        /\ ctx' = CtxLeft(s) /\ rooms' = RoomsLeft(s) /\ down' = DownLeft(s)
     \/ \E room \in JoinTargets(m) :
          /\ ctx' = JoinedCtx(s, room, m)
          /\ rooms' = JoinedRooms(s, room)
          /\ down' = WithPresence(DownLeft(s), room, JoinedRooms(s, room)[room],
                                  JoinedCtx(s, room, m))
  /\ UNCHANGED <<state, conns, serving>>

\* case "leave"
Leave(s) ==
  /\ Attached(s) /\ Capacity
  /\ ctx' = CtxLeft(s) /\ rooms' = RoomsLeft(s) /\ down' = DownLeft(s)
  /\ UNCHANGED <<state, conns, serving>>

Target(s, target) == IF target = NoTeam THEN ctx[s].team ELSE target

MutWithTalk_Echo(s, kind, audience, target, hearers) ==
  [r \in Socket |->
     IF r \in rooms[ctx[s].room] \cap hearers /\ state[r] = Open
     THEN Append(down[r], [kind |-> kind, room |-> ctx[s].room, from |-> MemberOf(ctx[s]),
                           to |-> MemberOf(ctx[r]), audience |-> audience, target |-> target])
     ELSE down[r]]

\* Talk from s to the hearers among the members of its room, never to s itself.
WithTalk(s, kind, audience, target, hearers) ==
  [r \in Socket |->
     IF r \in (rooms[ctx[s].room] \ {s}) \cap hearers /\ state[r] = Open
     THEN Append(down[r], [kind |-> kind, room |-> ctx[s].room, from |-> MemberOf(ctx[s]),
                           to |-> MemberOf(ctx[r]), audience |-> audience, target |-> target])
     ELSE down[r]]

MutMayTarget_Anyone(s, target) == Target(s, target) # NoTeam

\* A player may only address its own team; a spectator either.
MayTarget(s, target) ==
  /\ Target(s, target) # NoTeam
  /\ ctx[s].spectator \/ Target(s, target) = ctx[s].team

\* case "chat"
ChatAll(s) ==
  /\ Attached(s) /\ InRoom(s) /\ Capacity
  /\ down' = WithTalk(s, "chat", "all", NoTeam, Socket)
  /\ UNCHANGED <<state, ctx, rooms, conns, serving>>

ChatTeam(s, target) ==
  /\ Attached(s) /\ InRoom(s) /\ Capacity
  /\ MayTarget(s, target)
  /\ down' = WithTalk(s, "chat", "team", Target(s, target),
                      {r \in Socket : ctx[r].team = Target(s, target)})
  /\ UNCHANGED <<state, ctx, rooms, conns, serving>>

\* case "ping"
Ping(s) ==
  /\ Attached(s) /\ InRoom(s) /\ Capacity
  /\ down' = WithTalk(s, "ping", "all", NoTeam, Socket)
  /\ UNCHANGED <<state, ctx, rooms, conns, serving>>

----------------------------------------------------------------------------
(* Process lifecycle *)

\* shutdown(sig): every client is asked to close and no new one is accepted.
Shutdown ==
  /\ serving
  /\ serving' = FALSE
  /\ state' = [s \in Socket |-> IF state[s] = Open THEN "closing" ELSE state[s]]
  /\ UNCHANGED <<ctx, rooms, conns, down>>

\* process.exit, after the drain or five seconds, or a crash at any moment;
\* the service manager starts it again with empty maps.  (A frame that still
\* reaches its client could as well have been received just before.)
Restart ==
  /\ state' = [s \in Socket |-> "absent"]
  /\ ctx' = [s \in Socket |-> NoContext]
  /\ rooms' = [r \in {} |-> {}]
  /\ conns' = [i \in Ip |-> 0]
  /\ down' = [s \in Socket |-> <<>>]
  /\ serving' = TRUE

\* The network: the client of s receives the oldest frame sent to it.
Deliver(s) ==
  /\ down[s] # <<>>
  /\ down' = [down EXCEPT ![s] = Tail(@)]
  /\ UNCHANGED <<state, ctx, rooms, conns, serving>>

Next ==
  \/ \E s \in Socket : \/ Connect(s) \/ RefusedGone(s) \/ BeginClose(s) \/ Close(s)
                       \/ Leave(s) \/ ChatAll(s) \/ Ping(s) \/ Deliver(s)
  \/ \E s \in Socket, m \in JoinMsg : Join(s, m)
  \/ \E s \in Socket, t \in Team \cup {NoTeam} : ChatTeam(s, t)
  \/ Shutdown
  \/ Restart

Spec == Init /\ [][Next]_relayVars

----------------------------------------------------------------------------
(* Properties *)

\* The types of the relay's maps and socket fields (server/index.js 89-90, 298-306).
TypeOK ==
  /\ state \in [Socket -> {"absent", "refused", Open, "closing"}]
  /\ ctx \in [Socket -> Context]
  /\ DOMAIN rooms \subseteq Room
  /\ rooms \in [DOMAIN rooms -> SUBSET Socket]
  /\ conns \in [Ip -> Nat]
  /\ down \in [Socket -> Seq(Frame)]
  /\ serving \in BOOLEAN

\* The two records of membership never disagree: a socket is in the set of a
\* room exactly when its own _room says so, only sockets with a close handler
\* are members (or nobody would ever take them out), and a room without
\* members is gone from the map (removeFromRoom, join, close in any order).
MembershipAgrees ==
  /\ \A r \in DOMAIN rooms : rooms[r] # {}
  /\ \A r \in DOMAIN rooms : \A s \in rooms[r] : ctx[s].room = r /\ Attached(s)
  /\ \A s \in Socket : InRoom(s) => ctx[s].room \in DOMAIN rooms /\ s \in rooms[ctx[s].room]

AttachedFrom(i) == {s \in Socket : IpOf[s] = i /\ Attached(s)}

\* connsPerIp counts exactly the sockets that will run the close handler, so
\* no sequence of connects, refusals and closes leaks a slot or frees one twice,
\* and an address never has more live sockets than the cap.
ConnectionsCounted ==
  \A i \in Ip : conns[i] = Cardinality(AttachedFrom(i)) /\ conns[i] <= MaxConnsPerIp

IsPresence(f) == f.kind = "presence"

\* The members a snapshot for r must list, and those it may: a member that
\* began closing after the snapshot was built is still in it.
MustList(r) ==
  {MemberOf(ctx[m]) : m \in Disclosed(r, rooms[ctx[r].room], ctx)}
MayList(r) ==
  {MemberOf(ctx[m]) : m \in {x \in rooms[ctx[r].room] :
     \/ x = r \/ ctx[r].reveal
     \/ IsPlayer(ctx[r]) /\ ~ctx[x].spectator /\ ctx[x].team = ctx[r].team}}

\* What a client will believe once it has read its queue q: the snapshot at i.
LastPresence(q, i) == IsPresence(q[i]) /\ \A j \in i + 1..Len(q) : ~IsPresence(q[j])

Current(s, f) ==
  /\ f.room = ctx[s].room /\ f.rev = ctx[s].rev /\ f.reveal = ctx[s].reveal
  /\ MustList(s) \subseteq f.members
  /\ f.members \subseteq MayList(s)

\* After any interleaving of joins, leaves and closes, the last snapshot on its
\* way to an open member is about its present room, revision and permission and
\* lists the members it may see: no change of membership goes untold.
LastSnapshotCurrent ==
  \A s \in Socket : state[s] = Open /\ InRoom(s) =>
    \A i \in 1..Len(down[s]) : LastPresence(down[s], i) => Current(s, down[s][i])

\* A team message comes from that team or from a spectator of the room, and is
\* queued only for sockets that were on that team: neither an explicit target
\* nor the fallback to the sender's team gives a player the other side's ear.
TeamTalkConfined ==
  \A s \in Socket : \A i \in 1..Len(down[s]) :
    LET f == down[s][i] IN
    ~IsPresence(f) /\ f.audience = "team" =>
      /\ f.target \in Team
      /\ f.to.team = f.target
      /\ f.from.spectator \/ f.from.team = f.target

\* The books (the map of rooms, the counter) and the handlers that keep them
\* amount to a service without books: whoever is left, joined or closed upon, in
\* whatever order, the clients are told, refused and talked to as RoomService says.
Service == INSTANCE RoomService WITH who <- ctx, phase <- state, mail <- down

IsRoomService == Service!Spec
=============================================================================
