---------------------------- MODULE RelayProofs ----------------------------
(***************************************************************************)
(* Theorems about Relay, for any number of sockets, rooms and addresses.   *)
(*                                                                         *)
(* MembershipAgrees is not needed for the connection count, but TypeOK is  *)
(* inductive only together with it: removeFromRoom looks up the room that  *)
(* the socket believes it is in, and that lookup must find a room.         *)
(*                                                                         *)
(* The last section shows that the relay implements RoomService, which has *)
(* neither the map of rooms nor the count of connections.                  *)
(***************************************************************************)
EXTENDS Relay, FiniteSetTheorems, TLAPS

Consistent == TypeOK /\ MembershipAgrees

----------------------------------------------------------------------------
(* What the helpers of the handlers return *)

\* A snapshot is a frame (broadcastPresence).
LEMMA SnapshotType ==
  ASSUME NEW cs \in [Socket -> Context], NEW members \in SUBSET Socket,
         NEW room \in Room, NEW r \in Socket
  PROVE  Snapshot(r, room, members, cs) \in PresenceFrame
<1>1. \A m \in Socket : MemberOf(cs[m]) \in Member
  BY DEF MemberOf, Member, Context
<1>2. Disclosed(r, members, cs) \subseteq Socket
  BY DEF Disclosed
<1>3. {MemberOf(cs[m]) : m \in Disclosed(r, members, cs)} \in SUBSET Member
  BY <1>1, <1>2
<1>4. cs[r].rev \in Nat /\ cs[r].reveal \in BOOLEAN
  BY DEF Context
<1>5. QED
  BY <1>1, <1>3, <1>4 DEF Snapshot, PresenceFrame

\* Queues stay queues of frames when everybody in a room gets a snapshot.
LEMMA WithPresenceType ==
  ASSUME NEW q \in [Socket -> Seq(Frame)], NEW cs \in [Socket -> Context],
         NEW members \in SUBSET Socket, NEW room \in Room
  PROVE  WithPresence(q, room, members, cs) \in [Socket -> Seq(Frame)]
<1>1. \A r \in Socket : Snapshot(r, room, members, cs) \in Frame
  BY SnapshotType DEF Frame
<1>2. \A r \in Socket : Append(q[r], Snapshot(r, room, members, cs)) \in Seq(Frame)
  BY <1>1
<1>3. QED
  BY <1>2 DEF WithPresence

\* removeFromRoom leaves well-typed maps and queues.
LEMMA LeftTypes ==
  ASSUME Consistent, NEW s \in Socket
  PROVE  /\ CtxLeft(s) \in [Socket -> Context]
         /\ DOMAIN RoomsLeft(s) \subseteq Room
         /\ RoomsLeft(s) \in [DOMAIN RoomsLeft(s) -> SUBSET Socket]
         /\ DownLeft(s) \in [Socket -> Seq(Frame)]
<1> USE DEF Consistent, TypeOK, MembershipAgrees
<1>1. CtxLeft(s) \in [Socket -> Context]
  <2> DEFINE c == [ctx[s] EXCEPT !.room = NoRoom, !.reveal = FALSE, !.rev = 0]
  <2>1. ctx[s] \in Context
    OBVIOUS
  <2>2. c \in Context
    BY <2>1 DEF Context
  <2>3. CtxLeft(s) = [ctx EXCEPT ![s] = c]
    BY DEF CtxLeft
  <2>4. QED
    BY <2>2, <2>3
<1>2. InRoom(s) => /\ ctx[s].room \in DOMAIN rooms
                   /\ ctx[s].room \in Room
                   /\ Rest(s) \in SUBSET Socket
  BY DEF Rest
<1>3. DOMAIN RoomsLeft(s) \subseteq Room /\ RoomsLeft(s) \in [DOMAIN RoomsLeft(s) -> SUBSET Socket]
  <2>1. CASE ~InRoom(s)
    BY <2>1 DEF RoomsLeft
  <2>2. CASE InRoom(s) /\ Rest(s) = {}
    BY <2>2 DEF RoomsLeft
  <2>3. CASE InRoom(s) /\ Rest(s) # {}
    <3>1. RoomsLeft(s) = [rooms EXCEPT ![ctx[s].room] = Rest(s)]
      BY <2>3 DEF RoomsLeft
    <3>2. QED
      BY <3>1, <1>2, <2>3
  <2>4. QED
    BY <2>1, <2>2, <2>3
<1>4. DownLeft(s) \in [Socket -> Seq(Frame)]
  BY <1>1, <1>2, WithPresenceType DEF DownLeft
<1>5. QED
  BY <1>1, <1>3, <1>4

\* removeFromRoom, pointwise: s is out of every set, the other members stay,
\* and no room is left behind empty.
LEMMA LeftMembers ==
  ASSUME Consistent, NEW s \in Socket
  PROVE  /\ \A x \in Socket : x # s => CtxLeft(s)[x] = ctx[x]
         /\ CtxLeft(s)[s].room = NoRoom
         /\ DOMAIN RoomsLeft(s) \subseteq DOMAIN rooms
         /\ \A r \in DOMAIN RoomsLeft(s) : RoomsLeft(s)[r] = rooms[r] \ {s} /\ RoomsLeft(s)[r] # {}
         /\ \A r \in DOMAIN rooms : rooms[r] # {s} => r \in DOMAIN RoomsLeft(s)
<1> USE DEF Consistent, TypeOK, MembershipAgrees
<1>1. (\A x \in Socket : x # s => CtxLeft(s)[x] = ctx[x]) /\ CtxLeft(s)[s].room = NoRoom
  BY DEF CtxLeft, Context
<1>2. \A r \in DOMAIN rooms : r # ctx[s].room => s \notin rooms[r]
  OBVIOUS
<1>3. CASE ~InRoom(s)
  <2>1. RoomsLeft(s) = rooms
    BY <1>3 DEF RoomsLeft
  <2>2. \A r \in DOMAIN rooms : s \notin rooms[r]
    BY <1>3, RelayConstants DEF InRoom, RelayConstants
  <2>3. QED
    BY <1>1, <2>1, <2>2
<1>4. CASE InRoom(s) /\ Rest(s) = {}
  <2>1. RoomsLeft(s) = [r \in DOMAIN rooms \ {ctx[s].room} |-> rooms[r]]
    BY <1>4 DEF RoomsLeft
  <2>2. rooms[ctx[s].room] = {s}
    BY <1>4 DEF Rest
  <2>3. QED
    BY <1>1, <1>2, <2>1, <2>2
<1>5. CASE InRoom(s) /\ Rest(s) # {}
  <2>1. RoomsLeft(s) = [rooms EXCEPT ![ctx[s].room] = Rest(s)]
    BY <1>5 DEF RoomsLeft
  <2>2. QED
    BY <1>1, <1>2, <1>5, <2>1 DEF Rest
<1>6. QED
  BY <1>3, <1>4, <1>5

\* What join makes of the maps once the socket is out of its old room.
LEMMA JoinedTypes ==
  ASSUME Consistent, NEW s \in Socket, NEW m \in JoinMsg, NEW room \in JoinTargets(m)
  PROVE  /\ room \in Room
         /\ JoinedCtx(s, room, m) \in [Socket -> Context]
         /\ DOMAIN JoinedRooms(s, room) \subseteq Room
         /\ JoinedRooms(s, room) \in [DOMAIN JoinedRooms(s, room) -> SUBSET Socket]
         /\ WithPresence(DownLeft(s), room, JoinedRooms(s, room)[room], JoinedCtx(s, room, m))
              \in [Socket -> Seq(Frame)]
<1>1. m \in JoinType
  BY RelayConstants DEF RelayConstants
<1>2. room \in Room
  <2>1. m.room \in Room \cup {NoRoom, Malformed}
    BY <1>1 DEF JoinType
  <2>2. CASE m.room = Malformed
    BY <2>2 DEF JoinTargets
  <2>3. CASE m.room # Malformed /\ m.room = NoRoom
    BY <2>3 DEF JoinTargets
  <2>4. CASE m.room # Malformed /\ m.room # NoRoom
    BY <2>1, <2>4 DEF JoinTargets
  <2>5. QED
    BY <2>2, <2>3, <2>4
<1>3. JoinedCtx(s, room, m) \in [Socket -> Context]
  <2>1. [room |-> room, user |-> m.user, team |-> m.team, spectator |-> m.spectator,
         reveal |-> m.reveal, rev |-> m.rev] \in Context
    BY <1>1, <1>2 DEF JoinType, Context
  <2>2. QED
    BY <2>1, LeftTypes DEF JoinedCtx
<1>4. /\ DOMAIN JoinedRooms(s, room) = DOMAIN RoomsLeft(s) \cup {room}
      /\ \A r \in DOMAIN JoinedRooms(s, room) : JoinedRooms(s, room)[r] \in SUBSET Socket
  BY LeftTypes DEF JoinedRooms
<1>5. /\ DOMAIN JoinedRooms(s, room) \subseteq Room
      /\ JoinedRooms(s, room) \in [DOMAIN JoinedRooms(s, room) -> SUBSET Socket]
  <2>1. DOMAIN JoinedRooms(s, room) \subseteq Room
    BY <1>2, <1>4, LeftTypes
  <2>2. JoinedRooms(s, room) = [r \in DOMAIN JoinedRooms(s, room) |-> JoinedRooms(s, room)[r]]
    BY DEF JoinedRooms
  <2>3. QED
    BY <1>4, <2>1, <2>2
<1>6. WithPresence(DownLeft(s), room, JoinedRooms(s, room)[room], JoinedCtx(s, room, m))
        \in [Socket -> Seq(Frame)]
  BY <1>2, <1>3, <1>4, LeftTypes, WithPresenceType
<1>7. QED
  BY <1>2, <1>3, <1>5, <1>6

\* Chat and pings put frames into queues of frames.
LEMMA WithTalkType ==
  ASSUME TypeOK, NEW s \in Socket, InRoom(s), NEW kind \in {"chat", "ping"},
         NEW audience \in {"all", "team"}, NEW target \in Team \cup {NoTeam}, NEW hearers
  PROVE  WithTalk(s, kind, audience, target, hearers) \in [Socket -> Seq(Frame)]
<1> DEFINE Line(r) == [kind |-> kind, room |-> ctx[s].room, from |-> MemberOf(ctx[s]),
                       to |-> MemberOf(ctx[r]), audience |-> audience, target |-> target]
<1>1. \A r \in Socket : MemberOf(ctx[r]) \in Member
  BY DEF TypeOK, MemberOf, Member, Context
<1>2. ctx[s].room \in Room
  BY DEF TypeOK, InRoom, Context
<1>3. \A r \in Socket : Line(r) \in Frame
  BY <1>1, <1>2 DEF Frame, TalkFrame
<1> HIDE DEF Line
<1>4. \A r \in Socket : down[r] \in Seq(Frame) /\ Append(down[r], Line(r)) \in Seq(Frame)
  BY <1>3 DEF TypeOK
<1>5. QED
  BY <1>4 DEF WithTalk, Line

----------------------------------------------------------------------------
(* Steps that take a socket out of its room, and steps that put it in one *)

\* After removeFromRoom for a socket that is then in no room.
LEMMA LeavingAgrees ==
  ASSUME Consistent, NEW s \in Socket,
         rooms' = RoomsLeft(s), ctx'[s].room = NoRoom,
         \A x \in Socket \ {s} : ctx'[x] = ctx[x] /\ state'[x] = state[x]
  PROVE  MembershipAgrees'
<1> USE DEF Consistent, TypeOK, MembershipAgrees
<1>1. \A r \in DOMAIN rooms' : r \in DOMAIN rooms /\ rooms'[r] = rooms[r] \ {s} /\ rooms'[r] # {}
  BY LeftMembers
<1>2. \A r \in DOMAIN rooms' : \A x \in rooms'[r] : ctx'[x].room = r /\ Attached(x)'
  BY <1>1 DEF Attached
<1>3. ASSUME NEW x \in Socket, InRoom(x)'
      PROVE  ctx'[x].room \in DOMAIN rooms' /\ x \in rooms'[ctx'[x].room]
  <2>1. x # s /\ ctx'[x] = ctx[x] /\ InRoom(x)
    BY <1>3 DEF InRoom
  <2>2. ctx[x].room \in DOMAIN rooms /\ x \in rooms[ctx[x].room]
    BY <2>1
  <2>3. ctx[x].room \in DOMAIN rooms'
    BY <2>1, <2>2, LeftMembers
  <2>4. QED
    BY <1>1, <2>1, <2>2, <2>3
<1>4. QED
  BY <1>1, <1>2, <1>3

\* After a join that lands in a room.
LEMMA JoiningAgrees ==
  ASSUME Consistent, NEW s \in Socket, Attached(s), NEW m \in JoinMsg,
         NEW room \in JoinTargets(m),
         rooms' = JoinedRooms(s, room), ctx' = JoinedCtx(s, room, m), state' = state
  PROVE  MembershipAgrees'
<1> USE DEF Consistent, TypeOK, MembershipAgrees
<1>1. room \in Room /\ room # NoRoom
  BY JoinedTypes, RelayConstants DEF RelayConstants
<1>2. DOMAIN rooms' = DOMAIN RoomsLeft(s) \cup {room}
  BY DEF JoinedRooms
<1>3. \A r \in DOMAIN rooms' :
        rooms'[r] = (IF r \in DOMAIN RoomsLeft(s) THEN RoomsLeft(s)[r] ELSE {})
                      \cup (IF r = room THEN {s} ELSE {})
  BY DEF JoinedRooms
<1>4. ctx'[s].room = room /\ \A x \in Socket \ {s} : ctx'[x] = ctx[x]
  BY LeftTypes, LeftMembers DEF JoinedCtx
<1>5. ASSUME NEW r \in DOMAIN rooms'
      PROVE  rooms'[r] # {}
  <2>1. CASE r = room
    BY <1>3, <2>1
  <2>2. CASE r # room
    <3>1. r \in DOMAIN RoomsLeft(s)
      BY <1>2, <2>2
    <3>2. RoomsLeft(s)[r] # {}
      BY <3>1, LeftMembers
    <3>3. QED
      BY <1>3, <3>1, <3>2
  <2>3. QED
    BY <2>1, <2>2
<1>6. ASSUME NEW r \in DOMAIN rooms', NEW x \in rooms'[r]
      PROVE  ctx'[x].room = r /\ Attached(x)'
  <2>1. CASE x = s
    <3>1. r \in DOMAIN RoomsLeft(s) => s \notin RoomsLeft(s)[r]
      BY LeftMembers
    <3>2. QED
      BY <1>3, <1>4, <2>1, <3>1 DEF Attached
  <2>2. CASE x # s
    <3>1. r \in DOMAIN rooms /\ x \in rooms[r]
      BY <1>3, <2>2, LeftMembers
    <3>2. QED
      BY <1>4, <2>2, <3>1 DEF Attached
  <2>3. QED
    BY <2>1, <2>2
<1>7. ASSUME NEW x \in Socket, InRoom(x)'
      PROVE  ctx'[x].room \in DOMAIN rooms' /\ x \in rooms'[ctx'[x].room]
  <2>1. CASE x = s
    BY <1>2, <1>3, <1>4, <2>1
  <2>2. CASE x # s
    <3>1. ctx'[x] = ctx[x] /\ ctx[x].room \in DOMAIN rooms /\ x \in rooms[ctx[x].room]
      BY <1>4, <1>7, <2>2 DEF InRoom
    <3>2. ctx[x].room \in DOMAIN RoomsLeft(s)
      BY <2>2, <3>1, LeftMembers
    <3>3. RoomsLeft(s)[ctx[x].room] = rooms[ctx[x].room] \ {s}
      BY <3>2, LeftMembers
    <3>4. QED
      BY <1>2, <1>3, <2>2, <3>1, <3>2, <3>3
  <2>3. QED
    BY <2>1, <2>2
<1>8. QED
  BY <1>5, <1>6, <1>7

----------------------------------------------------------------------------
(* The inductive invariant *)

\* No socket has a context, no room exists.
LEMMA InitConsistent == Init => Consistent
<1> SUFFICES ASSUME Init
             PROVE  Consistent
  OBVIOUS
<1>1. NoContext \in Context
  BY DEF NoContext, Context
<1>2. TypeOK
  BY <1>1 DEF Init, TypeOK
<1>3. MembershipAgrees
  BY <1>1 DEF Init, MembershipAgrees, InRoom, NoContext
<1>4. QED
  BY <1>2, <1>3 DEF Consistent

\* Every handler keeps the types and the agreement of the two records.
LEMMA StepConsistent == Consistent /\ [Next]_relayVars => Consistent'
<1> SUFFICES ASSUME Consistent, [Next]_relayVars
             PROVE  Consistent'
  OBVIOUS
<1>a. TypeOK /\ MembershipAgrees
  BY DEF Consistent
<1>c. NoContext \in Context /\ NoContext.room = NoRoom
  BY DEF NoContext, Context
\* Steps that leave the membership alone.
<1>k. ASSUME UNCHANGED <<ctx, rooms>>, \A x \in Socket : Attached(x) => Attached(x)'
      PROVE  MembershipAgrees'
  BY <1>a, <1>k DEF TypeOK, MembershipAgrees, InRoom
<1>1. ASSUME NEW s \in Socket, Connect(s)
      PROVE  Consistent'
  <2>1. conns' \in [Ip -> Nat]
    BY <1>1, <1>a, RelayConstants DEF Connect, TypeOK, RelayConstants
  <2>2. state' \in [Socket -> {"absent", "refused", Open, "closing"}]
    BY <1>1, <1>a DEF Connect, TypeOK
  <2>3. TypeOK'
    BY <1>1, <1>a, <1>c, <2>1, <2>2 DEF Connect, TypeOK
  <2>4. ctx[s].room \notin DOMAIN rooms \/ s \notin rooms[ctx[s].room]
    BY <1>1, <1>a DEF Connect, MembershipAgrees, Attached, Open
  <2>5. \A r \in DOMAIN rooms : s \notin rooms[r]
    BY <1>a, <2>4 DEF MembershipAgrees
  <2>6. /\ \A x \in Socket \ {s} : ctx'[x] = ctx[x] /\ state'[x] = state[x]
        /\ ctx'[s].room = NoRoom /\ rooms' = rooms
    BY <1>1, <1>a, <1>c DEF Connect, TypeOK
  <2>7. \A r \in DOMAIN rooms' : rooms'[r] # {}
    BY <1>a, <2>6 DEF MembershipAgrees
  <2>8. ASSUME NEW r \in DOMAIN rooms', NEW x \in rooms'[r]
        PROVE  ctx'[x].room = r /\ Attached(x)'
    <3>1. x \in Socket \ {s}
      BY <1>a, <2>5, <2>6 DEF TypeOK
    <3>2. QED
      BY <1>a, <2>6, <3>1 DEF MembershipAgrees, Attached
  <2>9. ASSUME NEW x \in Socket, InRoom(x)'
        PROVE  ctx'[x].room \in DOMAIN rooms' /\ x \in rooms'[ctx'[x].room]
    <3>1. x # s
      BY <2>6, <2>9 DEF InRoom
    <3>2. QED
      BY <1>a, <2>6, <2>9, <3>1 DEF MembershipAgrees, InRoom
  <2>10. MembershipAgrees'
    BY <2>7, <2>8, <2>9 DEF MembershipAgrees
  <2>11. QED
    BY <2>3, <2>10 DEF Consistent
<1>2. ASSUME NEW s \in Socket, RefusedGone(s)
      PROVE  Consistent'
  <2>1. TypeOK'
    BY <1>2, <1>a DEF RefusedGone, TypeOK
  <2>2. \A x \in Socket : Attached(x) => Attached(x)'
    BY <1>2, <1>a DEF RefusedGone, TypeOK, Attached, Open
  <2>3. QED
    BY <1>2, <1>k, <2>1, <2>2 DEF RefusedGone, Consistent
<1>3. ASSUME NEW s \in Socket, BeginClose(s)
      PROVE  Consistent'
  <2>1. TypeOK'
    BY <1>3, <1>a DEF BeginClose, TypeOK
  <2>2. \A x \in Socket : Attached(x) => Attached(x)'
    BY <1>3, <1>a DEF BeginClose, TypeOK, Attached, Open
  <2>3. QED
    BY <1>3, <1>k, <2>1, <2>2 DEF BeginClose, Consistent
<1>4. ASSUME NEW s \in Socket, Close(s)
      PROVE  Consistent'
  <2>1. conns' \in [Ip -> Nat]
    <3>1. IpOf[s] \in Ip
      BY RelayConstants DEF RelayConstants
    <3>2. (IF conns[IpOf[s]] > 0 THEN conns[IpOf[s]] - 1 ELSE 0) \in Nat
      BY <1>a, <3>1 DEF TypeOK
    <3>3. QED
      BY <1>4, <1>a, <3>2 DEF Close, CloseHandler, TypeOK
  <2>2. down' \in [Socket -> Seq(Frame)]
    BY <1>4, LeftTypes DEF Close, CloseHandler
  <2>3. rooms' = RoomsLeft(s) /\ ctx' = [ctx EXCEPT ![s] = NoContext]
    BY <1>4 DEF Close, CloseHandler
  <2>4. TypeOK'
    BY <1>4, <1>a, <1>c, <2>1, <2>2, <2>3, LeftTypes DEF Close, CloseHandler, TypeOK
  <2>5. ctx'[s].room = NoRoom /\ \A x \in Socket \ {s} : ctx'[x] = ctx[x] /\ state'[x] = state[x]
    BY <1>4, <1>a, <1>c DEF Close, CloseHandler, TypeOK
  <2>6. QED
    BY <2>3, <2>4, <2>5, LeavingAgrees DEF Consistent
<1>5. ASSUME NEW s \in Socket,
             ctx' = CtxLeft(s), rooms' = RoomsLeft(s), down' = DownLeft(s),
             UNCHANGED <<state, conns, serving>>
      PROVE  Consistent'
  <2>1. TypeOK'
    BY <1>5, <1>a, LeftTypes DEF TypeOK
  <2>2. MembershipAgrees'
    BY <1>5, LeftMembers, LeavingAgrees
  <2>3. QED
    BY <2>1, <2>2 DEF Consistent
<1>6. ASSUME NEW s \in Socket, NEW m \in JoinMsg, Join(s, m)
      PROVE  Consistent'
  <2>1. CASE /\ JoinTargets(m) = {}
             /\ ctx' = CtxLeft(s) /\ rooms' = RoomsLeft(s) /\ down' = DownLeft(s)
    BY <1>5, <1>6, <2>1 DEF Join
  <2>2. ASSUME NEW room \in JoinTargets(m),
               ctx' = JoinedCtx(s, room, m), rooms' = JoinedRooms(s, room),
               down' = WithPresence(DownLeft(s), room, JoinedRooms(s, room)[room],
                                    JoinedCtx(s, room, m))
        PROVE  Consistent'
    <3>1. UNCHANGED <<state, conns, serving>> /\ Attached(s)
      BY <1>6 DEF Join
    <3>2. TypeOK'
      BY <1>a, <2>2, <3>1, JoinedTypes DEF TypeOK
    <3>3. MembershipAgrees'
      BY <2>2, <3>1, JoiningAgrees
    <3>4. QED
      BY <3>2, <3>3 DEF Consistent
  <2>3. QED
    BY <1>6, <2>1, <2>2 DEF Join
\* Steps that only touch the queues.
<1>7. ASSUME down' \in [Socket -> Seq(Frame)], UNCHANGED <<state, ctx, rooms, conns, serving>>
      PROVE  Consistent'
  <2>1. TypeOK'
    BY <1>7, <1>a DEF TypeOK
  <2>2. MembershipAgrees'
    BY <1>7, <1>k DEF Attached
  <2>3. QED
    BY <2>1, <2>2 DEF Consistent
<1>8. ASSUME NEW s \in Socket, ChatAll(s) \/ Ping(s)
      PROVE  Consistent'
  <2>1. NoTeam \in Team \cup {NoTeam} /\ InRoom(s)
    BY <1>8 DEF ChatAll, Ping
  <2>2. CASE ChatAll(s)
    BY <1>7, <1>a, <2>1, <2>2, WithTalkType DEF ChatAll
  <2>3. CASE Ping(s)
    BY <1>7, <1>a, <2>1, <2>3, WithTalkType DEF Ping
  <2>4. QED
    BY <1>8, <2>2, <2>3
<1>9. ASSUME NEW s \in Socket, NEW t \in Team \cup {NoTeam}, ChatTeam(s, t)
      PROVE  Consistent'
  <2>1. Target(s, t) \in Team \cup {NoTeam}
    BY <1>a DEF Target, TypeOK, Context
  <2>2. down' \in [Socket -> Seq(Frame)]
    BY <1>9, <1>a, <2>1, WithTalkType DEF ChatTeam
  <2>3. QED
    BY <1>7, <1>9, <2>2 DEF ChatTeam
<1>10. ASSUME NEW s \in Socket, Deliver(s)
       PROVE  Consistent'
  <2>1. Tail(down[s]) \in Seq(Frame)
    BY <1>10, <1>a DEF Deliver, TypeOK
  <2>2. down' \in [Socket -> Seq(Frame)]
    BY <1>10, <1>a, <2>1 DEF Deliver, TypeOK
  <2>3. QED
    BY <1>7, <1>10, <2>2 DEF Deliver
<1>11. ASSUME Shutdown
       PROVE  Consistent'
  <2>1. TypeOK'
    BY <1>11, <1>a DEF Shutdown, TypeOK
  <2>2. \A x \in Socket : Attached(x) => Attached(x)'
    BY <1>11 DEF Shutdown, Attached
  <2>3. QED
    BY <1>11, <1>k, <2>1, <2>2 DEF Shutdown, Consistent
<1>12. ASSUME Restart
       PROVE  Consistent'
  <2>1. TypeOK'
    BY <1>12, <1>c DEF Restart, TypeOK
  <2>2. MembershipAgrees'
    BY <1>12, <1>c DEF Restart, MembershipAgrees, InRoom
  <2>3. QED
    BY <2>1, <2>2 DEF Consistent
<1>13. ASSUME UNCHANGED relayVars
       PROVE  Consistent'
  BY <1>7, <1>13, <1>a DEF relayVars, TypeOK
<1>14. ASSUME NEW s \in Socket, Leave(s)
       PROVE  Consistent'
  BY <1>5, <1>14 DEF Leave
<1>15. QED
  BY <1>1, <1>2, <1>3, <1>4, <1>6, <1>8, <1>9, <1>10, <1>11, <1>12, <1>13, <1>14 DEF Next

\* Every reachable state of the relay is consistent.
LEMMA AlwaysConsistent == Spec => []Consistent
<1>1. QED
  BY InitConsistent, StepConsistent, PTL DEF Spec

\* The maps, socket fields and frames of server/index.js keep their types.
THEOREM RelayTypes == Spec => []TypeOK
<1>1. Consistent => TypeOK
  BY DEF Consistent
<1>2. QED
  BY <1>1, AlwaysConsistent, PTL

\* ws._room and the rooms map agree, only sockets with a close handler are
\* members, and no empty room stays behind, whatever joins, leaves, closes,
\* refusals, shutdowns and restarts come in whatever order.
THEOREM RelayMembership == Spec => []MembershipAgrees
<1>1. Consistent => MembershipAgrees
  BY DEF Consistent
<1>2. QED
  BY <1>1, AlwaysConsistent, PTL

----------------------------------------------------------------------------
(* The connection count *)

\* The sockets of an address can be counted.
LEMMA AttachedFinite ==
  ASSUME NEW i \in Ip
  PROVE  /\ IsFiniteSet(AttachedFrom(i))
         /\ Cardinality(AttachedFrom(i)) \in Nat
<1>1. AttachedFrom(i) \in SUBSET Socket
  BY DEF AttachedFrom
<1>2. IsFiniteSet(AttachedFrom(i))
  BY <1>1, SocketsFinite, FS_Subset DEF SocketsFinite
<1>3. QED
  BY <1>2, FS_CardinalityType

\* Nobody is connected at first.
LEMMA InitCounted == Init => ConnectionsCounted
<1> SUFFICES ASSUME Init, NEW i \in Ip
             PROVE  conns[i] = Cardinality(AttachedFrom(i)) /\ conns[i] <= MaxConnsPerIp
  BY DEF ConnectionsCounted
<1>1. AttachedFrom(i) = {}
  BY DEF Init, AttachedFrom, Attached, Open
<1>2. conns[i] = 0
  BY DEF Init
<1>3. QED
  BY <1>1, <1>2, FS_EmptySet, RelayConstants DEF RelayConstants

\* A socket is counted when its handlers are attached, and once discounted
\* when the close handler runs.
LEMMA StepCounted == TypeOK /\ ConnectionsCounted /\ [Next]_relayVars => ConnectionsCounted'
<1> SUFFICES ASSUME TypeOK, ConnectionsCounted, [Next]_relayVars
             PROVE  ConnectionsCounted'
  OBVIOUS
<1>a. \A i \in Ip : conns[i] \in Nat /\ conns[i] = Cardinality(AttachedFrom(i))
                    /\ conns[i] <= MaxConnsPerIp
  BY DEF TypeOK, ConnectionsCounted
<1>b. MaxConnsPerIp \in Nat /\ \A s \in Socket : IpOf[s] \in Ip
  BY RelayConstants DEF RelayConstants
<1>k. ASSUME UNCHANGED conns, \A x \in Socket : Attached(x)' <=> Attached(x)
      PROVE  ConnectionsCounted'
  <2>1. \A i \in Ip : AttachedFrom(i)' = AttachedFrom(i)
    BY <1>k DEF AttachedFrom
  <2>2. QED
    BY <1>a, <1>k, <2>1 DEF ConnectionsCounted
<1>1. ASSUME NEW s \in Socket, Connect(s)
      PROVE  ConnectionsCounted'
  <2>1. CASE conns[IpOf[s]] + 1 > MaxConnsPerIp
    <3>1. UNCHANGED conns /\ \A x \in Socket : Attached(x)' <=> Attached(x)
      BY <1>1, <2>1 DEF Connect, TypeOK, Attached, Open
    <3>2. QED
      BY <1>k, <3>1
  <2>2. CASE ~(conns[IpOf[s]] + 1 > MaxConnsPerIp)
    <3>1. /\ state[s] = "absent" /\ state' = [state EXCEPT ![s] = Open]
          /\ conns' = [conns EXCEPT ![IpOf[s]] = conns[IpOf[s]] + 1]
      BY <1>1, <2>2 DEF Connect
    <3>2. SUFFICES ASSUME NEW i \in Ip
                   PROVE  conns'[i] = Cardinality(AttachedFrom(i)') /\ conns'[i] <= MaxConnsPerIp
      BY DEF ConnectionsCounted
    <3>3. CASE i = IpOf[s]
      <4>1. AttachedFrom(i)' = AttachedFrom(i) \cup {s} /\ s \notin AttachedFrom(i)
        BY <3>1, <3>3 DEF AttachedFrom, Attached, TypeOK, Open
      <4>2. Cardinality(AttachedFrom(i)') = Cardinality(AttachedFrom(i)) + 1
        BY <4>1, AttachedFinite, FS_AddElement
      <4>3. conns'[i] = conns[i] + 1
        BY <3>1, <3>3 DEF TypeOK
      <4>4. QED
        BY <1>a, <1>b, <2>2, <3>3, <4>2, <4>3
    <3>4. CASE i # IpOf[s]
      <4>1. AttachedFrom(i)' = AttachedFrom(i)
        BY <3>1, <3>4 DEF AttachedFrom, Attached, TypeOK
      <4>2. conns'[i] = conns[i]
        BY <3>1, <3>4 DEF TypeOK
      <4>3. QED
        BY <1>a, <4>1, <4>2
    <3>5. QED
      BY <3>3, <3>4
  <2>3. QED
    BY <2>1, <2>2
<1>2. ASSUME NEW s \in Socket, Close(s)
      PROVE  ConnectionsCounted'
  <2>1. /\ Attached(s) /\ state' = [state EXCEPT ![s] = "absent"]
        /\ conns' = [conns EXCEPT ![IpOf[s]] = IF conns[IpOf[s]] > 0
                                               THEN conns[IpOf[s]] - 1 ELSE 0]
    BY <1>2 DEF Close, CloseHandler
  <2>2. SUFFICES ASSUME NEW i \in Ip
                 PROVE  conns'[i] = Cardinality(AttachedFrom(i)') /\ conns'[i] <= MaxConnsPerIp
    BY DEF ConnectionsCounted
  <2>3. CASE i = IpOf[s]
    <3>1. AttachedFrom(i)' = AttachedFrom(i) \ {s} /\ s \in AttachedFrom(i)
      BY <2>1, <2>3 DEF AttachedFrom, Attached, TypeOK, Open
    <3>2. Cardinality(AttachedFrom(i)') = Cardinality(AttachedFrom(i)) - 1
      BY <3>1, AttachedFinite, FS_RemoveElement
    <3>3. Cardinality(AttachedFrom(i)) # 0
      BY <3>1, AttachedFinite, FS_EmptySet
    <3>4. conns'[i] = IF conns[i] > 0 THEN conns[i] - 1 ELSE 0
      BY <2>1, <2>3 DEF TypeOK
    <3>5. QED
      BY <1>a, <1>b, <3>2, <3>3, <3>4
  <2>4. CASE i # IpOf[s]
    <3>1. AttachedFrom(i)' = AttachedFrom(i)
      BY <2>1, <2>4 DEF AttachedFrom, Attached, TypeOK
    <3>2. conns'[i] = conns[i]
      BY <2>1, <2>4 DEF TypeOK
    <3>3. QED
      BY <1>a, <3>1, <3>2
  <2>5. QED
    BY <2>3, <2>4
<1>3. ASSUME NEW s \in Socket, RefusedGone(s) \/ BeginClose(s)
      PROVE  ConnectionsCounted'
  <2>1. UNCHANGED conns /\ \A x \in Socket : Attached(x)' <=> Attached(x)
    BY <1>3 DEF RefusedGone, BeginClose, TypeOK, Attached, Open
  <2>2. QED
    BY <1>k, <2>1
<1>4. ASSUME UNCHANGED <<state, conns>>
      PROVE  ConnectionsCounted'
  BY <1>k, <1>4 DEF Attached
<1>5. ASSUME Shutdown
      PROVE  ConnectionsCounted'
  <2>1. UNCHANGED conns /\ \A x \in Socket : Attached(x)' <=> Attached(x)
    BY <1>5 DEF Shutdown, Attached, Open
  <2>2. QED
    BY <1>k, <2>1
<1>6. ASSUME Restart
      PROVE  ConnectionsCounted'
  <2>1. \A i \in Ip : AttachedFrom(i)' = {} /\ conns'[i] = 0
    BY <1>6 DEF Restart, AttachedFrom, Attached, Open
  <2>2. QED
    BY <1>b, <2>1, FS_EmptySet DEF ConnectionsCounted
<1>7. QED
  BY <1>1, <1>2, <1>3, <1>4, <1>5, <1>6
     DEF Next, relayVars, Leave, ChatAll, Ping, Deliver, Join, ChatTeam

\* No sequence of connects, refusals, closes, shutdowns and restarts makes
\* connsPerIp drift from the live sockets of an address, or lets an address
\* hold more than MAX_CONNS_PER_IP of them.
THEOREM RelayConnections == Spec => []ConnectionsCounted
<1>1. QED
  BY RelayTypes, InitCounted, StepCounted, PTL DEF Spec

----------------------------------------------------------------------------
(* Team talk *)

\* A frame that is no breach of a team's privacy, now or later: everything it
\* is judged by was fixed when it was queued.
Confined(f) ==
  ~IsPresence(f) /\ f.audience = "team" =>
    /\ f.target \in Team
    /\ f.to.team = f.target
    /\ f.from.spectator \/ f.from.team = f.target

ConfinedFrame == {f \in Frame : Confined(f)}

TalkConfined == down \in [Socket -> Seq(ConfinedFrame)]

\* Snapshots are never talk.
LEMMA PresenceConfined ==
  ASSUME NEW q \in [Socket -> Seq(ConfinedFrame)], NEW cs \in [Socket -> Context],
         NEW members \in SUBSET Socket, NEW room \in Room
  PROVE  WithPresence(q, room, members, cs) \in [Socket -> Seq(ConfinedFrame)]
<1>1. \A r \in Socket : Snapshot(r, room, members, cs) \in Frame
  BY SnapshotType DEF Frame
<1>2. \A r \in Socket : Snapshot(r, room, members, cs) \in ConfinedFrame
  BY <1>1 DEF ConfinedFrame, Confined, IsPresence, Snapshot
<1>3. \A r \in Socket : Append(q[r], Snapshot(r, room, members, cs)) \in Seq(ConfinedFrame)
  BY <1>2
<1>4. QED
  BY <1>3 DEF WithPresence

\* Nor is what removeFromRoom sends.
LEMMA LeftConfined ==
  ASSUME Consistent, TalkConfined, NEW s \in Socket
  PROVE  DownLeft(s) \in [Socket -> Seq(ConfinedFrame)]
<1>1. CtxLeft(s) \in [Socket -> Context]
  BY LeftTypes
<1>2. InRoom(s) => ctx[s].room \in Room /\ Rest(s) \in SUBSET Socket
  BY DEF Consistent, TypeOK, MembershipAgrees, Rest
<1>3. QED
  BY <1>1, <1>2, PresenceConfined DEF DownLeft, TalkConfined

\* Talk to all is confined whoever hears it; talk to a team, when the sender
\* may address that team and all hearers are on it.
LEMMA TalkIsConfined ==
  ASSUME Consistent, TalkConfined, NEW s \in Socket, InRoom(s),
         NEW kind \in {"chat", "ping"}, NEW audience \in {"all", "team"},
         NEW target \in Team \cup {NoTeam}, NEW hearers,
         audience = "team" =>
           /\ target \in Team
           /\ \A r \in hearers : ctx[r].team = target
           /\ ctx[s].spectator \/ ctx[s].team = target
  PROVE  WithTalk(s, kind, audience, target, hearers) \in [Socket -> Seq(ConfinedFrame)]
<1> DEFINE Line(r) == [kind |-> kind, room |-> ctx[s].room, from |-> MemberOf(ctx[s]),
                       to |-> MemberOf(ctx[r]), audience |-> audience, target |-> target]
<1>1. \A r \in Socket : MemberOf(ctx[r]) \in Member
  BY DEF Consistent, TypeOK, MemberOf, Member, Context
<1>2. ctx[s].room \in Room
  BY DEF Consistent, TypeOK, InRoom, Context
<1>3. \A r \in Socket : Line(r) \in Frame
  BY <1>1, <1>2 DEF Frame, TalkFrame
<1>4. \A r \in Socket \cap hearers : Confined(Line(r))
  BY DEF Confined, MemberOf
<1>5. \A r \in Socket \cap hearers : Line(r) \in ConfinedFrame
  BY <1>3, <1>4 DEF ConfinedFrame
<1> HIDE DEF Line
<1>6. \A r \in Socket \cap hearers : Append(down[r], Line(r)) \in Seq(ConfinedFrame)
  BY <1>5 DEF TalkConfined
<1>7. QED
  BY <1>6 DEF WithTalk, Line, TalkConfined

\* Every handler queues confined frames only.
LEMMA StepConfined == Consistent /\ TalkConfined /\ [Next]_relayVars => TalkConfined'
<1> SUFFICES ASSUME Consistent, TalkConfined, [Next]_relayVars
             PROVE  TalkConfined'
  OBVIOUS
<1>1. ASSUME UNCHANGED down
      PROVE  TalkConfined'
  BY <1>1 DEF TalkConfined
<1>2. ASSUME NEW s \in Socket, Leave(s) \/ Close(s)
      PROVE  TalkConfined'
  <2>1. CASE Leave(s)
    BY <2>1, LeftConfined DEF Leave, TalkConfined
  <2>2. CASE Close(s)
    BY <2>2, LeftConfined DEF Close, CloseHandler, TalkConfined
  <2>3. QED
    BY <1>2, <2>1, <2>2
<1>3. ASSUME NEW s \in Socket, NEW m \in JoinMsg, Join(s, m)
      PROVE  TalkConfined'
  <2>1. CASE down' = DownLeft(s)
    BY <2>1, LeftConfined DEF TalkConfined
  <2>2. ASSUME NEW room \in JoinTargets(m),
               down' = WithPresence(DownLeft(s), room, JoinedRooms(s, room)[room],
                                    JoinedCtx(s, room, m))
        PROVE  TalkConfined'
    <3>1. JoinedRooms(s, room)[room] \in SUBSET Socket
      BY JoinedTypes, LeftTypes DEF JoinedRooms
    <3>2. QED
      BY <2>2, <3>1, JoinedTypes, LeftConfined, PresenceConfined DEF TalkConfined
  <2>3. QED
    BY <1>3, <2>1, <2>2 DEF Join
<1>4. ASSUME NEW s \in Socket, ChatAll(s) \/ Ping(s)
      PROVE  TalkConfined'
  <2>1. InRoom(s) /\ NoTeam \in Team \cup {NoTeam}
    BY <1>4 DEF ChatAll, Ping
  <2>2. \A kind \in {"chat", "ping"} :
          WithTalk(s, kind, "all", NoTeam, Socket) \in [Socket -> Seq(ConfinedFrame)]
    BY <2>1, TalkIsConfined
  <2>3. QED
    BY <1>4, <2>2 DEF ChatAll, Ping, TalkConfined
<1>5. ASSUME NEW s \in Socket, NEW t \in Team \cup {NoTeam}, ChatTeam(s, t)
      PROVE  TalkConfined'
  <2> DEFINE hearers == {r \in Socket : ctx[r].team = Target(s, t)}
  <2>1. /\ InRoom(s) /\ Target(s, t) # NoTeam
        /\ ctx[s].spectator \/ ctx[s].team = Target(s, t)
        /\ down' = WithTalk(s, "chat", "team", Target(s, t), hearers)
    BY <1>5 DEF ChatTeam, MayTarget
  <2>2. Target(s, t) \in Team
    BY <2>1 DEF Consistent, TypeOK, Context, Target
  <2>3. \A r \in hearers : ctx[r].team = Target(s, t)
    OBVIOUS
  <2> HIDE DEF hearers
  <2>4. WithTalk(s, "chat", "team", Target(s, t), hearers) \in [Socket -> Seq(ConfinedFrame)]
    BY <2>1, <2>2, <2>3, TalkIsConfined
  <2>5. QED
    BY <2>1, <2>4 DEF TalkConfined
<1>6. ASSUME NEW s \in Socket, Deliver(s)
      PROVE  TalkConfined'
  <2>1. Tail(down[s]) \in Seq(ConfinedFrame)
    BY <1>6 DEF Deliver, TalkConfined
  <2>2. QED
    BY <1>6, <2>1 DEF Deliver, TalkConfined
<1>7. ASSUME Restart
      PROVE  TalkConfined'
  BY <1>7 DEF Restart, TalkConfined
<1>8. QED
  BY <1>1, <1>2, <1>3, <1>4, <1>5, <1>6, <1>7
     DEF Next, relayVars, Connect, RefusedGone, BeginClose, Shutdown

\* A team message reaches only sockets that were on that team when it was
\* sent, and only from that team or from a spectator (broadcastChat and
\* case "chat"), for any number of players and rooms.
THEOREM RelayTeamTalk == Spec => []TeamTalkConfined
<1>1. Init => TalkConfined
  BY DEF Init, TalkConfined
<1>2. TalkConfined => TeamTalkConfined
  <2>1. SUFFICES ASSUME TalkConfined, NEW s \in Socket, NEW i \in 1..Len(down[s])
                 PROVE  Confined(down[s][i])
    BY DEF TeamTalkConfined, Confined
  <2>2. down[s][i] \in ConfinedFrame
    BY <2>1 DEF TalkConfined
  <2>3. QED
    BY <2>2 DEF ConfinedFrame
<1>3. QED
  BY <1>1, <1>2, AlwaysConsistent, StepConfined, PTL DEF Spec

----------------------------------------------------------------------------
(* Snapshots *)

Staying(s) == state[s] = Open /\ InRoom(s)

\* LastSnapshotCurrent, for one client.
Told(s) ==
  Staying(s) => \A i \in 1..Len(down[s]) : LastPresence(down[s], i) => Current(s, down[s][i])

\* A step does one of two things for a client that is in a room after it.  It
\* sends it, last of all, the snapshot that the new state calls for:
Sends(s) ==
  \E q \in Seq(Frame), f \in Frame :
    down'[s] = Append(q, f) /\ IsPresence(f) /\ Current(s, f)'

\* or there is nothing to tell: whatever was a right list is one,
SameView(s) ==
  /\ ctx'[s] = ctx[s] /\ Staying(s)
  /\ MustList(s)' \subseteq MustList(s) /\ MayList(s)' = MayList(s)

\* and the last snapshot on its way is the one that it was.
SameLast(s) ==
  \A i \in 1..Len(down'[s]) : LastPresence(down'[s], i) =>
    \E j \in 1..Len(down[s]) : LastPresence(down[s], j) /\ down'[s][i] = down[s][j]

Tells(s) == Staying(s)' => Sends(s) \/ (SameView(s) /\ SameLast(s))

\* A frame behind a queue: a snapshot is then the last, other frames change
\* nothing about which is.
LEMMA LastOfAppend ==
  ASSUME NEW q \in Seq(Frame), NEW f \in Frame, NEW i \in 1..Len(Append(q, f)),
         LastPresence(Append(q, f), i)
  PROVE  /\ IsPresence(f) => Append(q, f)[i] = f
         /\ ~IsPresence(f) => i \in 1..Len(q) /\ LastPresence(q, i) /\ Append(q, f)[i] = q[i]
<1>1. Len(Append(q, f)) = Len(q) + 1 /\ Append(q, f)[Len(q) + 1] = f
  OBVIOUS
<1>2. \A j \in 1..Len(q) : Append(q, f)[j] = q[j]
  OBVIOUS
<1>3. CASE i = Len(q) + 1
  BY <1>1, <1>3 DEF LastPresence
<1>4. CASE i \in 1..Len(q)
  <2>1. ~IsPresence(f)
    <3>1. Len(q) + 1 \in i + 1..Len(Append(q, f))
      BY <1>1, <1>4
    <3>2. QED
      BY <1>1, <3>1 DEF LastPresence
  <2>2. IsPresence(q[i]) /\ \A j \in i + 1..Len(q) : ~IsPresence(q[j])
    <3>1. \A j \in i + 1..Len(q) : j \in 1..Len(q) /\ j \in i + 1..Len(Append(q, f))
      BY <1>1, <1>4
    <3>2. QED
      BY <1>2, <1>4, <3>1 DEF LastPresence
  <2>3. QED
    BY <1>2, <1>4, <2>1, <2>2 DEF LastPresence
<1>5. QED
  BY <1>1, <1>3, <1>4

\* The oldest frame is received: the last snapshot is still the last.
LEMMA LastOfTail ==
  ASSUME NEW q \in Seq(Frame), q # <<>>, NEW i \in 1..Len(Tail(q)), LastPresence(Tail(q), i)
  PROVE  i + 1 \in 1..Len(q) /\ LastPresence(q, i + 1) /\ Tail(q)[i] = q[i + 1]
<1>1. Len(Tail(q)) = Len(q) - 1 /\ Len(q) \in Nat /\ Len(q) > 0
  OBVIOUS
<1>2. \A j \in 1..Len(Tail(q)) : Tail(q)[j] = q[j + 1]
  OBVIOUS
<1>3. ASSUME NEW j \in i + 2..Len(q)
      PROVE  ~IsPresence(q[j])
  <2>1. j - 1 \in i + 1..Len(Tail(q)) /\ j - 1 \in 1..Len(Tail(q)) /\ (j - 1) + 1 = j
    BY <1>1
  <2>2. Tail(q)[j - 1] = q[j]
    BY <1>2, <2>1
  <2>3. QED
    BY <2>1, <2>2 DEF LastPresence
<1>4. i + 1 \in 1..Len(q) /\ Tail(q)[i] = q[i + 1] /\ (i + 1) + 1 = i + 2
  BY <1>1, <1>2
<1>5. IsPresence(q[i + 1])
  BY <1>4 DEF LastPresence
<1>6. QED
  BY <1>3, <1>4, <1>5 DEF LastPresence

\* What a step does is enough: the invariant of one client follows.
LEMMA TellsTold ==
  ASSUME NEW s \in Socket, Told(s), Tells(s)
  PROVE  Told(s)'
<1> SUFFICES ASSUME Staying(s)', NEW i \in 1..Len(down'[s]), LastPresence(down'[s], i)
             PROVE  Current(s, down[s][i])'
  BY DEF Told, LastPresence
<1>1. CASE Sends(s)
  <2>1. PICK q \in Seq(Frame), f \in Frame :
          down'[s] = Append(q, f) /\ IsPresence(f) /\ Current(s, f)'
    BY <1>1 DEF Sends
  <2>2. down'[s][i] = f
    BY <2>1, LastOfAppend
  <2>3. QED
    BY <2>1, <2>2 DEF Current
<1>2. CASE SameView(s) /\ SameLast(s)
  <2>1. PICK j \in 1..Len(down[s]) : LastPresence(down[s], j) /\ down'[s][i] = down[s][j]
    BY <1>2 DEF SameLast
  <2>2. Current(s, down[s][j])
    BY <1>2, <2>1 DEF Told, SameView
  <2>3. QED
    BY <1>2, <2>1, <2>2 DEF Current, SameView
<1>3. QED
  BY <1>1, <1>2 DEF Tells

\* A client whose room, context and fellow members stay as they are, but for
\* members that begin to close, needs no snapshot.
LEMMA StillTold ==
  ASSUME Consistent, NEW s \in Socket,
         ctx'[s] = ctx[s], state'[s] = Open => state[s] = Open,
         InRoom(s) => rooms'[ctx[s].room] = rooms[ctx[s].room],
         InRoom(s) => \A m \in rooms[ctx[s].room] :
                        ctx'[m] = ctx[m] /\ (state'[m] = Open => state[m] = Open),
         SameLast(s)
  PROVE  Tells(s)
<1> SUFFICES ASSUME Staying(s)'
             PROVE  SameView(s)
  BY DEF Tells
<1>1. Staying(s)
  BY DEF Staying, InRoom
<1>2. Disclosed(s, rooms[ctx[s].room], ctx)' \subseteq Disclosed(s, rooms[ctx[s].room], ctx)
  BY <1>1 DEF Disclosed, Staying
<1>3. MustList(s)' \subseteq MustList(s)
  <2>1. Disclosed(s, rooms[ctx[s].room], ctx) \subseteq rooms[ctx[s].room]
    BY DEF Disclosed
  <2>2. \A m \in rooms[ctx[s].room] : MemberOf(ctx[m])' = MemberOf(ctx[m])
    BY <1>1 DEF MemberOf, Staying
  <2>3. QED
    BY <1>2, <2>1, <2>2 DEF MustList
<1>4. MayList(s)' = MayList(s)
  <2>1. \A m \in rooms[ctx[s].room] : MemberOf(ctx[m])' = MemberOf(ctx[m])
    BY <1>1 DEF MemberOf, Staying
  <2>2. QED
    BY <1>1, <2>1 DEF MayList, IsPlayer, Staying
<1>5. QED
  BY <1>1, <1>3, <1>4 DEF SameView

\* A client that has just been sent a snapshot of the members there are.
LEMMA JustTold ==
  ASSUME NEW s \in Socket, NEW q \in Seq(Frame), NEW room \in Room,
         NEW members \in SUBSET Socket, NEW cs \in [Socket -> Context], s \in members,
         \A m \in members : cs[m] = ctx'[m] /\ state'[m] = state[m],
         ctx'[s].room = room, rooms'[room] = members,
         down'[s] = Append(q, Snapshot(s, room, members, cs))
  PROVE  Sends(s)
<1>a. PICK f : f = Snapshot(s, room, members, cs)
  OBVIOUS
<1>1. f \in Frame /\ IsPresence(f)
  BY <1>a, SnapshotType DEF Frame, IsPresence, Snapshot
<1>3. f.room = room /\ f.rev = ctx'[s].rev /\ f.reveal = ctx'[s].reveal
  BY <1>a DEF Snapshot
<1>4. f.members = {MemberOf(cs[m]) : m \in Disclosed(s, members, cs)}
  BY <1>a DEF Snapshot
<1>5. Disclosed(s, rooms[ctx[s].room], ctx)' = Disclosed(s, members, cs)
  BY DEF Disclosed, IsPlayer
<1>6. \A m \in members : MemberOf(ctx[m])' = MemberOf(cs[m])
  BY DEF MemberOf
<1>7. MustList(s)' = f.members
  <2>1. Disclosed(s, members, cs) \subseteq members
    BY DEF Disclosed
  <2>2. QED
    BY <1>4, <1>5, <1>6, <2>1 DEF MustList
<1>8. f.members \subseteq MayList(s)'
  <2>1. \A m \in Disclosed(s, members, cs) :
          /\ m \in members
          /\ \/ m = s \/ cs[s].reveal
             \/ IsPlayer(cs[s]) /\ ~cs[m].spectator /\ cs[m].team = cs[s].team
    BY DEF Disclosed
  <2>2. QED
    BY <1>4, <1>6, <2>1 DEF MayList, IsPlayer
<1>9. down'[s] = Append(q, f)
  BY <1>a
<1>10. Current(s, f)'
  BY <1>3, <1>7, <1>8 DEF Current
<1>11. QED
  BY <1>1, <1>9, <1>10 DEF Sends

\* A client that stays in its room when another leaves its own.
LEMMA OthersTold ==
  ASSUME Consistent, NEW a \in Socket, NEW s \in Socket \ {a},
         \A x \in Socket \ {a} : ctx'[x] = ctx[x] /\ state'[x] = state[x],
         InRoom(s) => rooms'[ctx[s].room] = rooms[ctx[s].room] \ {a},
         down'[s] = DownLeft(a)[s]
  PROVE  Tells(s)
<1>a. TypeOK /\ MembershipAgrees
  BY DEF Consistent
<1>1. CASE ~InRoom(s) \/ state[s] # Open
  BY <1>1 DEF Tells, Staying, InRoom
<1>2. ASSUME InRoom(s), state[s] = Open, InRoom(a), ctx[a].room = ctx[s].room
      PROVE  Tells(s)
  <2>1. s \in Rest(a) /\ Rest(a) \in SUBSET Socket /\ ctx[a].room \in Room
    BY <1>a, <1>2 DEF TypeOK, MembershipAgrees, Rest
  <2>2. down'[s] = Append(down[s], Snapshot(s, ctx[a].room, Rest(a), CtxLeft(a)))
    BY <1>2, <2>1 DEF DownLeft, WithPresence
  <2>3. down[s] \in Seq(Frame) /\ CtxLeft(a) \in [Socket -> Context]
    BY <1>a, LeftTypes DEF TypeOK
  <2>4. \A m \in Rest(a) : CtxLeft(a)[m] = ctx'[m] /\ state'[m] = state[m]
    BY <2>1, LeftMembers DEF Rest
  <2>5. ctx'[s].room = ctx[a].room /\ rooms'[ctx[a].room] = Rest(a)
    BY <1>2 DEF Rest
  <2>6. Sends(s)
    BY <2>1, <2>2, <2>3, <2>4, <2>5, JustTold
  <2>7. QED
    BY <2>6 DEF Tells
<1>3. ASSUME InRoom(s), state[s] = Open, ~(InRoom(a) /\ ctx[a].room = ctx[s].room)
      PROVE  Tells(s)
  <2>1. a \notin rooms[ctx[s].room]
    BY <1>a, <1>3 DEF MembershipAgrees, InRoom
  <2>2. rooms'[ctx[s].room] = rooms[ctx[s].room] /\ rooms[ctx[s].room] \subseteq Socket
    <3>1. rooms'[ctx[s].room] = rooms[ctx[s].room]
      BY <1>3, <2>1
    <3>2. ctx[s].room \in DOMAIN rooms
      BY <1>a, <1>3 DEF MembershipAgrees
    <3>3. rooms \in [DOMAIN rooms -> SUBSET Socket]
      BY <1>a DEF TypeOK
    <3>4. QED
      BY <3>1, <3>2, <3>3
  <2>3. InRoom(a) => s \notin Rest(a)
    BY <1>a, <1>3 DEF TypeOK, MembershipAgrees, InRoom, Rest
  <2>4. down'[s] = down[s]
    BY <2>3 DEF DownLeft, WithPresence
  <2>5. \A m \in rooms[ctx[s].room] : ctx'[m] = ctx[m] /\ state'[m] = state[m]
    BY <2>1, <2>2
  <2>6. QED
    BY <1>3, <2>2, <2>4, <2>5, StillTold DEF SameLast
<1>4. QED
  BY <1>1, <1>2, <1>3

\* removeFromRoom, in a leave, a close or a join that fails.
LEMMA LeavingTold ==
  ASSUME Consistent, NEW a \in Socket, NEW s \in Socket,
         rooms' = RoomsLeft(a), ctx'[a].room = NoRoom,
         \A x \in Socket \ {a} : /\ ctx'[x] = ctx[x] /\ state'[x] = state[x]
                                 /\ down'[x] = DownLeft(a)[x]
  PROVE  Tells(s)
<1>1. CASE s = a
  BY <1>1 DEF Tells, Staying, InRoom
<1>2. CASE s # a
  <2>1. ASSUME InRoom(s)
        PROVE  rooms'[ctx[s].room] = rooms[ctx[s].room] \ {a}
    <3>1. ctx[s].room \in DOMAIN rooms /\ s \in rooms[ctx[s].room]
      BY <2>1 DEF Consistent, MembershipAgrees
    <3>2. ctx[s].room \in DOMAIN RoomsLeft(a)
      BY <1>2, <3>1, LeftMembers
    <3>3. QED
      BY <3>2, LeftMembers
  <2>2. QED
    BY <1>2, <2>1, OthersTold
<1>3. QED
  BY <1>1, <1>2

\* A join that lands: all in the new room are told, and those left in the old.
LEMMA JoiningTold ==
  ASSUME Consistent, NEW a \in Socket, NEW s \in Socket, NEW m \in JoinMsg,
         NEW room \in JoinTargets(m),
         rooms' = JoinedRooms(a, room), ctx' = JoinedCtx(a, room, m), state' = state,
         down' = WithPresence(DownLeft(a), room, JoinedRooms(a, room)[room],
                              JoinedCtx(a, room, m))
  PROVE  Tells(s) /\ (s = a /\ Staying(s)' => Sends(s))
<1> DEFINE members == JoinedRooms(a, room)[room]
<1>1. /\ room \in Room /\ JoinedCtx(a, room, m) \in [Socket -> Context]
      /\ members \in SUBSET Socket
      /\ DownLeft(a)[s] \in Seq(Frame)
  <2>1. room \in Room /\ JoinedCtx(a, room, m) \in [Socket -> Context]
    BY JoinedTypes
  <2>2. JoinedRooms(a, room) \in [DOMAIN JoinedRooms(a, room) -> SUBSET Socket]
    BY JoinedTypes
  <2>3. room \in DOMAIN JoinedRooms(a, room)
    BY DEF JoinedRooms
  <2>4. members \in SUBSET Socket
    BY <2>2, <2>3
  <2>5. DownLeft(a) \in [Socket -> Seq(Frame)]
    BY LeftTypes
  <2>6. DownLeft(a)[s] \in Seq(Frame)
    BY <2>5
  <2>7. QED
    BY <2>1, <2>4, <2>6
<1>2. /\ DOMAIN rooms' = DOMAIN RoomsLeft(a) \cup {room}
      /\ \A r \in DOMAIN rooms' :
           rooms'[r] = (IF r \in DOMAIN RoomsLeft(a) THEN RoomsLeft(a)[r] ELSE {})
                         \cup (IF r = room THEN {a} ELSE {})
  BY DEF JoinedRooms
<1>3. /\ ctx'[a].room = room
      /\ \A x \in Socket \ {a} : ctx'[x] = ctx[x]
  BY LeftTypes, LeftMembers DEF JoinedCtx
<1>4. ASSUME NEW x \in members
      PROVE  ctx'[x].room = room
  <2>1. CASE x = a
    BY <1>3, <2>1
  <2>2. CASE x # a
    <3>1. room \in DOMAIN RoomsLeft(a) /\ x \in RoomsLeft(a)[room]
      BY <1>2, <2>2
    <3>2. room \in DOMAIN rooms /\ x \in rooms[room]
      BY <3>1, LeftMembers
    <3>3. QED
      BY <1>1, <1>3, <2>2, <3>2 DEF Consistent, MembershipAgrees
  <2>3. QED
    BY <2>1, <2>2
<1>5. CASE state[s] # Open
  BY <1>5 DEF Tells, Staying
<1>6. CASE state[s] = Open /\ s \in members
  <2>1. down'[s] = Append(DownLeft(a)[s], Snapshot(s, room, members, JoinedCtx(a, room, m)))
    BY <1>6 DEF WithPresence
  <2>2. ctx'[s].room = room /\ rooms'[room] = members
    BY <1>4, <1>6
  <2>3. \A x \in members : JoinedCtx(a, room, m)[x] = ctx'[x] /\ state'[x] = state[x]
    OBVIOUS
  <2> HIDE DEF members
  <2>4. QED
    BY <1>1, <1>6, <2>1, <2>2, <2>3, JustTold DEF Tells
<1>7. CASE s \notin members
  <2>1. s # a
    BY <1>2, <1>7
  <2>2. down'[s] = DownLeft(a)[s]
    BY <1>7 DEF WithPresence
  <2>3. ASSUME InRoom(s)
        PROVE  rooms'[ctx[s].room] = rooms[ctx[s].room] \ {a}
    <3>1. ctx[s].room \in DOMAIN rooms /\ s \in rooms[ctx[s].room]
      BY <2>3 DEF Consistent, MembershipAgrees
    <3>2. ctx[s].room \in DOMAIN RoomsLeft(a)
      BY <2>1, <3>1, LeftMembers
    <3>3. RoomsLeft(a)[ctx[s].room] = rooms[ctx[s].room] \ {a}
      BY <3>2, LeftMembers
    <3>4. ctx[s].room # room
      BY <1>2, <1>7, <2>1, <3>1, <3>2, <3>3
    <3>5. QED
      BY <1>2, <3>2, <3>3, <3>4
  <2>4. QED
    BY <1>3, <2>1, <2>2, <2>3, OthersTold
<1>8. QED
  BY <1>5, <1>6, <1>7

\* A client whose own join lands is sent a snapshot, even of the room it was in.
LEMMA JoinSends ==
  ASSUME Consistent, NEW s \in Socket, NEW m \in JoinMsg, Join(s, m), Staying(s)'
  PROVE  Sends(s)
<1>1. ctx' # CtxLeft(s)
  BY LeftMembers DEF Staying, InRoom
<1>2. PICK room \in JoinTargets(m) :
        /\ ctx' = JoinedCtx(s, room, m)
        /\ rooms' = JoinedRooms(s, room)
        /\ down' = WithPresence(DownLeft(s), room, JoinedRooms(s, room)[room],
                                JoinedCtx(s, room, m))
  BY <1>1 DEF Join
<1>3. QED
  BY <1>2, JoiningTold DEF Join

\* Talk goes behind the snapshots and is none.
LEMMA TalkingTold ==
  ASSUME Consistent, NEW a \in Socket, NEW s \in Socket, InRoom(a),
         NEW kind \in {"chat", "ping"}, NEW audience \in {"all", "team"},
         NEW target \in Team \cup {NoTeam}, NEW hearers,
         down' = WithTalk(a, kind, audience, target, hearers),
         UNCHANGED <<state, ctx, rooms>>
  PROVE  Tells(s)
<1> DEFINE f == [kind |-> kind, room |-> ctx[a].room, from |-> MemberOf(ctx[a]),
                 to |-> MemberOf(ctx[s]), audience |-> audience, target |-> target]
<1>1. f \in Frame
  <2>1. MemberOf(ctx[a]) \in Member /\ MemberOf(ctx[s]) \in Member /\ ctx[a].room \in Room
    BY DEF Consistent, TypeOK, MemberOf, Member, Context, InRoom
  <2>2. QED
    BY <2>1 DEF Frame, TalkFrame
<1>2. ~IsPresence(f)
  BY DEF IsPresence
<1>3. down'[s] = Append(down[s], f) \/ down'[s] = down[s]
  BY DEF WithTalk
<1>4. down[s] \in Seq(Frame)
  BY DEF Consistent, TypeOK
<1> HIDE DEF f
<1>5. SameLast(s)
  <2>1. CASE down'[s] = down[s]
    BY <2>1 DEF SameLast
  <2>2. CASE down'[s] = Append(down[s], f)
    BY <1>1, <1>2, <1>4, <2>2, LastOfAppend DEF SameLast
  <2>3. QED
    BY <1>3, <2>1, <2>2
<1>6. QED
  BY <1>5, StillTold

\* Every handler that changes what a client should be shown shows it.
LEMMA StepTells ==
  ASSUME Consistent, [Next]_relayVars, NEW s \in Socket
  PROVE  Tells(s)
<1>b. TypeOK /\ MembershipAgrees
  BY DEF Consistent
<1>c. NoContext \in Context /\ NoContext.room = NoRoom
  BY DEF NoContext, Context
<1>m. InRoom(s) => rooms[ctx[s].room] \subseteq Socket /\ s \in rooms[ctx[s].room]
  BY <1>b DEF TypeOK, MembershipAgrees
\* Steps that touch neither contexts nor queues nor open a socket of a member.
<1>k. ASSUME UNCHANGED <<rooms, down>>,
             \A x \in Socket : Attached(x) => ctx'[x] = ctx[x] /\ (state'[x] = Open => state[x] = Open),
             Attached(s) \/ ctx'[s].room = NoRoom
      PROVE  Tells(s)
  <2>1. CASE ctx'[s].room = NoRoom
    BY <2>1 DEF Tells, Staying, InRoom
  <2>2. CASE Attached(s)
    <3>1. InRoom(s) => \A m \in rooms[ctx[s].room] : Attached(m)
      BY <1>b DEF MembershipAgrees
    <3>2. InRoom(s) => \A m \in rooms[ctx[s].room] :
                         ctx'[m] = ctx[m] /\ (state'[m] = Open => state[m] = Open)
      BY <1>k, <1>m, <3>1
    <3>3. QED
      BY <1>k, <2>2, <3>2, StillTold DEF SameLast
  <2>3. QED
    BY <1>k, <2>1, <2>2
<1>1. ASSUME NEW a \in Socket, Connect(a)
      PROVE  Tells(s)
  <2>1. /\ \A x \in Socket \ {a} : ctx'[x] = ctx[x] /\ state'[x] = state[x]
        /\ ctx'[a].room = NoRoom /\ ~Attached(a) /\ UNCHANGED <<rooms, down>>
    BY <1>1, <1>b, <1>c DEF Connect, TypeOK, Attached, Open
  <2>2. CASE s = a \/ Attached(s)
    BY <1>k, <2>1, <2>2
  <2>3. CASE s # a /\ ~Attached(s)
    BY <2>1, <2>3 DEF Tells, Staying, Attached
  <2>4. QED
    BY <2>2, <2>3
<1>2. ASSUME NEW a \in Socket, RefusedGone(a) \/ BeginClose(a)
      PROVE  Tells(s)
  <2>1. /\ UNCHANGED <<ctx, rooms, down>>
        /\ \A x \in Socket : state'[x] = Open => state[x] = Open
    BY <1>2, <1>b DEF RefusedGone, BeginClose, TypeOK, Open
  <2>2. CASE Attached(s)
    BY <1>k, <2>1, <2>2
  <2>3. CASE ~Attached(s)
    BY <2>1, <2>3 DEF Tells, Staying, Attached
  <2>4. QED
    BY <2>2, <2>3
<1>3. ASSUME NEW a \in Socket, Close(a)
      PROVE  Tells(s)
  <2>1. /\ rooms' = RoomsLeft(a) /\ ctx'[a].room = NoRoom
        /\ \A x \in Socket \ {a} : ctx'[x] = ctx[x] /\ state'[x] = state[x]
    BY <1>3, <1>b, <1>c DEF Close, CloseHandler, TypeOK
  <2>2. \A x \in Socket \ {a} : down'[x] = DownLeft(a)[x]
    BY <1>3, LeftTypes DEF Close, CloseHandler
  <2>3. QED
    BY <2>1, <2>2, LeavingTold
<1>4. ASSUME NEW a \in Socket, ctx' = CtxLeft(a), rooms' = RoomsLeft(a),
             down' = DownLeft(a), UNCHANGED state
      PROVE  Tells(s)
  BY <1>4, LeftMembers, LeavingTold
<1>5. ASSUME NEW a \in Socket, NEW m \in JoinMsg, Join(a, m)
      PROVE  Tells(s)
  <2>1. CASE ctx' = CtxLeft(a) /\ rooms' = RoomsLeft(a) /\ down' = DownLeft(a)
    BY <1>4, <1>5, <2>1 DEF Join
  <2>2. ASSUME NEW room \in JoinTargets(m),
               ctx' = JoinedCtx(a, room, m), rooms' = JoinedRooms(a, room),
               down' = WithPresence(DownLeft(a), room, JoinedRooms(a, room)[room],
                                    JoinedCtx(a, room, m))
        PROVE  Tells(s)
    BY <1>5, <2>2, JoiningTold DEF Join
  <2>3. QED
    BY <1>5, <2>1, <2>2 DEF Join
<1>6. ASSUME NEW a \in Socket, ChatAll(a) \/ Ping(a)
      PROVE  Tells(s)
  BY <1>6, TalkingTold DEF ChatAll, Ping
<1>7. ASSUME NEW a \in Socket, NEW t \in Team \cup {NoTeam}, ChatTeam(a, t)
      PROVE  Tells(s)
  <2>1. Target(a, t) \in Team \cup {NoTeam}
    BY <1>b DEF Target, TypeOK, Context
  <2>2. QED
    BY <1>7, <2>1, TalkingTold DEF ChatTeam
<1>8. ASSUME NEW a \in Socket, Deliver(a)
      PROVE  Tells(s)
  <2>1. down[s] \in Seq(Frame)
    BY <1>b DEF TypeOK
  <2>2. down'[s] = down[s] \/ (down[s] # <<>> /\ down'[s] = Tail(down[s]))
    BY <1>8, <1>b DEF Deliver, TypeOK
  <2>3. SameLast(s)
    <3>1. CASE down'[s] = down[s]
      BY <3>1 DEF SameLast
    <3>2. CASE down[s] # <<>> /\ down'[s] = Tail(down[s])
      BY <2>1, <3>2, LastOfTail DEF SameLast
    <3>3. QED
      BY <2>2, <3>1, <3>2
  <2>4. QED
    BY <1>8, <2>3, StillTold DEF Deliver
<1>9. ASSUME Shutdown
      PROVE  Tells(s)
  BY <1>9 DEF Shutdown, Tells, Staying, Open
<1>10. ASSUME Restart
       PROVE  Tells(s)
  BY <1>10 DEF Restart, Tells, Staying, Open
<1>11. ASSUME UNCHANGED relayVars
       PROVE  Tells(s)
  BY <1>11, StillTold DEF relayVars, SameLast
<1>12. ASSUME NEW a \in Socket, Leave(a)
       PROVE  Tells(s)
  BY <1>4, <1>12 DEF Leave
<1>13. QED
  BY <1>1, <1>2, <1>3, <1>5, <1>6, <1>7, <1>8, <1>9, <1>10, <1>11, <1>12 DEF Next

\* The steps of the relay and its clients, without the network's.
Works ==
  \/ \E a \in Socket : \/ Connect(a) \/ RefusedGone(a) \/ BeginClose(a) \/ Close(a)
                       \/ Leave(a) \/ ChatAll(a) \/ Ping(a)
  \/ \E a \in Socket, m \in JoinMsg : Join(a, m)
  \/ \E a \in Socket, t \in Team \cup {NoTeam} : ChatTeam(a, t)
  \/ Shutdown
  \/ Restart

\* The queue p is q with more behind it.
Grown(q, p) == \A i \in 1..Len(q) : i \in 1..Len(p) /\ p[i] = q[i]

\* Sending takes no frame away from a client that stays.
LEMMA SendingGrows ==
  ASSUME Consistent, Works \/ UNCHANGED relayVars, NEW s \in Socket, Staying(s)'
  PROVE  Grown(down[s], down'[s])
<1>a. TypeOK
  BY DEF Consistent
<1>q. \A q \in Seq(Frame) : \A f : Grown(q, q) /\ Grown(q, Append(q, f))
  BY DEF Grown
<1>t. \A q, p, r : Grown(q, p) /\ Grown(p, r) => Grown(q, r)
  BY DEF Grown
<1>p. ASSUME NEW q \in [Socket -> Seq(Frame)], NEW room, NEW members, NEW cs
      PROVE  Grown(q[s], WithPresence(q, room, members, cs)[s])
  <2>1. WithPresence(q, room, members, cs)[s] \in
          {q[s], Append(q[s], Snapshot(s, room, members, cs))}
    BY DEF WithPresence
  <2> QED
    BY <1>q, <2>1
<1>l. \A a \in Socket : Grown(down[s], DownLeft(a)[s])
  BY <1>a, <1>p, <1>q DEF TypeOK, DownLeft
<1>1. CASE down' = down
  BY <1>1, <1>a, <1>q DEF TypeOK
<1>2. CASE \E a \in Socket : down' = DownLeft(a)
  BY <1>2, <1>l
<1>3. CASE \E a \in Socket : Close(a)
  <2>1. PICK a \in Socket : Close(a)
    BY <1>3
  <2>2. s # a
    BY <2>1, <1>a DEF Close, CloseHandler, TypeOK, Staying, Open
  <2>3. down'[s] = DownLeft(a)[s]
    BY <2>1, <2>2, LeftTypes DEF Close, CloseHandler
  <2> QED
    BY <2>3, <1>l
<1>4. CASE \E a \in Socket, m \in JoinMsg : Join(a, m)
  <2>1. PICK a \in Socket, m \in JoinMsg : Join(a, m)
    BY <1>4
  <2>2. CASE down' = DownLeft(a)
    BY <2>2, <1>2
  <2>3. ASSUME NEW room, NEW members, NEW cs,
               down' = WithPresence(DownLeft(a), room, members, cs)
        PROVE  Grown(down[s], down'[s])
    <3>1. Grown(DownLeft(a)[s], down'[s])
      BY <2>3, <1>p, LeftTypes
    <3> QED
      BY <3>1, <1>l, <1>t
  <2> QED
    BY <2>1, <2>2, <2>3 DEF Join
<1>5. CASE \E a \in Socket : ChatAll(a) \/ Ping(a) \/ \E t : ChatTeam(a, t)
  <2>1. PICK a \in Socket : \E kind, audience, target, hearers :
          down' = WithTalk(a, kind, audience, target, hearers)
    BY <1>5 DEF ChatAll, Ping, ChatTeam
  <2>2. down'[s] = down[s] \/ \E f : down'[s] = Append(down[s], f)
    BY <2>1 DEF WithTalk
  <2> QED
    BY <2>2, <1>a, <1>q DEF TypeOK
<1>6. CASE Restart
  BY <1>6 DEF Restart, Staying, Open
<1> QED
  BY <1>1, <1>2, <1>3, <1>4, <1>5, <1>6
     DEF Works, relayVars, Connect, RefusedGone, BeginClose, Leave, Shutdown

LEMMA StepTold == Consistent /\ LastSnapshotCurrent /\ [Next]_relayVars => LastSnapshotCurrent'
<1> SUFFICES ASSUME Consistent, LastSnapshotCurrent, [Next]_relayVars, NEW s \in Socket
             PROVE  Told(s)'
  BY DEF LastSnapshotCurrent, Told, Staying, InRoom, Open, LastPresence
<1>1. Told(s)
  BY DEF LastSnapshotCurrent, Told, Staying
<1>2. QED
  BY <1>1, StepTells, TellsTold

\* The last snapshot on its way to an open member is the one its room, its
\* context and its fellow members call for, whatever joins, leaves and closes
\* come in whatever order (broadcastPresence in join, leave and close).
THEOREM RelaySnapshots == Spec => []LastSnapshotCurrent
<1>1. Init => LastSnapshotCurrent
  BY DEF Init, LastSnapshotCurrent
<1>2. QED
  BY <1>1, AlwaysConsistent, StepTold, PTL DEF Spec

----------------------------------------------------------------------------
(* The service without books *)

\* The members of a room are those who say so; one that nobody is in does not exist.
LEMMA BooksRight ==
  ASSUME Consistent, NEW r \in Room
  PROVE  Service!Members(r) = IF r \in DOMAIN rooms THEN rooms[r] ELSE {}
<1>1. r # NoRoom
  BY RelayConstants DEF RelayConstants
<1>2. CASE r \in DOMAIN rooms
  <2>1. \A x \in rooms[r] : x \in Socket /\ ctx[x].room = r
    BY <1>2 DEF Consistent, TypeOK, MembershipAgrees
  <2>2. \A x \in Socket : ctx[x].room = r => x \in rooms[r]
    BY <1>1 DEF Consistent, MembershipAgrees, InRoom
  <2> QED
    BY <1>2, <2>1, <2>2 DEF Service!Members
<1>3. CASE r \notin DOMAIN rooms
  <2>1. \A x \in Socket : ctx[x].room # r
    BY <1>1, <1>3 DEF Consistent, MembershipAgrees, InRoom
  <2> QED
    BY <1>3, <2>1 DEF Service!Members
<1> QED
  BY <1>2, <1>3

\* What broadcastPresence builds for r from members that are in the room after
\* the step lists some of those that r may see, and with all of them, all.
LEMMA SnapshotLists ==
  ASSUME NEW r \in Socket, NEW members \in SUBSET Socket, NEW cs, r \in members,
         \A m \in members : cs[m] = ctx'[m] /\ state'[m] = state[m] /\ ctx'[m].room = ctx'[r].room
  PROVE  \E seen \in SUBSET Service!Visible(r)' :
           /\ Snapshot(r, ctx'[r].room, members, cs) = Service!Listing(r, seen)'
           /\ members = Service!Members(ctx[r].room)' => seen = Service!Visible(r)'
<1> DEFINE seen == Disclosed(r, members, cs)
<1>1. seen \subseteq members
  BY DEF Disclosed
<1>2. ASSUME NEW m \in members
      PROVE  m \in seen <=> m \in Service!Visible(r)'
  BY <1>2 DEF Disclosed, IsPlayer, Service!Visible, Service!SameSide, Service!Members,
              Open, Team, Service!Team
<1>3. Service!Visible(r)' \subseteq Service!Members(ctx[r].room)'
  BY DEF Service!Visible, Service!Members
<1>4. \A m \in seen : MemberOf(cs[m]) = Service!Standing(m)'
  BY <1>1 DEF MemberOf, Service!Standing
<1>5. {MemberOf(cs[m]) : m \in seen} = {Service!Standing(m)' : m \in seen}
  BY <1>4
<1> HIDE DEF seen
<1>6. PICK these : these = seen
  OBVIOUS
<1>7. Snapshot(r, ctx'[r].room, members, cs) = Service!Listing(r, these)'
  BY <1>5, <1>6 DEF Snapshot, Service!Listing, Service!Standing, MemberOf, seen
<1>8. these \subseteq Service!Visible(r)'
  BY <1>1, <1>2, <1>6
<1>9. members = Service!Members(ctx[r].room)' => these = Service!Visible(r)'
  BY <1>1, <1>2, <1>3, <1>6
<1> QED
  BY <1>7, <1>8, <1>9

\* A client that is sent the right snapshot is told,
LEMMA OnceTold ==
  ASSUME NEW r \in Socket, down[r] \in Seq(Frame), NEW f \in Frame,
         down'[r] = Append(down[r], f), f = Service!Listing(r, Service!Visible(r))'
  PROVE  Service!Told(r)
<1>1. /\ Len(down[r]) \in Nat /\ Len(down'[r]) = Len(down[r]) + 1
      /\ \A i \in 1..Len(down[r]) : down'[r][i] = down[r][i]
      /\ down'[r][Len(down[r]) + 1] = f
  OBVIOUS
<1>2. \A i \in Len(down[r]) + 1..Len(down'[r]) : i = Len(down[r]) + 1
  BY <1>1
<1>3. PICK these : these = Service!Visible(r)'
  OBVIOUS
<1>4. f = Service!Listing(r, these)'
  BY <1>3 DEF Service!Listing
<1> QED
  BY <1>1, <1>2, <1>3, <1>4 DEF Service!Told

\* also when it was sent one before that lists less.
LEMMA TwiceTold ==
  ASSUME NEW r \in Socket, down[r] \in Seq(Frame), NEW e \in Frame, NEW f \in Frame,
         NEW seen \in SUBSET Service!Visible(r)', e = Service!Listing(r, seen)',
         down'[r] = Append(Append(down[r], e), f), f = Service!Listing(r, Service!Visible(r))'
  PROVE  Service!Told(r)
<1>0. PICK n \in Nat : n = Len(down[r])
  OBVIOUS
<1>1. /\ Len(down'[r]) = n + 2
      /\ \A i \in 1..n : down'[r][i] = down[r][i]
      /\ down'[r][n + 1] = e /\ down'[r][n + 2] = f
  BY <1>0
<1>2. \A i \in n + 1..Len(down'[r]) : i = n + 1 \/ i = n + 2
  BY <1>1
<1>3. PICK these : these = Service!Visible(r)'
  OBVIOUS
<1>4. f = Service!Listing(r, these)'
  BY <1>3 DEF Service!Listing
<1> QED
  BY <1>0, <1>1, <1>2, <1>3, <1>4 DEF Service!Told

\* removeFromRoom, in a leave, a close or a join that fails: the rest of the room
\* is told, each by one snapshot, and nobody else is sent anything.
LEMMA RestInformed ==
  ASSUME Consistent, NEW s \in Socket, ctx'[s].room = NoRoom,
         \A x \in Socket \ {s} : /\ ctx'[x] = ctx[x] /\ state'[x] = state[x]
                                 /\ down'[x] = DownLeft(s)[x]
  PROVE  Service!Informed(Socket \ {s}, {ctx[s].room} \ {NoRoom})
<1>a. TypeOK /\ MembershipAgrees
  BY DEF Consistent
<1>1. SUFFICES ASSUME NEW r \in Socket \ {s}
               PROVE  IF state'[r] = "open" /\ ctx'[r].room \in {ctx[s].room} \ {NoRoom}
                      THEN Service!Told(r) ELSE down'[r] = down[r]
  BY DEF Service!Informed
<1>2. ctx'[r] = ctx[r] /\ state'[r] = state[r] /\ down[r] \in Seq(Frame)
  BY <1>a DEF TypeOK
<1>3. ASSUME InRoom(s)
      PROVE  /\ ctx[s].room \in Room /\ Rest(s) \in SUBSET Socket
             /\ Rest(s) = Service!Members(ctx[s].room) \ {s}
             /\ r \in Rest(s) <=> ctx[r].room = ctx[s].room
  <2>1. ctx[s].room \in DOMAIN rooms /\ ctx[s].room \in Room
    BY <1>a, <1>3 DEF TypeOK, MembershipAgrees
  <2>2. Rest(s) = Service!Members(ctx[s].room) \ {s}
    BY <2>1, BooksRight DEF Rest
  <2> QED
    BY <2>1, <2>2 DEF Service!Members
<1>4. ASSUME InRoom(s), r \in Rest(s), state[r] = Open
      PROVE  Service!Told(r)
  <2>1. down'[r] = Append(down[r], Snapshot(r, ctx'[r].room, Rest(s), CtxLeft(s)))
    BY <1>2, <1>3, <1>4 DEF DownLeft, WithPresence
  <2>2. \A m \in Rest(s) : CtxLeft(s)[m] = ctx'[m] /\ state'[m] = state[m] /\ ctx'[m].room = ctx'[r].room
    BY <1>2, <1>3, <1>4, LeftMembers DEF Service!Members
  <2>3. Rest(s) = Service!Members(ctx[r].room)'
    <3>1. \A x \in Socket \ {s} : ctx'[x] = ctx[x]
      OBVIOUS
    <3>2. ctx'[r].room = ctx[s].room /\ ctx[s].room # NoRoom
      BY <1>2, <1>3, <1>4 DEF InRoom
    <3> QED
      BY <1>3, <1>4, <3>1, <3>2 DEF Service!Members
  <2>4. PICK seen \in SUBSET Service!Visible(r)' :
          /\ Snapshot(r, ctx'[r].room, Rest(s), CtxLeft(s)) = Service!Listing(r, seen)'
          /\ seen = Service!Visible(r)'
    BY <1>3, <1>4, <2>2, <2>3, SnapshotLists
  <2>5. PICK f : f = Snapshot(r, ctx'[r].room, Rest(s), CtxLeft(s))
    OBVIOUS
  <2>6. f \in Frame
    BY <1>2, <1>3, <1>4, <2>5, LeftTypes, SnapshotType DEF Frame
  <2>7. f = Service!Listing(r, Service!Visible(r))'
    BY <2>4, <2>5 DEF Service!Listing
  <2> QED
    BY <1>2, <2>1, <2>5, <2>6, <2>7, OnceTold
<1>5. ASSUME ~(InRoom(s) /\ r \in Rest(s) /\ state[r] = Open)
      PROVE  down'[r] = down[r]
  BY <1>5 DEF DownLeft, WithPresence
<1> QED
  BY <1>2, <1>3, <1>4, <1>5 DEF InRoom, Open

\* A join that lands: the new room is told, the newcomer with it, and the rest of
\* the old one, once more where the two are the same room.
LEMMA RoomsInformed ==
  ASSUME Consistent, NEW s \in Socket, NEW m \in JoinMsg, NEW room \in JoinTargets(m),
         ctx' = JoinedCtx(s, room, m), state' = state,
         down' = WithPresence(DownLeft(s), room, JoinedRooms(s, room)[room],
                              JoinedCtx(s, room, m))
  PROVE  Service!Informed(Socket, {ctx[s].room, ctx'[s].room} \ {NoRoom})
<1> DEFINE members == JoinedRooms(s, room)[room]
<1>a. TypeOK /\ MembershipAgrees /\ room \in Room /\ room # NoRoom
  BY JoinedTypes, RelayConstants DEF Consistent, RelayConstants
<1>b. ctx'[s].room = room /\ \A x \in Socket \ {s} : ctx'[x] = ctx[x]
  BY LeftTypes, LeftMembers DEF JoinedCtx
<1>c. members = Service!Members(room)'
  <2>1. members = (IF room \in DOMAIN RoomsLeft(s) THEN RoomsLeft(s)[room] ELSE {}) \cup {s}
    BY DEF JoinedRooms
  <2>2. members = (Service!Members(room) \ {s}) \cup {s}
    BY <1>a, <2>1, LeftMembers, BooksRight
  <2> QED
    BY <1>b, <2>2 DEF Service!Members
<1>1. SUFFICES ASSUME NEW r \in Socket
               PROVE  IF state'[r] = "open" /\ ctx'[r].room \in {ctx[s].room, ctx'[s].room} \ {NoRoom}
                      THEN Service!Told(r) ELSE down'[r] = down[r]
  BY DEF Service!Informed
<1>2. down[r] \in Seq(Frame) /\ DownLeft(s) \in [Socket -> Seq(Frame)]
  BY <1>a, LeftTypes DEF TypeOK
<1>3. ASSUME InRoom(s)
      PROVE  /\ ctx[s].room \in Room /\ Rest(s) \in SUBSET Socket
             /\ Rest(s) = Service!Members(ctx[s].room) \ {s}
             /\ r \in Rest(s) <=> r # s /\ ctx[r].room = ctx[s].room
  <2>1. ctx[s].room \in DOMAIN rooms /\ ctx[s].room \in Room
    BY <1>a, <1>3 DEF TypeOK, MembershipAgrees
  <2>2. Rest(s) = Service!Members(ctx[s].room) \ {s}
    BY <2>1, BooksRight DEF Rest
  <2> QED
    BY <2>1, <2>2 DEF Service!Members
<1>4. r \in members <=> ctx'[r].room = room
  BY <1>c DEF Service!Members
\* The snapshot that removeFromRoom sends.
<1>5. ASSUME InRoom(s), r \in Rest(s)
      PROVE  \E e \in Frame, seen \in SUBSET Service!Visible(r)' :
               /\ state[r] = Open => DownLeft(s)[r] = Append(down[r], e)
               /\ e = Service!Listing(r, seen)'
               /\ ctx[s].room # room => seen = Service!Visible(r)'
  <2>1. r # s /\ ctx'[r] = ctx[r] /\ ctx'[r].room = ctx[s].room
    BY <1>b, <1>3, <1>5
  <2>2. \A x \in Rest(s) : CtxLeft(s)[x] = ctx'[x] /\ state'[x] = state[x] /\ ctx'[x].room = ctx'[r].room
    BY <1>b, <1>3, <2>1, <1>5, LeftMembers DEF Service!Members
  <2>3. ASSUME ctx[s].room # room
        PROVE  Rest(s) = Service!Members(ctx[r].room)'
    BY <1>b, <1>3, <1>5, <2>1, <2>3 DEF Service!Members
  <2>4. PICK seen \in SUBSET Service!Visible(r)' :
          /\ Snapshot(r, ctx'[r].room, Rest(s), CtxLeft(s)) = Service!Listing(r, seen)'
          /\ ctx[s].room # room => seen = Service!Visible(r)'
    BY <1>3, <1>5, <2>2, <2>3, SnapshotLists
  <2>5. PICK e : e = Snapshot(r, ctx'[r].room, Rest(s), CtxLeft(s))
    OBVIOUS
  <2>6. e \in Frame
    BY <1>3, <1>5, <2>1, <2>5, LeftTypes, SnapshotType DEF Frame
  <2>7. state[r] = Open => DownLeft(s)[r] = Append(down[r], e)
    BY <1>5, <2>1, <2>5 DEF DownLeft, WithPresence
  <2> QED
    BY <2>4, <2>5, <2>6, <2>7
<1>6. ASSUME ~(InRoom(s) /\ r \in Rest(s))
      PROVE  DownLeft(s)[r] = down[r]
  BY <1>6 DEF DownLeft, WithPresence
\* The snapshot that the join itself sends.
<1>7. ASSUME r \in members
      PROVE  \E f \in Frame :
               /\ state[r] = Open => down'[r] = Append(DownLeft(s)[r], f)
               /\ f = Service!Listing(r, Service!Visible(r))'
  <2>1. /\ members \in SUBSET Socket
        /\ \A x \in members : /\ JoinedCtx(s, room, m)[x] = ctx'[x] /\ state'[x] = state[x]
                              /\ ctx'[x].room = ctx'[r].room
    BY <1>c, <1>4, <1>7 DEF Service!Members
  <2>2. members = Service!Members(ctx[r].room)'
    BY <1>c, <1>4, <1>7 DEF Service!Members
  <2>3. PICK f : f = Snapshot(r, room, members, JoinedCtx(s, room, m))
    OBVIOUS
  <2>4. f \in Frame
    BY <1>a, <2>1, <2>3, JoinedTypes, SnapshotType DEF Frame
  <2>5. state[r] = Open => down'[r] = Append(DownLeft(s)[r], f)
    BY <1>7, <2>3 DEF WithPresence
  <2> HIDE DEF members
  <2>6. PICK seen : f = Service!Listing(r, seen)' /\ seen = Service!Visible(r)'
    BY <1>4, <1>7, <2>1, <2>2, <2>3, SnapshotLists
  <2>7. f = Service!Listing(r, Service!Visible(r))'
    BY <2>6 DEF Service!Listing
  <2> QED
    BY <2>4, <2>5, <2>7
<1>8. ASSUME r \notin members
      PROVE  down'[r] = DownLeft(s)[r]
  BY <1>8 DEF WithPresence
<1> HIDE DEF members
<1>9. CASE state[r] # Open
  BY <1>9, <1>2 DEF Open, WithPresence, DownLeft
<1>10. CASE state[r] = Open /\ r \in members
  <2>1. PICK f \in Frame : /\ down'[r] = Append(DownLeft(s)[r], f)
                           /\ f = Service!Listing(r, Service!Visible(r))'
    BY <1>7, <1>10
  <2>2. CASE InRoom(s) /\ r \in Rest(s)
    <3>1. PICK e \in Frame, seen \in SUBSET Service!Visible(r)' :
            DownLeft(s)[r] = Append(down[r], e) /\ e = Service!Listing(r, seen)'
      BY <1>5, <1>10, <2>2
    <3>2. Service!Told(r)
      BY <1>2, <2>1, <3>1, TwiceTold
    <3> QED
      BY <1>a, <1>b, <1>4, <1>10, <3>2 DEF Open
  <2>3. CASE ~(InRoom(s) /\ r \in Rest(s))
    <3>1. Service!Told(r)
      BY <1>2, <1>6, <2>1, <2>3, OnceTold
    <3> QED
      BY <1>a, <1>b, <1>4, <1>10, <3>1 DEF Open
  <2> QED
    BY <2>2, <2>3
<1>11. CASE state[r] = Open /\ r \notin members
  <2>1. r # s /\ ctx'[r] = ctx[r] /\ ctx[r].room # room
    BY <1>b, <1>4, <1>11
  <2>2. CASE InRoom(s) /\ r \in Rest(s)
    <3>1. ctx[s].room # room
      BY <1>3, <2>1, <2>2
    <3>2. PICK e \in Frame : \E seen :
            /\ DownLeft(s)[r] = Append(down[r], e)
            /\ e = Service!Listing(r, seen)' /\ seen = Service!Visible(r)'
      BY <1>5, <1>11, <2>2, <3>1
    <3>3. e = Service!Listing(r, Service!Visible(r))'
      BY <3>2 DEF Service!Listing
    <3>4. Service!Told(r)
      BY <1>2, <1>8, <1>11, <3>2, <3>3, OnceTold
    <3> QED
      BY <1>3, <1>11, <2>1, <2>2, <3>4 DEF InRoom, Open
  <2>3. CASE ~(InRoom(s) /\ r \in Rest(s))
    <3>1. down'[r] = down[r]
      BY <1>6, <1>8, <1>11, <2>3
    <3>2. ctx'[r].room \notin {ctx[s].room, ctx'[s].room} \ {NoRoom}
      BY <1>b, <1>3, <2>1, <2>3 DEF InRoom
    <3> QED
      BY <3>1, <3>2
  <2> QED
    BY <2>2, <2>3
<1> QED
  BY <1>9, <1>10, <1>11

\* Talk, to those of hearers who are in the room.
LEMMA TalkSent ==
  ASSUME Consistent, NEW s \in Socket, InRoom(s), NEW kind, NEW audience, NEW target, NEW hearers,
         down' = WithTalk(s, kind, audience, target, hearers)
  PROVE  Service!Sent(s, kind, audience, target, Service!Hearers(s) \cap hearers)
<1>1. ctx[s].room \in DOMAIN rooms /\ ctx[s].room \in Room
  BY DEF Consistent, TypeOK, MembershipAgrees
<1>2. rooms[ctx[s].room] = Service!Members(ctx[s].room)
  BY <1>1, BooksRight
<1>3. \A r \in Socket : r \in (rooms[ctx[s].room] \ {s}) \cap hearers /\ state[r] = Open
                          <=> r \in Service!Hearers(s) \cap hearers
  BY <1>2 DEF Service!Hearers, Open
<1> QED
  BY <1>3 DEF WithTalk, Service!Sent, MemberOf, Service!Standing

\* A step of the relay is a step of the service, or none.
LEMMA StepServes ==
  Consistent /\ ConnectionsCounted /\ [Next]_relayVars => [Service!Next]_(Service!serviceVars)
<1> SUFFICES ASSUME Consistent, ConnectionsCounted, [Next]_relayVars
             PROVE  Service!Next \/ UNCHANGED Service!serviceVars
  OBVIOUS
<1>a. TypeOK /\ MembershipAgrees
  BY DEF Consistent
<1>b. NoContext = Service!Nobody /\ NoContext \in Context /\ NoContext.room = NoRoom
  BY DEF NoContext, Service!Nobody, Context
<1>c. Context = Service!Context /\ Team = Service!Team
  BY DEF Context, Service!Context, Team, Service!Team
<1>d. \A s \in Socket : Attached(s) <=> Service!Connected(s)
  BY DEF Attached, Service!Connected, Open
<1>1. ASSUME NEW s \in Socket, Connect(s)
      PROVE  Service!Arrives(s)
  <2>1. AttachedFrom(IpOf[s]) = {x \in Socket : IpOf[x] = IpOf[s] /\ Service!Connected(x)}
    BY <1>d DEF AttachedFrom
  <2>2. conns[IpOf[s]] = Service!Load(IpOf[s])
    <3>1. \A set : Service!Cardinality(set) = Cardinality(set)
      BY Zenon DEF Cardinality, Service!Cardinality
    <3>2. Service!Load(IpOf[s]) = Cardinality(AttachedFrom(IpOf[s]))
      BY <2>1, <3>1 DEF Service!Load
    <3> QED
      BY <3>2, RelayConstants DEF ConnectionsCounted, RelayConstants
  <2>3. conns[IpOf[s]] \in Nat /\ MaxConnsPerIp \in Nat
    BY <1>a, RelayConstants DEF TypeOK, RelayConstants
  <2>4. conns[IpOf[s]] + 1 > MaxConnsPerIp <=> ~(Service!Load(IpOf[s]) < MaxConnsPerIp)
    BY <2>2, <2>3
  <2> QED
    BY <1>1, <1>b, <2>4 DEF Connect, Service!Arrives, Open
<1>2. ASSUME NEW s \in Socket, RefusedGone(s)
      PROVE  Service!TurnedAway(s)
  BY <1>2 DEF RefusedGone, Service!TurnedAway
<1>3. ASSUME NEW s \in Socket, BeginClose(s)
      PROVE  Service!BeginsToGo(s)
  BY <1>3 DEF BeginClose, Service!BeginsToGo, Open
<1>4. ASSUME NEW s \in Socket, Close(s)
      PROVE  Service!Goes(s)
  <2>1. /\ ctx' = [ctx EXCEPT ![s] = NoContext] /\ state' = [state EXCEPT ![s] = "absent"]
        /\ down' = [DownLeft(s) EXCEPT ![s] = <<>>] /\ serving' = serving
    BY <1>4 DEF Close, CloseHandler
  <2>2. ctx'[s].room = NoRoom /\ down'[s] = <<>>
    BY <1>a, <1>b, <2>1, LeftTypes DEF TypeOK
  <2>3. \A x \in Socket \ {s} : /\ ctx'[x] = ctx[x] /\ state'[x] = state[x]
                                /\ down'[x] = DownLeft(s)[x]
    BY <1>a, <2>1, LeftTypes DEF TypeOK
  <2>4. Service!Informed(Socket \ {s}, {ctx[s].room} \ {NoRoom})
    BY <2>2, <2>3, RestInformed
  <2> QED
    BY <1>4, <1>b, <1>d, <2>1, <2>2, <2>4 DEF Close, Service!Goes
<1>5. ASSUME NEW s \in Socket, Attached(s), UNCHANGED <<state, conns, serving>>,
             ctx' = CtxLeft(s), down' = DownLeft(s)
      PROVE  Service!Moves(s)
  <2>1. CtxLeft(s)[s] \in Context /\ CtxLeft(s)[s].room = NoRoom
    BY LeftTypes, LeftMembers
  <2>2. ctx' = [ctx EXCEPT ![s] = ctx'[s]]
    BY <1>5, <1>a, LeftTypes DEF CtxLeft, TypeOK
  <2>3. Service!Informed(Socket \ {s}, {ctx[s].room} \ {NoRoom})
    BY <1>5, <2>1, LeftMembers, RestInformed
  <2>4. down'[s] = down[s]
    BY <1>5 DEF DownLeft, WithPresence, Rest
  <2>5. Service!Informed(Socket, {ctx[s].room, ctx'[s].room} \ {NoRoom})
    <3>1. {ctx[s].room, ctx'[s].room} \ {NoRoom} = {ctx[s].room} \ {NoRoom}
      BY <1>5, <2>1
    <3>2. ctx'[s].room \notin {ctx[s].room} \ {NoRoom}
      BY <1>5, <2>1
    <3> QED
      BY <2>3, <2>4, <3>1, <3>2 DEF Service!Informed
  <2> QED
    BY <1>5, <1>c, <1>d, <2>1, <2>2, <2>5 DEF Service!Moves
<1>6. ASSUME NEW s \in Socket, NEW m \in JoinMsg, Join(s, m)
      PROVE  Service!Moves(s)
  <2>1. CASE ctx' = CtxLeft(s) /\ down' = DownLeft(s)
    BY <1>5, <1>6, <2>1 DEF Join
  <2>2. ASSUME NEW room \in JoinTargets(m), ctx' = JoinedCtx(s, room, m),
               down' = WithPresence(DownLeft(s), room, JoinedRooms(s, room)[room],
                                    JoinedCtx(s, room, m))
        PROVE  Service!Moves(s)
    <3>1. ctx'[s] \in Context
      BY <2>2, JoinedTypes
    <3>2. ctx' = [ctx EXCEPT ![s] = ctx'[s]]
      BY <2>2, <1>a, LeftTypes DEF JoinedCtx, CtxLeft, TypeOK
    <3>3. Service!Informed(Socket, {ctx[s].room, ctx'[s].room} \ {NoRoom})
      BY <1>6, <2>2, RoomsInformed DEF Join
    <3> QED
      BY <1>6, <1>c, <1>d, <3>1, <3>2, <3>3 DEF Join, Service!Moves
  <2> QED
    BY <1>6, <2>1, <2>2 DEF Join
<1>7. ASSUME NEW s \in Socket, Leave(s)
      PROVE  Service!Moves(s)
  BY <1>5, <1>7 DEF Leave
<1>8. ASSUME NEW s \in Socket, ChatAll(s) \/ Ping(s)
      PROVE  \E kind \in {"chat", "ping"} : Service!Says(s, kind)
  <2>1. PICK kind \in {"chat", "ping"} : down' = WithTalk(s, kind, "all", NoTeam, Socket)
    BY <1>8 DEF ChatAll, Ping
  <2>2. Attached(s) /\ InRoom(s) /\ UNCHANGED <<state, ctx, rooms, conns, serving>>
    BY <1>8 DEF ChatAll, Ping
  <2>3. Service!Hearers(s) \cap Socket = Service!Hearers(s)
    BY DEF Service!Hearers, Service!Members
  <2>4. Service!Sent(s, kind, "all", NoTeam, Service!Hearers(s))
    BY <2>1, <2>2, <2>3, TalkSent
  <2> QED
    BY <1>d, <2>2, <2>4 DEF Service!Says, InRoom
<1>9. ASSUME NEW s \in Socket, NEW t \in Team \cup {NoTeam}, ChatTeam(s, t)
      PROVE  \E team \in Service!Team : Service!SaysToTeam(s, team)
  <2>1. PICK team : team = Target(s, t)
    OBVIOUS
  <2>2. /\ Attached(s) /\ InRoom(s) /\ UNCHANGED <<state, ctx, rooms, conns, serving>>
        /\ down' = WithTalk(s, "chat", "team", team, {r \in Socket : ctx[r].team = team})
        /\ team # NoTeam /\ (ctx[s].spectator \/ team = ctx[s].team)
    BY <1>9, <2>1 DEF ChatTeam, MayTarget
  <2>3. team \in Service!Team
    BY <1>a, <1>c, <2>1, <2>2 DEF Target, TypeOK, Context
  <2>4. Service!Hearers(s) \cap {r \in Socket : ctx[r].team = team}
          = {r \in Service!Hearers(s) : ctx[r].team = team}
    BY DEF Service!Hearers, Service!Members
  <2>5. Service!Sent(s, "chat", "team", team, {r \in Service!Hearers(s) : ctx[r].team = team})
    BY <2>2, <2>4, TalkSent
  <2> QED
    BY <1>d, <2>2, <2>3, <2>5 DEF Service!SaysToTeam, InRoom
<1>10. ASSUME NEW s \in Socket, Deliver(s)
       PROVE  Service!Receives(s)
  BY <1>10 DEF Deliver, Service!Receives
<1>11. ASSUME Shutdown
       PROVE  Service!Winds
  BY <1>11 DEF Shutdown, Service!Winds, Open
<1>12. ASSUME Restart
       PROVE  Service!Forgets
  BY <1>12, <1>b DEF Restart, Service!Forgets, Service!Init, NoContext, Service!Nobody
<1>13. CASE UNCHANGED relayVars
  BY <1>13 DEF relayVars, Service!serviceVars
<1> QED
  BY <1>1, <1>2, <1>3, <1>4, <1>6, <1>7, <1>8, <1>9, <1>10, <1>11, <1>12, <1>13
     DEF Next, Service!Next

\* The relay implements RoomService: with its map of rooms and its counter, and
\* handlers that change them in several places, it tells, refuses and passes on
\* exactly what a service does that keeps no such books (server/index.js 89-425).
THEOREM RelayIsRoomService == Spec => IsRoomService
<1>1. Init => Service!Init
  BY DEF Init, Service!Init, NoContext, Service!Nobody
<1> QED
  BY <1>1, AlwaysConsistent, RelayConnections, StepServes, PTL
     DEF Spec, Service!Spec, IsRoomService
=============================================================================
