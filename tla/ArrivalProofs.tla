--------------------------- MODULE ArrivalProofs ---------------------------
(***************************************************************************)
(* CaughtUp, for any seeds, sockets, players and bounds: where no change   *)
(* of room is under way, the relay has the player where Lua is, and once   *)
(* the snapshots have been read the list on screen is the room's.          *)
(*                                                                         *)
(* Two facts meet in it.  The queues lead from the relay's place for the   *)
(* player to the one Lua asked for last (Routes), so with no change under  *)
(* way the two are the same, and so are the tags that the sidecar and Lua  *)
(* compare: the snapshot that is right for the relay is not dropped.  And  *)
(* a step of the relay that changes what a member should be shown sends    *)
(* it a snapshot (RelayProofs, StepTells), so with none on its way the     *)
(* last one read is still right.                                           *)
(*                                                                         *)
(* On the way: the relay's own invariants hold in the chain (ChainRelay).  *)
(* At the end: the chain rests in settled states only (ChainRests).        *)
(***************************************************************************)
EXTENDS ChainProofs, FiniteSetTheorems

\* R once more, with what has been proved of Relay.
RP == INSTANCE RelayProofs WITH Ip <- {"ip"}, IpOf <- [s \in Socket |-> "ip"],
                                User <- Player, JoinMsg <- AnyJoin,
                                MaxConnsPerIp <- Cardinality(Socket)

\* The assumptions of Relay, as the chain instantiates it.
LEMMA RelayAssumed ==
  /\ [s \in Socket |-> "ip"] \in [Socket -> {"ip"}]
  /\ AnyJoin \subseteq RP!JoinType
  /\ Cardinality(Socket) \in Nat /\ MaxDown \in Nat
  /\ {NoRoom, Malformed} \cap Room = {}
  /\ NoRoom # Malformed
  /\ NoTeam \notin RP!Team
  /\ NoUser \notin Player
  /\ RP!IsFiniteSet(Socket)
<1>1. AnyJoin \subseteq RP!JoinType
  BY DEF AnyJoin, RP!JoinType, RP!Team
<1>2. Cardinality(Socket) \in Nat /\ MaxDown \in Nat
  BY ChainConstants, FS_CardinalityType DEF ChainConstants
<1>3. NoTeam \notin RP!Team
  BY ChainConstants DEF ChainConstants, C!ChatRoomConstants, C!Team, RP!Team
<1>4. RP!IsFiniteSet(Socket)
  BY ChainConstants DEF ChainConstants, IsFiniteSet, RP!IsFiniteSet
<1> QED
  BY <1>1, <1>2, <1>3, <1>4, ChainConstants DEF ChainConstants

----------------------------------------------------------------------------
(* The relay in the chain *)

\* The two instances of Relay are one.
LEMMA SameSteps ==
  /\ \A s : R!Connect(s) <=> RP!Connect(s)
  /\ \A s : R!BeginClose(s) <=> RP!BeginClose(s)
  /\ \A s : R!Close(s) <=> RP!Close(s)
  /\ \A s : R!Leave(s) <=> RP!Leave(s)
  /\ \A s, m : R!Join(s, m) <=> RP!Join(s, m)
  /\ \A s : R!ChatAll(s) <=> RP!ChatAll(s)
  /\ \A s, t : R!ChatTeam(s, t) <=> RP!ChatTeam(s, t)
  /\ R!Restart <=> RP!Restart
<1> USE DEF RP!Attached, R!Attached, RP!Capacity, R!Capacity, RP!CtxLeft, R!CtxLeft,
            RP!RoomsLeft, R!RoomsLeft, RP!DownLeft, R!DownLeft, RP!Rest, R!Rest,
            RP!InRoom, R!InRoom, RP!WithPresence, R!WithPresence, RP!Snapshot, R!Snapshot,
            RP!Disclosed, R!Disclosed, RP!MemberOf, R!MemberOf, RP!IsPlayer, R!IsPlayer,
            RP!Open, R!Open, RP!Team, R!Team, RP!NoContext, R!NoContext
<1>1. \A s : R!Connect(s) <=> RP!Connect(s)
  BY DEF R!Connect, RP!Connect
<1>2. \A s : R!BeginClose(s) <=> RP!BeginClose(s)
  BY DEF R!BeginClose, RP!BeginClose
<1>3. \A s : R!Close(s) <=> RP!Close(s)
  BY DEF R!Close, RP!Close, R!CloseHandler, RP!CloseHandler
<1>4. \A s : R!Leave(s) <=> RP!Leave(s)
  BY DEF R!Leave, RP!Leave
<1>5. \A s, m : R!Join(s, m) <=> RP!Join(s, m)
  BY DEF R!Join, RP!Join, R!JoinTargets, RP!JoinTargets, R!JoinedCtx, RP!JoinedCtx,
         R!JoinedRooms, RP!JoinedRooms
<1>6. \A s : R!ChatAll(s) <=> RP!ChatAll(s)
  BY DEF R!ChatAll, RP!ChatAll, R!WithTalk, RP!WithTalk
<1>7. \A s, t : R!ChatTeam(s, t) <=> RP!ChatTeam(s, t)
  BY DEF R!ChatTeam, RP!ChatTeam, R!WithTalk, RP!WithTalk, R!MayTarget, RP!MayTarget,
         R!Target, RP!Target
<1>8. R!Restart <=> RP!Restart
  BY DEF R!Restart, RP!Restart
<1> QED
  BY <1>1, <1>2, <1>3, <1>4, <1>5, <1>6, <1>7, <1>8

\* What the relay does on its own in a step of the chain.
RelayWorks == RP!Works \/ UNCHANGED RP!relayVars

\* All steps but those that take frames out of the relay's queues.
Elsewise ==
  \/ EngineStep \/ LuaStep
  \/ LineStep \/ OpenStep \/ DialStep \/ ClosingStep \/ HangUpStep \/ BreakStep
  \/ \E s \in MySocket : RelayStep(s) \/ RelayClose(s) \/ RateLimited(s)
  \/ RelayRestarts
  \/ PeerStep

LEMMA StepsOfRelay ==
  ASSUME ChainInv, Elsewise
  PROVE  RelayWorks
<1>1. CASE \/ EngineStep \/ LuaStep \/ LineStep \/ OpenStep \/ ClosingStep \/ HangUpStep
           \/ BreakStep
  BY <1>1 DEF EngineStep, LuaStep, Others, LineStep, OpenStep, ClosingStep, HangUpStep, BreakStep,
              S!HandleLine, S!RoomChange, S!LeaveCurrentRoom, S!ForwardLine, S!OnOpen,
              S!OnClosing, S!OnClose, relaySide, RelayWorks, RP!relayVars
<1>2. CASE DialStep
  BY <1>2, SameSteps DEF DialStep, Socket, RelayWorks, RP!Works
<1>3. ASSUME NEW s \in MySocket, RelayStep(s)
      PROVE  RelayWorks
  <2>. DEFINE m == Head(up[s])
  <2>1. Message(m) /\ s \in Socket
    BY <1>3, QueueTail DEF ChainInv, Typed, LinkTyped, RelayStep, Socket
  <2>2. Handle(s, m)
    BY <1>3 DEF RelayStep
  <2>. HIDE DEF m
  <2>3. CASE m.type = "join"
    <3>1. m.context \in AnyJoin
      BY <2>1, <2>3 DEF Message, Asked, Asker, AnyJoin, Player, Team
    <3>2. R!Join(s, m.context)
      BY <2>2, <2>3 DEF Handle
    <3> QED
      BY <2>1, <3>1, <3>2, SameSteps DEF RelayWorks, RP!Works
  <2>4. CASE m.type = "leave"
    <3>1. R!Leave(s)
      BY <2>2, <2>4 DEF Handle
    <3> QED
      BY <2>1, <3>1, SameSteps DEF RelayWorks, RP!Works
  <2>5. CASE m.type = "chat"
    <3>1. R!ChatAll(s) \/ R!ChatTeam(s, m.target) \/ UNCHANGED <<relaySide, down>>
      BY <2>2, <2>5 DEF Handle
    <3>2. m.target \in RP!Team \cup {NoTeam}
      BY <2>1, <2>5 DEF Message, Talk, Team, RP!Team
    <3> QED
      BY <2>1, <3>1, <3>2, SameSteps DEF RelayWorks, RP!Works, RP!relayVars, relaySide
  <2> QED
    BY <2>1, <2>3, <2>4, <2>5 DEF Message
<1>4. ASSUME NEW s \in MySocket, RelayClose(s) \/ RateLimited(s)
      PROVE  RelayWorks
  <2>1. R!Close(s) \/ R!BeginClose(s) \/ UNCHANGED <<relaySide, down>>
    BY <1>4 DEF RelayClose, RateLimited
  <2> QED
    BY <2>1, SameSteps DEF Socket, RelayWorks, RP!Works, RP!relayVars, relaySide
<1>5. CASE RelayRestarts
  BY <1>5, SameSteps DEF RelayRestarts, RelayWorks, RP!Works
<1>6. CASE PeerStep
  <2>1. PICK p \in Peer :
          \/ R!Connect(p) \/ R!Leave(p) \/ R!Close(p) \/ R!ChatAll(p)
          \/ \E m \in PeerJoin : R!Join(p, m)
    BY <1>6 DEF PeerStep
  <2>2. p \in Socket /\ PeerJoin \subseteq AnyJoin
    BY ChainConstants DEF ChainConstants, Socket
  <2> QED
    BY <2>1, <2>2, SameSteps DEF RelayWorks, RP!Works
<1> QED
  BY <1>1, <1>2, <1>3, <1>4, <1>5, <1>6 DEF Elsewise

LEMMA WorksNext == RelayWorks => [RP!Next]_RP!relayVars
BY DEF RelayWorks, RP!Works, RP!Next

\* The sidecar is the network's far end: it receives the oldest frame.
LEMMA MessageDelivers ==
  ASSUME ChainInv, MessageStep
  PROVE  RP!Deliver(link.sock) /\ link.sock \in MySocket /\ link.sock \in Socket
<1>1. link.sock \in MySocket
  BY DEF ChainInv, Typed, LinkTyped, MessageStep, S!OnMessage
<1> QED
  BY <1>1 DEF MessageStep, S!OnMessage, relaySide, RP!Deliver, Socket

\* What has been proved of the relay alone, and why.
Relaying ==
  RP!Consistent /\ RP!LastSnapshotCurrent /\ RP!TalkConfined /\ RP!ConnectionsCounted

LEMMA RelayingInitially == Init => Relaying
<1>. SUFFICES ASSUME PeersIn PROVE Relaying
  BY DEF Init
<1>1. IsFiniteSet(Peer) /\ Cardinality(Peer) \in Nat /\ Cardinality(Peer) <= Cardinality(Socket)
  <2>1. Peer \subseteq Socket
    BY DEF Socket
  <2> QED
    BY <2>1, ChainConstants, FS_Subset, FS_CardinalityType DEF ChainConstants
<1>2. R!NoContext \in RP!Context /\ R!NoContext.room = NoRoom
  BY DEF R!NoContext, RP!Context
<1>3. RP!TypeOK
  BY <1>1, <1>2 DEF PeersIn, RP!TypeOK, RP!Open
<1>4. RP!MembershipAgrees
  BY <1>2 DEF PeersIn, RP!MembershipAgrees, RP!InRoom
<1>5. RP!LastSnapshotCurrent /\ RP!TalkConfined
  BY DEF PeersIn, RP!LastSnapshotCurrent, RP!TalkConfined
<1>6. RP!ConnectionsCounted
  <2>1. RP!AttachedFrom("ip") = Peer
    BY DEF PeersIn, RP!AttachedFrom, RP!Attached, RP!Open, Socket
  <2>2. RP!Cardinality(Peer) = Cardinality(Peer)
    BY Zenon DEF Cardinality, RP!Cardinality
  <2> QED
    BY <1>1, <2>1, <2>2 DEF PeersIn, RP!ConnectionsCounted
<1> QED
  BY <1>3, <1>4, <1>5, <1>6 DEF Relaying, RP!Consistent

LEMMA RelayingInductive == ChainInv /\ Relaying /\ [Next]_vars => Relaying'
<1>. SUFFICES ASSUME ChainInv, Relaying, [Next]_vars PROVE Relaying'
  OBVIOUS
<1>a. RP!Consistent /\ RP!LastSnapshotCurrent /\ RP!TalkConfined /\ RP!ConnectionsCounted
      /\ RP!TypeOK
  BY DEF Relaying, RP!Consistent
<1>1. ASSUME [RP!Next]_RP!relayVars PROVE Relaying'
  <2>1. RP!Consistent'
    BY <1>a, <1>1, RP!StepConsistent, RelayAssumed
  <2>2. RP!LastSnapshotCurrent'
    BY <1>a, <1>1, RP!StepTold, RelayAssumed
  <2>3. RP!TalkConfined'
    BY <1>a, <1>1, RP!StepConfined, RelayAssumed
  <2>4. RP!ConnectionsCounted'
    BY <1>a, <1>1, RP!StepCounted, RelayAssumed
  <2> QED
    BY <2>1, <2>2, <2>3, <2>4 DEF Relaying
<1>2. CASE Drain
  <2>1. UNCHANGED <<state, ctx, rooms, conns, serving>>
    BY <1>2 DEF Drain, relaySide
  <2>2. DOMAIN down' = Socket /\ \A s \in Socket : down'[s] = down[s] \/ down'[s] = <<>>
    BY <1>2 DEF Drain
  <2>3. down' \in [Socket -> Seq(RP!Frame)] /\ down' \in [Socket -> Seq(RP!ConfinedFrame)]
    BY <1>2, <1>a DEF Drain, RP!TypeOK, RP!TalkConfined
  <2>4. RP!TypeOK'
    BY <1>a, <2>1, <2>3 DEF RP!TypeOK
  <2>5. RP!MembershipAgrees'
    BY <1>a, <2>1 DEF RP!Consistent, RP!MembershipAgrees, RP!InRoom, RP!Attached
  <2>6. RP!LastSnapshotCurrent'
    <3>. SUFFICES ASSUME NEW s \in Socket, state[s] = RP!Open, RP!InRoom(s)',
                         NEW i \in 1..Len(down'[s]), RP!LastPresence(down'[s], i)
                  PROVE  RP!Current(s, down[s][i])'
      BY <2>1 DEF RP!LastSnapshotCurrent, RP!LastPresence, RP!Open
    <3>1. down'[s] = down[s]
      BY <2>2
    <3>2. RP!Current(s, down[s][i])
      BY <1>a, <2>1, <3>1 DEF RP!LastSnapshotCurrent, RP!InRoom
    <3> QED
      BY <2>1, <3>1, <3>2 DEF RP!Current, RP!MustList, RP!MayList, RP!MemberOf, RP!Disclosed,
                              RP!IsPlayer
  <2>7. RP!TalkConfined'
    BY <2>3 DEF RP!TalkConfined
  <2>8. RP!ConnectionsCounted'
    BY <1>a, <2>1 DEF RP!ConnectionsCounted, RP!AttachedFrom, RP!Attached
  <2> QED
    BY <2>4, <2>5, <2>6, <2>7, <2>8 DEF Relaying, RP!Consistent
<1>3. CASE MessageStep
  <2>1. RP!Next
    BY <1>3, MessageDelivers DEF RP!Next
  <2> QED
    BY <1>1, <2>1
<1>4. CASE UNCHANGED vars
  <2>1. UNCHANGED RP!relayVars
    BY <1>4 DEF vars, RP!relayVars
  <2> QED
    BY <1>1, <2>1
<1>5. CASE Elsewise
  BY <1>1, <1>5, StepsOfRelay, WorksNext
<1> QED
  BY <1>2, <1>3, <1>4, <1>5 DEF Next, Elsewise

----------------------------------------------------------------------------
(* Where nothing is under way, all have the player in the same place *)

InPlace ==
  Arrived => /\ ctx[link.sock].room = cur.room
             /\ Joined => ctx[link.sock] = Mine /\ cache = Mine

LEMMA RoutesEnd == ChainInv /\ Routes => InPlace
<1>. SUFFICES ASSUME ChainInv, Routes, Arrived PROVE InPlace
  BY DEF InPlace
<1>. DEFINE s == link.sock
<1>1. s \in MySocket /\ state[s] = "open" /\ IsQueue(up[s]) /\ IsQueue(outbox)
      /\ OnlyTalk(up[s]) /\ OnlyTalk(outbox)
  BY DEF ChainInv, Typed, LinkTyped, LuaTyped, Arrived
<1>2. Leads(up[s], Place(ctx[s]), Place(cache))
  BY <1>1 DEF Routes, Route, Arrived
<1>3. PICK b : Leads(outbox, Place(cache), b) /\ Wished(b)
  BY DEF Routes
<1>4. Place(ctx[s]) = Place(cache) /\ Place(cache) = b
  BY <1>1, <1>2, <1>3, LeadsNoFurther
<1>5. ctx[s].room = cur.room /\ cache.room = cur.room
  BY <1>3, <1>4, PlaceRoom DEF Wished
<1>6. ASSUME Joined PROVE ctx[s] = Mine /\ cache = Mine
  <2>1. cur.room # NoRoom /\ b = Mine
    BY <1>3, <1>6 DEF Wished, Joined
  <2> QED
    BY <1>4, <1>5, <2>1 DEF Place
<1> QED
  BY <1>5, <1>6 DEF InPlace

----------------------------------------------------------------------------
(* What has been read, and what is still to be read *)

ArrivalInv == ChainInv /\ Routes /\ InPlace /\ Relaying

\* A list that the relay's members call for.
Lists(M) == RP!MustList(link.sock) \subseteq M /\ M \subseteq RP!MayList(link.sock)

\* The snapshots in the inbox that Lua will take; the newest of them stays.
Taken == {i \in 1..Len(inbox) : C!Accepts(inbox[i])}
Newest(i) == i \in Taken /\ \A j \in Taken : j <= i

ReadRight ==
  /\ Taken = {} => Lists(presence)
  /\ \A i \in Taken : Newest(i) => Lists(inbox[i].members)

\* The player's room is settled and the relay has nothing more to tell it.
There == Arrived /\ Joined /\ NoSnapshots(down[link.sock])

\* The list on screen is right, or the one that will replace it is.
InboxRight == There => ReadRight

LEMMA OnlyTalkMore ==
  ASSUME NEW q, IsQueue(q), NEW m, OnlyTalk(Append(q, m))
  PROVE  OnlyTalk(q) /\ m.type = "chat"
<1>1. q \in Seq(Elements(q) \cup {m})
  BY DEF IsQueue
<1>2. /\ Len(q) \in Nat /\ Len(Append(q, m)) = Len(q) + 1
      /\ \A i \in 1..Len(q) : i \in 1..Len(q) + 1 /\ Append(q, m)[i] = q[i]
      /\ Len(q) + 1 \in 1..Len(q) + 1 /\ Append(q, m)[Len(q) + 1] = m
  BY <1>1
<1> QED
  BY <1>2 DEF OnlyTalk

LEMMA OnlyTalkTail ==
  ASSUME NEW q, IsQueue(q), q # <<>>, OnlyTalk(Tail(q)), Head(q).type = "chat"
  PROVE  OnlyTalk(q)
<1>1. q \in Seq(Elements(q))
  BY DEF IsQueue
<1>2. /\ Len(q) \in Nat /\ Len(q) # 0 /\ Len(Tail(q)) = Len(q) - 1 /\ Head(q) = q[1]
      /\ \A i \in 1..Len(q) - 1 : Tail(q)[i] = q[i + 1]
  BY <1>1
<1>3. ASSUME NEW i \in 1..Len(q) PROVE q[i].type = "chat"
  <2>1. CASE i = 1
    BY <1>2, <2>1
  <2>2. CASE i # 1
    <3>1. i - 1 \in 1..Len(q) - 1 /\ (i - 1) + 1 = i
      BY <1>2, <2>2
    <3>2. Tail(q)[i - 1].type = "chat"
      BY <1>2, <3>1 DEF OnlyTalk
    <3> QED
      BY <1>2, <3>1, <3>2
  <2> QED
    BY <2>1, <2>2
<1> QED
  BY <1>3 DEF OnlyTalk

\* Where the player is settled after a step, the relay has it in a room.
LEMMA SettledStays ==
  ASSUME ChainInv', InPlace', There'
  PROVE  /\ link'.sock \in MySocket /\ link'.sock \in Socket
         /\ RP!Staying(link.sock)' /\ cache'.room # NoRoom /\ cache'.room = cur'.room
<1>1. /\ link'.state = "open" /\ state'[link'.sock] = "open" /\ cur'.room # NoRoom
      /\ Arrived' /\ Joined'
  BY DEF There, Arrived, Joined
<1>2. link'.sock \in MySocket
  BY <1>1 DEF ChainInv, Typed, LinkTyped
<1>3. ctx'[link'.sock].room = cur'.room /\ cache'.room = cur'.room
  BY <1>1 DEF InPlace, Mine
<1>4. RP!Staying(link.sock)'
  BY <1>1, <1>3 DEF RP!Staying, RP!InRoom, RP!Open
<1> QED
  BY <1>1, <1>2, <1>3, <1>4 DEF Socket

\* A right list stays right where the player's view of its room stays.
LEMMA ListKept ==
  ASSUME ReadRight, UNCHANGED <<link, cur, rev, presence, inbox>>, NEW s, s = link.sock,
         RP!MustList(s)' \subseteq RP!MustList(s), RP!MayList(s)' = RP!MayList(s)
  PROVE  ReadRight'
<1>1. \A M : Lists(M) => RP!MustList(s)' \subseteq M /\ M \subseteq RP!MayList(s)'
  BY DEF Lists
<1>2. Taken' = Taken
  BY DEF Taken, C!Accepts
<1>3. \A i : Newest(i)' <=> Newest(i)
  BY <1>2 DEF Newest
<1>4. link'.sock = s
  OBVIOUS
<1>5. RP!MustList(link.sock)' = RP!MustList(s)' /\ RP!MayList(link.sock)' = RP!MayList(s)'
  BY <1>4 DEF RP!MustList, RP!MayList, RP!Disclosed, RP!MemberOf, RP!IsPlayer, RP!Open
<1>6. Taken' = {} => Lists(presence)'
  BY <1>1, <1>2, <1>5 DEF ReadRight, Lists
<1>7. \A i \in Taken' : Newest(i)' => Lists(inbox[i].members)'
  BY <1>1, <1>2, <1>3, <1>5 DEF ReadRight, Lists
<1> QED
  BY <1>6, <1>7 DEF ReadRight

\* The relay alone: had the step called for another list, a snapshot of it
\* would now be on its way.
LEMMA RelayKeepsList ==
  ASSUME ArrivalInv, ChainInv', InPlace', InboxRight, There', RelayWorks,
         UNCHANGED <<link, cur, rev, presence, inbox>>,
         OnlyTalk(outbox), OnlyTalk(up[link.sock])
  PROVE  ReadRight'
<1>. PICK s : s = link.sock
  OBVIOUS
<1>1. s \in Socket /\ link'.sock = s /\ RP!Staying(s)'
  BY SettledStays DEF RP!Staying, RP!InRoom
<1>2. RP!Consistent /\ RP!TypeOK /\ [RP!Next]_RP!relayVars
  BY WorksNext DEF ArrivalInv, Relaying, RP!Consistent
<1>3. RP!Tells(s)
  BY <1>1, <1>2, RP!StepTells, RelayAssumed
<1>4. NoSnapshots(down'[s])
  BY <1>1 DEF There, NoSnapshots
<1>5. ~RP!Sends(s)
  <2>. SUFFICES ASSUME NEW q \in Seq(RP!Frame), NEW f \in RP!Frame,
                       down'[s] = Append(q, f), RP!IsPresence(f)
                PROVE  FALSE
    BY DEF RP!Sends
  <2>1. Len(q) + 1 \in 1..Len(down'[s]) /\ down'[s][Len(q) + 1] = f
    OBVIOUS
  <2> QED
    BY <1>4, <2>1 DEF NoSnapshots, RP!IsPresence
<1>6. RP!SameView(s)
  BY <1>1, <1>3, <1>5 DEF RP!Tells
<1>7. NoSnapshots(down[s])
  <2>1. RP!Grown(down[s], down'[s])
    BY <1>1, <1>2, RP!SendingGrows, RelayAssumed DEF RelayWorks
  <2> QED
    BY <1>4, <2>1 DEF NoSnapshots, RP!Grown
<1>8. There
  <2>1. link.state = "open" /\ Joined
    BY DEF There, Arrived, Joined
  <2>2. state[s] = "open"
    BY <1>6 DEF RP!SameView, RP!Staying, RP!Open
  <2> QED
    BY <1>7, <2>1, <2>2 DEF There, Arrived
<1> QED
  BY <1>6, <1>8, ListKept DEF InboxRight, RP!SameView

\* The game side: it waits, asks for a new place, or reads the inbox.
LEMMA GameArrives ==
  ASSUME ArrivalInv, ChainInv', InPlace', InboxRight, There', EngineStep \/ LuaStep
  PROVE  ReadRight'
<1>1. LuaTyped
  BY DEF ArrivalInv, ChainInv, Typed
<1>3. RelayWorks
  BY StepsOfRelay DEF ArrivalInv, Elsewise
<1>4. UNCHANGED <<link, up, cache, down, relaySide>>
  BY DEF EngineStep, LuaStep, Others
<1>5. OnlyTalk(up[link.sock]) /\ OnlyTalk(outbox') /\ Joined'
  BY <1>4 DEF There, Arrived, OnlyTalk
<1>6. CASE UNCHANGED <<cur, rev, presence, inbox>> /\ (OnlyTalk(outbox') => OnlyTalk(outbox))
  BY <1>3, <1>4, <1>5, <1>6, RelayKeepsList
<1>7. CASE C!Engine
  <2>1. UNCHANGED <<cur, rev, presence, inbox, outbox>>
    BY <1>7 DEF C!Engine, C!NewMatch, C!GameplayBegins, C!GameplayPauses, C!MatchGone,
                C!NameResolved, C!Reassigned, C!Changed
  <2> QED
    BY <1>6, <2>1
<1>8. CASE \E t : C!TryJoinRoom(t) /\ inbox' = inbox
  <2>1. PICK t : C!TryJoinRoom(t) /\ inbox' = inbox
    BY <1>8
  <2>2. CASE C!JoinUnchanged(t)
    <3>1. cur' = C!CurNow /\ cur'.seed = game.seed /\ UNCHANGED <<rev, presence, outbox>>
      BY <2>2 DEF C!JoinUnchanged, C!Wanted
    <3>2. cur' = cur
      BY <1>1, <1>5, <3>1 DEF Joined, LuaTyped, C!CurNow, Present
    <3> QED
      BY <1>6, <2>1, <3>1, <3>2
  <2>3. CASE C!JoinRetry(t) \/ C!JoinGiveUp(t)
    <3>1. cur' = C!Kept(C!CurNow)
      BY <2>3 DEF C!JoinRetry, C!JoinGiveUp, C!Invalidate
    <3> QED
      BY <1>1, <1>5, <3>1 DEF LuaTyped, C!CurNow, C!Kept, Present, Joined
  <2>4. CASE C!JoinRoom(t)
    <3>1. PICK line : line.type = "room_change" /\ outbox' = Append(outbox, line)
      BY <2>4 DEF C!JoinRoom, C!Write
    <3> QED
      BY <1>1, <1>5, <3>1, OnlyTalkMore DEF LuaTyped
  <2> QED
    BY <2>1, <2>2, <2>3, <2>4 DEF C!TryJoinRoom
<1>9. CASE C!LeaveRoom
  <2>1. (cur' = [cur EXCEPT !.reveal = FALSE] /\ cur.room = NoRoom) \/ cur' = C!Nowhere
    BY <1>9 DEF C!LeaveRoom
  <2>2. cur'.room = NoRoom
    BY <1>1, <2>1 DEF LuaTyped, Present, C!Nowhere
  <2> QED
    BY <1>5, <2>2 DEF Joined
<1>10. CASE C!ProbeFires \/ C!TypeLine
  <2>1. UNCHANGED <<cur, rev, presence, inbox, outbox>>
    BY <1>10 DEF C!ProbeFires, C!TypeLine
  <2> QED
    BY <1>6, <2>1
<1>11. CASE \E a \in Audience : C!PollPending(a)
  <2>1. PICK line : outbox' = Append(outbox, line) /\ UNCHANGED <<cur, rev, presence, inbox>>
    BY <1>11 DEF C!PollPending, C!Write
  <2> QED
    BY <1>1, <1>6, <2>1, OnlyTalkMore DEF LuaTyped
<1>12. CASE C!ReadInbox
  <2>1. /\ inbox' = <<>> /\ UNCHANGED <<cur, rev, outbox>>
        /\ \/ Taken = {} /\ presence' = presence
           \/ \E i \in Taken : Newest(i) /\ presence' = inbox[i].members
    BY <1>12 DEF C!ReadInbox, Taken, Newest
  <2>2. There
    BY <1>4, <2>1 DEF There, Arrived, Joined, OnlyTalk, NoSnapshots, relaySide
  <2>3. Lists(presence')
    BY <2>1, <2>2 DEF InboxRight, ReadRight
  <2>4. UNCHANGED <<link, rooms, ctx, state>>
    BY <1>4 DEF relaySide
  <2>5. Lists(presence)'
    BY <2>3, <2>4 DEF Lists, RP!MustList, RP!MayList, RP!Disclosed, RP!MemberOf, RP!IsPlayer,
                      RP!Open, RP!Team
  <2>6. Taken' = {}
    BY <2>1 DEF Taken
  <2> QED
    BY <2>5, <2>6 DEF ReadRight
<1> QED
  BY <1>7, <1>8, <1>9, <1>10, <1>11, <1>12
     DEF EngineStep, LuaStep, C!Lua, C!TickMatchProbe, C!DelayFires, C!RoomCheckFires,
         C!OnMatchStateChanged, C!EndMatch, C!MapLoaded

\* The sidecar: a line that changes the room, or a reconnect in a room, is
\* followed by a join or leave on its way to the relay.
LEMMA SidecarArrives ==
  ASSUME ArrivalInv, ChainInv', InPlace', InboxRight, There',
         LineStep \/ OpenStep \/ DialStep \/ ClosingStep \/ HangUpStep \/ BreakStep
  PROVE  ReadRight'
<1>. DEFINE s == link.sock
<1>1. LuaTyped /\ LinkTyped
  BY DEF ArrivalInv, ChainInv, Typed
<1>2. link'.state = "open" /\ OnlyTalk(up'[link'.sock]) /\ link'.sock \in MySocket
      /\ cache'.room # NoRoom
  BY SettledStays DEF There, Arrived, OnlyTalk
<1>3. CASE DialStep \/ ClosingStep \/ HangUpStep \/ BreakStep
  BY <1>1, <1>2, <1>3 DEF DialStep, ClosingStep, HangUpStep, BreakStep, S!Dial, S!OnClosing,
                          S!OnClose, S!Waiting, LinkTyped
<1>4. CASE LineStep
  <2>1. UNCHANGED <<link, cur, rev, presence, inbox>> /\ S!HandleLine
    BY <1>4 DEF LineStep, chatSide, S!HandleLine, S!RoomChange, S!LeaveCurrentRoom, S!ForwardLine
  <2>2. IsQueue(up[s]) /\ DOMAIN up = MySocket /\ IsQueue(outbox) /\ s \in MySocket
        /\ link.state = "open"
    BY <1>1, <1>2, <2>1 DEF LinkTyped, LuaTyped
  <2>3. ASSUME NEW messages, S!SendIfOpen(messages)
        PROVE  up'[s] = up[s] \o messages
    BY <2>2, <2>3 DEF S!SendIfOpen, S!IsOpen, S!Send
  <2>4. CASE S!RoomChange
    <3>. DEFINE join == S!JoinMessage(S!ContextOf(S!Line))
    <3>1. up'[s] = up[s] \o S!Switch(cache.room, S!ContextOf(S!Line))
      BY <2>3, <2>4 DEF S!RoomChange
    <3>2. up'[s] = Append(up[s], join) \/ up'[s] = Append(Append(up[s], S!LeaveMessage), join)
      BY <2>2, <3>1, OneByOne DEF S!Switch
    <3>3. join.type # "chat"
      BY DEF S!JoinMessage
    <3>4. IsQueue(Append(up[s], S!LeaveMessage))
      BY <2>2, QueueAppend
    <3>. HIDE DEF join
    <3>5. ~OnlyTalk(up'[s])
      BY <2>2, <3>2, <3>3, <3>4, OnlyTalkMore
    <3> QED
      BY <1>2, <2>1, <3>5
  <2>5. CASE S!LeaveCurrentRoom
    <3>1. cache' = [cache EXCEPT !.room = NoRoom, !.reveal = FALSE, !.rev = 0]
      BY <2>5 DEF S!LeaveCurrentRoom
    <3> QED
      BY <1>1, <1>2, <3>1 DEF LinkTyped, Remembered
  <2>6. CASE S!ForwardLine
    <3>1. outbox # <<>> /\ Head(outbox).type = "chat" /\ outbox' = Tail(outbox)
          /\ up'[s] = up[s] \o <<S!Line>>
      BY <2>3, <2>6 DEF S!ForwardLine, S!TakeLine, S!Line
    <3>2. up'[s] = Append(up[s], S!Line)
      BY <2>2, <3>1, OneByOne
    <3>3. OnlyTalk(up[s])
      BY <1>2, <2>1, <2>2, <3>2, OnlyTalkMore
    <3>4. OnlyTalk(outbox')
      BY DEF There, Arrived, OnlyTalk
    <3>5. OnlyTalk(outbox)
      BY <2>2, <3>1, <3>4, OnlyTalkTail
    <3>6. RelayWorks
      BY <1>4, StepsOfRelay DEF ArrivalInv, Elsewise
    <3> QED
      BY <2>1, <3>3, <3>5, <3>6, RelayKeepsList
  <2> QED
    BY <2>1, <2>4, <2>5, <2>6 DEF S!HandleLine
<1>5. CASE OpenStep
  <2>1. /\ link.state = "connecting" /\ link' = [link EXCEPT !.state = "open"] /\ cache' = cache
        /\ IF cache.room = NoRoom THEN up' = up ELSE S!Send(<<S!JoinMessage(cache)>>)
    BY <1>5 DEF OpenStep, S!OnOpen
  <2>2. link'.sock = s /\ IsQueue(up[s]) /\ DOMAIN up = MySocket /\ s \in MySocket
    BY <1>1, <2>1 DEF LinkTyped
  <2>3. up'[s] = up[s] \o <<S!JoinMessage(cache)>>
    BY <1>2, <2>1, <2>2 DEF S!Send
  <2>4. up'[s] = Append(up[s], S!JoinMessage(cache))
    BY <2>2, <2>3, OneByOne
  <2>5. S!JoinMessage(cache).type # "chat"
    BY DEF S!JoinMessage
  <2> QED
    BY <1>2, <2>2, <2>4, <2>5, OnlyTalkMore
<1> QED
  BY <1>3, <1>4, <1>5

\* The relay and its peers.
LEMMA RelayArrives ==
  ASSUME ArrivalInv, ChainInv', InPlace', InboxRight, There',
         \/ \E s \in MySocket : RelayStep(s) \/ RelayClose(s) \/ RateLimited(s)
         \/ RelayRestarts
         \/ PeerStep
  PROVE  ReadRight'
<1>1. UNCHANGED <<link, cur, rev, presence, inbox, outbox, cache>>
  BY DEF RelayStep, RelayClose, RateLimited, RelayRestarts, PeerStep, Apart, chatSide
<1>2. RelayWorks
  BY StepsOfRelay DEF ArrivalInv, Elsewise
<1>3. LinkTyped /\ link.sock \in MySocket /\ link.sock \in Socket /\ state'[link.sock] = "open"
      /\ ctx'[link.sock].room # NoRoom
  BY <1>1, SettledStays DEF ArrivalInv, ChainInv, Typed, RP!Staying, RP!InRoom, RP!Open
<1>4. OnlyTalk(outbox) /\ OnlyTalk(up'[link.sock])
  BY <1>1 DEF There, Arrived, OnlyTalk
<1>5. CASE OnlyTalk(up[link.sock])
  BY <1>1, <1>2, <1>4, <1>5, RelayKeepsList
<1>6. CASE RelayRestarts
  BY <1>3, <1>6 DEF RelayRestarts, R!Restart
<1>7. CASE PeerStep
  BY <1>4, <1>5, <1>7 DEF PeerStep
<1>8. ASSUME NEW s \in MySocket, RelayStep(s) \/ RelayClose(s) \/ RateLimited(s)
      PROVE  ReadRight'
  <2>1. CASE s # link.sock
    <3>1. up'[link.sock] = up[link.sock]
      BY <1>3, <1>8, <2>1 DEF RelayStep, RelayClose, RateLimited, LinkTyped
    <3> QED
      BY <1>4, <1>5, <3>1
  <2>2. CASE s = link.sock /\ (RelayClose(s) \/ RateLimited(s))
    <3>1. DOMAIN state = Socket
      BY DEF ArrivalInv, Routes
    <3>2. state'[s] # "open"
      BY <1>3, <2>2, <3>1 DEF RelayClose, RateLimited, R!Close, R!CloseHandler, R!BeginClose,
                              relaySide
    <3> QED
      BY <1>3, <2>2, <3>2
  <2>3. CASE s = link.sock /\ RelayStep(s)
    <3>. DEFINE m == Head(up[s])
    <3>1. /\ up[s] # <<>> /\ IsQueue(up[s]) /\ m \in Elements(up[s]) /\ Message(m)
          /\ Handle(s, m) /\ up'[s] = Tail(up[s])
      BY <1>3, <2>3, QueueTail DEF RelayStep, LinkTyped
    <3>2. CASE m.type = "chat"
      BY <1>4, <1>5, <2>3, <3>1, <3>2, OnlyTalkTail
    <3>3. CASE m.type = "leave"
      <4>1. ctx' = R!CtxLeft(s)
        BY <3>1, <3>3 DEF Handle, R!Leave
      <4>2. ctx'[s] = [ctx[s] EXCEPT !.room = NoRoom, !.reveal = FALSE, !.rev = 0]
            /\ ctx[s] \in Remembered
        BY <1>3, <2>3, <4>1 DEF R!CtxLeft, RelayTyped, ArrivalInv, ChainInv, Typed
      <4>3. ctx'[s].room = NoRoom
        BY <4>2 DEF Remembered
      <4> QED
        BY <1>3, <2>3, <4>3
    <3>4. CASE m.type = "join"
      <4>1. m.context \in AnyJoin
        BY <3>1, <3>4 DEF Message, Asked, Asker, AnyJoin, Player, Team
      <4>2. RP!Join(s, m.context)
        BY <3>1, <3>4, SameSteps DEF Handle
      <4>3. RP!Consistent /\ RP!Staying(s)'
        BY <1>1, <1>3, <2>3 DEF RP!Staying, RP!InRoom, RP!Open, ArrivalInv, Relaying
      <4>4. RP!Sends(s)
        BY <1>3, <2>3, <4>1, <4>2, <4>3, RP!JoinSends, RelayAssumed
      <4>5. PICK q \in Seq(RP!Frame), f \in RP!Frame :
              down'[s] = Append(q, f) /\ RP!IsPresence(f)
        BY <4>4 DEF RP!Sends
      <4>6. Len(q) + 1 \in 1..Len(down'[s]) /\ down'[s][Len(q) + 1] = f
        BY <4>5
      <4>7. NoSnapshots(down'[s])
        BY <1>1, <2>3 DEF There, NoSnapshots
      <4> QED
        BY <4>5, <4>6, <4>7 DEF NoSnapshots, RP!IsPresence
    <3> QED
      BY <3>1, <3>2, <3>3, <3>4 DEF Message
  <2> QED
    BY <1>8, <2>1, <2>2, <2>3
<1> QED
  BY <1>6, <1>7, <1>8

\* Where the parties agree on the tags, nobody drops the snapshot.
LEMMA MessageArrives ==
  ASSUME ArrivalInv, InboxRight, There', MessageStep
  PROVE  ReadRight'
<1>. PICK s : s = link.sock
  OBVIOUS
<1>. DEFINE f == Head(down[s])
<1>1. /\ UNCHANGED <<link, cache, up, outbox, cur, rev, presence, state, ctx, rooms>>
      /\ down[s] # <<>> /\ down'[s] = Tail(down[s]) /\ s \in Socket
      /\ \/ f.kind = "presence" /\ ~S!MatchesCache(f) /\ inbox' = inbox
         \/ ~(f.kind = "presence" /\ ~S!MatchesCache(f)) /\ inbox' = Append(inbox, f)
  <2>1. DOMAIN down = Socket /\ s \in Socket
    BY MessageDelivers DEF ArrivalInv, ChainInv, Typed, RelayTyped
  <2> QED
    BY <2>1 DEF MessageStep, S!OnMessage, chatSide, relaySide
<1>2. Arrived /\ Joined
  BY <1>1 DEF There, Arrived, Joined, OnlyTalk
<1>3. ctx[s] = Mine /\ cache = Mine /\ cur.room # NoRoom
  BY <1>2 DEF ArrivalInv, InPlace, Joined
<1>4. /\ IsQueue(inbox) /\ IsQueue(down[s])
  BY <1>1 DEF ArrivalInv, ChainInv, Typed, LuaTyped, RelayTyped
<1>5. /\ Len(down[s]) \in Nat /\ Len(down[s]) # 0 /\ Len(down'[s]) = Len(down[s]) - 1
      /\ f = down[s][1]
      /\ \A i \in 1..Len(down[s]) - 1 : down'[s][i] = down[s][i + 1]
  BY <1>1, <1>4 DEF IsQueue
<1>6. \A i \in 2..Len(down[s]) : down[s][i].kind # "presence"
  <2>1. NoSnapshots(down'[s])
    BY <1>1 DEF There, NoSnapshots
  <2>. TAKE i \in 2..Len(down[s])
  <2>2. i - 1 \in 1..Len(down'[s]) /\ (i - 1) + 1 = i
    BY <1>5
  <2> QED
    BY <1>5, <2>1, <2>2 DEF NoSnapshots
<1>. DEFINE Right(M) == RP!MustList(s) \subseteq M /\ M \subseteq RP!MayList(s)
<1>7. \A M : Right(M) <=> Lists(M)
  BY DEF Lists
<1>8. \A M : Right(M) => Lists(M)'
  BY <1>1 DEF Lists, RP!MustList, RP!MayList, RP!Disclosed, RP!MemberOf, RP!IsPlayer, RP!Open,
              RP!Team
<1>9. \A x : C!Accepts(x)' <=> C!Accepts(x)
  BY <1>1 DEF C!Accepts
<1>10. Len(inbox) \in Nat /\ inbox \in Seq(Elements(inbox) \cup {f})
  BY <1>4 DEF IsQueue
<1>11. CASE f.kind = "presence"
  <2>1. RP!LastPresence(down[s], 1) /\ 1 \in 1..Len(down[s])
    BY <1>5, <1>6, <1>11 DEF RP!LastPresence, RP!IsPresence
  <2>2. RP!Current(s, f)
    BY <1>1, <1>2, <1>3, <1>5, <2>1
       DEF ArrivalInv, Relaying, RP!LastSnapshotCurrent, Arrived, RP!InRoom, RP!Open, Mine
  <2>3. S!MatchesCache(f) /\ C!Accepts(f)
    BY <1>3, <1>11, <2>2 DEF RP!Current, S!MatchesCache, C!Accepts, Mine
  <2>4. inbox' = Append(inbox, f)
    BY <1>1, <1>11, <2>3
  <2>. HIDE DEF f
  <2>5. Len(inbox') = Len(inbox) + 1 /\ inbox'[Len(inbox) + 1] = f
    BY <1>10, <2>4
  <2>6. Len(inbox) + 1 \in Taken'
    BY <1>9, <1>10, <2>3, <2>5 DEF Taken
  <2>7. \A i \in Taken' : Newest(i)' => i = Len(inbox) + 1
    BY <1>10, <2>5, <2>6 DEF Newest, Taken
  <2>8. \A M : M = f.members => Lists(M)'
    BY <1>8, <2>2 DEF RP!Current
  <2>9. \A i \in Taken' : Newest(i)' => Lists(inbox[i].members)'
    BY <2>5, <2>7, <2>8 DEF Lists
  <2> QED
    BY <2>6, <2>9 DEF ReadRight
<1>12. CASE f.kind # "presence"
  <2>1. inbox' = Append(inbox, f)
    BY <1>1, <1>12
  <2>2. NoSnapshots(down[s])
    BY <1>5, <1>6, <1>12 DEF NoSnapshots
  <2>3. ReadRight
    BY <1>2, <2>2 DEF InboxRight, There
  <2>4. ~C!Accepts(f)
    BY <1>12 DEF C!Accepts
  <2>. HIDE DEF f
  <2>5. /\ Len(inbox') = Len(inbox) + 1 /\ inbox'[Len(inbox) + 1] = f
        /\ \A i \in 1..Len(inbox) : inbox'[i] = inbox[i]
    BY <1>10, <2>1
  <2>6. Taken' = Taken
    <3>1. \A i \in 1..Len(inbox') : i \in 1..Len(inbox) \/ i = Len(inbox) + 1
      BY <1>10, <2>5
    <3>2. \A i \in 1..Len(inbox) : i \in 1..Len(inbox')
      BY <1>10, <2>5
    <3> QED
      BY <1>9, <2>4, <2>5, <3>1, <3>2 DEF Taken
  <2>7. Taken' = {} => Lists(presence)'
    BY <1>1, <1>7, <1>8, <2>3, <2>6 DEF ReadRight, Lists
  <2>8. \A i \in Taken' : Newest(i)' => Lists(inbox[i].members)'
    <3>. SUFFICES ASSUME NEW i \in Taken', Newest(i)' PROVE Lists(inbox[i].members)'
      OBVIOUS
    <3>1. Newest(i) /\ i \in Taken /\ inbox'[i] = inbox[i]
      BY <2>5, <2>6 DEF Newest, Taken
    <3>2. Right(inbox[i].members)
      BY <1>7, <2>3, <3>1 DEF ReadRight
    <3> QED
      BY <1>8, <3>1, <3>2 DEF Lists
  <2> QED
    BY <2>7, <2>8 DEF ReadRight
<1> QED
  BY <1>11, <1>12

LEMMA ArrivalSteps ==
  ASSUME ArrivalInv, ArrivalInv', InboxRight, [Next]_vars
  PROVE  InboxRight'
<1>. SUFFICES ASSUME There' PROVE ReadRight'
  BY DEF InboxRight
<1>1. ChainInv' /\ InPlace'
  BY DEF ArrivalInv
<1>2. CASE Drain \/ UNCHANGED vars
  <2>. PICK s : s = link.sock
    OBVIOUS
  <2>1. UNCHANGED <<link, cur, rev, presence, inbox, outbox, up, state, ctx, rooms>>
    BY <1>2 DEF Drain, chatSide, relaySide, vars
  <2>2. s \in Socket
    BY <1>1, <2>1, SettledStays
  <2>3. down'[s] = down[s]
    BY <1>2, <2>2 DEF Drain, vars
  <2>4. There
    BY <2>1, <2>3 DEF There, Arrived, Joined, OnlyTalk, NoSnapshots
  <2>5. RP!MustList(s)' = RP!MustList(s) /\ RP!MayList(s)' = RP!MayList(s)
    BY <2>1 DEF RP!MustList, RP!MayList, RP!Disclosed, RP!MemberOf, RP!IsPlayer, RP!Open, RP!Team
  <2> QED
    BY <2>1, <2>4, <2>5, ListKept DEF InboxRight
<1>3. CASE EngineStep \/ LuaStep
  BY <1>1, <1>3, GameArrives
<1>4. CASE LineStep \/ OpenStep \/ DialStep \/ ClosingStep \/ HangUpStep \/ BreakStep
  BY <1>1, <1>4, SidecarArrives
<1>5. CASE \/ \E s \in MySocket : RelayStep(s) \/ RelayClose(s) \/ RateLimited(s)
           \/ RelayRestarts
           \/ PeerStep
  BY <1>1, <1>5, RelayArrives
<1>6. CASE MessageStep
  BY <1>6, MessageArrives
<1> QED
  BY <1>2, <1>3, <1>4, <1>5, <1>6 DEF Next

LEMMA ArrivalInitially == Init => InboxRight
BY DEF Init, S!Init, S!Waiting, InboxRight, There, Arrived

LEMMA SameLists ==
  \A s : R!MustList(s) = RP!MustList(s) /\ R!MayList(s) = RP!MayList(s)
BY DEF R!MustList, RP!MustList, R!MayList, RP!MayList, R!Disclosed, RP!Disclosed,
       R!MemberOf, RP!MemberOf, R!IsPlayer, RP!IsPlayer, R!Open, RP!Open, R!Team, RP!Team

LEMMA ArrivedCaughtUp == ArrivalInv /\ InboxRight => CaughtUp
<1>. SUFFICES ASSUME ArrivalInv, InboxRight, Arrived PROVE CaughtUp
  BY DEF CaughtUp
<1>1. ctx[link.sock].room = cur.room /\ (Joined => ctx[link.sock] = Mine)
  BY DEF ArrivalInv, InPlace
<1>2. ASSUME Joined, NoSnapshots(inbox), NoSnapshots(down[link.sock])
      PROVE  R!MustList(link.sock) \subseteq presence /\ presence \subseteq R!MayList(link.sock)
  <2>1. Taken = {}
    BY <1>2 DEF Taken, NoSnapshots, C!Accepts
  <2>2. Lists(presence)
    BY <1>2, <2>1 DEF InboxRight, There, ReadRight
  <2> QED
    BY <2>2, SameLists DEF Lists
<1> QED
  BY <1>1, <1>2 DEF CaughtUp

LEMMA AlwaysArrival == Spec => []ArrivalInv
<1>1. Spec => []ChainInv
  BY ChainInitially, ChainInductive, PTL DEF Spec
<1>2. Spec => []Routes
  BY <1>1, RoutesInitially, RoutesInductive, PTL DEF Spec
<1>3. Spec => []Relaying
  BY <1>1, RelayingInitially, RelayingInductive, PTL DEF Spec
<1>4. ChainInv /\ Routes /\ Relaying => ArrivalInv
  BY RoutesEnd DEF ArrivalInv
<1> QED
  BY <1>1, <1>2, <1>3, <1>4, PTL

\* Where no change of room is under way, the relay has the player in the room
\* that Lua is in, as Lua is; and once the snapshots on their way are read, the
\* list on screen is the room's: none that is dropped as stale was the last
\* word (server/index.js join, leave, broadcastPresence; sidecar/index.js
\* presenceMatchesCurrentContext; chat.lua setPresence).
THEOREM ChainCaughtUp == Spec => []CaughtUp
<1>1. Spec => []InboxRight
  BY AlwaysArrival, ArrivalInitially, ArrivalSteps, PTL DEF Spec
<1> QED
  BY <1>1, AlwaysArrival, ArrivedCaughtUp, PTL

----------------------------------------------------------------------------
(* The relay's promises among these clients *)

LEMMA RelayingPromises ==
  Relaying => /\ R!MembershipAgrees /\ R!ConnectionsCounted
              /\ R!LastSnapshotCurrent /\ R!TeamTalkConfined
<1>. SUFFICES ASSUME Relaying
              PROVE  /\ R!MembershipAgrees /\ R!ConnectionsCounted
                     /\ R!LastSnapshotCurrent /\ R!TeamTalkConfined
  OBVIOUS
<1>1. R!MembershipAgrees
  BY DEF Relaying, RP!Consistent, RP!MembershipAgrees, R!MembershipAgrees, RP!InRoom, R!InRoom,
         RP!Attached, R!Attached, RP!Open, R!Open
<1>2. R!ConnectionsCounted
  <2>1. \A i \in {"ip"} : R!AttachedFrom(i) = RP!AttachedFrom(i)
    BY DEF R!AttachedFrom, RP!AttachedFrom, RP!Attached, R!Attached, RP!Open, R!Open
  <2>2. \A set : R!Cardinality(set) = RP!Cardinality(set)
    BY Zenon DEF R!Cardinality, RP!Cardinality
  <2> QED
    BY <2>1, <2>2 DEF Relaying, RP!ConnectionsCounted, R!ConnectionsCounted
<1>3. R!LastSnapshotCurrent
  BY SameLists DEF Relaying, RP!LastSnapshotCurrent, R!LastSnapshotCurrent, RP!InRoom, R!InRoom,
                   RP!Open, R!Open, RP!LastPresence, R!LastPresence, RP!IsPresence, R!IsPresence,
                   RP!Current, R!Current
<1>4. R!TeamTalkConfined
  <2>. SUFFICES ASSUME NEW s \in Socket, NEW i \in 1..Len(down[s]),
                       down[s][i].kind # "presence", down[s][i].audience = "team"
                PROVE  /\ down[s][i].target \in {0, 1}
                       /\ down[s][i].to.team = down[s][i].target
                       /\ \/ down[s][i].from.spectator
                          \/ down[s][i].from.team = down[s][i].target
    BY DEF R!TeamTalkConfined, R!IsPresence, R!Team
  <2>1. down[s][i] \in RP!ConfinedFrame
    BY DEF Relaying, RP!TalkConfined
  <2> QED
    BY <2>1 DEF RP!ConfinedFrame, RP!Confined, RP!IsPresence, RP!Team
<1> QED
  BY <1>1, <1>2, <1>3, <1>4

\* What the relay promises holds where its clients are sidecars and other
\* players: the joins that reach it are those that were assumed of it, and
\* what has left its queues is no snapshot that it still relies on.
THEOREM ChainRelay ==
  Spec => [](/\ R!MembershipAgrees /\ R!ConnectionsCounted
             /\ R!LastSnapshotCurrent /\ R!TeamTalkConfined)
BY AlwaysArrival, RelayingPromises, PTL DEF ArrivalInv

----------------------------------------------------------------------------
(* Where all is quiet *)

\* Lua is in a room only while it watches the match, and shows no names
\* outside one.
Watching ==
  /\ clock \in [inMatch : BOOLEAN, probe : BOOLEAN, delay : BOOLEAN, retries : Nat, typed : BOOLEAN]
  /\ clock.inMatch \/ clock.probe
  /\ ~clock.inMatch => cur.room = NoRoom
  /\ cur.room = NoRoom => presence = {}

LEMMA WatchingInitially == Init => Watching
BY DEF Init, C!Init, Watching, C!Nowhere

LEMMA WatchingInductive == ChainInv /\ Watching /\ [Next]_vars => Watching'
<1>. SUFFICES ASSUME ChainInv, Watching, [Next]_vars PROVE Watching'
  OBVIOUS
<1>. DEFINE Clock == [inMatch : BOOLEAN, probe : BOOLEAN, delay : BOOLEAN, retries : Nat,
                      typed : BOOLEAN]
<1>1. clock \in Clock /\ cur \in Present /\ LuaInv
  BY DEF Watching, ChainInv, Typed, LuaTyped, LuaInv
<1>2. CASE UNCHANGED <<cur, presence, clock>>
  BY <1>2 DEF Watching
<1>3. ASSUME NEW t \in Clock, C!TryJoinRoom(t), t.inMatch, t.probe = clock.probe
      PROVE  Watching'
  <2>1. clock' \in Clock /\ clock'.inMatch
    <3>1. clock' = t \/ clock' = [t EXCEPT !.retries = @ + 1, !.delay = TRUE]
      BY <1>3 DEF C!TryJoinRoom, C!JoinUnchanged, C!JoinRetry, C!JoinGiveUp, C!JoinRoom
    <3>2. [t EXCEPT !.retries = @ + 1, !.delay = TRUE] \in Clock
      <4>1. t.retries + 1 \in Nat
        BY <1>3
      <4>2. [t EXCEPT !.retries = t.retries + 1, !.delay = TRUE] \in Clock
        BY <4>1
      <4> QED
        BY <4>2
    <3>3. [t EXCEPT !.retries = @ + 1, !.delay = TRUE].inMatch = t.inMatch
      BY <1>3
    <3> QED
      BY <1>3, <3>1, <3>2, <3>3
  <2>2. \/ presence' = {}
        \/ presence' = presence /\ cur' = C!CurNow
    BY <1>3 DEF C!TryJoinRoom, C!JoinUnchanged, C!JoinRetry, C!JoinGiveUp, C!JoinRoom,
                C!Invalidate
  <2>3. C!CurNow.room = cur.room
    BY <1>1 DEF C!CurNow, Present
  <2> QED
    BY <2>1, <2>2, <2>3 DEF Watching
<1>4. CASE C!EndMatch \/ C!MapLoaded
  <2>1. cur'.room = NoRoom
    <3>1. (cur' = [cur EXCEPT !.reveal = FALSE] /\ cur.room = NoRoom) \/ cur' = C!Nowhere
      BY <1>4 DEF C!EndMatch, C!MapLoaded, C!LeaveRoom
    <3> QED
      BY <1>1, <3>1 DEF Present, C!Nowhere
  <2>2. presence' = {}
    BY <1>4 DEF C!EndMatch, C!MapLoaded, C!NamesLeft, Watching
  <2>3. clock' \in Clock /\ clock'.probe
    <3>1. CASE C!EndMatch
      <4>1. clock' = [clock EXCEPT !.inMatch = FALSE, !.probe = TRUE]
        BY <3>1 DEF C!EndMatch
      <4> QED
        BY <1>1, <4>1
    <3>2. CASE C!MapLoaded
      BY <3>2 DEF C!MapLoaded
    <3> QED
      BY <1>4, <3>1, <3>2
  <2> QED
    BY <2>1, <2>2, <2>3 DEF Watching
<1>5. CASE C!ProbeFires
  <2>1. UNCHANGED <<cur, presence>>
        /\ clock' = [clock EXCEPT !.inMatch = TRUE, !.probe = FALSE, !.delay = TRUE, !.retries = 0]
    BY <1>5 DEF C!ProbeFires
  <2>2. clock' \in Clock /\ clock'.inMatch
    BY <1>1, <2>1
  <2> QED
    BY <2>1, <2>2 DEF Watching
<1>6. CASE C!DelayFires
  <2>1. clock.inMatch /\ [clock EXCEPT !.delay = FALSE] \in Clock
    BY <1>1, <1>6 DEF C!DelayFires, Watching
  <2>2. [clock EXCEPT !.delay = FALSE].inMatch /\ [clock EXCEPT !.delay = FALSE].probe = clock.probe
    BY <1>1, <2>1
  <2> QED
    BY <1>3, <1>6, <2>1, <2>2 DEF C!DelayFires
<1>7. CASE C!RoomCheckFires
  BY <1>1, <1>3, <1>4, <1>7 DEF C!RoomCheckFires
<1>8. CASE C!ReadInbox
  <2>1. UNCHANGED <<cur, clock>> /\ (cur.room = NoRoom => presence' = presence)
    BY <1>8 DEF C!ReadInbox, C!Accepts
  <2> QED
    BY <2>1 DEF Watching
<1>9. CASE C!TypeLine \/ \E a \in Audience : C!PollPending(a)
  <2>1. UNCHANGED <<cur, presence>>
        /\ (clock' = [clock EXCEPT !.typed = TRUE] \/ clock' = [clock EXCEPT !.typed = FALSE])
    BY <1>9 DEF C!TypeLine, C!PollPending
  <2>2. clock' \in Clock /\ clock'.inMatch = clock.inMatch /\ clock'.probe = clock.probe
    BY <1>1, <2>1
  <2> QED
    BY <2>1, <2>2 DEF Watching
<1>10. CASE C!Engine
  BY <1>2, <1>10 DEF C!Engine, C!NewMatch, C!GameplayBegins, C!GameplayPauses, C!MatchGone,
                     C!NameResolved, C!Reassigned, C!Changed
<1>11. CASE LuaStep
  BY <1>4, <1>5, <1>6, <1>7, <1>8, <1>9, <1>11
     DEF LuaStep, C!Lua, C!TickMatchProbe, C!OnMatchStateChanged
<1> QED
  BY <1>2, <1>10, <1>11
     DEF Next, vars, chatSide, Drain, EngineStep, LineStep, MessageStep, OpenStep, DialStep,
         ClosingStep, HangUpStep, BreakStep, RelayStep, RelayClose, RateLimited, RelayRestarts,
         PeerStep, Apart

LEMMA QuietSettled == ArrivalInv /\ InboxRight /\ Watching => RestsSettled
<1>. SUFFICES ASSUME ArrivalInv, InboxRight, Watching, AllQuiet PROVE Settled
  BY DEF RestsSettled
<1>. PICK s : s = link.sock
  OBVIOUS
<1>1. CASE game.seed = NoSeed
  BY <1>1 DEF AllQuiet, LuaRests, C!InMatch, Watching, Settled
<1>2. CASE game.seed # NoSeed
  <2>1. LuaInv /\ cur \in Present
    BY DEF ArrivalInv, ChainInv, Typed, LuaInv, LuaTyped
  <2>2. C!InMatch /\ C!Wanted = C!CurNow
    BY <1>2 DEF AllQuiet, LuaRests, C!InMatch
  <2>3. cur.room = C!Wanted.room /\ cur.seed = C!Wanted.seed /\ cur.team = C!Wanted.team
        /\ cur.user = C!Wanted.user
    BY <2>1, <2>2 DEF C!CurNow, Present
  <2>4. cur.seed = game.seed /\ cur.team = C!LocalTeam /\ cur.user = C!Username
        /\ cur.room # NoRoom
    BY <2>1, <2>2, <2>3, WantedTypes, ChainConstants DEF C!Wanted, ChainConstants
  <2>5. Arrived /\ Joined /\ NoSnapshots(inbox) /\ NoSnapshots(down[s])
    BY <1>2, <2>4 DEF AllQuiet, Arrived, Joined, OnlyTalk, NoSnapshots
  <2>6. ctx[s].room = cur.room /\ R!MustList(s) \subseteq presence /\ presence \subseteq R!MayList(s)
    BY <2>5, ArrivedCaughtUp DEF CaughtUp
  <2>7. R!MembershipAgrees /\ s \in Socket
    BY <2>5, RelayingPromises DEF ArrivalInv, Arrived, ChainInv, Typed, LinkTyped, Socket
  <2>8. cur.room \in DOMAIN rooms /\ s \in rooms[cur.room]
    BY <2>4, <2>6, <2>7 DEF R!MembershipAgrees, R!InRoom
  <2>9. \A m \in rooms[cur.room] : state[m] = R!Open
    <3>. TAKE m \in rooms[cur.room]
    <3>1. R!Attached(m) /\ ctx[m].room = cur.room
      BY <2>7, <2>8 DEF R!MembershipAgrees
    <3>2. m \in Socket
      <4>1. RP!TypeOK
        BY DEF ArrivalInv, Relaying, RP!Consistent
      <4> QED
        BY <2>8, <4>1 DEF RP!TypeOK
    <3> QED
      BY <3>1, <3>2 DEF AllQuiet, R!Attached, R!Open
  <2>10. Listed = R!MustList(s)
    BY <2>6 DEF Listed, R!MustList
  <2>11. R!MayList(s) \subseteq R!MustList(s)
    BY <2>6, <2>9 DEF R!MayList, R!MustList, R!Disclosed
  <2>12. presence = Listed
    BY <2>6, <2>10, <2>11
  <2> QED
    BY <1>2, <2>4, <2>8, <2>12 DEF Settled, AllQuiet
<1> QED
  BY <1>1, <1>2

\* Where no timer, file or queue has anything left to give, the player is in the
\* room of the match with the list that its members call for, or in none with
\* no list: every way the chain can go wrong for good would end in such a state
\* (chat.lua tickMatchProbe, tryJoinRoom and leaveRoom with all that they set
\* in motion).
THEOREM ChainRests == Spec => []RestsSettled
<1>1. Spec => []InboxRight
  BY AlwaysArrival, ArrivalInitially, ArrivalSteps, PTL DEF Spec
<1>2. Spec => []ChainInv
  BY ChainInitially, ChainInductive, PTL DEF Spec
<1>3. Spec => []Watching
  BY <1>2, WatchingInitially, WatchingInductive, PTL DEF Spec
<1> QED
  BY <1>1, <1>3, AlwaysArrival, QuietSettled, PTL
=============================================================================
