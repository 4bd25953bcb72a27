------------------------------ MODULE Sidecar ------------------------------
(***************************************************************************)
(* The chat half of the sidecar, sidecar/index.js: it caches the room      *)
(* context Lua last asked for, keeps one WebSocket to the relay, joins     *)
(* again after a reconnect, and writes to the inbox what the relay sends,  *)
(* except snapshots that do not belong to the cached context.              *)
(*                                                                         *)
(* Abstracted: reconnect delay, ping interval and pong timeout (they       *)
(* elapse at some time); lines of the profile and update clients; a batch  *)
(* of outbox lines is handled line by line, as when each is polled alone.  *)
(***************************************************************************)
EXTENDS Integers, Sequences

CONSTANTS MySocket, NoSocket, NoRoom, NoTeam, NoUser,
          MaxUp,      \* bound on the messages on their way to the relay
          MaxInbox    \* bound on the lines waiting in the inbox

\* What is assumed of the constants; PresenceChain states it.
SidecarConstants == NoSocket \notin MySocket /\ MaxUp \in Nat /\ MaxInbox \in Nat

VARIABLES
  cache,   \* currentRoom, currentUsername, currentTeam, ...
  link,    \* the WebSocket: which one, and how far it is
  outbox, inbox,
  up, down \* messages in flight on each socket, towards the relay and back

sidecarVars == <<cache, link, outbox, inbox, up, down>>

Empty == [room |-> NoRoom, user |-> NoUser, team |-> NoTeam, spectator |-> FALSE,
          reveal |-> FALSE, rev |-> 0]

Waiting == [sock |-> NoSocket, state |-> "waiting"]

Init ==
  /\ cache = Empty /\ link = Waiting
  /\ up = [s \in MySocket |-> <<>>]

\* connected and ws.readyState === WebSocket.OPEN
IsOpen == link.state = "open"

Send(messages) ==
  /\ Len(up[link.sock]) + Len(messages) <= MaxUp
  /\ up' = [up EXCEPT ![link.sock] = @ \o messages]

SendIfOpen(messages) == IF IsOpen THEN Send(messages) ELSE UNCHANGED up

JoinMessage(c) == [type |-> "join", context |-> c]
LeaveMessage == [type |-> "leave"]

----------------------------------------------------------------------------
(* Outbox lines *)

Line == Head(outbox)

TakeLine(type) == outbox # <<>> /\ Line.type = type /\ outbox' = Tail(outbox)

MutSwitch_NewRoomsOnly(old, c) ==
  CASE old = c.room -> <<>>
    [] old = NoRoom -> <<JoinMessage(c)>>
    [] OTHER -> <<LeaveMessage, JoinMessage(c)>>

\* The switch of room in one go: leave the old one, then join.
Switch(old, c) ==
  IF old \notin {NoRoom, c.room} THEN <<LeaveMessage, JoinMessage(c)>> ELSE <<JoinMessage(c)>>

ContextOf(line) ==
  [room |-> line.room, user |-> line.user, team |-> line.team, spectator |-> line.spectator,
   reveal |-> line.reveal, rev |-> line.rev]

RoomChange ==
  /\ TakeLine("room_change")
  /\ cache' = ContextOf(Line)
  /\ SendIfOpen(Switch(cache.room, ContextOf(Line)))
  /\ UNCHANGED <<link, inbox, down>>

MutLeaveCurrentRoom_Silent ==
  /\ TakeLine("room_leave")
  /\ cache' = [cache EXCEPT !.room = NoRoom, !.reveal = FALSE, !.rev = 0]
  /\ UNCHANGED <<up, link, inbox, down>>

LeaveCurrentRoom ==
  /\ TakeLine("room_leave")
  /\ cache' = [cache EXCEPT !.room = NoRoom, !.reveal = FALSE, !.rev = 0]
  /\ IF cache.room = NoRoom THEN UNCHANGED up ELSE SendIfOpen(<<LeaveMessage>>)
  /\ UNCHANGED <<link, inbox, down>>

\* Anything else goes out as it is, or is dropped while not connected.
ForwardLine ==
  /\ TakeLine("chat")
  /\ SendIfOpen(<<Line>>)
  /\ UNCHANGED <<cache, link, inbox, down>>

HandleLine == RoomChange \/ LeaveCurrentRoom \/ ForwardLine

----------------------------------------------------------------------------
(* The WebSocket *)

\* connect()
Dial(s) ==
  /\ link = Waiting
  /\ link' = [sock |-> s, state |-> "connecting"]
  /\ UNCHANGED <<cache, outbox, inbox, up, down>>

MutOnOpen_NoRejoin ==
  /\ link.state = "connecting"
  /\ link' = [link EXCEPT !.state = "open"]
  /\ UNCHANGED <<cache, outbox, inbox, up, down>>

OnOpen ==
  /\ link.state = "connecting"
  /\ link' = [link EXCEPT !.state = "open"]
  /\ IF cache.room = NoRoom THEN UNCHANGED up ELSE Send(<<JoinMessage(cache)>>)
  /\ UNCHANGED <<cache, outbox, inbox, down>>

\* The relay's close frame has been read: no longer OPEN, not yet closed.
OnClosing ==
  /\ IsOpen
  /\ link' = [link EXCEPT !.state = "closing"]
  /\ UNCHANGED <<cache, outbox, inbox, up, down>>

\* "close": a handshake ended, the connection broke, or the keepalive
\* terminated it.  The next connect() is scheduled.
OnClose ==
  /\ link # Waiting
  /\ link' = Waiting
  /\ UNCHANGED <<cache, outbox, inbox, up, down>>

\* presenceMatchesCurrentContext
MatchesCache(f) ==
  /\ cache.room # NoRoom /\ f.room = cache.room
  /\ f.rev = cache.rev /\ f.reveal = cache.reveal

\* "message": stale snapshots are dropped, the rest goes to the inbox, chat
\* without any look at the room.
OnMessage ==
  /\ link.state \in {"open", "closing"}
  /\ down[link.sock] # <<>>
  /\ down' = [down EXCEPT ![link.sock] = Tail(@)]
  /\ LET f == Head(down[link.sock]) IN
     IF f.kind = "presence" /\ ~MatchesCache(f) THEN UNCHANGED inbox
     ELSE Len(inbox) < MaxInbox /\ inbox' = Append(inbox, f)
  /\ UNCHANGED <<cache, link, outbox, up>>
=============================================================================
