---------------------------- MODULE RoomService ----------------------------
(***************************************************************************)
(* Abstract: what the relay promises its clients.  A room is whoever says  *)
(* that it is in it, and an address is charged for whoever is connected    *)
(* from it: there is no map of rooms, no counter, and nothing that could   *)
(* disagree with the sockets.  Whoever stays in a room that somebody left  *)
(* or entered, and whoever enters one, is sent snapshots and nothing else, *)
(* the last of them the roster that it may see once the change is done.    *)
(* Talk reaches the others of the room, once each, and team talk the team. *)
(*                                                                         *)
(* Relay implements it (RelayProofs, RelayIsRoomService).                  *)
(***************************************************************************)
EXTENDS Integers, Sequences, FiniteSets

CONSTANTS Socket, IpOf, Room, User, MaxConnsPerIp, NoRoom, NoTeam, NoUser

VARIABLES
  who,       \* where each socket is, and as whom
  phase,     \* absent, refused, open or closing
  mail,      \* what was sent to it and not yet received
  serving    \* FALSE while the service shuts down

serviceVars == <<who, phase, mail, serving>>

Team == {0, 1}

Context == [room: Room \cup {NoRoom}, user: User \cup {NoUser}, team: Team \cup {NoTeam},
            spectator: BOOLEAN, reveal: BOOLEAN, rev: Nat]

Nobody == [room |-> NoRoom, user |-> NoUser, team |-> NoTeam,
           spectator |-> FALSE, reveal |-> FALSE, rev |-> 0]

Connected(s) == phase[s] \in {"open", "closing"}

Load(address) == Cardinality({s \in Socket : IpOf[s] = address /\ Connected(s)})

Members(room) == {s \in Socket : who[s].room = room}

Init ==
  /\ who = [s \in Socket |-> Nobody]
  /\ phase = [s \in Socket |-> "absent"]
  /\ mail = [s \in Socket |-> <<>>]
  /\ serving = TRUE

----------------------------------------------------------------------------
(* Rosters *)

Standing(s) == [user |-> who[s].user, team |-> who[s].team, spectator |-> who[s].spectator]

SameSide(r, m) ==
  /\ ~who[r].spectator /\ ~who[m].spectator
  /\ who[r].team \in Team /\ who[m].team = who[r].team

Visible(r) ==
  {m \in Members(who[r].room) : phase[m] = "open" /\ (m = r \/ who[r].reveal \/ SameSide(r, m))}

\* A snapshot for r that lists the sockets seen.
Listing(r, seen) ==
  [kind |-> "presence", room |-> who[r].room, members |-> {Standing(m) : m \in seen},
   rev |-> who[r].rev, reveal |-> who[r].reveal, to |-> Standing(r)]

\* r is told: by snapshots only, none of which lists more than the last, and
\* the last is right.
Told(r) ==
  /\ Len(mail[r]) < Len(mail'[r])
  /\ \A i \in 1..Len(mail[r]) : mail'[r][i] = mail[r][i]
  /\ \A i \in Len(mail[r]) + 1..Len(mail'[r]) :
       \E seen \in SUBSET Visible(r)' : mail'[r][i] = Listing(r, seen)'
  /\ mail'[r][Len(mail'[r])] = Listing(r, Visible(r))'

\* Of the sockets in told, those open in the rooms are told, the others sent nothing.
Informed(told, places) ==
  \A r \in told : IF phase'[r] = "open" /\ who'[r].room \in places
                  THEN Told(r)
                  ELSE mail'[r] = mail[r]

----------------------------------------------------------------------------
(* Coming and going *)

Arrives(s) ==
  /\ serving /\ phase[s] = "absent"
  /\ who' = [who EXCEPT ![s] = Nobody]
  /\ phase' = [phase EXCEPT ![s] = IF Load(IpOf[s]) < MaxConnsPerIp THEN "open" ELSE "refused"]
  /\ UNCHANGED <<mail, serving>>

TurnedAway(s) ==
  /\ phase[s] = "refused"
  /\ phase' = [phase EXCEPT ![s] = "absent"]
  /\ UNCHANGED <<who, mail, serving>>

BeginsToGo(s) ==
  /\ phase[s] = "open"
  /\ phase' = [phase EXCEPT ![s] = "closing"]
  /\ UNCHANGED <<who, mail, serving>>

Goes(s) ==
  /\ Connected(s)
  /\ who' = [who EXCEPT ![s] = Nobody]
  /\ phase' = [phase EXCEPT ![s] = "absent"]
  /\ mail'[s] = <<>>
  /\ Informed(Socket \ {s}, {who[s].room} \ {NoRoom})
  /\ UNCHANGED serving

\* To another room, into none, or as somebody else; a closing socket too.
Moves(s) ==
  /\ Connected(s)
  /\ who'[s] \in Context /\ who' = [who EXCEPT ![s] = who'[s]]
  /\ Informed(Socket, {who[s].room, who'[s].room} \ {NoRoom})
  /\ UNCHANGED <<phase, serving>>

----------------------------------------------------------------------------
(* Talk *)

Hearers(s) == {r \in Members(who[s].room) \ {s} : phase[r] = "open"}

Sent(s, kind, audience, target, hearers) ==
  mail' = [r \in Socket |->
             IF r \in hearers
             THEN Append(mail[r], [kind |-> kind, room |-> who[s].room, from |-> Standing(s),
                                   to |-> Standing(r), audience |-> audience, target |-> target])
             ELSE mail[r]]

Says(s, kind) ==
  /\ Connected(s) /\ who[s].room # NoRoom
  /\ Sent(s, kind, "all", NoTeam, Hearers(s))
  /\ UNCHANGED <<who, phase, serving>>

\* To a team of the room: its own, unless a spectator speaks.
SaysToTeam(s, team) ==
  /\ Connected(s) /\ who[s].room # NoRoom
  /\ who[s].spectator \/ who[s].team = team
  /\ Sent(s, "chat", "team", team, {r \in Hearers(s) : who[r].team = team})
  /\ UNCHANGED <<who, phase, serving>>

Receives(s) ==
  /\ mail[s] # <<>>
  /\ mail' = [mail EXCEPT ![s] = Tail(@)]
  /\ UNCHANGED <<who, phase, serving>>

----------------------------------------------------------------------------
(* The service as a whole *)

Winds ==
  /\ serving /\ serving' = FALSE
  /\ phase' = [s \in Socket |-> IF phase[s] = "open" THEN "closing" ELSE phase[s]]
  /\ UNCHANGED <<who, mail>>

Forgets == Init'

Next ==
  \/ \E s \in Socket : \/ Arrives(s) \/ TurnedAway(s) \/ BeginsToGo(s) \/ Goes(s)
                       \/ Moves(s) \/ Receives(s)
  \/ \E s \in Socket, kind \in {"chat", "ping"} : Says(s, kind)
  \/ \E s \in Socket, team \in Team : SaysToTeam(s, team)
  \/ Winds
  \/ Forgets

Spec == Init /\ [][Next]_serviceVars
=============================================================================
